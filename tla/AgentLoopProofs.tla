-------------------------- MODULE AgentLoopProofs --------------------------
(***************************************************************************)
(* What the analysis loop guarantees for any budget, any posts and any     *)
(* replies and bills of the model.                                         *)
(***************************************************************************)
EXTENDS AgentLoop, FiniteSetTheorems, SequenceTheorems, TLAPS

-----------------------------------------------------------------------------
(* Arithmetic of the preflight *)

\* The smaller and the larger of two integers.
LEMMA MinMax ==
    ASSUME NEW a \in Int, NEW b \in Int
    PROVE  /\ Min2(a, b) \in {a, b} /\ Min2(a, b) <= a /\ Min2(a, b) <= b
           /\ Max2(a, b) \in {a, b} /\ Max2(a, b) >= a /\ Max2(a, b) >= b
BY DEF Min2, Max2

\* The share of one transport attempt, taken by all of them, is no more than the
\* whole.
LEMMA SharesFit ==
    ASSUME NEW x \in Int
    PROVE  /\ Attempts \in Nat \ {0}
           /\ x \div Attempts \in Int
           /\ Attempts * (x \div Attempts) <= x
<1>1. Attempts \in {1, 2, 3, 4, 5, 6}
  BY AttemptsAssumption
<1> QED
  BY <1>1

\* A multiple of the number of attempts.
LEMMA Multiples ==
    ASSUME NEW n \in Int
    PROVE  /\ Attempts * n \in Int /\ n * Attempts \in Int /\ 2 * n * Attempts = 2 * (n * Attempts)
           /\ n >= 0 => n * Attempts >= 0
           /\ \A m \in Int : n <= m => Attempts * n <= Attempts * m
<1>1. Attempts \in {1, 2, 3, 4, 5, 6}
  BY AttemptsAssumption
<1> QED
  BY <1>1

\* An estimate is a natural number.
LEMMA EstimateType ==
    ASSUME TypeOK, NEW base \in Nat
    PROVE  Estimate(base) \in Nat
<1>1. counter.ratio \in Nat
  BY DEF TypeOK
<1>2. base * counter.ratio \in Nat
  BY <1>1
<1>3. base * counter.ratio * 11 + 999 \in Nat
  BY <1>2
<1>4. \A n \in Nat : n \div 1000 \in Nat
  OBVIOUS
<1> QED
  BY <1>3, <1>4 DEF Estimate

\* So is a calibration.
LEMMA ObservedType ==
    ASSUME TypeOK, NEW percent \in Nat
    PROVE  Observed(percent) \in [ratio: Nat, observed: BOOLEAN]
<1>1. counter.ratio \in Nat /\ counter.observed \in BOOLEAN
  BY DEF TypeOK
<1>2. (counter.ratio * 9) \div 10 \in Nat
  BY <1>1
<1>3. Max2(25, Min2(400, percent)) \in Nat
  BY DEF Max2, Min2
<1>4. Max2(Max2(25, Min2(400, percent)), (counter.ratio * 9) \div 10) \in Nat
  BY <1>2, <1>3 DEF Max2
<1> QED
  BY <1>1, <1>3, <1>4 DEF Observed

-----------------------------------------------------------------------------
(* The conversation *)

\* Dropping the oldest rounds keeps the type of the history.
LEMMA CompactType ==
    ASSUME NEW h \in ConversationType, NEW keep \in {1, 2}
    PROVE  Compact(h, keep) \in ConversationType
<1>1. CASE Len(h.rounds) <= keep
  BY <1>1 DEF Compact
<1>2. CASE Len(h.rounds) > keep
  <2> DEFINE n == Len(h.rounds)
  <2>1. h.rounds \in Seq(RoundType) /\ n \in Nat /\ n > keep
    BY <1>2 DEF ConversationType
  <2>2. SubSeq(h.rounds, n - keep + 1, n) \in Seq(RoundType)
    BY <2>1, SubSeqProperties
  <2>3. h.rounds[n] \in RoundType /\ h.rounds[n-1] \in RoundType
    BY <2>1, ElementOfSeq
  <2>4. TailTokens(h.rounds, keep) \in Nat
    BY <2>3 DEF TailTokens, RoundType
  <2>5. Compact(h, keep) = [h EXCEPT !.rounds = SubSeq(h.rounds, n - keep + 1, n),
                                     !.tokens = TailTokens(h.rounds, keep)]
    BY <1>2, <2>1 DEF Compact, ConversationType
  <2> QED
    BY <2>2, <2>4, <2>5 DEF ConversationType
<1> QED
  <2>1. Len(h.rounds) \in Nat /\ keep \in Nat
    BY DEF ConversationType
  <2> QED
    BY <1>1, <1>2, <2>1

\* Appending a round keeps it too.
LEMMA AppendRoundType ==
    ASSUME NEW h \in ConversationType, NEW r \in RoundType
    PROVE  AppendRound(h, r) \in ConversationType
<1>1. Append(h.rounds, r) \in Seq(RoundType)
  BY AppendProperties DEF ConversationType
<1>2. h.tokens + r.tokens \in Nat
  BY DEF ConversationType, RoundType
<1> QED
  BY <1>1, <1>2 DEF AppendRound, ConversationType

-----------------------------------------------------------------------------
(* The preflight *)

\* The local count of a request is a natural number.
LEMMA WindowType ==
    ASSUME TypeOK, NEW h \in ConversationType, NEW fin \in BOOLEAN
    PROVE  WindowTokens(h, fin) \in Nat /\ EstimateOf(h, fin) \in Nat
<1>1. Cardinality(collector.matches) \in Nat
  <2>1. collector.matches \in SUBSET Jobs
    BY DEF TypeOK, CollectorType
  <2> QED
    BY <2>1, JobsAssumption, FS_Subset, FS_CardinalityType
<1>2. MatchTokens * Cardinality(collector.matches) \in Nat
  BY <1>1, TokenAssumption
<1>3. h.tokens \in Nat
  BY DEF ConversationType
<1>4. WindowTokens(h, fin) \in Nat
  BY <1>2, <1>3, TokenAssumption DEF WindowTokens
<1> QED
  BY <1>4, EstimateType DEF EstimateOf

\* What the preflight computes has its type; the amounts held back are never
\* negative.
LEMMA PreflightType ==
    ASSUME TypeOK
    PROVE  /\ FinalPhase \in BOOLEAN
           /\ Prepared \in ConversationType
           /\ Reserve \in Nat
           /\ Remaining \in Int
           /\ \A h \in ConversationType : Available(h) \in Int
<1>1. FinalByLimits \in BOOLEAN /\ MustFinalize \in BOOLEAN /\ FinalPhase \in BOOLEAN
  BY DEF FinalByLimits, MustFinalize, FinalPhase
<1>2. history \in ConversationType /\ Remaining \in Int
  <2>1. history \in ConversationType /\ spent \in Nat
    BY DEF TypeOK
  <2> QED
    BY <2>1, BudgetAssumption DEF Remaining
<1>3. Trimmed \in ConversationType
  BY <1>2, CompactType DEF Trimmed
<1>4. Squeezed \in ConversationType
  BY <1>3, CompactType DEF Squeezed
<1>5. Prepared \in ConversationType
  BY <1>4, CompactType DEF Prepared
<1>6. SubmissionReserve \in Nat
  <2> DEFINE est == EstimateOf(Trimmed, TRUE)
  <2>1. est \in Nat
    BY <1>3, WindowType
  <2> HIDE DEF est
  <2>2. 2 * (est + 4096) * Attempts \in Nat
    <3>1. est + 4096 \in Nat
      BY <2>1
    <3> DEFINE n == est + 4096
    <3> HIDE DEF n
    <3>2. n * Attempts \in Nat /\ 2 * n * Attempts = 2 * (n * Attempts)
      BY <3>1, Multiples DEF n
    <3> QED
      BY <3>2 DEF n
  <2>3. SubmissionReserve = 2 * (est + 4096) * Attempts
    BY Zenon DEF SubmissionReserve, est
  <2> QED
    BY <2>2, <2>3
<1>7. CorrectionReserve \in Nat
  <2> DEFINE est == EstimateOf(Squeezed, TRUE)
  <2>1. est \in Nat
    BY <1>4, WindowType
  <2> HIDE DEF est
  <2> DEFINE share == (est + 1024) * Attempts
  <2>2. share \in Nat /\ 2 * (est + 1024) * Attempts = 2 * share /\ (est + 4096) * Attempts \in Nat
    <3>1. est + 1024 \in Nat /\ est + 4096 \in Nat
      BY <2>1
    <3>2. share \in Nat /\ 2 * (est + 1024) * Attempts = 2 * share
      BY <3>1, Multiples
    <3>3. (est + 4096) * Attempts \in Nat
      BY <3>1, Multiples
    <3> QED
      BY <3>2, <3>3
  <2>3. CorrectionReserve =
          IF ~finalAttempted /\ MaxTurns - turns >= 2 /\ Remaining >= 2 * (est + 1024) * Attempts
          THEN Min2((est + 4096) * Attempts, Remaining - share) ELSE 0
    BY DEF CorrectionReserve, est
  <2> HIDE DEF share
  <2>4. CASE Remaining >= 2 * (est + 1024) * Attempts
    <3>1. Remaining - share \in Nat
      BY <2>2, <2>4, <1>2
    <3>2. Min2((est + 4096) * Attempts, Remaining - share) \in Nat
      BY <2>2, <3>1 DEF Min2
    <3> QED
      BY <2>3, <3>2
  <2> QED
    BY <2>3, <2>4
<1>8. Reserve \in Nat
  BY <1>6, <1>7 DEF Reserve
<1>9. ASSUME NEW h \in ConversationType PROVE Available(h) \in Int
  <2> DEFINE est == EstimateOf(h, FinalPhase)
  <2>1. est \in Nat
    BY <1>1, WindowType
  <2>2. (Remaining - Reserve) \div Attempts \in Int
    BY <1>2, <1>8, SharesFit
  <2>3. (Remaining - Reserve) \div Attempts - est \in Int /\ MaxContextTokens - est \in Int
    BY <2>1, <2>2, BudgetAssumption
  <2> QED
    BY <2>3, MinMax DEF Available
<1> QED
  BY <1>1, <1>2, <1>5, <1>8, <1>9

\* The first compaction of a preflight leaves a conversation.
LEMMA TrimmedType == ASSUME TypeOK PROVE Trimmed \in ConversationType
<1>1. history \in ConversationType
  BY DEF TypeOK
<1> QED
  BY <1>1, CompactType DEF Trimmed

\* What SendRequest puts into the request: a cap between 128 and 8192, shortened
\* below 1024 only when everything but task_done was accepted, that leaves room in
\* the window, and in the total for every transport attempt and the reserve.
LEMMA RequestBounds ==
    ASSUME TypeOK, Available(Prepared) >= MinimumOutput
    PROVE  LET limit == Min2(Available(Prepared), 8192)
               est   == EstimateOf(Prepared, FinalPhase)
           IN  /\ limit \in 128..8192
               /\ limit < 1024 => collector.profile /\ AllMatched(collector)
               /\ est + limit <= MaxContextTokens
               /\ spent + Attempts * (est + limit) + Reserve <= MaxTokens
<1> DEFINE limit == Min2(Available(Prepared), 8192)
           est   == EstimateOf(Prepared, FinalPhase)
           x     == Remaining - Reserve
<1>1. Prepared \in ConversationType /\ FinalPhase \in BOOLEAN /\ Available(Prepared) \in Int
  BY PreflightType
<1>2. est \in Nat /\ x \in Int
  BY <1>1, PreflightType, WindowType
<1>3. MinimumOutput \in {128, 1024} /\ (MinimumOutput = 128 => collector.profile /\ AllMatched(collector))
  BY DEF MinimumOutput
<1>4. limit \in Int /\ limit <= 8192 /\ limit <= Available(Prepared)
  BY <1>1, MinMax
<1>5. limit >= MinimumOutput
  BY <1>1, <1>3 DEF Min2
<1>6. Available(Prepared) <= MaxContextTokens - est /\ Available(Prepared) <= x \div Attempts - est
  BY <1>2, SharesFit, MinMax, BudgetAssumption DEF Available
<1>7. est + limit <= MaxContextTokens
  BY <1>1, <1>2, <1>4, <1>6, BudgetAssumption
<1>8. Attempts * (est + limit) <= x
  <2>1. est + limit <= x \div Attempts
    BY <1>1, <1>2, <1>4, <1>6, SharesFit
  <2>2. Attempts * (est + limit) <= Attempts * (x \div Attempts)
    <3>1. x \div Attempts \in Int /\ est + limit \in Int
      BY <1>2, <1>4, SharesFit
    <3> QED
      BY <2>1, <3>1, Multiples
  <2> QED
    BY <2>2, <1>2, <1>4, SharesFit
<1>9. spent + Attempts * (est + limit) + Reserve <= MaxTokens
  <2>1. est + limit \in Int
    BY <1>2, <1>4
  <2>2. Attempts * (est + limit) \in Int
    BY <2>1, Multiples
  <2>3. spent \in Nat /\ Reserve \in Nat
    BY PreflightType DEF TypeOK
  <2> QED
    BY <1>8, <2>2, <2>3, BudgetAssumption DEF Remaining
<1>10. limit \in 128..8192 /\ (limit < 1024 => collector.profile /\ AllMatched(collector))
  <2> HIDE DEF limit
  <2> QED
    BY <1>3, <1>4, <1>5
<1> QED
  BY <1>7, <1>9, <1>10

-----------------------------------------------------------------------------
(* The inductive invariant *)

\* While a request is out, a turn is left for it and it keeps the bounds it was
\* sent with; what is held back beside it is never negative.
RequestOut ==
    pc = "calling" =>
        /\ turns < MaxTurns
        /\ request.reserve \in Nat
        /\ RequestFits

\* The loop goes on only while the budget is kept, and has no result before it
\* returns.
OpenWhileWithinBudget ==
    pc # "returned" => spent <= MaxTokens /\ result = "none"

\* DONE was accepted only of a whole analysis.
DoneIsWhole ==
    collector.done /\ ~collector.failed => collector.profile /\ collector.matches = Jobs

IInv ==
    /\ TypeOK
    /\ RequestOut
    /\ OpenWhileWithinBudget
    /\ DoneIsWhole
    /\ HonestSpending
    /\ CompletedResultIsWhole

\* The task starts within it.
LEMMA InitIInv == Init => IInv
<1> SUFFICES ASSUME Init PROVE IInv
  OBVIOUS
<1>1. NewConversation \in ConversationType /\ NewCollector \in CollectorType
  BY EmptySeq DEF NewConversation, ConversationType, NewCollector, CollectorType
<1>2. TypeOK
  <2>1. counter \in [ratio: Nat, observed: BOOLEAN]
    BY DEF Init
  <2>2. request \in [base: Nat, limit: Int, reserve: Int, final: BOOLEAN, submission: Nat]
    BY DEF Init
  <2>3. round \in [tokens: Nat, lines: SUBSET Lines, progress: BOOLEAN, called: BOOLEAN,
                   explored: BOOLEAN]
    BY DEF Init, EmptyRound
  <2>4. final \in BOOLEAN /\ finalAttempted \in BOOLEAN /\ honest \in BOOLEAN
    BY Zenon DEF Init
  <2> QED
    BY <1>1, <2>1, <2>2, <2>3, <2>4, BudgetAssumption DEF Init, TypeOK, Results, ModelErrors, StopReasons
<1>3. RequestOut /\ HonestSpending
  BY BudgetAssumption DEF Init, RequestOut, HonestSpending
<1>4. OpenWhileWithinBudget /\ CompletedResultIsWhole
  BY BudgetAssumption DEF Init, OpenWhileWithinBudget, CompletedResultIsWhole
<1>5. DoneIsWhole
  BY DEF Init, DoneIsWhole, NewCollector
<1> QED
  BY <1>2, <1>3, <1>4, <1>5 DEF IInv

\* All posts have a match when as many have one as there are posts.
LEMMA AllMatchedIsJobs ==
    ASSUME TypeOK, AllMatched(collector)
    PROVE  collector.matches = Jobs
<1>1. collector.matches \in SUBSET Jobs
  BY DEF TypeOK, CollectorType
<1> QED
  BY <1>1, JobsAssumption, FS_Subset DEF AllMatched

-----------------------------------------------------------------------------
(* The bill *)

\* What one answer costs: a natural number, and no more than was set aside for all
\* attempts when the provider kept to the estimate and the cap.
LEMMA BillBound ==
    ASSUME IInv, pc = "calling",
           NEW attempts \in 1..Attempts, NEW input \in InputBills \cup {Unreported}, NEW text \in Nat
    PROVE  /\ Bill(attempts, input, text) \in Nat
           /\ ActualInput(input) \in Int
           /\ InputCost(input) <= Estimate(request.base) /\ text <= request.limit =>
                Bill(attempts, input, text) <= Attempts * (Estimate(request.base) + request.limit)
<1> DEFINE E == Estimate(request.base)
           L == request.limit
           I == InputCost(input)
<1>1. E \in Nat /\ L \in Nat /\ request.base \in Nat
  <2>1. TypeOK /\ request.base \in Nat
    BY DEF IInv, TypeOK
  <2>2. request \in [base: Nat, limit: Int, reserve: Int, final: BOOLEAN, submission: Nat] /\ request.limit >= 128
    BY DEF IInv, TypeOK, RequestOut, RequestFits
  <2>3. L \in Nat
    BY <2>2
  <2> QED
    BY <2>1, <2>3, EstimateType
<1>2. ActualInput(input) \in Int /\ I \in Nat
  <2>1. CASE input = Unreported
    <3>1. request.base * input \in Int
      BY <1>1, <2>1 DEF Unreported
    <3>2. ActualInput(input) \in Int
      BY <3>1 DEF ActualInput
    <3> QED
      BY <1>1, <2>1, <3>2 DEF InputCost
  <2>2. CASE input # Unreported
    <3>1. request.base * input \in Nat
      BY <1>1, <2>2, InputBillsAssumption
    <3>2. \A n \in Nat : n \div 100 \in Nat
      OBVIOUS
    <3> QED
      BY <2>2, <3>1, <3>2 DEF InputCost, ActualInput
  <2> QED
    BY <2>1, <2>2
<1>3. Bill(attempts, input, text) = (attempts - 1) * (E + L) + I + text
  BY Zenon DEF Bill
<1> HIDE DEF E, L, I
<1>4. Attempts \in {1, 2, 3, 4, 5, 6} /\ attempts \in {1, 2, 3, 4, 5, 6} /\ attempts <= Attempts
  BY AttemptsAssumption
<1>5. Bill(attempts, input, text) \in Nat
  BY <1>1, <1>2, <1>3, <1>4
<1>6. I <= E /\ text <= L => Bill(attempts, input, text) <= Attempts * (E + L)
  BY <1>1, <1>2, <1>3, <1>4
<1> QED
  BY <1>2, <1>5, <1>6 DEF E, L, I

\* A billed answer uses up one turn; while all bills were honest the total is kept.
LEMMA BilledKeeps ==
    ASSUME IInv, NEW attempts \in 1..Attempts, NEW input \in InputBills \cup {Unreported},
           NEW text \in Nat, Billed(attempts, input, text)
    PROVE  /\ turns' \in 0..MaxTurns
           /\ spent' \in Nat
           /\ finalAttempted' \in BOOLEAN
           /\ counter' \in [ratio: Nat, observed: BOOLEAN]
           /\ honest' \in BOOLEAN
           /\ honest' => spent' <= MaxTokens
<1>1. pc = "calling" /\ turns' = turns + 1 /\ spent' = spent + Bill(attempts, input, text)
  BY DEF Billed
<1>2. turns \in 0..MaxTurns /\ turns < MaxTurns /\ spent \in Nat
  BY <1>1 DEF IInv, TypeOK, RequestOut
<1>3. turns' \in 0..MaxTurns
  BY <1>1, <1>2, BudgetAssumption
<1>4. spent' \in Nat
  BY <1>1, <1>2, BillBound
<1>5. finalAttempted' \in BOOLEAN /\ honest' \in BOOLEAN
  BY Zenon DEF Billed
<1>6. counter' \in [ratio: Nat, observed: BOOLEAN]
  <2>1. CASE input # Unreported
    <3>1. input \in Nat
      BY <2>1, InputBillsAssumption
    <3> QED
      BY <3>1, ObservedType DEF Billed, IInv, TypeOK
  <2>2. CASE input = Unreported
    BY <2>2 DEF Billed, IInv, TypeOK
  <2> QED
    BY <2>1, <2>2
<1>7. ASSUME honest' PROVE spent' <= MaxTokens
  <2> DEFINE allowance == Attempts * (Estimate(request.base) + request.limit)
  <2>1. honest /\ text <= request.limit /\ InputCost(input) <= Estimate(request.base)
    BY <1>7 DEF Billed
  <2>2. Bill(attempts, input, text) \in Nat /\ Bill(attempts, input, text) <= allowance
    BY <1>1, <2>1, BillBound
  <2>3. allowance \in Int /\ request.reserve \in Nat
    <3>1. Estimate(request.base) + request.limit \in Int
      <4>1. TypeOK /\ request.base \in Nat /\ request.limit \in Int
        BY DEF IInv, TypeOK
      <4> QED
        BY <4>1, EstimateType
    <3> QED
      BY <1>1, <3>1, Multiples DEF IInv, RequestOut
  <2>4. spent + allowance + request.reserve <= MaxTokens
    BY <1>1, <2>1 DEF IInv, HonestSpending
  <2> HIDE DEF allowance
  <2> QED
    BY <1>1, <1>2, <2>2, <2>3, <2>4, BudgetAssumption
<1> QED
  BY <1>3, <1>4, <1>5, <1>6, <1>7

-----------------------------------------------------------------------------
(* Two ways a step can end *)

\* A step that returns without success and spends within the total when honest.
LEMMA ReturnKeeps ==
    ASSUME IInv, TypeOK', pc' = "returned", result' # "nil", UNCHANGED collector,
           honest' => spent' <= MaxTokens
    PROVE  IInv'
BY DEF IInv, RequestOut, OpenWhileWithinBudget, DoneIsWhole, HonestSpending, CompletedResultIsWhole

\* A step after which the loop goes on without a request being out.
LEMMA LoopKeeps ==
    ASSUME TypeOK', DoneIsWhole', pc' \in {"top", "tools"}, result' = "none", spent' <= MaxTokens
    PROVE  IInv'
BY DEF IInv, RequestOut, OpenWhileWithinBudget, HonestSpending, CompletedResultIsWhole

-----------------------------------------------------------------------------
(* The steps before an answer *)

\* Ending the task at the top of a turn.
LEMMA StopBeforeRequestKeeps == ASSUME IInv, StopBeforeRequest PROVE IInv'
<1>1. /\ pc' = "returned" /\ result' \in {"stopped", "deadline", "cancelled"}
      /\ stopReason' \in StopReasons \cup {"none"}
      /\ pc = "top"
  BY DEF StopBeforeRequest, Stop, Return, CtxErr, MayTurn, MayCall, MayStart, StopReasons
<1>2. UNCHANGED <<turns, calls, spent, repairs, final, finalAttempted, counter,
                  collector, history, request, round, ctx, honest>>
  BY DEF StopBeforeRequest
<1>3. TypeOK'
  BY <1>1, <1>2 DEF IInv, TypeOK, Results, ModelErrors
<1> QED
  BY <1>1, <1>2, <1>3, ReturnKeeps DEF IInv, HonestSpending

\* A preflight that finds no room.
LEMMA GiveUpKeeps == ASSUME IInv, GiveUp PROVE IInv'
<1>1. pc' = "returned" /\ result' = "stopped" /\ stopReason' \in StopReasons
  BY DEF GiveUp, Stop, Return, StopReasons
<1>2. UNCHANGED <<turns, calls, spent, repairs, finalAttempted, counter,
                  collector, request, round, ctx, honest>>
  BY DEF GiveUp
<1>3. final' \in BOOLEAN /\ history' \in ConversationType
  BY PreflightType DEF GiveUp, IInv
<1>4. TypeOK'
  BY <1>1, <1>2, <1>3 DEF IInv, TypeOK, Results, ModelErrors
<1> QED
  BY <1>1, <1>2, <1>4, ReturnKeeps DEF IInv, HonestSpending

\* A request goes out within the bounds of its preflight.
LEMMA SendRequestKeeps == ASSUME IInv, SendRequest PROVE IInv'
<1> DEFINE base  == WindowTokens(Prepared, FinalPhase)
           limit == Min2(Available(Prepared), 8192)
<1>1. UNCHANGED <<turns, calls, spent, repairs, finalAttempted, counter, collector,
                  round, ctx, honest, result, stopReason>>
  BY DEF SendRequest, Running
<1>2. /\ pc = "top" /\ pc' = "calling" /\ turns < MaxTurns /\ spent <= MaxTokens
      /\ result = "none"
  BY DEF SendRequest, MayRequest, MayStart, MayCall, MayTurn, IInv, OpenWhileWithinBudget
<1>3. /\ TypeOK
      /\ Prepared \in ConversationType /\ FinalPhase \in BOOLEAN /\ Reserve \in Nat
      /\ final' = FinalPhase /\ history' = Prepared
  BY PreflightType DEF SendRequest, IInv
<1>4. base \in Nat /\ EstimateOf(Trimmed, TRUE) \in Nat
  BY <1>3, TrimmedType, WindowType
<1>5. request' = [base |-> base, limit |-> limit, reserve |-> Reserve, final |-> FinalPhase,
                  submission |-> EstimateOf(Trimmed, TRUE)]
  BY DEF SendRequest
<1>6. /\ limit \in 128..8192
      /\ limit < 1024 => collector.profile /\ AllMatched(collector)
      /\ Estimate(base) + limit <= MaxContextTokens
      /\ spent + Attempts * (Estimate(base) + limit) + Reserve <= MaxTokens
  BY <1>3, RequestBounds DEF SendRequest, EstimateOf
<1> HIDE DEF base, limit
<1>7. limit \in Int /\ limit >= 128 /\ limit <= 8192
  BY <1>6
<1>8. request' \in [base: Nat, limit: Int, reserve: Int, final: BOOLEAN, submission: Nat]
  <2> DEFINE held == EstimateOf(Trimmed, TRUE)
  <2>1. held \in Nat
    BY <1>4
  <2>2. request' = [base |-> base, limit |-> limit, reserve |-> Reserve, final |-> FinalPhase,
                    submission |-> held]
    BY <1>5
  <2> HIDE DEF held
  <2> QED
    BY <1>3, <1>4, <1>7, <2>1, <2>2
<1>9. TypeOK'
  BY <1>1, <1>2, <1>3, <1>8 DEF TypeOK
<1>10. /\ request'.base = base /\ request'.limit = limit /\ request'.reserve = Reserve
  BY <1>5
<1>11. Estimate(request.base)' = Estimate(base)
  BY <1>1, <1>10 DEF Estimate
<1>12. collector.profile /\ AllMatched(collector) => collector.profile /\ collector.matches = Jobs
  BY <1>3, AllMatchedIsJobs
<1>13. RequestFits'
  BY <1>1, <1>2, <1>6, <1>7, <1>10, <1>11, <1>12 DEF RequestFits
<1>14. RequestOut'
  BY <1>1, <1>2, <1>3, <1>10, <1>13 DEF RequestOut
<1>15. HonestSpending'
  BY <1>1, <1>2, <1>6, <1>10, <1>11 DEF HonestSpending
<1>16. OpenWhileWithinBudget' /\ DoneIsWhole' /\ CompletedResultIsWhole'
  BY <1>1, <1>2 DEF IInv, OpenWhileWithinBudget, DoneIsWhole, CompletedResultIsWhole
<1> QED
  BY <1>9, <1>14, <1>15, <1>16 DEF IInv

-----------------------------------------------------------------------------
(* The answer *)

\* The output billed for a reply is a natural number.
LEMMA EmptyOrType ==
    ASSUME IInv, pc = "calling", NEW input, NEW text \in EmptyOr(input)
    PROVE  text \in Nat
<1>1. request \in [base: Nat, limit: Int, reserve: Int, final: BOOLEAN, submission: Nat] /\ request.limit >= 128
  BY DEF IInv, TypeOK, RequestOut, RequestFits
<1>2. request.limit \in Nat
  BY <1>1
<1> QED
  BY <1>2, TokenAssumption DEF EmptyOr

\* A bill beyond the total, or an answer that never came.
LEMMA FailedAnswerKeeps == ASSUME IInv, Overspend \/ ModelError PROVE IInv'
<1>1. PICK attempts \in 1..Attempts, input \in InputBills \cup {Unreported}, text \in Nat :
        Billed(attempts, input, text)
  <2>1. CASE Overspend
    <3>1. PICK attempts \in 1..Attempts, input \in InputBills : \E text \in EmptyOr(input) :
            Billed(attempts, input, text)
      BY <2>1 DEF Overspend
    <3>2. PICK text \in EmptyOr(input) : Billed(attempts, input, text)
      BY <3>1
    <3>3. text \in Nat
      BY <3>2, EmptyOrType DEF Billed
    <3> QED
      BY <3>2, <3>3
  <2>2. CASE ModelError
    <3>1. PICK attempts \in 1..Attempts : Billed(attempts, Unreported, request.limit)
      BY <2>2 DEF ModelError
    <3>2. request.limit \in EmptyOr(Unreported)
      BY DEF EmptyOr
    <3>3. request.limit \in Nat
      BY <3>1, <3>2, EmptyOrType DEF Billed
    <3> QED
      BY <3>1, <3>3
  <2> QED
    BY <2>1, <2>2
<1>2. /\ pc' = "returned" /\ result' \in {"stopped"} \cup ModelErrors
      /\ stopReason' \in {"token_limit", "model_error"}
      /\ UNCHANGED <<calls, repairs, final, collector, history, request, round, ctx>>
  BY DEF Overspend, ModelError, Stop, Return
<1>3. /\ turns' \in 0..MaxTurns
      /\ spent' \in Nat
      /\ finalAttempted' \in BOOLEAN
      /\ counter' \in [ratio: Nat, observed: BOOLEAN]
      /\ honest' \in BOOLEAN
      /\ honest' => spent' <= MaxTokens
  BY <1>1, BilledKeeps
<1>4. TypeOK'
  BY <1>2, <1>3 DEF IInv, TypeOK, Results, ModelErrors, StopReasons
<1> QED
  BY <1>2, <1>3, <1>4, ReturnKeeps DEF ModelErrors

\* A reply that is not a list of tool calls.
LEMMA MalformedReplyKeeps == ASSUME IInv, MalformedReply PROVE IInv'
<1>1. PICK attempts \in 1..Attempts, input \in InputBills : \E text \in EmptyOr(input) :
        Billed(attempts, input, text)
  BY DEF MalformedReply
<1>2. PICK text \in EmptyOr(input) : Billed(attempts, input, text)
  BY <1>1
<1>3. text \in Nat
  BY <1>2, EmptyOrType DEF Billed
<1>4. /\ turns' \in 0..MaxTurns
      /\ spent' \in Nat
      /\ finalAttempted' \in BOOLEAN
      /\ counter' \in [ratio: Nat, observed: BOOLEAN]
      /\ honest' \in BOOLEAN
      /\ honest' => spent' <= MaxTokens
  BY <1>2, <1>3, BilledKeeps
<1>5. spent' <= MaxTokens /\ UNCHANGED <<calls, final, collector, request, round, ctx>>
  BY <1>4, BudgetAssumption DEF MalformedReply, OverBudget
<1>6. CASE Return("invalid_output", "invalid_output") /\ UNCHANGED <<repairs, history>>
  <2>1. TypeOK'
    BY <1>4, <1>5, <1>6 DEF Return, IInv, TypeOK, Results, ModelErrors, StopReasons
  <2> QED
    BY <2>1, <1>5, <1>6, ReturnKeeps DEF Return
<1>7. CASE /\ ~RepairsExhausted
           /\ repairs' = repairs + 1
           /\ history' = [AppendRound(history, [tokens |-> FeedbackTokens, lines |-> {}])
                          EXCEPT !.noProgress = @ + 1]
           /\ pc' = "top"
           /\ Running
  <2> DEFINE h == AppendRound(history, [tokens |-> FeedbackTokens, lines |-> {}])
  <2>1. history \in ConversationType /\ repairs \in 0..2
    BY DEF IInv, TypeOK
  <2>2. [tokens |-> FeedbackTokens, lines |-> {}] \in RoundType
    BY TokenAssumption DEF RoundType
  <2>3. h \in ConversationType
    BY <2>1, <2>2, AppendRoundType
  <2> HIDE DEF h
  <2>4. [h EXCEPT !.noProgress = @ + 1] \in ConversationType
    BY <2>3 DEF ConversationType
  <2>5. repairs' \in 0..2
    BY <1>7, <2>1 DEF RepairsExhausted
  <2>6. history' \in ConversationType
    BY <1>7, <2>4 DEF h
  <2>7. TypeOK'
    BY <1>4, <1>5, <1>7, <2>5, <2>6 DEF Running, IInv, TypeOK
  <2>8. result' = "none" /\ DoneIsWhole'
    BY <1>2, <1>5, <1>7 DEF Running, Billed, IInv, OpenWhileWithinBudget, DoneIsWhole
  <2> QED
    BY <1>5, <1>7, <2>7, <2>8, LoopKeeps
<1> QED
  BY <1>6, <1>7 DEF MalformedReply

\* A reply whose calls are executed next.
LEMMA WellFormedReplyKeeps == ASSUME IInv, WellFormedReply PROVE IInv'
<1>1. PICK attempts \in 1..Attempts, input \in InputBills, text \in ReplyTokens :
        /\ Billed(attempts, input, text)
        /\ round' = [EmptyRound EXCEPT !.tokens = text]
  BY DEF WellFormedReply
<1>2. text \in Nat
  BY TokenAssumption
<1>3. /\ turns' \in 0..MaxTurns
      /\ spent' \in Nat
      /\ finalAttempted' \in BOOLEAN
      /\ counter' \in [ratio: Nat, observed: BOOLEAN]
      /\ honest' \in BOOLEAN
  BY <1>1, <1>2, BilledKeeps
<1>4. /\ spent' <= MaxTokens /\ pc' = "tools"
      /\ UNCHANGED <<calls, repairs, final, collector, history, request, ctx, result, stopReason>>
  BY <1>3, BudgetAssumption DEF WellFormedReply, OverBudget, Running
<1>5. round' \in [tokens: Nat, lines: SUBSET Lines, progress: BOOLEAN, called: BOOLEAN,
                  explored: BOOLEAN]
  BY <1>1, <1>2 DEF EmptyRound
<1>6. TypeOK'
  BY <1>3, <1>4, <1>5 DEF IInv, TypeOK
<1>7. result' = "none" /\ DoneIsWhole'
  BY <1>1, <1>4 DEF Billed, IInv, OpenWhileWithinBudget, DoneIsWhole
<1> QED
  BY <1>4, <1>6, <1>7, LoopKeeps

-----------------------------------------------------------------------------
(* The tool calls *)

\* A call that was made changes the round and the history within their types.
LEMMA CalledKeeps ==
    ASSUME IInv, NEW key \in SUBSET RepeatKeys, NEW lines \in SUBSET Lines,
           NEW tokens \in Nat, NEW explores \in BOOLEAN, NEW advanced \in BOOLEAN,
           Called(explores, key, lines, tokens, advanced), collector' \in CollectorType, DoneIsWhole'
    PROVE  IInv'
<1>1. /\ pc = "tools" /\ calls < MaxToolCalls /\ calls' = calls + 1
      /\ history' = [history EXCEPT !.seen = @ \cup key, !.read = @ \cup lines]
      /\ round' = [tokens   |-> round.tokens + tokens,
                   lines    |-> round.lines \cup lines,
                   progress |-> round.progress \/ advanced,
                   called   |-> TRUE,
                   explored |-> round.explored \/ explores]
      /\ UNCHANGED <<pc, turns, spent, repairs, final, finalAttempted, counter,
                     request, ctx, honest, result, stopReason>>
  BY DEF Called, MayExecute, Running
<1>2. calls' \in 0..MaxToolCalls
  BY <1>1, BudgetAssumption DEF IInv, TypeOK
<1>3. history' \in ConversationType
  BY <1>1 DEF IInv, TypeOK, ConversationType
<1>4. round.tokens + tokens \in Nat /\ round.lines \cup lines \in SUBSET Lines
  BY DEF IInv, TypeOK
<1>5. round' \in [tokens: Nat, lines: SUBSET Lines, progress: BOOLEAN, called: BOOLEAN,
                  explored: BOOLEAN]
  BY <1>1, <1>4
<1>6. TypeOK'
  BY <1>1, <1>2, <1>3, <1>5 DEF IInv, TypeOK
<1> QED
  BY <1>1, <1>6, LoopKeeps DEF IInv, OpenWhileWithinBudget

\* A call that leaves the collection alone: refused, read, searched, other.
LEMMA ReadOnlyCallKeeps ==
    ASSUME IInv, RefusedCall \/ ReadSections \/ SearchEvidence \/ OtherTool
    PROVE  IInv'
<1>1. collector' \in CollectorType /\ DoneIsWhole'
  BY DEF RefusedCall, ReadSections, SearchEvidence, OtherTool, IInv, TypeOK, DoneIsWhole
<1>2. CASE RefusedCall
  BY <1>1, <1>2, CalledKeeps, TokenAssumption DEF RefusedCall
<1>3. CASE ReadSections
  <2>1. PICK start \in Lines : \E end \in start..NumLines :
          Called(FALSE, {}, start..end, LineTokens * (end - start + 1),
                 BringsLines(history, start..end))
    BY <1>3 DEF ReadSections
  <2>2. PICK end \in start..NumLines :
          Called(FALSE, {}, start..end, LineTokens * (end - start + 1),
                 BringsLines(history, start..end))
    BY <2>1
  <2>3. start..end \in SUBSET Lines /\ end - start + 1 \in Nat
    BY NumLinesAssumption DEF Lines
  <2>4. LineTokens * (end - start + 1) \in Nat
    BY <2>3, TokenAssumption
  <2>5. BringsLines(history, start..end) \in BOOLEAN
    BY DEF BringsLines
  <2> QED
    BY <1>1, <2>2, <2>3, <2>4, <2>5, CalledKeeps
<1>4. CASE SearchEvidence
  <2>1. PICK found \in SUBSET Lines :
          Called(TRUE, {}, found, LineTokens * Cardinality(found), BringsLines(history, found))
    BY <1>4 DEF SearchEvidence
  <2>2. IsFiniteSet(Lines)
    BY NumLinesAssumption, FS_Interval DEF Lines
  <2>3. Cardinality(found) \in Nat
    BY <2>2, FS_Subset, FS_CardinalityType
  <2>4. LineTokens * Cardinality(found) \in Nat
    BY <2>3, TokenAssumption
  <2>5. BringsLines(history, found) \in BOOLEAN
    BY DEF BringsLines
  <2> QED
    BY <1>1, <2>1, <2>4, <2>5, CalledKeeps
<1>5. CASE OtherTool
  <2>1. PICK key \in RepeatKeys, ok \in BOOLEAN :
          Called(Explores(key), {key}, {}, FeedbackTokens, ok /\ key \notin history.seen)
    BY <1>5 DEF OtherTool
  <2>2. {key} \in SUBSET RepeatKeys /\ (ok /\ key \notin history.seen) \in BOOLEAN
    OBVIOUS
  <2>3. Explores(key) \in BOOLEAN
    BY DEF Explores
  <2> QED
    BY <1>1, <2>1, <2>2, <2>3, CalledKeeps, TokenAssumption
<1> QED
  BY <1>2, <1>3, <1>4, <1>5

\* A call that the collector accepts: DONE needs the profile and every match.
LEMMA AcceptedCallKeeps ==
    ASSUME IInv, CallSubmitProfile \/ CallSubmitMatches \/ CallTaskDone
    PROVE  IInv'
<1>1. TypeOK /\ collector \in CollectorType /\ DoneIsWhole
  BY DEF IInv, TypeOK
<1>2. Called(FALSE, {}, {}, FeedbackTokens, TRUE)
  BY DEF CallSubmitProfile, CallSubmitMatches, CallTaskDone
<1>3. CASE CallSubmitProfile
  <2>1. collector' = [collector EXCEPT !.profile = TRUE] /\ ~collector.done
    BY <1>3 DEF CallSubmitProfile, ProfileAccepted, SubmitProfile
  <2>2. collector' \in CollectorType /\ DoneIsWhole'
    BY <1>1, <2>1 DEF CollectorType, DoneIsWhole
  <2> QED
    BY <1>2, <2>2, CalledKeeps, TokenAssumption
<1>4. CASE CallSubmitMatches
  <2>1. PICK batch \in SUBSET Jobs :
          collector' = [collector EXCEPT !.matches = @ \cup batch] /\ ~collector.done
    BY <1>4 DEF CallSubmitMatches, MatchesAccepted, SubmitMatches
  <2>2. collector' \in CollectorType /\ DoneIsWhole'
    BY <1>1, <2>1 DEF CollectorType, DoneIsWhole
  <2> QED
    BY <1>2, <2>2, CalledKeeps, TokenAssumption
<1>5. CASE CallTaskDone
  <2>1. PICK status \in {"DONE", "FAILED"} :
          /\ FinishAccepted(collector, status)
          /\ collector' = [collector EXCEPT !.done = TRUE, !.failed = (status = "FAILED")]
    BY <1>5 DEF CallTaskDone, Finish
  <2>2. collector' \in CollectorType
    BY <1>1, <2>1 DEF CollectorType
  <2>3. ASSUME ~collector'.failed
        PROVE  collector'.profile /\ collector'.matches = Jobs
    <3>1. status # "FAILED"
      BY <1>1, <2>1, <2>3 DEF CollectorType
    <3>2. collector.profile /\ AllMatched(collector)
      BY <2>1, <3>1 DEF FinishAccepted
    <3> QED
      BY <1>1, <2>1, <3>2, AllMatchedIsJobs DEF CollectorType
  <2>4. DoneIsWhole'
    BY <2>3 DEF DoneIsWhole
  <2> QED
    BY <1>2, <2>2, <2>4, CalledKeeps, TokenAssumption
<1> QED
  BY <1>3, <1>4, <1>5

\* A call that ends the task: cut short, timed out, or not to be made at all.
LEMMA LastCallKeeps ==
    ASSUME IInv, CallCutShort \/ ToolTimesOut \/ CallNotMade
    PROVE  IInv'
<1>1. /\ pc = "tools" /\ pc' = "returned" /\ result' \in {"deadline", "cancelled", "invalid_output", "stopped"}
      /\ stopReason' \in {"none", "invalid_output", "tool_limit"}
      /\ UNCHANGED <<turns, spent, repairs, final, finalAttempted, counter, collector,
                     history, request, ctx, honest>>
  BY DEF CallCutShort, ToolTimesOut, CallNotMade, MayExecute, Return, Stop, CtxErr
<1>2. calls' = calls \/ (calls < MaxToolCalls /\ calls' = calls + 1)
  BY DEF CallCutShort, ToolTimesOut, CallNotMade, MayExecute
<1>3. calls' \in 0..MaxToolCalls
  BY <1>2, BudgetAssumption DEF IInv, TypeOK
<1>4. round' \in [tokens: Nat, lines: SUBSET Lines, progress: BOOLEAN, called: BOOLEAN,
                  explored: BOOLEAN]
  BY DEF CallCutShort, ToolTimesOut, CallNotMade, IInv, TypeOK
<1>5. TypeOK'
  BY <1>1, <1>3, <1>4 DEF IInv, TypeOK, Results, ModelErrors, StopReasons
<1> QED
  BY <1>1, <1>5, ReturnKeeps DEF IInv, HonestSpending

\* The end of a round, which may be the end of the task.
LEMMA EndRoundKeeps == ASSUME IInv, EndRound PROVE IInv'
<1> DEFINE h == AppendRound(history, [tokens |-> round.tokens, lines |-> round.lines])
<1>1. /\ pc = "tools" /\ round' = EmptyRound
      /\ history' = [h EXCEPT !.noProgress = IF round.progress THEN 0 ELSE @ + 1]
      /\ UNCHANGED <<turns, calls, spent, repairs, final, finalAttempted, counter, collector,
                     request, ctx, honest>>
  BY DEF EndRound
<1>2. spent <= MaxTokens /\ result = "none"
  BY <1>1 DEF IInv, OpenWhileWithinBudget
<1>3. history' \in ConversationType
  <2>1. history \in ConversationType /\ [tokens |-> round.tokens, lines |-> round.lines] \in RoundType
    BY DEF IInv, TypeOK, RoundType
  <2>2. h \in ConversationType
    BY <2>1, AppendRoundType
  <2> HIDE DEF h
  <2>3. h.noProgress + 1 \in Nat
    BY <2>2 DEF ConversationType
  <2> QED
    BY <1>1, <2>2, <2>3 DEF ConversationType
<1> HIDE DEF h
<1>4. round' \in [tokens: Nat, lines: SUBSET Lines, progress: BOOLEAN, called: BOOLEAN,
                  explored: BOOLEAN]
  BY <1>1 DEF EmptyRound
<1>5. CASE collector.done /\ collector.failed /\ Return("incomplete", "materials_incomplete")
  <2>1. TypeOK'
    BY <1>1, <1>3, <1>4, <1>5 DEF Return, IInv, TypeOK, Results, ModelErrors
  <2> QED
    BY <1>1, <1>5, <2>1, ReturnKeeps DEF Return, IInv, HonestSpending
<1>6. CASE collector.done /\ ~collector.failed /\ Return("nil", "none")
  <2>1. TypeOK'
    BY <1>1, <1>3, <1>4, <1>6 DEF Return, IInv, TypeOK, Results, ModelErrors
  <2>2. CompletedResultIsWhole'
    BY <1>1, <1>2, <1>6 DEF IInv, DoneIsWhole, CompletedResultIsWhole
  <2> QED
    BY <1>1, <1>2, <1>6, <2>1, <2>2
       DEF Return, IInv, RequestOut, OpenWhileWithinBudget, DoneIsWhole, HonestSpending
<1>7. CASE pc' = "top" /\ Running
  <2>1. TypeOK'
    BY <1>1, <1>3, <1>4, <1>7 DEF Running, IInv, TypeOK
  <2>2. DoneIsWhole' /\ result' = "none" /\ spent' <= MaxTokens
    BY <1>1, <1>2, <1>7 DEF Running, IInv, DoneIsWhole
  <2> QED
    BY <1>7, <2>1, <2>2, LoopKeeps
<1> QED
  BY <1>5, <1>6, <1>7 DEF EndRound

-----------------------------------------------------------------------------
(* Every step *)

\* The deadline, a cancellation and stuttering keep the invariant.
LEMMA ContextStepKeeps == ASSUME IInv, ContextStep \/ UNCHANGED vars PROVE IInv'
<1>1. ctx' \in {"live", "closing", "expired", "cancelled"}
  BY DEF ContextStep, vars, IInv, TypeOK
<1>2. UNCHANGED <<pc, turns, calls, spent, repairs, final, finalAttempted, counter,
                  collector, history, request, round, result, stopReason, honest>>
  BY DEF ContextStep, vars
<1>3. TypeOK'
  BY <1>1, <1>2 DEF IInv, TypeOK
<1>4. Estimate(request.base)' = Estimate(request.base)
  BY <1>2 DEF Estimate
<1> QED
  BY <1>2, <1>3, <1>4 DEF IInv, RequestOut, RequestFits, OpenWhileWithinBudget, DoneIsWhole,
     HonestSpending, CompletedResultIsWhole

\* Every step of the loop keeps the inductive invariant.
LEMMA NextIInv == IInv /\ [Next]_vars => IInv'
<1> SUFFICES ASSUME IInv, [Next]_vars PROVE IInv'
  OBVIOUS
<1>1. CASE StopBeforeRequest \/ GiveUp \/ SendRequest
  BY <1>1, StopBeforeRequestKeeps, GiveUpKeeps, SendRequestKeeps
<1>2. CASE Overspend \/ ModelError \/ MalformedReply \/ WellFormedReply
  BY <1>2, FailedAnswerKeeps, MalformedReplyKeeps, WellFormedReplyKeeps
<1>3. CASE ToolCall
  BY <1>3, ReadOnlyCallKeeps, AcceptedCallKeeps DEF ToolCall
<1>4. CASE CallCutShort \/ ToolTimesOut \/ CallNotMade \/ EndRound
  BY <1>4, LastCallKeeps, EndRoundKeeps
<1>5. CASE ContextStep \/ Returned \/ UNCHANGED vars
  BY <1>5, ContextStepKeeps DEF Returned
<1> QED
  BY <1>1, <1>2, <1>3, <1>4, <1>5 DEF Next, Turn

\* The inductive invariant holds throughout.
LEMMA Inductive == Spec => []IInv
BY InitIInv, NextIInv, PTL DEF Spec

-----------------------------------------------------------------------------
(* What follows *)

\* The type invariant holds for every budget and every reply.
THEOREM TypeCorrect == Spec => []TypeOK
BY Inductive, PTL DEF IInv

\* Whatever the budget and the provider's mixture of retries, refused calls and
\* silent bills, the total is kept as long as each bill is honest, and a request
\* that is out leaves room for all its transport attempts and the amount held
\* back (candidate.go:106-150).
THEOREM BudgetIsKept == Spec => []HonestSpending
BY Inductive, PTL DEF IInv

\* A request and its longest reply fit the context window, and a short reply is
\* asked for only when nothing but task_done is missing (candidate.go:126-150).
THEOREM WindowIsKept == Spec => []RequestFits
<1>1. IInv => RequestFits
  BY DEF IInv, RequestOut, RequestFits
<1> QED
  BY <1>1, Inductive, PTL

\* A task returns without an error only with a profile, a match for each post,
\* DONE declared and the total kept, honest bills or not (candidate.go:166,
\* 243-249; collector.go Finish).
THEOREM OnlyWholeResults == Spec => []CompletedResultIsWhole
BY Inductive, PTL DEF IInv

-----------------------------------------------------------------------------
(* The loop ends *)

\* The value of the variant at each point of the loop.
WorkAt ==
    /\ WorkLeft \in Nat
    /\ pc # "returned" => WorkLeft > 0
    /\ pc = "returned" => WorkLeft = 0
    /\ pc = "tools"   => WorkLeft = 4 + 3 * (MaxTurns - turns) + (MaxToolCalls - calls)
    /\ pc = "top"     => WorkLeft = 3 + 3 * (MaxTurns - turns) + (MaxToolCalls - calls)
    /\ pc = "calling" => WorkLeft = 2 + 3 * (MaxTurns - turns) + (MaxToolCalls - calls)

\* It has this value in every state of the right type.
LEMMA WorkValues == TypeOK => WorkAt
<1> SUFFICES ASSUME TypeOK PROVE WorkAt
  OBVIOUS
<1>1. MaxTurns - turns \in Nat /\ MaxToolCalls - calls \in Nat
  BY BudgetAssumption DEF TypeOK
<1>2. pc \in {"top", "calling", "tools", "returned"}
  BY DEF TypeOK
<1> QED
  BY <1>1, <1>2 DEF WorkAt, WorkLeft

\* How a step of the loop moves it on: it returns, or goes to the next point of a
\* turn and counts the turn and the call it makes.
Moves ==
    \/ /\ pc # "returned" /\ pc' = "returned"
       /\ turns' \in {turns, turns + 1} /\ calls' \in {calls, calls + 1}
    \/ pc = "top" /\ pc' = "calling" /\ UNCHANGED <<turns, calls>>
    \/ pc = "calling" /\ pc' \in {"top", "tools"} /\ turns' = turns + 1 /\ UNCHANGED calls
    \/ pc = "tools" /\ pc' = "tools" /\ calls' = calls + 1 /\ UNCHANGED turns
    \/ pc = "tools" /\ pc' = "top" /\ UNCHANGED <<turns, calls>>

\* Every step of the loop itself does.
LEMMA TurnMoves == ASSUME Turn PROVE Moves
<1>1. CASE StopBeforeRequest \/ GiveUp
  BY <1>1 DEF StopBeforeRequest, GiveUp, MayRequest, MayStart, MayCall, MayTurn, Stop, Return, Moves
<1>2. CASE SendRequest
  BY <1>2 DEF SendRequest, MayRequest, MayStart, MayCall, MayTurn, Moves
<1>3. CASE Overspend \/ ModelError
  BY <1>3 DEF Overspend, ModelError, Billed, Stop, Return, Moves
<1>4. CASE MalformedReply \/ WellFormedReply
  BY <1>4 DEF MalformedReply, WellFormedReply, Billed, Return, Moves
<1>5. CASE ToolCall
  BY <1>5 DEF ToolCall, RefusedCall, ReadSections, SearchEvidence, OtherTool, CallSubmitProfile,
              CallSubmitMatches, CallTaskDone, Called, MayExecute, Moves
<1>6. CASE CallCutShort \/ ToolTimesOut \/ CallNotMade
  BY <1>6 DEF CallCutShort, ToolTimesOut, CallNotMade, MayExecute, Return, Stop, CtxErr, Moves
<1>7. CASE EndRound
  BY <1>7 DEF EndRound, Return, Moves
<1> QED
  BY <1>1, <1>2, <1>3, <1>4, <1>5, <1>6, <1>7 DEF Turn

\* Every step of the loop itself lowers it.
LEMMA TurnUsesWork == ASSUME IInv, IInv', Turn PROVE WorkLeft' < WorkLeft
<1>1. TypeOK /\ WorkAt /\ WorkAt'
  <2>1. TypeOK' => WorkAt'
    BY WorkValues, PTL
  <2> QED
    BY <2>1, WorkValues DEF IInv
<1>2. turns \in Nat /\ calls \in Nat /\ turns' \in Nat /\ calls' \in Nat
  BY BudgetAssumption DEF IInv, TypeOK
<1>3. CASE pc # "returned" /\ pc' = "returned"
  <2>1. WorkLeft > 0 /\ WorkLeft \in Nat
    BY <1>1, <1>3 DEF WorkAt
  <2>2. WorkLeft' = 0
    BY <1>1, <1>3 DEF WorkAt
  <2> QED
    BY <2>1, <2>2
<1>4. CASE pc = "top" /\ pc' = "calling" /\ UNCHANGED <<turns, calls>>
  <2>1. WorkLeft = 3 + 3 * (MaxTurns - turns) + (MaxToolCalls - calls)
    BY <1>1, <1>4 DEF WorkAt
  <2>2. WorkLeft' = 2 + 3 * (MaxTurns - turns) + (MaxToolCalls - calls)
    BY <1>1, <1>4 DEF WorkAt
  <2> QED
    BY <1>2, <2>1, <2>2, BudgetAssumption
<1>5. CASE pc = "calling" /\ pc' \in {"top", "tools"} /\ turns' = turns + 1 /\ UNCHANGED calls
  <2>1. WorkLeft = 2 + 3 * (MaxTurns - turns) + (MaxToolCalls - calls)
    BY <1>1, <1>5 DEF WorkAt
  <2>2. WorkLeft' <= 4 + 3 * (MaxTurns - (turns + 1)) + (MaxToolCalls - calls)
    <3>1. CASE pc' = "top"
      <4>1. WorkLeft' = 3 + 3 * (MaxTurns - (turns + 1)) + (MaxToolCalls - calls)
        BY <1>1, <1>5, <3>1 DEF WorkAt
      <4> QED
        BY <4>1, <1>2, BudgetAssumption
    <3>2. CASE pc' = "tools"
      <4>1. WorkLeft' = 4 + 3 * (MaxTurns - (turns + 1)) + (MaxToolCalls - calls)
        BY <1>1, <1>5, <3>2 DEF WorkAt
      <4> QED
        BY <4>1, <1>2, BudgetAssumption
    <3> QED
      BY <1>5, <3>1, <3>2
  <2>3. WorkLeft \in Nat /\ WorkLeft' \in Nat
    <3>1. WorkLeft \in Nat
      BY <1>1 DEF WorkAt
    <3>2. WorkLeft' \in Nat
      BY <1>1 DEF WorkAt
    <3> QED
      BY <3>1, <3>2
  <2> QED
    BY <1>2, <2>1, <2>2, <2>3, BudgetAssumption
<1>6. CASE pc = "tools" /\ pc' = "tools" /\ calls' = calls + 1 /\ UNCHANGED turns
  <2>1. WorkLeft = 4 + 3 * (MaxTurns - turns) + (MaxToolCalls - calls)
    BY <1>1, <1>6 DEF WorkAt
  <2>2. WorkLeft' = 4 + 3 * (MaxTurns - turns) + (MaxToolCalls - (calls + 1))
    BY <1>1, <1>6 DEF WorkAt
  <2> QED
    BY <1>2, <2>1, <2>2, BudgetAssumption
<1>7. CASE pc = "tools" /\ pc' = "top" /\ UNCHANGED <<turns, calls>>
  <2>1. WorkLeft = 4 + 3 * (MaxTurns - turns) + (MaxToolCalls - calls)
    BY <1>1, <1>7 DEF WorkAt
  <2>2. WorkLeft' = 3 + 3 * (MaxTurns - turns) + (MaxToolCalls - calls)
    BY <1>1, <1>7 DEF WorkAt
  <2> QED
    BY <1>2, <2>1, <2>2, BudgetAssumption
<1> QED
  BY <1>3, <1>4, <1>5, <1>6, <1>7, TurnMoves DEF Moves

\* However the model answers, the loop has less to do after each of its steps: it
\* cannot go on forever, for any budget (candidate.go:79, 159, 195-198).
THEOREM TheLoopEnds == Spec => EveryStepUsesUpWork
<1>1. IInv /\ IInv' /\ [Next]_vars => [(ctx' = ctx) => (WorkLeft' < WorkLeft)]_vars
  <2> SUFFICES ASSUME IInv, IInv', Next, ctx' = ctx, ~UNCHANGED vars
               PROVE  WorkLeft' < WorkLeft
    OBVIOUS
  <2>1. ~ContextStep /\ ~Returned
    BY DEF ContextStep, Returned
  <2> QED
    BY <2>1, TurnUsesWork DEF Next
<1> QED
  BY <1>1, Inductive, PTL DEF Spec, EveryStepUsesUpWork

-----------------------------------------------------------------------------
(* Progress *)

\* No request is out and no call is made after three idle rounds, and a request
\* that is out after two of them asks to finish.
StallIsSeen ==
    /\ pc \in {"calling", "tools"} => history.noProgress < 3
    /\ pc = "calling" /\ history.noProgress >= 2 => request.final

\* A round that returned a line the model could not see has made progress.
ReadingIsCounted ==
    pc = "tools" => round.lines \subseteq ResidentLines(history) \/ round.progress

LInv == IInv /\ StallIsSeen /\ ReadingIsCounted

\* A compaction forgets rounds, and not how many of them were idle.
LEMMA CompactForgets ==
    ASSUME NEW h \in ConversationType, NEW keep \in {1, 2}
    PROVE  Compact(h, keep).noProgress = h.noProgress
BY DEF Compact, ConversationType

\* Neither does the preflight.
LEMMA PreflightForgets ==
    ASSUME TypeOK
    PROVE  Prepared.noProgress = history.noProgress
<1>1. history \in ConversationType
  BY DEF TypeOK
<1>2. Trimmed \in ConversationType /\ Trimmed.noProgress = history.noProgress
  BY <1>1, CompactType, CompactForgets DEF Trimmed
<1>3. Squeezed \in ConversationType /\ Squeezed.noProgress = history.noProgress
  BY <1>2, CompactType, CompactForgets DEF Squeezed
<1> QED
  BY <1>3, CompactForgets DEF Prepared

\* What a tool call that was made leaves behind: the lines it returned, and whether
\* it brought anything new.
Remembered(lines, advanced) ==
    /\ pc = "tools" /\ pc' = "tools" /\ UNCHANGED <<request, final>>
    /\ history'.noProgress = history.noProgress /\ history'.rounds = history.rounds
    /\ round'.lines = round.lines \cup lines
    /\ round'.progress = (round.progress \/ advanced)

\* Every call leaves that behind.
LEMMA CalledRemembers ==
    ASSUME TypeOK, NEW explores, NEW key, NEW lines, NEW tokens, NEW advanced,
           Called(explores, key, lines, tokens, advanced)
    PROVE  Remembered(lines, advanced)
<1>1. /\ history' = [history EXCEPT !.seen = @ \cup key, !.read = @ \cup lines]
      /\ round' = [tokens   |-> round.tokens + tokens,
                   lines    |-> round.lines \cup lines,
                   progress |-> round.progress \/ advanced,
                   called   |-> TRUE,
                   explored |-> round.explored \/ explores]
      /\ pc = "tools" /\ UNCHANGED <<pc, request, final>>
  BY DEF Called, MayExecute
<1>2. history \in ConversationType
  BY DEF TypeOK
<1>3. history'.noProgress = history.noProgress /\ history'.rounds = history.rounds
  BY <1>1, <1>2 DEF ConversationType
<1>4. round'.lines = round.lines \cup lines /\ round'.progress = (round.progress \/ advanced)
  BY <1>1, Zenon
<1> QED
  BY <1>1, <1>3, <1>4 DEF Remembered

\* A call that brings nothing new returns lines the model can see.
LEMMA CallRemembers ==
    ASSUME TypeOK, ToolCall
    PROVE  \E lines \in SUBSET Lines, advanced \in BOOLEAN :
              /\ Remembered(lines, advanced)
              /\ advanced \/ lines \subseteq ResidentLines(history)
<1>1. CASE RefusedCall \/ CallSubmitProfile \/ CallSubmitMatches \/ CallTaskDone
  <2>1. PICK advanced \in BOOLEAN : Called(FALSE, {}, {}, FeedbackTokens, advanced)
    <3>1. Called(FALSE, {}, {}, FeedbackTokens, FALSE) \/ Called(FALSE, {}, {}, FeedbackTokens, TRUE)
      BY <1>1 DEF RefusedCall, CallSubmitProfile, CallSubmitMatches, CallTaskDone
    <3> QED
      BY <3>1
  <2>2. {} \in SUBSET Lines /\ {} \subseteq ResidentLines(history)
    OBVIOUS
  <2>3. Remembered({}, advanced)
    BY <2>1, CalledRemembers
  <2> QED
    BY <2>2, <2>3
<1>2. CASE ReadSections \/ SearchEvidence
  <2>1. \E lines \in SUBSET Lines : \E explores, tokens : Called(explores, {}, lines, tokens, BringsLines(history, lines))
    <3>1. CASE ReadSections
      <4>1. PICK start \in Lines : \E end \in start..NumLines :
              Called(FALSE, {}, start..end, LineTokens * (end - start + 1),
                     BringsLines(history, start..end))
        BY <3>1 DEF ReadSections
      <4>2. PICK end \in start..NumLines :
              Called(FALSE, {}, start..end, LineTokens * (end - start + 1),
                     BringsLines(history, start..end))
        BY <4>1
      <4>3. start..end \in SUBSET Lines
        BY NumLinesAssumption DEF Lines
      <4> QED
        BY <4>2, <4>3
    <3>2. CASE SearchEvidence
      BY <3>2 DEF SearchEvidence
    <3> QED
      BY <1>2, <3>1, <3>2
  <2>2. PICK lines \in SUBSET Lines : \E explores, tokens : Called(explores, {}, lines, tokens, BringsLines(history, lines))
    BY <2>1
  <2>3. PICK explores, tokens : Called(explores, {}, lines, tokens, BringsLines(history, lines))
    BY <2>2
  <2>4. PICK advanced \in BOOLEAN : advanced = BringsLines(history, lines)
    BY DEF BringsLines
  <2>5. advanced \/ lines \subseteq ResidentLines(history)
    BY <2>4 DEF BringsLines
  <2>6. Remembered(lines, advanced)
    BY <2>3, <2>4, CalledRemembers
  <2> QED
    BY <2>5, <2>6
<1>3. CASE OtherTool
  <2>1. PICK key \in RepeatKeys, ok \in BOOLEAN :
          Called(Explores(key), {key}, {}, FeedbackTokens, ok /\ key \notin history.seen)
    BY <1>3 DEF OtherTool
  <2>2. PICK advanced \in BOOLEAN : advanced = (ok /\ key \notin history.seen)
    OBVIOUS
  <2>3. Remembered({}, advanced)
    BY <2>1, <2>2, CalledRemembers
  <2>4. {} \in SUBSET Lines /\ {} \subseteq ResidentLines(history)
    OBVIOUS
  <2> QED
    BY <2>3, <2>4
<1> QED
  BY <1>1, <1>2, <1>3 DEF ToolCall

\* The task starts with nothing read and no idle round.
LEMMA InitLInv == Init => LInv
<1>1. Init => StallIsSeen /\ ReadingIsCounted
  BY DEF Init, StallIsSeen, ReadingIsCounted
<1> QED
  BY <1>1, InitIInv DEF LInv

\* Every step keeps track of the idle rounds and of the lines of the round.
LEMMA NextLInv == LInv /\ [Next]_vars => LInv'
<1> SUFFICES ASSUME LInv, [Next]_vars PROVE LInv'
  OBVIOUS
<1>1. IInv' /\ TypeOK /\ history \in ConversationType /\ history.noProgress \in Nat
  BY NextIInv DEF LInv, IInv, TypeOK, ConversationType
<1>2. CASE pc' \in {"top", "returned"}
  BY <1>1, <1>2 DEF LInv, StallIsSeen, ReadingIsCounted
<1>3. CASE SendRequest
  <2>1. /\ pc' = "calling" /\ history.noProgress < 3
        /\ history' = Prepared /\ request'.final = FinalPhase
    BY <1>3 DEF SendRequest, MayRequest
  <2>2. history'.noProgress = history.noProgress
    BY <1>1, <2>1, PreflightForgets
  <2>3. history.noProgress >= 2 => request'.final
    BY <2>1 DEF FinalPhase, FinalByLimits
  <2> QED
    BY <1>1, <2>1, <2>2, <2>3 DEF LInv, StallIsSeen, ReadingIsCounted
<1>4. CASE WellFormedReply
  <2>1. pc = "calling" /\ pc' = "tools" /\ history' = history /\ round'.lines = {}
    BY <1>4 DEF WellFormedReply, Billed, EmptyRound
  <2> QED
    BY <1>1, <2>1 DEF LInv, StallIsSeen, ReadingIsCounted
<1>5. CASE ToolCall
  <2>1. PICK lines \in SUBSET Lines, advanced \in BOOLEAN :
          /\ Remembered(lines, advanced)
          /\ advanced \/ lines \subseteq ResidentLines(history)
    BY <1>1, <1>5, CallRemembers
  <2>2. /\ pc = "tools" /\ pc' = "tools" /\ history'.noProgress = history.noProgress
        /\ round'.lines = round.lines \cup lines /\ round'.progress = (round.progress \/ advanced)
        /\ history'.rounds = history.rounds
    BY <2>1 DEF Remembered
  <2>3. ResidentLines(history)' = ResidentLines(history)
    BY <2>2, Zenon DEF ResidentLines
  <2>4. CASE round.progress \/ advanced
    BY <1>1, <2>2, <2>4 DEF LInv, StallIsSeen, ReadingIsCounted
  <2>5. CASE ~round.progress /\ ~advanced
    <3>1. round.lines \cup lines \subseteq ResidentLines(history)
      BY <2>1, <2>2, <2>5 DEF LInv, ReadingIsCounted
    <3> QED
      BY <1>1, <2>2, <2>3, <3>1 DEF LInv, StallIsSeen, ReadingIsCounted
  <2> QED
    BY <2>4, <2>5
<1>6. CASE ContextStep \/ UNCHANGED vars
  <2>1. UNCHANGED <<pc, history, request, round>>
    BY <1>6 DEF ContextStep, vars
  <2>2. ResidentLines(history)' = ResidentLines(history)
    BY <2>1 DEF ResidentLines
  <2> QED
    BY <1>1, <2>1, <2>2 DEF LInv, StallIsSeen, ReadingIsCounted
<1>7. StopBeforeRequest \/ GiveUp \/ Overspend \/ ModelError \/ MalformedReply
        \/ CallCutShort \/ ToolTimesOut \/ CallNotMade \/ EndRound => pc' \in {"top", "returned"}
  BY DEF StopBeforeRequest, GiveUp, Overspend, ModelError, MalformedReply, CallCutShort,
         ToolTimesOut, CallNotMade, EndRound, Stop, Return
<1> QED
  BY <1>2, <1>3, <1>4, <1>5, <1>6, <1>7 DEF Next, Turn, Returned

\* They are right throughout.
LEMMA ProgressIsKnown == Spec => []LInv
BY InitLInv, NextLInv, PTL DEF Spec

\* Three idle rounds end the task, however the model fills them: no turn and no
\* call after them, and the request after two of them asks to finish
\* (candidate.go:91-94).
THEOREM IdleRoundsEndTheTask == Spec => StallEndsTheTask
<1> DEFINE Ends == /\ history.noProgress >= 3 => turns' = turns /\ calls' = calls
                   /\ (pc' = "calling" /\ history.noProgress = 2) => request'.final
<1>1. LInv /\ LInv' /\ [Next]_vars => [Ends]_vars
  <2> SUFFICES ASSUME LInv, LInv', Next PROVE Ends
    OBVIOUS
  <2>1. TypeOK /\ history.noProgress \in Nat
    BY DEF LInv, IInv, TypeOK, ConversationType
  <2>2. ASSUME history.noProgress >= 3
        PROVE  turns' = turns /\ calls' = calls
    <3>1. ~(pc = "calling") /\ ~(pc = "tools")
      BY <2>1, <2>2 DEF LInv, StallIsSeen
    <3>2. CASE StopBeforeRequest \/ GiveUp \/ SendRequest \/ ContextStep \/ Returned
      <4>1. ASSUME SendRequest PROVE turns' = turns /\ calls' = calls
        <5>1. UNCHANGED <<turns, calls, spent, repairs, finalAttempted, counter, collector,
                          round, ctx, honest>>
          BY <4>1, Zenon DEF SendRequest
        <5> QED
          BY <5>1
      <4> QED
        BY <3>2, <4>1 DEF StopBeforeRequest, GiveUp, ContextStep, Returned, vars
    <3>3. ~(Overspend \/ ModelError \/ MalformedReply \/ WellFormedReply)
      BY <3>1 DEF Overspend, ModelError, MalformedReply, WellFormedReply, Billed
    <3>4. ~(CallCutShort \/ ToolTimesOut \/ CallNotMade \/ EndRound)
      BY <3>1 DEF CallCutShort, ToolTimesOut, CallNotMade, EndRound, MayExecute
    <3>5. ~ToolCall
      BY <2>1, <3>1, CallRemembers DEF Remembered
    <3> QED
      BY <3>2, <3>3, <3>4, <3>5 DEF Next, Turn
  <2>3. ASSUME pc' = "calling", history.noProgress = 2
        PROVE  request'.final
    <3>1. history'.noProgress = 2
      <4>1. CASE SendRequest
        BY <2>1, <2>3, <4>1, PreflightForgets DEF SendRequest
      <4>2. CASE ContextStep \/ Returned
        BY <2>3, <4>2 DEF ContextStep, Returned, vars
      <4>3. ~ToolCall
        BY <2>1, <2>3, CallRemembers DEF Remembered
      <4>4. ~(StopBeforeRequest \/ GiveUp \/ Overspend \/ ModelError \/ MalformedReply
                \/ WellFormedReply \/ CallCutShort \/ ToolTimesOut \/ CallNotMade \/ EndRound)
        BY <2>3 DEF StopBeforeRequest, GiveUp, Overspend, ModelError, MalformedReply, WellFormedReply,
                    CallCutShort, ToolTimesOut, CallNotMade, EndRound, Stop, Return
      <4> QED
        BY <4>1, <4>2, <4>3, <4>4 DEF Next, Turn
    <3> QED
      BY <2>3, <3>1 DEF LInv, StallIsSeen
  <2> QED
    BY <2>2, <2>3
<1> QED
  BY <1>1, ProgressIsKnown, PTL DEF Spec, StallEndsTheTask

\* A round whose lines the model could no longer see is never counted as idle,
\* read before or not, however the calls of the round are ordered
\* (context.go:62-63).
THEOREM ReadingAgainIsProgress == Spec => RereadingIsProgress
<1> DEFINE Counts == (/\ pc = "tools" /\ history'.rounds # history.rounds
                      /\ ~(round.lines \subseteq ResidentLines(history)))
                     => history'.noProgress = 0
<1>1. LInv /\ [Next]_vars => [Counts]_vars
  <2> SUFFICES ASSUME LInv, Next, pc = "tools", history'.rounds # history.rounds,
                      ~(round.lines \subseteq ResidentLines(history))
               PROVE  history'.noProgress = 0
    BY DEF Counts
  <2>1. TypeOK /\ round.progress
    BY DEF LInv, IInv, ReadingIsCounted
  <2>2. ~ToolCall
    BY <2>1, CallRemembers DEF Remembered
  <2>3. ~(StopBeforeRequest \/ GiveUp \/ SendRequest \/ Overspend \/ ModelError \/ MalformedReply
            \/ WellFormedReply)
    BY DEF StopBeforeRequest, GiveUp, SendRequest, Overspend, ModelError, MalformedReply,
           WellFormedReply, Billed, MayRequest, MayStart, MayCall, MayTurn
  <2>4. ~(CallCutShort \/ ToolTimesOut \/ CallNotMade \/ ContextStep \/ Returned)
    BY DEF CallCutShort, ToolTimesOut, CallNotMade, ContextStep, Returned, vars
  <2>5. EndRound
    BY <2>2, <2>3, <2>4 DEF Next, Turn
  <2> DEFINE h == AppendRound(history, [tokens |-> round.tokens, lines |-> round.lines])
  <2>6. h \in ConversationType
    BY <2>1, AppendRoundType DEF TypeOK, RoundType
  <2>7. history' = [h EXCEPT !.noProgress = 0]
    BY <2>1, <2>5 DEF EndRound
  <2> HIDE DEF h
  <2> QED
    BY <2>6, <2>7 DEF ConversationType
<1> QED
  BY <1>1, ProgressIsKnown, PTL DEF Spec, RereadingIsProgress

-----------------------------------------------------------------------------
(* The finishing phase and the end of the context *)

\* The phase of the loop is that of the request being answered, and was the phase
\* of every final request before it.  Exploring tools have run only in the round
\* that is being executed, and not in the finishing phase.
PhaseIsKept ==
    /\ pc = "calling" => request.final = final
    /\ finalAttempted => final
    /\ round.explored => ~final /\ pc \in {"tools", "returned"}

\* The calls of a round explore only while the loop is not finishing.
LEMMA CallsKeepPhase == ASSUME TypeOK, PhaseIsKept, ToolCall PROVE PhaseIsKept'
<1>1. PICK explores, key, lines, tokens, advanced :
        /\ explores \in BOOLEAN /\ ~(final /\ explores)
        /\ Called(explores, key, lines, tokens, advanced)
  <2>1. CASE RefusedCall \/ CallSubmitProfile \/ CallSubmitMatches \/ CallTaskDone \/ ReadSections
    <3>1. \E key, lines, tokens, advanced : Called(FALSE, key, lines, tokens, advanced)
      BY <2>1 DEF RefusedCall, CallSubmitProfile, CallSubmitMatches, CallTaskDone, ReadSections
    <3> QED
      BY <3>1
  <2>2. CASE SearchEvidence
    <3>1. (\E key, lines, tokens, advanced : Called(TRUE, key, lines, tokens, advanced)) /\ ~final
      BY <2>2 DEF SearchEvidence
    <3> QED
      BY <3>1
  <2>3. CASE OtherTool
    <3>1. PICK k \in RepeatKeys :
            /\ ~(final /\ Explores(k))
            /\ \E key, lines, tokens, advanced : Called(Explores(k), key, lines, tokens, advanced)
      BY <2>3 DEF OtherTool
    <3>2. Explores(k) \in BOOLEAN
      BY DEF Explores
    <3> QED
      BY <3>1, <3>2
  <2> QED
    BY <2>1, <2>2, <2>3 DEF ToolCall
<1>2. round'.explored = (round.explored \/ explores)
  <2>1. round' = [tokens   |-> round.tokens + tokens,
                  lines    |-> round.lines \cup lines,
                  progress |-> round.progress \/ advanced,
                  called   |-> TRUE,
                  explored |-> round.explored \/ explores]
    BY <1>1 DEF Called
  <2> QED
    BY <2>1, Zenon
<1>3. pc = "tools" /\ UNCHANGED <<pc, final, finalAttempted, request>>
  BY <1>1 DEF Called, MayExecute
<1> QED
  BY <1>1, <1>2, <1>3 DEF PhaseIsKept

\* Every step keeps to the phase.
LEMMA NextPhase == ASSUME TypeOK, PhaseIsKept, [Next]_vars PROVE PhaseIsKept'
<1>1. CASE ToolCall
  BY <1>1, CallsKeepPhase
<1>2. CASE GiveUp \/ SendRequest
  <2>1. pc = "top" /\ ~round.explored /\ (final => FinalPhase)
    BY <1>2 DEF PhaseIsKept, GiveUp, SendRequest, MayRequest, MayStart, MayCall, MayTurn,
                FinalPhase, FinalByLimits
  <2>2. /\ final' = FinalPhase /\ UNCHANGED <<round, finalAttempted>>
        /\ pc' = "calling" => request'.final = FinalPhase
    <3>1. CASE GiveUp
      BY <3>1 DEF GiveUp, Stop, Return
    <3>2. CASE SendRequest
      BY <3>2, Zenon DEF SendRequest
    <3> QED
      BY <1>2, <3>1, <3>2
  <2> QED
    BY <2>1, <2>2 DEF PhaseIsKept
<1>3. CASE Overspend \/ ModelError \/ MalformedReply
  <2>1. pc = "calling" /\ finalAttempted' = (finalAttempted \/ final)
    BY <1>3 DEF Overspend, ModelError, MalformedReply, Billed
  <2>2. UNCHANGED <<final, round>> /\ pc' # "calling"
    BY <1>3 DEF Overspend, ModelError, MalformedReply, Stop, Return
  <2> QED
    BY <2>1, <2>2 DEF PhaseIsKept
<1>4. CASE WellFormedReply
  <2>1. /\ finalAttempted' = (finalAttempted \/ final) /\ ~round'.explored
        /\ UNCHANGED final /\ pc' = "tools"
    BY <1>4 DEF WellFormedReply, Billed, EmptyRound
  <2> QED
    BY <2>1 DEF PhaseIsKept
<1>5. CASE ToolTimesOut
  <2>1. /\ ~final /\ pc' = "returned" /\ UNCHANGED <<final, finalAttempted>>
    BY <1>5 DEF ToolTimesOut, Return
  <2> QED
    BY <2>1 DEF PhaseIsKept
<1>6. CASE EndRound
  <2>1. ~round'.explored /\ UNCHANGED <<final, finalAttempted>> /\ pc' # "calling"
    BY <1>6 DEF EndRound, EmptyRound, Return
  <2> QED
    BY <2>1 DEF PhaseIsKept
<1>7. CASE StopBeforeRequest \/ CallCutShort \/ CallNotMade
  <2>1. pc' = "returned" /\ UNCHANGED <<final, finalAttempted, round>>
    BY <1>7 DEF StopBeforeRequest, CallCutShort, CallNotMade, Stop, Return
  <2> QED
    BY <2>1 DEF PhaseIsKept
<1>8. CASE ContextStep \/ Returned \/ UNCHANGED vars
  BY <1>8 DEF ContextStep, Returned, vars, PhaseIsKept
<1> QED
  BY <1>1, <1>2, <1>3, <1>4, <1>5, <1>6, <1>7, <1>8 DEF Next, Turn

\* Once a final request was answered the whole catalog is never offered again and no
\* exploring tool is executed, whatever progress, repair or compaction follows
\* (candidate.go:94, 110, 204).
THEOREM FinishingGoesOn == Spec => []FinishingIsIrrevocable
<1>1. Init => PhaseIsKept
  BY DEF Init, EmptyRound, PhaseIsKept
<1>2. IInv /\ PhaseIsKept /\ [Next]_vars => PhaseIsKept'
  BY NextPhase DEF IInv
<1>3. PhaseIsKept => FinishingIsIrrevocable
  BY DEF PhaseIsKept, FinishingIsIrrevocable
<1> QED
  BY <1>1, <1>2, <1>3, Inductive, PTL DEF Spec

\* Once the context of the task has ended, a request may still be out, and no other
\* is sent; what was collected stays as it is (candidate.go:80, tools.go:35).
THEOREM NothingAfterTheEnd == Spec => NothingAcceptedAfterContextEnds
<1> DEFINE Idle == (ctx \in {"expired", "cancelled"}) =>
                      /\ collector' = collector
                      /\ pc' = "calling" => pc = "calling"
<1>1. [Next]_vars => [Idle]_vars
  <2> SUFFICES ASSUME Next, ctx \in {"expired", "cancelled"}
               PROVE  /\ collector' = collector
                      /\ pc' = "calling" => pc = "calling"
    BY DEF Idle
  <2>1. CtxEnded
    BY DEF CtxEnded
  <2>2. CASE ToolCall
    <3>1. RefusedCall
      BY <2>1, <2>2 DEF ToolCall, ReadSections, SearchEvidence, OtherTool, CallSubmitProfile,
                        CallSubmitMatches, CallTaskDone
    <3> QED
      BY <3>1 DEF RefusedCall, Called
  <2>3. ~SendRequest
    BY <2>1 DEF SendRequest, MayRequest, MayStart, MayCall, MayTurn
  <2>4. CASE StopBeforeRequest \/ GiveUp \/ Overspend \/ ModelError \/ MalformedReply
               \/ WellFormedReply
    BY <2>4 DEF StopBeforeRequest, GiveUp, Overspend, ModelError, MalformedReply, WellFormedReply,
                Stop, Return
  <2>5. CASE CallCutShort \/ ToolTimesOut \/ CallNotMade \/ EndRound \/ ContextStep \/ Returned
    BY <2>5 DEF CallCutShort, ToolTimesOut, CallNotMade, EndRound, ContextStep, Returned, vars,
                Stop, Return
  <2> QED
    BY <2>2, <2>3, <2>4, <2>5 DEF Next, Turn
<1> QED
  BY <1>1, PTL DEF Spec, NothingAcceptedAfterContextEnds

-----------------------------------------------------------------------------
(* What is held back for the final submission *)

\* The last rounds of a history, as far as a compaction keeps them, are no more
\* than the whole of it.
Sized(h) ==
    LET n == Len(h.rounds)
    IN  /\ n >= 1 => h.rounds[n].tokens <= h.tokens
        /\ n >= 2 => h.rounds[n-1].tokens + h.rounds[n].tokens <= h.tokens

\* A compaction never makes a request longer.
LEMMA CompactShrinks ==
    ASSUME NEW h \in ConversationType, NEW keep \in {1, 2}, Sized(h)
    PROVE  Sized(Compact(h, keep)) /\ Compact(h, keep).tokens <= h.tokens
<1>1. h.rounds \in Seq(RoundType) /\ h.tokens \in Nat /\ Len(h.rounds) \in Nat
  BY DEF ConversationType
<1>2. CASE Len(h.rounds) <= keep
  BY <1>1, <1>2 DEF Compact
<1>3. CASE Len(h.rounds) > keep
  <2> DEFINE n == Len(h.rounds)
             tail == SubSeq(h.rounds, n - keep + 1, n)
             c == Compact(h, keep)
  <2>1. n \in Nat /\ n >= 2 /\ n > keep
    BY <1>1, <1>3
  <2>2. h.rounds[n] \in RoundType /\ h.rounds[n-1] \in RoundType
    BY <1>1, <2>1, ElementOfSeq
  <2>3. h.rounds[n].tokens \in Nat /\ h.rounds[n-1].tokens \in Nat
    BY <2>2 DEF RoundType
  <2>4. c.rounds = tail /\ c.tokens = TailTokens(h.rounds, keep)
    <3>1. c = [h EXCEPT !.rounds = tail, !.tokens = TailTokens(h.rounds, keep)]
      BY <1>1, <1>3 DEF Compact, ConversationType
    <3> HIDE DEF c, tail
    <3> QED
      BY <3>1 DEF ConversationType
  <2>5. Len(tail) = keep /\ tail[keep] = h.rounds[n] /\ (keep = 2 => tail[1] = h.rounds[n-1])
    BY <1>1, <2>1, SubSeqProperties
  <2>6. h.rounds[n-1].tokens + h.rounds[n].tokens <= h.tokens
    BY <2>1 DEF Sized
  <2> HIDE DEF n, tail, c
  <2>7. CASE keep = 1
    <3>1. c.tokens = h.rounds[n].tokens /\ Len(c.rounds) = 1 /\ c.rounds[1] = h.rounds[n]
      BY <2>4, <2>5, <2>7 DEF TailTokens, n
    <3>2. Sized(c) /\ c.tokens <= h.tokens
      BY <1>1, <2>3, <2>6, <3>1 DEF Sized
    <3> QED
      BY <3>2 DEF c
  <2>8. CASE keep = 2
    <3>1. /\ c.tokens = h.rounds[n-1].tokens + h.rounds[n].tokens
          /\ Len(c.rounds) = 2 /\ c.rounds[1] = h.rounds[n-1] /\ c.rounds[2] = h.rounds[n]
      BY <2>4, <2>5, <2>8 DEF TailTokens, n
    <3>2. Sized(c) /\ c.tokens <= h.tokens
      BY <1>1, <2>3, <2>6, <3>1 DEF Sized
    <3> QED
      BY <3>2 DEF c
  <2> QED
    BY <2>7, <2>8
<1> QED
  <2>1. keep \in Nat
    OBVIOUS
  <2> QED
    BY <1>1, <1>2, <1>3, <2>1

\* A round that is appended adds its tokens.
LEMMA AppendSized ==
    ASSUME NEW h \in ConversationType, NEW r \in RoundType, Sized(h)
    PROVE  Sized(AppendRound(h, r))
<1> DEFINE n == Len(h.rounds)
           a == AppendRound(h, r)
<1>1. h.rounds \in Seq(RoundType) /\ h.tokens \in Nat /\ n \in Nat /\ r.tokens \in Nat
  BY DEF ConversationType, RoundType
<1>2. a.rounds = Append(h.rounds, r) /\ a.tokens = h.tokens + r.tokens
  BY DEF AppendRound, ConversationType
<1>3. Len(a.rounds) = n + 1 /\ a.rounds[n + 1] = r /\ (n >= 1 => a.rounds[n] = h.rounds[n])
  BY <1>1, <1>2, AppendProperties
<1>4. n >= 1 => h.rounds[n].tokens \in Nat /\ h.rounds[n].tokens <= h.tokens
  <2>1. n >= 1 => h.rounds[n] \in RoundType
    BY <1>1, ElementOfSeq
  <2>2. n >= 1 => h.rounds[n].tokens <= h.tokens
    BY DEF Sized
  <2> QED
    BY <2>1, <2>2 DEF RoundType
<1> HIDE DEF n, a
<1>5. Sized(a)
  BY <1>1, <1>2, <1>3, <1>4 DEF Sized
<1> QED
  BY <1>5 DEF a

\* A share of an amount that suffices for all attempts suffices for one.
LEMMA SharesSuffice ==
    ASSUME NEW x \in Int, NEW n \in Int
    PROVE  x >= n * Attempts <=> x \div Attempts >= n
<1>1. Attempts \in {1, 2, 3, 4, 5, 6}
  BY AttemptsAssumption
<1> QED
  BY <1>1

\* The number of attempts can be divided out.
LEMMA AttemptsCancel ==
    ASSUME NEW m \in Int, NEW n \in Int
    PROVE  /\ m * Attempts < n * Attempts => m < n
           /\ m <= n => m * Attempts <= n * Attempts
<1>1. Attempts \in {1, 2, 3, 4, 5, 6}
  BY AttemptsAssumption
<1> QED
  BY <1>1

\* A longer request has no smaller estimate, at any calibration.
LEMMA EstimateIsMonotone ==
    ASSUME TypeOK, NEW a \in Nat, NEW b \in Nat, a <= b
    PROVE  Estimate(a) <= Estimate(b)
<1>1. PICK r \in Nat : r = counter.ratio
  BY DEF TypeOK
<1>2. PICK d \in Nat : b = a + d
  BY b - a \in Nat
<1>3. PICK x \in Nat, y \in Nat : x = a * r /\ y = d * r
  BY <1>1, <1>2
<1>4. b * r = x + y
  BY <1>1, <1>2, <1>3
<1>5. (x * 11 + 999) \div 1000 <= ((x + y) * 11 + 999) \div 1000
  BY <1>3
<1>6. a * counter.ratio = x /\ b * counter.ratio = x + y
  BY <1>1, <1>3, <1>4
<1>7. Estimate(a) = (x * 11 + 999) \div 1000 /\ Estimate(b) = ((x + y) * 11 + 999) \div 1000
  BY <1>6 DEF Estimate
<1> QED
  BY <1>5, <1>7

\* A final request that was answered is remembered.
FinalIsKnown ==
    /\ pc = "calling" => request.final = final
    /\ pc # "calling" /\ request.final => finalAttempted

\* An honest bill leaves what was held back beside the request.
ReserveIsLeft == honest => spent + request.reserve <= MaxTokens

\* Two final requests of a given estimate and their replies, for all attempts.
ForTwo(estimate) == 2 * (estimate + 4096) * Attempts

\* Beside a request of the analysis two final requests are held back, as they
\* were estimated then, with all their transport attempts.
SubmissionIsReserved ==
    ~request.final /\ request.base > 0 => request.reserve = ForTwo(request.submission)

FInv ==
    /\ IInv
    /\ Sized(history)
    /\ FinalIsKnown
    /\ ReserveIsLeft
    /\ SubmissionIsReserved
    /\ pc # "returned" => stopReason = "none"
    /\ FinalSubmissionAffordable

\* The conversations of a preflight, each no longer than the one before it.
LEMMA PreflightSized ==
    ASSUME TypeOK, Sized(history)
    PROVE  /\ Trimmed \in ConversationType /\ Squeezed \in ConversationType
           /\ Prepared \in ConversationType
           /\ Sized(Prepared) /\ Prepared.tokens <= Squeezed.tokens
<1>1. history \in ConversationType
  BY DEF TypeOK
<1>2. Trimmed \in ConversationType /\ Sized(Trimmed)
  BY <1>1, CompactType, CompactShrinks DEF Trimmed
<1>3. Squeezed \in ConversationType /\ Sized(Squeezed)
  BY <1>2, CompactType, CompactShrinks DEF Squeezed
<1>4. Squeezed.tokens \in Nat
  BY <1>3 DEF ConversationType
<1>5. Prepared \in ConversationType /\ Sized(Prepared) /\ Prepared.tokens <= Squeezed.tokens
  BY <1>3, <1>4, CompactType, CompactShrinks DEF Prepared
<1> QED
  BY <1>2, <1>3, <1>5

\* While the preflight stays in the analysis there is room for a reply of 1024
\* tokens beside the reserve, and nothing is compacted further.
LEMMA AnalysisHasRoom ==
    ASSUME TypeOK, Sized(history), ~FinalPhase
    PROVE  /\ Prepared = Trimmed /\ Available(Prepared) >= 1024
           /\ Reserve = ForTwo(EstimateOf(Trimmed, TRUE))
<1> DEFINE est == EstimateOf(Trimmed, FALSE)
<1>1. ~FinalByLimits /\ ~MustFinalize /\ Squeezed = Trimmed
  BY DEF FinalPhase, Squeezed
<1>2. Reserve = SubmissionReserve /\ Reserve \in Nat /\ Remaining \in Int
  BY <1>1, PreflightType DEF Reserve, FinalPhase
<1>3. est \in Nat
  BY PreflightSized, WindowType
<1>4. EstimateOf(Trimmed, FinalPhase) = est
  <2>1. FinalPhase = FALSE
    BY PreflightType
  <2> QED
    BY <2>1, Zenon
<1>5. ~(Remaining < SubmissionReserve + (est + 1024) * Attempts) /\ ~(est + 2048 > MaxContextTokens)
  <2> DEFINE need == SubmissionReserve + (est + 1024) * Attempts
             long == est + 2048
  <2>1. MustFinalize <=> ~FinalByLimits /\ (Remaining < need \/ long > MaxContextTokens)
    BY DEF MustFinalize
  <2> HIDE DEF need, long
  <2>2. ~(Remaining < need) /\ ~(long > MaxContextTokens)
    BY <1>1, <2>1, Zenon
  <2> QED
    BY <2>2 DEF need, long
<1>6. Available(Trimmed) = Min2((Remaining - Reserve) \div Attempts - est, MaxContextTokens - est)
  BY <1>4, Zenon DEF Available
<1> HIDE DEF est
<1>7. (est + 1024) * Attempts \in Int /\ est + 1024 \in Int
  BY <1>3, Multiples
<1>8. Remaining - Reserve >= (est + 1024) * Attempts
  BY <1>2, <1>5, <1>7
<1>9. (Remaining - Reserve) \div Attempts >= est + 1024 /\ (Remaining - Reserve) \div Attempts \in Int
  BY <1>2, <1>7, <1>8, SharesSuffice, SharesFit
<1>10. Available(Trimmed) >= 1024 /\ Available(Trimmed) \in Int
  BY <1>3, <1>5, <1>6, <1>9, BudgetAssumption DEF Min2
<1>11. Prepared = Trimmed
  BY <1>1, <1>10 DEF Prepared
<1> QED
  BY <1>2, <1>10, <1>11 DEF SubmissionReserve, ForTwo

\* The task starts with nothing held back and nothing retained.
LEMMA InitFInv == Init => FInv
<1> SUFFICES ASSUME Init PROVE FInv
  OBVIOUS
<1>1. IInv
  BY InitIInv
<1>2. Sized(history)
  BY DEF Init, NewConversation, Sized
<1>3. FinalIsKnown /\ SubmissionIsReserved
  BY DEF Init, FinalIsKnown, SubmissionIsReserved
<1>4. ReserveIsLeft
  BY BudgetAssumption DEF Init, ReserveIsLeft
<1>5. (pc # "returned" => stopReason = "none") /\ FinalSubmissionAffordable
  BY DEF Init, FinalSubmissionAffordable
<1> QED
  BY <1>1, <1>2, <1>3, <1>4, <1>5 DEF FInv

\* A step that sends no request and bills nothing.
LEMMA QuietKeeps ==
    ASSUME FInv, IInv', Sized(history)',
           UNCHANGED <<spent, final, finalAttempted, counter, request, honest>>,
           pc' = "calling" <=> pc = "calling",
           stopReason' # "next_request", pc' # "returned" => stopReason' = "none"
    PROVE  FInv'
<1>1. FinalIsKnown' /\ ReserveIsLeft'
  BY DEF FInv, FinalIsKnown, ReserveIsLeft
<1>2. SubmissionIsReserved'
  BY DEF FInv, SubmissionIsReserved
<1>3. FinalSubmissionAffordable'
  BY DEF FinalSubmissionAffordable
<1> QED
  BY <1>1, <1>2, <1>3 DEF FInv

\* A step that bills an answer: an honest bill leaves what was held back.
LEMMA AnswerKeeps ==
    ASSUME FInv, IInv', Sized(history)',
           NEW attempts \in 1..Attempts, NEW input \in InputBills \cup {Unreported}, NEW text \in Nat,
           Billed(attempts, input, text), UNCHANGED <<final, request>>,
           pc' # "calling", stopReason' # "next_request", pc' # "returned" => stopReason' = "none"
    PROVE  FInv'
<1>1. /\ pc = "calling" /\ spent' = spent + Bill(attempts, input, text)
      /\ finalAttempted' = (finalAttempted \/ final)
      /\ honest' => honest /\ text <= request.limit /\ InputCost(input) <= Estimate(request.base)
  BY DEF Billed
<1>2. FinalIsKnown'
  BY <1>1 DEF FInv, FinalIsKnown
<1>3. SubmissionIsReserved'
  BY DEF FInv, SubmissionIsReserved
<1>4. ReserveIsLeft'
  <2> SUFFICES ASSUME honest' PROVE spent' + request.reserve <= MaxTokens
    BY DEF ReserveIsLeft
  <2> DEFINE allowance == Attempts * (Estimate(request.base) + request.limit)
  <2>1. Bill(attempts, input, text) \in Nat /\ Bill(attempts, input, text) <= allowance
    BY <1>1, BillBound DEF FInv
  <2>2. spent + allowance + request.reserve <= MaxTokens
    BY <1>1 DEF FInv, IInv, HonestSpending
  <2>3. allowance \in Int /\ request.reserve \in Nat /\ spent \in Nat
    <3>1. Estimate(request.base) + request.limit \in Int
      <4>1. TypeOK /\ request.base \in Nat /\ request.limit \in Int
        BY DEF FInv, IInv, TypeOK
      <4> QED
        BY <4>1, EstimateType
    <3> QED
      BY <1>1, <3>1, Multiples DEF FInv, IInv, RequestOut, TypeOK
  <2> HIDE DEF allowance
  <2> QED
    BY <1>1, <2>1, <2>2, <2>3, BudgetAssumption
<1>5. FinalSubmissionAffordable'
  BY DEF FinalSubmissionAffordable
<1> QED
  BY <1>2, <1>3, <1>4, <1>5 DEF FInv

\* What is held back for a correction leaves the first final request its share.
LEMMA CorrectionLeavesShare ==
    ASSUME TypeOK, Sized(history), FinalPhase
    PROVE  Reserve = 0 \/ Remaining - Reserve >= (EstimateOf(Squeezed, TRUE) + 1024) * Attempts
<1> DEFINE est == EstimateOf(Squeezed, TRUE)
           share == (est + 1024) * Attempts
           most == (est + 4096) * Attempts
<1>1. est \in Nat
  BY PreflightSized, WindowType
<1>2. Reserve = CorrectionReserve /\ Remaining \in Int /\ Reserve \in Nat
  BY PreflightType DEF Reserve
<1>3. CorrectionReserve = 0 \/ CorrectionReserve = Min2(most, Remaining - share)
  <2>1. CorrectionReserve =
          IF ~finalAttempted /\ MaxTurns - turns >= 2 /\ Remaining >= 2 * (est + 1024) * Attempts
          THEN Min2(most, Remaining - share) ELSE 0
    BY DEF CorrectionReserve
  <2> HIDE DEF most, share, est
  <2> QED
    BY <2>1
<1>4. share \in Int /\ most \in Int
  <2> HIDE DEF est
  <2>1. est + 1024 \in Int /\ est + 4096 \in Int
    BY <1>1
  <2> QED
    BY <2>1, Multiples
<1> HIDE DEF share, most
<1>5. Reserve = 0 \/ Reserve <= Remaining - share
  BY <1>2, <1>3, <1>4, MinMax
<1>6. Reserve = 0 \/ Remaining - Reserve >= share
  BY <1>2, <1>4, <1>5
<1> QED
  BY <1>6 DEF share

\* A preflight that gives up for want of tokens, before the first final request was
\* sent, wanted more than was held back.
LEMMA GiveUpOutgrew ==
    ASSUME FInv, GiveUp, stopReason' = "next_request", honest, request.base > 0, ~finalAttempted
    PROVE  Outgrew(EstimateOf(Prepared, TRUE), request.submission)
<1> DEFINE est   == EstimateOf(Prepared, TRUE)
           wider == EstimateOf(Squeezed, TRUE)
           held  == request.submission
<1>1. /\ TypeOK /\ Sized(history) /\ pc = "top" /\ spent + request.reserve <= MaxTokens
  BY DEF FInv, IInv, ReserveIsLeft, GiveUp, MayRequest, MayStart, MayCall, MayTurn
<1>2. MinimumOutput \in {128, 1024} /\ Available(Prepared) < MinimumOutput
  BY DEF MinimumOutput, GiveUp
<1>3. FinalPhase = TRUE
  <2>1. FinalPhase \in BOOLEAN
    BY <1>1, PreflightType
  <2>2. ASSUME ~FinalPhase PROVE FALSE
    <3>1. Available(Prepared) >= 1024 /\ Available(Prepared) \in Int
      BY <1>1, <2>2, AnalysisHasRoom, PreflightType
    <3> QED
      BY <1>2, <3>1
  <2> QED
    BY <2>1, <2>2
<1>4. Prepared \in ConversationType /\ Squeezed \in ConversationType /\ est \in Nat /\ wider \in Nat
  BY <1>1, PreflightSized, WindowType
<1>5. est <= wider
  <2>1. /\ WindowTokens(Prepared, TRUE) \in Nat /\ WindowTokens(Squeezed, TRUE) \in Nat
    BY <1>1, <1>4, WindowType
  <2>2. WindowTokens(Prepared, TRUE) <= WindowTokens(Squeezed, TRUE)
    <3>1. PICK rest \in Nat : \A h : WindowTokens(h, TRUE) = rest + h.tokens
      <4>1. Cardinality(collector.matches) \in Nat
        BY <1>1, JobsAssumption, FS_Subset, FS_CardinalityType DEF TypeOK, CollectorType
      <4>2. PICK m \in Nat : m = MatchTokens * Cardinality(collector.matches)
        BY <4>1, TokenAssumption
      <4>3. PICK p \in Nat : p = IF collector.profile THEN ProfileTokens ELSE 0
        BY TokenAssumption
      <4>4. \A h : WindowTokens(h, TRUE) = FinalTokens + p + m + h.tokens
        BY <4>2, <4>3, Zenon DEF WindowTokens
      <4>5. FinalTokens + p + m \in Nat
        BY TokenAssumption
      <4> QED
        BY <4>4, <4>5
    <3>2. Prepared.tokens <= Squeezed.tokens
      BY <1>1, PreflightSized
    <3>3. Prepared.tokens \in Nat /\ Squeezed.tokens \in Nat
      BY <1>4 DEF ConversationType
    <3> DEFINE short == WindowTokens(Prepared, TRUE)
               long  == WindowTokens(Squeezed, TRUE)
    <3>4. short = rest + Prepared.tokens /\ long = rest + Squeezed.tokens
      BY <3>1
    <3> HIDE DEF short, long
    <3>5. short <= long
      BY <3>2, <3>3, <3>4
    <3> QED
      BY <3>5, Zenon DEF short, long
  <2> QED
    BY <1>1, <2>1, <2>2, EstimateIsMonotone DEF EstimateOf
<1>6. Remaining - Reserve < (est + 1024) * Attempts
  <2>1. Available(Prepared) = Min2((Remaining - Reserve) \div Attempts - est, MaxContextTokens - est)
    BY <1>3, Zenon DEF Available
  <2>2. MaxContextTokens - est >= MinimumOutput
    <3>1. MaxContextTokens - EstimateOf(Prepared, FinalPhase) >= MinimumOutput
      <4>1. ~(MaxContextTokens - EstimateOf(Prepared, FinalPhase) < MinimumOutput)
        BY DEF GiveUp, Stop, Return
      <4>2. EstimateOf(Prepared, FinalPhase) \in Nat
        BY <1>3, <1>4, Zenon
      <4> QED
        BY <1>2, <4>1, <4>2, BudgetAssumption
    <3> QED
      BY <1>3, <3>1, Zenon
  <2>3. Remaining - Reserve \in Int /\ (Remaining - Reserve) \div Attempts \in Int
    BY <1>1, PreflightType, SharesFit
  <2> HIDE DEF est
  <2>4. ~((Remaining - Reserve) \div Attempts >= est + 1024)
    BY <1>2, <1>4, <2>1, <2>2, <2>3, BudgetAssumption DEF Min2
  <2>5. ~(Remaining - Reserve >= (est + 1024) * Attempts)
    BY <1>4, <2>3, <2>4, SharesSuffice
  <2>6. (est + 1024) * Attempts \in Int
    BY <1>4, Multiples
  <2> QED
    BY <2>3, <2>5, <2>6
<1> HIDE DEF est, wider
<1>7. Remaining < (est + 1024) * Attempts
  <2>1. Reserve = 0 \/ Remaining - Reserve >= (wider + 1024) * Attempts
    BY <1>1, <1>3, CorrectionLeavesShare DEF wider
  <2>2. (est + 1024) * Attempts <= (wider + 1024) * Attempts
    <3>1. est + 1024 \in Int /\ wider + 1024 \in Int /\ est + 1024 <= wider + 1024
      BY <1>4, <1>5
    <3> QED
      BY <3>1, AttemptsCancel
  <2>3. (est + 1024) * Attempts \in Int /\ (wider + 1024) * Attempts \in Int
    BY <1>4, Multiples
  <2>4. Remaining \in Int /\ Reserve \in Nat
    BY <1>1, PreflightType
  <2> QED
    BY <1>6, <2>1, <2>2, <2>3, <2>4
<1>8. request.reserve = ForTwo(held) /\ held \in Nat
  <2>1. ~request.final
    BY <1>1 DEF FInv, FinalIsKnown
  <2>2. request.reserve = ForTwo(request.submission)
    BY <2>1 DEF FInv, SubmissionIsReserved
  <2> QED
    BY <1>1, <2>2 DEF TypeOK
<1>9. request.reserve = 2 * (held + 4096) * Attempts
  BY <1>8 DEF ForTwo
<1> HIDE DEF held
<1>10. est + 1024 > 2 * (held + 4096)
  <2>1. 2 * (held + 4096) \in Int /\ est + 1024 \in Int
    BY <1>4, <1>8
  <2>2. 2 * (held + 4096) * Attempts < (est + 1024) * Attempts
    <3>1. 2 * (held + 4096) * Attempts \in Int /\ (est + 1024) * Attempts \in Int
      BY <2>1, Multiples
    <3>2. request.reserve \in Int /\ spent \in Nat
      BY <1>1 DEF TypeOK
    <3> QED
      BY <1>1, <1>7, <1>9, <3>1, <3>2, BudgetAssumption DEF Remaining
  <2> QED
    BY <2>1, <2>2, AttemptsCancel
<1>11. Outgrew(est, held)
  BY <1>10 DEF Outgrew
<1> QED
  BY <1>11, Zenon DEF est, held

\* Giving up keeps the account of what was held back.
LEMMA GiveUpReserves == ASSUME FInv, IInv', GiveUp PROVE FInv'
<1>1. /\ pc = "top" /\ pc' = "returned" /\ history' = Prepared
      /\ UNCHANGED <<spent, finalAttempted, counter, collector, request, honest>>
  BY DEF GiveUp, MayRequest, MayStart, MayCall, MayTurn, Stop, Return
<1>2. Sized(history)'
  BY <1>1, PreflightSized DEF FInv, IInv
<1>3. FinalIsKnown' /\ ReserveIsLeft' /\ SubmissionIsReserved'
  BY <1>1 DEF FInv, FinalIsKnown, ReserveIsLeft, SubmissionIsReserved
<1>4. FinalSubmissionAffordable'
  <2>1. EstimateOf(history, TRUE)' = EstimateOf(Prepared, TRUE)
    BY <1>1 DEF EstimateOf, WindowTokens, Estimate
  <2>2. ASSUME stopReason' = "next_request", honest', request'.base > 0, ~finalAttempted'
        PROVE  Outgrew(EstimateOf(history, TRUE)', request'.submission)
    <3>1. honest /\ request.base > 0 /\ ~finalAttempted /\ request' = request
      BY <1>1, <2>2
    <3>2. Outgrew(EstimateOf(Prepared, TRUE), request.submission)
      BY <2>2, <3>1, GiveUpOutgrew
    <3> QED
      BY <2>1, <3>1, <3>2, Zenon
  <2> QED
    BY <2>2, Zenon DEF FinalSubmissionAffordable
<1> QED
  BY <1>1, <1>2, <1>3, <1>4 DEF FInv

\* A request of the analysis goes out beside two final requests.
LEMMA SendRequestReserves == ASSUME FInv, IInv', SendRequest PROVE FInv'
<1>1. TypeOK /\ Sized(history)
  BY DEF FInv, IInv
<1>2. /\ pc = "top" /\ pc' = "calling" /\ history' = Prepared /\ final' = FinalPhase
      /\ request'.base = WindowTokens(Prepared, FinalPhase)
      /\ request'.reserve = Reserve /\ request'.final = FinalPhase
      /\ request'.submission = EstimateOf(Trimmed, TRUE)
      /\ UNCHANGED <<spent, finalAttempted, counter, honest, stopReason>>
  BY DEF SendRequest, MayRequest, MayStart, MayCall, MayTurn, Running
<1>3. Sized(history)'
  BY <1>1, <1>2, PreflightSized
<1>4. FinalIsKnown'
  BY <1>2 DEF FInv, FinalIsKnown
<1>5. ReserveIsLeft'
  <2> DEFINE est == EstimateOf(Prepared, FinalPhase)
             limit == Min2(Available(Prepared), 8192)
  <2>1. limit \in 128..8192 /\ spent + Attempts * (est + limit) + Reserve <= MaxTokens
    BY <1>1, RequestBounds DEF SendRequest
  <2>2. est \in Nat /\ Reserve \in Nat /\ spent \in Nat
    BY <1>1, PreflightType, WindowType DEF TypeOK
  <2> HIDE DEF est, limit
  <2>3. est + limit \in Int /\ 0 <= est + limit
    BY <2>1, <2>2
  <2>4. Attempts * (est + limit) \in Int /\ Attempts * (est + limit) >= 0
    <3>1. Attempts * 0 <= Attempts * (est + limit) /\ Attempts * (est + limit) \in Int
      BY <2>3, Multiples
    <3>2. Attempts * 0 = 0
      BY AttemptsAssumption
    <3> QED
      BY <3>1, <3>2
  <2>5. spent + Reserve <= MaxTokens
    BY <2>1, <2>2, <2>4, BudgetAssumption
  <2> QED
    BY <1>2, <2>5 DEF ReserveIsLeft
<1>6. SubmissionIsReserved'
  <2>1. ASSUME ~FinalPhase PROVE request'.reserve = ForTwo(request'.submission)
    <3>1. Reserve = ForTwo(EstimateOf(Trimmed, TRUE))
      BY <1>1, <2>1, AnalysisHasRoom
    <3> QED
      BY <1>2, <3>1, Zenon
  <2> QED
    BY <1>2, <2>1, Zenon DEF SubmissionIsReserved
<1>7. FinalSubmissionAffordable' /\ stopReason' = "none"
  BY <1>2 DEF FInv, FinalSubmissionAffordable
<1> QED
  BY <1>2, <1>3, <1>4, <1>5, <1>6, <1>7 DEF FInv

\* The end of a round, and the answer to a malformed reply, append a round.
LEMMA RoundIsSized ==
    ASSUME TypeOK, Sized(history), NEW r \in RoundType, NEW idle \in Nat,
           history' = [AppendRound(history, r) EXCEPT !.noProgress = idle]
    PROVE  Sized(history)'
<1> DEFINE h == AppendRound(history, r)
<1>1. h \in ConversationType /\ Sized(h)
  BY AppendRoundType, AppendSized DEF TypeOK
<1> HIDE DEF h
<1>2. history'.rounds = h.rounds /\ history'.tokens = h.tokens
  BY <1>1 DEF ConversationType, h
<1>3. Sized(history')
  BY <1>1, <1>2 DEF Sized
<1> QED
  BY <1>3

\* Every answer keeps the account.
LEMMA AnswersReserve ==
    ASSUME FInv, IInv', Overspend \/ ModelError \/ MalformedReply \/ WellFormedReply
    PROVE  FInv'
<1>1. TypeOK /\ Sized(history) /\ history \in ConversationType
  BY DEF FInv, IInv, TypeOK
<1>2. PICK attempts \in 1..Attempts, input \in InputBills \cup {Unreported}, text \in Nat :
        Billed(attempts, input, text)
  <2>1. ASSUME NEW a \in 1..Attempts, NEW i \in InputBills \cup {Unreported}, NEW t \in EmptyOr(i),
               Billed(a, i, t)
        PROVE  t \in Nat
    BY <2>1, EmptyOrType DEF Billed, FInv
  <2>2. CASE Overspend \/ MalformedReply
    <3>1. PICK a \in 1..Attempts, i \in InputBills : \E t \in EmptyOr(i) : Billed(a, i, t)
      BY <2>2 DEF Overspend, MalformedReply
    <3>2. PICK t \in EmptyOr(i) : Billed(a, i, t)
      BY <3>1
    <3> QED
      BY <2>1, <3>2
  <2>3. CASE ModelError
    <3>1. PICK a \in 1..Attempts : Billed(a, Unreported, request.limit)
      BY <2>3 DEF ModelError
    <3>2. request.limit \in EmptyOr(Unreported)
      BY DEF EmptyOr
    <3> QED
      BY <2>1, <3>1, <3>2
  <2>4. CASE WellFormedReply
    BY <2>4, TokenAssumption DEF WellFormedReply
  <2> QED
    BY <2>2, <2>3, <2>4
<1>3. /\ UNCHANGED <<final, request>> /\ pc' # "calling"
      /\ stopReason' # "next_request" /\ (pc' # "returned" => stopReason' = "none")
  <2>1. pc = "calling" /\ stopReason = "none"
    BY <1>2 DEF Billed, FInv
  <2> QED
    BY <2>1 DEF Overspend, ModelError, MalformedReply, WellFormedReply, Stop, Return, Running
<1>4. Sized(history)'
  <2>1. CASE history' = history
    BY <1>1, <2>1 DEF Sized
  <2>2. CASE history' = [AppendRound(history, [tokens |-> FeedbackTokens, lines |-> {}])
                         EXCEPT !.noProgress = @ + 1]
    <3> DEFINE r == [tokens |-> FeedbackTokens, lines |-> {}]
               idle == AppendRound(history, r).noProgress + 1
    <3>1. r \in RoundType
      BY TokenAssumption DEF RoundType
    <3>2. idle \in Nat /\ history' = [AppendRound(history, r) EXCEPT !.noProgress = idle]
      <4>1. AppendRound(history, r) \in ConversationType
        BY <1>1, <3>1, AppendRoundType
      <4>2. idle \in Nat
        BY <4>1 DEF ConversationType
      <4> HIDE DEF r
      <4>3. history' = [AppendRound(history, r) EXCEPT !.noProgress = @ + 1]
        BY <2>2 DEF r
      <4>4. [AppendRound(history, r) EXCEPT !.noProgress = @ + 1] =
               [AppendRound(history, r) EXCEPT !.noProgress = idle]
        BY <4>1 DEF ConversationType
      <4> QED
        BY <4>2, <4>3, <4>4
    <3> HIDE DEF r, idle
    <3> QED
      BY <1>1, <3>1, <3>2, RoundIsSized
  <2> QED
    BY <2>1, <2>2 DEF Overspend, ModelError, MalformedReply, WellFormedReply
<1> QED
  BY <1>2, <1>3, <1>4, AnswerKeeps

\* The tool calls and the end of a round keep it.
LEMMA RoundsReserve ==
    ASSUME FInv, IInv', ToolCall \/ EndRound
    PROVE  FInv'
<1>1. /\ TypeOK /\ Sized(history) /\ history \in ConversationType
      /\ pc = "tools" /\ pc' # "calling" /\ stopReason = "none"
  <2>1. ToolCall => pc = "tools" /\ pc' = "tools"
    BY CallRemembers DEF FInv, IInv, Remembered
  <2>2. EndRound => pc = "tools" /\ pc' \in {"top", "returned"}
    BY DEF EndRound, Return
  <2> QED
    BY <2>1, <2>2 DEF FInv, IInv, TypeOK
<1>2. CASE ToolCall
  <2>1. \E explores, key, lines, tokens, advanced :
          Called(explores, key, lines, tokens, advanced)
    BY <1>2 DEF ToolCall, RefusedCall, ReadSections, SearchEvidence, OtherTool, CallSubmitProfile,
                CallSubmitMatches, CallTaskDone
  <2>2. PICK explores, key, lines, tokens, advanced :
          Called(explores, key, lines, tokens, advanced)
    BY <2>1
  <2>3. /\ UNCHANGED <<spent, final, finalAttempted, counter, request, honest, stopReason>>
        /\ history' = [history EXCEPT !.seen = @ \cup key, !.read = @ \cup lines]
    BY <2>2 DEF Called, Running
  <2>4. history'.rounds = history.rounds /\ history'.tokens = history.tokens
    BY <1>1, <2>3 DEF ConversationType
  <2>5. Sized(history)'
    BY <1>1, <2>4 DEF Sized
  <2> QED
    BY <1>1, <2>3, <2>5, QuietKeeps
<1>3. CASE EndRound
  <2> DEFINE r == [tokens |-> round.tokens, lines |-> round.lines]
             idle == IF round.progress THEN 0 ELSE AppendRound(history, r).noProgress + 1
  <2>1. r \in RoundType
    BY <1>1 DEF TypeOK, RoundType
  <2>2. AppendRound(history, r) \in ConversationType
    BY <1>1, <2>1, AppendRoundType
  <2>3. idle \in Nat
    BY <2>2 DEF ConversationType
  <2>4. history' = [AppendRound(history, r) EXCEPT !.noProgress = idle]
    <3>1. history' = [AppendRound(history, r)
                      EXCEPT !.noProgress = IF round.progress THEN 0 ELSE @ + 1]
      BY <1>3 DEF EndRound
    <3> HIDE DEF r
    <3> QED
      BY <2>2, <3>1 DEF ConversationType
  <2> HIDE DEF r, idle
  <2>5. Sized(history)'
    BY <1>1, <2>1, <2>3, <2>4, RoundIsSized
  <2>6. /\ UNCHANGED <<spent, final, finalAttempted, counter, request, honest>>
        /\ stopReason' # "next_request" /\ (pc' # "returned" => stopReason' = "none")
    BY <1>1, <1>3 DEF EndRound, Return, Running
  <2> QED
    BY <1>1, <2>5, <2>6, QuietKeeps
<1> QED
  BY <1>2, <1>3

\* The steps that leave the conversation as it is keep it.
LEMMA OthersReserve ==
    ASSUME FInv, IInv',
           StopBeforeRequest \/ CallCutShort \/ ToolTimesOut \/ CallNotMade \/ ContextStep
    PROVE  FInv'
<1>1. /\ UNCHANGED <<spent, final, finalAttempted, counter, request, honest, history>>
      /\ (pc' = "calling" <=> pc = "calling") /\ pc # "returned"
  BY DEF StopBeforeRequest, CallCutShort, ToolTimesOut, CallNotMade, ContextStep, MayExecute,
         MayTurn, MayCall, MayStart, Stop, Return
<1>2. stopReason' # "next_request" /\ (pc' # "returned" => stopReason' = "none")
  BY <1>1 DEF FInv, StopBeforeRequest, CallCutShort, ToolTimesOut, CallNotMade, ContextStep, Stop, Return
<1>3. Sized(history)'
  BY <1>1 DEF FInv, Sized
<1> QED
  BY <1>1, <1>2, <1>3, QuietKeeps

\* Every step keeps the account of what is held back.
LEMMA NextFInv == FInv /\ [Next]_vars => FInv'
<1> SUFFICES ASSUME FInv, [Next]_vars PROVE FInv'
  OBVIOUS
<1>1. IInv'
  BY NextIInv DEF FInv
<1>2. CASE UNCHANGED vars
  <2>1. EstimateOf(history, TRUE)' = EstimateOf(history, TRUE)
    BY <1>2 DEF vars, EstimateOf, WindowTokens, Estimate
  <2>2. FinalSubmissionAffordable'
    BY <1>2, <2>1 DEF vars, FInv, FinalSubmissionAffordable
  <2> QED
    BY <1>1, <1>2, <2>2 DEF vars, FInv, Sized, FinalIsKnown, ReserveIsLeft, SubmissionIsReserved
<1>3. CASE Turn \/ ContextStep
  BY <1>1, <1>3, GiveUpReserves, SendRequestReserves, AnswersReserve, RoundsReserve, OthersReserve
     DEF Turn
<1> QED
  BY <1>2, <1>3 DEF Next, Returned

\* Analysing never uses up what the first final submission of the chunk needs, for
\* any budget, any number of transport attempts and any calibration of the counter:
\* as long as the bills are honest, it is out of reach only when it is estimated at
\* more than both requests that were held back for it (candidate.go:106-123).
THEOREM SubmissionStaysAffordable == Spec => []FinalSubmissionAffordable
<1>1. Spec => []FInv
  BY InitFInv, NextFInv, PTL DEF Spec
<1> QED
  BY <1>1, PTL DEF FInv
=============================================================================
