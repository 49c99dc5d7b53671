--------------------------- MODULE AnalysisProofs ---------------------------
(***************************************************************************)
(* What a whole analysis task keeps, for every number of chunks: the       *)
(* budget, the shared profile, all or nothing, and that the failure code   *)
(* names the cause.  The loop of one chunk keeps the inductive invariant   *)
(* of AgentLoopProofs; here it is carried from chunk to chunk.             *)
(***************************************************************************)
EXTENDS Analysis, AgentLoopProofs

-----------------------------------------------------------------------------
(* Why the loop returned *)

\* When the loop returns, the counters, the collector and the context show the
\* reason it gives.
ReturnedForCause ==
    pc = "returned" =>
        /\ result \in Results \ {"none"}
        /\ result = "stopped" =>
             /\ stopReason \in StopReasons
             /\ stopReason = "token_limit" => spent >= MaxTokens
             /\ stopReason = "turn_limit" => turns >= MaxTurns
             /\ stopReason = "tool_limit" => calls >= MaxToolCalls
             /\ stopReason = "no_progress" => history.noProgress >= 3
        /\ result = "cancelled" => ctx = "cancelled"
        /\ result = "incomplete" => collector.done /\ collector.failed

\* Every step of the loop establishes it.
LEMMA TurnHasCause == ASSUME IInv, IInv', Turn PROVE ReturnedForCause'
<1> USE DEF Return, Stop, ReturnedForCause, Results, ModelErrors, StopReasons
<1>1. CASE StopBeforeRequest
  <2>1. Remaining <= 0 => spent >= MaxTokens
    BY BudgetAssumption DEF Remaining, IInv, TypeOK
  <2> QED
    BY <1>1, <2>1 DEF StopBeforeRequest, CtxErr, CtxEnded
<1>2. CASE GiveUp
  BY <1>2 DEF GiveUp
<1>3. CASE SendRequest
  BY <1>3 DEF SendRequest
<1>4. CASE Overspend
  <2>1. spent' > MaxTokens => spent' >= MaxTokens
    BY BudgetAssumption DEF IInv, TypeOK
  <2> QED
    BY <1>4, <2>1 DEF Overspend, OverBudget
<1>5. CASE ModelError
  <2>1. PICK cause \in ModelErrors : (cause = "cancelled" => ctx = "cancelled") /\ Return(cause, "model_error")
    BY <1>5 DEF ModelError
  <2>2. UNCHANGED ctx
    BY <1>5 DEF ModelError
  <2> QED
    BY <2>1, <2>2
<1>6. CASE MalformedReply
  BY <1>6 DEF MalformedReply
<1>7. CASE WellFormedReply
  BY <1>7 DEF WellFormedReply
<1>8. CASE ToolCall
  BY <1>8 DEF ToolCall, RefusedCall, ReadSections, SearchEvidence, OtherTool, CallSubmitProfile,
              CallSubmitMatches, CallTaskDone, Called, MayExecute
<1>9. CASE CallCutShort \/ ToolTimesOut
  BY <1>9 DEF CallCutShort, ToolTimesOut, CtxErr, CtxEnded
<1>10. CASE CallNotMade
  BY <1>10 DEF CallNotMade
<1>11. CASE EndRound
  BY <1>11 DEF EndRound
<1> QED
  BY <1>1, <1>2, <1>3, <1>4, <1>5, <1>6, <1>7, <1>8, <1>9, <1>10, <1>11 DEF Turn

\* What was accepted stays accepted.
LEMMA TurnKeepsProfile == ASSUME IInv, Turn, collector.profile PROVE collector'.profile
<1>1. collector' = collector \/ (\E batch \in SUBSET Jobs : collector' = SubmitMatches(collector, batch))
      \/ collector' = SubmitProfile(collector) \/ (\E s \in {"DONE", "FAILED"} : collector' = Finish(collector, s))
  <2>1. ToolCall => collector' = collector \/ (\E batch \in SUBSET Jobs : collector' = SubmitMatches(collector, batch))
      \/ collector' = SubmitProfile(collector) \/ (\E s \in {"DONE", "FAILED"} : collector' = Finish(collector, s))
    BY DEF ToolCall, RefusedCall, ReadSections, SearchEvidence, OtherTool, CallSubmitProfile,
           CallSubmitMatches, CallTaskDone
  <2>2. SendRequest => collector' = collector
    <3>1. ASSUME SendRequest
          PROVE  UNCHANGED <<turns, calls, spent, repairs, finalAttempted, counter, collector,
                             round, ctx, honest>>
      BY <3>1, Zenon DEF SendRequest
    <3> QED
      BY <3>1
  <2> QED
    BY <2>1, <2>2 DEF Turn, StopBeforeRequest, GiveUp, Overspend, ModelError, MalformedReply,
                WellFormedReply, CallCutShort, ToolTimesOut, CallNotMade, EndRound
<1> QED
  BY <1>1 DEF SubmitMatches, SubmitProfile, Finish, IInv, TypeOK, CollectorType

-----------------------------------------------------------------------------
(* The inductive invariant of a task *)

\* The chunks before the present one are complete, and nothing else is covered.
CoveredBefore == stage # "ended" => task.covered = (1..(chunk - 1)) \X Jobs

\* A task that has not ended has no answer; before the first chunk the loop is
\* in its initial state, and nothing was ever returned.
OpenUntilEnded ==
    /\ stage # "ended" => answer = [state |-> "none", code |-> "none", content |-> Nothing]
    /\ stage = "preparing" => pc = "top" /\ chunk = 1

AnswerType == answer \in [state: {"none", "DONE", "FAILED"}, code: FailureCodes \cup {"none"}, content: Collected]

TInv ==
    /\ IInv
    /\ ReturnedForCause
    /\ stage \in {"preparing", "analysing", "ended"}
    /\ chunk \in 1..Chunks
    /\ task \in Collected
    /\ AnswerType
    /\ CoveredBefore
    /\ OpenUntilEnded
    /\ AllOrNothing
    /\ ProfileIsShared
    /\ FailureNamesItsCause

\* What is collected has the right type to begin with.
LEMMA NothingType == Nothing \in Collected
BY DEF Nothing, Collected

\* A task starts within the invariant.
LEMMA TaskInitInv == TaskInit => TInv
<1> SUFFICES ASSUME TaskInit PROVE TInv
  OBVIOUS
<1>1. IInv
  BY InitIInv DEF TaskInit
<1>2. pc = "top" /\ ReturnedForCause
  BY DEF TaskInit, Init, ReturnedForCause
<1>3. chunk = 1 /\ chunk \in 1..Chunks /\ 1..(chunk - 1) = {}
  BY ChunksAssumption DEF TaskInit
<1>4. AnswerType /\ task \in Collected
  BY NothingType DEF TaskInit, AnswerType
<1>5. CoveredBefore /\ OpenUntilEnded
  BY <1>2, <1>3 DEF TaskInit, CoveredBefore, OpenUntilEnded, Nothing
<1>6. AllOrNothing /\ ProfileIsShared /\ FailureNamesItsCause
  BY <1>3 DEF TaskInit, AllOrNothing, ProfileIsShared, FailureNamesItsCause
<1> QED
  BY <1>1, <1>2, <1>3, <1>4, <1>5, <1>6 DEF TInv, TaskInit

\* A step of the loop, or of its context, concerns the loop only.
LEMMA LoopStepKeeps == ASSUME TInv, LoopStep \/ TaskContextStep PROVE TInv'
<1>1. stage # "ended" /\ UNCHANGED taskVars
  BY DEF LoopStep, TaskContextStep
<1>2. IInv'
  BY NextIInv DEF LoopStep, TaskContextStep, TInv, Next
<1>3. ReturnedForCause'
  <2>1. CASE Turn
    BY <1>2, <2>1, TurnHasCause DEF TInv
  <2>2. CASE ContextStep
    BY <2>2 DEF ContextStep, ReturnedForCause
  <2> QED
    BY <2>1, <2>2 DEF LoopStep, TaskContextStep
<1>4. ProfileIsShared'
  <2>1. CASE Turn
    BY <1>1, <2>1, TurnKeepsProfile DEF TInv, ProfileIsShared, taskVars
  <2>2. CASE ContextStep
    BY <1>1, <2>2 DEF TInv, ProfileIsShared, taskVars, ContextStep
  <2> QED
    BY <2>1, <2>2 DEF LoopStep, TaskContextStep
<1>5. CoveredBefore' /\ AnswerType'
  BY <1>1 DEF TInv, CoveredBefore, AnswerType, taskVars
<1>6. OpenUntilEnded'
  BY <1>1 DEF TInv, OpenUntilEnded, taskVars, LoopStep, TaskContextStep, ContextStep
<1>7. answer.state = "none" /\ answer.code = "none" /\ answer.content = Nothing
  BY <1>1 DEF TInv, OpenUntilEnded
<1>8. AllOrNothing' /\ FailureNamesItsCause'
  BY <1>1, <1>7 DEF AllOrNothing, FailureNamesItsCause, taskVars
<1> QED
  BY <1>1, <1>2, <1>3, <1>4, <1>5, <1>6, <1>8 DEF TInv, taskVars

\* What a completed chunk adds: all its posts, and a profile.
LEMMA GatheredType ==
    ASSUME TInv, stage = "analysing", pc = "returned", result = "nil"
    PROVE  /\ Gathered \in Collected
           /\ Gathered.profile
           /\ collector.profile
           /\ Gathered.covered = (1..chunk) \X Jobs
<1>1. collector.profile /\ collector.profile \in BOOLEAN /\ collector.matches = Jobs
  BY DEF TInv, IInv, CompletedResultIsWhole, TypeOK, CollectorType
<1>2. task.covered = (1..(chunk - 1)) \X Jobs
  BY DEF TInv, CoveredBefore
<1>3. chunk \in 1..Chunks /\ Chunks \in Nat
  BY ChunksAssumption DEF TInv
<1>4. Gathered.profile = collector.profile /\ Gathered.covered = task.covered \cup ({chunk} \X Jobs)
  BY <1>1 DEF Gathered
<1>5. 1..chunk = (1..(chunk - 1)) \cup {chunk}
  BY <1>3
<1>6. Gathered.covered = (1..chunk) \X Jobs
  BY <1>2, <1>4, <1>5
<1>7. Gathered.covered \subseteq Posts
  BY <1>3, <1>6 DEF Posts
<1> QED
  BY <1>1, <1>4, <1>6, <1>7 DEF Gathered, Collected

\* The loop starts anew within the invariant.
LEMMA NextChunkKeeps == ASSUME TInv, NextChunk PROVE TInv'
<1>1. /\ Gathered \in Collected /\ Gathered.profile /\ collector.profile
      /\ Gathered.covered = (1..chunk) \X Jobs
  BY GatheredType DEF NextChunk
<1>2. /\ task' = Gathered /\ chunk' = chunk + 1 /\ stage' = "analysing"
      /\ pc' = "top" /\ result' = "none" /\ stopReason' = "none"
      /\ UNCHANGED <<turns, calls, spent, ctx, honest, answer>>
  BY DEF NextChunk, Following
<1>3. chunk' \in 1..Chunks /\ chunk' - 1 = chunk
  BY <1>2, ChunksAssumption DEF NextChunk, TInv
<1>4. collector' = NextCollector /\ collector'.profile /\ ~collector'.done /\ collector' \in CollectorType
  BY <1>1 DEF NextChunk, NextCollector, NewCollector, CollectorType
<1>5. spent <= MaxTokens
  BY DEF NextChunk, TInv, IInv, CompletedResultIsWhole
<1>6. TypeOK'
  <2>1. history' \in ConversationType
    BY EmptySeq DEF NextChunk, NewConversation, ConversationType
  <2>2. counter' \in [ratio: Nat, observed: BOOLEAN]
    BY DEF NextChunk
  <2>3. request' \in [base: Nat, limit: Int, reserve: Int, final: BOOLEAN, submission: Nat]
    BY DEF NextChunk
  <2>4. round' \in [tokens: Nat, lines: SUBSET Lines, progress: BOOLEAN, called: BOOLEAN,
                        explored: BOOLEAN]
    BY DEF NextChunk, EmptyRound
  <2>5. repairs' = 0 /\ final' \in BOOLEAN /\ finalAttempted' \in BOOLEAN
    BY DEF NextChunk
  <2>6. UNCHANGED <<turns, calls, spent, ctx, honest>> /\ TypeOK
    BY <1>2 DEF TInv, IInv
  <2>7. result' \in Results
    BY <1>2 DEF Results
  <2> QED
    BY <1>2, <1>4, <2>1, <2>2, <2>3, <2>4, <2>5, <2>6, <2>7 DEF TypeOK
<1>7. RequestOut' /\ OpenWhileWithinBudget' /\ DoneIsWhole' /\ HonestSpending' /\ CompletedResultIsWhole'
  BY <1>2, <1>4, <1>5 DEF RequestOut, OpenWhileWithinBudget, DoneIsWhole, HonestSpending,
                          CompletedResultIsWhole
<1>8. ReturnedForCause' /\ ProfileIsShared'
  BY <1>1, <1>2, <1>4 DEF ReturnedForCause, ProfileIsShared
<1>9. CoveredBefore'
  BY <1>1, <1>2, <1>3 DEF CoveredBefore
<1>10. answer = [state |-> "none", code |-> "none", content |-> Nothing]
  BY DEF NextChunk, TInv, OpenUntilEnded
<1>11. OpenUntilEnded' /\ AnswerType' /\ AllOrNothing' /\ FailureNamesItsCause'
  BY <1>2, <1>10 DEF TInv, OpenUntilEnded, AnswerType, AllOrNothing, FailureNamesItsCause
<1> QED
  BY <1>1, <1>2, <1>3, <1>6, <1>7, <1>8, <1>9, <1>11 DEF TInv, IInv

\* The last chunk makes the task DONE.
LEMMA CompleteKeeps == ASSUME TInv, Complete PROVE TInv'
<1>1. /\ Gathered \in Collected /\ Gathered.profile /\ collector.profile
      /\ Gathered.covered = Posts
  BY GatheredType DEF Complete, Posts
<1>2. /\ task' = Gathered /\ stage' = "ended" /\ UNCHANGED <<vars, chunk>>
      /\ answer' = [state |-> "DONE", code |-> "none", content |-> Gathered]
  BY DEF Complete, EndsWith
<1>3. IInv' /\ ReturnedForCause'
  BY <1>2 DEF TInv, IInv, TypeOK, RequestOut, RequestFits, Estimate, OpenWhileWithinBudget, DoneIsWhole,
              HonestSpending, CompletedResultIsWhole, ReturnedForCause, vars
<1>4. spent <= MaxTokens
  BY DEF Complete, TInv, IInv, CompletedResultIsWhole
<1>5. AllOrNothing' /\ FailureNamesItsCause' /\ AnswerType'
  BY <1>1, <1>2, <1>4 DEF AllOrNothing, FailureNamesItsCause, AnswerType, vars
<1>6. ProfileIsShared' /\ CoveredBefore' /\ OpenUntilEnded'
  BY <1>1, <1>2 DEF ProfileIsShared, CoveredBefore, OpenUntilEnded, vars
<1> QED
  BY <1>1, <1>2, <1>3, <1>5, <1>6 DEF TInv

\* A failure delivers nothing, and its code follows from the cause.
LEMMA FailKeeps == ASSUME TInv, Fail PROVE TInv'
<1>1. /\ stage' = "ended" /\ UNCHANGED <<pc, turns, calls, spent, repairs, final, finalAttempted,
             counter, collector, history, request, round, ctx, result, honest, chunk, task>>
      /\ answer' = [state |-> "FAILED", code |-> FailureCode, content |-> Nothing]
  BY DEF Fail, EndsWith, FailureContent
<1>2. /\ pc = "returned" /\ result \in Results \ {"none", "nil"}
      /\ result = "stopped" => stopReason \in StopReasons
  BY DEF Fail, TInv, ReturnedForCause
<1>3. stopReason' = IF result = "deadline" THEN "timeout" ELSE IF result = "cancelled" THEN "cancelled" ELSE stopReason
  BY DEF Fail
<1>4. IInv'
  <2>1. TypeOK'
    BY <1>1, <1>3 DEF TInv, IInv, TypeOK
  <2> QED
    BY <1>1, <1>2, <2>1 DEF TInv, IInv, RequestOut, OpenWhileWithinBudget, DoneIsWhole, HonestSpending,
                            CompletedResultIsWhole
<1>5. ReturnedForCause'
  <2>1. result = "stopped" => stopReason' = stopReason
    BY <1>3
  <2> QED
    BY <1>1, <2>1 DEF TInv, ReturnedForCause
<1>6. FailureCode \in FailureCodes /\ FailureNamesItsCause'
  BY <1>1, <1>2 DEF FailureCode, StopCodes, ErrorCodes, FailureCodes, Results, ModelErrors, StopReasons,
                    TInv, ReturnedForCause, FailureNamesItsCause
<1>7. AnswerType' /\ AllOrNothing'
  BY <1>1, <1>6, NothingType DEF AnswerType, AllOrNothing
<1>8. ProfileIsShared' /\ CoveredBefore' /\ OpenUntilEnded'
  BY <1>1 DEF TInv, ProfileIsShared, CoveredBefore, OpenUntilEnded
<1> QED
  BY <1>1, <1>4, <1>5, <1>6, <1>7, <1>8 DEF TInv

\* Before the first chunk only the answer, or the stage, changes.
LEMMA PrepareKeeps == ASSUME TInv, PrepareFails \/ TextRefused \/ Prepare PROVE TInv'
<1>1. UNCHANGED <<vars, chunk, task>> /\ pc = "top" /\ chunk = 1 /\ stage = "preparing"
  BY DEF PrepareFails, TextRefused, Prepare, TInv, OpenUntilEnded
<1>2. IInv' /\ ReturnedForCause'
  BY <1>1 DEF TInv, IInv, TypeOK, RequestOut, OpenWhileWithinBudget, DoneIsWhole,
              HonestSpending, CompletedResultIsWhole, ReturnedForCause, vars
<1>3. ProfileIsShared'
  BY <1>1 DEF TInv, ProfileIsShared, vars
<1>4. CASE Prepare
  <2>1. stage' = "analysing" /\ UNCHANGED answer
    BY <1>4 DEF Prepare
  <2>2. CoveredBefore' /\ OpenUntilEnded' /\ AnswerType' /\ AllOrNothing' /\ FailureNamesItsCause'
    BY <1>1, <2>1 DEF TInv, CoveredBefore, OpenUntilEnded, AnswerType, AllOrNothing,
                      FailureNamesItsCause, vars
  <2> QED
    BY <1>1, <1>2, <1>3, <2>1, <2>2 DEF TInv
<1>5. CASE PrepareFails \/ TextRefused
  <2>1. PICK code \in {"analysis_failed", "text_invalid", "task_timeout", "task_cancelled"} :
          (code = "task_cancelled" => ctx = "cancelled") /\ EndsWith("FAILED", code, Nothing)
    BY <1>5 DEF PrepareFails, TextRefused, FailureContent
  <2>2. stage' = "ended" /\ answer' = [state |-> "FAILED", code |-> code, content |-> Nothing]
    BY <2>1 DEF EndsWith
  <2>3. AnswerType' /\ AllOrNothing'
    BY <2>2, NothingType DEF AnswerType, AllOrNothing, FailureCodes
  <2>4. FailureNamesItsCause'
    BY <1>1, <2>1, <2>2 DEF FailureNamesItsCause, vars
  <2>5. CoveredBefore' /\ OpenUntilEnded'
    BY <2>2 DEF CoveredBefore, OpenUntilEnded
  <2> QED
    BY <1>1, <1>2, <1>3, <2>2, <2>3, <2>4, <2>5 DEF TInv
<1> QED
  BY <1>4, <1>5

\* Every step of a task keeps the invariant.
LEMMA TaskNextInv == TInv /\ [TaskNext]_allVars => TInv'
<1> SUFFICES ASSUME TInv, [TaskNext]_allVars PROVE TInv'
  OBVIOUS
<1>1. CASE UNCHANGED allVars
  BY <1>1 DEF allVars, vars, taskVars, TInv, IInv, TypeOK, RequestOut, RequestFits, Estimate,
              OpenWhileWithinBudget, DoneIsWhole, HonestSpending, CompletedResultIsWhole,
              ReturnedForCause, AnswerType, CoveredBefore, OpenUntilEnded, AllOrNothing,
              ProfileIsShared, FailureNamesItsCause
<1> QED
  BY <1>1, LoopStepKeeps, NextChunkKeeps, CompleteKeeps, FailKeeps, PrepareKeeps
     DEF TaskNext, TaskStep, Ended

\* The invariant holds throughout.
LEMMA TaskInductive == TaskSpec => []TInv
BY TaskInitInv, TaskNextInv, PTL DEF TaskSpec

-----------------------------------------------------------------------------
(* What follows *)

\* The types of the task and of its loop are kept, for any number of chunks.
THEOREM TaskTypeCorrect == TaskSpec => []TaskTypeOK
<1>1. TInv => TaskTypeOK
  BY DEF TInv, IInv, AnswerType, TaskTypeOK
<1> QED
  BY <1>1, TaskInductive, PTL

\* A task delivers all posts of all its chunks within its one budget, or nothing
\* (tasks.go:131-168).
THEOREM AllPostsOrNothing == TaskSpec => []AllOrNothing
BY TaskInductive, PTL DEF TInv

\* The total covers the whole candidate: honest bills never exceed it, however
\* many chunks share it (tasks.go:130).
THEOREM TaskBudgetIsKept == TaskSpec => []HonestSpending
BY TaskInductive, PTL DEF TInv, IInv

\* Every chunk after the first starts with the profile of the first
\* (tasks.go:130, 136, 156).
THEOREM OneProfile == TaskSpec => []ProfileIsShared
BY TaskInductive, PTL DEF TInv

\* The failure code is that of what happened (tasks.go:63-97).
THEOREM CodesAreTrue == TaskSpec => []FailureNamesItsCause
BY TaskInductive, PTL DEF TInv

-----------------------------------------------------------------------------
(* The task ends *)

\* What a task may still do, apart from the point its loop is at.
Ahead == 3 * (MaxTurns - turns) + (MaxToolCalls - calls) + 4 * (Chunks - chunk)
           + (IF stage = "preparing" THEN 1 ELSE 0)

\* The variant of a task that has not ended, at each point of its loop.
TaskWorkAt ==
    /\ Ahead \in Nat
    /\ stage = "ended" => TaskWork = 0
    /\ stage # "ended" =>
          TaskWork = Ahead + (CASE pc = "tools" -> 4 [] pc = "top" -> 3 [] pc = "calling" -> 2
                                [] pc = "returned" -> 1)

\* It has this value whenever the types are right.
LEMMA TaskWorkValues == TInv => TaskWorkAt
<1> SUFFICES ASSUME TInv PROVE TaskWorkAt
  OBVIOUS
<1>1. MaxTurns - turns \in Nat /\ MaxToolCalls - calls \in Nat /\ Chunks - chunk \in Nat
  BY BudgetAssumption, ChunksAssumption DEF TInv, IInv, TypeOK
<1>2. Ahead \in Nat
  BY <1>1 DEF Ahead
<1>3. pc \in {"top", "calling", "tools", "returned"}
  BY DEF TInv, IInv, TypeOK
<1> QED
  BY <1>1, <1>2, <1>3 DEF TaskWorkAt, TaskWork, Ahead

\* More turns and calls made leave fewer of them.
LEMMA MoreDone ==
    ASSUME NEW m \in Nat, NEW n \in Nat, NEW r \in Int, NEW t1 \in Nat, NEW t2 \in Nat,
           NEW c1 \in Nat, NEW c2 \in Nat, t1 <= t2, c1 <= c2
    PROVE  3 * (m - t2) + (n - c2) + 4 * r <= 3 * (m - t1) + (n - c1) + 4 * r
OBVIOUS

\* A step of the loop lowers it: the loop moves on within the turn, or counts it.
LEMMA LoopUsesWork == ASSUME TInv, TInv', LoopStep PROVE TaskWork' < TaskWork
<1>1. TaskWorkAt /\ TaskWorkAt'
  <2>1. TInv' => TaskWorkAt'
    BY TaskWorkValues, PTL
  <2> QED
    BY <2>1, TaskWorkValues
<1>2. stage = "analysing" /\ stage' = "analysing" /\ chunk' = chunk /\ Moves
  BY TurnMoves DEF LoopStep, taskVars
<1>3. /\ turns \in Nat /\ calls \in Nat /\ turns' \in Nat /\ calls' \in Nat
      /\ chunk \in Nat /\ Chunks \in Nat /\ MaxTurns \in Nat /\ MaxToolCalls \in Nat
  BY BudgetAssumption, ChunksAssumption DEF TInv, IInv, TypeOK
<1>4. Ahead = 3 * (MaxTurns - turns) + (MaxToolCalls - calls) + 4 * (Chunks - chunk)
  BY <1>2, <1>3 DEF Ahead
<1>5. Ahead' = 3 * (MaxTurns - turns') + (MaxToolCalls - calls') + 4 * (Chunks - chunk)
  BY <1>2, <1>3 DEF Ahead
<1>6. Ahead \in Nat /\ Ahead' \in Nat
  BY <1>1 DEF TaskWorkAt
<1>7. /\ pc = "tools"    => TaskWork = Ahead + 4
      /\ pc = "top"      => TaskWork = Ahead + 3
      /\ pc = "calling"  => TaskWork = Ahead + 2
  BY <1>1, <1>2 DEF TaskWorkAt
<1>8. /\ pc' = "tools"    => TaskWork' = Ahead' + 4
      /\ pc' = "top"      => TaskWork' = Ahead' + 3
      /\ pc' = "calling"  => TaskWork' = Ahead' + 2
      /\ pc' = "returned" => TaskWork' = Ahead' + 1
  BY <1>1, <1>2 DEF TaskWorkAt
<1>9. CASE /\ pc # "returned" /\ pc' = "returned"
           /\ turns' \in {turns, turns + 1} /\ calls' \in {calls, calls + 1}
  <2>1. Ahead' <= Ahead
    <3>1. turns <= turns' /\ calls <= calls'
      BY <1>3, <1>9
    <3>2. Chunks - chunk \in Int
      BY <1>3
    <3> QED
      BY <1>3, <1>4, <1>5, <3>1, <3>2, MoreDone
  <2>2. pc \in {"tools", "top", "calling"}
    BY <1>9 DEF TInv, IInv, TypeOK
  <2> QED
    BY <1>6, <1>7, <1>8, <1>9, <2>1, <2>2
<1>10. CASE pc = "top" /\ pc' = "calling" /\ UNCHANGED <<turns, calls>>
  <2>1. Ahead' = Ahead
    BY <1>4, <1>5, <1>10
  <2> QED
    BY <1>6, <1>7, <1>8, <1>10, <2>1
<1>11. CASE pc = "calling" /\ pc' \in {"top", "tools"} /\ turns' = turns + 1 /\ UNCHANGED calls
  <2>1. Ahead' = Ahead - 3
    BY <1>3, <1>4, <1>5, <1>11
  <2> QED
    BY <1>6, <1>7, <1>8, <1>11, <2>1
<1>12. CASE pc = "tools" /\ pc' = "tools" /\ calls' = calls + 1 /\ UNCHANGED turns
  <2>1. Ahead' = Ahead - 1
    BY <1>3, <1>4, <1>5, <1>12
  <2> QED
    BY <1>6, <1>7, <1>8, <1>12, <2>1
<1>13. CASE pc = "tools" /\ pc' = "top" /\ UNCHANGED <<turns, calls>>
  <2>1. Ahead' = Ahead
    BY <1>4, <1>5, <1>13
  <2> QED
    BY <1>6, <1>7, <1>8, <1>13, <2>1
<1> QED
  BY <1>2, <1>9, <1>10, <1>11, <1>12, <1>13 DEF Moves

\* So does every other step of the task; a new chunk gives back no more than the
\* chunk before it used up.
LEMMA TaskUsesWork == ASSUME TInv, TInv', TaskStep PROVE TaskWork' < TaskWork
<1>1. TaskWorkAt /\ TaskWorkAt'
  <2>1. TInv' => TaskWorkAt'
    BY TaskWorkValues, PTL
  <2> QED
    BY <2>1, TaskWorkValues
<1>2. Ahead \in Nat /\ pc \in {"top", "calling", "tools", "returned"}
  BY <1>1 DEF TaskWorkAt, TInv, IInv, TypeOK
<1>3. CASE PrepareFails \/ TextRefused \/ Complete \/ Fail
  <2>1. stage # "ended" /\ stage' = "ended"
    BY <1>3 DEF PrepareFails, TextRefused, Complete, Fail, EndsWith
  <2>2. TaskWork' = 0
    BY <1>1, <2>1 DEF TaskWorkAt
  <2>3. TaskWork > 0
    BY <1>1, <1>2, <2>1 DEF TaskWorkAt
  <2> QED
    BY <2>2, <2>3
<1>4. CASE Prepare
  <2>1. stage = "preparing" /\ stage' = "analysing" /\ UNCHANGED <<pc, turns, calls, chunk>>
    BY <1>4 DEF Prepare, vars
  <2>2. pc = "top"
    BY <2>1 DEF TInv, OpenUntilEnded
  <2>3. turns \in Nat /\ calls \in Nat /\ chunk \in Nat
    BY BudgetAssumption, ChunksAssumption DEF TInv, IInv, TypeOK
  <2>4. Ahead = Ahead' + 1
    BY <2>1, <2>3, BudgetAssumption, ChunksAssumption DEF Ahead
  <2>5. TaskWork = Ahead + 3 /\ TaskWork' = Ahead' + 3 /\ Ahead' \in Nat
    BY <1>1, <2>1, <2>2 DEF TaskWorkAt
  <2>6. Ahead' \in Nat
    BY <2>5
  <2>7. TaskWork = Ahead' + 4 /\ TaskWork' = Ahead' + 3
    BY <2>4, <2>5, <2>6
  <2>8. \A n \in Nat : n + 3 < n + 4
    OBVIOUS
  <2> QED
    BY <2>6, <2>7, <2>8, Zenon
<1>5. CASE NextChunk
  <2>1. /\ stage = "analysing" /\ stage' = "analysing" /\ pc = "returned" /\ pc' = "top"
        /\ chunk' = chunk + 1 /\ UNCHANGED <<turns, calls>>
    BY <1>5 DEF NextChunk, Following
  <2>2. turns \in Nat /\ calls \in Nat /\ chunk \in Nat
    BY BudgetAssumption, ChunksAssumption DEF TInv, IInv, TypeOK
  <2>3. Ahead' = Ahead - 4
    BY <2>1, <2>2, BudgetAssumption, ChunksAssumption DEF Ahead
  <2>4. TaskWork = Ahead + 1 /\ TaskWork' = Ahead' + 3
    BY <1>1, <2>1 DEF TaskWorkAt
  <2> QED
    BY <1>2, <2>3, <2>4
<1> QED
  BY <1>3, <1>4, <1>5, LoopUsesWork DEF TaskStep

\* However many chunks a task has and however the model answers, it cannot go on
\* forever: every step but the end of its context leaves it less to do
\* (tasks.go:131-160).
THEOREM TheTaskEnds == TaskSpec => TaskUsesUpWork
<1>1. TInv /\ TInv' /\ [TaskNext]_allVars => [(ctx' = ctx) => (TaskWork' < TaskWork)]_allVars
  <2> SUFFICES ASSUME TInv, TInv', TaskNext, ctx' = ctx, ~UNCHANGED allVars
               PROVE  TaskWork' < TaskWork
    OBVIOUS
  <2>1. ~TaskContextStep /\ ~Ended
    BY DEF TaskContextStep, ContextStep, Ended
  <2> QED
    BY <2>1, TaskUsesWork DEF TaskNext
<1> QED
  BY <1>1, TaskInductive, PTL DEF TaskSpec, TaskUsesUpWork
=============================================================================
