-------------------------- MODULE ModelClientProofs --------------------------
(***************************************************************************)
(* One call of the model, for every retry_count and whatever figures the   *)
(* provider reports: it is answered as the analysis loop assumes, and      *)
(* every request that reached the provider is in its usage.                *)
(*                                                                         *)
(* The argument: only an attempt that is not tried again can have reported *)
(* a usage, so while the call goes on the total consists of unknown ones   *)
(* (TotalIsUnknown), and the number of attempts is that of the loop.       *)
(***************************************************************************)
EXTENDS ModelClient, TLAPS

\* What Complete has added up after n attempts that reported nothing.
Unreported(n) ==
    [attempts |-> n, input |-> 0, output |-> 0, inputReported |-> FALSE, outputReported |-> FALSE,
     unknownInput |-> n, unknownOutput |-> n]

\* The attempts that are over.
Attempted == IF phase = "backoff" THEN attempt + 1 ELSE attempt

TypeOK ==
    /\ phase \in {"sending", "waiting", "backoff", "returned"}
    /\ attempt \in Nat
    /\ timed \in BOOLEAN
    /\ ctx \in {"live", "expired", "cancelled"}
    /\ received \in Nat /\ ended \in Nat

\* Between one and six attempts, and the pause only before another one.
AttemptsBound == Attempted < MaxAttempts

\* While the call goes on, nothing has been reported.
TotalIsUnknown == phase # "returned" => total = Unreported(Attempted) /\ answer = Call!Pending

\* Each attempt sends at most one request.
OneRequestEach ==
    phase # "returned" => received <= IF phase = "waiting" THEN attempt + 1 ELSE Attempted

\* A live context has ended no attempt; an ended one lets no request out.
FewAfterTheEnd ==
    /\ ctx = "live" => ended = 0
    /\ phase = "waiting" => ended = 0
    /\ phase \in {"sending", "backoff"} => ended <= 1

MInv ==
    /\ TypeOK
    /\ AttemptsBound
    /\ TotalIsUnknown
    /\ OneRequestEach
    /\ FewAfterTheEnd
    /\ RequestsAreCounted

\* The client makes at least one and at most six attempts (http_client.go:62-66).
LEMMA MaxAttemptsRange == MaxAttempts \in 1..6
BY RetryCountAssumption DEF MaxAttempts

\* One more attempt gives the usage of all of them (http_client.go:84-97).
LEMMA AddedUsage ==
    ASSUME NEW n \in Nat, total = Unreported(n), NEW input \in Int, NEW output \in Int
    PROVE  /\ Added(input, output) = Call!UsageOf(n + 1, input, output)
           /\ input < 0 /\ output < 0 => Added(input, output) = Unreported(n + 1)
           /\ Added(input, output).attempts = n + 1
<1> DEFINE Figure(figure)   == IF figure >= 0 THEN figure ELSE 0
           Silent(figure) == IF figure >= 0 THEN n ELSE n + 1
           Usage == [attempts |-> n + 1, input |-> Figure(input), output |-> Figure(output),
                     inputReported |-> input >= 0, outputReported |-> output >= 0,
                     unknownInput |-> Silent(input), unknownOutput |-> Silent(output)]
<1>1. /\ total.attempts = n /\ total.input = 0 /\ total.output = 0
      /\ total.unknownInput = n /\ total.unknownOutput = n
  BY DEF Unreported
<1>2. total.inputReported = FALSE /\ total.outputReported = FALSE
  BY Zenon DEF Unreported
<1>3. (total.inputReported \/ input >= 0) = (input >= 0)
      /\ (total.outputReported \/ output >= 0) = (output >= 0)
  BY <1>2, SMT
<1>4. Added(input, output) = Usage
  <2>1. /\ total.attempts + 1 = n + 1
        /\ total.input + (IF input >= 0 THEN input ELSE 0) = Figure(input)
        /\ total.output + (IF output >= 0 THEN output ELSE 0) = Figure(output)
        /\ total.unknownInput + (IF input >= 0 THEN 0 ELSE 1) = Silent(input)
        /\ total.unknownOutput + (IF output >= 0 THEN 0 ELSE 1) = Silent(output)
    BY <1>1
  <2> QED
    BY <1>3, <2>1, Zenon DEF Added
<1>5. Call!UsageOf(n + 1, input, output) = Usage
  <2> DEFINE Others(k, figure) == IF figure >= 0 THEN k - 1 ELSE k
  <2>1. \A k : Call!UsageOf(k, input, output) =
          [attempts |-> k, input |-> Figure(input), output |-> Figure(output),
           inputReported |-> input >= 0, outputReported |-> output >= 0,
           unknownInput |-> Others(k, input), unknownOutput |-> Others(k, output)]
    BY Zenon DEF Call!UsageOf, Call!Reported
  <2>2. Others(n + 1, input) = Silent(input) /\ Others(n + 1, output) = Silent(output)
    OBVIOUS
  <2> HIDE DEF Others, Figure, Silent
  <2> QED
    BY <2>1, <2>2, Zenon
<1>6. ASSUME input < 0, output < 0 PROVE Usage = Unreported(n + 1)
  <2>1. Figure(input) = 0 /\ Figure(output) = 0 /\ Silent(input) = n + 1 /\ Silent(output) = n + 1
    BY <1>6
  <2>2. ~(input >= 0) /\ ~(output >= 0)
    BY <1>6
  <2>3. (input >= 0) = FALSE /\ (output >= 0) = FALSE
    BY <2>2, SMT
  <2> QED
    BY <2>1, <2>3, Zenon DEF Unreported
<1>7. Usage.attempts = n + 1
  OBVIOUS
<1> QED
  BY <1>4, <1>5, <1>6, <1>7

\* The usage of attempts that reported nothing.
LEMMA UnreportedUsage ==
    ASSUME NEW n \in Nat
    PROVE  Call!UsageOf(n, -1, -1) = Unreported(n)
<1>1. ~(-1 >= 0)
  OBVIOUS
<1>2. (-1 >= 0) = FALSE
  BY <1>1, SMT
<1> QED
  BY <1>1, <1>2, Zenon DEF Unreported, Call!UsageOf, Call!Reported

\* How an attempt ends: the call pauses, or it returns.
LEMMA EndAttemptKeeps ==
    ASSUME MInv, InFlight, NEW kind, NEW retryable \in BOOLEAN,
           NEW input \in Int, NEW output \in Int,
           EndAttempt(kind, retryable, input, output),
           retryable => input < 0 /\ output < 0,
           retryable /\ CtxEnded => phase = "waiting"
    PROVE  MInv'
<1>1. /\ total = Unreported(attempt) /\ attempt \in Nat /\ received \in Nat /\ ended \in Nat
      /\ attempt < MaxAttempts /\ MaxAttempts \in Nat
      /\ received <= attempt + 1 /\ ended <= 1 /\ (phase = "waiting" => ended = 0)
  BY MaxAttemptsRange DEF MInv, InFlight, TypeOK, AttemptsBound, Attempted, TotalIsUnknown,
                          OneRequestEach, FewAfterTheEnd
<1>2. UNCHANGED <<attempt, timed, ctx, received>>
  BY DEF EndAttempt
<1>3. ended' = IF CtxEnded THEN ended + 1 ELSE ended
  BY DEF EndAttempt
<1>4. CASE retryable /\ attempt + 1 < MaxAttempts
  <2>1. phase' = "backoff" /\ UNCHANGED answer
    BY <1>4 DEF EndAttempt
  <2>2. total' = Unreported(attempt + 1)
    BY <1>1, <1>4, AddedUsage DEF EndAttempt
  <2>3. ended' <= 1
    BY <1>1, <1>3, <1>4
  <2>4. TypeOK' /\ AttemptsBound' /\ TotalIsUnknown' /\ OneRequestEach'
    BY <1>1, <1>2, <1>3, <1>4, <2>1, <2>2
    DEF MInv, InFlight, TypeOK, AttemptsBound, Attempted, TotalIsUnknown, OneRequestEach, MaxAttempts
  <2>5. FewAfterTheEnd' /\ RequestsAreCounted'
    BY <1>2, <1>3, <2>1, <2>3 DEF MInv, FewAfterTheEnd, RequestsAreCounted, CtxEnded
  <2> QED
    BY <2>4, <2>5 DEF MInv
<1>5. CASE ~(retryable /\ attempt + 1 < MaxAttempts)
  <2>1. phase' = "returned" /\ answer' = [kind |-> kind, usage |-> Added(input, output)]
    BY <1>5 DEF EndAttempt, Return
  <2>2. answer'.usage.attempts = attempt + 1
    BY <1>1, <2>1, AddedUsage
  <2>3. TypeOK' /\ AttemptsBound' /\ TotalIsUnknown' /\ OneRequestEach'
    BY <1>1, <1>2, <1>3, <2>1
    DEF MInv, TypeOK, AttemptsBound, Attempted, TotalIsUnknown, OneRequestEach, MaxAttempts
  <2>4. FewAfterTheEnd' /\ RequestsAreCounted'
    BY <1>1, <1>2, <1>3, <2>1, <2>2 DEF MInv, FewAfterTheEnd, RequestsAreCounted, CtxEnded
  <2> QED
    BY <2>3, <2>4 DEF MInv
<1> QED
  BY <1>4, <1>5

\* Every step keeps the invariant.
LEMMA StepKeeps == MInv /\ [Next]_vars => MInv'
<1> SUFFICES ASSUME MInv, [Next]_vars PROVE MInv'
  OBVIOUS
<1> USE DEF MaxAttempts
<1>1. CASE Deliver
  BY <1>1 DEF Deliver, MInv, TypeOK, AttemptsBound, Attempted, TotalIsUnknown, OneRequestEach,
              FewAfterTheEnd, RequestsAreCounted, CtxEnded
<1>2. CASE Respond
  <2>1. PICK kind \in Call!Replies, input \in Figures, output \in Figures :
            EndAttempt(kind, FALSE, input, output)
    BY <1>2 DEF Respond
  <2> QED
    BY <1>2, <2>1, EndAttemptKeeps, FiguresAssumption DEF Respond, InFlight
<1>3. CASE RefuseRequest
  <2>1. PICK kind \in {"rate_limited", "connection"}, retryable \in BOOLEAN :
            EndAttempt(kind, retryable, -1, -1)
    BY <1>3 DEF RefuseRequest
  <2> QED
    BY <1>3, <2>1, EndAttemptKeeps DEF RefuseRequest, InFlight
<1>4. CASE ConnectionFails
  <2>1. PICK retryable \in BOOLEAN : EndAttempt("connection", retryable, -1, -1)
    BY <1>4 DEF ConnectionFails
  <2>2. InFlight /\ ~CtxEnded
    BY <1>4 DEF ConnectionFails
  <2> QED
    BY <2>1, <2>2, EndAttemptKeeps
<1>5. CASE ClientTimeout
  <2>1. PICK retryable \in BOOLEAN : EndAttempt("deadline", retryable, -1, -1)
    BY <1>5 DEF ClientTimeout
  <2>2. InFlight /\ ~CtxEnded
    BY <1>5 DEF ClientTimeout
  <2> QED
    BY <2>1, <2>2, EndAttemptKeeps
<1>6. CASE ContextError
  <2>1. PICK retryable \in BOOLEAN : EndAttempt(CtxErr, retryable, -1, -1) /\ ~retryable
    BY <1>6 DEF ContextError
  <2>2. InFlight
    BY <1>6 DEF ContextError
  <2> QED
    BY <2>1, <2>2, EndAttemptKeeps
<1>7. CASE BackoffOver
  BY <1>7 DEF BackoffOver, MInv, TypeOK, AttemptsBound, Attempted, TotalIsUnknown, OneRequestEach,
              FewAfterTheEnd, RequestsAreCounted
<1>8. CASE BackoffInterrupted
  <2>1. total = Unreported(attempt + 1) /\ received <= attempt + 1
    BY <1>8 DEF BackoffInterrupted, MInv, TotalIsUnknown, OneRequestEach, Attempted
  <2>2. answer'.usage.attempts = attempt + 1 /\ phase' = "returned"
    BY <1>8, <2>1 DEF BackoffInterrupted, Return, Unreported
  <2>3. UNCHANGED <<attempt, timed, ctx, total, received, ended>>
    BY <1>8 DEF BackoffInterrupted
  <2>4. /\ phase = "backoff" /\ attempt \in Nat /\ ended \in Nat /\ ended <= 1
        /\ attempt + 1 < MaxAttempts /\ MaxAttempts \in Nat
    BY <1>8, MaxAttemptsRange
    DEF BackoffInterrupted, MInv, TypeOK, AttemptsBound, Attempted, FewAfterTheEnd
  <2>5. TypeOK' /\ AttemptsBound'
    BY <2>2, <2>3, <2>4 DEF MInv, TypeOK, AttemptsBound, Attempted
  <2>6. TotalIsUnknown' /\ OneRequestEach'
    BY <2>2 DEF TotalIsUnknown, OneRequestEach
  <2>7. FewAfterTheEnd' /\ RequestsAreCounted'
    BY <2>1, <2>2, <2>3, <2>4 DEF MInv, FewAfterTheEnd, RequestsAreCounted
  <2> QED
    BY <2>5, <2>6, <2>7 DEF MInv
<1>9. CASE ContextEnds
  BY <1>9 DEF ContextEnds, MInv, TypeOK, AttemptsBound, Attempted, TotalIsUnknown, OneRequestEach,
              FewAfterTheEnd, RequestsAreCounted
<1>10. CASE UNCHANGED vars
  BY <1>10 DEF vars, MInv, TypeOK, AttemptsBound, Attempted, TotalIsUnknown, OneRequestEach,
               FewAfterTheEnd, RequestsAreCounted
<1> QED
  BY <1>1, <1>2, <1>3, <1>4, <1>5, <1>6, <1>7, <1>8, <1>9, <1>10 DEF Next, Complete, Returned

\* The first attempt goes out with nothing counted.
LEMMA InitMInv == Init => MInv
BY MaxAttemptsRange
DEF Init, MInv, TypeOK, AttemptsBound, Attempted, TotalIsUnknown, OneRequestEach, FewAfterTheEnd,
    RequestsAreCounted, Unreported, Call!NoUsage

\* The invariant holds in every state of a call.
LEMMA Inductive == Spec => []MInv
BY InitMInv, StepKeeps, PTL DEF Spec

\* No request of an attempt that the provider received is missing from the usage, for
\* any number of retries; and an ended context adds at most two attempts (http_client.go:72-97).
THEOREM EveryRequestIsCounted == Spec => []RequestsAreCounted
<1>1. MInv => RequestsAreCounted
  BY DEF MInv
<1> QED
  BY <1>1, Inductive, PTL

-----------------------------------------------------------------------------
(* The refinement *)

\* An attempt that ends is a step of the promise, or the pause before the next.
LEMMA EndAttemptRefines ==
    ASSUME MInv, InFlight, NEW kind, NEW retryable \in BOOLEAN,
           NEW input \in Int, NEW output \in Int,
           EndAttempt(kind, retryable, input, output)
    PROVE  \/ UNCHANGED Call!vars
           \/ /\ answer = Call!Pending /\ UNCHANGED ctx
              /\ attempt + 1 \in 1..MaxAttempts
              /\ answer' = [kind |-> kind, usage |-> Call!UsageOf(attempt + 1, input, output)]
<1>1. /\ total = Unreported(attempt) /\ answer = Call!Pending /\ attempt \in Nat
      /\ attempt + 1 \in 1..MaxAttempts
  BY MaxAttemptsRange DEF MInv, InFlight, TypeOK, TotalIsUnknown, AttemptsBound, Attempted
<1>2. UNCHANGED ctx
  BY DEF EndAttempt
<1>3. CASE UNCHANGED answer
  BY <1>2, <1>3 DEF Call!vars
<1>4. CASE answer' = [kind |-> kind, usage |-> Added(input, output)]
  BY <1>1, <1>2, <1>4, AddedUsage
<1> QED
  BY <1>3, <1>4 DEF EndAttempt, Return

\* Every step of the client is a step of its promise, or none.
LEMMA StepRefines == MInv /\ [Next]_vars => [Call!Next]_(Call!vars)
<1> SUFFICES ASSUME MInv, [Next]_vars PROVE Call!Next \/ UNCHANGED Call!vars
  OBVIOUS
<1>1. ASSUME NEW kind \in Call!Failures, NEW retryable \in BOOLEAN, InFlight,
             EndAttempt(kind, retryable, -1, -1), kind = "cancelled" => ctx = "cancelled"
      PROVE  Call!Next \/ UNCHANGED Call!vars
  <2>1. CASE UNCHANGED Call!vars
    BY <2>1
  <2>2. CASE /\ answer = Call!Pending /\ UNCHANGED ctx
             /\ attempt + 1 \in 1..MaxAttempts
             /\ answer' = [kind |-> kind, usage |-> Call!UsageOf(attempt + 1, -1, -1)]
    BY <1>1, <2>2 DEF Call!Next, Call!Failure
  <2> QED
    BY <1>1, <2>1, <2>2, EndAttemptRefines
<1>2. CASE Respond
  <2>1. PICK kind \in Call!Replies, input \in Figures, output \in Figures :
            EndAttempt(kind, FALSE, input, output)
    BY <1>2 DEF Respond
  <2>2. CASE UNCHANGED Call!vars
    BY <2>2
  <2>3. CASE /\ answer = Call!Pending /\ UNCHANGED ctx
             /\ attempt + 1 \in 1..MaxAttempts
             /\ answer' = [kind |-> kind, usage |-> Call!UsageOf(attempt + 1, input, output)]
    BY <2>1, <2>3 DEF Call!Next, Call!Reply
  <2>4. InFlight /\ input \in Int /\ output \in Int
    BY <1>2, <2>1, FiguresAssumption DEF Respond, InFlight
  <2> QED
    BY <2>1, <2>2, <2>3, <2>4, EndAttemptRefines
<1>3. CASE RefuseRequest
  <2>1. PICK kind \in {"rate_limited", "connection"}, retryable \in BOOLEAN :
            EndAttempt(kind, retryable, -1, -1)
    BY <1>3 DEF RefuseRequest
  <2> QED
    BY <1>1, <1>3, <2>1 DEF RefuseRequest, InFlight, Call!Failures
<1>4. CASE ConnectionFails \/ ClientTimeout
  BY <1>1, <1>4 DEF ConnectionFails, ClientTimeout, Call!Failures
<1>5. CASE ContextError
  BY <1>1, <1>5 DEF ContextError, CtxErr, Call!Failures
<1>6. CASE BackoffInterrupted
  <2>1. /\ total = Unreported(attempt + 1) /\ answer = Call!Pending /\ attempt \in Nat
        /\ attempt + 1 \in 1..MaxAttempts
    BY <1>6, MaxAttemptsRange
    DEF BackoffInterrupted, MInv, TypeOK, TotalIsUnknown, AttemptsBound, Attempted
  <2>2. total = Call!UsageOf(attempt + 1, -1, -1)
    BY <2>1, UnreportedUsage
  <2>3. answer' = [kind |-> CtxErr, usage |-> Call!UsageOf(attempt + 1, -1, -1)] /\ UNCHANGED ctx
    BY <1>6, <2>2 DEF BackoffInterrupted, Return
  <2>4. CtxErr \in Call!Failures /\ (CtxErr = "cancelled" => ctx = "cancelled")
    BY DEF CtxErr, Call!Failures
  <2> QED
    BY <2>1, <2>3, <2>4 DEF Call!Next, Call!Failure
<1>7. CASE Deliver \/ BackoffOver \/ UNCHANGED vars
  BY <1>7 DEF Deliver, BackoffOver, vars, Call!vars
<1>8. CASE ContextEnds
  BY <1>8 DEF ContextEnds, Call!Next, Call!ContextEnds
<1> QED
  BY <1>2, <1>3, <1>4, <1>5, <1>6, <1>7, <1>8 DEF Next, Complete, Returned

\* The client answers once, after an admissible number of attempts of which only
\* the last can have reported its usage, and reports a cancellation only when
\* there was one: every step is one of ModelCall (http_client.go:68-100).  That
\* the answer comes is liveness.
THEOREM ClientAnswersAsAssumed == Spec => Call!Init /\ [][Call!Next]_(Call!vars)
<1>1. Init => Call!Init
  BY DEF Init, Call!Init
<1> QED
  BY <1>1, StepRefines, Inductive, PTL DEF Spec
=============================================================================
