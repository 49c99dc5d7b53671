----------------------------- MODULE ModelClient -----------------------------
(***************************************************************************)
(* internal/model/http_client.go: HTTPClient.Complete, one call of the     *)
(* model.  An attempt is a request on its way to the provider ("sending"), *)
(* one the provider has received ("waiting") or the pause before the next  *)
(* attempt ("backoff").  The provider may answer at any time or never; the *)
(* context of the task may end at any time.                                *)
(***************************************************************************)
EXTENDS Integers

CONSTANTS
    RetryCount,  \* model.retry_count of the request
    Figures      \* numbers in the usage of a provider, negative or missing: < 0

ASSUME RetryCountAssumption == RetryCount \in Int
ASSUME FiguresAssumption == Figures \subseteq Int

VARIABLES
    phase,     \* "sending", "waiting", "backoff" or "returned"
    attempt,   \* the loop variable, from 0
    timed,     \* http.Client.Timeout is set: a timeout of 0 waits for ever
    ctx,       \* "live", "expired" or "cancelled"
    total,     \* the Usage that Complete adds up
    answer,    \* what Complete returned
    received,  \* ghost: how many requests the provider received
    ended      \* ghost: attempts counted after the context ended

vars == <<phase, attempt, timed, ctx, total, answer, received, ended>>

\* max(1, min(6, RetryCount + 1))
MaxAttempts == IF RetryCount < 0 THEN 1 ELSE IF RetryCount > 5 THEN 6 ELSE RetryCount + 1

Call == INSTANCE ModelCall WITH Attempts <- MaxAttempts

Init ==
    /\ phase = "sending" /\ attempt = 0
    /\ timed \in BOOLEAN
    /\ ctx = "live"
    /\ total = Call!NoUsage
    /\ answer = Call!Pending
    /\ received = 0 /\ ended = 0

InFlight == phase \in {"sending", "waiting"}
CtxEnded == ctx # "live"
CtxErr == IF ctx = "cancelled" THEN "cancelled" ELSE "deadline"

\* Mutant: only the first attempt without a report is counted as unknown.
AddedOnce(input, output) ==
    [attempts |-> total.attempts + 1,
     input  |-> total.input + (IF input >= 0 THEN input ELSE 0),
     output |-> total.output + (IF output >= 0 THEN output ELSE 0),
     inputReported  |-> total.inputReported \/ input >= 0,
     outputReported |-> total.outputReported \/ output >= 0,
     unknownInput  |-> IF input >= 0 THEN total.unknownInput ELSE 1,
     unknownOutput |-> IF output >= 0 THEN total.unknownOutput ELSE 1]

\* Whatever became of an attempt, its usage is added, or it is counted as unknown.
Added(input, output) ==
    [attempts |-> total.attempts + 1,
     input  |-> total.input + (IF input >= 0 THEN input ELSE 0),
     output |-> total.output + (IF output >= 0 THEN output ELSE 0),
     inputReported  |-> total.inputReported \/ input >= 0,
     outputReported |-> total.outputReported \/ output >= 0,
     unknownInput  |-> total.unknownInput + (IF input >= 0 THEN 0 ELSE 1),
     unknownOutput |-> total.unknownOutput + (IF output >= 0 THEN 0 ELSE 1)]

Return(kind, usage) ==
    /\ phase' = "returned"
    /\ answer' = [kind |-> kind, usage |-> usage]

\* One attempt is over; an error that may be transient is tried again.
EndAttempt(kind, retryable, input, output) ==
    /\ total' = Added(input, output)
    /\ ended' = IF CtxEnded THEN ended + 1 ELSE ended
    /\ IF retryable /\ attempt + 1 < MaxAttempts
       THEN phase' = "backoff" /\ UNCHANGED answer
       ELSE Return(kind, Added(input, output))
    /\ UNCHANGED <<attempt, timed, ctx, received>>

\* The provider receives the request; http.Client sends none for a context
\* that has ended.
Deliver ==
    /\ phase = "sending" /\ ~CtxEnded
    /\ phase' = "waiting"
    /\ received' = received + 1
    /\ UNCHANGED <<attempt, timed, ctx, total, answer, ended>>

\* A 2xx response is read: content, or something that has none.
Respond ==
    /\ phase = "waiting"
    /\ \E kind \in Call!Replies, input, output \in Figures :
          EndAttempt(kind, FALSE, input, output)

\* Any other status; 429 and 5xx may be transient.
RefuseRequest ==
    /\ phase = "waiting"
    /\ \/ EndAttempt("rate_limited", TRUE, -1, -1)
       \/ \E retryable \in BOOLEAN : EndAttempt("connection", retryable, -1, -1)

\* The request or the body of the response breaks off.
ConnectionFails == InFlight /\ ~CtxEnded /\ EndAttempt("connection", TRUE, -1, -1)

ClientTimeout == InFlight /\ ~CtxEnded /\ timed /\ EndAttempt("deadline", TRUE, -1, -1)

\* Mutant: an attempt that ends with the context is tried again.
ContextErrorRetried == InFlight /\ CtxEnded /\ EndAttempt("connection", TRUE, -1, -1)

ContextError == InFlight /\ CtxEnded /\ EndAttempt(CtxErr, FALSE, -1, -1)

\* The timer of the pause; select may prefer it to a context that has ended.
BackoffOver ==
    /\ phase = "backoff"
    /\ phase' = "sending"
    /\ attempt' = attempt + 1
    /\ UNCHANGED <<timed, ctx, total, answer, received, ended>>

BackoffInterrupted ==
    /\ phase = "backoff" /\ CtxEnded
    /\ Return(CtxErr, total)
    /\ UNCHANGED <<attempt, timed, ctx, total, received, ended>>

ContextEnds ==
    /\ ctx = "live" /\ phase # "returned"
    /\ ctx' \in {"expired", "cancelled"}
    /\ UNCHANGED <<phase, attempt, timed, total, answer, received, ended>>

Returned == phase = "returned" /\ UNCHANGED vars

Complete ==
    \/ Deliver \/ Respond \/ RefuseRequest \/ ConnectionFails \/ ClientTimeout
    \/ ContextError \/ BackoffOver \/ BackoffInterrupted

Next == Complete \/ ContextEnds \/ Returned

Spec == Init /\ [][Next]_vars

\* The timers run, and the context of a task has a deadline (tasks.go:60).  That
\* the provider answers is not assumed.
Fairness ==
    /\ WF_vars(ClientTimeout)
    /\ WF_vars(ContextError)
    /\ WF_vars(BackoffOver)
    /\ WF_vars(ContextEnds)

FairSpec == Spec /\ Fairness

-----------------------------------------------------------------------------
(* Properties *)

\* A call is answered as the analysis loop assumes, whatever the provider and
\* the context do: every attempt is reported or counted as unknown, a
\* cancellation is only reported when there was one, and an answer comes even
\* from a provider that is silent and a client without a timeout
\* (http_client.go:68-100; recordUsage of budget.go).
ImplementsModelCall == Call!Spec

\* No request the provider received is missing from the usage, so that what it
\* may bill is counted, an attempt being one request (the redirects that the HTTP
\* client of the library follows by itself are not seen here); and an ended context adds at most the attempt under way
\* and one that the pause let start, never a sequence of retries, each of which
\* the loop would bill at its full cap (http_client.go:72-97, budget.go:41-48).
RequestsAreCounted ==
    phase = "returned" =>
        /\ received <= answer.usage.attempts
        /\ ended <= 2
=============================================================================
