------------------------------ MODULE ModelCall ------------------------------
(***************************************************************************)
(* What the analysis loop relies on when it calls the model, without       *)
(* saying how: one call is answered once, after 1..Attempts requests, of   *)
(* which only the last one can have reported its usage; the others are     *)
(* counted as unknown, and billed at their estimate by recordUsage.        *)
(***************************************************************************)
EXTENDS Integers

CONSTANTS
    Attempts,  \* HTTPClient.MaxAttempts()
    Figures    \* the token numbers a provider puts into its usage; a negative
               \* one stands for a missing one as well

VARIABLES
    ctx,       \* the context of the task: "live", "expired" or "cancelled"
    answer     \* what the call returned

vars == <<ctx, answer>>

Failures == {"deadline", "cancelled", "rate_limited", "connection"}
Replies == {"content", "invalid"}  \* invalid: ErrInvalidResponse

NoUsage ==
    [attempts |-> 0, input |-> 0, output |-> 0, inputReported |-> FALSE, outputReported |-> FALSE,
     unknownInput |-> 0, unknownOutput |-> 0]

Pending == [kind |-> "none", usage |-> NoUsage]

Reported(figure) == figure >= 0

\* The usage of n attempts of which the last one reported these figures.
UsageOf(n, input, output) ==
    LET Known(figure)   == IF Reported(figure) THEN figure ELSE 0
        Unknown(figure) == IF Reported(figure) THEN n - 1 ELSE n
    IN  [attempts |-> n,
         input |-> Known(input), output |-> Known(output),
         inputReported |-> Reported(input), outputReported |-> Reported(output),
         unknownInput |-> Unknown(input), unknownOutput |-> Unknown(output)]

Init == ctx = "live" /\ answer = Pending

\* The reply of the provider, with or without its usage.
Reply ==
    /\ answer = Pending
    /\ \E kind \in Replies, n \in 1..Attempts, input, output \in Figures :
          answer' = [kind |-> kind, usage |-> UsageOf(n, input, output)]
    /\ UNCHANGED ctx

\* No attempt succeeded.  "cancelled" is the end of the task's own context;
\* "deadline" may be the client's timeout as well.
Failure ==
    /\ answer = Pending
    /\ \E kind \in Failures, n \in 1..Attempts :
          /\ kind = "cancelled" => ctx = "cancelled"
          /\ answer' = [kind |-> kind, usage |-> UsageOf(n, -1, -1)]
    /\ UNCHANGED ctx

ContextEnds ==
    /\ ctx = "live"
    /\ ctx' \in {"expired", "cancelled"}
    /\ UNCHANGED answer

Next == Reply \/ Failure \/ ContextEnds

\* A call is answered.
Spec == Init /\ [][Next]_vars /\ WF_vars(Reply \/ Failure)
=============================================================================
