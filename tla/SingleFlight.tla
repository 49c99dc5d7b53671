---------------------------- MODULE SingleFlight ----------------------------
(***************************************************************************)
(* What an idempotent execution store promises its callers, without saying *)
(* how: executions of one key never overlap, and a caller is answered with *)
(* the outcome of a finished execution of exactly its own request, with a  *)
(* refusal, or because its own context ended.                              *)
(***************************************************************************)
CONSTANTS Callers, Requests, KeyOf(_), Outcomes, Refusals

VARIABLES
    runs,     \* caller -> "none", "running" or the outcome of its execution
    asked,    \* caller -> the requests it made (none or one)
    answers   \* caller -> the answers it received (none or one)

vars == <<runs, asked, answers>>

Init ==
    /\ runs = [c \in Callers |-> "none"]
    /\ asked = [c \in Callers |-> {}]
    /\ answers = [c \in Callers |-> {}]

Ask(c, r) == asked[c] = {} /\ asked' = [asked EXCEPT ![c] = {r}]

\* A caller whose key is not being executed may execute it.
Start(c) ==
    \E r \in Requests :
        /\ Ask(c, r)
        /\ \A d \in Callers : runs[d] = "running" => \A s \in asked[d] : KeyOf(s) # KeyOf(r)
        /\ runs' = [runs EXCEPT ![c] = "running"]
        /\ UNCHANGED answers

Finish(c) ==
    /\ runs[c] = "running"
    /\ \E o \in Outcomes :
          /\ runs' = [runs EXCEPT ![c] = o]
          /\ answers' = [answers EXCEPT ![c] = {o}]
    /\ UNCHANGED asked

\* A caller waits for the outcome of an execution of the same request.
Wait(c) ==
    \E r \in Requests :
        /\ Ask(c, r)
        /\ \E d \in Callers : runs[d] # "none" /\ asked[d] = {r}
        /\ UNCHANGED <<runs, answers>>

Serve(c) ==
    /\ asked[c] # {} /\ answers[c] = {} /\ runs[c] = "none"
    /\ \E d \in Callers :
          /\ runs[d] \in Outcomes /\ asked[d] = asked[c]
          /\ answers' = [answers EXCEPT ![c] = {runs[d]}]
    /\ UNCHANGED <<runs, asked>>

\* A waiting caller goes away, or a request is refused at once.
Leave(c) ==
    /\ asked[c] # {} /\ answers[c] = {} /\ runs[c] = "none"
    /\ answers' = [answers EXCEPT ![c] = {"context"}]
    /\ UNCHANGED <<runs, asked>>

Refuse(c) ==
    \E r \in Requests, why \in Refusals :
        /\ Ask(c, r)
        /\ answers' = [answers EXCEPT ![c] = {why}]
        /\ UNCHANGED runs

Next ==
    \E c \in Callers :
        Start(c) \/ Finish(c) \/ Wait(c) \/ Serve(c) \/ Leave(c) \/ Refuse(c)

Spec == Init /\ [][Next]_vars
=============================================================================
