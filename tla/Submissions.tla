----------------------------- MODULE Submissions -----------------------------
(***************************************************************************)
(* What the analysis loop relies on when the model calls one of the three  *)
(* submitting tools: a call is accepted as a whole or refused as a whole,  *)
(* and what was accepted stays.  These are the steps of the collector that *)
(* AgentLoop takes, one analysis after the other.                          *)
(***************************************************************************)
EXTENDS Collector

VARIABLES
    c,      \* what has been accepted
    reply   \* what the last call was told: "none", "accepted" or "refused"

vars == <<c, reply>>

Init == c = NewCollector /\ reply = "none"

Accept(next) == reply' = "accepted" /\ c' = next

Refuse == reply' = "refused" /\ UNCHANGED c

Profile == ProfileAccepted(c) /\ Accept(SubmitProfile(c))

Matches == \E batch \in SUBSET Jobs : MatchesAccepted(c, batch) /\ Accept(SubmitMatches(c, batch))

TaskDone ==
    \E status \in {"DONE", "FAILED"} : FinishAccepted(c, status) /\ Accept(Finish(c, status))

\* The next posts of the same candidate, with the profile they already have.
NextChunk ==
    /\ c.done /\ ~c.failed
    /\ c' = [NewCollector EXCEPT !.profile = c.profile]
    /\ reply' = "none"

Next == Profile \/ Matches \/ TaskDone \/ Refuse \/ NextChunk

Spec == Init /\ [][Next]_vars
=============================================================================
