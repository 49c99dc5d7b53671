------------------------------ MODULE Collector ------------------------------
(***************************************************************************)
(* internal/agent/collector.go: what one analysis has accepted so far.     *)
(* The evidence of a submission is abstracted to the verdict of its        *)
(* validation; what is kept is which submission is accepted when, and what *)
(* an accepted one changes.  A refused submission changes nothing.         *)
(***************************************************************************)
EXTENDS FiniteSets

CONSTANT Jobs  \* the references of the posts of this analysis

ASSUME JobsAssumption == IsFiniteSet(Jobs)

CollectorType == [profile: BOOLEAN, matches: SUBSET Jobs, done: BOOLEAN, failed: BOOLEAN]

NewCollector == [profile |-> FALSE, matches |-> {}, done |-> FALSE, failed |-> FALSE]

ProfileAccepted(c) == ~c.done /\ ~c.profile

SubmitProfile(c) == [c EXCEPT !.profile = TRUE]

\* Every entry of a batch is validated before any is stored.
MatchesAccepted(c, batch) ==
    /\ ~c.done
    /\ c.profile
    /\ batch # {}
    /\ batch \subseteq Jobs
    /\ batch \cap c.matches = {}

SubmitMatches(c, batch) == [c EXCEPT !.matches = @ \cup batch]

AllMatched(c) == Cardinality(c.matches) = Cardinality(Jobs)

\* Mutant: DONE is accepted without the matches.
FinishAcceptedUnmatched(c, status) ==
    /\ ~c.done
    /\ status = "FAILED" \/ (status = "DONE" /\ c.profile)

FinishAccepted(c, status) ==
    /\ ~c.done
    /\ status = "FAILED" \/ (status = "DONE" /\ c.profile /\ AllMatched(c))

Finish(c, status) == [c EXCEPT !.done = TRUE, !.failed = (status = "FAILED")]
=============================================================================
