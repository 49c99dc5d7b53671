----------------------------- MODULE MCAnalysis -----------------------------
(* Values of the constants of Analysis for TLC. *)
EXTENDS Analysis

NoKeys == {}
\* Usage that is reported, and more than the local count, as much as the estimate
\* allows before it is calibrated; or not reported, as with every failed attempt.
ReportedOrNot == {110, Unreported}
=============================================================================
