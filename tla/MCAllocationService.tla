------------------------ MODULE MCAllocationService ------------------------
(* Payloads, their snapshot times and symmetry of AllocationService for TLC. *)
EXTENDS AllocationService, TLC

TwoPayloads == {"early", "late"}
SnapshotOf(h) == IF h = "early" THEN 0 ELSE 1
SnapshotOfAny(h) == 0

Symmetry == Permutations(Callers) \cup Permutations(Keys)
=============================================================================
