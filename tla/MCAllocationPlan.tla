-------------------------- MODULE MCAllocationPlan --------------------------
(* The snapshots TLC computes plans for. *)
EXTENDS AllocationPlan

Tag(code, status, manual, bps) == [code |-> code, status |-> status, manual |-> manual, bps |-> bps]
Demand(id, state, priority, supply, last, required, preferred) ==
    [id |-> id, state |-> state, priority |-> priority, supply |-> supply, last |-> last,
     required |-> required, preferred |-> preferred]
Member(id, created, tags, allowed, counted) ==
    [id |-> id, created |-> created, admitted |-> TRUE, tags |-> tags, allowed |-> allowed,
     counted |-> counted]

Go == Tag("go", "supported", TRUE, 0)
Sql == Tag("sql", "supported", FALSE, 8000)
WeakSql == Tag("sql", "supported", FALSE, 7999)

\* Two demands with every way to tie or differ in one column of the order, one
\* of them possibly paused, or with a sequence the snapshot may not have.
DemandPairs ==
    {{Demand(1, "receiving", p, s, l, r, {"sql"}), Demand(2, state, 1, 1, 2, {"go"}, pref)} :
        p \in {1, 2}, s \in {0, 1}, l \in {1, 3, 9}, r \in {{}, {"go"}},
        state \in {"receiving", "paused"}, pref \in {{}, {"sql"}}}

First == {Member(1, t, tags, {1, 2}, counted) : t \in {0, 1}, tags \in {{Go}, {Go, Sql}}, counted \in {{}, {1}}}
Second == {Member(2, 0, tags, allowed, {}) : tags \in {{Go, Sql}, {Go, WeakSql}, {}}, allowed \in {{}, {2}, {1, 2}}}
Third == {Member(3, t, {Go}, {1, 2}, {}) : t \in {0, 1}}

MCSnapshots ==
    {[next |-> 5, demands |-> ds, members |-> {a, b, c}] :
        ds \in DemandPairs, a \in First, b \in Second, c \in Third}
=============================================================================
