--------------------------- MODULE AllocationPlan ---------------------------
(***************************************************************************)
(* internal/allocation: the six steps that turn a snapshot into a plan     *)
(* (execution.read, filter, rank, simulate, validate, submit and the check *)
(* of the response schema).  simulate handles one member at a time, and    *)
(* each assignment changes the order in which later members see demands.   *)
(*                                                                         *)
(* The lists of a snapshot are sets: identities are unique once read has   *)
(* accepted it, and CanonicalSnapshot makes their order immaterial.        *)
(***************************************************************************)
EXTENDS Integers, Sequences, FiniteSets, SequencesExt

CONSTANTS
    Snapshots,     \* the snapshots a request may carry
    MaxSequence    \* 2^53 - 1 in the response schema

ASSUME MaxSequenceAssumption == MaxSequence \in Nat

DemandRecords ==
    [id : Int, state : STRING, priority : Int, supply : Int, last : Int,
     required : SUBSET STRING, preferred : SUBSET STRING]

\* Lists without duplicated identities.
ASSUME SnapshotsAssumption ==
    \A s \in Snapshots :
        /\ s.next \in Int
        /\ IsFiniteSet(s.demands) /\ IsFiniteSet(s.members)
        /\ s.demands \subseteq DemandRecords
        /\ \A d \in s.demands : IsFiniteSet(d.preferred)
        /\ \A m \in s.members : m.id \in Int /\ m.created \in Int
        /\ \A d, e \in s.demands : d.id = e.id => d = e
        /\ \A m, n \in s.members : m.id = n.id => m = n

VARIABLES
    phase,      \* the step to run next, "done" or "failed"
    snapshot,   \* [next, members, demands], as received
    members,    \* members still to rank (a set), then to simulate (a sequence)
    options,    \* member id -> its options: [id, score, hits]
    reasons,    \* member id -> why it would have to wait
    demands,    \* demand id -> its record, with running supply and sequence
    decisions,  \* the plan so far
    seq         \* the next allocation sequence

vars == <<phase, snapshot, members, options, reasons, demands, decisions, seq>>

Phases == {"read", "filter", "rank", "simulate", "validate", "submit", "done", "failed"}

Init ==
    /\ phase = "read"
    /\ snapshot \in Snapshots
    /\ members = {} /\ options = <<>> /\ reasons = <<>> /\ demands = <<>>
    /\ decisions = <<>>
    /\ seq = 0

-----------------------------------------------------------------------------
(* read *)

\* What validateSnapshot refuses beside duplicated identities and bad hashes.
ValidSnapshot(s) ==
    /\ s.next >= 1
    /\ \A d \in s.demands : d.id > 0 /\ d.last < s.next
    /\ \A m \in s.members :
          /\ m.id > 0 /\ m.admitted
          /\ m.allowed \cup m.counted \subseteq {d.id : d \in s.demands}

DemandsById(s) == [id \in {d.id : d \in s.demands} |-> CHOOSE d \in s.demands : d.id = id]

Read ==
    /\ phase = "read"
    /\ IF ValidSnapshot(snapshot)
       THEN /\ phase' = "filter"
            /\ members' = snapshot.members
            /\ demands' = DemandsById(snapshot)
       ELSE phase' = "failed" /\ UNCHANGED <<members, demands>>
    /\ UNCHANGED <<snapshot, options, reasons, decisions, seq>>

-----------------------------------------------------------------------------
(* filter *)

\* A tag counts if it is supported, and either set by hand or confident enough.
UsableTags(m) ==
    {t.code : t \in {u \in m.tags : u.status = "supported" /\ (u.manual \/ u.bps >= 8000)}}

Candidates(m) == {id \in m.allowed : demands[id].state = "receiving"}

\* Every required tag is there, and at least one tag of the demand is hit.
OptionsOf(m) ==
    LET tags == UsableTags(m)
        hits(d) == (d.required \cup d.preferred) \cap tags
    IN  {[id |-> id, score |-> Cardinality(demands[id].preferred \cap tags), hits |-> hits(demands[id])] :
            id \in {i \in Candidates(m) : demands[i].required \subseteq tags /\ hits(demands[i]) # {}}}

WaitReason(m) ==
    CASE m.allowed = {} -> "no_active_mapping"
      [] m.allowed # {} /\ Candidates(m) = {} -> "no_receiving_demand"
      [] Candidates(m) # {} -> "required_tags_unavailable"

MemberById(id) == CHOOSE m \in snapshot.members : m.id = id

Filter ==
    /\ phase = "filter"
    /\ phase' = "rank"
    /\ options' = [id \in {m.id : m \in members} |-> OptionsOf(MemberById(id))]
    /\ reasons' = [id \in {m.id : m \in members} |-> WaitReason(MemberById(id))]
    /\ UNCHANGED <<snapshot, members, demands, decisions, seq>>

-----------------------------------------------------------------------------
(* rank *)

\* Mutant: members are served by identity only.
EarlierById(a, b) == a.id < b.id

Earlier(a, b) == a.created < b.created \/ (a.created = b.created /\ a.id < b.id)

Ranked(S) ==
    CHOOSE r \in [1..Cardinality(S) -> S] : \A i, j \in DOMAIN r : i < j => Earlier(r[i], r[j])

Rank ==
    /\ phase = "rank"
    /\ phase' = "simulate"
    /\ members' = Ranked(members)
    /\ seq' = snapshot.next
    /\ UNCHANGED <<snapshot, options, reasons, demands, decisions>>

-----------------------------------------------------------------------------
(* simulate *)

\* Mutant: supply and sequence are those of the snapshot.
OrderFrozen(o) ==
    LET d == DemandsById(snapshot)[o.id] IN <<-o.score, d.priority, d.supply, d.last, d.id>>

\* Preferred hits first, then priority, supply, last sequence and identity;
\* supply and last sequence are those left by the members before.
Order(o) ==
    LET d == demands[o.id] IN <<-o.score, d.priority, d.supply, d.last, d.id>>

Less(a, b) == \E i \in DOMAIN a : a[i] < b[i] /\ \A j \in 1..(i-1) : a[j] = b[j]

Best(opts) == CHOOSE o \in opts : \A p \in opts \ {o} : Less(Order(o), Order(p))

\* A demand the member already counts for gains no supply.
Supplied(d, m) == IF d.id \in m.counted THEN d.supply ELSE d.supply + 1

Assign(m, o) ==
    /\ decisions' = Append(decisions,
          [member |-> m.id, action |-> "assign", demand |-> o.id, hits |-> o.hits,
           order |-> Order(o), seq |-> seq, reason |-> "allocated"])
    /\ demands' = [demands EXCEPT ![o.id] =
          [@ EXCEPT !.supply = Supplied(demands[o.id], m), !.last = seq]]
    /\ seq' = seq + 1

Wait(m) ==
    /\ decisions' = Append(decisions,
          [member |-> m.id, action |-> "wait", demand |-> 0, hits |-> {},
           order |-> <<>>, seq |-> 0, reason |-> reasons[m.id]])
    /\ UNCHANGED <<demands, seq>>

Simulate ==
    /\ phase = "simulate"
    /\ \/ /\ members # <<>>
          /\ LET m == Head(members)
             IN  IF options[m.id] # {} THEN Assign(m, Best(options[m.id])) ELSE Wait(m)
          /\ members' = Tail(members)
          /\ UNCHANGED phase
       \/ /\ members = <<>>
          /\ phase' = "validate"
          /\ UNCHANGED <<members, decisions, demands, seq>>
    /\ UNCHANGED <<snapshot, options, reasons>>

-----------------------------------------------------------------------------
(* validate, submit, and the schema of the response *)

\* Mutant: the plan is compared with the members by identity.
ValidPlanByIdentity ==
    LET ranked == SetToSortSeq(snapshot.members, EarlierById)
    IN  \A i \in DOMAIN decisions : decisions[i].member = ranked[i].id

ValidPlan ==
    LET ranked == Ranked(snapshot.members)
    IN  /\ Len(decisions) = Len(ranked)
        /\ \A i \in DOMAIN decisions :
              /\ decisions[i].member = ranked[i].id
              /\ decisions[i].action = "assign" =>
                    Len(decisions[i].order) = 5 /\ decisions[i].order[5] = decisions[i].demand

Validate ==
    /\ phase = "validate"
    /\ phase' = IF ValidPlan THEN "submit" ELSE "failed"
    /\ UNCHANGED <<snapshot, members, options, reasons, demands, decisions, seq>>

Submit ==
    /\ phase = "submit"
    /\ phase' = IF \A i \in DOMAIN decisions : decisions[i].seq <= MaxSequence THEN "done" ELSE "failed"
    /\ UNCHANGED <<snapshot, members, options, reasons, demands, decisions, seq>>

Ended == phase \in {"done", "failed"} /\ UNCHANGED vars

Next == Read \/ Filter \/ Rank \/ Simulate \/ Validate \/ Submit \/ Ended

Spec == Init /\ [][Next]_vars

-----------------------------------------------------------------------------
(* What a plan promises, recomputed from the snapshot and the decisions      *)
(* alone, as the platform does before it submits one (README.md).            *)

Assigned(i) == decisions[i].action = "assign"
AssignedBefore(i, id) == {j \in 1..(i-1) : Assigned(j) /\ decisions[j].demand = id}

\* The supply and the last sequence of a demand just before decision i.
SupplyBefore(d, i) ==
    d.supply + Cardinality({j \in AssignedBefore(i, d.id) :
                              d.id \notin MemberById(decisions[j].member).counted})
LastBefore(d, i) ==
    LET js == AssignedBefore(i, d.id)
    IN  IF js = {} THEN d.last ELSE decisions[CHOOSE j \in js : \A k \in js : k <= j].seq

Holds(m, code) ==
    \E t \in m.tags : t.code = code /\ t.status = "supported" /\ (t.manual \/ t.bps >= 8000)
MayReceive(d, m) ==
    /\ d.id \in m.allowed /\ d.state = "receiving"
    /\ \A code \in d.required : Holds(m, code)
    /\ \E code \in d.required \cup d.preferred : Holds(m, code)

OrderBefore(d, m, i) ==
    <<-Cardinality({code \in d.preferred : Holds(m, code)}),
      d.priority, SupplyBefore(d, i), LastBefore(d, i), d.id>>

\* Each decision, whatever came before it, takes the first of the demands that
\* may receive the member, in the documented order, and a member waits only
\* when there is none (service.go simulate, snapshot.go eligible).
EveryChoiceIsFirst ==
    \A i \in DOMAIN decisions :
        LET m == MemberById(decisions[i].member)
            open == {d \in snapshot.demands : MayReceive(d, m)}
        IN  IF Assigned(i)
            THEN \E d \in open :
                    /\ d.id = decisions[i].demand
                    /\ decisions[i].order = OrderBefore(d, m, i)
                    /\ \A e \in open \ {d} : Less(OrderBefore(d, m, i), OrderBefore(e, m, i))
            ELSE open = {}

\* "Exactly one assign or wait per member", and a member is never served before
\* one that was created earlier (service.go rank, validate; README.md).
OneDecisionEach ==
    phase = "done" =>
        /\ Len(decisions) = Cardinality(snapshot.members)
        /\ {decisions[i].member : i \in DOMAIN decisions} = {m.id : m \in snapshot.members}
        /\ \A i, j \in DOMAIN decisions :
              i < j => MemberById(decisions[i].member).created <= MemberById(decisions[j].member).created

\* A snapshot read accepts always gets a plan, unless its sequences run past
\* what the response may carry: the checks of validate never fail
\* (service.go 119-131, 194-198).
AcceptedSnapshotsArePlanned ==
    phase = "failed" => ~ValidSnapshot(snapshot) \/ seq - 1 > MaxSequence
=============================================================================
