------------------------ MODULE AllocationPlanProofs ------------------------
(***************************************************************************)
(* Every snapshot, with however many members and demands, gets the plan    *)
(* that can be recomputed from it: each decision is the first choice given *)
(* the ones before, and every member gets one, in order.                   *)
(*                                                                         *)
(* The argument: the running supply and sequence of a demand are at every  *)
(* moment those that follow from the decisions so far (SupplyIsCurrent),   *)
(* and the options of filter are the demands that may receive the member   *)
(* (OptionsAreOpen).  The order of the members and of the options is a     *)
(* strict total one, so that on a finite set there is a ranking and a      *)
(* first; that is proved by taking the smallest subset without one.        *)
(***************************************************************************)
EXTENDS AllocationPlan, FiniteSetTheorems, WellFoundedInduction, TLAPS

-----------------------------------------------------------------------------
(* Finite sets in order *)

\* Among sets of subsets of a finite set, one contains no other.
LEMMA SmallestSubset ==
    ASSUME NEW S, IsFiniteSet(S), NEW T, T \subseteq SUBSET S, T # {}
    PROVE  \E U \in T : \A V \in T : ~(V \subseteq U /\ V # U)
<1>1. IsWellFoundedOn(StrictSubsetOrdering(S), FiniteSubsetsOf(S))
  BY FS_StrictSubsetOrderingWellFounded
<1>2. T \subseteq FiniteSubsetsOf(S)
  BY FS_Subset DEF FiniteSubsetsOf
<1>3. PICK U \in T : \A V \in T : ~ (<<V, U>> \in StrictSubsetOrdering(S))
  BY <1>1, <1>2, WFMin
<1>4. \A V \in T : ~(V \subseteq U /\ V # U)
  BY <1>3 DEF StrictSubsetOrdering
<1> QED
  BY <1>4

\* A finite set that is not empty has a first element.
LEMMA FirstElement ==
    ASSUME NEW S, IsFiniteSet(S), S # {}, NEW After,
           \A a, b \in S : a # b => b \in After[a] \/ a \in After[b],
           \A a, b, c \in S : b \in After[a] /\ c \in After[b] => c \in After[a]
    PROVE  \E a \in S : \A b \in S \ {a} : b \in After[a]
<1> DEFINE Has(U) == \E a \in U : \A b \in U \ {a} : b \in After[a]
           T == {U \in SUBSET S : U # {} /\ ~Has(U)}
<1>1. SUFFICES ASSUME S \in T PROVE FALSE
  OBVIOUS
<1>2. PICK U \in T : \A V \in T : ~(V \subseteq U /\ V # U)
  <2>1. T \subseteq SUBSET S /\ T # {}
    BY <1>1
  <2> HIDE DEF T
  <2> QED
    BY <2>1, SmallestSubset
<1>3. PICK u : u \in U
  BY <1>2
<1>4. U \in SUBSET S /\ ~Has(U)
  BY <1>2
<1>5. CASE U \ {u} = {}
  <2>1. Has(U)
    BY <1>3, <1>5
  <2> QED
    BY <1>4, <2>1
<1>6. CASE U \ {u} # {}
  <2> DEFINE V == U \ {u}
  <2>1. V \in SUBSET S /\ V # {} /\ V \subseteq U /\ V # U
    BY <1>3, <1>4, <1>6
  <2>2. V \notin T
    BY <1>2, <2>1
  <2>3. Has(V)
    BY <2>1, <2>2
  <2>4. PICK v \in V : \A b \in V \ {v} : b \in After[v]
    BY <2>3
  <2>5. v \in S /\ u \in S /\ v # u /\ v \in U
    BY <1>3, <1>4, <2>4
  <2>6. CASE u \in After[v]
    <3>1. \A b \in U \ {v} : b \in After[v]
      BY <2>4, <2>6
    <3> QED
      BY <1>4, <2>5, <3>1
  <2>7. CASE v \in After[u]
    <3>1. ASSUME NEW b \in U \ {u} PROVE b \in After[u]
      <4>1. b = v \/ b \in After[v]
        BY <2>4
      <4>2. b \in S
        BY <1>4
      <4> QED
        BY <2>5, <2>7, <4>1, <4>2
    <3> QED
      BY <1>3, <1>4, <3>1
  <2> QED
    BY <2>5, <2>6, <2>7
<1> QED
  BY <1>5, <1>6

\* Members with an identity of their own each.
Rankable(S) ==
    /\ IsFiniteSet(S)
    /\ \A m \in S : m.id \in Int /\ m.created \in Int
    /\ \A m, n \in S : m.id = n.id => m = n

IsRanking(r, S) ==
    /\ r \in [1..Cardinality(S) -> S]
    /\ \A i, j \in 1..Cardinality(S) : i < j => Earlier(r[i], r[j])

\* The members can be put into the order they are served in (rank).
LEMMA RankingExists ==
    ASSUME NEW S, Rankable(S)
    PROVE  \E r : IsRanking(r, S)
<1> DEFINE Has(U) == \E r : IsRanking(r, U)
           T == {U \in SUBSET S : ~Has(U)}
<1>1. SUFFICES ASSUME S \in T PROVE FALSE
  OBVIOUS
<1>2. PICK U \in T : \A V \in T : ~(V \subseteq U /\ V # U)
  <2>1. T \subseteq SUBSET S /\ T # {} /\ IsFiniteSet(S)
    BY <1>1 DEF Rankable
  <2> HIDE DEF T
  <2> QED
    BY <2>1, SmallestSubset
<1>3. U \in SUBSET S /\ ~Has(U)
  BY <1>2
<1>4. IsFiniteSet(U) /\ Cardinality(U) \in Nat
  BY <1>3, FS_Subset, FS_CardinalityType DEF Rankable
<1>5. CASE U = {}
  <2>1. Cardinality(U) = 0
    BY <1>5, FS_EmptySet
  <2>2. IsRanking([i \in 1..0 |-> i], U)
    BY <2>1, SMT DEF IsRanking
  <2> QED
    BY <1>3, <2>2
<1>6. CASE U # {}
  <2> DEFINE Before == [a \in U |-> {b \in U : Earlier(b, a)}]
             n == Cardinality(U)
  <2>1. \A a, b \in U : b \in Before[a] <=> Earlier(b, a)
    OBVIOUS
  <2>2. \A a \in U : a.id \in Int /\ a.created \in Int
    BY <1>3 DEF Rankable
  <2>3. \A a, b \in U : a # b => a.id # b.id
    BY <1>3 DEF Rankable
  <2>4. \A a, b \in U : a # b => b \in Before[a] \/ a \in Before[b]
    BY <2>1, <2>2, <2>3 DEF Earlier
  <2>5. \A a, b, c \in U : b \in Before[a] /\ c \in Before[b] => c \in Before[a]
    BY <2>1, <2>2 DEF Earlier
  <2>6. PICK u \in U : \A b \in U \ {u} : b \in Before[u]
    <3> HIDE DEF Before
    <3> QED
      BY <1>4, <1>6, <2>4, <2>5, FirstElement
  <2> DEFINE V == U \ {u}
  <2>7. IsFiniteSet(V) /\ Cardinality(V) = n - 1
    BY <1>4, <2>6, FS_RemoveElement
  <2>8. V \notin T /\ V \in SUBSET S
    <3>1. V \subseteq U /\ V # U
      BY <2>6
    <3> QED
      BY <1>2, <1>3, <3>1
  <2>9. PICK r : IsRanking(r, V)
    BY <2>8
  <2> DEFINE q == [i \in 1..n |-> IF i = n THEN u ELSE r[i]]
  <2>10. \A i \in 1..n : i # n => i \in 1..(n - 1) /\ r[i] \in V
    <3>1. r \in [1..(n - 1) -> V]
      BY <2>7, <2>9 DEF IsRanking
    <3>2. \A i \in 1..n : i # n => i \in 1..(n - 1)
      BY <1>4
    <3> HIDE DEF V
    <3> QED
      BY <3>1, <3>2
  <2>11. q \in [1..n -> U]
    BY <2>6, <2>10
  <2>12. ASSUME NEW i \in 1..n, NEW j \in 1..n, i < j PROVE Earlier(q[i], q[j])
    <3>1. i # n /\ r[i] \in V /\ q[i] = r[i]
      BY <1>4, <2>10, <2>12
    <3>2. CASE j = n
      <4>1. r[i] \in Before[u]
        BY <2>6, <3>1
      <4> QED
        BY <2>1, <2>6, <3>1, <3>2, <4>1
    <3>3. CASE j # n
      <4>1. q[j] = r[j] /\ i \in 1..(n - 1) /\ j \in 1..(n - 1)
        BY <2>10, <3>1, <3>3
      <4> QED
        BY <2>7, <2>9, <2>12, <3>1, <4>1 DEF IsRanking
    <3> QED
      BY <3>2, <3>3
  <2>13. IsRanking(q, U)
    BY <2>11, <2>12 DEF IsRanking
  <2> QED
    BY <1>3, <2>13
<1> QED
  BY <1>5, <1>6

\* What rank makes of the members: all of them, earlier ones first.
LEMMA RankedRanks ==
    ASSUME NEW S, Rankable(S)
    PROVE  /\ IsRanking(Ranked(S), S)
           /\ \A m \in S : \E i \in 1..Cardinality(S) : Ranked(S)[i] = m
<1>1. IsFiniteSet(S) /\ Cardinality(S) \in Nat
  BY FS_CardinalityType DEF Rankable
<1> DEFINE n == Cardinality(S)
           r == Ranked(S)
<1>2. IsRanking(r, S)
  <2>1. \E q \in [1..n -> S] : \A i, j \in DOMAIN q : i < j => Earlier(q[i], q[j])
    BY RankingExists DEF IsRanking
  <2>2. r \in [1..n -> S] /\ \A i, j \in DOMAIN r : i < j => Earlier(r[i], r[j])
    BY <2>1 DEF Ranked
  <2> QED
    BY <2>2 DEF IsRanking
<1>3. \A i, j \in 1..n : i < j => r[i] # r[j]
  <2>1. \A m \in S : ~Earlier(m, m)
    BY DEF Earlier, Rankable
  <2> QED
    BY <1>2, <2>1 DEF IsRanking
<1>4. r \in Injection(1..n, S)
  <2>1. \A i, j \in 1..n : r[i] = r[j] => i = j
    BY <1>1, <1>3
  <2>2. r \in [1..n -> S]
    BY <1>2 DEF IsRanking
  <2> QED
    BY <2>1, <2>2 DEF Injection, IsInjective
<1>5. Cardinality(1..n) = n
  BY <1>1, FS_Interval
<1>6. r \in Surjection(1..n, S)
  BY <1>1, <1>4, <1>5, FS_Injection
<1> QED
  BY <1>2, <1>6 DEF Surjection

-----------------------------------------------------------------------------
(* The order of the demands *)

\* One column after the other decides (snapshot.go, less).
LEMMA LessOfFive ==
    ASSUME NEW a \in [1..5 -> Int], NEW b \in [1..5 -> Int]
    PROVE  Less(a, b) <=>
              \/ a[1] < b[1]
              \/ a[1] = b[1] /\ a[2] < b[2]
              \/ a[1] = b[1] /\ a[2] = b[2] /\ a[3] < b[3]
              \/ a[1] = b[1] /\ a[2] = b[2] /\ a[3] = b[3] /\ a[4] < b[4]
              \/ a[1] = b[1] /\ a[2] = b[2] /\ a[3] = b[3] /\ a[4] = b[4] /\ a[5] < b[5]
<1> DEFINE At(i) == a[i] < b[i] /\ \A j \in 1..(i - 1) : a[j] = b[j]
<1>1. Less(a, b) <=> \E i \in 1..5 : At(i)
  BY DEF Less
<1>2. (\E i \in 1..5 : At(i)) <=> At(1) \/ At(2) \/ At(3) \/ At(4) \/ At(5)
  <2> HIDE DEF At
  <2> QED
    OBVIOUS
<1>3. /\ 1..(1 - 1) = {} /\ 1..(2 - 1) = {1} /\ 1..(3 - 1) = {1, 2}
      /\ 1..(4 - 1) = {1, 2, 3} /\ 1..(5 - 1) = {1, 2, 3, 4}
  OBVIOUS
<1>4. /\ At(1) <=> a[1] < b[1]
      /\ At(2) <=> a[1] = b[1] /\ a[2] < b[2]
      /\ At(3) <=> a[1] = b[1] /\ a[2] = b[2] /\ a[3] < b[3]
      /\ At(4) <=> a[1] = b[1] /\ a[2] = b[2] /\ a[3] = b[3] /\ a[4] < b[4]
      /\ At(5) <=> a[1] = b[1] /\ a[2] = b[2] /\ a[3] = b[3] /\ a[4] = b[4] /\ a[5] < b[5]
  BY <1>3
<1> HIDE DEF At
<1> QED
  BY <1>1, <1>2, <1>4

\* Of finitely many options for different demands one comes first.
LEMMA BestIsFirst ==
    ASSUME NEW opts, IsFiniteSet(opts), opts # {},
           \A o \in opts : Order(o) \in [1..5 -> Int],
           \A o, p \in opts : Order(o)[5] = Order(p)[5] => o = p
    PROVE  /\ Best(opts) \in opts
           /\ \A p \in opts \ {Best(opts)} : Less(Order(Best(opts)), Order(p))
<1> DEFINE After == [o \in opts |-> {p \in opts : Less(Order(o), Order(p))}]
<1>1. \A o, p \in opts : p \in After[o] <=> Less(Order(o), Order(p))
  OBVIOUS
<1> HIDE DEF After
<1>2. ASSUME NEW o \in opts, NEW p \in opts, o # p PROVE p \in After[o] \/ o \in After[p]
  <2>1. Order(o)[5] # Order(p)[5]
    BY <1>2
  <2> QED
    BY <1>1, <2>1, LessOfFive
<1>3. ASSUME NEW o \in opts, NEW p \in opts, NEW q \in opts, p \in After[o], q \in After[p]
      PROVE  q \in After[o]
  <2>1. Less(Order(o), Order(p)) /\ Less(Order(p), Order(q))
    BY <1>1, <1>3
  <2>2. Less(Order(o), Order(q))
    BY <2>1, LessOfFive
  <2> QED
    BY <1>1, <2>2
<1>4. \A o, p \in opts : o # p => p \in After[o] \/ o \in After[p]
  BY <1>2
<1>5. \A o, p, q \in opts : p \in After[o] /\ q \in After[p] => q \in After[o]
  BY <1>3
<1>6. PICK o \in opts : \A p \in opts \ {o} : p \in After[o]
  BY <1>4, <1>5, FirstElement
<1>7. \A p \in opts \ {o} : Less(Order(o), Order(p))
  BY <1>1, <1>6
<1> QED
  BY <1>7 DEF Best

-----------------------------------------------------------------------------
(* The inductive invariant *)

\* The demands that may receive a member, and the options filter makes of them.
Open(m) == {d \in snapshot.demands : MayReceive(d, m)}

Option(d, m) ==
    [id |-> d.id, score |-> Cardinality(d.preferred \cap UsableTags(m)),
     hits |-> (d.required \cup d.preferred) \cap UsableTags(m)]

\* The order in which the members are served.
Queue == Ranked(snapshot.members)
Size == Cardinality(snapshot.members)

TypeOK ==
    /\ phase \in Phases
    /\ snapshot \in Snapshots
    /\ \E D : decisions \in Seq(D)

\* What a phase finds.
PhaseOK ==
    /\ phase \notin {"read", "failed"} => ValidSnapshot(snapshot)
    /\ phase \in {"read", "filter", "rank"} => decisions = <<>>
    /\ phase \in {"filter", "rank"} => members = snapshot.members
    /\ phase = "filter" => demands = DemandsById(snapshot)

OptionsAreOpen ==
    phase \in {"rank", "simulate"} =>
        \A m \in snapshot.members : options[m.id] = {Option(d, m) : d \in Open(m)}

\* Supply and sequence of a demand follow from the decisions so far.
SupplyIsCurrent ==
    phase \in {"filter", "rank", "simulate"} =>
        /\ DOMAIN demands = {d.id : d \in snapshot.demands}
        /\ \A d \in snapshot.demands :
              /\ demands[d.id] \in DemandRecords
              /\ demands[d.id].id = d.id /\ demands[d.id].priority = d.priority
              /\ demands[d.id].supply = SupplyBefore(d, Len(decisions) + 1)
              /\ demands[d.id].last = LastBefore(d, Len(decisions) + 1)

\* The members that were not served yet are the rest of the queue.
QueueIsServed ==
    /\ phase = "simulate" =>
          /\ members \in Seq(snapshot.members)
          /\ Len(decisions) + Len(members) = Size
          /\ \A i \in 1..Len(members) : members[i] = Queue[Len(decisions) + i]
    /\ phase \in {"validate", "submit", "done"} => Len(decisions) = Size

\* Each decision is for the next of the queue, and one validate lets pass.
DecisionsAreValid ==
    /\ Len(decisions) <= Size
    /\ phase \in {"simulate", "validate", "submit"} =>
          /\ seq \in Int /\ seq >= 1
          /\ \A i \in 1..Len(decisions) : decisions[i].seq \in Int /\ decisions[i].seq <= seq - 1
    /\ phase \in {"simulate", "validate", "submit"} =>
          \A i \in 1..Len(decisions) :
              decisions[i].action = "assign" =>
                  Len(decisions[i].order) = 5 /\ decisions[i].order[5] = decisions[i].demand
    /\ \A i \in 1..Len(decisions) : decisions[i].member = Queue[i].id

PInv ==
    /\ TypeOK
    /\ PhaseOK
    /\ OptionsAreOpen
    /\ SupplyIsCurrent
    /\ QueueIsServed
    /\ DecisionsAreValid
    /\ EveryChoiceIsFirst
    /\ AcceptedSnapshotsArePlanned

\* What is assumed of a snapshot.
LEMMA SnapshotFacts ==
    ASSUME snapshot \in Snapshots
    PROVE  /\ snapshot.next \in Int
           /\ IsFiniteSet(snapshot.demands)
           /\ Rankable(snapshot.members)
           /\ Size \in Nat
           /\ IsRanking(Queue, snapshot.members)
           /\ \A m \in snapshot.members : MemberById(m.id) = m
           /\ \A d \in snapshot.demands :
                 /\ d \in DemandRecords /\ IsFiniteSet(d.preferred)
                 /\ DemandsById(snapshot)[d.id] = d
           /\ \A d, e \in snapshot.demands : d.id = e.id => d = e
<1>1. /\ snapshot.next \in Int
      /\ IsFiniteSet(snapshot.demands) /\ IsFiniteSet(snapshot.members)
      /\ snapshot.demands \subseteq DemandRecords
      /\ \A d \in snapshot.demands : IsFiniteSet(d.preferred)
      /\ \A m \in snapshot.members : m.id \in Int /\ m.created \in Int
      /\ \A d, e \in snapshot.demands : d.id = e.id => d = e
      /\ \A m, n \in snapshot.members : m.id = n.id => m = n
  BY SnapshotsAssumption
<1>2. Rankable(snapshot.members)
  BY <1>1 DEF Rankable
<1>3. Size \in Nat /\ IsRanking(Queue, snapshot.members)
  BY <1>1, <1>2, FS_CardinalityType, RankedRanks DEF Size, Queue
<1>4. ASSUME NEW m \in snapshot.members PROVE MemberById(m.id) = m
  BY <1>1 DEF MemberById
<1>5. ASSUME NEW d \in snapshot.demands PROVE DemandsById(snapshot)[d.id] = d
  <2>1. d.id \in {e.id : e \in snapshot.demands}
    OBVIOUS
  <2>2. (CHOOSE e \in snapshot.demands : e.id = d.id) = d
    BY <1>1
  <2> QED
    BY <2>1, <2>2 DEF DemandsById
<1> QED
  BY <1>1, <1>2, <1>3, <1>4, <1>5

\* The decision that is next is for the head of the queue.
LEMMA NextInQueue ==
    ASSUME PInv, phase = "simulate", members # <<>>
    PROVE  /\ Head(members) \in snapshot.members
           /\ Len(decisions) + 1 \in 1..Size
           /\ Head(members) = Queue[Len(decisions) + 1]
           /\ Tail(members) \in Seq(snapshot.members) /\ Len(Tail(members)) = Len(members) - 1
           /\ \A i \in 1..Len(Tail(members)) : Tail(members)[i] = members[i + 1]
<1>1. members \in Seq(snapshot.members) /\ Len(members) \in Nat /\ Len(members) > 0
  BY DEF PInv, QueueIsServed
<1>2. Len(decisions) \in Nat
  BY DEF PInv, TypeOK
<1>3. Head(members) = members[1] /\ Head(members) \in snapshot.members
  BY <1>1
<1> QED
  BY <1>1, <1>2, <1>3 DEF PInv, QueueIsServed

\* One more decision at the end leaves the others as they are.
LEMMA OneMoreDecision ==
    ASSUME TypeOK, NEW decision, decisions' = Append(decisions, decision)
    PROVE  /\ Len(decisions) \in Nat
           /\ Len(decisions') = Len(decisions) + 1
           /\ \E D : decisions' \in Seq(D)
           /\ \A i \in 1..Len(decisions) : decisions'[i] = decisions[i]
           /\ decisions'[Len(decisions) + 1] = decision
           /\ DOMAIN decisions' = 1..(Len(decisions) + 1)
           /\ DOMAIN decisions = 1..Len(decisions)
<1>1. PICK D : decisions \in Seq(D)
  BY DEF TypeOK
<1>2. decisions \in Seq(D \cup {decision}) /\ decision \in D \cup {decision}
  BY <1>1
<1>3. decisions' \in Seq(D \cup {decision})
  BY <1>2
<1> QED
  BY <1>2, <1>3

-----------------------------------------------------------------------------
(* Supply and sequence before a decision *)

\* Of several decisions one is the latest.
LEMMA LatestExists ==
    ASSUME NEW n \in Nat, NEW js, js \subseteq 1..n, js # {}
    PROVE  \E j \in js : \A k \in js : k <= j
<1> DEFINE S == js
           Sooner == [j \in S |-> {k \in S : k < j}]
<1>1. \A j, k \in S : k \in Sooner[j] <=> k < j
  OBVIOUS
<1>2. IsFiniteSet(S) /\ S # {} /\ S \subseteq Int
  <2>1. IsFiniteSet(1..n)
    BY FS_Interval
  <2>2. IsFiniteSet(js)
    BY <2>1, FS_Subset
  <2> QED
    BY <2>2
<1> HIDE DEF Sooner
<1>3. \A j, k \in S : j # k => k \in Sooner[j] \/ j \in Sooner[k]
  BY <1>1
<1>4. \A j, k, l \in S : k \in Sooner[j] /\ l \in Sooner[k] => l \in Sooner[j]
  BY <1>1
<1>5. \E j \in S : \A k \in S \ {j} : k \in Sooner[j]
  <2>1. IsFiniteSet(S) /\ S # {}
    BY <1>2
  <2> HIDE DEF S
  <2> QED
    BY <2>1, <1>3, <1>4, FirstElement
<1>6. PICK j \in S : \A k \in S \ {j} : k \in Sooner[j]
  BY <1>5
<1>7. \A k \in S : k <= j
  BY <1>1, <1>2, <1>6
<1> QED
  BY <1>7

\* What was so before an earlier decision remains so.
LEMMA BeforeKept ==
    ASSUME TypeOK, UNCHANGED snapshot, NEW decision, decisions' = Append(decisions, decision),
           NEW i \in 1..(Len(decisions) + 1), NEW d
    PROVE  SupplyBefore(d, i)' = SupplyBefore(d, i) /\ LastBefore(d, i)' = LastBefore(d, i)
<1>1. \A j \in 1..(i - 1) : decisions'[j] = decisions[j] /\ j \in 1..Len(decisions)
  BY OneMoreDecision
<1> DEFINE js == AssignedBefore(i, d.id)
<1>2. js' = js
  BY <1>1 DEF AssignedBefore, Assigned
<1>3. js \subseteq 1..(i - 1)
  BY DEF AssignedBefore
<1>4. \A j \in js : MemberById(decisions[j].member)' = MemberById(decisions[j].member)
  BY <1>1, <1>3 DEF MemberById
<1>5. {j \in AssignedBefore(i, d.id) : d.id \notin MemberById(decisions[j].member).counted}' =
      {j \in AssignedBefore(i, d.id) : d.id \notin MemberById(decisions[j].member).counted}
  BY <1>2, <1>4
<1>6. SupplyBefore(d, i)' = SupplyBefore(d, i)
  BY <1>5 DEF SupplyBefore
<1>7. CASE js = {}
  BY <1>2, <1>6, <1>7 DEF LastBefore
<1>8. CASE js # {}
  <2> DEFINE last == CHOOSE j \in js : \A k \in js : k <= j
  <2>1. last \in js
    <3>1. i - 1 \in Nat
      BY OneMoreDecision
    <3>2. \E j \in js : \A k \in js : k <= j
      BY <1>3, <1>8, <3>1, LatestExists
    <3> QED
      BY <3>2
  <2>2. LastBefore(d, i) = decisions[last].seq /\ LastBefore(d, i)' = decisions'[last].seq
    BY <1>2, <1>8 DEF LastBefore
  <2>3. decisions'[last] = decisions[last]
    BY <1>1, <1>3, <2>1
  <2> QED
    BY <1>6, <2>2, <2>3
<1> QED
  BY <1>7, <1>8

\* What a decision changes for the one after it: an assignment adds to the supply
\* of its demand, unless the member counted already, and is its last one.
LEMMA BeforeGrows ==
    ASSUME TypeOK, UNCHANGED snapshot, NEW decision, decisions' = Append(decisions, decision),
           NEW n, n = Len(decisions) + 1, NEW d, d.supply \in Int
    PROVE  LET takes == decision.action = "assign" /\ decision.demand = d.id
           IN  /\ SupplyBefore(d, n) \in Int
               /\ SupplyBefore(d, n + 1)' =
                     IF takes /\ d.id \notin MemberById(decision.member).counted
                     THEN SupplyBefore(d, n) + 1 ELSE SupplyBefore(d, n)
               /\ LastBefore(d, n + 1)' = IF takes THEN decision.seq ELSE LastBefore(d, n)
<1> DEFINE takes == decision.action = "assign" /\ decision.demand = d.id
           js == AssignedBefore(n, d.id)
           Counts(j) == d.id \notin MemberById(decisions[j].member).counted
           new == {j \in js : Counts(j)}
<1>1. n \in Nat /\ n >= 1 /\ (n + 1) - 1 = n /\ n - 1 = Len(decisions)
  BY OneMoreDecision
<1>2. /\ \A j \in 1..(n - 1) : decisions'[j] = decisions[j]
      /\ decisions'[n] = decision
  BY <1>1, OneMoreDecision
<1>3. js \subseteq 1..(n - 1) /\ n \notin js
  BY <1>1 DEF AssignedBefore
<1>4. 1..n = 1..(n - 1) \cup {n}
  BY <1>1
<1>5. AssignedBefore(n + 1, d.id)' = IF takes THEN js \cup {n} ELSE js
  <2>1. AssignedBefore(n + 1, d.id)' =
        {j \in 1..n : decisions'[j].action = "assign" /\ decisions'[j].demand = d.id}
    BY <1>1 DEF AssignedBefore, Assigned
  <2>2. js = {j \in 1..(n - 1) : decisions[j].action = "assign" /\ decisions[j].demand = d.id}
    BY DEF AssignedBefore, Assigned
  <2> HIDE DEF js
  <2>3. CASE takes
    BY <1>2, <1>4, <2>1, <2>2, <2>3
  <2>4. CASE ~takes
    <3>1. ~(decisions'[n].action = "assign" /\ decisions'[n].demand = d.id)
      BY <1>2, <2>4
    <3>2. \A j \in 1..(n - 1) : (decisions'[j].action = "assign" /\ decisions'[j].demand = d.id)
                             <=> (decisions[j].action = "assign" /\ decisions[j].demand = d.id)
      BY <1>2
    <3>3. AssignedBefore(n + 1, d.id)' = js
      BY <1>4, <2>1, <2>2, <3>1, <3>2
    <3> QED
      BY <2>4, <3>3
  <2> QED
    BY <2>3, <2>4
<1>6. /\ \A j \in js : Counts(j)' <=> Counts(j)
      /\ Counts(n)' <=> d.id \notin MemberById(decision.member).counted
  <2>1. \A id : MemberById(id)' = MemberById(id)
    BY DEF MemberById
  <2>2. \A j \in js : decisions'[j] = decisions[j]
    BY <1>2, <1>3
  <2>3. \A j : Counts(j)' <=> d.id \notin MemberById(decisions'[j].member).counted
    BY <2>1
  <2> QED
    BY <1>2, <2>2, <2>3
<1>7. IsFiniteSet(js) /\ IsFiniteSet(new) /\ n \notin new /\ Cardinality(new) \in Nat
  <2>1. IsFiniteSet(1..(n - 1))
    BY <1>1, FS_Interval
  <2>2. new \subseteq 1..(n - 1) /\ n \notin new
    BY <1>3
  <2> QED
    BY <1>3, <2>1, <2>2, FS_Subset, FS_CardinalityType
<1>8. SupplyBefore(d, n) = d.supply + Cardinality(new)
  BY DEF SupplyBefore
<1> DEFINE later == {j \in AssignedBefore(n + 1, d.id)' : Counts(j)'}
           added == takes /\ d.id \notin MemberById(decision.member).counted
<1>9. SupplyBefore(d, n + 1)' = d.supply + Cardinality(later)
  BY DEF SupplyBefore
<1>10. later = IF added THEN new \cup {n} ELSE new
  <2>1. new = {j \in js : Counts(j)}
    OBVIOUS
  <2> HIDE DEF js, Counts, new
  <2> QED
    BY <1>5, <1>6, <2>1
<1>11. Cardinality(new \cup {n}) = Cardinality(new) + 1
  BY <1>7, FS_AddElement
<1> HIDE DEF new, js, Counts, later
<1>12. /\ SupplyBefore(d, n) \in Int
       /\ SupplyBefore(d, n + 1)' = IF takes /\ d.id \notin MemberById(decision.member).counted
                                   THEN SupplyBefore(d, n) + 1 ELSE SupplyBefore(d, n)
  <2>1. SupplyBefore(d, n) \in Int
    BY <1>7, <1>8
  <2>2. CASE added
    BY <1>7, <1>8, <1>9, <1>10, <1>11, <2>2
  <2>3. CASE ~added
    BY <1>7, <1>8, <1>9, <1>10, <2>3
  <2> QED
    BY <2>1, <2>2, <2>3
<1> USE DEF new, js, Counts, later
<1>13. LastBefore(d, n + 1)' = IF takes THEN decision.seq ELSE LastBefore(d, n)
  <2> DEFINE all == AssignedBefore(n + 1, d.id)'
             last(S) == CHOOSE j \in S : \A k \in S : k <= j
  <2>1. LastBefore(d, n + 1)' = IF all = {} THEN d.last ELSE decisions'[last(all)].seq
    BY DEF LastBefore
  <2>2. LastBefore(d, n) = IF js = {} THEN d.last ELSE decisions[last(js)].seq
    BY DEF LastBefore
  <2>3. CASE takes
    <3>1. all = js \cup {n}
      BY <1>5, <2>3
    <3>2. n \in all /\ \A k \in all : k \in Nat /\ k <= n
      BY <1>1, <1>3, <3>1
    <3>3. last(all) = n
      <4> HIDE DEF all
      <4>1. \E j \in all : \A k \in all : k <= j
        BY <3>2
      <4>2. last(all) \in all /\ \A k \in all : k <= last(all)
        BY <4>1
      <4>3. last(all) \in Nat /\ last(all) <= n /\ n <= last(all)
        BY <3>2, <4>2
      <4> QED
        BY <1>1, <4>3
    <3> QED
      BY <1>2, <2>1, <2>3, <3>2, <3>3
  <2>4. CASE ~takes
    <3>1. all = js
      BY <1>5, <2>4
    <3>2. CASE js = {}
      BY <2>1, <2>2, <2>4, <3>1, <3>2
    <3>3. CASE js # {}
      <4>1. \E j \in js : \A k \in js : k <= j
        <5>1. n - 1 \in Nat
          BY <1>1
        <5> QED
          BY <1>3, <3>3, <5>1, LatestExists
      <4>2. last(js) \in js
        BY <4>1
      <4>3. decisions'[last(js)] = decisions[last(js)]
        BY <1>2, <1>3, <4>2
      <4> QED
        BY <2>1, <2>2, <2>4, <3>1, <3>3, <4>3
    <3> QED
      BY <3>2, <3>3
  <2> QED
    BY <2>3, <2>4
<1> QED
  BY <1>12, <1>13

-----------------------------------------------------------------------------
(* Options and their order *)

\* A member holds the tags that are usable.
LEMMA HoldsUsable ==
    ASSUME NEW m, NEW code
    PROVE  Holds(m, code) <=> code \in UsableTags(m)
BY DEF Holds, UsableTags

\* filter finds the demands that may receive a member (snapshot.go, eligible).
LEMMA OptionsAreThoseOpen ==
    ASSUME snapshot \in Snapshots, ValidSnapshot(snapshot), demands = DemandsById(snapshot),
           NEW m \in snapshot.members
    PROVE  OptionsOf(m) = {Option(d, m) : d \in Open(m)}
<1>1. \A d \in snapshot.demands : demands[d.id] = d
  BY SnapshotFacts
<1>2. \A id \in m.allowed : \E d \in snapshot.demands : d.id = id
  BY DEF ValidSnapshot
<1> DEFINE tags == UsableTags(m)
           Fits(id) == /\ id \in m.allowed /\ demands[id].state = "receiving"
                       /\ demands[id].required \subseteq tags
                       /\ (demands[id].required \cup demands[id].preferred) \cap tags # {}
           Made(id) == [id |-> id, score |-> Cardinality(demands[id].preferred \cap tags),
                        hits |-> (demands[id].required \cup demands[id].preferred) \cap tags]
<1>3. OptionsOf(m) = {Made(id) : id \in {i \in m.allowed : Fits(i)}}
  BY DEF OptionsOf, Candidates
<1>4. \A d \in snapshot.demands : d \in Open(m) <=> Fits(d.id)
  BY <1>1, HoldsUsable DEF Open, MayReceive
<1>5. \A d \in snapshot.demands : Made(d.id) = Option(d, m)
  BY <1>1 DEF Option
<1>6. \A id \in {i \in m.allowed : Fits(i)} : \E d \in Open(m) : id = d.id
  BY <1>2, <1>4
<1>7. \A d \in Open(m) : d \in snapshot.demands /\ d.id \in {i \in m.allowed : Fits(i)}
  <2>1. \A d \in Open(m) : d \in snapshot.demands
    BY DEF Open
  <2> QED
    BY <1>4, <2>1
<1> HIDE DEF Fits, Made
<1> QED
  BY <1>3, <1>5, <1>6, <1>7

\* The columns of the order, from the snapshot and the decisions alone.
LEMMA OrderIsCurrent ==
    ASSUME PInv, phase = "simulate", NEW m \in snapshot.members, NEW d \in Open(m),
           NEW n, n = Len(decisions) + 1
    PROVE  /\ Order(Option(d, m)) = OrderBefore(d, m, n)
           /\ Order(Option(d, m)) \in [1..5 -> Int]
           /\ Order(Option(d, m))[5] = d.id
           /\ Len(Order(Option(d, m))) = 5
<1>1. /\ d \in snapshot.demands /\ d \in DemandRecords /\ IsFiniteSet(d.preferred)
      /\ demands[d.id] \in DemandRecords
      /\ demands[d.id].id = d.id /\ demands[d.id].priority = d.priority
      /\ demands[d.id].supply = SupplyBefore(d, n)
      /\ demands[d.id].last = LastBefore(d, n)
  BY SnapshotFacts DEF PInv, TypeOK, SupplyIsCurrent, Open
<1>2. {code \in d.preferred : Holds(m, code)} = d.preferred \cap UsableTags(m)
  BY HoldsUsable
<1>3. Cardinality(d.preferred \cap UsableTags(m)) \in Nat
  <2>1. IsFiniteSet(d.preferred \cap UsableTags(m))
    BY <1>1, FS_Subset
  <2> QED
    BY <2>1, FS_CardinalityType
<1> DEFINE score == Cardinality(d.preferred \cap UsableTags(m))
<1>4. Order(Option(d, m)) = <<-score, demands[d.id].priority, demands[d.id].supply,
                             demands[d.id].last, demands[d.id].id>>
  BY DEF Order, Option
<1>5. OrderBefore(d, m, n) = <<-score, d.priority, SupplyBefore(d, n), LastBefore(d, n), d.id>>
  BY <1>2 DEF OrderBefore
<1>6. -score \in Int /\ demands[d.id].priority \in Int /\ demands[d.id].supply \in Int
      /\ demands[d.id].last \in Int /\ demands[d.id].id \in Int
  BY <1>1, <1>3 DEF DemandRecords
<1> HIDE DEF score
<1> QED
  BY <1>1, <1>4, <1>5, <1>6

\* simulate takes the first of the demands that may receive the member.
LEMMA BestIsOpen ==
    ASSUME PInv, phase = "simulate", NEW m \in snapshot.members, options[m.id] # {},
           NEW n, n = Len(decisions) + 1
    PROVE  \E d \in Open(m) :
              /\ Best(options[m.id]) = Option(d, m)
              /\ \A e \in Open(m) \ {d} : Less(OrderBefore(d, m, n), OrderBefore(e, m, n))
<1> DEFINE opts == options[m.id]
<1>1. opts = {Option(d, m) : d \in Open(m)}
  BY DEF PInv, OptionsAreOpen
<1>2. IsFiniteSet(Open(m))
  BY SnapshotFacts, FS_Subset DEF PInv, TypeOK, Open
<1>3. IsFiniteSet(opts)
  <2> DEFINE f == [d \in Open(m) |-> Option(d, m)]
  <2>1. f \in [Open(m) -> opts] /\ \A o \in opts : \E d \in Open(m) : f[d] = o
    BY <1>1
  <2>2. f \in Surjection(Open(m), opts)
    BY <2>1 DEF Surjection
  <2> HIDE DEF f, opts
  <2> QED
    BY <1>2, <2>2, FS_Surjection
<1>4. \A o \in opts : Order(o) \in [1..5 -> Int]
  BY <1>1, OrderIsCurrent
<1>5. \A d, e \in Open(m) : d.id = e.id => d = e
  BY SnapshotFacts DEF PInv, TypeOK, Open
<1>6. \A o, p \in opts : Order(o)[5] = Order(p)[5] => o = p
  BY <1>1, <1>5, OrderIsCurrent
<1>7. Best(opts) \in opts /\ \A p \in opts \ {Best(opts)} : Less(Order(Best(opts)), Order(p))
  <2>1. opts # {}
    OBVIOUS
  <2> HIDE DEF opts
  <2> QED
    BY <1>3, <1>4, <1>6, <2>1, BestIsFirst
<1>8. PICK d \in Open(m) : Best(opts) = Option(d, m)
  BY <1>1, <1>7
<1>9. ASSUME NEW e \in Open(m) \ {d} PROVE Less(OrderBefore(d, m, n), OrderBefore(e, m, n))
  <2>1. d.id # e.id
    BY <1>5
  <2>2. Option(e, m) \in opts /\ Option(e, m) # Option(d, m)
    BY <1>1, <2>1 DEF Option
  <2>3. Less(Order(Option(d, m)), Order(Option(e, m)))
    BY <1>7, <1>8, <2>2
  <2> QED
    BY <2>3, OrderIsCurrent
<1> QED
  BY <1>8, <1>9

-----------------------------------------------------------------------------
(* Every step *)

\* The decision is the first choice, or a wait without one.
FirstChoice(i) ==
    LET m == MemberById(decisions[i].member)
    IN  IF Assigned(i)
        THEN \E d \in Open(m) :
                /\ d.id = decisions[i].demand
                /\ decisions[i].order = OrderBefore(d, m, i)
                /\ \A e \in Open(m) \ {d} : Less(OrderBefore(d, m, i), OrderBefore(e, m, i))
        ELSE Open(m) = {}

\* EveryChoiceIsFirst, decision by decision.
LEMMA ChoiceByChoice == EveryChoiceIsFirst <=> \A i \in DOMAIN decisions : FirstChoice(i)
BY DEF EveryChoiceIsFirst, FirstChoice, Open

\* A first choice remains one: later decisions do not count.
LEMMA ChoicesRemain ==
    ASSUME TypeOK, UNCHANGED snapshot, NEW decision, decisions' = Append(decisions, decision),
           NEW i \in 1..Len(decisions), FirstChoice(i)
    PROVE  FirstChoice(i)'
<1>1. decisions'[i] = decisions[i] /\ i \in 1..(Len(decisions) + 1)
  BY OneMoreDecision
<1>2. \A d, m : OrderBefore(d, m, i)' = OrderBefore(d, m, i)
  <2>1. \A d, m, code : Holds(m, code)' = Holds(m, code)
    BY DEF Holds
  <2> QED
    BY <1>1, BeforeKept DEF OrderBefore, Holds
<1>3. \A m : Open(m)' = Open(m)
  BY DEF Open, MayReceive, Holds
<1>4. MemberById(decisions[i].member)' = MemberById(decisions[i].member)
  BY <1>1 DEF MemberById
<1>5. Assigned(i)' = Assigned(i)
  BY <1>1 DEF Assigned
<1> QED
  BY <1>1, <1>2, <1>3, <1>4, <1>5 DEF FirstChoice

\* Whatever follows the decisions of the model: the parts of the invariant that
\* only look at snapshot and decisions.
LEMMA SameDecisions ==
    ASSUME UNCHANGED <<snapshot, decisions>>
    PROVE  /\ EveryChoiceIsFirst => EveryChoiceIsFirst'
           /\ \A d, i : SupplyBefore(d, i)' = SupplyBefore(d, i) /\ LastBefore(d, i)' = LastBefore(d, i)
<1>1. \A i, id : AssignedBefore(i, id)' = AssignedBefore(i, id)
  BY DEF AssignedBefore, Assigned
<1>2. \A id : MemberById(id)' = MemberById(id)
  BY DEF MemberById
<1>3. \A d, i : SupplyBefore(d, i)' = SupplyBefore(d, i) /\ LastBefore(d, i)' = LastBefore(d, i)
  <2> SUFFICES ASSUME NEW d, NEW i
               PROVE  SupplyBefore(d, i)' = SupplyBefore(d, i) /\ LastBefore(d, i)' = LastBefore(d, i)
    OBVIOUS
  <2>1. {j \in AssignedBefore(i, d.id) : d.id \notin MemberById(decisions[j].member).counted}' =
        {j \in AssignedBefore(i, d.id) : d.id \notin MemberById(decisions[j].member).counted}
    BY <1>1, <1>2
  <2>2. SupplyBefore(d, i)' = SupplyBefore(d, i)
    BY <2>1 DEF SupplyBefore
  <2>3. LastBefore(d, i)' = LastBefore(d, i)
    <3> DEFINE js == AssignedBefore(i, d.id)
    <3>1. js' = js
      BY <1>1
    <3>2. LastBefore(d, i) = IF js = {} THEN d.last ELSE decisions[CHOOSE j \in js : \A k \in js : k <= j].seq
      BY DEF LastBefore
    <3>3. LastBefore(d, i)' =
          IF js' = {} THEN d.last ELSE decisions'[CHOOSE j \in js' : \A k \in js' : k <= j].seq
      BY DEF LastBefore
    <3> HIDE DEF js
    <3> QED
      BY <3>1, <3>2, <3>3
  <2> QED
    BY <2>2, <2>3
<1>4. \A d, m, i : OrderBefore(d, m, i)' = OrderBefore(d, m, i)
  BY <1>3 DEF OrderBefore, Holds
<1>5. \A m : Open(m)' = Open(m)
  BY DEF Open, MayReceive, Holds
<1>6. \A i : FirstChoice(i)' <=> FirstChoice(i)
  BY <1>2, <1>4, <1>5 DEF FirstChoice, Assigned
<1>7. EveryChoiceIsFirst' <=> \A i \in DOMAIN decisions' : FirstChoice(i)'
  BY DEF EveryChoiceIsFirst, FirstChoice, Open
<1> QED
  BY <1>3, <1>6, <1>7, ChoiceByChoice

\* The demands before the first decision.
LEMMA NothingBefore ==
    ASSUME decisions = <<>>, NEW d, d.supply \in Int
    PROVE  SupplyBefore(d, 1) = d.supply /\ LastBefore(d, 1) = d.last
<1>1. AssignedBefore(1, d.id) = {}
  BY DEF AssignedBefore
<1>2. {j \in AssignedBefore(1, d.id) : d.id \notin MemberById(decisions[j].member).counted} = {}
  BY <1>1
<1>3. Cardinality({}) = 0
  BY FS_EmptySet
<1>4. SupplyBefore(d, 1) = d.supply + 0
  BY <1>2, <1>3 DEF SupplyBefore
<1> QED
  BY <1>1, <1>4 DEF LastBefore

\* A valid snapshot is as it was received; any other fails.
LEMMA ReadKeeps == PInv /\ Read => PInv'
<1> SUFFICES ASSUME PInv, Read PROVE PInv'
  OBVIOUS
<1>1. phase = "read" /\ decisions = <<>> /\ UNCHANGED <<snapshot, decisions, seq>>
  BY DEF Read, PInv, PhaseOK
<1>2. TypeOK' /\ EveryChoiceIsFirst'
  <2>1. phase' \in Phases
    BY DEF Read, Phases
  <2> QED
    BY <1>1, <2>1, SameDecisions DEF PInv, TypeOK
<1>3. CASE ValidSnapshot(snapshot)
  <2>1. phase' = "filter" /\ members' = snapshot.members /\ demands' = DemandsById(snapshot)
    BY <1>3 DEF Read
  <2>2. PhaseOK'
    BY <1>1, <1>3, <2>1 DEF PhaseOK, ValidSnapshot, DemandsById
  <2>3. SupplyIsCurrent'
    <3>1. Len(decisions') + 1 = 1
      BY <1>1
    <3>2. DOMAIN demands' = {d.id : d \in snapshot.demands}
      BY <2>1 DEF DemandsById
    <3>3. ASSUME NEW d \in snapshot.demands
          PROVE  /\ demands'[d.id] = d /\ d \in DemandRecords
                 /\ SupplyBefore(d, 1)' = d.supply /\ LastBefore(d, 1)' = d.last
      <4>1. demands'[d.id] = d /\ d \in DemandRecords
        BY <2>1, SnapshotFacts DEF PInv, TypeOK
      <4>2. d.supply \in Int
        BY <4>1 DEF DemandRecords
      <4> QED
        BY <1>1, <4>1, <4>2, NothingBefore, SameDecisions
    <3>4. \A d \in snapshot.demands :
             /\ SupplyBefore(d, Len(decisions) + 1)' = d.supply
             /\ LastBefore(d, Len(decisions) + 1)' = d.last
      BY <3>1, <3>3
    <3> QED
      BY <1>1, <3>2, <3>3, <3>4 DEF SupplyIsCurrent
  <2>4. OptionsAreOpen' /\ QueueIsServed' /\ DecisionsAreValid' /\ AcceptedSnapshotsArePlanned'
    BY <1>1, <2>1, SnapshotFacts DEF OptionsAreOpen, QueueIsServed, DecisionsAreValid,
       AcceptedSnapshotsArePlanned, PInv, TypeOK, Size
  <2> QED
    BY <1>2, <2>2, <2>3, <2>4 DEF PInv
<1>4. CASE ~ValidSnapshot(snapshot)
  <2>1. phase' = "failed"
    BY <1>4 DEF Read
  <2>2. AcceptedSnapshotsArePlanned'
    BY <1>1, <1>4 DEF AcceptedSnapshotsArePlanned, ValidSnapshot
  <2>3. PhaseOK' /\ OptionsAreOpen' /\ SupplyIsCurrent' /\ QueueIsServed' /\ DecisionsAreValid'
    BY <1>1, <2>1, SnapshotFacts DEF PhaseOK, OptionsAreOpen, SupplyIsCurrent, QueueIsServed,
       DecisionsAreValid, PInv, TypeOK, Size
  <2> QED
    BY <1>2, <2>2, <2>3 DEF PInv
<1> QED
  BY <1>3, <1>4

\* What a step that changes neither snapshot nor decisions has to keep.
LEMMA SameDecisionsKeep ==
    ASSUME PInv, UNCHANGED <<snapshot, decisions>>, phase' \in Phases,
           PhaseOK', OptionsAreOpen', SupplyIsCurrent', QueueIsServed', DecisionsAreValid',
           AcceptedSnapshotsArePlanned'
    PROVE  PInv'
BY SameDecisions DEF PInv, TypeOK

\* Supply and sequence of all demands, while nothing changes them.
LEMMA SameSupply ==
    ASSUME PInv, UNCHANGED <<snapshot, decisions, demands>>, phase \in {"filter", "rank", "simulate"}
    PROVE  SupplyIsCurrent'
BY SameDecisions DEF PInv, SupplyIsCurrent

\* filter computes the options of all members.
LEMMA FilterKeeps == PInv /\ Filter => PInv'
<1> SUFFICES ASSUME PInv, Filter PROVE PInv'
  OBVIOUS
<1>1. /\ phase = "filter" /\ phase' = "rank" /\ members = snapshot.members
      /\ ValidSnapshot(snapshot) /\ snapshot \in Snapshots
      /\ demands = DemandsById(snapshot) /\ decisions = <<>>
      /\ UNCHANGED <<snapshot, members, demands, decisions, seq>>
  BY DEF Filter, PInv, PhaseOK, TypeOK
<1>2. OptionsAreOpen'
  <2>1. ASSUME NEW m \in snapshot.members PROVE options'[m.id] = {Option(d, m) : d \in Open(m)}
    <3>1. options'[m.id] = OptionsOf(MemberById(m.id))
      BY <1>1 DEF Filter
    <3> QED
      BY <1>1, <3>1, SnapshotFacts, OptionsAreThoseOpen
  <2>2. \A m : Open(m)' = Open(m)
    BY <1>1 DEF Open, MayReceive, Holds
  <2> QED
    BY <1>1, <2>1, <2>2 DEF OptionsAreOpen
<1>3. SupplyIsCurrent'
  BY <1>1, SameSupply
<1>4. PhaseOK' /\ QueueIsServed' /\ DecisionsAreValid' /\ AcceptedSnapshotsArePlanned'
  BY <1>1 DEF PInv, PhaseOK, QueueIsServed, DecisionsAreValid, AcceptedSnapshotsArePlanned,
     ValidSnapshot, Size
<1> QED
  BY <1>1, <1>2, <1>3, <1>4, SameDecisionsKeep DEF Phases

\* rank puts all members into the queue.
LEMMA RankKeeps == PInv /\ Rank => PInv'
<1> SUFFICES ASSUME PInv, Rank PROVE PInv'
  OBVIOUS
<1>1. /\ phase = "rank" /\ phase' = "simulate" /\ members' = Queue /\ seq' = snapshot.next
      /\ ValidSnapshot(snapshot) /\ snapshot \in Snapshots /\ decisions = <<>>
      /\ UNCHANGED <<snapshot, options, demands, decisions>>
  BY DEF Rank, PInv, PhaseOK, TypeOK, Queue
<1>2. Queue \in [1..Size -> snapshot.members] /\ Size \in Nat
  BY <1>1, SnapshotFacts DEF IsRanking, Size
<1>3. Queue \in Seq(snapshot.members) /\ Len(Queue) = Size
  BY <1>2
<1>4. Queue' = Queue /\ Size' = Size /\ Len(decisions') = 0
  BY <1>1 DEF Queue, Size
<1>5. QueueIsServed'
  BY <1>1, <1>2, <1>3, <1>4 DEF QueueIsServed
<1>6. DecisionsAreValid'
  BY <1>1, <1>2, <1>4, SnapshotFacts DEF DecisionsAreValid, ValidSnapshot
<1>7. OptionsAreOpen'
  <2>1. \A m : Open(m)' = Open(m)
    BY <1>1 DEF Open, MayReceive, Holds
  <2> QED
    BY <1>1, <2>1 DEF OptionsAreOpen, PInv
<1>8. SupplyIsCurrent'
  BY <1>1, SameSupply
<1>9. PhaseOK' /\ AcceptedSnapshotsArePlanned'
  BY <1>1 DEF PhaseOK, AcceptedSnapshotsArePlanned, ValidSnapshot
<1> QED
  BY <1>1, <1>5, <1>6, <1>7, <1>8, <1>9, SameDecisionsKeep DEF Phases

\* validate finds nothing to refuse.
LEMMA ValidateKeeps == PInv /\ Validate => PInv'
<1> SUFFICES ASSUME PInv, Validate PROVE PInv'
  OBVIOUS
<1>1. /\ phase = "validate" /\ phase' = (IF ValidPlan THEN "submit" ELSE "failed")
      /\ UNCHANGED <<snapshot, members, options, reasons, demands, decisions, seq>>
      /\ snapshot \in Snapshots /\ ValidSnapshot(snapshot) /\ Len(decisions) \in Nat
      /\ DOMAIN decisions = 1..Len(decisions)
  BY DEF Validate, PInv, PhaseOK, TypeOK
<1>2. Len(Queue) = Size
  <2>1. Queue \in [1..Size -> snapshot.members] /\ Size \in Nat
    BY <1>1, SnapshotFacts DEF IsRanking, Size
  <2> QED
    BY <2>1
<1>3. Len(decisions) = Size
  BY <1>1 DEF PInv, QueueIsServed
<1>4. \A i \in 1..Len(decisions) :
          /\ decisions[i].member = Queue[i].id
          /\ decisions[i].action = "assign" =>
                Len(decisions[i].order) = 5 /\ decisions[i].order[5] = decisions[i].demand
  BY <1>1 DEF PInv, DecisionsAreValid
<1>5. ValidPlan
  BY <1>1, <1>2, <1>3, <1>4 DEF ValidPlan, Queue
<1>6. phase' = "submit"
  BY <1>1, <1>5
<1>7. PhaseOK' /\ OptionsAreOpen' /\ SupplyIsCurrent' /\ QueueIsServed' /\ AcceptedSnapshotsArePlanned'
  BY <1>1, <1>3, <1>6 DEF PhaseOK, OptionsAreOpen, SupplyIsCurrent, QueueIsServed,
     AcceptedSnapshotsArePlanned, ValidSnapshot, Size
<1>8. DecisionsAreValid'
  BY <1>1, <1>6 DEF PInv, DecisionsAreValid, Size, Queue
<1> QED
  BY <1>1, <1>6, <1>7, <1>8, SameDecisionsKeep DEF Phases

\* Only a sequence that is too large keeps a plan from its response.
LEMMA SubmitKeeps == PInv /\ Submit => PInv'
<1> SUFFICES ASSUME PInv, Submit PROVE PInv'
  OBVIOUS
<1>1. /\ phase = "submit" /\ phase' \in {"done", "failed"}
      /\ phase' = "failed" => \E i \in DOMAIN decisions : ~(decisions[i].seq <= MaxSequence)
      /\ UNCHANGED <<snapshot, members, options, reasons, demands, decisions, seq>>
      /\ ValidSnapshot(snapshot) /\ DOMAIN decisions = 1..Len(decisions)
  BY DEF Submit, PInv, PhaseOK, TypeOK
<1>2. seq \in Int /\ \A i \in 1..Len(decisions) : decisions[i].seq \in Int /\ decisions[i].seq <= seq - 1
  BY <1>1 DEF PInv, DecisionsAreValid
<1>3. AcceptedSnapshotsArePlanned'
  BY <1>1, <1>2, MaxSequenceAssumption DEF AcceptedSnapshotsArePlanned
<1>4. PhaseOK' /\ OptionsAreOpen' /\ SupplyIsCurrent' /\ QueueIsServed' /\ DecisionsAreValid'
  BY <1>1 DEF PInv, PhaseOK, OptionsAreOpen, SupplyIsCurrent, QueueIsServed, DecisionsAreValid,
     ValidSnapshot, Size, Queue
<1> QED
  BY <1>1, <1>3, <1>4, SameDecisionsKeep DEF Phases

\* The member served next is the head of the queue; what its step leaves alone.
LEMMA ServedInOrder ==
    ASSUME PInv, phase = "simulate", members # <<>>, members' = Tail(members),
           UNCHANGED <<phase, snapshot, options, reasons>>,
           NEW decision, decisions' = Append(decisions, decision),
           decision.member = Head(members).id
    PROVE  /\ QueueIsServed'
           /\ Len(decisions') <= Size'
           /\ \A i \in 1..Len(decisions') : decisions'[i].member = (Queue[i].id)'
           /\ TypeOK' /\ PhaseOK' /\ OptionsAreOpen' /\ AcceptedSnapshotsArePlanned'
<1>1. /\ Len(decisions) \in Nat /\ Len(decisions') = Len(decisions) + 1
      /\ \A i \in 1..Len(decisions) : decisions'[i] = decisions[i]
      /\ decisions'[Len(decisions) + 1] = decision
      /\ \E D : decisions' \in Seq(D)
  BY OneMoreDecision DEF PInv
<1>2. Queue' = Queue /\ Size' = Size
  BY DEF Queue, Size
<1>3. Size \in Nat /\ Len(decisions) + Len(members) = Size /\ Len(members) \in Nat
      /\ \A i \in 1..Len(members) : members[i] = Queue[Len(decisions) + i]
  BY SnapshotFacts DEF PInv, TypeOK, QueueIsServed
<1>4. QueueIsServed'
  <2>1. members' \in Seq(snapshot'.members) /\ Len(decisions') + Len(members') = Size'
    <3>1. members' \in Seq(snapshot.members) /\ Len(members') = Len(members) - 1
      BY NextInQueue
    <3>2. snapshot' = snapshot
      OBVIOUS
    <3>3. Len(decisions') + Len(members') = Size
      <4>1. Len(members') = Len(members) - 1
        BY <3>1
      <4>2. Len(decisions') = Len(decisions) + 1 /\ Len(decisions) \in Nat
        BY <1>1
      <4>3. Len(members) \in Nat /\ Len(decisions) + Len(members) = Size
        BY <1>3
      <4>4. (Len(decisions) + 1) + (Len(members) - 1) = Len(decisions) + Len(members)
        BY <4>2, <4>3
      <4> QED
        BY <4>1, <4>2, <4>3, <4>4, Zenon
    <3> QED
      BY <1>2, <3>1, <3>2, <3>3
  <2>2. ASSUME NEW i \in 1..Len(members') PROVE members'[i] = Queue'[Len(decisions') + i]
    <3>1. members'[i] = members[i + 1] /\ i + 1 \in 1..Len(members)
      BY <1>3, NextInQueue
    <3>2. members[i + 1] = Queue[Len(decisions) + (i + 1)]
      BY <1>3, <3>1
    <3>3. Len(decisions) + (i + 1) = Len(decisions') + i
      BY <1>1
    <3> QED
      BY <1>2, <3>1, <3>2, <3>3
  <2> QED
    BY <2>1, <2>2 DEF QueueIsServed
<1>5. Len(decisions') <= Size'
  BY <1>1, <1>2, <1>3, NextInQueue
<1>6. ASSUME NEW i \in 1..Len(decisions') PROVE decisions'[i].member = Queue[i].id
  <2>1. CASE i \in 1..Len(decisions)
    BY <1>1, <2>1 DEF PInv, DecisionsAreValid
  <2>2. CASE i = Len(decisions) + 1
    BY <1>1, <2>2, NextInQueue
  <2> QED
    BY <1>1, <2>1, <2>2
<1>7. TypeOK' /\ PhaseOK' /\ AcceptedSnapshotsArePlanned'
  BY <1>1 DEF PInv, TypeOK, PhaseOK, AcceptedSnapshotsArePlanned, ValidSnapshot
<1>8. OptionsAreOpen'
  <2>1. \A m : Open(m)' = Open(m)
    BY DEF Open, MayReceive, Holds
  <2> QED
    BY <2>1 DEF OptionsAreOpen, PInv
<1> QED
  BY <1>2, <1>4, <1>5, <1>6, <1>7, <1>8

\* With a first choice for the member served, every choice is a first one.
LEMMA OneMoreChoice ==
    ASSUME PInv, UNCHANGED snapshot, NEW decision, decisions' = Append(decisions, decision),
           NEW n, n = Len(decisions) + 1, FirstChoice(n)'
    PROVE  EveryChoiceIsFirst'
<1>1. /\ Len(decisions) \in Nat /\ DOMAIN decisions = 1..Len(decisions)
      /\ DOMAIN decisions' = 1..(Len(decisions) + 1)
  BY OneMoreDecision DEF PInv
<1>2. \A i \in 1..Len(decisions) : FirstChoice(i)
  BY <1>1, ChoiceByChoice DEF PInv
<1>3. \A i \in 1..Len(decisions) : FirstChoice(i)'
  BY <1>2, ChoicesRemain DEF PInv
<1>4. \A i \in 1..(Len(decisions) + 1) : FirstChoice(i)'
  BY <1>1, <1>3
<1>5. EveryChoiceIsFirst' <=> \A i \in DOMAIN decisions' : FirstChoice(i)'
  BY DEF EveryChoiceIsFirst, FirstChoice, Open
<1> QED
  BY <1>1, <1>4, <1>5

\* A member without an option waits.
LEMMA WaitKeeps ==
    ASSUME PInv, Simulate, members # <<>>, options[Head(members).id] = {}
    PROVE  PInv'
<1>0. PICK m : m = Head(members)
  OBVIOUS
<1> DEFINE decision == [member |-> m.id, action |-> "wait", demand |-> 0, hits |-> {},
                        order |-> <<>>, seq |-> 0, reason |-> reasons[m.id]]
<1>1. /\ m = Head(members) /\ options[m.id] = {}
      /\ phase = "simulate" /\ members' = Tail(members)
      /\ UNCHANGED <<phase, snapshot, options, reasons, demands, seq>>
      /\ decisions' = Append(decisions, decision)
  BY <1>0 DEF Simulate, Wait
<1>2. m \in snapshot.members /\ MemberById(m.id) = m /\ Open(m) = {}
  <2>1. m \in snapshot.members
    BY <1>1, NextInQueue
  <2>2. {Option(d, m) : d \in Open(m)} = {}
    BY <1>1, <2>1 DEF PInv, OptionsAreOpen
  <2> QED
    BY <2>1, <2>2, SnapshotFacts DEF PInv, TypeOK
<1>3. decision.member = m.id /\ decision.action = "wait" /\ decision.seq = 0
  OBVIOUS
<1> HIDE DEF decision
<1>4. /\ QueueIsServed' /\ TypeOK' /\ PhaseOK' /\ OptionsAreOpen' /\ AcceptedSnapshotsArePlanned'
      /\ Len(decisions') <= Size'
      /\ \A i \in 1..Len(decisions') : decisions'[i].member = (Queue[i].id)'
  BY <1>1, <1>3, ServedInOrder
<1>5. PICK n : n = Len(decisions) + 1
  OBVIOUS
<1>6. /\ n \in Nat /\ Len(decisions) \in Nat /\ Len(decisions') = n
      /\ decisions'[n] = decision
      /\ \A i \in 1..Len(decisions) : decisions'[i] = decisions[i]
  BY <1>1, <1>5, OneMoreDecision DEF PInv
<1>7. EveryChoiceIsFirst'
  <2>1. MemberById(decisions[n].member)' = m /\ ~Assigned(n)'
    BY <1>1, <1>2, <1>3, <1>6 DEF MemberById, Assigned
  <2>2. Open(m)' = {}
    BY <1>1, <1>2 DEF Open, MayReceive, Holds
  <2>3. FirstChoice(n)'
    BY <2>1, <2>2 DEF FirstChoice
  <2> QED
    BY <1>1, <1>5, <2>3, OneMoreChoice
<1>8. SupplyIsCurrent'
  <2>1. ASSUME NEW d \in snapshot.demands
        PROVE  /\ SupplyBefore(d, n + 1)' = SupplyBefore(d, n)
               /\ LastBefore(d, n + 1)' = LastBefore(d, n)
    <3>1. d.supply \in Int
      BY SnapshotFacts DEF PInv, TypeOK, DemandRecords
    <3> QED
      BY <1>1, <1>3, <1>5, <3>1, BeforeGrows DEF PInv
  <2>2. \A d \in snapshot.demands :
            /\ SupplyBefore(d, Len(decisions) + 1)' = SupplyBefore(d, n)
            /\ LastBefore(d, Len(decisions) + 1)' = LastBefore(d, n)
    BY <1>6, <2>1
  <2> QED
    BY <1>1, <1>5, <2>2 DEF PInv, SupplyIsCurrent
<1>9. DecisionsAreValid'
  <2>1. seq \in Int /\ seq >= 1
    BY <1>1 DEF PInv, DecisionsAreValid
  <2>2. \A i \in 1..Len(decisions') : decisions'[i].seq \in Int /\ decisions'[i].seq <= seq - 1
    BY <1>1, <1>3, <1>5, <1>6, <2>1 DEF PInv, DecisionsAreValid
  <2>3. \A i \in 1..Len(decisions') :
            decisions'[i].action = "assign" =>
                Len(decisions'[i].order) = 5 /\ decisions'[i].order[5] = decisions'[i].demand
    BY <1>1, <1>3, <1>5, <1>6 DEF PInv, DecisionsAreValid
  <2> QED
    BY <1>1, <1>4, <2>1, <2>2, <2>3 DEF DecisionsAreValid
<1> QED
  BY <1>4, <1>7, <1>8, <1>9 DEF PInv

\* The demand assigned has the supply and the sequence that follow, the others
\* have what they had.
LEMMA SupplyGrows ==
    ASSUME PInv, phase = "simulate", UNCHANGED <<phase, snapshot>>, seq \in Int,
           NEW m \in snapshot.members, NEW d \in snapshot.demands,
           demands' = [demands EXCEPT ![d.id] =
               [@ EXCEPT !.supply = Supplied(demands[d.id], m), !.last = seq]],
           NEW decision, decisions' = Append(decisions, decision),
           decision.member = m.id, decision.action = "assign", decision.demand = d.id,
           decision.seq = seq, MemberById(m.id) = m
    PROVE  SupplyIsCurrent'
<1>1. PICK n : n = Len(decisions) + 1
  OBVIOUS
<1>2. n \in Nat /\ Len(decisions') = n
  BY <1>1, OneMoreDecision DEF PInv
<1>3. /\ DOMAIN demands = {e.id : e \in snapshot.demands}
      /\ \A e \in snapshot.demands :
            /\ demands[e.id] \in DemandRecords
            /\ demands[e.id].id = e.id /\ demands[e.id].priority = e.priority
            /\ demands[e.id].supply = SupplyBefore(e, n)
            /\ demands[e.id].last = LastBefore(e, n)
  BY <1>1 DEF PInv, SupplyIsCurrent
<1>4. DOMAIN demands' = {e.id : e \in snapshot.demands}
  BY <1>3
<1> DEFINE was == demands[d.id]
           is == [was EXCEPT !.supply = Supplied(was, m), !.last = seq]
<1>5. /\ is \in DemandRecords /\ is.id = was.id /\ is.priority = was.priority
      /\ is.supply = Supplied(was, m) /\ is.last = seq
  <2>1. was \in DemandRecords
    BY <1>3
  <2>2. Supplied(was, m) \in Int
    BY <2>1 DEF Supplied, DemandRecords
  <2> HIDE DEF was
  <2> QED
    BY <2>1, <2>2 DEF DemandRecords
<1>6. demands'[d.id] = is /\ \A e \in snapshot.demands : e # d => demands'[e.id] = demands[e.id]
  <2>1. \A e \in snapshot.demands : e # d => e.id # d.id
    BY SnapshotFacts DEF PInv, TypeOK
  <2> QED
    BY <1>3, <2>1
<1> HIDE DEF is
<1>7. ASSUME NEW e \in snapshot.demands
      PROVE  /\ demands'[e.id] \in DemandRecords
             /\ demands'[e.id].id = e.id /\ demands'[e.id].priority = e.priority
             /\ demands'[e.id].supply = SupplyBefore(e, n + 1)'
             /\ demands'[e.id].last = LastBefore(e, n + 1)'
  <2> DEFINE takes == decision.action = "assign" /\ decision.demand = e.id
  <2>1. e.supply \in Int
    BY SnapshotFacts DEF PInv, TypeOK, DemandRecords
  <2>2. /\ SupplyBefore(e, n + 1)' =
              IF takes /\ e.id \notin MemberById(decision.member).counted
              THEN SupplyBefore(e, n) + 1 ELSE SupplyBefore(e, n)
        /\ LastBefore(e, n + 1)' = IF takes THEN decision.seq ELSE LastBefore(e, n)
    BY <1>1, <2>1, BeforeGrows DEF PInv
  <2>3. CASE e = d
    <3>1. takes /\ MemberById(decision.member) = m
      BY <2>3
    <3>2. /\ SupplyBefore(e, n + 1)' = Supplied(was, m)
          /\ LastBefore(e, n + 1)' = seq
      BY <1>3, <2>2, <2>3, <3>1 DEF Supplied
    <3> QED
      BY <1>3, <1>5, <1>6, <2>3, <3>2
  <2>4. CASE e # d
    <3>1. e.id # d.id
      BY <2>4, SnapshotFacts DEF PInv, TypeOK
    <3>2. ~takes
      BY <3>1
    <3> QED
      BY <1>3, <1>6, <2>2, <2>4, <3>2
  <2> QED
    BY <2>3, <2>4
<1>8. \A e \in snapshot.demands :
          /\ SupplyBefore(e, Len(decisions) + 1)' = SupplyBefore(e, n + 1)'
          /\ LastBefore(e, Len(decisions) + 1)' = LastBefore(e, n + 1)'
  BY <1>2
<1> QED
  BY <1>4, <1>7, <1>8 DEF SupplyIsCurrent

\* A member with options gets the first of them.
LEMMA AssignKeeps ==
    ASSUME PInv, Simulate, members # <<>>, options[Head(members).id] # {}
    PROVE  PInv'
<1>0. PICK m, o : m = Head(members) /\ o = Best(options[m.id])
  OBVIOUS
<1> DEFINE decision == [member |-> m.id, action |-> "assign", demand |-> o.id, hits |-> o.hits,
                        order |-> Order(o), seq |-> seq, reason |-> "allocated"]
<1>1. /\ m = Head(members) /\ o = Best(options[m.id]) /\ options[m.id] # {}
      /\ phase = "simulate" /\ members' = Tail(members)
      /\ UNCHANGED <<phase, snapshot, options, reasons>>
      /\ decisions' = Append(decisions, decision)
      /\ seq' = seq + 1
      /\ demands' = [demands EXCEPT ![o.id] =
             [@ EXCEPT !.supply = Supplied(demands[o.id], m), !.last = seq]]
  BY <1>0 DEF Simulate, Assign
<1>2. m \in snapshot.members /\ MemberById(m.id) = m
  BY <1>1, NextInQueue, SnapshotFacts DEF PInv, TypeOK
<1>3. PICK n : n = Len(decisions) + 1
  OBVIOUS
<1>4. PICK d \in Open(m) :
          /\ o = Option(d, m)
          /\ \A e \in Open(m) \ {d} : Less(OrderBefore(d, m, n), OrderBefore(e, m, n))
  BY <1>1, <1>2, <1>3, BestIsOpen
<1>5. /\ Order(o) = OrderBefore(d, m, n) /\ Len(Order(o)) = 5 /\ Order(o)[5] = d.id
      /\ o.id = d.id /\ d \in snapshot.demands
  BY <1>1, <1>2, <1>3, <1>4, OrderIsCurrent DEF Option, Open
<1>6. /\ decision.member = m.id /\ decision.action = "assign" /\ decision.demand = d.id
      /\ decision.order = OrderBefore(d, m, n) /\ decision.seq = seq
      /\ Len(decision.order) = 5 /\ decision.order[5] = decision.demand
  BY <1>5
<1> HIDE DEF decision
<1>7. /\ QueueIsServed' /\ TypeOK' /\ PhaseOK' /\ OptionsAreOpen' /\ AcceptedSnapshotsArePlanned'
      /\ Len(decisions') <= Size'
      /\ \A i \in 1..Len(decisions') : decisions'[i].member = (Queue[i].id)'
  BY <1>1, <1>6, ServedInOrder
<1>8. /\ n \in Nat /\ Len(decisions) \in Nat /\ Len(decisions') = n
      /\ n \in 1..(Len(decisions) + 1)
      /\ decisions'[n] = decision
      /\ \A i \in 1..Len(decisions) : decisions'[i] = decisions[i]
  BY <1>1, <1>3, OneMoreDecision DEF PInv
<1>9. EveryChoiceIsFirst'
  <2>1. MemberById(decisions[n].member)' = m /\ Assigned(n)'
    BY <1>1, <1>2, <1>6, <1>8 DEF MemberById, Assigned
  <2>2. Open(m)' = Open(m)
    BY <1>1 DEF Open, MayReceive, Holds
  <2>3. \A e : OrderBefore(e, m, n)' = OrderBefore(e, m, n)
    <3>1. \A e : SupplyBefore(e, n)' = SupplyBefore(e, n) /\ LastBefore(e, n)' = LastBefore(e, n)
      BY <1>1, <1>8, BeforeKept DEF PInv
    <3> QED
      BY <3>1 DEF OrderBefore, Holds
  <2>4. d.id = decisions'[n].demand /\ decisions'[n].order = OrderBefore(d, m, n)
    BY <1>6, <1>8
  <2>5. FirstChoice(n)'
    BY <1>4, <2>1, <2>2, <2>3, <2>4 DEF FirstChoice
  <2> QED
    BY <1>1, <1>3, <2>5, OneMoreChoice
<1>10. seq \in Int /\ seq >= 1
  BY <1>1 DEF PInv, DecisionsAreValid
<1>11. DecisionsAreValid'
  <2>1. \A i \in 1..Len(decisions) : decisions[i].seq \in Int /\ decisions[i].seq <= seq - 1
    BY <1>1 DEF PInv, DecisionsAreValid
  <2>2. \A i \in 1..Len(decisions') : decisions'[i].seq \in Int /\ decisions'[i].seq <= (seq + 1) - 1
    BY <1>3, <1>6, <1>8, <1>10, <2>1
  <2>3. \A i \in 1..Len(decisions') :
            decisions'[i].action = "assign" =>
                Len(decisions'[i].order) = 5 /\ decisions'[i].order[5] = decisions'[i].demand
    BY <1>1, <1>3, <1>6, <1>8 DEF PInv, DecisionsAreValid
  <2> QED
    BY <1>1, <1>7, <1>10, <2>2, <2>3 DEF DecisionsAreValid
<1>12. SupplyIsCurrent'
  BY <1>1, <1>2, <1>3, <1>5, <1>6, <1>8, <1>10, SupplyGrows
<1> QED
  BY <1>7, <1>9, <1>11, <1>12 DEF PInv

\* simulate serves the next member, or has served them all.
LEMMA SimulateKeeps == PInv /\ Simulate => PInv'
<1> SUFFICES ASSUME PInv, Simulate PROVE PInv'
  OBVIOUS
<1>1. CASE members # <<>>
  BY <1>1, WaitKeeps, AssignKeeps
<1>2. CASE members = <<>>
  <2>1. /\ phase = "simulate" /\ phase' = "validate"
        /\ UNCHANGED <<snapshot, members, options, reasons, demands, decisions, seq>>
    BY <1>2 DEF Simulate
  <2>2. QueueIsServed'
    <3>1. Len(decisions) = Size
      <4>1. Len(decisions) \in Nat /\ Len(decisions) + Len(members) = Size
        BY <2>1 DEF PInv, TypeOK, QueueIsServed
      <4> QED
        BY <1>2, <4>1
    <3> QED
      BY <2>1, <3>1 DEF QueueIsServed, Size
  <2>3. PhaseOK' /\ OptionsAreOpen' /\ SupplyIsCurrent' /\ AcceptedSnapshotsArePlanned'
    BY <2>1 DEF PInv, PhaseOK, OptionsAreOpen, SupplyIsCurrent, AcceptedSnapshotsArePlanned,
       ValidSnapshot
  <2>4. DecisionsAreValid'
    BY <2>1 DEF PInv, DecisionsAreValid, Size, Queue
  <2> QED
    BY <2>1, <2>2, <2>3, <2>4, SameDecisionsKeep DEF Phases
<1> QED
  BY <1>1, <1>2

\* Before the first step there is no decision.
LEMMA InitKeeps == Init => PInv
<1> SUFFICES ASSUME Init PROVE PInv
  OBVIOUS
<1>1. phase = "read" /\ snapshot \in Snapshots /\ decisions = <<>> /\ Len(decisions) = 0
  BY DEF Init
<1>2. TypeOK
  <2>1. decisions \in Seq({})
    BY <1>1
  <2> QED
    BY <1>1, <2>1 DEF TypeOK, Phases
<1>3. Size \in Nat
  BY <1>1, SnapshotFacts
<1> QED
  BY <1>1, <1>2, <1>3 DEF PInv, PhaseOK, OptionsAreOpen, SupplyIsCurrent, QueueIsServed,
     DecisionsAreValid, EveryChoiceIsFirst, AcceptedSnapshotsArePlanned

\* A step that changes nothing.
LEMMA StutterKeeps == PInv /\ UNCHANGED vars => PInv'
<1> SUFFICES ASSUME PInv, UNCHANGED vars PROVE PInv'
  OBVIOUS
<1>1. UNCHANGED <<phase, snapshot, members, options, reasons, demands, decisions, seq>>
  BY DEF vars
<1>2. phase' \in Phases /\ PhaseOK' /\ OptionsAreOpen' /\ QueueIsServed' /\ DecisionsAreValid'
  <2>1. \A m : Open(m)' = Open(m)
    BY <1>1 DEF Open, MayReceive, Holds
  <2> QED
    BY <1>1, <2>1 DEF PInv, TypeOK, PhaseOK, OptionsAreOpen, QueueIsServed, DecisionsAreValid,
       ValidSnapshot, DemandsById, Size, Queue
<1>3. SupplyIsCurrent'
  <2>1. CASE phase \in {"filter", "rank", "simulate"}
    BY <1>1, <2>1, SameSupply
  <2>2. CASE phase \notin {"filter", "rank", "simulate"}
    BY <1>1, <2>2 DEF SupplyIsCurrent
  <2> QED
    BY <2>1, <2>2
<1>4. AcceptedSnapshotsArePlanned'
  BY <1>1 DEF PInv, AcceptedSnapshotsArePlanned, ValidSnapshot
<1> QED
  BY <1>1, <1>2, <1>3, <1>4, SameDecisionsKeep

\* Every step of a request keeps the invariant.
LEMMA StepKeeps == PInv /\ [Next]_vars => PInv'
BY ReadKeeps, FilterKeeps, RankKeeps, SimulateKeeps, ValidateKeeps, SubmitKeeps, StutterKeeps
   DEF Next, Ended

\* It holds throughout.
LEMMA Inductive == Spec => []PInv
<1>1. Init => PInv
  BY InitKeeps
<1>2. PInv /\ [Next]_vars => PInv'
  BY StepKeeps
<1> QED
  BY <1>1, <1>2, PTL DEF Spec

-----------------------------------------------------------------------------
(* What follows for the plan *)

\* simulate (service.go) gives each member the first of the demands that may
\* receive it, in the order of less (snapshot.go) with supply and sequence as the
\* decisions before left them; a member waits only when there is none.
THEOREM FirstChoices == Spec => []EveryChoiceIsFirst
<1>1. PInv => EveryChoiceIsFirst
  BY DEF PInv
<1> QED
  BY <1>1, Inductive, PTL

\* No check of validate or submit refuses the plan of a snapshot that read
\* accepted, other than that of the largest sequence (service.go, validate).
THEOREM AcceptedArePlanned == Spec => []AcceptedSnapshotsArePlanned
<1>1. PInv => AcceptedSnapshotsArePlanned
  BY DEF PInv
<1> QED
  BY <1>1, Inductive, PTL

\* A plan that is done has one decision for each member of the snapshot, none
\* before that of a member created earlier (service.go, rank and validate).
LEMMA DoneServesAll == PInv => OneDecisionEach
<1> SUFFICES ASSUME PInv, phase = "done"
             PROVE  /\ Len(decisions) = Size
                    /\ {decisions[i].member : i \in DOMAIN decisions} =
                          {m.id : m \in snapshot.members}
                    /\ \A i, j \in DOMAIN decisions :
                          i < j => MemberById(decisions[i].member).created
                                       <= MemberById(decisions[j].member).created
  BY DEF OneDecisionEach, Size
<1>1. Len(decisions) = Size /\ DOMAIN decisions = 1..Size
  BY DEF PInv, TypeOK, QueueIsServed
<1>2. /\ IsRanking(Queue, snapshot.members) /\ Rankable(snapshot.members)
      /\ \A m \in snapshot.members : MemberById(m.id) = m
  BY SnapshotFacts DEF PInv, TypeOK
<1>3. /\ \A i \in 1..Size : Queue[i] \in snapshot.members
      /\ \A i, j \in 1..Size : i < j => Earlier(Queue[i], Queue[j])
      /\ \A m \in snapshot.members : \E i \in 1..Size : Queue[i] = m
  BY <1>2, RankedRanks DEF IsRanking, Queue, Size
<1>4. \A i \in 1..Size : decisions[i].member = Queue[i].id
  BY <1>1 DEF PInv, DecisionsAreValid
<1>5. {decisions[i].member : i \in 1..Size} = {m.id : m \in snapshot.members}
  BY <1>3, <1>4
<1>6. ASSUME NEW i \in 1..Size, NEW j \in 1..Size, i < j
      PROVE  MemberById(decisions[i].member).created <= MemberById(decisions[j].member).created
  <2>1. MemberById(decisions[i].member) = Queue[i] /\ MemberById(decisions[j].member) = Queue[j]
    BY <1>2, <1>3, <1>4
  <2>2. Earlier(Queue[i], Queue[j]) /\ Queue[i].created \in Int /\ Queue[j].created \in Int
    BY <1>2, <1>3, <1>6 DEF Rankable
  <2> QED
    BY <2>1, <2>2 DEF Earlier
<1> QED
  BY <1>1, <1>5, <1>6

\* "Exactly one assign or wait per member", in the order of their creation.
THEOREM EveryMemberOnce == Spec => []OneDecisionEach
BY Inductive, DoneServesAll, PTL

=============================================================================
