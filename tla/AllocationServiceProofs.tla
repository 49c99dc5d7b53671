---------------------- MODULE AllocationServiceProofs ----------------------
(***************************************************************************)
(* What the allocation service guarantees for any number of callers, keys, *)
(* payloads and slots, and any capacity, lifetime and longest execution.   *)
(*                                                                         *)
(* The argument for the conflicts: the entry of a key speaks for every     *)
(* plan made under it (PlansAreKept), unless so much time has passed that  *)
(* whoever commits from now on started late enough.                        *)
(***************************************************************************)
EXTENDS AllocationService, FiniteSetTheorems, TLAPS

CacheType == [Keys -> Callers \cup {NoCaller}]

\* Making room keeps all entries but one, and there is room afterwards (212-219).
LEMMA EvictionMakesRoom ==
    ASSUME NEW m \in CacheType, IsFiniteSet(Used(m)), Cardinality(Used(m)) <= Capacity,
           NEW map \in Evictions(m)
    PROVE  /\ map \in CacheType
           /\ \A k \in Keys : map[k] \in {m[k], NoCaller}
           /\ IsFiniteSet(Used(map)) /\ Cardinality(Used(map)) < Capacity
<1>1. CASE map = m /\ Cardinality(Used(m)) < Capacity
  BY <1>1 DEF CacheType
<1>2. CASE \E k \in Used(m) : map = [m EXCEPT ![k] = NoCaller]
  <2>1. PICK k \in Used(m) : map = [m EXCEPT ![k] = NoCaller]
    BY <1>2
  <2>2. map \in CacheType /\ \A j \in Keys : map[j] \in {m[j], NoCaller}
    BY <2>1 DEF CacheType, Used
  <2>3. Used(map) = Used(m) \ {k}
    BY <2>1 DEF CacheType, Used
  <2>4. IsFiniteSet(Used(map)) /\ Cardinality(Used(map)) = Cardinality(Used(m)) - 1
    BY <2>3, FS_RemoveElement
  <2>5. Cardinality(Used(m)) \in Nat
    BY FS_CardinalityType
  <2> QED
    BY <2>2, <2>4, <2>5, ServiceNumbers
<1> QED
  BY <1>1, <1>2 DEF Evictions

\* The sweep drops what c finds too old, and nothing else (204-208).
LEMMA SweepDropsTheOld ==
    ASSUME TypeOK, NEW c \in Callers
    PROVE  /\ Swept(c) \in CacheType
           /\ \A k \in Keys : \/ Swept(c)[k] = cache[k]
                              \/ /\ Swept(c)[k] = NoCaller
                                 /\ cache[k] # NoCaller /\ ~WithinTTL(c, cache[k])
           /\ Used(Swept(c)) \subseteq Used(cache)
BY DEF Swept, Used, CacheType, TypeOK

\* An execution that commits changes the cache in this way.
LEMMA CommittedCache ==
    ASSUME TypeOK, IsFiniteSet(Used(cache)), Cardinality(Used(cache)) <= Capacity,
           NEW c \in Callers, Commit(c), ~Collides(c)
    PROVE  /\ cache' \in CacheType /\ cache'[req[c].key] = c
           /\ \A k \in Keys \ {req[c].key} :
                 cache'[k] \in {Swept(c)[k], NoCaller}
           /\ evicted' = evicted \cup (Used(Swept(c)) \ Used(cache'))
           /\ IsFiniteSet(Used(cache')) /\ Cardinality(Used(cache')) <= Capacity
<1> DEFINE key == req[c].key
<1>1. key \in Keys
  BY DEF TypeOK, RequestType
<1>2. PICK map \in Evictions(Swept(c)) :
         /\ cache' = [map EXCEPT ![key] = c]
         /\ evicted' = evicted \cup (Used(Swept(c)) \ Used(cache'))
  BY DEF Commit
<1>3. IsFiniteSet(Used(Swept(c))) /\ Cardinality(Used(Swept(c))) <= Capacity
  <2>1. IsFiniteSet(Used(Swept(c))) /\ Cardinality(Used(Swept(c))) <= Cardinality(Used(cache))
    BY SweepDropsTheOld, FS_Subset
  <2>2. Cardinality(Used(cache)) \in Nat /\ Cardinality(Used(Swept(c))) \in Nat
    BY <2>1, FS_CardinalityType
  <2> QED
    BY <2>1, <2>2, ServiceNumbers
<1>4. /\ map \in CacheType
      /\ \A k \in Keys : map[k] \in {Swept(c)[k], NoCaller}
      /\ IsFiniteSet(Used(map)) /\ Cardinality(Used(map)) < Capacity
  BY <1>3, SweepDropsTheOld, EvictionMakesRoom
<1>5. cache' \in CacheType /\ cache'[key] = c /\ \A k \in Keys \ {key} : cache'[k] = map[k]
  BY <1>1, <1>2, <1>4 DEF CacheType
<1>6. Used(cache') = Used(map) \cup {key}
  BY <1>1, <1>5, NoCallerAssumption DEF Used
<1>7. /\ IsFiniteSet(Used(cache'))
      /\ Cardinality(Used(cache')) \in {Cardinality(Used(map)), Cardinality(Used(map)) + 1}
  BY <1>4, <1>6, FS_AddElement
<1>8. Cardinality(Used(map)) \in Nat
  BY <1>4, FS_CardinalityType
<1> QED
  BY <1>2, <1>4, <1>5, <1>7, <1>8, ServiceNumbers

-----------------------------------------------------------------------------
(* Types *)

\* The cache holds finitely many entries, and no more than its capacity.
CacheFits == IsFiniteSet(Used(cache)) /\ CacheBound

\* Every step keeps the types and the size of the cache.
LEMMA TypeStep == TypeOK /\ CacheFits /\ [Next]_vars => TypeOK' /\ CacheFits'
<1> SUFFICES ASSUME TypeOK, CacheFits, [Next]_vars PROVE TypeOK' /\ CacheFits'
  OBVIOUS
<1> USE DEF CacheFits, CacheBound
<1>1. CASE Tick
  BY <1>1, ServiceNumbers DEF Tick, TypeOK, Used
<1>2. ASSUME NEW c \in Callers, Start(c) PROVE TypeOK' /\ CacheFits'
  BY <1>2 DEF Start, Moves, Decides, TypeOK, Used, Errors
<1>3. ASSUME NEW c \in Callers, Lookup(c) PROVE TypeOK' /\ CacheFits'
  <2>1. Entry(c) \in Callers \cup {NoCaller}
    BY DEF Entry, TypeOK, RequestType
  <2>2. UNCHANGED <<cache, holders, req, started, step, ctx, now, evicted>>
    BY <1>3 DEF Lookup
  <2>3. pc' \in [Callers -> {"idle", "started", "queueing", "planning", "releasing", "returned"}]
    BY <1>3 DEF Lookup, Moves, TypeOK
  <2>4. answer' \in [Callers -> Errors \cup {"none", "fresh", "reused"}]
    BY <1>3 DEF Lookup, Decides, TypeOK, Errors
  <2>5. source' \in [Callers -> Callers \cup {NoCaller}]
    BY <1>3, <2>1 DEF Lookup, TypeOK
  <2> QED
    BY <2>2, <2>3, <2>4, <2>5 DEF TypeOK, Used
<1>4. ASSUME NEW c \in Callers, TakeSlot(c) PROVE TypeOK' /\ CacheFits'
  BY <1>4 DEF TakeSlot, Moves, TypeOK, Used
<1>5. ASSUME NEW c \in Callers, LeaveQueue(c) PROVE TypeOK' /\ CacheFits'
  BY <1>5 DEF LeaveQueue, Moves, Decides, TypeOK, Used, Errors
<1>6. ASSUME NEW c \in Callers, PlanStep(c) PROVE TypeOK' /\ CacheFits'
  <2>1. step[c] + 1 \in 0..Steps
    BY <1>6, ServiceNumbers DEF PlanStep, StepsRemain, TypeOK
  <2> QED
    BY <1>6, <2>1 DEF PlanStep, TypeOK, Used
<1>7. ASSUME NEW c \in Callers, PlanFails(c) PROVE TypeOK' /\ CacheFits'
  BY <1>7 DEF PlanFails, Moves, Decides, TypeOK, Used, Errors
<1>8. ASSUME NEW c \in Callers, Commit(c) PROVE TypeOK' /\ CacheFits'
  <2>1. UNCHANGED <<holders, req, started, step, ctx, source, now>>
    BY <1>8 DEF Commit
  <2>2. pc' \in [Callers -> {"idle", "started", "queueing", "planning", "releasing", "returned"}]
    BY <1>8 DEF Commit, Moves, TypeOK
  <2>3. answer' \in [Callers -> Errors \cup {"none", "fresh", "reused"}]
    BY <1>8 DEF Commit, Decides, TypeOK, Errors
  <2>4. CASE Collides(c)
    <3>1. UNCHANGED <<cache, evicted>>
      BY <1>8, <2>4 DEF Commit
    <3> QED
      BY <2>1, <2>2, <2>3, <3>1 DEF TypeOK, Used
  <2>5. CASE ~Collides(c)
    <3>1. /\ cache' \in CacheType
          /\ evicted' = evicted \cup (Used(Swept(c)) \ Used(cache'))
          /\ IsFiniteSet(Used(cache')) /\ Cardinality(Used(cache')) <= Capacity
      BY <1>8, <2>5, CommittedCache
    <3>2. evicted' \subseteq Keys
      BY <3>1 DEF Used, TypeOK
    <3> QED
      BY <2>1, <2>2, <2>3, <3>1, <3>2 DEF TypeOK, CacheType
  <2> QED
    BY <2>4, <2>5
<1>9. ASSUME NEW c \in Callers, Release(c) PROVE TypeOK' /\ CacheFits'
  BY <1>9 DEF Release, Released, Moves, TypeOK, Used
<1>10. ASSUME NEW c \in Callers, ContextEnds(c) PROVE TypeOK' /\ CacheFits'
  BY <1>10 DEF ContextEnds, TypeOK, Used
<1>11. CASE UNCHANGED vars
  BY <1>11 DEF vars, TypeOK, Used
<1> QED
  BY <1>1, <1>2, <1>3, <1>4, <1>5, <1>6, <1>7, <1>8, <1>9, <1>10, <1>11 DEF Next, Step

\* The initial states are of the types, with an empty cache.
LEMMA TypeInit == Init => TypeOK /\ CacheFits
<1> SUFFICES ASSUME Init PROVE TypeOK /\ CacheFits
  OBVIOUS
<1>1. TypeOK
  BY ServiceNumbers DEF Init, TypeOK
<1>2. Used(cache) = {}
  BY DEF Init, Used
<1> QED
  BY <1>1, <1>2, FS_EmptySet, ServiceNumbers DEF CacheFits, CacheBound

\* The cache never exceeds its capacity, however many keys there are, and
\* whichever of its oldest entries makes room (service.go:209-219).
THEOREM CacheIsBounded == Spec => []CacheBound
<1>1. TypeOK /\ CacheFits => CacheBound
  BY DEF CacheFits
<1> QED
  BY <1>1, TypeInit, TypeStep, PTL DEF Spec

\* The types hold, for any constants (service.go:97-128).
THEOREM TypeCorrect == Spec => []TypeOK
BY TypeInit, TypeStep, PTL DEF Spec

-----------------------------------------------------------------------------
(* Slots *)

\* A set with a slot to spare has room for one more (171-173).
LEMMA RoomForOne ==
    ASSUME NEW S, IsFiniteSet(S), Cardinality(S) < Slots, NEW x
    PROVE  IsFiniteSet(S \cup {x}) /\ Cardinality(S \cup {x}) <= Slots
<1>1. Cardinality(S) \in Nat
  BY FS_CardinalityType
<1>2. /\ IsFiniteSet(S \cup {x})
      /\ Cardinality(S \cup {x}) \in {Cardinality(S), Cardinality(S) + 1}
  BY FS_AddElement
<1> QED
  BY <1>1, <1>2, ServiceNumbers

SlotsFit == IsFiniteSet(holders) /\ NoSlotLost

\* Who takes a slot plans, and who ceases to plan gives it back on its way out.
LEMMA SlotStep == TypeOK /\ SlotsFit /\ [Next]_vars => SlotsFit'
<1> SUFFICES ASSUME TypeOK, SlotsFit, [Next]_vars PROVE SlotsFit'
  OBVIOUS
<1> DEFINE Holding == {c \in Callers : pc[c] \in {"planning", "releasing"}}
<1>1. holders = Holding /\ IsFiniteSet(holders) /\ Cardinality(holders) <= Slots
  BY DEF SlotsFit, NoSlotLost
<1>2. ASSUME UNCHANGED holders, Holding' = Holding PROVE SlotsFit'
  BY <1>1, <1>2 DEF SlotsFit, NoSlotLost
<1>3. ASSUME UNCHANGED holders, NEW c \in Callers, NEW p, pc' = [pc EXCEPT ![c] = p],
             p \in {"planning", "releasing"} <=> pc[c] \in {"planning", "releasing"}
      PROVE  SlotsFit'
  <2>1. Holding' = Holding
    BY <1>3 DEF TypeOK
  <2> QED
    BY <1>2, <1>3, <2>1
<1>4. CASE Tick \/ (\E c \in Callers : PlanStep(c) \/ ContextEnds(c)) \/ UNCHANGED vars
  <2>1. UNCHANGED <<holders, pc>>
    BY <1>4 DEF Tick, PlanStep, ContextEnds, vars
  <2> QED
    BY <2>1, <1>2
<1>5. ASSUME NEW c \in Callers, Start(c) PROVE SlotsFit'
  <2>1. UNCHANGED holders /\ pc[c] = "idle" /\ \E p \in {"started", "returned"} : pc' = [pc EXCEPT ![c] = p]
    BY <1>5 DEF Start, Moves
  <2> QED
    BY <2>1, <1>3
<1>6. ASSUME NEW c \in Callers, Lookup(c) PROVE SlotsFit'
  <2>1. UNCHANGED holders /\ pc[c] = "started" /\ \E p \in {"queueing", "returned"} : pc' = [pc EXCEPT ![c] = p]
    BY <1>6 DEF Lookup, Moves
  <2> QED
    BY <2>1, <1>3
<1>7. ASSUME NEW c \in Callers, TakeSlot(c) PROVE SlotsFit'
  <2>1. Cardinality(holders) < Slots /\ holders' = holders \cup {c} /\ pc' = [pc EXCEPT ![c] = "planning"]
    BY <1>7 DEF TakeSlot, Moves
  <2>2. holders' = Holding'
    BY <2>1, <1>1 DEF TypeOK
  <2>3. IsFiniteSet(holders') /\ Cardinality(holders') <= Slots
    BY <2>1, <1>1, RoomForOne
  <2> QED
    BY <2>2, <2>3 DEF SlotsFit, NoSlotLost
<1>8. ASSUME NEW c \in Callers, LeaveQueue(c) PROVE SlotsFit'
  BY <1>3, <1>8 DEF LeaveQueue, Moves
<1>9. ASSUME NEW c \in Callers, PlanFails(c) \/ Commit(c) PROVE SlotsFit'
  BY <1>3, <1>9 DEF PlanFails, Commit, Moves
<1>10. ASSUME NEW c \in Callers, Release(c) PROVE SlotsFit'
  <2>1. holders' = holders \ {c} /\ pc' = [pc EXCEPT ![c] = "returned"]
    BY <1>10 DEF Release, Released, Moves
  <2>2. holders' = Holding'
    BY <2>1, <1>1 DEF TypeOK
  <2>3. IsFiniteSet(holders') /\ Cardinality(holders') <= Cardinality(holders)
    BY <2>1, <1>1, FS_Subset
  <2>4. Cardinality(holders) \in Nat /\ Cardinality(holders') \in Nat
    BY <2>3, <1>1, FS_CardinalityType
  <2>5. Cardinality(holders') <= Slots
    BY <2>3, <2>4, <1>1, ServiceNumbers
  <2> QED
    BY <2>2, <2>3, <2>5 DEF SlotsFit, NoSlotLost
<1> QED
  BY <1>4, <1>5, <1>6, <1>7, <1>8, <1>9, <1>10 DEF Next, Step

\* No way out of an execution, not even a failed step or the end of its context,
\* keeps its slot, and there are never more holders than slots (service.go:171-182).
THEOREM SlotsComeBack == Spec => []NoSlotLost
<1>1. Init => SlotsFit
  <2> SUFFICES ASSUME Init PROVE SlotsFit
    OBVIOUS
  <2>1. holders = {c \in Callers : pc[c] \in {"planning", "releasing"}} /\ holders = {}
    BY DEF Init
  <2> QED
    BY <2>1, FS_EmptySet, ServiceNumbers DEF SlotsFit, NoSlotLost
<1>2. SlotsFit => NoSlotLost
  BY DEF SlotsFit
<1> QED
  BY <1>1, <1>2, SlotStep, TypeInit, TypeStep, PTL DEF Spec

-----------------------------------------------------------------------------
(* Replays and conflicts: the inductive invariant *)

Active(c) == pc[c] \in {"started", "queueing", "planning", "releasing"}

\* Nobody started in the future, and no execution outlasts its deadline.
RunsInTime ==
    \A c \in Callers :
        /\ started[c] <= now
        /\ Active(c) => now - started[c] <= MaxRun

\* There is no answer before the place that decides it.
Undecided ==
    \A c \in Callers : pc[c] \in {"idle", "started", "queueing", "planning"} => answer[c] = "none"

\* Entries are committed plans, under their own keys.
EntriesArePlans ==
    \A k \in Keys : cache[k] # NoCaller => answer[cache[k]] = "fresh" /\ req[cache[k]].key = k

\* The entry of the key of d has its payload, and is hardly older.
SpokenFor(d) ==
    LET e == cache[req[d].key]
    IN  e # NoCaller /\ req[e].hash = req[d].hash /\ started[e] >= started[d] - MaxRun

\* A plan is spoken for until its lifetime, less that delay, is over.
PlansAreKept ==
    \A d \in Planned :
        req[d].key \notin evicted => SpokenFor(d) \/ now >= started[d] + TTL - MaxRun

\* Who repeats a result repeats that of a caller.
RepeatsSomeone == \A c \in Callers : answer[c] = "reused" => source[c] \in Callers

IInv ==
    /\ TypeOK
    /\ RunsInTime
    /\ Undecided
    /\ EntriesArePlans
    /\ PlansAreKept
    /\ RepeatsSomeone
    /\ ReplaySound
    /\ ConflictWindow

\* The initial states satisfy it: nobody has an answer.
LEMMA InitIInv == Init => IInv
<1> SUFFICES ASSUME Init PROVE IInv
  OBVIOUS
<1>1. TypeOK
  BY TypeInit
<1>2. Planned = {}
  BY DEF Init, Planned
<1> QED
  BY <1>1, <1>2, ServiceNumbers
  DEF Init, IInv, RunsInTime, Active, Undecided, EntriesArePlans, PlansAreKept, RepeatsSomeone,
      ReplaySound, ConflictWindow

\* Entries are of callers with a plan.
LEMMA EntryOwners ==
    ASSUME IInv, NEW k \in Keys, cache[k] # NoCaller
    PROVE  cache[k] \in Planned /\ req[cache[k]].key = k
BY DEF IInv, TypeOK, EntriesArePlans, Planned

\* A step that leaves the cache alone, commits nothing and does not touch the
\* start of a planned call keeps what is known of plans and replays.
LEMMA QuietKeeps ==
    ASSUME IInv, TypeOK', UNCHANGED <<cache, req, evicted>>, now' >= now,
           Planned' = Planned, \A d \in Planned : started'[d] = started[d],
           \A d \in Callers : answer'[d] = "reused" =>
               \/ answer[d] = "reused" /\ source'[d] = source[d] /\ started'[d] = started[d]
               \/ /\ source'[d] \in Planned /\ req[source'[d]] = req[d]
                  /\ started'[d] - started[source'[d]] < TTL
    PROVE  EntriesArePlans' /\ PlansAreKept' /\ RepeatsSomeone' /\ ReplaySound' /\ ConflictWindow'
<1>1. EntriesArePlans'
  <2> SUFFICES ASSUME NEW k \in Keys, cache[k] # NoCaller
               PROVE  answer'[cache[k]] = "fresh" /\ req[cache[k]].key = k
    BY DEF EntriesArePlans
  <2>1. cache[k] \in Planned' /\ req[cache[k]].key = k
    BY EntryOwners
  <2> QED
    BY <2>1 DEF Planned
<1>2. PlansAreKept'
  <2> SUFFICES ASSUME NEW d \in Planned, req[d].key \notin evicted
               PROVE  SpokenFor(d)' \/ now' >= started[d] + TTL - MaxRun
    BY DEF PlansAreKept
  <2>1. req[d].key \in Keys /\ started[d] \in Nat /\ now \in Nat /\ now' \in Nat
    BY DEF IInv, TypeOK, RequestType, Planned
  <2>2. CASE SpokenFor(d)
    <3>1. cache[req[d].key] \in Planned
      BY <2>1, <2>2, EntryOwners DEF SpokenFor
    <3> QED
      BY <2>2, <3>1 DEF SpokenFor
  <2>3. CASE now >= started[d] + TTL - MaxRun
    BY <2>1, <2>3, ServiceNumbers
  <2> QED
    BY <2>2, <2>3 DEF IInv, PlansAreKept
<1>3. ASSUME NEW c \in Callers, answer'[c] = "reused"
      PROVE  /\ source'[c] \in Planned /\ req[source'[c]] = req[c]
             /\ started'[c] - started[source'[c]] < TTL
  <2>1. CASE answer[c] = "reused" /\ source'[c] = source[c] /\ started'[c] = started[c]
    BY <2>1 DEF IInv, RepeatsSomeone, ReplaySound, Planned
  <2> QED
    BY <1>3, <2>1
<1>4. RepeatsSomeone'
  BY <1>3 DEF RepeatsSomeone, Planned
<1>5. ReplaySound'
  <2> SUFFICES ASSUME NEW c \in Callers, answer'[c] = "reused"
               PROVE  /\ answer'[source'[c]] = "fresh" /\ req[source'[c]] = req[c]
                      /\ started'[c] - started'[source'[c]] < TTL
    BY DEF ReplaySound
  <2>1. source'[c] \in Planned /\ source'[c] \in Planned'
    BY <1>3
  <2> QED
    BY <1>3, <2>1 DEF Planned
<1>6. ConflictWindow'
  BY DEF IInv, ConflictWindow, Distinct
<1> QED
  BY <1>1, <1>2, <1>4, <1>5, <1>6

\* A step of c that decides no plan and no replay is of that kind.
LEMMA UnplannedKeeps ==
    ASSUME IInv, TypeOK', NEW c \in Callers,
           UNCHANGED <<cache, req, evicted, now, source>>,
           pc[c] \in {"idle", "started", "queueing", "planning"} \/ answer' = answer,
           \E a \in Errors \cup {"none"} : answer' = [answer EXCEPT ![c] = a] \/ answer' = answer,
           started' = started \/ (pc[c] = "idle" /\ started' = [started EXCEPT ![c] = now])
    PROVE  EntriesArePlans' /\ PlansAreKept' /\ RepeatsSomeone' /\ ReplaySound' /\ ConflictWindow'
<1>1. answer' # answer => answer[c] = "none" /\ answer'[c] \in Errors \cup {"none"}
                          /\ \A d \in Callers \ {c} : answer'[d] = answer[d]
  BY DEF IInv, TypeOK, Undecided
<1>2. Planned' = Planned
  BY <1>1 DEF Planned, Errors, IInv, TypeOK
<1>3. \A d \in Callers : answer[d] # "none" => started'[d] = started[d]
  BY DEF IInv, TypeOK, Undecided
<1>4. \A d \in Planned : started'[d] = started[d]
  BY <1>3 DEF Planned
<1>5. \A d \in Callers : answer'[d] = "reused" =>
          answer[d] = "reused" /\ source'[d] = source[d] /\ started'[d] = started[d]
  BY <1>1, <1>3 DEF Errors
<1>6. now' >= now
  BY DEF IInv, TypeOK
<1> QED
  BY <1>2, <1>4, <1>5, <1>6, QuietKeeps

\* A step of a caller keeps the times and the order of deciding, if it decides
\* as it leaves, and its place says that it is under way.
LEMMA PlaceKeeps ==
    ASSUME IInv, TypeOK', NEW c \in Callers, UNCHANGED now,
           NEW p, pc' = [pc EXCEPT ![c] = p],
           p \in {"queueing", "planning"} => UNCHANGED answer /\ answer[c] = "none",
           p \in {"started", "queueing", "planning", "releasing"} =>
               (Active(c) /\ UNCHANGED started) \/ started' = [started EXCEPT ![c] = now],
           p = "started" => UNCHANGED answer /\ answer[c] = "none",
           p # "idle",
           UNCHANGED started \/ started' = [started EXCEPT ![c] = now],
           \A d \in Callers \ {c} : answer'[d] = answer[d]
    PROVE  RunsInTime' /\ Undecided'
<1>1. \A d \in Callers \ {c} : pc'[d] = pc[d] /\ started'[d] = started[d]
  BY DEF IInv, TypeOK
<1>2. pc'[c] = p
  BY DEF IInv, TypeOK
<1>3. Undecided'
  BY <1>1, <1>2 DEF IInv, Undecided
<1>4. ASSUME NEW d \in Callers
      PROVE  started'[d] <= now /\ (Active(d)' => now - started'[d] <= MaxRun)
  <2>1. now \in Nat /\ started[d] \in Nat /\ MaxRun \in Nat
    BY ServiceNumbers DEF IInv, TypeOK
  <2>2. CASE d # c
    BY <1>1, <2>2 DEF IInv, RunsInTime, Active
  <2>3. CASE d = c /\ started' = [started EXCEPT ![c] = now]
    <3>1. started'[d] = now
      BY <2>3 DEF IInv, TypeOK
    <3> QED
      BY <3>1, <2>1
  <2>4. CASE d = c /\ UNCHANGED started /\ started' # [started EXCEPT ![c] = now]
    BY <1>2, <2>4 DEF IInv, RunsInTime, Active
  <2> QED
    BY <2>2, <2>3, <2>4
<1> QED
  BY <1>3, <1>4 DEF RunsInTime

\* The first critical section: what is replayed is in the cache.
LEMMA LookupKeeps ==
    ASSUME IInv, TypeOK', NEW c \in Callers, Lookup(c)
    PROVE  IInv'
<1> DEFINE e == Entry(c)
<1>1. pc[c] = "started" /\ answer[c] = "none" /\ Active(c) /\ req[c].key \in Keys
  BY DEF Lookup, Moves, IInv, TypeOK, RequestType, Undecided, Active
<1>2. UNCHANGED <<cache, holders, req, started, step, ctx, now, evicted>>
  BY DEF Lookup
<1>3. PICK p \in {"queueing", "returned"} :
         /\ pc' = [pc EXCEPT ![c] = p]
         /\ p = "queueing" => UNCHANGED answer
  BY DEF Lookup, Moves
<1>4. \A d \in Callers \ {c} : answer'[d] = answer[d] /\ source'[d] = source[d]
  BY DEF Lookup, Decides, IInv, TypeOK
<1>5. RunsInTime' /\ Undecided'
  BY <1>1, <1>2, <1>3, <1>4, PlaceKeeps
<1>6. answer'[c] # "fresh"
  BY <1>1 DEF Lookup, Decides, IInv, TypeOK
<1>7. Planned' = Planned
  BY <1>1, <1>4, <1>6 DEF Planned
<1>8. ASSUME answer'[c] = "reused"
      PROVE  source'[c] \in Planned /\ req[source'[c]] = req[c] /\ started[c] - started[source'[c]] < TTL
  <2>1. e # NoCaller /\ WithinTTL(c, e) /\ SamePayload(c, e) /\ source' = [source EXCEPT ![c] = e]
    BY <1>1, <1>8 DEF Lookup, Decides, IInv, TypeOK
  <2>2. e \in Planned /\ req[e].key = req[c].key
    BY <1>1, <2>1, EntryOwners DEF Entry
  <2>3. req[e] = req[c]
    <3>1. req[e] \in RequestType /\ req[c] \in RequestType
      BY <2>2 DEF IInv, TypeOK, Planned
    <3> QED
      BY <2>1, <2>2, <3>1 DEF SamePayload, RequestType
  <2> QED
    BY <2>1, <2>2, <2>3 DEF WithinTTL, IInv, TypeOK
<1>9. now' >= now /\ \A d \in Planned : started'[d] = started[d]
  BY <1>2 DEF IInv, TypeOK
<1>10. EntriesArePlans' /\ PlansAreKept' /\ RepeatsSomeone' /\ ReplaySound' /\ ConflictWindow'
  BY <1>2, <1>4, <1>7, <1>8, <1>9, QuietKeeps
<1> QED
  BY <1>5, <1>10 DEF IInv

-----------------------------------------------------------------------------
(* The second critical section *)

\* Under one key, a plan committed against the earlier plan d of another
\* payload started long after it.
LEMMA CommitsApart ==
    ASSUME IInv, NEW c \in Callers, Commit(c), ~Collides(c),
           NEW d \in Planned, Distinct(c, d), req[d].key \notin evicted
    PROVE  started[c] >= started[d] + TTL - 2 * MaxRun /\ now >= started[d] + TTL - MaxRun
<1>1. /\ now \in Nat /\ started[c] \in Nat /\ d \in Callers /\ started[d] \in Nat
      /\ MaxRun \in Nat /\ TTL \in Nat /\ req[d].key \in Keys /\ req[d].key = req[c].key
  BY ServiceNumbers DEF IInv, TypeOK, RequestType, Planned, Distinct
<1>2. started[c] <= now /\ now - started[c] <= MaxRun
  BY DEF Commit, Moves, IInv, RunsInTime, Active
<1>3. CASE SpokenFor(d)
  <2> DEFINE e == cache[req[d].key]
  <2>1. e \in Planned /\ req[e].hash = req[d].hash /\ started[e] >= started[d] - MaxRun
    BY <1>1, <1>3, EntryOwners DEF SpokenFor
  <2>2. started[e] \in Nat
    BY <2>1 DEF IInv, TypeOK, Planned
  <2>3. ~SamePayload(c, e)
    BY <2>1 DEF SamePayload, Distinct
  <2>4. ~WithinTTL(c, e)
    BY <1>1, <1>3, <2>3 DEF Collides, Entry, SpokenFor
  <2> QED
    BY <1>1, <1>2, <2>1, <2>2, <2>4 DEF WithinTTL
<1>4. CASE now >= started[d] + TTL - MaxRun
  BY <1>1, <1>2, <1>4
<1> QED
  BY <1>3, <1>4 DEF IInv, PlansAreKept

\* A commit, or a conflict found at the commit, keeps the invariant.
LEMMA CommitKeeps ==
    ASSUME IInv, CacheFits, TypeOK', NEW c \in Callers, Commit(c)
    PROVE  IInv'
<1>1. /\ pc[c] = "planning" /\ answer[c] = "none" /\ Active(c) /\ req[c].key \in Keys
      /\ pc' = [pc EXCEPT ![c] = "releasing"]
  BY DEF Commit, Moves, IInv, TypeOK, RequestType, Undecided, Active
<1>2. UNCHANGED <<req, started, source, now>>
  BY DEF Commit
<1>3. \A d \in Callers \ {c} : answer'[d] = answer[d]
  BY DEF Commit, Decides, IInv, TypeOK
<1>4. RunsInTime' /\ Undecided'
  BY <1>1, <1>2, <1>3, PlaceKeeps
<1>5. CASE Collides(c)
  <2>1. UNCHANGED <<cache, evicted>> /\ answer' = [answer EXCEPT ![c] = "conflict"]
    BY <1>5 DEF Commit, Decides
  <2>2. EntriesArePlans' /\ PlansAreKept' /\ RepeatsSomeone' /\ ReplaySound' /\ ConflictWindow'
    BY <1>1, <1>2, <2>1, UnplannedKeeps DEF Errors
  <2> QED
    BY <1>4, <2>2 DEF IInv
<1>6. CASE ~Collides(c)
  <2>1. answer' = [answer EXCEPT ![c] = "fresh"]
    BY <1>6 DEF Commit, Decides
  <2>2. Planned' = Planned \cup {c}
    BY <2>1 DEF Planned, IInv, TypeOK
  <2>3. /\ cache' \in CacheType /\ cache'[req[c].key] = c
        /\ \A k \in Keys \ {req[c].key} : cache'[k] \in {Swept(c)[k], NoCaller}
        /\ evicted' = evicted \cup (Used(Swept(c)) \ Used(cache'))
    BY <1>6, CommittedCache DEF IInv, CacheFits, CacheBound
  <2>4. \A k \in Keys \ {req[c].key} : cache'[k] \in {cache[k], NoCaller}
    BY <2>3, SweepDropsTheOld DEF IInv
  <2>5. EntriesArePlans'
    <3> SUFFICES ASSUME NEW k \in Keys, cache'[k] # NoCaller
                 PROVE  answer'[cache'[k]] = "fresh" /\ req[cache'[k]].key = k
      BY <1>2 DEF EntriesArePlans
    <3>1. CASE k = req[c].key
      BY <3>1, <2>1, <2>3 DEF IInv, TypeOK
    <3>2. CASE k # req[c].key
      <4>1. cache'[k] \in Planned /\ req[cache'[k]].key = k
        BY <3>2, <2>4, EntryOwners
      <4> QED
        BY <4>1, <2>2 DEF Planned
    <3> QED
      BY <3>1, <3>2
  <2>6. PlansAreKept'
    <3> SUFFICES ASSUME NEW d \in Planned', req[d].key \notin evicted'
                 PROVE  SpokenFor(d)' \/ now >= started[d] + TTL - MaxRun
      BY <1>2 DEF PlansAreKept
    <3> DEFINE k == req[d].key
               e == cache[k]
    <3>1. /\ d \in Callers /\ k \in Keys /\ k \notin evicted
          /\ now \in Nat /\ started[d] \in Nat /\ started[c] \in Nat /\ MaxRun \in Nat /\ TTL \in Nat
          /\ started[d] <= now /\ started[c] <= now /\ now - started[c] <= MaxRun
      BY <1>1, <2>2, <2>3, ServiceNumbers DEF IInv, TypeOK, RequestType, Planned, RunsInTime
    <3>2. CASE k = req[c].key /\ req[d].hash = req[c].hash
      <4>1. started[c] >= started[d] - MaxRun
        BY <3>1
      <4> QED
        BY <4>1, <3>2, <2>3, <1>2, NoCallerAssumption DEF SpokenFor
    <3>3. CASE k = req[c].key /\ req[d].hash # req[c].hash
      <4>1. d \in Planned /\ Distinct(c, d)
        BY <3>3, <2>2 DEF Distinct
      <4> QED
        BY <4>1, <3>1, <1>6, CommitsApart
    <3>4. CASE k # req[c].key
      <4>1. d \in Planned
        BY <3>4, <2>2
      <4>2. CASE SpokenFor(d)
        <5>1. e \in Planned /\ started[e] \in Nat /\ started[e] >= started[d] - MaxRun
              /\ e # NoCaller /\ req[e].hash = req[d].hash
          BY <3>1, <4>2, EntryOwners DEF SpokenFor, Planned, IInv, TypeOK
        <5>2. CASE Swept(c)[k] = e
          <6>1. cache'[k] = e
            BY <5>1, <5>2, <3>1, <3>4, <2>3 DEF Used
          <6> QED
            BY <6>1, <5>1, <1>2 DEF SpokenFor
        <5>3. CASE ~WithinTTL(c, e)
          <6>1. started[c] - started[e] >= TTL
            BY <5>1, <5>3, <3>1 DEF WithinTTL
          <6> QED
            BY <6>1, <5>1, <3>1
        <5> QED
          BY <5>2, <5>3, <3>1, SweepDropsTheOld DEF IInv
      <4> QED
        BY <4>1, <4>2, <3>1 DEF IInv, PlansAreKept
    <3> QED
      BY <3>2, <3>3, <3>4
  <2>7. \A d \in Callers : answer'[d] = "reused" => answer[d] = "reused"
    BY <1>3, <2>1 DEF IInv, TypeOK
  <2>8. RepeatsSomeone' /\ ReplaySound'
    <3> SUFFICES ASSUME NEW d \in Callers, answer[d] = "reused"
                 PROVE  /\ source[d] \in Callers /\ answer'[source[d]] = "fresh"
                        /\ req[source[d]] = req[d] /\ started[d] - started[source[d]] < TTL
      BY <1>2, <2>7 DEF RepeatsSomeone, ReplaySound
    <3>1. source[d] \in Planned
      BY DEF IInv, RepeatsSomeone, ReplaySound, Planned
    <3> QED
      BY <3>1, <2>2 DEF IInv, ReplaySound, Planned
  <2>9. ConflictWindow'
    <3> SUFFICES ASSUME NEW a \in Planned', NEW b \in Planned', Distinct(a, b), req[a].key \notin evicted'
                 PROVE  \/ started[a] - started[b] >= TTL - 2 * MaxRun
                        \/ started[b] - started[a] >= TTL - 2 * MaxRun
      BY <1>2 DEF ConflictWindow, Distinct
    <3>1. /\ a \in Callers /\ b \in Callers /\ started[a] \in Nat /\ started[b] \in Nat
          /\ TTL \in Nat /\ MaxRun \in Nat /\ req[a].key \notin evicted /\ req[b].key \notin evicted
      BY <2>3, ServiceNumbers DEF Planned, IInv, TypeOK, Distinct
    <3>2. CASE a \in Planned /\ b \in Planned
      BY <3>1, <3>2 DEF IInv, ConflictWindow
    <3>3. CASE a = c /\ b \in Planned
      <4>1. started[a] >= started[b] + TTL - 2 * MaxRun
        BY <3>1, <3>3, <1>6, CommitsApart
      <4> QED
        BY <4>1, <3>1
    <3>4. CASE b = c /\ a \in Planned
      <4>1. started[b] >= started[a] + TTL - 2 * MaxRun
        BY <3>1, <3>4, <1>6, CommitsApart DEF Distinct
      <4> QED
        BY <4>1, <3>1
    <3>5. a # c \/ b # c
      BY DEF Distinct
    <3> QED
      BY <3>2, <3>3, <3>4, <3>5, <2>2
  <2> QED
    BY <1>4, <2>5, <2>6, <2>8, <2>9 DEF IInv
<1> QED
  BY <1>5, <1>6

-----------------------------------------------------------------------------
(* Every step *)

\* Time passes only while nobody is at the end of its own.
LEMMA TickKeeps == ASSUME IInv, TypeOK', Tick PROVE IInv'
<1>1. now' = now + 1 /\ UNCHANGED <<cache, holders, pc, req, started, step, ctx, answer, source, evicted>>
  BY DEF Tick
<1>2. now \in Nat /\ MaxRun \in Nat
  BY ServiceNumbers DEF IInv, TypeOK
<1>3. RunsInTime'
  <2> SUFFICES ASSUME NEW c \in Callers
               PROVE  started[c] <= now' /\ (Active(c) => now' - started[c] <= MaxRun)
    BY <1>1 DEF RunsInTime, Active
  <2>1. started[c] \in Nat /\ started[c] <= now
    BY DEF IInv, TypeOK, RunsInTime
  <2>2. Active(c) => now - started[c] < MaxRun
    BY DEF Tick, Active
  <2> QED
    BY <2>1, <2>2, <1>1, <1>2
<1>4. Undecided'
  BY <1>1 DEF IInv, Undecided
<1>5. Planned' = Planned /\ now' >= now
  BY <1>1, <1>2 DEF Planned
<1>6. \A d \in Callers : answer'[d] = "reused" =>
          answer[d] = "reused" /\ source'[d] = source[d] /\ started'[d] = started[d]
  BY <1>1
<1>7. \A d \in Planned : started'[d] = started[d]
  BY <1>1
<1>8. EntriesArePlans' /\ PlansAreKept' /\ RepeatsSomeone' /\ ReplaySound' /\ ConflictWindow'
  BY <1>1, <1>5, <1>6, <1>7, QuietKeeps
<1> QED
  BY <1>3, <1>4, <1>8 DEF IInv

\* Every step keeps the invariant.
LEMMA StepKeeps == IInv /\ CacheFits /\ [Next]_vars => IInv'
<1> SUFFICES ASSUME IInv, CacheFits, [Next]_vars PROVE IInv'
  OBVIOUS
<1>1. TypeOK'
  BY TypeStep DEF IInv
<1>2. ASSUME NEW c \in Callers, Start(c) PROVE IInv'
  <2>1. pc[c] = "idle" /\ answer[c] = "none"
    BY <1>2 DEF Start, Moves, IInv, Undecided
  <2>2. UNCHANGED <<cache, req, evicted, now, source>> /\ started' = [started EXCEPT ![c] = now]
    BY <1>2 DEF Start
  <2>3. \/ pc' = [pc EXCEPT ![c] = "started"] /\ UNCHANGED answer
        \/ pc' = [pc EXCEPT ![c] = "returned"] /\ answer' = [answer EXCEPT ![c] = "failed"]
    BY <1>2 DEF Start, Moves, Decides
  <2>4. \A d \in Callers \ {c} : answer'[d] = answer[d]
    BY <2>3 DEF IInv, TypeOK
  <2>5. RunsInTime' /\ Undecided'
    BY <1>1, <2>1, <2>2, <2>3, <2>4, PlaceKeeps
  <2> QED
    BY <1>1, <2>1, <2>2, <2>3, <2>5, UnplannedKeeps DEF IInv, Errors
<1>3. ASSUME NEW c \in Callers, TakeSlot(c) PROVE IInv'
  <2>1. /\ pc[c] = "queueing" /\ answer[c] = "none" /\ Active(c) /\ pc' = [pc EXCEPT ![c] = "planning"]
        /\ UNCHANGED <<cache, req, evicted, now, source, started, answer>>
    BY <1>3 DEF TakeSlot, Moves, IInv, Undecided, Active
  <2>2. RunsInTime' /\ Undecided'
    BY <1>1, <2>1, PlaceKeeps
  <2> QED
    BY <1>1, <2>1, <2>2, UnplannedKeeps DEF IInv
<1>4. ASSUME NEW c \in Callers, LeaveQueue(c) PROVE IInv'
  <2>1. /\ pc[c] = "queueing" /\ answer' = [answer EXCEPT ![c] = "context"]
        /\ pc' = [pc EXCEPT ![c] = "returned"]
        /\ UNCHANGED <<cache, req, evicted, now, source, started>>
    BY <1>4 DEF LeaveQueue, Moves, Decides
  <2>2. \A d \in Callers \ {c} : answer'[d] = answer[d]
    BY <2>1 DEF IInv, TypeOK
  <2>3. RunsInTime' /\ Undecided'
    BY <1>1, <2>1, <2>2, PlaceKeeps
  <2> QED
    BY <1>1, <2>1, <2>3, UnplannedKeeps DEF IInv, Errors
<1>5. ASSUME NEW c \in Callers, PlanStep(c) \/ ContextEnds(c) \/ UNCHANGED vars PROVE IInv'
  <2>1. UNCHANGED <<cache, pc, req, started, answer, source, now, evicted>>
    BY <1>5 DEF PlanStep, ContextEnds, vars
  <2>2. RunsInTime' /\ Undecided'
    BY <2>1 DEF IInv, RunsInTime, Undecided, Active
  <2> QED
    BY <1>1, <2>1, <2>2, UnplannedKeeps DEF IInv
<1>6. ASSUME NEW c \in Callers, PlanFails(c) PROVE IInv'
  <2>1. /\ pc[c] = "planning" /\ Active(c) /\ pc' = [pc EXCEPT ![c] = "releasing"]
        /\ \E a \in Errors : answer' = [answer EXCEPT ![c] = a]
        /\ UNCHANGED <<cache, req, evicted, now, source, started>>
    BY <1>6 DEF PlanFails, Moves, Decides, Active, Errors
  <2>2. \A d \in Callers \ {c} : answer'[d] = answer[d]
    BY <2>1 DEF IInv, TypeOK
  <2>3. RunsInTime' /\ Undecided'
    BY <1>1, <2>1, <2>2, PlaceKeeps
  <2> QED
    BY <1>1, <2>1, <2>3, UnplannedKeeps DEF IInv
<1>7. ASSUME NEW c \in Callers, Release(c) PROVE IInv'
  <2>1. /\ pc' = [pc EXCEPT ![c] = "returned"]
        /\ UNCHANGED <<cache, req, evicted, now, source, started, answer>>
    BY <1>7 DEF Release, Moves
  <2>2. RunsInTime' /\ Undecided'
    BY <1>1, <2>1, PlaceKeeps
  <2> QED
    BY <1>1, <2>1, <2>2, UnplannedKeeps DEF IInv
<1>8. CASE UNCHANGED vars
  BY <1>1, <1>8
  DEF vars, IInv, RunsInTime, Undecided, Active, EntriesArePlans, PlansAreKept, SpokenFor, Planned,
      RepeatsSomeone, ReplaySound, ConflictWindow, Distinct
<1> QED
  BY <1>1, <1>2, <1>3, <1>4, <1>5, <1>6, <1>7, <1>8, TickKeeps, LookupKeeps, CommitKeeps
  DEF Next, Step

\* The invariant holds of the service.
LEMMA Inductive == Spec => []IInv
BY InitIInv, StepKeeps, TypeInit, TypeStep, PTL DEF Spec

\* A replayed answer is a committed plan of the same key and the same request,
\* started less than its lifetime before (service.go:156-166).
THEOREM OnlyCommittedPlansAreReplayed == Spec => []ReplaySound
<1>1. IInv => ReplaySound
  BY DEF IInv
<1> QED
  BY <1>1, Inductive, PTL

\* As long as no entry of theirs had to make room, two different requests under
\* one key get a plan only if they started the lifetime of an entry apart, less
\* twice the longest execution (service.go:137, 201-219).
THEOREM ConflictsAreFound == Spec => []ConflictWindow
<1>1. IInv => ConflictWindow
  BY DEF IInv
<1> QED
  BY <1>1, Inductive, PTL
=============================================================================
