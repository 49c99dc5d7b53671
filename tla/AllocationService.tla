-------------------------- MODULE AllocationService --------------------------
(***************************************************************************)
(* internal/allocation/service.go: Service.Execute, called by many request *)
(* goroutines: the idempotency cache under mu, the slots, the steps of an  *)
(* execution with a context check before each, and the commit.  The plan   *)
(* itself is a function of the request (module AllocationPlan); here it is *)
(* named by the caller that computed it, and so is its cache entry, whose  *)
(* hash is the payload and whose `at' the start of that caller.            *)
(*                                                                         *)
(* started is read before the cache is, and the whole execution lies       *)
(* between the lookup and the commit, so entries are compared with clocks  *)
(* of different ages.                                                      *)
(***************************************************************************)
EXTENDS Integers, FiniteSets

CONSTANTS
    Callers, Keys, Hashes, NoCaller,
    Slots,          \* 4
    Capacity,       \* 256 entries
    TTL,            \* 5 minutes
    MaxAge,         \* 60 seconds: age of a snapshot
    Skew,           \* 5 seconds: a snapshot may be this much ahead
    Steps,          \* 6 steps of an execution
    MaxRun,         \* 30 seconds: time from start to commit
    SnapshotAt(_),  \* the snapshot time of a payload
    MaxNow          \* bound of the clock, for TLC

ASSUME NoCallerAssumption == NoCaller \notin Callers
ASSUME ServiceNumbers ==
    /\ Slots \in Nat \ {0} /\ Capacity \in Nat \ {0} /\ Steps \in Nat
    /\ TTL \in Nat /\ MaxAge \in Nat /\ Skew \in Nat /\ MaxRun \in Nat /\ MaxNow \in Nat
    /\ \A h \in Hashes : SnapshotAt(h) \in Nat

VARIABLES
    cache,    \* key -> caller whose result it holds, or NoCaller
    holders,  \* callers holding a slot
    pc,       \* caller -> idle, started, queueing, planning, releasing, returned
    req,      \* caller -> key and payload hash of its request
    started,  \* caller -> clock at the start of Execute
    step,     \* caller -> steps done
    ctx,      \* caller -> "live" or "ended"
    answer,   \* caller -> what Execute returns, "none" before it is decided
    source,   \* caller -> whose result a reused answer repeats
    now,
    evicted   \* ghost: keys whose entry made room for one of another key

vars == <<cache, holders, pc, req, started, step, ctx, answer, source, now, evicted>>

Errors == {"conflict", "stale", "context", "failed"}
RequestType == [key: Keys, hash: Hashes]

TypeOK ==
    /\ cache \in [Keys -> Callers \cup {NoCaller}]
    /\ holders \subseteq Callers
    /\ pc \in [Callers -> {"idle", "started", "queueing", "planning", "releasing", "returned"}]
    /\ req \in [Callers -> RequestType]
    /\ started \in [Callers -> Nat]
    /\ step \in [Callers -> 0..Steps]
    /\ ctx \in [Callers -> {"live", "ended"}]
    /\ answer \in [Callers -> Errors \cup {"none", "fresh", "reused"}]
    /\ source \in [Callers -> Callers \cup {NoCaller}]
    /\ now \in Nat
    /\ evicted \subseteq Keys

Init ==
    /\ cache = [k \in Keys |-> NoCaller]
    /\ holders = {}
    /\ pc = [c \in Callers |-> "idle"]
    /\ req \in [Callers -> RequestType]
    /\ started = [c \in Callers |-> 0]
    /\ step = [c \in Callers |-> 0]
    /\ ctx = [c \in Callers |-> "live"]
    /\ answer = [c \in Callers |-> "none"]
    /\ source = [c \in Callers |-> NoCaller]
    /\ now = 0
    /\ evicted = {}

-----------------------------------------------------------------------------

TakenAt(c) == SnapshotAt(req[c].hash)

Moves(c, from, to) == pc[c] = from /\ pc' = [pc EXCEPT ![c] = to]
Decides(c, a) == answer' = [answer EXCEPT ![c] = a]

Entry(c) == cache[req[c].key]

\* Mutant: a cached entry never ages.
WithinTTLAlways(c, d) == TRUE

\* c started less than five minutes after the start recorded in d's entry.
WithinTTL(c, d) == started[c] - started[d] < TTL

SamePayload(c, d) == req[c].hash = req[d].hash

Stale(c) == started[c] - TakenAt(c) > MaxAge \/ TakenAt(c) > started[c] + Skew

\* The clock is read; an envelope, pin or hash that is not right ends here.
Start(c) ==
    /\ \/ Moves(c, "idle", "started") /\ UNCHANGED answer
       \/ Moves(c, "idle", "returned") /\ Decides(c, "failed")
    /\ started' = [started EXCEPT ![c] = now]
    /\ UNCHANGED <<cache, holders, req, step, ctx, source, now, evicted>>

\* The first critical section, and the checks of its result.
Lookup(c) ==
    /\ LET hit == Entry(c) # NoCaller /\ WithinTTL(c, Entry(c))
       IN  \/ /\ hit /\ SamePayload(c, Entry(c))
              /\ Moves(c, "started", "returned")
              /\ Decides(c, "reused")
              /\ source' = [source EXCEPT ![c] = Entry(c)]
           \/ /\ hit /\ ~SamePayload(c, Entry(c))
              /\ Moves(c, "started", "returned")
              /\ Decides(c, "conflict")
              /\ UNCHANGED source
           \/ /\ ~hit /\ Stale(c)
              /\ Moves(c, "started", "returned")
              /\ Decides(c, "stale")
              /\ UNCHANGED source
           \/ /\ ~hit /\ ~Stale(c)  \* too few tool calls for six steps
              /\ Moves(c, "started", "returned")
              /\ Decides(c, "failed")
              /\ UNCHANGED source
           \/ /\ ~hit /\ ~Stale(c)
              /\ Moves(c, "started", "queueing")
              /\ UNCHANGED <<answer, source>>
    /\ UNCHANGED <<cache, holders, req, started, step, ctx, now, evicted>>

\* The select between a free slot and the end of the context.
TakeSlot(c) ==
    /\ Cardinality(holders) < Slots
    /\ Moves(c, "queueing", "planning")
    /\ holders' = holders \cup {c}
    /\ UNCHANGED <<cache, req, started, step, ctx, answer, source, now, evicted>>

\* Mutant: the wait for a slot does not watch the context.
LeaveQueueNever(c) == FALSE

LeaveQueue(c) ==
    /\ ctx[c] = "ended"
    /\ Moves(c, "queueing", "returned")
    /\ Decides(c, "context")
    /\ UNCHANGED <<cache, holders, req, started, step, ctx, source, now, evicted>>

StepsRemain(c) == step[c] < Steps

PlanStep(c) ==
    /\ pc[c] = "planning" /\ StepsRemain(c)
    /\ ctx[c] = "live"
    /\ step' = [step EXCEPT ![c] = @ + 1]
    /\ UNCHANGED <<cache, holders, pc, req, started, ctx, answer, source, now, evicted>>

\* The context check before a step, a step or the response schema fails.
PlanFails(c) ==
    /\ Moves(c, "planning", "releasing")
    /\ \/ ctx[c] = "ended" /\ StepsRemain(c) /\ Decides(c, "context")
       \/ Decides(c, "failed")
    /\ UNCHANGED <<cache, holders, req, started, step, ctx, source, now, evicted>>

Swept(c) ==
    [k \in Keys |-> IF cache[k] # NoCaller /\ ~WithinTTL(c, cache[k]) THEN NoCaller ELSE cache[k]]

Used(map) == {k \in Keys : map[k] # NoCaller}

\* Mutant: the limit is checked after it is passed.
EvictionsLate(map) ==
    IF Cardinality(Used(map)) <= Capacity
    THEN {map}
    ELSE {[map EXCEPT ![k] = NoCaller] : k \in Used(map)}

\* At the limit one of the entries with the oldest start makes room.
Evictions(map) ==
    IF Cardinality(Used(map)) < Capacity
    THEN {map}
    ELSE {[map EXCEPT ![k] = NoCaller] :
            k \in {j \in Used(map) : \A i \in Used(map) : started[map[j]] <= started[map[i]]}}

\* Mutant: the commit does not look again.
CollidesNever(c) == FALSE

\* Another payload of this key was committed meanwhile.
Collides(c) == Entry(c) # NoCaller /\ WithinTTL(c, Entry(c)) /\ ~SamePayload(c, Entry(c))

\* The second critical section.
Commit(c) ==
    /\ step[c] = Steps
    /\ Moves(c, "planning", "releasing")
    /\ \/ /\ Collides(c)
          /\ Decides(c, "conflict")
          /\ UNCHANGED <<cache, evicted>>
       \/ /\ ~Collides(c)
          /\ \E map \in Evictions(Swept(c)) :
                /\ cache' = [map EXCEPT ![req[c].key] = c]
                /\ evicted' = evicted \cup (Used(Swept(c)) \ Used(cache'))
          /\ Decides(c, "fresh")
    /\ UNCHANGED <<holders, req, started, step, ctx, source, now>>

\* Mutant: only a successful execution gives its slot back.
ReleasedOnSuccess(c) == IF answer[c] = "fresh" THEN holders \ {c} ELSE holders

\* The deferred release runs on every way out.
Released(c) == holders \ {c}

Release(c) ==
    /\ Moves(c, "releasing", "returned")
    /\ holders' = Released(c)
    /\ UNCHANGED <<cache, req, started, step, ctx, answer, source, now, evicted>>

\* The client disconnects or the execution's own deadline passes.
ContextEnds(c) ==
    /\ pc[c] \in {"started", "queueing", "planning"}
    /\ ctx[c] = "live"
    /\ ctx' = [ctx EXCEPT ![c] = "ended"]
    /\ UNCHANGED <<cache, holders, pc, req, started, step, answer, source, now, evicted>>

\* Its deadline keeps an execution from lasting longer than MaxRun.
Tick ==
    /\ now < MaxNow
    /\ \A c \in Callers : pc[c] \notin {"idle", "returned"} => now - started[c] < MaxRun
    /\ now' = now + 1
    /\ UNCHANGED <<cache, holders, pc, req, started, step, ctx, answer, source, evicted>>

Step(c) ==
    \/ Start(c) \/ Lookup(c) \/ TakeSlot(c) \/ LeaveQueue(c)
    \/ PlanStep(c) \/ PlanFails(c) \/ Commit(c) \/ Release(c)

Next == Tick \/ \E c \in Callers : Step(c) \/ ContextEnds(c)

Spec == Init /\ [][Next]_vars

\* A call that began goes on, and its context ends at the latest with the
\* deadline of the request budget.  Nobody is obliged to call.
FairSpec ==
    /\ Spec
    /\ \A c \in Callers :
          /\ WF_vars(Lookup(c)) /\ WF_vars(LeaveQueue(c)) /\ WF_vars(PlanStep(c))
          /\ WF_vars(PlanFails(c) \/ Commit(c)) /\ WF_vars(Release(c))
          /\ WF_vars(pc[c] = "queueing" /\ ContextEnds(c))

-----------------------------------------------------------------------------
(* Properties *)

\* A slot is held exactly by the executions between taking and giving it back:
\* no way out keeps it, so the service never runs out of slots (171-182).
NoSlotLost ==
    /\ holders = {c \in Callers : pc[c] \in {"planning", "releasing"}}
    /\ Cardinality(holders) <= Slots

\* A reused answer repeats a committed result of the same key and the same
\* request that started less than five minutes before (156-166).
ReplaySound ==
    \A c \in Callers :
        answer[c] = "reused" =>
            /\ answer[source[c]] = "fresh"
            /\ req[source[c]] = req[c]
            /\ started[c] - started[source[c]] < TTL

\* The cache never exceeds its capacity (209-219).
CacheBound == Cardinality(Used(cache)) <= Capacity

\* Two different requests under one key both get a plan only if they started
\* TTL apart, less twice the time an execution may take from its start to its
\* commit: entries carry the start of their execution, which a repetition of the
\* request may even set back, and a sweep serves lookups that began before it.
\* That holds of the keys whose entry never made room for another one; it may
\* have to as soon as the cache is full, even for a key that is in it (201-219).
Distinct(c, d) == req[c].key = req[d].key /\ req[c].hash # req[d].hash
Planned == {c \in Callers : answer[c] = "fresh"}
ConflictWindow ==
    \A c, d \in Planned :
        Distinct(c, d) /\ req[c].key \notin evicted =>
            \/ started[c] - started[d] >= TTL - 2 * MaxRun
            \/ started[d] - started[c] >= TTL - 2 * MaxRun

\* README.md:77 promises an idempotency cache of five minutes ("256 entries /
\* 5 minutes"): two different requests under one key that both get a plan
\* started at least five minutes apart.
FiveMinuteWindow ==
    \A c, d \in Callers :
        answer[c] = "fresh" /\ answer[d] = "fresh" /\ Distinct(c, d) =>
            started[c] - started[d] >= TTL \/ started[d] - started[c] >= TTL

\* Every call that started returns, when slots are full too (171-181).
EveryCallReturns == \A c \in Callers : pc[c] = "started" ~> pc[c] = "returned"
=============================================================================
