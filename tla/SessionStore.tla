---------------------------- MODULE SessionStore ----------------------------
(***************************************************************************)
(* internal/session/store.go: Store.Execute, the single flight and memo of *)
(* analysis tasks by idempotency key.                                      *)
(*                                                                         *)
(* A caller is one call of Execute; a client that retries is a further     *)
(* caller.  An entry of the map is named by the caller that created it     *)
(* (its leader): other callers keep a pointer to the entry after the map   *)
(* has dropped it.  Everything between Lock and Unlock is one step; the    *)
(* run itself, and the wait for it, are not under the lock.                *)
(***************************************************************************)
EXTENDS Integers, FiniteSets

CONSTANTS
    Callers, Keys, Hashes,
    NoCaller,        \* no entry, or no entry waited for
    Capacity,        \* 1000 entries
    TTL,             \* one hour
    MaxNow           \* bound of the clock, for TLC

ASSUME NoCallerAssumption == NoCaller \notin Callers
ASSUME StoreNumbers == Capacity \in Nat /\ TTL \in Nat /\ MaxNow \in Nat

VARIABLES
    entries,   \* key -> leader of its entry, or NoCaller
    pc,        \* caller -> "idle", "running", "waiting" or "returned"
    req,       \* caller -> its idempotency key and payload hash
    ctx,       \* caller -> "live" or "ended"
    created,   \* leader -> when its entry was created
    outcome,   \* leader -> result of its run, "none" while done is open
    waitsFor,  \* follower -> leader of the entry it waits for
    answer,    \* caller -> what Execute returned, "none" before
    now

vars == <<entries, pc, req, ctx, created, outcome, waitsFor, answer, now>>

\* runTask turns every error into a FAILED result; only a panic is an error.
Outcomes == {"DONE", "FAILED", "CANCELLED", "PANIC"}
Refusals == {"conflict", "capacity"}

TypeOK ==
    /\ entries \in [Keys -> Callers \cup {NoCaller}]
    /\ pc \in [Callers -> {"idle", "running", "waiting", "returned"}]
    /\ req \in [Callers -> [key: Keys, hash: Hashes]]
    /\ ctx \in [Callers -> {"live", "ended"}]
    /\ created \in [Callers -> Nat]
    /\ outcome \in [Callers -> Outcomes \cup {"none"}]
    /\ waitsFor \in [Callers -> Callers \cup {NoCaller}]
    /\ answer \in [Callers -> Outcomes \cup Refusals \cup {"none", "context"}]
    /\ now \in Nat
    /\ \A c \in Callers : answer[c] = "none" <=> pc[c] # "returned"
    /\ \A c \in Callers : pc[c] = "waiting" => waitsFor[c] # NoCaller

Init ==
    /\ entries = [k \in Keys |-> NoCaller]
    /\ pc = [c \in Callers |-> "idle"]
    /\ req \in [Callers -> [key: Keys, hash: Hashes]]
    /\ ctx = [c \in Callers |-> "live"]
    /\ created = [c \in Callers |-> 0]
    /\ outcome = [c \in Callers |-> "none"]
    /\ waitsFor = [c \in Callers |-> NoCaller]
    /\ answer = [c \in Callers |-> "none"]
    /\ now = 0

-----------------------------------------------------------------------------

Leads(c) == pc[c] = "running" \/ outcome[c] # "none"

\* e.done is closed.
Closed(c) == outcome[c] # "none"

\* Mutant: entries make room for new ones, whatever their age and state.
ExpiredToMakeRoom(c) == TRUE

\* Mutant: every finished entry is dropped.
ExpiredWhenDone(c) == Closed(c)

\* The entries the sweep drops: older than an hour and finished.
Expired(c) == now - created[c] > TTL /\ Closed(c)

Swept == [k \in Keys |-> IF entries[k] # NoCaller /\ Expired(entries[k]) THEN NoCaller ELSE entries[k]]

Size(map) == Cardinality({k \in Keys : map[k] # NoCaller})

\* Mutant: one entry too many.
FullLate(map) == Size(map) > Capacity

Full(map) == Size(map) >= Capacity

Answer(c, a) ==
    /\ pc' = [pc EXCEPT ![c] = "returned"]
    /\ answer' = [answer EXCEPT ![c] = a]

\* Mutant: the payload is not compared.
ConflictsNever(c) == FALSE

Conflicts(c) == req[entries[req[c].key]].hash # req[c].hash

\* The key has an entry, of whatever age.
Hit(c) ==
    /\ pc[c] = "idle"
    /\ entries[req[c].key] # NoCaller
    /\ \/ Conflicts(c) /\ Answer(c, "conflict") /\ UNCHANGED waitsFor
       \/ /\ ~Conflicts(c)
          /\ pc' = [pc EXCEPT ![c] = "waiting"]
          /\ waitsFor' = [waitsFor EXCEPT ![c] = entries[req[c].key]]
          /\ UNCHANGED answer
    /\ UNCHANGED <<entries, req, ctx, created, outcome, now>>

\* The key has none: sweep, then create an entry or refuse.
Miss(c) ==
    /\ pc[c] = "idle"
    /\ entries[req[c].key] = NoCaller
    /\ \/ /\ Full(Swept)
          /\ entries' = Swept
          /\ Answer(c, "capacity")
          /\ UNCHANGED created
       \/ /\ ~Full(Swept)
          /\ entries' = [Swept EXCEPT ![req[c].key] = c]
          /\ created' = [created EXCEPT ![c] = now]
          /\ pc' = [pc EXCEPT ![c] = "running"]
          /\ UNCHANGED answer
    /\ UNCHANGED <<req, ctx, outcome, waitsFor, now>>

\* Mutant: a run that panics never closes done.
PublishUnlessPanic(c, o) ==
    outcome' = [outcome EXCEPT ![c] = IF o = "PANIC" THEN "none" ELSE o]

\* Result and error are stored and done is closed, whatever happened.
Publish(c, o) == outcome' = [outcome EXCEPT ![c] = o]

\* run() returns or panics.  It is cancelled by the leader's context only, and
\* may still succeed after that context ended.
RunEnds(c) ==
    /\ pc[c] = "running"
    /\ \E o \in Outcomes :
          /\ o = "CANCELLED" => ctx[c] = "ended"
          /\ Publish(c, o)
          /\ Answer(c, o)
    /\ UNCHANGED <<entries, req, ctx, created, waitsFor, now>>

\* The two cases of the select: either may be taken when both are ready.
FollowerServed(c) ==
    /\ pc[c] = "waiting"
    /\ Closed(waitsFor[c])
    /\ Answer(c, outcome[waitsFor[c]])
    /\ UNCHANGED <<entries, req, ctx, created, outcome, waitsFor, now>>

FollowerLeaves(c) ==
    /\ pc[c] = "waiting"
    /\ ctx[c] = "ended"
    /\ Answer(c, "context")
    /\ UNCHANGED <<entries, req, ctx, created, outcome, waitsFor, now>>

\* The client disconnects, or the leader's time budget runs out.
ContextEnds(c) ==
    /\ pc[c] \in {"running", "waiting"}
    /\ ctx[c] = "live"
    /\ ctx' = [ctx EXCEPT ![c] = "ended"]
    /\ UNCHANGED <<entries, pc, req, created, outcome, waitsFor, answer, now>>

Tick ==
    /\ now < MaxNow
    /\ now' = now + 1
    /\ UNCHANGED <<entries, pc, req, ctx, created, outcome, waitsFor, answer>>

Step(c) == Hit(c) \/ Miss(c) \/ RunEnds(c) \/ FollowerServed(c) \/ FollowerLeaves(c)

Next == Tick \/ \E c \in Callers : Step(c) \/ ContextEnds(c)

Spec == Init /\ [][Next]_vars

\* A run ends because runTask carries a deadline; a goroutine whose channel is
\* ready is scheduled.  Nothing is assumed of clients: they need not call.
FairSpec == Spec /\ \A c \in Callers : WF_vars(RunEnds(c)) /\ WF_vars(FollowerServed(c))

-----------------------------------------------------------------------------
(* Properties *)

\* Two executions of one idempotency key never run at the same time, although
\* the map forgets keys while calls are in progress (store.go:40-54).
OneRunPerKey ==
    \A c, d \in Callers :
        pc[c] = "running" /\ pc[d] = "running" /\ req[c].key = req[d].key => c = d

\* For an hour after it was created, finished or not, a key's entry is found:
\* a key is not executed a second time before (store.go:40-48).
KeptForAnHour ==
    \A c \in Callers : Leads(c) /\ now - created[c] <= TTL => entries[req[c].key] = c

\* A caller that did not run gets an outcome only of a finished run of the same
\* key and the same payload (store.go:28-38).
ServedOwnRequest ==
    \A c \in Callers :
        answer[c] \in Outcomes =>
            \E d \in Callers : req[d] = req[c] /\ outcome[d] = answer[c]

\* The map never holds more than its capacity (store.go:49).
CapacityBound == Size(entries) <= Capacity

\* Every caller that runs or waits gets an answer, even when the run panics or
\* its entry leaves the map (store.go:56-68).
EveryCallerReturns ==
    \A c \in Callers : pc[c] \in {"running", "waiting"} ~> pc[c] = "returned"

\* The store implements single flight: leaders are the executions.
Request(c) == IF pc[c] = "idle" THEN {} ELSE {req[c]}
KeyOfRequest(r) == r.key
SF == INSTANCE SingleFlight WITH
        Requests <- [key: Keys, hash: Hashes],
        KeyOf    <- KeyOfRequest,
        runs     <- [c \in Callers |-> IF pc[c] = "running" THEN "running" ELSE outcome[c]],
        asked    <- [c \in Callers |-> Request(c)],
        answers  <- [c \in Callers |-> IF answer[c] = "none" THEN {} ELSE {answer[c]}]

\* Every behaviour of the store is one its promise allows: executions of a key
\* never overlap and answers come from finished executions (store.go:23-69).
ImplementsSingleFlight == SF!Spec
=============================================================================
