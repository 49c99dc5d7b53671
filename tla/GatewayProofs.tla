--------------------------- MODULE GatewayProofs ---------------------------
(***************************************************************************)
(* What the session store guarantees for any number of callers, keys and   *)
(* payloads, any capacity and any lifetime of entries; and that it does so *)
(* behind the endpoint, for any mixture of good and bad requests.          *)
(*                                                                         *)
(* The argument: an entry leaves the map only when its run has ended, so a *)
(* running caller owns the entry of its key (RunsAreEntries), and a caller *)
(* starts to run only when its key has no entry.  The steps of the store   *)
(* behind the endpoint are those of the store.  A conflict is due to an    *)
(* execution, because only what is admitted becomes a leader.              *)
(***************************************************************************)
EXTENDS Gateway, FiniteSetTheorems, TLAPS

\* Every step keeps the types.
LEMMA TypeStep == TypeOK /\ [Next]_vars => TypeOK'
<1> SUFFICES ASSUME TypeOK, [Next]_vars PROVE TypeOK'
  OBVIOUS
<1>1. CASE Tick
  BY <1>1 DEF Tick, TypeOK
<1>2. ASSUME NEW c \in Callers, Hit(c) PROVE TypeOK'
  <2>1. req[c].key \in Keys
    BY DEF TypeOK
  <2>2. entries[req[c].key] \in Callers
    BY <1>2, <2>1 DEF Hit, TypeOK
  <2>3. CASE Conflicts(c) /\ Answer(c, "conflict") /\ UNCHANGED waitsFor
    BY <1>2, <2>3 DEF Hit, Answer, TypeOK, Refusals, Outcomes
  <2>4. CASE /\ pc' = [pc EXCEPT ![c] = "waiting"]
             /\ waitsFor' = [waitsFor EXCEPT ![c] = entries[req[c].key]]
             /\ UNCHANGED answer
    BY <1>2, <2>2, <2>4, NoCallerAssumption DEF Hit, TypeOK
  <2> QED
    BY <1>2, <2>3, <2>4 DEF Hit
<1>3. ASSUME NEW c \in Callers, Miss(c) PROVE TypeOK'
  <2>1. Swept \in [Keys -> Callers \cup {NoCaller}]
    BY DEF Swept, TypeOK
  <2>2. CASE Answer(c, "capacity") /\ entries' = Swept /\ UNCHANGED created
    BY <1>3, <2>1, <2>2 DEF Miss, Answer, TypeOK, Refusals, Outcomes
  <2>3. CASE /\ entries' = [Swept EXCEPT ![req[c].key] = c]
             /\ created' = [created EXCEPT ![c] = now]
             /\ pc' = [pc EXCEPT ![c] = "running"]
             /\ UNCHANGED answer
    BY <1>3, <2>1, <2>3 DEF Miss, TypeOK
  <2> QED
    BY <1>3, <2>2, <2>3 DEF Miss
<1>4. ASSUME NEW c \in Callers, RunEnds(c) PROVE TypeOK'
  BY <1>4 DEF RunEnds, Publish, Answer, TypeOK, Outcomes
<1>5. ASSUME NEW c \in Callers, FollowerServed(c) PROVE TypeOK'
  <2>1. outcome[waitsFor[c]] \in Outcomes
    BY <1>5, NoCallerAssumption DEF FollowerServed, Closed, TypeOK
  <2> QED
    BY <1>5, <2>1 DEF FollowerServed, Answer, TypeOK, Outcomes
<1>6. ASSUME NEW c \in Callers, FollowerLeaves(c) PROVE TypeOK'
  BY <1>6 DEF FollowerLeaves, Answer, TypeOK
<1>7. ASSUME NEW c \in Callers, ContextEnds(c) PROVE TypeOK'
  BY <1>7 DEF ContextEnds, TypeOK
<1>8. CASE UNCHANGED vars
  BY <1>8 DEF vars, TypeOK
<1> QED
  BY <1>1, <1>2, <1>3, <1>4, <1>5, <1>6, <1>7, <1>8 DEF Next, Step

\* The type invariant holds of the store, for any constants (store.go:14-22).
THEOREM TypeCorrect == Spec => []TypeOK
<1>1. Init => TypeOK
  BY DEF Init, TypeOK, Outcomes, Refusals
<1> QED
  BY <1>1, TypeStep, PTL DEF Spec

-----------------------------------------------------------------------------
(* The inductive invariant *)

\* A caller that has not called, or that waits, did not run.
OnlyRunsPublish ==
    \A c \in Callers : pc[c] \in {"idle", "running", "waiting"} => outcome[c] = "none"

\* An entry belongs to a caller that runs or ran, under its own key.
EntriesAreRuns ==
    \A k \in Keys : entries[k] # NoCaller => Leads(entries[k]) /\ req[entries[k]].key = k

\* A running caller owns the entry of its key.
RunsAreEntries ==
    \A c \in Callers : pc[c] = "running" => entries[req[c].key] = c

\* A follower waits for an execution of its own request, even after the map
\* dropped its entry.
WaitsForOwnRequest ==
    \A c \in Callers : pc[c] = "waiting" => Leads(waitsFor[c]) /\ req[waitsFor[c]] = req[c]

IInv ==
    /\ TypeOK
    /\ OnlyRunsPublish
    /\ EntriesAreRuns
    /\ RunsAreEntries
    /\ WaitsForOwnRequest
    /\ KeptForAnHour
    /\ ServedOwnRequest

\* The initial states satisfy the inductive invariant.
LEMMA InitIInv == Init => IInv
BY DEF Init, IInv, TypeOK, OnlyRunsPublish, EntriesAreRuns, RunsAreEntries, WaitsForOwnRequest,
       KeptForAnHour, ServedOwnRequest, Leads, Outcomes, Refusals

\* The sweep keeps what runs and what is not yet an hour old.
LEMMA SweptKeeps ==
    ASSUME TypeOK, NEW k \in Keys
    PROVE  /\ Swept[k] \in {NoCaller, entries[k]}
           /\ entries[k] # NoCaller /\ ~Closed(entries[k]) => Swept[k] = entries[k]
           /\ entries[k] # NoCaller /\ now - created[entries[k]] <= TTL => Swept[k] = entries[k]
<1>1. Swept[k] = IF entries[k] # NoCaller /\ Expired(entries[k]) THEN NoCaller ELSE entries[k]
  BY DEF Swept
<1>2. entries[k] # NoCaller => created[entries[k]] \in Nat /\ now \in Nat
  BY DEF TypeOK
<1> QED
  BY <1>1, <1>2, StoreNumbers DEF Expired

\* A call that finds an entry keeps the inductive invariant.
LEMMA HitKeeps ==
    ASSUME IInv, TypeOK', NEW c \in Callers, Hit(c)
    PROVE  IInv'
<1> DEFINE e == entries[req[c].key]
<1>1. e \in Callers /\ req[c].key \in Keys /\ Leads(e) /\ req[e].key = req[c].key
  BY DEF Hit, IInv, TypeOK, EntriesAreRuns
<1>2. pc[c] = "idle" /\ outcome[c] = "none"
  BY DEF Hit, IInv, OnlyRunsPublish
<1>3. pc' = [pc EXCEPT ![c] = pc'[c]] /\ pc'[c] \in {"returned", "waiting"}
  BY DEF Hit, Answer, IInv, TypeOK
<1>4. UNCHANGED <<entries, req, created, outcome, now>>
  BY DEF Hit
<1>5. \A d \in Callers : Leads(d)' <=> Leads(d)
  BY <1>2, <1>3, <1>4 DEF Leads, IInv, TypeOK
<1>6. OnlyRunsPublish'
  BY <1>2, <1>3, <1>4 DEF IInv, TypeOK, OnlyRunsPublish
<1>7. EntriesAreRuns'
  <2> SUFFICES ASSUME NEW k \in Keys, entries[k] # NoCaller PROVE Leads(entries[k])' /\ req[entries[k]].key = k
    BY <1>4 DEF EntriesAreRuns
  <2>1. entries[k] \in Callers /\ Leads(entries[k]) /\ req[entries[k]].key = k
    BY DEF IInv, TypeOK, EntriesAreRuns
  <2> QED
    BY <2>1, <1>4, <1>5 DEF Leads
<1>8. RunsAreEntries'
  BY <1>2, <1>3, <1>4 DEF IInv, TypeOK, RunsAreEntries
<1>9. WaitsForOwnRequest'
  <2>1. CASE Conflicts(c) /\ Answer(c, "conflict") /\ UNCHANGED waitsFor
    <3>1. \A d \in Callers : pc'[d] = "waiting" => pc[d] = "waiting" /\ waitsFor[d] \in Callers
      BY <2>1, NoCallerAssumption DEF Answer, IInv, TypeOK
    <3> QED
      BY <2>1, <3>1, <1>4, <1>5 DEF IInv, WaitsForOwnRequest, Leads
  <2>2. CASE /\ ~Conflicts(c)
             /\ waitsFor' = [waitsFor EXCEPT ![c] = e]
    <3>1. req[e] = req[c]
      BY <2>2, <1>1 DEF Conflicts, IInv, TypeOK
    <3>2. ASSUME NEW d \in Callers, pc'[d] = "waiting"
          PROVE  waitsFor'[d] \in Callers /\ Leads(waitsFor'[d]) /\ req[waitsFor'[d]] = req[d]
      <4>1. CASE d = c
        BY <2>2, <1>1, <3>1, <4>1 DEF IInv, TypeOK
      <4>2. CASE d # c
        BY <2>2, <1>3, <3>2, <4>2, NoCallerAssumption DEF IInv, TypeOK, WaitsForOwnRequest
      <4> QED
        BY <4>1, <4>2
    <3> QED
      BY <3>2, <1>4, <1>5 DEF WaitsForOwnRequest, Leads
  <2> QED
    BY <2>1, <2>2 DEF Hit
<1>10. KeptForAnHour'
  BY <1>4, <1>5 DEF IInv, KeptForAnHour, Leads
<1>11. ServedOwnRequest'
  <2>1. \A d \in Callers : answer'[d] \in Outcomes => answer'[d] = answer[d]
    BY DEF Hit, Answer, IInv, TypeOK, Outcomes
  <2> QED
    BY <2>1, <1>4 DEF IInv, ServedOwnRequest
<1> QED
  BY <1>6, <1>7, <1>8, <1>9, <1>10, <1>11 DEF IInv

\* A call that starts a run, or is refused for lack of room, keeps it.
LEMMA MissKeeps ==
    ASSUME IInv, TypeOK', NEW c \in Callers, Miss(c)
    PROVE  IInv'
<1>1. pc[c] = "idle" /\ outcome[c] = "none" /\ req[c].key \in Keys /\ ~Leads(c)
  BY DEF Miss, IInv, TypeOK, OnlyRunsPublish, Leads
<1>2. UNCHANGED <<req, outcome, waitsFor, now>>
  BY DEF Miss
<1>3. \A d \in Callers : d # c => pc'[d] = pc[d] /\ answer'[d] = answer[d] /\ created'[d] = created[d]
  BY DEF Miss, Answer, IInv, TypeOK
<1>4. \A d \in Callers : d # c => (Leads(d)' <=> Leads(d))
  BY <1>2, <1>3 DEF Leads
<1>5. \A k \in Keys : entries[k] \in Callers => entries[k] # c
  BY <1>1, NoCallerAssumption DEF IInv, EntriesAreRuns
<1>6. \A d \in Callers : pc[d] = "waiting" => waitsFor[d] \in Callers /\ waitsFor[d] # c
  BY <1>1, NoCallerAssumption DEF IInv, TypeOK, WaitsForOwnRequest
<1>7. WaitsForOwnRequest'
  <2>1. pc'[c] # "waiting"
    BY DEF Miss, Answer, IInv, TypeOK
  <2>2. SUFFICES ASSUME NEW d \in Callers, pc'[d] = "waiting"
                 PROVE  Leads(waitsFor[d])' /\ req[waitsFor[d]] = req[d]
    BY <1>2 DEF WaitsForOwnRequest, Leads
  <2>3. pc[d] = "waiting"
    BY <2>1, <2>2, <1>3
  <2>4. waitsFor[d] \in Callers /\ waitsFor[d] # c /\ Leads(waitsFor[d]) /\ req[waitsFor[d]] = req[d]
    BY <2>3, <1>6 DEF IInv, WaitsForOwnRequest
  <2> QED
    BY <2>4, <1>2, <1>3 DEF Leads
<1>8. ServedOwnRequest'
  <2>1. answer'[c] \notin Outcomes
    BY <1>1 DEF Miss, Answer, IInv, TypeOK, Outcomes
  <2> QED
    BY <2>1, <1>2, <1>3 DEF IInv, ServedOwnRequest
<1>9. CASE /\ entries' = Swept
           /\ Answer(c, "capacity")
           /\ UNCHANGED created
  <2>1. OnlyRunsPublish'
    BY <1>1, <1>2, <1>9 DEF Answer, IInv, TypeOK, OnlyRunsPublish
  <2>2. EntriesAreRuns'
    <3> SUFFICES ASSUME NEW k \in Keys, NEW d \in Callers, Swept[k] = d
                 PROVE  Leads(d)' /\ req[d].key = k
      BY <1>2, <1>9, SweptKeeps, NoCallerAssumption DEF IInv, TypeOK, EntriesAreRuns, Leads
    <3>1. entries[k] = d /\ d # c
      BY SweptKeeps, <1>5, NoCallerAssumption DEF IInv
    <3> QED
      BY <3>1, <1>4, NoCallerAssumption DEF IInv, EntriesAreRuns
  <2>3. RunsAreEntries'
    <3> SUFFICES ASSUME NEW d \in Callers, pc'[d] = "running" PROVE Swept[req[d].key] = d
      BY <1>2, <1>9 DEF RunsAreEntries
    <3>1. pc[d] = "running" /\ req[d].key \in Keys
      BY <1>9 DEF Answer, IInv, TypeOK
    <3>2. entries[req[d].key] = d /\ ~Closed(d)
      BY <3>1 DEF IInv, RunsAreEntries, OnlyRunsPublish, Closed
    <3> QED
      BY <3>1, <3>2, SweptKeeps, NoCallerAssumption DEF IInv
  <2>4. KeptForAnHour'
    <3> SUFFICES ASSUME NEW d \in Callers, Leads(d)', now - created[d] <= TTL
                 PROVE  Swept[req[d].key] = d
      BY <1>2, <1>9 DEF KeptForAnHour
    <3>1. Leads(d) /\ req[d].key \in Keys
      BY <1>1, <1>2, <1>9 DEF Answer, Leads, IInv, TypeOK
    <3>2. entries[req[d].key] = d
      BY <3>1 DEF IInv, KeptForAnHour
    <3> QED
      BY <3>1, <3>2, SweptKeeps, NoCallerAssumption DEF IInv
  <2> QED
    BY <2>1, <2>2, <2>3, <2>4, <1>7, <1>8 DEF IInv
<1>10. CASE /\ entries' = [Swept EXCEPT ![req[c].key] = c]
            /\ created' = [created EXCEPT ![c] = now]
            /\ pc' = [pc EXCEPT ![c] = "running"]
            /\ UNCHANGED answer
  <2>1. OnlyRunsPublish'
    BY <1>1, <1>2, <1>10 DEF IInv, TypeOK, OnlyRunsPublish
  <2>2. entries'[req[c].key] = c /\ \A k \in Keys : k # req[c].key => entries'[k] = Swept[k]
    BY <1>1, <1>10 DEF Swept
  <2>3. EntriesAreRuns'
    <3> SUFFICES ASSUME NEW k \in Keys, NEW d \in Callers, entries'[k] = d
                 PROVE  Leads(d)' /\ req[d].key = k
      BY <1>2, NoCallerAssumption DEF TypeOK, EntriesAreRuns
    <3>1. CASE k = req[c].key
      BY <3>1, <2>2, <1>10 DEF Leads, IInv, TypeOK
    <3>2. CASE k # req[c].key
      <4>1. entries[k] = d /\ d # c
        BY <3>2, <2>2, <1>5, SweptKeeps, NoCallerAssumption DEF IInv
      <4> QED
        BY <4>1, <1>4, NoCallerAssumption DEF IInv, EntriesAreRuns
    <3> QED
      BY <3>1, <3>2
  <2>4. \A d \in Callers : d # c /\ (pc[d] = "running" \/ (Leads(d) /\ now - created[d] <= TTL))
                           => entries'[req[d].key] = d
    <3> SUFFICES ASSUME NEW d \in Callers, d # c,
                        pc[d] = "running" \/ (Leads(d) /\ now - created[d] <= TTL)
                 PROVE  entries'[req[d].key] = d
      OBVIOUS
    <3>1. entries[req[d].key] = d /\ req[d].key \in Keys
      BY DEF IInv, TypeOK, RunsAreEntries, KeptForAnHour
    <3>2. pc[d] = "running" => ~Closed(d)
      BY DEF IInv, OnlyRunsPublish, Closed
    <3>3. Swept[req[d].key] = d
      BY <3>1, <3>2, SweptKeeps, NoCallerAssumption DEF IInv
    <3>4. req[d].key # req[c].key
      BY <3>1, NoCallerAssumption DEF Miss
    <3> QED
      BY <3>1, <3>3, <3>4, <2>2
  <2>5. RunsAreEntries'
    BY <2>2, <2>4, <1>2, <1>3 DEF RunsAreEntries
  <2>6. KeptForAnHour'
    BY <2>2, <2>4, <1>2, <1>3, <1>4 DEF KeptForAnHour
  <2> QED
    BY <2>1, <2>3, <2>5, <2>6, <1>7, <1>8 DEF IInv
<1> QED
  BY <1>9, <1>10 DEF Miss

\* The end of a run, even by a panic, keeps it.
LEMMA RunEndsKeeps ==
    ASSUME IInv, TypeOK', NEW c \in Callers, RunEnds(c)
    PROVE  IInv'
<1>1. pc[c] = "running"
  BY DEF RunEnds
<1>2. PICK o \in Outcomes :
        /\ outcome' = [outcome EXCEPT ![c] = o]
        /\ pc' = [pc EXCEPT ![c] = "returned"]
        /\ answer' = [answer EXCEPT ![c] = o]
  BY DEF RunEnds, Publish, Answer
<1>3. UNCHANGED <<entries, req, ctx, created, waitsFor, now>>
  BY DEF RunEnds
<1>4. \A d \in Callers : Leads(d)' <=> Leads(d)
  BY <1>1, <1>2 DEF Leads, IInv, TypeOK, Outcomes
<1>5. OnlyRunsPublish'
  BY <1>2 DEF IInv, TypeOK, OnlyRunsPublish
<1>6. EntriesAreRuns'
  <2> SUFFICES ASSUME NEW k \in Keys, NEW d \in Callers, entries[k] = d
               PROVE  Leads(d)' /\ req[d].key = k
    BY <1>3, NoCallerAssumption DEF IInv, TypeOK, EntriesAreRuns
  <2> QED
    BY <1>4, NoCallerAssumption DEF IInv, EntriesAreRuns
<1>7. RunsAreEntries'
  BY <1>2, <1>3 DEF IInv, TypeOK, RunsAreEntries
<1>8. WaitsForOwnRequest'
  <2> SUFFICES ASSUME NEW d \in Callers, pc'[d] = "waiting", NEW e \in Callers, waitsFor[d] = e
               PROVE  Leads(e)' /\ req[e] = req[d]
    BY <1>3, NoCallerAssumption DEF TypeOK, WaitsForOwnRequest
  <2> QED
    BY <1>2, <1>4 DEF IInv, TypeOK, WaitsForOwnRequest
<1>9. KeptForAnHour'
  BY <1>3, <1>4 DEF IInv, KeptForAnHour
<1>10. ServedOwnRequest'
  <2> SUFFICES ASSUME NEW d \in Callers, answer'[d] \in Outcomes
               PROVE  \E e \in Callers : req[e] = req[d] /\ outcome'[e] = answer'[d]
    BY <1>3 DEF ServedOwnRequest
  <2>1. CASE d = c
    BY <2>1, <1>2 DEF IInv, TypeOK
  <2>2. CASE d # c
    <3>1. PICK e \in Callers : req[e] = req[d] /\ outcome[e] = answer[d] /\ answer[d] \in Outcomes
      BY <2>2, <1>2 DEF IInv, TypeOK, ServedOwnRequest
    <3>2. e # c
      BY <1>1, <3>1 DEF IInv, OnlyRunsPublish, Outcomes
    <3> QED
      BY <3>1, <3>2, <2>2, <1>2 DEF IInv, TypeOK
  <2> QED
    BY <2>1, <2>2
<1> QED
  BY <1>5, <1>6, <1>7, <1>8, <1>9, <1>10 DEF IInv

\* A follower that leaves the wait, with or without an outcome, keeps it.
LEMMA FollowerKeeps ==
    ASSUME IInv, TypeOK', NEW c \in Callers, FollowerServed(c) \/ FollowerLeaves(c)
    PROVE  IInv'
<1>1. pc[c] = "waiting" /\ pc' = [pc EXCEPT ![c] = "returned"]
  BY DEF FollowerServed, FollowerLeaves, Answer
<1>2. UNCHANGED <<entries, req, ctx, created, outcome, waitsFor, now>>
  BY DEF FollowerServed, FollowerLeaves
<1>3. \A d \in Callers : Leads(d)' <=> Leads(d)
  BY <1>1, <1>2 DEF Leads, IInv, TypeOK
<1>4. OnlyRunsPublish' /\ RunsAreEntries'
  BY <1>1, <1>2 DEF IInv, TypeOK, OnlyRunsPublish, RunsAreEntries
<1>5. EntriesAreRuns'
  <2> SUFFICES ASSUME NEW k \in Keys, NEW d \in Callers, entries[k] = d
               PROVE  Leads(d)' /\ req[d].key = k
    BY <1>2, NoCallerAssumption DEF IInv, TypeOK, EntriesAreRuns
  <2> QED
    BY <1>3, NoCallerAssumption DEF IInv, EntriesAreRuns
<1>6. WaitsForOwnRequest'
  <2> SUFFICES ASSUME NEW d \in Callers, pc'[d] = "waiting", NEW e \in Callers, waitsFor[d] = e
               PROVE  Leads(e)' /\ req[e] = req[d]
    BY <1>2, NoCallerAssumption DEF TypeOK, WaitsForOwnRequest
  <2> QED
    BY <1>1, <1>3 DEF IInv, TypeOK, WaitsForOwnRequest
<1>7. KeptForAnHour'
  BY <1>2, <1>3 DEF IInv, KeptForAnHour
<1>8. ServedOwnRequest'
  <2>1. answer'[c] \in Outcomes => answer'[c] = outcome[waitsFor[c]]
    BY DEF FollowerServed, FollowerLeaves, Answer, IInv, TypeOK, Outcomes
  <2>2. waitsFor[c] \in Callers /\ req[waitsFor[c]] = req[c]
    BY <1>1, NoCallerAssumption DEF IInv, TypeOK, WaitsForOwnRequest
  <2>3. \A d \in Callers : d # c => answer'[d] = answer[d]
    BY DEF FollowerServed, FollowerLeaves, Answer, IInv, TypeOK
  <2> QED
    BY <2>1, <2>2, <2>3, <1>2 DEF IInv, ServedOwnRequest
<1> QED
  BY <1>4, <1>5, <1>6, <1>7, <1>8 DEF IInv

\* Nothing but the clock or a caller's own context moves: it is kept.
LEMMA EnvironmentKeeps ==
    ASSUME IInv, TypeOK', Tick \/ (\E c \in Callers : ContextEnds(c)) \/ UNCHANGED vars
    PROVE  IInv'
<1>1. UNCHANGED <<entries, pc, req, created, outcome, waitsFor, answer>>
  BY DEF Tick, ContextEnds, vars
<1>2. now' \in Nat /\ now \in Nat /\ now' >= now
  BY DEF Tick, ContextEnds, vars, IInv, TypeOK
<1>3. OnlyRunsPublish' /\ EntriesAreRuns' /\ RunsAreEntries' /\ WaitsForOwnRequest' /\ ServedOwnRequest'
  BY <1>1 DEF IInv, OnlyRunsPublish, EntriesAreRuns, RunsAreEntries, WaitsForOwnRequest,
              ServedOwnRequest, Leads
<1>4. KeptForAnHour'
  <2> SUFFICES ASSUME NEW c \in Callers, Leads(c), now' - created[c] <= TTL
               PROVE  entries[req[c].key] = c
    BY <1>1 DEF KeptForAnHour, Leads
  <2>1. now - created[c] <= TTL
    BY <1>2, StoreNumbers DEF IInv, TypeOK
  <2> QED
    BY <2>1 DEF IInv, KeptForAnHour
<1> QED
  BY <1>3, <1>4 DEF IInv

\* Every step of the store keeps the inductive invariant.
LEMMA NextIInv == IInv /\ [Next]_vars => IInv'
<1> SUFFICES ASSUME IInv, [Next]_vars PROVE IInv'
  OBVIOUS
<1>1. TypeOK'
  BY TypeStep DEF IInv
<1>2. CASE Tick
  BY <1>1, <1>2, EnvironmentKeeps
<1>3. ASSUME NEW c \in Callers, Step(c) PROVE IInv'
  BY <1>1, <1>3, HitKeeps, MissKeeps, RunEndsKeeps, FollowerKeeps DEF Step
<1>4. ASSUME NEW c \in Callers, ContextEnds(c) PROVE IInv'
  BY <1>1, <1>4, EnvironmentKeeps
<1>5. CASE UNCHANGED vars
  BY <1>1, <1>5, EnvironmentKeeps
<1> QED
  BY <1>2, <1>3, <1>4, <1>5 DEF Next

\* The inductive invariant holds throughout.
LEMMA Inductive == Spec => []IInv
BY InitIInv, NextIInv, PTL DEF Spec

-----------------------------------------------------------------------------
(* What follows for callers *)

\* No two executions of one key are in progress at once, however many callers
\* there are and whatever the sweep drops (store.go:40-54): both would own the
\* only entry of the key.
THEOREM NeverTwoRuns == Spec => []OneRunPerKey
<1>1. IInv => OneRunPerKey
  BY DEF IInv, RunsAreEntries, OneRunPerKey
<1> QED
  BY <1>1, Inductive, PTL

\* A key's entry is found for as long as its lifetime lasts (store.go:40-48).
THEOREM KeptForItsLifetime == Spec => []KeptForAnHour
BY Inductive, PTL DEF IInv

\* A follower's outcome is that of a finished run of its own key and payload
\* (store.go:28-38).
THEOREM ServedFromOwnRequest == Spec => []ServedOwnRequest
BY Inductive, PTL DEF IInv

\* The set of keys with an entry, of which the code takes the length.
UsedKeys(map) == {k \in Keys : map[k] # NoCaller}
FiniteMap == IsFiniteSet(UsedKeys(entries))

\* The map is finite and within its capacity after every step: a sweep only
\* removes, and an insertion follows a sweep that left room (store.go:41-54).
LEMMA CapacityStep ==
    TypeOK /\ FiniteMap /\ CapacityBound /\ [Next]_vars => FiniteMap' /\ CapacityBound'
<1> SUFFICES ASSUME TypeOK, FiniteMap, CapacityBound, [Next]_vars
             PROVE  FiniteMap' /\ CapacityBound'
  OBVIOUS
<1>1. CASE UNCHANGED entries
  BY <1>1 DEF FiniteMap, UsedKeys, CapacityBound, Size
<1>2. ASSUME NEW c \in Callers, Miss(c) PROVE FiniteMap' /\ CapacityBound'
  <2>1. UsedKeys(Swept) \subseteq UsedKeys(entries)
    BY SweptKeeps DEF UsedKeys
  <2>2. /\ IsFiniteSet(UsedKeys(Swept))
        /\ Cardinality(UsedKeys(Swept)) \in Nat
        /\ Cardinality(UsedKeys(Swept)) <= Cardinality(UsedKeys(entries))
        /\ Cardinality(UsedKeys(entries)) \in Nat
    BY <2>1, FS_Subset, FS_CardinalityType DEF FiniteMap
  <2>3. CASE entries' = Swept
    BY <2>2, <2>3, StoreNumbers DEF FiniteMap, UsedKeys, CapacityBound, Size
  <2>4. CASE ~Full(Swept) /\ entries' = [Swept EXCEPT ![req[c].key] = c]
    <3> DEFINE kept == UsedKeys(Swept)
    <3>1. UsedKeys(entries') = kept \cup {req[c].key}
      BY <2>4, NoCallerAssumption DEF UsedKeys, Swept, TypeOK
    <3> HIDE DEF kept
    <3>2. IsFiniteSet(kept) /\ Cardinality(kept) \in Nat
      BY <2>2 DEF kept
    <3>4. /\ IsFiniteSet(kept \cup {req[c].key})
          /\ Cardinality(kept \cup {req[c].key}) \in {Cardinality(kept), Cardinality(kept) + 1}
      BY <3>2, FS_AddElement
    <3>3. Cardinality(UsedKeys(Swept)) < Capacity
      BY <2>2, <2>4, StoreNumbers DEF Full, Size, UsedKeys
    <3>5. IsFiniteSet(UsedKeys(entries')) /\ Cardinality(UsedKeys(entries')) <= Capacity
      <4>1. Cardinality(kept) < Capacity
        BY <3>3 DEF kept
      <4> QED
        BY <4>1, <3>1, <3>2, <3>4, StoreNumbers
    <3> QED
      BY <3>5 DEF FiniteMap, UsedKeys, CapacityBound, Size
  <2> QED
    BY <1>2, <2>3, <2>4 DEF Miss
<1>3. (\A c \in Callers : ~Miss(c)) => UNCHANGED entries
  BY DEF Next, Step, Tick, Hit, RunEnds, FollowerServed, FollowerLeaves, ContextEnds, vars
<1> QED
  BY <1>1, <1>2, <1>3

\* The store never holds more entries than its capacity, whatever the number of
\* keys clients invent (store.go:49).
THEOREM NeverOverCapacity == Spec => []CapacityBound
<1>1. Init => FiniteMap /\ CapacityBound
  <2> SUFFICES ASSUME Init PROVE FiniteMap /\ CapacityBound
    OBVIOUS
  <2>1. UsedKeys(entries) = {}
    BY DEF Init, UsedKeys
  <2> QED
    BY <2>1, FS_EmptySet, StoreNumbers DEF FiniteMap, UsedKeys, CapacityBound, Size
<1> QED
  BY <1>1, CapacityStep, TypeCorrect, PTL DEF Spec

-----------------------------------------------------------------------------
(* The store implements single flight *)

\* What the refinement mapping makes of the state.
Runs == [c \in Callers |-> IF pc[c] = "running" THEN "running" ELSE outcome[c]]
Asked == [c \in Callers |-> Request(c)]
Answers == [c \in Callers |-> IF answer[c] = "none" THEN {} ELSE {answer[c]}]

\* A hit is a refusal, or a wait for an execution of the same request.
LEMMA HitRefines ==
    ASSUME IInv, IInv', NEW c \in Callers, Hit(c)
    PROVE  SF!Refuse(c) \/ SF!Wait(c)
<1> DEFINE e == entries[req[c].key]
<1>1. /\ e \in Callers /\ Leads(e) /\ req[c] \in [key: Keys, hash: Hashes]
      /\ req[e] \in [key: Keys, hash: Hashes] /\ req[e].key = req[c].key
  BY DEF Hit, IInv, TypeOK, EntriesAreRuns
<1>2. pc[c] = "idle" /\ outcome[c] = "none" /\ answer[c] = "none"
  BY DEF Hit, IInv, OnlyRunsPublish, TypeOK
<1>3. UNCHANGED <<req, outcome>>
  BY DEF Hit
<1>4. pc'[c] \in {"returned", "waiting"} /\ \A d \in Callers : d # c => pc'[d] = pc[d]
  BY DEF Hit, Answer, IInv, TypeOK
<1>5. Runs' = Runs
  BY <1>2, <1>3, <1>4 DEF Runs
<1>6. Asked[c] = {} /\ Asked' = [Asked EXCEPT ![c] = {req[c]}]
  BY <1>2, <1>3, <1>4 DEF Asked, Request
<1>7. CASE Answer(c, "conflict")
  <2>1. Answers' = [Answers EXCEPT ![c] = {"conflict"}]
    BY <1>7 DEF Answer, Answers, IInv, TypeOK
  <2> QED
    BY <2>1, <1>1, <1>5, <1>6 DEF SF!Refuse, SF!Ask, Runs, Asked, Answers, Refusals
<1>8. CASE ~Conflicts(c) /\ UNCHANGED answer
  <2>1. req[e] = req[c]
    BY <1>1, <1>8 DEF Conflicts
  <2>2. Runs[e] # "none"
    BY <1>1 DEF Runs, Leads
  <2>3. Asked[e] = {req[c]}
    BY <2>1, <1>1 DEF Asked, Request, Leads, IInv, OnlyRunsPublish
  <2>4. Answers' = Answers
    BY <1>8 DEF Answers
  <2> QED
    BY <2>2, <2>3, <2>4, <1>1, <1>5, <1>6 DEF SF!Wait, SF!Ask, Runs, Asked, Answers
<1> QED
  BY <1>7, <1>8 DEF Hit

\* A miss is a refusal, or a start: no execution of the key is in progress,
\* since it would own the key's entry.
LEMMA MissRefines ==
    ASSUME IInv, IInv', NEW c \in Callers, Miss(c)
    PROVE  SF!Refuse(c) \/ SF!Start(c)
<1>1. req[c] \in [key: Keys, hash: Hashes] /\ pc[c] = "idle" /\ outcome[c] = "none" /\ answer[c] = "none"
  BY DEF Miss, IInv, OnlyRunsPublish, TypeOK
<1>2. UNCHANGED <<req, outcome>>
  BY DEF Miss
<1>3. pc'[c] \in {"returned", "running"} /\ \A d \in Callers : d # c => pc'[d] = pc[d]
  BY DEF Miss, Answer, IInv, TypeOK
<1>4. Asked[c] = {} /\ Asked' = [Asked EXCEPT ![c] = {req[c]}]
  BY <1>1, <1>2, <1>3 DEF Asked, Request
<1>5. CASE Answer(c, "capacity")
  <2>1. Answers' = [Answers EXCEPT ![c] = {"capacity"}]
    BY <1>5 DEF Answer, Answers, IInv, TypeOK
  <2>2. Runs' = Runs
    BY <1>1, <1>2, <1>3, <1>5 DEF Runs, Answer, IInv, TypeOK
  <2> QED
    BY <2>1, <2>2, <1>1, <1>4 DEF SF!Refuse, SF!Ask, Runs, Asked, Answers, Refusals
<1>6. CASE pc' = [pc EXCEPT ![c] = "running"] /\ UNCHANGED answer
  <2>1. Runs' = [Runs EXCEPT ![c] = "running"] /\ Answers' = Answers
    <3>1. pc'[c] = "running" /\ UNCHANGED <<outcome, answer>>
      BY <1>2, <1>6 DEF IInv, TypeOK
    <3> QED
      BY <3>1, <1>3 DEF Runs, Answers
  <2>2. ASSUME NEW d \in Callers, Runs[d] = "running", NEW s \in Asked[d]
        PROVE  s.key # req[c].key
    <3>1. pc[d] = "running"
      BY <2>2 DEF Runs, IInv, TypeOK, Outcomes
    <3>2. s = req[d] /\ entries[req[d].key] = d
      BY <2>2, <3>1 DEF Asked, Request, IInv, RunsAreEntries
    <3> QED
      BY <3>2, NoCallerAssumption DEF Miss
  <2> QED
    BY <2>1, <2>2, <1>1, <1>4 DEF SF!Start, SF!Ask, Runs, Asked, Answers, KeyOfRequest
<1> QED
  BY <1>5, <1>6 DEF Miss

\* The end of a run finishes an execution.
LEMMA RunEndsRefines ==
    ASSUME IInv, IInv', NEW c \in Callers, RunEnds(c)
    PROVE  SF!Finish(c)
<1>1. PICK o \in Outcomes :
        /\ outcome' = [outcome EXCEPT ![c] = o]
        /\ pc' = [pc EXCEPT ![c] = "returned"]
        /\ answer' = [answer EXCEPT ![c] = o]
  BY DEF RunEnds, Publish, Answer
<1>2. pc[c] = "running" /\ UNCHANGED req
  BY DEF RunEnds
<1>3. Runs[c] = "running" /\ Runs' = [Runs EXCEPT ![c] = o]
  BY <1>1, <1>2 DEF Runs, IInv, TypeOK
<1>4. Answers' = [Answers EXCEPT ![c] = {o}]
  BY <1>1 DEF Answers, IInv, TypeOK, Outcomes
<1>5. Asked' = Asked
  BY <1>1, <1>2 DEF Asked, Request, IInv, TypeOK
<1> QED
  BY <1>3, <1>4, <1>5 DEF SF!Finish, Runs, Asked, Answers

\* A follower is served from a finished execution of its request, or leaves.
LEMMA FollowerRefines ==
    ASSUME IInv, IInv', NEW c \in Callers, FollowerServed(c) \/ FollowerLeaves(c)
    PROVE  SF!Serve(c) \/ SF!Leave(c)
<1>1. pc[c] = "waiting" /\ pc' = [pc EXCEPT ![c] = "returned"] /\ UNCHANGED <<req, outcome>>
  BY DEF FollowerServed, FollowerLeaves, Answer
<1>2. Runs' = Runs /\ Asked' = Asked
  BY <1>1 DEF Runs, Asked, Request, IInv, TypeOK
<1>3. Asked[c] = {req[c]} /\ Answers[c] = {} /\ Runs[c] = "none"
  BY <1>1 DEF Asked, Answers, Runs, Request, IInv, TypeOK, OnlyRunsPublish
<1>4. CASE FollowerServed(c)
  <2> DEFINE e == waitsFor[c]
  <2>1. e \in Callers /\ outcome[e] \in Outcomes /\ req[e] = req[c]
    BY <1>1, <1>4, NoCallerAssumption DEF FollowerServed, Closed, IInv, TypeOK, WaitsForOwnRequest
  <2>2. Runs[e] = outcome[e] /\ Asked[e] = Asked[c]
    BY <2>1, <1>3 DEF Runs, Asked, Request, IInv, OnlyRunsPublish, Outcomes
  <2>3. Answers' = [Answers EXCEPT ![c] = {outcome[e]}]
    BY <2>1, <1>4 DEF FollowerServed, Answer, Answers, IInv, TypeOK, Outcomes
  <2> QED
    BY <2>1, <2>2, <2>3, <1>2, <1>3 DEF SF!Serve, Runs, Asked, Answers
<1>5. CASE FollowerLeaves(c)
  <2>1. Answers' = [Answers EXCEPT ![c] = {"context"}]
    BY <1>5 DEF FollowerLeaves, Answer, Answers, IInv, TypeOK
  <2> QED
    BY <2>1, <1>2, <1>3 DEF SF!Leave, Runs, Asked, Answers
<1> QED
  BY <1>4, <1>5

\* Every step of the store is a step of its promise, or none.
LEMMA StepRefines == IInv /\ IInv' /\ [Next]_vars => [SF!Next]_(SF!vars)
<1> SUFFICES ASSUME IInv, IInv', [Next]_vars PROVE SF!Next \/ UNCHANGED SF!vars
  OBVIOUS
<1>1. CASE Tick
  BY <1>1 DEF Tick, SF!vars, Request
<1>2. ASSUME NEW c \in Callers, Step(c) PROVE SF!Next
  BY <1>2, HitRefines, MissRefines, RunEndsRefines, FollowerRefines DEF Step, SF!Next
<1>3. ASSUME NEW c \in Callers, ContextEnds(c) PROVE UNCHANGED SF!vars
  BY <1>3 DEF ContextEnds, SF!vars, Request
<1>4. CASE UNCHANGED vars
  BY <1>4 DEF vars, SF!vars, Request
<1> QED
  BY <1>1, <1>2, <1>3, <1>4 DEF Next

\* Whatever the callers and the clock do, the store behaves as single flight
\* promises: overlapping executions of a key, an answer of another request or of
\* an unfinished execution are impossible (store.go:23-69).
THEOREM Refinement == Spec => ImplementsSingleFlight
<1>1. Init => SF!Init
  BY DEF Init, SF!Init, Request
<1> QED
  BY <1>1, StepRefines, Inductive, PTL DEF Spec, ImplementsSingleFlight, SF!Spec

-----------------------------------------------------------------------------
(* The endpoint *)

\* Every step of the gateway is one of the store, or leaves it alone.
LEMMA GatewayStepsStore == [GatewayNext]_gatewayVars => [Next]_vars
BY DEF GatewayNext, gatewayVars, Clock, Refuse, InStore, Next

\* Behind the endpoint the store does what it does for any callers
\* (server.go:103-107, store.go:23-69).
THEOREM StoreBehindGateway == GatewaySpec => Spec
<1>1. GatewayInit => Init
  BY DEF GatewayInit
<1> QED
  BY <1>1, GatewayStepsStore, PTL DEF GatewaySpec, Spec

\* What is proved of the store holds of the requests of the endpoint: one
\* execution per key, entries for their lifetime, answers of the own request, a
\* bounded map, and single flight (store.go:14-69).
THEOREM GatewayKeepsPromises ==
    GatewaySpec => /\ []OneRunPerKey
                   /\ []KeptForAnHour
                   /\ []ServedOwnRequest
                   /\ []CapacityBound
                   /\ ImplementsSingleFlight
BY StoreBehindGateway, NeverTwoRuns, KeptForItsLifetime, ServedFromOwnRequest,
   NeverOverCapacity, Refinement

-----------------------------------------------------------------------------
(* The inductive invariant *)

GatewayTypeOK == form \in [Callers -> Forms] /\ refused \subseteq Callers

\* Only requests without fault are executed.
LeadersAreWellFormed == \A c \in Callers : Leads(c) => form[c] = "none"

\* A conflict is with an execution of the same key and another payload.
ConflictsAreReal ==
    \A c \in Callers :
        answer[c] = "conflict" =>
            \E d \in Callers : Leads(d) /\ req[d].key = req[c].key /\ req[d].hash # req[c].hash

GInv == IInv /\ GatewayTypeOK /\ LeadersAreWellFormed /\ ConflictsAreReal

\* Whatever is wrong with a request, it is refused.
LEMMA OddOnesAreRefused ==
    ASSUME GatewayTypeOK, NEW c \in Callers, Refusal(c) = Admitted
    PROVE  form[c] = "none"
<1>1. form[c] \in Oddities
  BY FormsAssumption DEF GatewayTypeOK
<1>2. form[c] \in {"none", "token", "too_large", "not_json", "other_version", "contract", "scope",
                   "reference", "undecodable", "blank_task_id", "blank_key", "pin_field", "pin",
                   "version", "kind", "pin_version", "result_version", "budget"}
  BY <1>1 DEF Oddities, Defaulted
<1> QED
  BY <1>2 DEF Refusal, EnvelopeRefusal, PinRefusal, Admitted

\* A request whose refusal speaks of its key has a blank one, or a blank task id.
LEMMA BlankKeyRefusal ==
    ASSUME NEW c \in Callers, Refusal(c) = <<409, "idempotency_conflict">>
    PROVE  form[c] \in {"blank_task_id", "blank_key"}
BY DEF Refusal, EnvelopeRefusal, PinRefusal, Admitted

\* Executions stay known, and requests stay what they are.
LEMMA LeadersRemain ==
    ASSUME IInv, [Next]_vars, NEW c \in Callers
    PROVE  req' = req /\ (Leads(c) => Leads(c)')
<1>1. CASE Tick \/ UNCHANGED vars
  BY <1>1 DEF Tick, vars, Leads
<1>2. ASSUME NEW d \in Callers, Hit(d) \/ Miss(d)
      PROVE  req' = req /\ (Leads(c) => Leads(c)')
  <2>1. pc[d] = "idle" /\ UNCHANGED <<req, outcome>> /\ \E p \in {"waiting", "returned", "running"} : pc' = [pc EXCEPT ![d] = p]
    BY <1>2 DEF Hit, Miss, Answer
  <2> QED
    BY <2>1 DEF Leads, IInv, TypeOK
<1>3. ASSUME NEW d \in Callers, RunEnds(d)
      PROVE  req' = req /\ (Leads(c) => Leads(c)')
  <2>1. PICK o \in Outcomes : outcome' = [outcome EXCEPT ![d] = o] /\ pc' = [pc EXCEPT ![d] = "returned"]
    BY <1>3 DEF RunEnds, Publish, Answer
  <2>2. req' = req
    BY <1>3 DEF RunEnds
  <2> QED
    BY <2>1, <2>2 DEF Leads, IInv, TypeOK, Outcomes
<1>4. ASSUME NEW d \in Callers, FollowerServed(d) \/ FollowerLeaves(d)
      PROVE  req' = req /\ (Leads(c) => Leads(c)')
  <2>1. pc[d] = "waiting" /\ UNCHANGED <<req, outcome>> /\ pc' = [pc EXCEPT ![d] = "returned"]
    BY <1>4 DEF FollowerServed, FollowerLeaves, Answer
  <2> QED
    BY <2>1 DEF Leads, IInv, TypeOK
<1>5. ASSUME NEW d \in Callers, ContextEnds(d)
      PROVE  req' = req /\ (Leads(c) => Leads(c)')
  BY <1>5 DEF ContextEnds, Leads
<1> QED
  BY <1>1, <1>2, <1>3, <1>4, <1>5 DEF Next, Step

\* Who begins to lead was admitted.
LEMMA NewLeadersWereAdmitted ==
    ASSUME GInv, [GatewayNext]_gatewayVars
    PROVE  LeadersAreWellFormed'
<1> SUFFICES ASSUME NEW c \in Callers, Leads(c)', ~Leads(c)
             PROVE  form'[c] = "none"
  <2>1. form' = form
    BY DEF GatewayNext, gatewayVars, Clock, Refuse, InStore
  <2> QED
    BY <2>1 DEF GInv, LeadersAreWellFormed
<1>1. CASE Clock \/ UNCHANGED gatewayVars \/ (\E d \in Callers : Refuse(d))
  BY <1>1 DEF Clock, Tick, Refuse, gatewayVars, vars, Leads
<1>2. ASSUME NEW d \in Callers, InStore(d) PROVE form'[c] = "none"
  <2>1. Step(d) \/ ContextEnds(d)
    BY <1>2 DEF InStore
  <2>2. c = d
    <3> SUFFICES ASSUME c # d PROVE FALSE
      OBVIOUS
    <3>1. pc'[c] = pc[c] /\ outcome'[c] = outcome[c]
      BY <2>1 DEF Step, Hit, Miss, RunEnds, FollowerServed, FollowerLeaves, ContextEnds, Answer,
                  Publish, GInv, IInv, TypeOK
    <3> QED
      BY <3>1 DEF Leads
  <2> QED
    BY <1>2, <2>2, OddOnesAreRefused DEF InStore, GInv
<1> QED
  BY <1>1, <1>2 DEF GatewayNext

\* The conflict of a new answer is with the leader of the entry that was found.
LEMMA NewConflictsAreReal ==
    ASSUME GInv, [Next]_vars
    PROVE  ConflictsAreReal'
<1> SUFFICES ASSUME NEW c \in Callers, answer'[c] = "conflict"
             PROVE  \E d \in Callers : /\ Leads(d)'
                                       /\ req'[d].key = req'[c].key /\ req'[d].hash # req'[c].hash
  BY DEF ConflictsAreReal
<1>1. CASE answer[c] = "conflict"
  <2>1. PICK d \in Callers : Leads(d) /\ req[d].key = req[c].key /\ req[d].hash # req[c].hash
    BY <1>1 DEF GInv, ConflictsAreReal
  <2> QED
    BY <2>1, LeadersRemain DEF GInv
<1>2. CASE answer[c] # "conflict"
  <2>1. Hit(c) /\ Conflicts(c)
    <3>1. ASSUME Tick \/ UNCHANGED vars \/ \E d \in Callers : ContextEnds(d) PROVE FALSE
      BY <1>2, <3>1 DEF Tick, vars, ContextEnds
    <3>2. ASSUME NEW d \in Callers, Miss(d) PROVE FALSE
      BY <1>2, <3>2 DEF Miss, Answer, GInv, IInv, TypeOK
    <3>3. ASSUME NEW d \in Callers, RunEnds(d) PROVE FALSE
      BY <1>2, <3>3 DEF RunEnds, Answer, GInv, IInv, TypeOK, Outcomes
    <3>4. ASSUME NEW d \in Callers, FollowerServed(d) PROVE FALSE
      <4>1. outcome[waitsFor[d]] \in Outcomes \cup {"none"}
        BY <3>4 DEF FollowerServed, GInv, IInv, TypeOK, NoCallerAssumption
      <4> QED
        BY <1>2, <3>4, <4>1 DEF FollowerServed, Answer, GInv, IInv, TypeOK, Outcomes
    <3>5. ASSUME NEW d \in Callers, FollowerLeaves(d) PROVE FALSE
      BY <1>2, <3>5 DEF FollowerLeaves, Answer, GInv, IInv, TypeOK
    <3>6. ASSUME NEW d \in Callers, Hit(d) PROVE Hit(c) /\ Conflicts(c)
      BY <1>2, <3>6 DEF Hit, Answer, GInv, IInv, TypeOK
    <3> QED
      BY <3>1, <3>2, <3>3, <3>4, <3>5, <3>6 DEF Next, Step
  <2> DEFINE e == entries[req[c].key]
  <2>2. e \in Callers /\ Leads(e) /\ req[e].key = req[c].key
    BY <2>1 DEF Hit, GInv, IInv, TypeOK, EntriesAreRuns
  <2>3. req[e].hash # req[c].hash
    BY <2>1 DEF Conflicts
  <2> QED
    BY <2>2, <2>3, LeadersRemain DEF GInv
<1> QED
  BY <1>1, <1>2

\* The invariant holds of the gateway.
LEMMA GatewayInductive == GatewaySpec => []GInv
<1>1. GatewayInit => GInv
  <2> SUFFICES ASSUME GatewayInit PROVE GInv
    OBVIOUS
  <2>1. IInv
    BY InitIInv DEF GatewayInit
  <2> QED
    BY <2>1 DEF GatewayInit, Init, GInv, GatewayTypeOK, LeadersAreWellFormed, ConflictsAreReal, Leads
<1>2. GInv /\ [GatewayNext]_gatewayVars => GInv'
  <2> SUFFICES ASSUME GInv, [GatewayNext]_gatewayVars PROVE GInv'
    OBVIOUS
  <2>1. [Next]_vars
    BY GatewayStepsStore
  <2>2. IInv'
    BY <2>1, NextIInv DEF GInv
  <2>3. GatewayTypeOK'
    BY DEF GInv, GatewayTypeOK, GatewayNext, gatewayVars, Clock, Refuse, InStore
  <2> QED
    BY <2>1, <2>2, <2>3, NewLeadersWereAdmitted, NewConflictsAreReal DEF GInv
<1> QED
  BY <1>1, <1>2, PTL DEF GatewaySpec

\* A conflict on the wire has a cause: a blank key or task id, or an execution of the
\* key with another payload.  A request that was refused, or met a full store, used up
\* nothing (server.go:103-107; runtime/tasks.go:42-56).
THEOREM ConflictsHaveCauses == GatewaySpec => []ConflictHasACause
<1>1. GInv => ConflictHasACause
  <2> SUFFICES ASSUME GInv, NEW c \in Callers, Reply(c) = <<409, "idempotency_conflict">>
               PROVE  \/ form[c] \in {"blank_task_id", "blank_key"}
                      \/ \E d \in Callers :
                            /\ Leads(d) /\ form[d] = "none"
                            /\ req[d].key = req[c].key /\ req[d].hash # req[c].hash
    BY DEF ConflictHasACause
  <2>1. CASE c \in refused
    BY <2>1, BlankKeyRefusal DEF Reply
  <2>2. CASE c \notin refused /\ pc[c] = "returned"
    <3>1. StatusOf(answer[c]) = <<409, "idempotency_conflict">>
      BY <2>2 DEF Reply
    <3>2. answer[c] \in {"DONE", "FAILED", "CANCELLED", "PANIC", "conflict", "capacity", "context"}
      BY <2>2 DEF GInv, IInv, TypeOK, Outcomes, Refusals
    <3>3. answer[c] = "conflict"
      BY <3>1, <3>2 DEF StatusOf
    <3> QED
      BY <3>3 DEF GInv, ConflictsAreReal, LeadersAreWellFormed
  <2>3. CASE c \notin refused /\ pc[c] # "returned"
    BY <2>3 DEF Reply, NoReply
  <2> QED
    BY <2>1, <2>2, <2>3
<1> QED
  BY <1>1, GatewayInductive, PTL
=============================================================================
