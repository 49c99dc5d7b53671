# A verification development for resume-agent-kernel

The kernel is a Go service with two jobs. It analyses one resume against a set
of posts by letting a language model call read-only tools until an analysis is
submitted (`internal/agent`, `llmloop`, `model`, `tools`, `runtime`), and it
allocates candidates to recruiting demands with a deterministic algorithm
(`internal/allocation`). Both are offered over HTTP, and both are idempotent:
a client that repeats a request must not make the work happen twice.

This directory holds TLA+ modules translated from that code, TLC configurations
that check them on small instances, and proofs that TLAPS checks. File names
below are relative to `internal/` of the repository.

## 1. The system

| component | state | operations | talks to |
|---|---|---|---|
| HTTP server (`server/`) | none of its own | authenticate, check and decode a request, analyse, allocate, health, capabilities | task runtime, allocation service |
| task runtime (`runtime/`) | one context, trace and collector per task | `Execute`: check the envelope and the pin, go through the session store; `runTask`: the loop over chunks of 24 posts, the outcome | session store, analysis loop |
| session store (`session/store.go`) | `entries`, one mutex | `Execute`: join an entry, or sweep, insert, run, publish | runs the task runtime's closure |
| analysis loop (`llmloop/candidate.go`, `budget.go`, `context.go`) | turns, calls, tokens spent, phase, replayed rounds, stall counter | one turn: preflight, request, bill, tool calls | model client, tool registry, collector |
| collector (`agent/collector.go`) | profile, matches, done, failed | `SubmitProfile`, `SubmitMatches`, `Finish` | called by the analysis loop |
| model client (`model/http_client.go`, `tokens.go`) | calibration of the token counter | `Complete` with transport retries | provider (external) |
| tool registry, MCP providers (`tools/`) | tools by name, `frozen` flag; sessions | register, freeze, execute, load, close | MCP servers (external) |
| allocation service (`allocation/service.go`) | `cache`, `slots`, one mutex | `Execute`: look up, check the age, take a slot, six steps, commit | allocation plan |
| allocation plan (`allocation/service.go`, `snapshot.go`) | one execution: options, running supply, decisions | read, filter, rank, simulate, validate, submit | none |
| contracts, protocol types, text pipeline, packaging | none | pure functions, data types, scripts | |

What interacts, and how:

- Requests are goroutines. They share the map of the session store and the
  cache and slots of the allocation service, each under a mutex that is *not*
  held while the work is done. Followers wait on a channel of an entry that the
  map may drop in the meantime.
- A task is sequential, but its context is not: the deadline, the client's
  disconnection and a provider's own timeout arrive between any two steps.
- The provider decides what a reply says, how many tool calls it lists, how many
  transport attempts were needed and what it bills. The loop may only rely on
  what it measures.

The hazards that follow from this are listed in `PROJECT.json`, each at the line
where it bites, with the properties that would notice.

### What makes each component correct

- *Session store*: at most one run per key at a time, however callers come and
  go; an entry found for an hour; an answer is the outcome of a finished run of
  the same key **and** payload; bounded size; nobody waits for ever.
- *Analysis loop*: never spends more than its total as long as the provider is
  honest; a request and its reply fit the window; analysing never eats up the
  tokens needed to submit; every path uses up something, so the loop ends; a
  stall ends the task; once it finishes, nothing explores any more; a success is
  complete.
- *Collector*: a submission is accepted or refused as a whole and never changed
  after; whatever is delivered stands in the resume, on the page and within the
  lines it names; doubt about a resume reaches all its scores; the ranking is
  determined.
- *Model client*: one answer per call; every request the provider may bill is in
  the usage; a context that ended starts no row of retries.
- *Tool registry, MCP providers, process*: whatever server fails while they are
  loaded, no session is left open, nor after an orderly stop; only allowed tools without side effects are reachable; a task
  runs with exactly the tools it was frozen with, across restarts; starts and
  stops come to an end.
- *HTTP server*: a refused request does not use up its key, and a conflict has a
  cause.
- *Allocation service*: slots come back; only committed results are replayed and
  only to the same request; a stale snapshot gives no plan; bounded cache.
- *Allocation plan*: each decision is the first choice *at its moment*; running
  counters agree with the decisions; every valid snapshot gets a plan.

## 2. The modules

### `AgentLoop` (with `Collector` and `Conversation`)

`RunCandidate`. `pc` is the place in the loop body: `"top"` before the preflight,
`"calling"` while a request is out, `"tools"` while the calls of a reply are
executed, `"returned"`.

| action | code |
|---|---|
| `StopBeforeRequest` | the ordered checks at the top of a turn |
| `GiveUp`, `SendRequest` | the preflight: phase, compaction, reserve, forced phase, second compaction, available output, cap |
| `Overspend`, `ModelError`, `MalformedReply`, `WellFormedReply` | the four ways `Complete` and the checks after it end, each with the bill of `recordUsage` |
| `RefusedCall`, `ReadSections`, `SearchEvidence`, `OtherTool`, `CallSubmitProfile`, `CallSubmitMatches`, `CallTaskDone` | one tool call each, by what it can change |
| `CallCutShort`, `ToolTimesOut`, `CallNotMade` | the ways a call ends the task |
| `EndRound` | the end of a turn: the round is appended, the stall counter updated |
| `ContextStep` | the deadline comes near, passes, or the client goes away |

Token arithmetic is the program's own (`ceil(base * ratio * 1.10)`, reserves,
integer division by the number of attempts), with the calibration ratio in
percent. A message is only its size, a resume a number of lines; a call that
counts as progress only the first time is a key. The evidence check of a
submission is a free verdict here (`RefusedCall` or acceptance); module `Evidence`
decides it. Three ghosts serve the properties: `honest` records whether every bill
so far stayed within what its request allowed, `round.explored` whether a tool that
the finishing phase does not offer was executed in the round, a failed one
included, and `request.submission` what a final request in the place of the one
that was sent would have been estimated at.

### `ModelClient`, and `ModelCall`, what the loop assumes of it

`HTTPClient.Complete`. The actions are the ways an attempt goes on: it reaches the
provider (`Deliver`), is answered (`Respond`, `RefuseRequest`), breaks off
(`ConnectionFails`), meets the client's own deadline (`ClientTimeout`) or the end of
the task's context (`ContextError`); then the pause (`BackoffOver`,
`BackoffInterrupted`: both branches of the `select` when both are ready). `ModelCall`
is what `AgentLoop` takes for granted in one step: an answer after 1 to `Attempts`
attempts, only the last of which can have reported its usage.
`ImplementsModelCall` is that refinement, with the liveness of an answer.

### `Evidence`, and `Submissions`, the collector as the loop sees it

Every check of `agent/collector.go`: quotes against the lines of the resume (white
space skipped, the page and the lines named, the page break), claims, tags,
matches, the quality limit of a thin resume, `task_done`, the hand-over to the next
chunk and the final ranking. A character of the text is its line and column, so that a
quote occurs where its characters map, in order and without a gap, to places of
the text (`StandsAt`). `Verify` looks for it in the lines from the first to the last;
the property `EvidenceIsGenuine` says that it stands in the text of the whole page,
all of it between these two lines. The model's submissions are chosen from lists with every single fault;
of them only the types of their fields are assumed (`SubmissionsAssumption`). `Submissions` has the steps of `Collector`, the ones `AgentLoop`
takes; `ImplementsSubmissions` shows that `Evidence` allows no others: so the free
verdict of `AgentLoop` is justified.

### `Analysis`

`runTask`, over the loop of `AgentLoop`, which it extends: its variables are those
of the loop plus the stage of the task, the chunk, the task's own collector and
the answer.

| action | code |
|---|---|
| `PrepareFails`, `TextRefused`, `Prepare` | scope, text, client and registry before the first chunk |
| `LoopStep`, `TaskContextStep` | any step of the running loop, and of the context all chunks share |
| `NextChunk` | the loop returned without an error and posts are left: merge, and start the loop anew |
| `Complete` | the last chunk is merged and everything is put into the result |
| `Fail` | the deferred function: the error becomes a code, and nothing is delivered |

`NextChunk` is where the code is easy to get wrong. It resets what `RunCandidate`
declares (phase, repairs, calibration, rounds, stall counter) and keeps what lives
in the trace (turns, calls, tokens) or is handed over (the profile). The public
request carries one post, so several chunks only occur through `Service.Execute`.

### `SessionStore`, and `SingleFlight`, its promise

One caller is one call of `Execute`; a retry is a further caller. An entry is
named by the caller that created it, because followers keep a pointer to it. What
happens between `Lock` and `Unlock` is one step (`Hit`, `Miss`, the publishing
part of `RunEnds`); the run and the wait are not. `SingleFlight` states the
promise without a map, times or waiting lists, and `ImplementsSingleFlight` is
the refinement: leaders are its executions.

### `Gateway`

`POST /v2/tasks/execute`, in front of the store: it extends `SessionStore` with what
is wrong with a request (`form`) and who was refused. `Refusal` is the sequence of
checks of the handler, the envelope and the pin, one fault of a request (`Oddities`)
for each branch that has a code of its own; what passes them takes the steps
of the store (`InStore`). Blank names are among the faults because the schema asks
for one character and the envelope for one that is not white space; a missing or
malformed scope or reference the schema refuses itself. `Reply` is the status and code on the wire, derived from the
refusal or from the store's answer as `safeError` does.

### `Lifecycle`, with `Registry`

One process and the instances after it. `phase` is the place in `main`: loading the
servers one by one (`Check`, `Connect`, `ListPage`, each with its failures), freezing
the registry, serving, draining, closing, the exits that skip closing, a crash and
the restart with another configuration and changed servers. `Registry` has the
registration of a row of providers, the fingerprint and what is reachable, as
operators: `NewProviders` is said by what it accepts and yields, a tool being a
place in the row, because the code gives no registry at all after a refusal. Tasks carry the pin they were created with; `Submit` is a first or a
repeated request of a task, compared with the fingerprint of the instance.

### `AllocationService`

The two critical sections (`Lookup`, `Commit`), the slots (`TakeSlot`,
`LeaveQueue`, `Release`), the steps with the context check before each
(`PlanStep`, `PlanFails`), and a clock. The clock is read once, in `Start`, and
all ages are computed from that reading, as in the code. The plan of a caller is
named by the caller; module `AllocationPlan` says what it is. The ghost `evicted`
has the keys whose entry once made room for another key's.

### `AllocationPlan`

The six steps of one execution over a snapshot. The lists of a snapshot are
finite sets, its codes strings, its numbers integers (`SnapshotsAssumption`); the
queue is the one sequence the order of `execution.rank` allows (`Ranked`). The properties recompute every decision from the
snapshot and the decisions before it, without using the running state.

### Proof and model-checking modules

Each module `*Proofs` extends the module it is about; `GatewayProofs` has the proofs
of the session store too. The modules `MC*` define values of constants and symmetry sets. A definition whose comment starts with
"Mutant:" is an erroneous variant of the definition after it. No specification
uses it; it serves to see that a property can fail.

## 3. The runs

| run | question | instance |
|---|---|---|
| `task` | Does a task of several chunks keep its one tight budget and its window, keep the submission affordable, hand on its profile, deliver all or nothing, name the cause of its failure, and come to an end? | two chunks of one post, 4 turns, 5 calls, 52000 tokens, window 11000, two transport attempts, replies of 2500 tokens or, dishonestly, of 60000, usage unreported or reported at 110 % of the local count |
| `progress` | Do the stall counter, the finishing phase, compaction and the collector behave, whatever the deadline does? | 6 turns, 5 calls, 32000 tokens, short replies and replies longer than any request asks for, window 8000 so that compaction happens, one line, one external tool |
| `correction` | Is a correction affordable after the first final submission? (no) | 24000 tokens, replies of 600 or 8000 |
| `model_client` | Is a call of the model answered as the loop assumes, and is every request in its usage? | `retry_count` 9, so six attempts; usage reported, partly reported or not |
| `evidence` | Can anything unfounded get in, is doubt carried to every chunk, is the ranking determined, are submissions atomic? | two texts of two pages, two chunks of two posts, every single fault of a claim, tag, match or quote |
| `sessions` | One run per key and hour, answers only from one's own request, conflicts only with what was executed, everyone answered; refinement of `SingleFlight` | 3 requests, well formed, with a blank task id or a foreign pin, 2 keys, 2 payloads, capacity 1, TTL 1, clock to 2; by the symmetry of callers, keys and payloads one request is given |
| `gateway_defaults` | May members with a published default be left out? (no) | 2 requests with every oddity |
| `lifecycle` | Sessions, pins, allow lists, shutdown; do starts and stops end? | six configurations of up to two servers, good and bad; five pages; two tasks; any number of restarts |
| `allocation` | Slots, replay, cache, conflicts | 3 callers, 2 keys, one slot, cache of 1, two steps, TTL 3, longest execution 1, snapshots of two ages |
| `allocation_five_minutes` | Do conflicting plans of a key start five minutes apart? (no) | 3 callers, 1 key, 2 slots |
| `allocation_live` | Every call returns, with all slots taken | 2 callers, one slot |
| `plan` | Is every decision the first choice? | every pair of demands that ties or differs in one column, three members |

Why these bounds are enough to be of interest. In `task`, four turns are two
analysing requests, the forced change of phase, a first final reply and its
correction, or two chunks of a request each and what is left; the total is small
enough for the reserve to force the change of phase, and for the second chunk to
run short of turns, calls or tokens after a wasteful first one. Input billed at 110 % is
all that an uncalibrated estimate allows: the first reply raises every later
estimate by a tenth, and with it what the reserve has to cover; a request without a
report is billed at the estimate, an empty reply at the full cap. The exception of
`FinalSubmissionAffordable` is never met in this instance: it takes one round that
adds about as much as the final request before it and 7000 tokens, for which the
window is too small here. In
`progress`, six turns allow three idle rounds after a progressing one, and two
idle rounds, progress and a further turn before the last two turns are reached;
the window forces rounds out so that a line is read again after it was dropped,
also in the finishing phase that two idle rounds began.
`sessions` needs a leader, a caller of another key whose sweep meets the entry,
and one caller after it: three; the clock reaches the age at which an entry is
swept. `allocation` needs an execution overtaken between lookup and commit, and a
later caller that meets the result: three. The tight case of `ConflictWindow` takes
a fourth, a lookup that began before a repetition set the entry back; four are
too many for TLC, and the theorem covers them. `evidence` has a quote over two lines,
one over the page break, one before and one after the lines named, and one for each
other rule a quote can break, in the first and
in a later place of a batch. `lifecycle` has configurations that fail in the
second server, so that there is something to close, and pages that replace a
harmless tool by one with side effects. The `plan` snapshots contain ties in each
column of the order, a preferred tag just below the threshold, a paused demand, a
member already counted in the supply, and a sequence outside the allowed range.

`MaxNow` bounds the clocks; it is larger than the lifetime of an entry, so
entries do expire. Nothing else is bounded beyond what the code bounds.
`CHECK_DEADLOCK FALSE` is set for the stores, whose callers make one call each
and are then all returned; the loop, the task, the model client and the plan
stutter explicitly at their end, so every other stop is reported there.

### Fairness

- `SessionStore`: weak fairness of `RunEnds` (the run has a deadline: `runTask`
  derives its context with the task's duration, and the loop of section 4 ends)
  and of `FollowerServed` (a goroutine whose channel is closed is scheduled).
  Clients owe nothing: no fairness of `Hit` or `Miss`.
- `Gateway`: the same two, taken by the requests that passed the checks.
- `ModelClient`: weak fairness of the timers (`ClientTimeout`, only if a timeout is
  set, and `BackoffOver`), of the error that follows the end of the context, and of
  that end, because a task's context has a deadline. The provider need not answer.
- `Lifecycle`: weak fairness of the steps of the main goroutine and of the deadlines
  it sets (connecting, listing, ten seconds of shutdown). No server has to answer,
  to stop listing pages, or to behave; no task has to end; no signal has to come.
- `AllocationService`: weak fairness of the steps of a call that has begun, and
  of the end of the context of a queueing call, which carries a deadline of at
  most 30 seconds. The lock is only ever held for a bounded time.
- `AgentLoop`, `Analysis`: none. Termination is a variant: `EveryStepUsesUpWork` says
  that each step of the loop decreases a natural number, `TaskUsesUpWork` the same of
  a task across its chunks. It holds without any
  assumption on the provider, provided each call returns, which deadlines ensure.

## 4. What is proved

Every invariant and every action property of a passing run is a theorem, for every
value of the constants that satisfies the named assumptions of the modules. They
say of the constants what the code's types and checks say: finite sets of posts,
members and demands, integers and strings where the program has them, natural
numbers for sizes and limits, between one and six transport attempts (the client's
`MaxAttempts`), and a `NoCaller` that is no caller. Callers, keys, payloads, servers,
restarts and the length of a text are not bounded.

Each module has one inductive invariant (two where two arguments are
independent), a lemma per action or group of actions that it is kept, and theorems
that read the properties off.

**`GatewayProofs`** (store and endpoint). No set of callers or keys needs to be finite.

- `IInv` strengthens the two properties that are not inductive. That no two runs of
  one key overlap needs *a running caller owns the entry of its key*
  (`RunsAreEntries`), which in turn needs that the sweep keeps open entries
  (`SweptKeeps`), and *an entry is led by someone who runs or ran, with that key*
  (`EntriesAreRuns`). That followers are served their own request needs *the entry
  waited for has my key and payload* (`WaitsForOwnRequest`), which survives the
  removal of the entry from the map. `NeverTwoRuns`, `KeptForItsLifetime` and
  `ServedFromOwnRequest` follow.
- `NeverOverCapacity` is proved next to it: that the used part of the map is
  finite is part of the induction.
- `Refinement`: `Spec => ImplementsSingleFlight`, one lemma per action. `Hit` is
  `Refuse` or `Wait`, `Miss` is `Refuse` or `Start`, `RunEnds` is `Finish`, the
  two ends of a wait are `Serve` and `Leave`, all else stutters. `Start` is the
  interesting one: its guard is `RunsAreEntries`.
- `StoreBehindGateway`: every behaviour of the endpoint is one of the store, so all
  of this holds behind it (`GatewayKeepsPromises`).
- `ConflictsHaveCauses`, but for a blank key or task id: only well-formed requests lead (`LeadersAreWellFormed`), and a
  conflict is recorded against a leader that stays known (`ConflictsAreReal`).

**`AgentLoopProofs`.**

- `IInv` is the type invariant, what a request in flight looks like
  (`RequestOut`), that the loop is only open while the spending is within the
  total (`OpenWhileWithinBudget`), that DONE is only accepted on a whole
  collector (`DoneIsWhole`), and the properties themselves.
- `BudgetIsKept`: the heart is arithmetic. The cap is at most
  `(remaining - reserve) div attempts - estimate`, so all attempts with their
  full cap plus the reserve fit what remains, and any honest bill does.
  `WindowIsKept` and `OnlyWholeResults` follow from the same invariant.
- `SubmissionStaysAffordable`, by `FInv`, whatever is reported and calibrated: an honest
  bill leaves the reserve beside what was spent (`ReserveIsLeft`), the reserve of an
  analysing request is that of two final ones as they were estimated then
  (`SubmissionIsReserved`), and what compaction keeps of a history is no longer than
  the whole (`Sized`), so that its estimate is no larger at the same calibration
  (`EstimateIsMonotone`). The first final request can only fail after its estimate
  outgrew both.
- `IdleRoundsEndTheTask`, `ReadingAgainIsProgress`, by `LInv`: no request is out after
  three idle rounds, and the one after two is final (`StallIsSeen`); a round that
  returned a line the model could not see has progressed (`ReadingIsCounted`).
- `FinishingGoesOn`, by `PhaseIsKept`: the phase is that of the request being answered
  and was that of every final one before it, and what explored did so in the present
  round, not in that phase. `NothingAfterTheEnd` holds of each step.
- `TheLoopEnds`: the variant `WorkLeft` decreases with every step of the loop,
  case by case.

**`AnalysisProofs`.** For every number of chunks (`ChunksAssumption`: at least one).

- `TInv` joins `IInv` of the loop, which `NextChunk` re-establishes because the
  chunk before it returned within the total, with *the chunks before the present
  one are complete* (`CoveredBefore`), *what the loop returned is what the
  counters and the collector show* (`ReturnedForCause`, one case per action of the
  loop) and *a task without an end has no answer* (`OpenUntilEnded`).
- `AllPostsOrNothing`, `TaskBudgetIsKept`, `OneProfile` and `CodesAreTrue` follow.
  The last one is why `ReturnedForCause` is needed: the code is computed after
  the loop is gone, from its error alone.
- `TheTaskEnds`: `TaskUsesUpWork`, the variant across chunks. Its value is written out
  at each point of the loop (`TaskWorkAt`); the moves are those of `TheLoopEnds`.

**`AllocationServiceProofs`.** For any number of callers, keys, payloads and slots.

- `SlotsComeBack` and `CacheIsBounded`: cardinalities, next to the type invariant.
  The second needs that an eviction leaves less than the capacity
  (`EvictionMakesRoom`), whatever the sweep removed.
- `OnlyCommittedPlansAreReplayed` and `ConflictsAreFound`, by `IInv`. The entry of a key is
  a committed plan of that key (`EntriesArePlans`), and nobody has an answer before
  the place that decides it (`Undecided`). For the conflicts: each plan made is
  *spoken for* by the entry of its key, which has its payload and is at most one
  execution older, or so much time has passed that whoever commits from now on
  started late enough (`PlansAreKept`). Stating that invariant is what showed the
  two ways in which a stronger window fails (section 5).

**`AllocationPlanProofs`.** For snapshots of every size.

- `PInv`: what `filter` stores are the options of the demands that may receive a
  member (`OptionsAreOpen`); supply and sequence of a demand, as they run, are those
  that follow from the decisions so far (`SupplyIsCurrent`); what is left of the
  members is the rest of the queue (`QueueIsServed`). `FirstChoices`,
  `AcceptedArePlanned` and `EveryMemberOnce` follow.
- The order of members is strict and total (`RankingExists`), and so is that of
  options (`BestIsFirst`), so there is one ranking and one best option. Both need an
  induction over a finite set, which is done by taking the smallest subset without
  a ranking or a first (`SmallestSubset`, from the well-foundedness of the natural
  numbers).

**`EvidenceProofs`.** For every text and every list of submissions.

- `EInv`: what the collector holds quotes the resume, and what a thin resume limits is
  limited (`ProfileSound`, `MatchesSound`), in this chunk and in those before it
  (`CoverageOK`). `QuotesAreGenuine` rests on `VerifiedIsGenuine`: what `Verify`
  finds in the lines it looks at stands, without a gap, in the text of the page
  named, and within those lines. `DoubtsReachScores` and `OneRanking` follow.
- `LoopSeesSubmissions`: the collector with all its checks takes only the steps of
  `Submissions`, the ones `AgentLoop` assumes of it.

**`ModelClientProofs`.** For every `retry_count` and whatever is reported.

- `MInv`: while the call goes on, its total consists of attempts that reported
  nothing (`TotalIsUnknown`), each of one request at most (`OneRequestEach`); after the
  end of the context no further request goes out (`FewAfterTheEnd`).
  `EveryRequestIsCounted` follows.
- `ClientAnswersAsAssumed`: the safety part of `ImplementsModelCall`, by `TotalIsUnknown`:
  only the last attempt can have reported.

**`LifecycleProofs`.** For any servers, lists of tools, configurations and restarts.

- `LInv`: the phase says which sessions are open and which providers loaded
  (`SessionsOf`), which registry is served (`RegistryIsFrozen`) and where tasks may
  run (`TasksAreServed`). `EverySessionIsClosed`, `TasksKeepTheirTools` and
  `SessionsOutliveTasks` follow. A registry that cannot be frozen and a listener that
  fails end the process by `os.Exit`, past the deferred closing, as a crash does: the
  first theorem names these three as the only ends that leave sessions, which then
  last as long as the connections of the process.
- `OnlyAllowedAreReached`, by `AInv`: the tools of a loaded provider were allowed and
  announced no side effects (`ProvidersAreAllowed`), and a name in the registry stands
  for the tool at one place of the row of providers (`OnePlaceEach`).

### Model-checked only

- Liveness under fairness, out of reach of this prover: `EveryCallerReturns`,
  `EveryCallReturns`, `PhasesEnd`, and in `ImplementsModelCall` that an answer comes.
- What `LinesOf` makes of a text (the library's `FlattenSeq`, a recursion): the proofs
  of `Evidence` hold for any sequence of lines.

## 5. Where the code and its documentation differ

1. *Correction reserve* (run `correction`). The loop says it keeps one correction
   affordable (`llmloop/candidate.go:120`). The amount is computed from the input
   before the first final request; the correction also replays that request's
   reply and its feedback. When the total is just enough, or after a long reply,
   the correction does not fit and the task stops with `next_request`, with every
   bill honest. What does hold, with reported and unreported usage, is
   `FinalSubmissionAffordable`: analysing never makes the *first* final submission
   unaffordable, unless it is estimated at more than both requests that were held
   back together, because of the one round since (its reply and tool results) and of
   the calibration, which an honest bill raises by about a tenth at most.
2. *Five-minute cache* (run `allocation_five_minutes`). README.md:77 promises a
   five-minute idempotency cache. An entry carries the *start* of its execution,
   and the last commit of a request wins. A slow execution thus replaces a newer
   entry of the same request by an older time, and another payload under that key
   is accepted earlier than five minutes after the newest start. What does hold
   is the lifetime less *twice* the longest execution (`ConflictWindow`): once
   because a repetition may set the entry back by an execution, once because the
   sweep of an execution uses the time of its own start. And it holds only for
   keys that were never evicted: at 256 entries the oldest makes room, also when
   the key that is stored has an entry already.
3. *Published defaults* (run `gateway_defaults`). The request schema gives defaults
   to members it does not require. The analysis endpoint does not apply them and
   refuses a request without them; the allocation endpoint applies its own
   (`server/allocation.go:88`).

## 6. What is abstracted, and what is not modelled

- Chunks of a task have the same size; in the code the last may be smaller than
  24 posts. `AgentLoop` alone is the first chunk; `Analysis` is all of them.
- `AgentLoop` takes one call of the model and one submission as a step each;
  `ModelClient` and `Evidence` are shown to allow no more than those steps.
- Characters of a text are model values, `MinQuote`, `MaxSpan` and `MinCharacters`
  small; confidences and qualities are in percent, scores in ten-thousandths, so
  that the rounding of the code's floating point is not modelled.
- The published schemas are one verdict (`contract`) of the checks; the response
  schema is one of the ways an execution fails in `AllocationService`, and is left
  out of `Gateway`, where it would turn a result into `agent_invalid_output`.
- The redirects that Go's HTTP client may follow by itself (a 307 or 308 sends the
  request again) are not modelled: an attempt of `ModelClient` is one request, and
  `RequestsAreCounted` counts attempts.
- `NewTokenCounterForModel` can only fail on the vocabulary that is compiled in, before
  the loop begins; that way out is left out of `AgentLoop`.
- A pin is compared as a whole: `Lifecycle` tells toolsets apart, `Gateway` only
  whether it is that of the instance.
- A remote tool succeeds, fails or misses its deadline; its content is free. The
  internal OCR tool, the schemas' compiler and the transports of MCP are external.
- Not modelled: the endpoints that only read, the mapping of allocation errors to
  codes, the wording of the feedback on refused calls (`tools/errors.go`), the text
  pipeline behind its verdict, the byte-pair encoding, packaging. None of them
  keeps state that a property of the kernel depends on.

## 7. Plan

1. (done) `AgentLoop`, `Collector`, `Conversation`: the budget and the loop.
2. (done) `SessionStore`, `SingleFlight`, their refinement and proofs; `Gateway`, the
   composition with the endpoint.
3. (done) `AllocationService`, `AllocationPlan`.
4. (done) `ModelClient`, shown to allow only what `AgentLoop` assumes of it.
5. (done) `Analysis`: `runTask` over chunks that share one budget and one profile,
   the classification of failures.
6. (done) `Registry`, `Lifecycle`: all-or-nothing loading, freezing, pins over
   restarts, shutdown against running tasks.
7. (done) `Evidence`: what a submission must cite, with the collector's promise.
8. (done) Proofs: every invariant and every action property the runs check, the
   refinements of `SingleFlight` and `Submissions`, and the safety part of that of
   `ModelCall`.
9. Left: that the bill of `AgentLoop` is that of `recordUsage` for a usage of
   `ModelCall`, so that loop and client compose in one theorem; that `Analysis` and
   `Evidence` agree on the collector a chunk starts with.
