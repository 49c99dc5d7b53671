------------------------------ MODULE AgentLoop ------------------------------
(***************************************************************************)
(* internal/llmloop: RunCandidate, the loop that lets the model call tools *)
(* until the analysis is submitted or a budget ends it.  One turn is a     *)
(* preflight (pc = "top"), one model request (pc = "calling") and the tool *)
(* calls of its reply, one after the other (pc = "tools").  The context of *)
(* the task may come close to its deadline, expire or be cancelled between *)
(* any two of these steps.                                                 *)
(*                                                                         *)
(* Tokens are counted with the program's own numbers.  What the provider   *)
(* answers, what it bills and which tools it calls is chosen freely; the   *)
(* ghost `honest' records whether every bill so far stayed within the      *)
(* estimate of the request and within the output cap it was sent.          *)
(***************************************************************************)
EXTENDS Collector, Conversation

CONSTANTS
    MaxTurns, MaxToolCalls, MaxTokens,
    MaxContextTokens,   \* after initBudget: 32768 when the request has none
    Attempts,           \* HTTPClient.MaxAttempts(), 1 for any other client
    AnalysisTokens,     \* instructions, full catalog and task state
    FinalTokens,        \* the same with the catalog of the finishing phase
    ProfileTokens, MatchTokens,  \* what an accepted submission adds to the state
    LineTokens, FeedbackTokens,  \* a returned line, any other tool result
    ReplyTokens,        \* sizes of the model's replies
    InputBills          \* usage of an answered request: its input in percent of the
                        \* local token count, or Unreported (input and output)

ASSUME BudgetAssumption ==
    /\ MaxTurns \in Nat /\ MaxToolCalls \in Nat
    /\ MaxTokens \in Nat /\ MaxContextTokens \in Nat

ASSUME AttemptsAssumption == Attempts \in 1..6

ASSUME TokenAssumption ==
    /\ AnalysisTokens \in Nat /\ FinalTokens \in Nat
    /\ ProfileTokens \in Nat /\ MatchTokens \in Nat
    /\ LineTokens \in Nat /\ FeedbackTokens \in Nat
    /\ ReplyTokens \subseteq Nat

Unreported == -1

ASSUME InputBillsAssumption == InputBills \subseteq Nat \cup {Unreported}

VARIABLES
    pc,              \* "top", "calling", "tools" or "returned"
    turns, calls, spent,  \* trace.Turns, ToolCallCount, InputTokens + OutputTokens
    repairs,         \* trace.Budget.FormatRepairs
    final, finalAttempted,
    counter,         \* the token counter: calibration in percent, observed
    collector, history,
    request,         \* the request last sent: local token count, cap, reserve, phase, and
                     \* what a final request in its place was estimated at
    round,           \* the round being executed; explored: a tool that the finishing
                     \* phase does not offer was executed in it
    ctx,             \* "live", "closing", "expired" or "cancelled"
    result,          \* what RunCandidate returned
    stopReason,      \* trace.Budget.StopReason, "none" while it is empty
    honest           \* ghost: no bill exceeded what its request allowed for

vars == <<pc, turns, calls, spent, repairs, final, finalAttempted, counter,
          collector, history, request, round, ctx, result, stopReason, honest>>

StopReasons == {"token_limit", "tool_limit", "no_progress", "context_limit",
                "next_request", "turn_limit"}
ModelErrors == {"deadline", "cancelled", "rate_limited", "connection"}
Results == {"none", "nil", "stopped", "invalid_output", "incomplete"} \cup ModelErrors

TypeOK ==
    /\ pc \in {"top", "calling", "tools", "returned"}
    /\ turns \in 0..MaxTurns
    /\ calls \in 0..MaxToolCalls
    /\ spent \in Nat
    /\ repairs \in 0..2
    /\ final \in BOOLEAN /\ finalAttempted \in BOOLEAN
    /\ counter \in [ratio: Nat, observed: BOOLEAN]
    /\ collector \in CollectorType
    /\ history \in ConversationType
    /\ request \in [base: Nat, limit: Int, reserve: Int, final: BOOLEAN, submission: Nat]
    /\ round \in [tokens: Nat, lines: SUBSET Lines, progress: BOOLEAN, called: BOOLEAN,
                 explored: BOOLEAN]
    /\ ctx \in {"live", "closing", "expired", "cancelled"}
    /\ result \in Results
    /\ stopReason \in StopReasons \cup {"none", "model_error", "invalid_output", "materials_incomplete",
                                      "timeout", "cancelled"}  \* set by runTask
    /\ honest \in BOOLEAN

EmptyRound ==
    [tokens |-> 0, lines |-> {}, progress |-> FALSE, called |-> FALSE, explored |-> FALSE]

Init ==
    /\ pc = "top"
    /\ turns = 0 /\ calls = 0 /\ spent = 0 /\ repairs = 0
    /\ final = FALSE /\ finalAttempted = FALSE
    /\ counter = [ratio |-> 100, observed |-> FALSE]
    /\ collector = NewCollector
    /\ history = NewConversation
    /\ request = [base |-> 0, limit |-> 0, reserve |-> 0, final |-> FALSE, submission |-> 0]
    /\ round = EmptyRound
    /\ ctx \in {"live", "closing"}
    /\ result = "none" /\ stopReason = "none"
    /\ honest = TRUE

-----------------------------------------------------------------------------
(* Counting tokens *)

Min2(a, b) == IF a <= b THEN a ELSE b
Max2(a, b) == IF a >= b THEN a ELSE b

\* ceil(base * ratio * 1.10), with the ratio in percent.
Estimate(base) == (base * counter.ratio * 11 + 999) \div 1000

\* The first billed input replaces the calibration, a later one raises it or
\* lets it decay by a tenth.
Observed(percent) ==
    LET ratio == Max2(25, Min2(400, percent))
    IN  [ratio    |-> IF counter.observed THEN Max2(ratio, (counter.ratio * 9) \div 10) ELSE ratio,
         observed |-> TRUE]

\* The local count of the messages of a request in the given phase.
WindowTokens(h, fin) ==
    (IF fin THEN FinalTokens ELSE AnalysisTokens)
    + (IF collector.profile THEN ProfileTokens ELSE 0)
    + MatchTokens * Cardinality(collector.matches)
    + h.tokens

EstimateOf(h, fin) == Estimate(WindowTokens(h, fin))

-----------------------------------------------------------------------------
(* The preflight of a turn, in the order of the code: the phase, a first   *)
(* compaction, the reserve, a forced change of phase, a last compaction.   *)

Remaining == MaxTokens - spent

\* Mutant: the phase is derived anew in every turn.
FinalForgotten ==
    \/ MaxTurns - turns <= 2
    \/ MaxToolCalls - calls <= 3
    \/ history.noProgress >= 2
    \/ ctx # "live"

FinalByLimits ==
    \/ final
    \/ MaxTurns - turns <= 2
    \/ MaxToolCalls - calls <= 3
    \/ history.noProgress >= 2
    \/ ctx # "live"

CompactionDue ==
    LET est == EstimateOf(history, FinalByLimits)
    IN  est > (MaxContextTokens * 3) \div 5 \/ est * 3 > Remaining

Trimmed == IF CompactionDue THEN Compact(history, 2) ELSE history

\* Mutant: nothing is held back while analysing.
SubmissionReserveNone == 0

SubmissionReserve == 2 * (EstimateOf(Trimmed, TRUE) + 4096) * Attempts

MustFinalize ==
    /\ ~FinalByLimits
    /\ LET est == EstimateOf(Trimmed, FALSE)
       IN  \/ Remaining < SubmissionReserve + (est + 1024) * Attempts
           \/ est + 2048 > MaxContextTokens

FinalPhase == FinalByLimits \/ MustFinalize

Squeezed == IF MustFinalize THEN Compact(Trimmed, 2) ELSE Trimmed

CorrectionReserve ==
    LET est == EstimateOf(Squeezed, TRUE)
    IN  IF /\ ~finalAttempted
           /\ MaxTurns - turns >= 2
           /\ Remaining >= 2 * (est + 1024) * Attempts
        THEN Min2((est + 4096) * Attempts, Remaining - (est + 1024) * Attempts)
        ELSE 0

Reserve == IF FinalPhase THEN CorrectionReserve ELSE SubmissionReserve

\* Mutant: the share of one transport attempt is all that remains.
AvailableOneAttempt(h) ==
    LET est == EstimateOf(h, FinalPhase)
    IN  Min2((Remaining - Reserve) - est, MaxContextTokens - est)

\* Mutant: the reply may overflow the context window.
AvailableTotalOnly(h) ==
    LET est == EstimateOf(h, FinalPhase)
    IN  (Remaining - Reserve) \div Attempts - est

Available(h) ==
    LET est == EstimateOf(h, FinalPhase)
    IN  Min2((Remaining - Reserve) \div Attempts - est, MaxContextTokens - est)

Prepared == IF Available(Squeezed) < 1024 THEN Compact(Squeezed, 1) ELSE Squeezed

MinimumOutput == IF collector.profile /\ AllMatched(collector) THEN 128 ELSE 1024

\* Mutant: a cancellation goes unnoticed.
CtxEndedByDeadline == ctx = "expired"

CtxEnded == ctx \in {"expired", "cancelled"}

\* ctx.Err()
CtxErr == IF ctx = "cancelled" THEN "cancelled" ELSE "deadline"

Return(res, reason) ==
    /\ pc' = "returned"
    /\ result' = res
    /\ stopReason' = reason

Stop(reason) == Return("stopped", reason)

Running == UNCHANGED <<result, stopReason>>

\* The checks at the top of a turn, each behind the ones before it.
MayTurn == pc = "top" /\ turns < MaxTurns /\ ~CtxEnded
MayCall == MayTurn /\ Remaining > 0
MayStart == MayCall /\ calls < MaxToolCalls
\* Mutant: one more idle round is allowed.
MayRequestLate == MayStart /\ history.noProgress < 4

MayRequest == MayStart /\ history.noProgress < 3

StopBeforeRequest ==
    /\ \/ pc = "top" /\ turns >= MaxTurns /\ Stop("turn_limit")
       \/ pc = "top" /\ turns < MaxTurns /\ CtxEnded /\ Return(CtxErr, "none")
       \/ MayTurn /\ Remaining <= 0 /\ Stop("token_limit")
       \/ MayCall /\ calls >= MaxToolCalls /\ Stop("tool_limit")
       \/ MayStart /\ history.noProgress >= 3 /\ Stop("no_progress")
    /\ UNCHANGED <<turns, calls, spent, repairs, final, finalAttempted, counter,
                   collector, history, request, round, ctx, honest>>

\* The preflight finds no room for a useful reply.
GiveUp ==
    /\ MayRequest
    /\ Available(Prepared) < MinimumOutput
    /\ IF MaxContextTokens - EstimateOf(Prepared, FinalPhase) < MinimumOutput
       THEN Stop("context_limit")
       ELSE Stop("next_request")
    /\ final' = FinalPhase
    /\ history' = Prepared
    /\ UNCHANGED <<turns, calls, spent, repairs, finalAttempted, counter, collector,
                   request, round, ctx, honest>>

SendRequest ==
    /\ MayRequest
    /\ Available(Prepared) >= MinimumOutput
    /\ pc' = "calling"
    /\ final' = FinalPhase
    /\ history' = Prepared
    /\ request' = [base       |-> WindowTokens(Prepared, FinalPhase),
                   limit      |-> Min2(Available(Prepared), 8192),
                   reserve    |-> Reserve,
                   final      |-> FinalPhase,
                   submission |-> EstimateOf(Trimmed, TRUE)]
    /\ Running
    /\ UNCHANGED <<turns, calls, spent, repairs, finalAttempted, counter, collector,
                   round, ctx, honest>>

-----------------------------------------------------------------------------
(* The model's answer and its bill *)

ActualInput(percent) == (request.base * percent) \div 100

InputCost(input) ==
    IF input = Unreported THEN Estimate(request.base) ELSE ActualInput(input)

\* recordUsage: transport attempts before the last are unknown and billed at
\* the estimate and the full cap; the last one reports its input or not.
Bill(attempts, input, text) ==
    (attempts - 1) * (Estimate(request.base) + request.limit) + InputCost(input) + text

\* The output billed for a reply that may be empty: a provider that reports
\* no usage is billed the full cap for it.
EmptyOr(input) == ReplyTokens \cup (IF input = Unreported THEN {request.limit} ELSE {})

Billed(attempts, input, text) ==
    /\ pc = "calling"
    /\ turns' = turns + 1
    /\ finalAttempted' = (finalAttempted \/ final)
    /\ spent' = spent + Bill(attempts, input, text)
    /\ counter' = IF input # Unreported /\ attempts = 1 /\ ActualInput(input) > 0
                  THEN Observed(input) ELSE counter
    /\ honest' = /\ honest
                 /\ text <= request.limit
                 /\ InputCost(input) <= Estimate(request.base)

OverBudget == spent' > MaxTokens

\* Whatever came back, a bill beyond the total ends the task.
Overspend ==
    /\ \E attempts \in 1..Attempts, input \in InputBills : \E text \in EmptyOr(input) :
          Billed(attempts, input, text)
    /\ OverBudget
    /\ Stop("token_limit")
    /\ UNCHANGED <<calls, repairs, final, collector, history, request, round, ctx>>

\* Rate limits, transport errors, the client's own timeout, and the context
\* ending during the call: no attempt reported its usage.
ModelError ==
    /\ \E attempts \in 1..Attempts : Billed(attempts, Unreported, request.limit)
    /\ ~OverBudget
    /\ \E cause \in ModelErrors :
          /\ cause = "cancelled" => ctx = "cancelled"
          /\ Return(cause, "model_error")
    /\ UNCHANGED <<calls, repairs, final, collector, history, request, round, ctx>>

\* Mutant: one repair too many.
RepairsExhaustedLate == repairs > 2 \/ turns' >= MaxTurns

RepairsExhausted == repairs >= 2 \/ turns' >= MaxTurns

\* No content, or content that is not a list of tool calls.
MalformedReply ==
    /\ \E attempts \in 1..Attempts, input \in InputBills : \E text \in EmptyOr(input) :
          Billed(attempts, input, text)
    /\ ~OverBudget
    /\ \/ /\ RepairsExhausted
          /\ Return("invalid_output", "invalid_output")
          /\ UNCHANGED <<repairs, history>>
       \/ /\ ~RepairsExhausted
          /\ repairs' = repairs + 1
          /\ history' = [AppendRound(history, [tokens |-> FeedbackTokens, lines |-> {}])
                         EXCEPT !.noProgress = @ + 1]
          /\ pc' = "top"
          /\ Running
    /\ UNCHANGED <<calls, final, collector, request, round, ctx>>

WellFormedReply ==
    /\ \E attempts \in 1..Attempts, input \in InputBills, text \in ReplyTokens :
          /\ Billed(attempts, input, text)
          /\ round' = [EmptyRound EXCEPT !.tokens = text]
    /\ ~OverBudget
    /\ pc' = "tools"
    /\ Running
    /\ UNCHANGED <<calls, repairs, final, collector, history, request, ctx>>

-----------------------------------------------------------------------------
(* The tool calls of one reply *)

MayExecute == pc = "tools" /\ ~collector.done /\ calls < MaxToolCalls

\* One call: its result grows the round, its key and lines are remembered.
Called(explores, key, lines, tokens, advanced) ==
    /\ MayExecute
    /\ calls' = calls + 1
    /\ round' = [tokens   |-> round.tokens + tokens,
                 lines    |-> round.lines \cup lines,
                 progress |-> round.progress \/ advanced,
                 called   |-> TRUE,
                 explored |-> round.explored \/ explores]
    /\ history' = [history EXCEPT !.seen = @ \cup key, !.read = @ \cup lines]
    /\ Running
    /\ UNCHANGED <<pc, turns, spent, repairs, final, finalAttempted, counter,
                   request, ctx, honest>>

\* An unknown tool, arguments outside the schema, a tool the finishing phase
\* does not offer, a submission the collector refuses: feedback, nothing else.
RefusedCall ==
    /\ Called(FALSE, {}, {}, FeedbackTokens, FALSE)
    /\ UNCHANGED collector

ReadSections ==
    /\ ~CtxEnded
    /\ \E start \in Lines : \E end \in start..NumLines :
          Called(FALSE, {}, start..end, LineTokens * (end - start + 1),
                 BringsLines(history, start..end))
    /\ UNCHANGED collector

SearchEvidence ==
    /\ ~CtxEnded /\ ~final
    /\ \E found \in SUBSET Lines :
          Called(TRUE, {}, found, LineTokens * Cardinality(found), BringsLines(history, found))
    /\ UNCHANGED collector

\* finalTool: of the tools of this kind the finishing phase keeps one.
Explores(key) == key[1] # "evidence.verify_quotes"

\* The other read-only tools, those of MCP servers included.  A key counts as
\* seen even when the call fails.
OtherTool ==
    /\ ~CtxEnded
    /\ \E key \in RepeatKeys :
          /\ ~(final /\ Explores(key))
          /\ \E ok \in BOOLEAN :
                Called(Explores(key), {key}, {}, FeedbackTokens, ok /\ key \notin history.seen)
    /\ UNCHANGED collector

CallSubmitProfile ==
    /\ ~CtxEnded
    /\ ProfileAccepted(collector)
    /\ Called(FALSE, {}, {}, FeedbackTokens, TRUE)
    /\ collector' = SubmitProfile(collector)

CallSubmitMatches ==
    /\ ~CtxEnded
    /\ \E batch \in SUBSET Jobs :
          /\ MatchesAccepted(collector, batch)
          /\ collector' = SubmitMatches(collector, batch)
    /\ Called(FALSE, {}, {}, FeedbackTokens, TRUE)

CallTaskDone ==
    /\ ~CtxEnded
    /\ \E status \in {"DONE", "FAILED"} :
          /\ FinishAccepted(collector, status)
          /\ collector' = Finish(collector, status)
    /\ Called(FALSE, {}, {}, FeedbackTokens, TRUE)

\* A call that reaches a provider after the context ended.  What the
\* round and the history would have become is dropped with them.
CallCutShort ==
    /\ MayExecute /\ CtxEnded
    /\ calls' = calls + 1
    /\ Return(CtxErr, "none")
    /\ UNCHANGED <<turns, spent, repairs, final, finalAttempted, counter, collector,
                   history, request, round, ctx, honest>>

\* A tool of an MCP server misses the provider's own deadline.  Its error is
\* taken for the end of the task's context, which may be far away.
ToolTimesOut ==
    /\ MayExecute /\ ~CtxEnded /\ ~final
    /\ \E key \in RepeatKeys : Explores(key)
    /\ calls' = calls + 1
    /\ round' = [round EXCEPT !.explored = TRUE]
    /\ Return("deadline", "none")
    /\ UNCHANGED <<turns, spent, repairs, final, finalAttempted, counter, collector,
                   history, request, ctx, honest>>

\* The reply lists a further call after task_done was accepted, or beyond the
\* number of calls the task may make.
CallNotMade ==
    /\ pc = "tools"
    /\ \/ collector.done /\ Return("invalid_output", "invalid_output")
       \/ ~collector.done /\ calls >= MaxToolCalls /\ Stop("tool_limit")
    /\ UNCHANGED <<turns, calls, spent, repairs, final, finalAttempted, counter, collector,
                   history, request, round, ctx, honest>>

EndRound ==
    /\ pc = "tools"
    /\ round.called
    /\ history' = [AppendRound(history, [tokens |-> round.tokens, lines |-> round.lines])
                   EXCEPT !.noProgress = IF round.progress THEN 0 ELSE @ + 1]
    /\ \/ collector.done /\ collector.failed /\ Return("incomplete", "materials_incomplete")
       \/ collector.done /\ ~collector.failed /\ Return("nil", "none")
       \/ ~collector.done /\ pc' = "top" /\ Running
    /\ round' = EmptyRound
    /\ UNCHANGED <<turns, calls, spent, repairs, final, finalAttempted, counter, collector,
                   request, ctx, honest>>

-----------------------------------------------------------------------------
(* The task's context: the deadline of runTask, the caller going away *)

ContextStep ==
    /\ pc # "returned"
    /\ \/ ctx = "live" /\ ctx' \in {"closing", "cancelled"}
       \/ ctx = "closing" /\ ctx' \in {"expired", "cancelled"}
    /\ UNCHANGED <<pc, turns, calls, spent, repairs, final, finalAttempted, counter,
                   collector, history, request, round, result, stopReason, honest>>

Returned == pc = "returned" /\ UNCHANGED vars

ToolCall ==
    \/ RefusedCall \/ ReadSections \/ SearchEvidence \/ OtherTool
    \/ CallSubmitProfile \/ CallSubmitMatches \/ CallTaskDone

Turn ==
    \/ StopBeforeRequest \/ GiveUp \/ SendRequest
    \/ Overspend \/ ModelError \/ MalformedReply \/ WellFormedReply
    \/ ToolCall \/ CallCutShort \/ ToolTimesOut \/ CallNotMade \/ EndRound

Next == Turn \/ ContextStep \/ Returned

Spec == Init /\ [][Next]_vars

-----------------------------------------------------------------------------
(* Properties *)

\* A task that returns without an error has a profile, a match for every post,
\* was not declared FAILED by the model, and was billed no more than its budget
\* (candidate.go:166-168, 243-249; collector.go Finish).
CompletedResultIsWhole ==
    result = "nil" =>
        /\ collector.profile
        /\ collector.matches = Jobs
        /\ collector.done /\ ~collector.failed
        /\ spent <= MaxTokens

\* As long as the provider bills no more than the estimate and the cap, the
\* total is never exceeded: before a request goes out, all its transport
\* attempts and the amount held back still fit (candidate.go:109-150).
HonestSpending ==
    honest =>
        /\ spent <= MaxTokens
        /\ pc = "calling" =>
             spent + Attempts * (Estimate(request.base) + request.limit) + request.reserve <= MaxTokens

\* A request and the longest reply it allows fit the context window, whatever
\* the two compactions before it removed; a reply that still has to carry a
\* submission is never cut below 1024 tokens (candidate.go:126-150).
RequestFits ==
    pc = "calling" =>
        /\ Estimate(request.base) + request.limit <= MaxContextTokens
        /\ request.limit >= 128 /\ request.limit <= 8192
        /\ request.limit < 1024 => collector.profile /\ collector.matches = Jobs

\* "Keep one correction affordable after the first final submission, when the
\* remaining token and turn budgets can support both calls" (candidate.go:120):
\* once the first final request went out with an amount held back, an honest
\* bill never leaves too little for the request after it.
CorrectionAffordable ==
    ~ /\ stopReason = "next_request" /\ honest
      /\ request.final /\ request.reserve > 0

\* A final request and its smallest reply are beyond both requests that were held
\* back together, with the estimate they had then.
Outgrew(estimate, earlier) == estimate + 1024 > 2 * (earlier + 4096)

\* "Reserve a complete final submission and one bounded correction inside the
\* declared total" (candidate.go:106): analysing never makes the first final
\* request of its chunk unaffordable, whether the provider reports its usage or
\* not, as long as it bills honestly.  The one exception is a request that is now
\* estimated at more than both requests that were held back together: because of
\* the one round since, its reply and tool results, and of the calibration, which
\* an honest bill raises by about a tenth at most.
FinalSubmissionAffordable ==
    (stopReason = "next_request" /\ honest /\ request.base > 0) =>
        \/ finalAttempted
        \/ Outgrew(EstimateOf(history, TRUE), request.submission)

\* Three rounds in a row without progress end the task: no request and no tool
\* call after them, and the request after two of them asks to finish
\* (candidate.go:91-94; README "analysis budget").
StallEndsTheTask ==
    [][/\ history.noProgress >= 3 => turns' = turns /\ calls' = calls
       /\ (pc' = "calling" /\ history.noProgress = 2) => request'.final]_vars

\* After the deadline or a cancellation no request is started and no tool
\* changes what was collected (candidate.go:80, tools.go:35).
NothingAcceptedAfterContextEnds ==
    [][(ctx \in {"expired", "cancelled"}) =>
         /\ collector' = collector
         /\ pc' = "calling" => pc = "calling"]_vars

\* Finishing is for good.  Once a final request was answered, no later request
\* offers the whole catalog again and no exploring tool is executed any more (a
\* search, a tool of a server, one that fails included), although what started the
\* phase may be undone since: lines that are read again reset the stall counter, a
\* compaction makes room in the window (candidate.go:94, 110, 204; context.go:113).
FinishingIsIrrevocable ==
    finalAttempted => /\ pc = "calling" => request.final
                      /\ ~round.explored

\* Reading lines the model can no longer see is progress, whether or not they
\* were read before: such a round never counts as a stall (context.go:62-63).
RereadingIsProgress ==
    [][(pc = "tools" /\ history'.rounds # history.rounds /\ ~(round.lines \subseteq ResidentLines(history)))
       => history'.noProgress = 0]_vars

\* What a task may still do.  Every turn uses up one of MaxTurns, every call one
\* of MaxToolCalls, and within a turn the loop only moves on.
WorkLeft ==
    IF pc = "returned"
    THEN 0
    ELSE 1 + 3 * (MaxTurns - turns) + (MaxToolCalls - calls)
           + (CASE pc = "tools" -> 3 [] pc = "top" -> 2 [] pc = "calling" -> 1)

\* Whatever the model answers, every step of the loop leaves less to do, so that
\* the task ends however long its context lives: a malformed reply, a refused
\* call and a failed tool are counted too (candidate.go:79, 159, 195-198).
EveryStepUsesUpWork == [][(ctx' = ctx) => (WorkLeft' < WorkLeft)]_vars
=============================================================================
