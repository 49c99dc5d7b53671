------------------------------ MODULE Analysis ------------------------------
(***************************************************************************)
(* internal/runtime/tasks.go: Service.runTask, one analysis task.  Its     *)
(* posts are analysed in chunks, one run of the loop of AgentLoop after    *)
(* the other.  All chunks share one context, the counters of one trace     *)
(* (turns, calls and tokens) and the profile accepted in the first chunk;  *)
(* all else of the loop starts anew.  The outcome is DONE with everything  *)
(* or FAILED with a code.                                                  *)
(*                                                                         *)
(* Chunks are of one size here: the post j of chunk i is <<i, j>>.         *)
(***************************************************************************)
EXTENDS AgentLoop

CONSTANT Chunks  \* number of chunks of 24 posts

ASSUME ChunksAssumption == Chunks \in Nat \ {0}

VARIABLES
    stage,   \* "preparing", "analysing" or "ended"
    chunk,   \* the chunk being analysed
    task,    \* the task's own collector: profile and covered posts
    answer   \* the result given to the caller

taskVars == <<stage, chunk, task, answer>>
allVars == <<vars, taskVars>>

Posts == (1..Chunks) \X Jobs
Collected == [profile: BOOLEAN, covered: SUBSET Posts]
Nothing == [profile |-> FALSE, covered |-> {}]

FailureCodes ==
    {"analysis_failed", "text_invalid", "task_timeout", "task_cancelled",
     "token_budget_exhausted", "next_request_budget_insufficient", "context_limit_exceeded",
     "turn_budget_exhausted", "tool_budget_exhausted", "analysis_stalled",
     "model_rate_limited", "model_connection_error", "model_output_invalid", "materials_incomplete"}

TaskTypeOK ==
    /\ TypeOK
    /\ stage \in {"preparing", "analysing", "ended"}
    /\ chunk \in 1..Chunks
    /\ task \in Collected
    /\ answer.state \in {"none", "DONE", "FAILED"}
    /\ answer.code \in FailureCodes \cup {"none"}
    /\ answer.content \in Collected

TaskInit ==
    /\ Init
    /\ stage = "preparing"
    /\ chunk = 1
    /\ task = Nothing
    /\ answer = [state |-> "none", code |-> "none", content |-> Nothing]

-----------------------------------------------------------------------------

\* Mutant: a failed task delivers what the chunks before it found.
FailureContentSoFar == task

\* Profile and matches of the result are set on the last line only.
FailureContent == Nothing

EndsWith(state, code, content) ==
    /\ stage' = "ended"
    /\ answer' = [state |-> state, code |-> code, content |-> content]

\* A scope that is not one candidate with posts, a client or a registry that
\* cannot be built.
PrepareFails ==
    /\ stage = "preparing"
    /\ EndsWith("FAILED", "analysis_failed", FailureContent)
    /\ UNCHANGED <<vars, chunk, task>>

\* The text fails its check, or the context ended before it.
TextRefused ==
    /\ stage = "preparing"
    /\ \E code \in {"text_invalid", "task_timeout", "task_cancelled"} :
          /\ code = "text_invalid" <=> ~CtxEnded
          /\ code = "task_cancelled" <=> ctx = "cancelled"
          /\ EndsWith("FAILED", code, FailureContent)
    /\ UNCHANGED <<vars, chunk, task>>

\* The text is accepted, which needs a context that has not ended.
Prepare ==
    /\ stage = "preparing" /\ ~CtxEnded
    /\ stage' = "analysing"
    /\ UNCHANGED <<vars, chunk, task, answer>>

LoopStep == stage = "analysing" /\ Turn /\ UNCHANGED taskVars

TaskContextStep == stage # "ended" /\ ContextStep /\ UNCHANGED taskVars

\* What the task has after the loop returned without an error.
Gathered ==
    [profile |-> collector.profile,
     covered |-> task.covered \cup ({chunk} \X collector.matches)]

\* Mutant: every chunk asks for a profile of its own.
NextCollectorEmpty == NewCollector

NextCollector == [NewCollector EXCEPT !.profile = collector.profile]

\* Mutant: the same chunk once more.
FollowingSame == chunk

Following == chunk + 1

NextChunk ==
    /\ stage = "analysing" /\ pc = "returned" /\ result = "nil"
    /\ chunk < Chunks
    /\ task' = Gathered
    /\ chunk' = Following
    /\ pc' = "top"
    /\ repairs' = 0
    /\ final' = FALSE /\ finalAttempted' = FALSE
    /\ counter' = [ratio |-> 100, observed |-> FALSE]
    /\ collector' = NextCollector
    /\ history' = NewConversation
    /\ request' = [base |-> 0, limit |-> 0, reserve |-> 0, final |-> FALSE, submission |-> 0]
    /\ round' = EmptyRound
    /\ result' = "none" /\ stopReason' = "none"
    /\ UNCHANGED <<turns, calls, spent, ctx, honest, stage, answer>>

Complete ==
    /\ stage = "analysing" /\ pc = "returned" /\ result = "nil"
    /\ chunk = Chunks
    /\ task' = Gathered
    /\ EndsWith("DONE", "none", Gathered)
    /\ UNCHANGED <<vars, chunk>>

StopCodes ==
    [token_limit   |-> "token_budget_exhausted",
     next_request  |-> "next_request_budget_insufficient",
     context_limit |-> "context_limit_exceeded",
     turn_limit    |-> "turn_budget_exhausted",
     tool_limit    |-> "tool_budget_exhausted",
     no_progress   |-> "analysis_stalled"]

ErrorCodes ==
    [deadline       |-> "task_timeout",
     cancelled      |-> "task_cancelled",
     rate_limited   |-> "model_rate_limited",
     connection     |-> "model_connection_error",
     invalid_output |-> "model_output_invalid",
     incomplete     |-> "materials_incomplete"]

\* Mutant: the reason of the last budget trace decides, whatever the error was.
FailureCodeByReason ==
    IF stopReason \in StopReasons THEN StopCodes[stopReason]
    ELSE IF stopReason = "none" THEN "task_cancelled" ELSE "materials_incomplete"

FailureCode == IF result = "stopped" THEN StopCodes[stopReason] ELSE ErrorCodes[result]

Fail ==
    /\ stage = "analysing" /\ pc = "returned" /\ result # "nil"
    /\ EndsWith("FAILED", FailureCode, FailureContent)
    /\ stopReason' = CASE result = "deadline" -> "timeout"
                       [] result = "cancelled" -> "cancelled"
                       [] OTHER -> stopReason
    /\ UNCHANGED <<pc, turns, calls, spent, repairs, final, finalAttempted, counter, collector,
                   history, request, round, ctx, result, honest, chunk, task>>

Ended == stage = "ended" /\ UNCHANGED allVars

TaskStep == PrepareFails \/ TextRefused \/ Prepare \/ LoopStep \/ NextChunk \/ Complete \/ Fail

TaskNext == TaskStep \/ TaskContextStep \/ Ended

TaskSpec == TaskInit /\ [][TaskNext]_allVars

-----------------------------------------------------------------------------
(* Properties *)

\* A task that is DONE has a profile and a match for every post of every chunk,
\* all within the one budget; a task that is not delivers nothing, however many
\* chunks were complete (tasks.go:131-168).
AllOrNothing ==
    IF answer.state = "DONE"
    THEN /\ answer.content.profile /\ answer.content.covered = Posts
         /\ spent <= MaxTokens
    ELSE answer.content = Nothing

\* "The profile submitted in the first chunk is shared; the total budget still
\* covers the whole candidate" (tasks.go:130): in a later chunk there is nothing
\* to submit a second time, and what it may still request was reduced by all
\* that was billed before.
ProfileIsShared == chunk > 1 => task.profile /\ collector.profile

\* The code of a failed task names what really happened: a budget that is used
\* up, a stall, or a cancellation by the caller (tasks.go:63-97).
FailureNamesItsCause ==
    CASE answer.code = "task_cancelled"         -> ctx = "cancelled"
      [] answer.code = "token_budget_exhausted" -> spent >= MaxTokens
      [] answer.code = "turn_budget_exhausted"  -> turns >= MaxTurns
      [] answer.code = "tool_budget_exhausted"  -> calls >= MaxToolCalls
      [] answer.code = "analysis_stalled"       -> history.noProgress >= 3
      [] answer.code = "materials_incomplete"   -> collector.done /\ collector.failed
      [] OTHER -> TRUE

\* What the whole task may still do: the chunks share the turns and the calls.
TaskWork ==
    IF stage = "ended"
    THEN 0
    ELSE 3 * (MaxTurns - turns) + (MaxToolCalls - calls) + 4 * (Chunks - chunk)
         + (CASE pc = "tools" -> 4 [] pc = "top" -> 3 [] pc = "calling" -> 2 [] pc = "returned" -> 1)
         + (IF stage = "preparing" THEN 1 ELSE 0)

\* Every step of a task leaves less to do, across its chunks too: a task with
\* many posts ends however long its context lives (tasks.go:131-160).
TaskUsesUpWork == [][(ctx' = ctx) => (TaskWork' < TaskWork)]_allVars
=============================================================================
