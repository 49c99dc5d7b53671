---------------------------- MODULE Conversation ----------------------------
(***************************************************************************)
(* internal/llmloop/context.go: the rounds that are replayed to the model, *)
(* their compaction, and what counts as progress.                          *)
(*                                                                         *)
(* A round is the tokens it adds to a request and the lines of the resume  *)
(* its tool results show.  tokens is the sum over the retained rounds.     *)
(* seen holds the keys of the calls whose progress depends on repetition   *)
(* only (every tool but the submissions and the two that return lines).    *)
(***************************************************************************)
EXTENDS Integers, Sequences

CONSTANTS
    NumLines,    \* lines of the resume, numbered from 1
    RepeatKeys   \* keys of the calls whose progress is "not called before"

ASSUME NumLinesAssumption == NumLines \in Nat

Lines == 1..NumLines

RoundType == [tokens: Nat, lines: SUBSET Lines]

ConversationType ==
    [rounds: Seq(RoundType), tokens: Nat, seen: SUBSET RepeatKeys, read: SUBSET Lines, noProgress: Nat]

NewConversation ==
    [rounds |-> <<>>, tokens |-> 0, seen |-> {}, read |-> {}, noProgress |-> 0]

AppendRound(h, round) ==
    [h EXCEPT !.rounds = Append(@, round), !.tokens = @ + round.tokens]

\* The tokens of the last `keep` rounds, for the two values the loop uses.
TailTokens(rounds, keep) ==
    LET n == Len(rounds)
    IN  IF keep = 1 THEN rounds[n].tokens ELSE rounds[n-1].tokens + rounds[n].tokens

\* Drop all rounds but the last `keep`; nothing else is forgotten.
Compact(h, keep) ==
    IF Len(h.rounds) <= keep
    THEN h
    ELSE [h EXCEPT !.rounds = SubSeq(@, Len(@) - keep + 1, Len(@)),
                   !.tokens = TailTokens(h.rounds, keep)]

\* The lines some retained tool result still shows to the model.
ResidentLines(h) == UNION {h.rounds[i].lines : i \in DOMAIN h.rounds}

\* Mutant: only lines never returned before are progress.
BringsLinesUnread(h, lines) == \E line \in lines : line \notin h.read

\* A read or a search is progress if a line it returns was never returned, or
\* has been compacted away.
BringsLines(h, lines) == \E line \in lines : line \notin h.read \/ line \notin ResidentLines(h)
=============================================================================
