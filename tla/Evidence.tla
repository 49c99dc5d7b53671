------------------------------ MODULE Evidence ------------------------------
(***************************************************************************)
(* internal/agent/collector.go: how the collector decides about the        *)
(* submissions of the model.  The text of a resume is pages of lines of    *)
(* characters; whatever is claimed has to quote it, on the page and within *)
(* the lines it names.  A candidate with many posts is analysed in chunks, *)
(* each with a collector of its own and the profile of the first.          *)
(*                                                                         *)
(* Numbers between 0 and 1 are in percent, scores in ten-thousandths.      *)
(***************************************************************************)
EXTENDS Integers, FiniteSets, Sequences, SequencesExt

CONSTANTS
    Texts,          \* the texts to choose from
    Blank,          \* the white space among the characters
    MinQuote,       \* 8: characters of a quote, white space not counted
    MaxSpan,        \* 101: lines a quote may be searched in
    MinCharacters,  \* 200: a shorter text makes the profile incomplete
    MaxClaims,      \* 100
    TagCodes,       \* tag_catalog
    Jobs, Chunks,   \* the posts of every chunk (numbers), the number of chunks
    ClaimLists, TagLists, MatchLists,  \* what the model may submit
    NoProfile

\* What the decoder lets through: the fields of the right types, in any range.
Passages == [quote : Seq(STRING), page : Int, first : Int, last : Int]
Claims == [kind : STRING, summary : BOOLEAN, evidence : Seq(Passages)]
Tags == [code : STRING, confidence : Int, status : STRING, evidence : Seq(Passages)]
Entries == [job : Int, merit : Int, quality : Int, confidence : Int, reason : BOOLEAN,
            evidence : Seq(Passages)]

ASSUME SubmissionsAssumption ==
    /\ ClaimLists \subseteq Seq(Claims) /\ TagLists \subseteq Seq(Tags)
    /\ MatchLists \subseteq Seq(Entries)

ASSUME ChunksAssumption == Jobs \subseteq Int /\ IsFiniteSet(Jobs) /\ Chunks \in Nat

VARIABLES
    lines,     \* c.Lines
    profile,   \* c.Profile
    matches,   \* c.Matches: a function on the posts with an accepted match
    done, failed,
    reply,     \* the answer to the last call
    chunk,
    covered,   \* the matches of the chunks before, by chunk and post
    result     \* Ranked, once all chunks are done

vars == <<lines, profile, matches, done, failed, reply, chunk, covered, result>>

\* One number for all lines, over the page breaks.
LinesOf(pages) ==
    FlattenSeq([p \in DOMAIN pages |->
                   [l \in DOMAIN pages[p] |-> [page |-> p, text |-> pages[p][l]]]])

Init ==
    /\ \E text \in Texts : lines = LinesOf(text)
    /\ profile = NoProfile /\ matches = <<>>
    /\ done = FALSE /\ failed = FALSE
    /\ reply = "none"
    /\ chunk = 1 /\ covered = <<>> /\ result = <<>>

-----------------------------------------------------------------------------
(* Evidence: passages of the text.  A character of the text is <<line, column>>. *)

\* The places of the characters norm leaves.
Ink(s) == {i \in DOMAIN s : s[i] # Blank}

Before(a, b) == a[1] < b[1] \/ (a[1] = b[1] /\ a[2] < b[2])

TextOf(first, last) == UNION {{l} \X Ink(lines[l].text) : l \in first..last}

\* The quote stands in the text, character by character at the places given, in
\* one piece, but for white space.
StandsAt(quote, text, at) ==
    /\ \A i \in Ink(quote) : lines[at[i][1]].text[at[i][2]] = quote[i]
    /\ \A i, j \in Ink(quote) : i < j => Before(at[i], at[j])
    /\ \A c \in text :
          (\E i, j \in Ink(quote) : Before(at[i], c) /\ Before(c, at[j])) => \E i \in Ink(quote) : c = at[i]

Occurs(quote, text) == \E at \in [Ink(quote) -> text] : StandsAt(quote, text, at)

\* Mutant: the line after the last one named is searched too.
VerifyLineMore(e) ==
    /\ Cardinality(Ink(e.quote)) >= MinQuote
    /\ e.first >= 1 /\ e.last >= e.first /\ e.last <= Len(lines) /\ e.last - e.first < MaxSpan
    /\ \A i \in e.first..e.last : lines[i].page = e.page
    /\ Occurs(e.quote, TextOf(e.first, IF e.last < Len(lines) THEN e.last + 1 ELSE e.last))

Verify(e) ==
    /\ Cardinality(Ink(e.quote)) >= MinQuote
    /\ e.first >= 1 /\ e.last >= e.first /\ e.last <= Len(lines) /\ e.last - e.first < MaxSpan
    /\ \A i \in e.first..e.last : lines[i].page = e.page
    /\ Occurs(e.quote, TextOf(e.first, e.last))

\* validateEvidence: the checks of Verify, with a reason for each.
Evidenced(list) == list # <<>> /\ \A i \in DOMAIN list : Verify(list[i])

Percent(x) == x \in 0..100

-----------------------------------------------------------------------------
(* The profile *)

ExperienceKinds == {"project", "internship", "skill"}
ClaimKinds == ExperienceKinds \cup {"education", "certificate", "major_direction", "agent_experience", "risk"}
TagStates == {"supported", "needs_verification"}

\* What c.Profile may hold.
AcceptedTags == [code : TagCodes, confidence : 0..100, status : TagStates, evidence : Seq(Passages)]
Profiles == [claims : Seq(Claims), tags : Seq(AcceptedTags), incomplete : BOOLEAN]

ASSUME NoProfileAssumption == NoProfile \notin Profiles

ClaimValid(claim) == claim.kind \in ClaimKinds /\ claim.summary /\ Evidenced(claim.evidence)

TagValid(tags, i) ==
    /\ tags[i].code \in TagCodes
    /\ \A j \in 1..(i - 1) : tags[j].code # tags[i].code
    /\ Percent(tags[i].confidence)
    /\ tags[i].status \in TagStates
    /\ Evidenced(tags[i].evidence)

ProfileValid(claims, tags) ==
    /\ ~done /\ profile = NoProfile
    /\ Len(claims) \in 1..MaxClaims
    /\ \A i \in DOMAIN claims : ClaimValid(claims[i])
    /\ \A i \in DOMAIN tags : TagValid(tags, i)

\* An uncertain tag is not confirmed, whatever the model says of it.
Checked(tag) == IF tag.confidence < 80 THEN [tag EXCEPT !.status = "needs_verification"] ELSE tag

\* The characters of all lines, white space at the ends of a line not counted.
Characters ==
    LET trimmed(s) == {i \in DOMAIN s : \E j, k \in Ink(s) : j <= i /\ i <= k}
    IN  Cardinality(UNION {{l} \X trimmed(lines[l].text) : l \in DOMAIN lines})

ThinResume(claims) ==
    \/ Characters < MinCharacters
    \/ \A i \in DOMAIN claims : claims[i].kind \notin ExperienceKinds

Refused ==
    /\ reply' = "refused"
    /\ UNCHANGED <<lines, profile, matches, done, failed, chunk, covered, result>>

\* risk: the model itself reports the profile as incomplete.
SubmitProfile ==
    \E claims \in ClaimLists, tags \in TagLists, risk \in BOOLEAN :
        \/ /\ ProfileValid(claims, tags)
           /\ profile' = [claims |-> claims, tags |-> [i \in DOMAIN tags |-> Checked(tags[i])],
                          incomplete |-> risk \/ ThinResume(claims)]
           /\ reply' = "accepted"
           /\ UNCHANGED <<lines, matches, done, failed, chunk, covered, result>>
        \/ ~ProfileValid(claims, tags) /\ Refused

-----------------------------------------------------------------------------
(* Matches, where merit is the weighted sum of the dimensions other than        *)
(* resume_quality.                                                              *)

MatchValid(batch, i) ==
    /\ batch[i].job \in Jobs
    /\ batch[i].job \notin DOMAIN matches
    /\ \A j \in 1..(i - 1) : batch[j].job # batch[i].job
    /\ batch[i].merit \in 0..9000 /\ Percent(batch[i].quality) /\ Percent(batch[i].confidence)
    /\ batch[i].reason
    /\ Evidenced(batch[i].evidence)

MatchesValid(batch) ==
    /\ ~done /\ profile # NoProfile /\ batch # <<>>
    /\ \A i \in DOMAIN batch : MatchValid(batch, i)

\* Mutant: the quality is taken as submitted.
ScoredUncapped(m) ==
    [quality |-> m.quality, score |-> m.merit + 10 * m.quality, evidence |-> m.evidence]

Scored(m) ==
    LET quality == IF profile.incomplete /\ m.quality > 35 THEN 35 ELSE m.quality
    IN  [quality |-> quality, score |-> m.merit + 10 * quality, evidence |-> m.evidence]

Stored(batch) ==
    [j \in DOMAIN matches \cup {batch[i].job : i \in DOMAIN batch} |->
        IF j \in DOMAIN matches THEN matches[j]
        ELSE Scored(batch[CHOOSE i \in DOMAIN batch : batch[i].job = j])]

\* Mutant: the entries are stored one by one, up to the first bad one.
RefusedAfter(batch) ==
    /\ ~MatchesValid(batch)
    /\ reply' = "refused"
    /\ matches' = IF ~done /\ profile # NoProfile /\ batch # <<>> /\ MatchValid(batch, 1)
                  THEN Stored(SubSeq(batch, 1, 1)) ELSE matches
    /\ UNCHANGED <<lines, profile, done, failed, chunk, covered, result>>

RefusedBatch(batch) == ~MatchesValid(batch) /\ Refused

SubmitMatches ==
    \E batch \in MatchLists :
        \/ /\ MatchesValid(batch)
           /\ matches' = Stored(batch)
           /\ reply' = "accepted"
           /\ UNCHANGED <<lines, profile, done, failed, chunk, covered, result>>
        \/ RefusedBatch(batch)

Complete == profile # NoProfile /\ Cardinality(DOMAIN matches) = Cardinality(Jobs)

TaskDone ==
    \E status \in {"DONE", "FAILED"} :
        \/ /\ ~done
           /\ status = "DONE" => Complete
           /\ done' = TRUE
           /\ failed' = (status = "FAILED")
           /\ reply' = "accepted"
           /\ UNCHANGED <<lines, profile, matches, chunk, covered, result>>
        \/ (done \/ (status = "DONE" /\ ~Complete)) /\ Refused

-----------------------------------------------------------------------------
(* The chunks of one candidate (runtime/tasks.go), and the ranking *)

Gathered ==
    [ref \in DOMAIN covered \cup ({chunk} \X DOMAIN matches) |->
        IF ref \in DOMAIN covered THEN covered[ref] ELSE matches[ref[2]]]

NextChunk ==
    /\ done /\ ~failed /\ chunk < Chunks
    /\ covered' = Gathered
    /\ chunk' = chunk + 1
    /\ matches' = <<>> /\ done' = FALSE /\ reply' = "none"
    /\ UNCHANGED <<lines, profile, failed, result>>

RefBefore(a, b) == Before(a, b)

\* Mutant: equal scores are left in any order.
RanksBeforeByScore(a, b) == Gathered[a].score > Gathered[b].score

RanksBefore(a, b) ==
    IF Gathered[a].score = Gathered[b].score
    THEN RefBefore(a, b)
    ELSE Gathered[a].score > Gathered[b].score

\* The matches come out of a map in any order, and the sort is not stable: any
\* order without an inversion may result.
Rank ==
    /\ done /\ ~failed /\ chunk = Chunks /\ result = <<>>
    /\ \E order \in [1..Cardinality(DOMAIN Gathered) -> DOMAIN Gathered] :
          /\ \A i, j \in DOMAIN order :
                i < j => order[i] # order[j] /\ ~RanksBefore(order[j], order[i])
          /\ result' = [i \in DOMAIN order |->
                          [ref |-> order[i], score |-> Gathered[order[i]].score]]
    /\ UNCHANGED <<lines, profile, matches, done, failed, reply, chunk, covered>>

Next == SubmitProfile \/ SubmitMatches \/ TaskDone \/ NextChunk \/ Rank

Spec == Init /\ [][Next]_vars

-----------------------------------------------------------------------------
(* Properties *)

Accepted == INSTANCE Submissions WITH
    c <- [profile |-> profile # NoProfile, matches |-> DOMAIN matches,
          done |-> done, failed |-> failed]

\* A submission is accepted or refused as a whole: one bad entry of a batch, or
\* one unfounded claim, leaves everything as it was; what was accepted stays, and
\* the order profile, matches, task_done is kept in every chunk
\* (collector.go:121-238).  These are the steps the analysis loop is built on.
ImplementsSubmissions == Accepted!Spec

AllMatches == {Gathered[ref] : ref \in DOMAIN Gathered}

\* The page a quote names, from its first line to its last.
PageText(page) == UNION {{l} \X Ink(lines[l].text) : l \in {i \in 1..Len(lines) : lines[i].page = page}}

\* Who opens the page and goes to the lines named finds the quote there.
Found(e) ==
    /\ \A l \in e.first..e.last : l \in 1..Len(lines) /\ lines[l].page = e.page
    /\ \E at \in [Ink(e.quote) -> PageText(e.page)] :
          /\ StandsAt(e.quote, PageText(e.page), at)
          /\ \A i \in Ink(e.quote) : at[i][1] \in e.first..e.last

Genuine(list) ==
    /\ list # <<>>
    /\ \A i \in DOMAIN list : Cardinality(Ink(list[i].quote)) >= MinQuote /\ Found(list[i])

\* Nothing is delivered that cannot be found in the resume: every claim, tag and
\* match has a quote, and every quote stands on the page it names, in one piece,
\* no character of it before the first or after the last line it names, and not
\* across a page break (collector.go:74-119; README "无效证据被拒绝").
EvidenceIsGenuine ==
    /\ profile # NoProfile =>
          /\ \A i \in DOMAIN profile.claims : Genuine(profile.claims[i].evidence)
          /\ \A i \in DOMAIN profile.tags : Genuine(profile.tags[i].evidence)
    /\ \A m \in AllMatches : Genuine(m.evidence)

\* A doubt about the resume reaches every result: a tag below 0.8 is never
\* delivered as supported, and a thin resume, found in the first chunk, limits
\* the quality of the matches of all chunks (collector.go:159-182, 212-220).
DoubtIsCarried ==
    profile # NoProfile =>
        /\ \A i \in DOMAIN profile.tags :
              profile.tags[i].confidence < 80 => profile.tags[i].status = "needs_verification"
        /\ ThinResume(profile.claims) => \A m \in AllMatches : m.quality <= 35

\* The ranking does not depend on the order of the map: each covered post of
\* every chunk once, higher scores first, equal ones by reference
\* (collector.go:239-255).
RankingIsDetermined ==
    result # <<>> =>
        /\ Len(result) = Chunks * Cardinality(Jobs)
        /\ \A i, j \in DOMAIN result :
              i < j => \/ result[i].score > result[j].score
                       \/ result[i].score = result[j].score /\ RefBefore(result[i].ref, result[j].ref)
=============================================================================
