--------------------------- MODULE EvidenceProofs ---------------------------
(***************************************************************************)
(* For every text and whatever the model submits: what is delivered stands *)
(* in the resume, a doubt about it reaches the scores, the ranking is      *)
(* determined, and the collector takes no steps but those the analysis     *)
(* loop is built on.                                                       *)
(***************************************************************************)
EXTENDS Evidence, FiniteSetTheorems, TLAPS

-----------------------------------------------------------------------------
(* Passages of the text *)

\* A verified passage stands on the page it names, within its lines: no line between
\* its first and its last belongs to another page.
LEMMA VerifiedIsGenuine ==
    ASSUME NEW list \in Seq(Passages), Evidenced(list)
    PROVE  Genuine(list)
<1> SUFFICES ASSUME NEW k \in DOMAIN list
             PROVE  Cardinality(Ink(list[k].quote)) >= MinQuote /\ Found(list[k])
  BY DEF Genuine, Evidenced
<1> DEFINE e == list[k]
<1>1. e \in Passages /\ Verify(e)
  BY DEF Evidenced
<1>2. e.first \in Int /\ e.last \in Int
  BY <1>1 DEF Passages
<1> HIDE DEF e
<1>3. /\ Cardinality(Ink(e.quote)) >= MinQuote
      /\ e.first >= 1 /\ e.last <= Len(lines)
      /\ \A l \in e.first..e.last : lines[l].page = e.page
      /\ Occurs(e.quote, TextOf(e.first, e.last))
  BY <1>1 DEF Verify
<1> DEFINE passage == TextOf(e.first, e.last)
           page == PageText(e.page)
<1>4. ASSUME NEW c
      PROVE  /\ c \in passage <=> \E l \in e.first..e.last : c \in {l} \X Ink(lines[l].text)
             /\ c \in page <=> \E l \in 1..Len(lines) :
                                  lines[l].page = e.page /\ c \in {l} \X Ink(lines[l].text)
  BY DEF TextOf, PageText
<1>5. \A c \in passage : c[1] \in e.first..e.last
  BY <1>4
<1>6. passage \subseteq page
  <2>1. \A l \in e.first..e.last : l \in 1..Len(lines) /\ lines[l].page = e.page
    BY <1>2, <1>3
  <2> HIDE DEF passage, page
  <2> QED
    BY <1>4, <2>1
<1>7. \A c \in page : c[1] \in Int /\ (c[1] \in e.first..e.last => c \in passage)
  BY <1>4
<1> HIDE DEF passage, page
<1>8. ASSUME NEW a \in passage, NEW b \in passage, NEW c \in page, Before(a, c), Before(c, b)
      PROVE  c \in passage
  <2>1. a[1] \in Int /\ b[1] \in Int /\ c[1] \in Int /\ e.first <= a[1] /\ b[1] <= e.last
    BY <1>2, <1>5, <1>7
  <2>2. a[1] <= c[1] /\ c[1] <= b[1]
    BY <1>8, <2>1 DEF Before
  <2>3. c[1] \in e.first..e.last
    BY <1>2, <2>1, <2>2
  <2> QED
    BY <1>7, <2>3
<1>9. PICK at \in [Ink(e.quote) -> passage] : StandsAt(e.quote, passage, at)
  BY <1>3 DEF Occurs, passage
<1>10. at \in [Ink(e.quote) -> page]
  BY <1>6, <1>9
<1>11. ASSUME NEW c \in page, NEW i \in Ink(e.quote), NEW j \in Ink(e.quote),
              Before(at[i], c), Before(c, at[j])
       PROVE  \E h \in Ink(e.quote) : c = at[h]
  BY <1>8, <1>9, <1>11 DEF StandsAt
<1>12. StandsAt(e.quote, page, at)
  BY <1>9, <1>10, <1>11 DEF StandsAt
<1>13. \A i \in Ink(e.quote) : at[i][1] \in e.first..e.last
  BY <1>5, <1>9
<1>14. \A l \in e.first..e.last : l \in 1..Len(lines) /\ lines[l].page = e.page
  BY <1>2, <1>3
<1>15. Found(e)
  BY <1>10, <1>12, <1>13, <1>14 DEF Found, page
<1> QED
  BY <1>3, <1>15 DEF e

-----------------------------------------------------------------------------
(* The inductive invariant *)

\* A result that was accepted: a quote from the resume, and a quality that a
\* doubt about the profile limits.
Sound(m) ==
    /\ Genuine(m.evidence)
    /\ m.quality \in Int /\ m.score \in Int
    /\ ThinResume(profile.claims) => m.quality <= 35

TypeOK ==
    /\ profile \in Profiles \cup {NoProfile}
    /\ done \in BOOLEAN /\ failed \in BOOLEAN
    /\ chunk \in Nat /\ chunk >= 1
    /\ DOMAIN matches \subseteq Jobs

\* A thin resume makes the profile incomplete; nothing is matched without a profile.
ProfileSound ==
    /\ profile # NoProfile =>
          /\ \A i \in DOMAIN profile.claims : Genuine(profile.claims[i].evidence)
          /\ \A i \in DOMAIN profile.tags :
                /\ Genuine(profile.tags[i].evidence)
                /\ profile.tags[i].confidence < 80 => profile.tags[i].status = "needs_verification"
          /\ ThinResume(profile.claims) => profile.incomplete
    /\ profile = NoProfile => DOMAIN matches = {} /\ DOMAIN covered = {}

MatchesSound ==
    /\ \A j \in DOMAIN matches : Sound(matches[j])
    /\ \A ref \in DOMAIN covered : Sound(covered[ref])

\* The chunks before this one are covered whole.
CoverageOK ==
    /\ DOMAIN covered = (1..(chunk - 1)) \X Jobs
    /\ done /\ ~failed => DOMAIN matches = Jobs

EInv == TypeOK /\ ProfileSound /\ MatchesSound /\ CoverageOK /\ RankingIsDetermined

-----------------------------------------------------------------------------
(* Every step *)

\* The text never changes, nor does what stands in it.
LEMMA SameText ==
    ASSUME lines' = lines
    PROVE  /\ \A list : Genuine(list)' <=> Genuine(list)
           /\ \A claims : ThinResume(claims)' <=> ThinResume(claims)
<1>1. \A e : Found(e)' <=> Found(e)
  <2>1. \A page : PageText(page)' = PageText(page)
    BY DEF PageText
  <2>2. \A quote, text, at : StandsAt(quote, text, at)' <=> StandsAt(quote, text, at)
    BY DEF StandsAt
  <2> QED
    BY <2>1, <2>2 DEF Found, StandsAt
<1>2. Characters' = Characters
  BY DEF Characters
<1> QED
  BY <1>1, <1>2 DEF Genuine, ThinResume

\* A tag of low confidence is to be verified, whatever the model says.
LEMMA CheckedTag ==
    ASSUME NEW tag \in Tags, tag.code \in TagCodes, tag.confidence \in 0..100,
           tag.status \in TagStates
    PROVE  /\ Checked(tag) \in AcceptedTags /\ Checked(tag).evidence = tag.evidence
           /\ Checked(tag).confidence < 80 => Checked(tag).status = "needs_verification"
<1>1. /\ tag.confidence \in Int /\ tag.evidence \in Seq(Passages)
      /\ tag = [code |-> tag.code, confidence |-> tag.confidence, status |-> tag.status,
                evidence |-> tag.evidence]
  BY Zenon DEF Tags
<1> DEFINE other == [code |-> tag.code, confidence |-> tag.confidence,
                     status |-> "needs_verification", evidence |-> tag.evidence]
<1>2. other \in AcceptedTags /\ tag \in AcceptedTags
  <2>1. ASSUME NEW A, NEW B, NEW C, NEW D, NEW a \in A, NEW b \in B, NEW c \in C, NEW d \in D
        PROVE  [code |-> a, confidence |-> b, status |-> c, evidence |-> d]
                   \in [code : A, confidence : B, status : C, evidence : D]
    OBVIOUS
  <2>2. "needs_verification" \in TagStates
    BY DEF TagStates
  <2> QED
    BY <1>1, <2>1, <2>2, Zenon DEF AcceptedTags
<1>3. [tag EXCEPT !.status = "needs_verification"] = other
  <2>1. ASSUME NEW c, NEW f, NEW s, NEW e
        PROVE  [[code |-> c, confidence |-> f, status |-> s, evidence |-> e]
                   EXCEPT !.status = "needs_verification"] =
               [code |-> c, confidence |-> f, status |-> "needs_verification", evidence |-> e]
    OBVIOUS
  <2> DEFINE same == [code |-> tag.code, confidence |-> tag.confidence, status |-> tag.status,
                      evidence |-> tag.evidence]
  <2>2. [same EXCEPT !.status = "needs_verification"] = other
    BY <2>1
  <2>3. tag = same
    BY <1>1
  <2> HIDE DEF same, other
  <2> QED
    BY <2>2, <2>3
<1>4. Checked(tag) = IF tag.confidence < 80 THEN other ELSE tag
  BY <1>3 DEF Checked
<1>5. other.evidence = tag.evidence /\ other.status = "needs_verification"
  OBVIOUS
<1> HIDE DEF other
<1>6. CASE tag.confidence < 80
  BY <1>2, <1>4, <1>5, <1>6
<1>7. CASE ~(tag.confidence < 80)
  BY <1>2, <1>4, <1>7
<1> QED
  BY <1>6, <1>7

\* A profile that is accepted is founded, and its doubts are kept.
LEMMA AcceptedProfile ==
    ASSUME NEW claims \in ClaimLists, NEW tags \in TagLists, NEW risk \in BOOLEAN,
           ProfileValid(claims, tags),
           NEW p, p = [claims |-> claims, tags |-> [i \in DOMAIN tags |-> Checked(tags[i])],
                       incomplete |-> risk \/ ThinResume(claims)]
    PROVE  /\ p \in Profiles
           /\ \A i \in DOMAIN p.claims : Genuine(p.claims[i].evidence)
           /\ \A i \in DOMAIN p.tags :
                 /\ Genuine(p.tags[i].evidence)
                 /\ p.tags[i].confidence < 80 => p.tags[i].status = "needs_verification"
           /\ ThinResume(p.claims) => p.incomplete
<1>1. claims \in Seq(Claims) /\ tags \in Seq(Tags)
  BY SubmissionsAssumption
<1>2. ASSUME NEW i \in DOMAIN claims PROVE Genuine(claims[i].evidence)
  <2>1. claims[i].evidence \in Seq(Passages)
    <3>1. claims[i] \in Claims
      BY <1>1
    <3> QED
      BY <3>1, Zenon DEF Claims
  <2>2. Evidenced(claims[i].evidence)
    BY DEF ProfileValid, ClaimValid
  <2> QED
    BY <2>1, <2>2, VerifiedIsGenuine
<1>3. ASSUME NEW i \in DOMAIN tags
      PROVE  /\ Checked(tags[i]) \in AcceptedTags
             /\ Genuine(Checked(tags[i]).evidence)
             /\ Checked(tags[i]).confidence < 80 => Checked(tags[i]).status = "needs_verification"
  <2>1. tags[i] \in Tags
    BY <1>1
  <2>2. /\ Checked(tags[i]) \in AcceptedTags /\ Checked(tags[i]).evidence = tags[i].evidence
        /\ Checked(tags[i]).confidence < 80 => Checked(tags[i]).status = "needs_verification"
    <3>1. tags[i].code \in TagCodes /\ tags[i].confidence \in 0..100 /\ tags[i].status \in TagStates
      BY DEF ProfileValid, TagValid, Percent
    <3> QED
      BY <2>1, <3>1, CheckedTag
  <2>3. tags[i].evidence \in Seq(Passages) /\ Evidenced(tags[i].evidence)
    BY <2>1 DEF Tags, ProfileValid, TagValid
  <2> QED
    BY <2>2, <2>3, VerifiedIsGenuine
<1> DEFINE checked == [i \in DOMAIN tags |-> Checked(tags[i])]
<1>4. checked \in Seq(AcceptedTags)
  <2>1. DOMAIN tags = 1..Len(tags) /\ Len(tags) \in Nat
    BY <1>1
  <2>2. checked \in [1..Len(tags) -> AcceptedTags]
    BY <1>3, <2>1
  <2> HIDE DEF checked
  <2> QED
    BY <2>1, <2>2
<1>5. p.claims = claims /\ p.tags = checked /\ p.incomplete = (risk \/ ThinResume(claims))
  OBVIOUS
<1>6. p \in Profiles
  <2> DEFINE incomplete == risk \/ ThinResume(claims)
  <2>1. incomplete \in BOOLEAN /\ p = [claims |-> claims, tags |-> checked, incomplete |-> incomplete]
    OBVIOUS
  <2> HIDE DEF checked, incomplete
  <2> QED
    BY <1>1, <1>4, <2>1 DEF Profiles
<1>7. \A i \in DOMAIN p.tags : i \in DOMAIN tags /\ p.tags[i] = Checked(tags[i])
  BY <1>5
<1> QED
  BY <1>2, <1>3, <1>5, <1>6, <1>7

\* A profile, or a refusal.
LEMMA SubmitProfileKeeps == EInv /\ SubmitProfile => EInv'
<1> SUFFICES ASSUME EInv, SubmitProfile PROVE EInv'
  OBVIOUS
<1>1. CASE Refused
  BY <1>1, SameText DEF Refused, EInv, TypeOK, ProfileSound, MatchesSound, CoverageOK, Sound,
     RankingIsDetermined
<1>2. ASSUME NEW claims \in ClaimLists, NEW tags \in TagLists, NEW risk \in BOOLEAN,
             ProfileValid(claims, tags),
             profile' = [claims |-> claims, tags |-> [i \in DOMAIN tags |-> Checked(tags[i])],
                         incomplete |-> risk \/ ThinResume(claims)],
             UNCHANGED <<lines, matches, done, failed, chunk, covered, result>>
      PROVE  EInv'
  <2>1. /\ profile' \in Profiles
        /\ \A i \in DOMAIN profile'.claims : Genuine(profile'.claims[i].evidence)
        /\ \A i \in DOMAIN profile'.tags :
              /\ Genuine(profile'.tags[i].evidence)
              /\ profile'.tags[i].confidence < 80 => profile'.tags[i].status = "needs_verification"
        /\ ThinResume(profile'.claims) => profile'.incomplete
    BY <1>2, AcceptedProfile
  <2>2. profile' # NoProfile /\ DOMAIN matches = {} /\ DOMAIN covered = {}
    BY <1>2, <2>1, NoProfileAssumption DEF ProfileValid, EInv, ProfileSound
  <2>3. ProfileSound'
    BY <1>2, <2>1, <2>2, SameText DEF ProfileSound
  <2>4. TypeOK' /\ MatchesSound' /\ CoverageOK' /\ RankingIsDetermined'
    BY <1>2, <2>1, <2>2 DEF EInv, TypeOK, MatchesSound, CoverageOK, RankingIsDetermined
  <2> QED
    BY <2>3, <2>4 DEF EInv
<1> QED
  BY <1>1, <1>2 DEF SubmitProfile

\* What is stored of a batch that is accepted is sound, and what was there remains.
LEMMA StoredIsSound ==
    ASSUME EInv, NEW batch \in MatchLists, MatchesValid(batch)
    PROVE  /\ DOMAIN Stored(batch) = DOMAIN matches \cup {batch[i].job : i \in DOMAIN batch}
           /\ {batch[i].job : i \in DOMAIN batch} \subseteq Jobs \ DOMAIN matches
           /\ DOMAIN batch # {}
           /\ \A j \in DOMAIN Stored(batch) : Sound(Stored(batch)[j])
<1>1. batch \in Seq(Entries)
  BY SubmissionsAssumption
<1>2. \A i \in DOMAIN batch : MatchValid(batch, i)
  BY DEF MatchesValid
<1>3. {batch[i].job : i \in DOMAIN batch} \subseteq Jobs \ DOMAIN matches
  BY <1>2 DEF MatchValid
<1>4. DOMAIN batch # {}
  BY <1>1 DEF MatchesValid
<1>5. ASSUME NEW i \in DOMAIN batch PROVE Sound(Scored(batch[i]))
  <2>1. batch[i] \in Entries
    BY <1>1
  <2>2. /\ batch[i].quality \in 0..100 /\ batch[i].merit \in Int
        /\ batch[i].evidence \in Seq(Passages) /\ Evidenced(batch[i].evidence)
    BY <1>2, <2>1 DEF MatchValid, Percent, Entries
  <2>3. Genuine(batch[i].evidence)
    BY <2>2, VerifiedIsGenuine
  <2> DEFINE limited == IF profile.incomplete /\ batch[i].quality > 35 THEN 35 ELSE batch[i].quality
  <2>4. ThinResume(profile.claims) => profile.incomplete
    BY DEF EInv, ProfileSound, MatchesValid
  <2>5. limited \in Int /\ (ThinResume(profile.claims) => limited <= 35)
    <3> DEFINE q == batch[i].quality
    <3>1. q \in Int
      <4>1. q \in 0..100
        BY <2>2
      <4> HIDE DEF q
      <4> QED
        BY <4>1
    <3> HIDE DEF q
    <3>2. CASE profile.incomplete /\ q > 35
      BY <3>2 DEF q
    <3>3. CASE ~(profile.incomplete /\ q > 35)
      <4>1. limited = q
        BY <3>3 DEF q
      <4> HIDE DEF limited
      <4> QED
        BY <2>4, <3>1, <3>3, <4>1
    <3> QED
      BY <3>2, <3>3
  <2>6. Scored(batch[i]) = [quality |-> limited, score |-> batch[i].merit + 10 * limited,
                            evidence |-> batch[i].evidence]
    BY DEF Scored
  <2> HIDE DEF limited
  <2>7. batch[i].merit + 10 * limited \in Int
    BY <2>2, <2>5
  <2> QED
    BY <2>3, <2>5, <2>6, <2>7 DEF Sound
<1>6. ASSUME NEW j \in DOMAIN Stored(batch) PROVE Sound(Stored(batch)[j])
  <2>1. CASE j \in DOMAIN matches
    BY <2>1 DEF Stored, EInv, MatchesSound
  <2>2. CASE j \notin DOMAIN matches
    <3>1. \E i \in DOMAIN batch : batch[i].job = j
      BY <2>2 DEF Stored
    <3>2. PICK i \in DOMAIN batch : Stored(batch)[j] = Scored(batch[i])
      BY <2>2, <3>1 DEF Stored
    <3> QED
      BY <1>5, <3>2
  <2> QED
    BY <2>1, <2>2
<1> QED
  BY <1>3, <1>4, <1>6 DEF Stored

\* A batch, or a refusal.
LEMMA SubmitMatchesKeeps == EInv /\ SubmitMatches => EInv'
<1> SUFFICES ASSUME EInv, SubmitMatches PROVE EInv'
  OBVIOUS
<1>1. CASE Refused
  BY <1>1, SameText DEF Refused, EInv, TypeOK, ProfileSound, MatchesSound, CoverageOK, Sound,
     RankingIsDetermined
<1>2. ASSUME NEW batch \in MatchLists, MatchesValid(batch), matches' = Stored(batch),
             UNCHANGED <<lines, profile, done, failed, chunk, covered, result>>
      PROVE  EInv'
  <2>1. ~done /\ profile # NoProfile
    BY <1>2 DEF MatchesValid
  <2>2. DOMAIN matches' \subseteq Jobs /\ \A j \in DOMAIN matches' : Sound(matches'[j])
    <3>1. DOMAIN matches \subseteq Jobs
      BY DEF EInv, TypeOK
    <3> QED
      BY <1>2, <3>1, StoredIsSound
  <2>3. \A m : Sound(m)' <=> Sound(m)
    BY <1>2, SameText DEF Sound
  <2>4. ProfileSound'
    BY <1>2, <2>1, SameText DEF EInv, ProfileSound
  <2> QED
    BY <1>2, <2>1, <2>2, <2>3, <2>4 DEF EInv, TypeOK, MatchesSound, CoverageOK, RankingIsDetermined
<1> QED
  BY <1>1, <1>2 DEF SubmitMatches, RefusedBatch

\* DONE is only accepted once all posts have a match.
LEMMA TaskDoneKeeps == EInv /\ TaskDone => EInv'
<1> SUFFICES ASSUME EInv, TaskDone PROVE EInv'
  OBVIOUS
<1>1. CASE Refused
  BY <1>1, SameText DEF Refused, EInv, TypeOK, ProfileSound, MatchesSound, CoverageOK, Sound,
     RankingIsDetermined
<1>2. ASSUME NEW status \in {"DONE", "FAILED"}, status = "DONE" => Complete,
             done' = TRUE, failed' = (status = "FAILED"),
             UNCHANGED <<lines, profile, matches, chunk, covered, result>>
      PROVE  EInv'
  <2>1. ~failed' => DOMAIN matches = Jobs
    <3>1. DOMAIN matches \subseteq Jobs /\ IsFiniteSet(Jobs)
      BY ChunksAssumption DEF EInv, TypeOK
    <3>2. Complete => DOMAIN matches = Jobs
      BY <3>1, FS_Subset DEF Complete
    <3> QED
      BY <1>2, <3>2
  <2>2. TypeOK' /\ CoverageOK'
    BY <1>2, <2>1 DEF EInv, TypeOK, CoverageOK
  <2>3. ProfileSound' /\ MatchesSound'
    BY <1>2, SameText DEF EInv, ProfileSound, MatchesSound, Sound
  <2>4. RankingIsDetermined'
    BY <1>2 DEF EInv, RankingIsDetermined
  <2> QED
    BY <2>2, <2>3, <2>4 DEF EInv
<1> QED
  BY <1>1, <1>2 DEF TaskDone

\* All matches so far, of this chunk and the ones before.
LEMMA GatheredIsSound ==
    ASSUME EInv
    PROVE  /\ DOMAIN Gathered = DOMAIN covered \cup ({chunk} \X DOMAIN matches)
           /\ \A ref \in DOMAIN Gathered : Sound(Gathered[ref])
<1>1. DOMAIN Gathered = DOMAIN covered \cup ({chunk} \X DOMAIN matches)
  BY DEF Gathered
<1>2. ASSUME NEW ref \in DOMAIN Gathered PROVE Sound(Gathered[ref])
  <2>1. CASE ref \in DOMAIN covered
    BY <2>1 DEF Gathered, EInv, MatchesSound
  <2>2. CASE ref \notin DOMAIN covered
    <3>1. ref[2] \in DOMAIN matches /\ Gathered[ref] = matches[ref[2]]
      BY <2>2 DEF Gathered
    <3> QED
      BY <3>1 DEF EInv, MatchesSound
  <2> QED
    BY <2>1, <2>2
<1> QED
  BY <1>1, <1>2

\* The matches of a chunk that is done join those of the ones before.
LEMMA NextChunkKeeps == EInv /\ NextChunk => EInv'
<1> SUFFICES ASSUME EInv, NextChunk PROVE EInv'
  OBVIOUS
<1>1. /\ done /\ ~failed /\ covered' = Gathered /\ chunk' = chunk + 1 /\ DOMAIN matches' = {}
      /\ done' = FALSE /\ UNCHANGED <<lines, profile, failed, result>>
      /\ DOMAIN matches = Jobs /\ chunk \in Nat /\ chunk >= 1
  BY DEF NextChunk, EInv, TypeOK, CoverageOK
<1>2. DOMAIN covered' = (1..(chunk' - 1)) \X Jobs
  <2>1. DOMAIN covered' = ((1..(chunk - 1)) \X Jobs) \cup ({chunk} \X Jobs)
    BY <1>1, GatheredIsSound DEF EInv, CoverageOK
  <2>2. 1..(chunk' - 1) = (1..(chunk - 1)) \cup {chunk}
    BY <1>1
  <2> QED
    BY <2>1, <2>2
<1>3. \A ref \in DOMAIN covered' : Sound(covered'[ref])
  BY <1>1, GatheredIsSound
<1>4. \A m : Sound(m)' <=> Sound(m)
  BY <1>1, SameText DEF Sound
<1>5. profile = NoProfile => DOMAIN covered' = {}
  BY <1>1, GatheredIsSound DEF EInv, ProfileSound
<1>6. ProfileSound'
  BY <1>1, <1>5, SameText DEF EInv, ProfileSound
<1>7. MatchesSound'
  BY <1>1, <1>3, <1>4 DEF MatchesSound
<1>8. TypeOK'
  <2>1. chunk' \in Nat /\ chunk' >= 1
    BY <1>1
  <2>2. DOMAIN matches' \subseteq Jobs /\ done' \in BOOLEAN
    BY <1>1
  <2> QED
    BY <1>1, <2>1, <2>2 DEF EInv, TypeOK
<1>9. CoverageOK'
  BY <1>1, <1>2 DEF CoverageOK
<1>10. RankingIsDetermined'
  BY <1>1 DEF EInv, RankingIsDetermined
<1> QED
  BY <1>6, <1>7, <1>8, <1>9, <1>10 DEF EInv

\* All posts of all chunks.
LEMMA AllCovered ==
    ASSUME EInv, done, ~failed
    PROVE  DOMAIN Gathered = (1..chunk) \X Jobs
<1>1. chunk \in Nat /\ chunk >= 1 /\ DOMAIN matches = Jobs
  BY DEF EInv, TypeOK, CoverageOK
<1>2. DOMAIN Gathered = ((1..(chunk - 1)) \X Jobs) \cup ({chunk} \X Jobs)
  BY <1>1, GatheredIsSound DEF EInv, CoverageOK
<1>3. 1..chunk = (1..(chunk - 1)) \cup {chunk}
  BY <1>1
<1> QED
  BY <1>2, <1>3

\* The order of the scores and references is a strict total one, so only one
\* ranking has no inversion.
LEMMA RankKeeps == EInv /\ Rank => EInv'
<1> SUFFICES ASSUME EInv, Rank PROVE EInv'
  OBVIOUS
<1>1. /\ done /\ ~failed /\ chunk = Chunks
      /\ UNCHANGED <<lines, profile, matches, done, failed, reply, chunk, covered>>
  BY DEF Rank
<1> DEFINE refs == DOMAIN Gathered
           n == Cardinality(refs)
<1>2. PICK order \in [1..n -> refs] :
          /\ \A i, j \in DOMAIN order :
                i < j => order[i] # order[j] /\ ~RanksBefore(order[j], order[i])
          /\ result' = [i \in DOMAIN order |->
                          [ref |-> order[i], score |-> Gathered[order[i]].score]]
  BY DEF Rank
<1>3. n = Chunks * Cardinality(Jobs) /\ n \in Nat /\ refs = (1..Chunks) \X Jobs
  <2>1. refs = (1..Chunks) \X Jobs
    BY <1>1, AllCovered
  <2>2. IsFiniteSet(1..Chunks) /\ Cardinality(1..Chunks) = Chunks
    BY ChunksAssumption, FS_Interval
  <2>3. /\ IsFiniteSet((1..Chunks) \X Jobs)
        /\ Cardinality((1..Chunks) \X Jobs) = Cardinality(1..Chunks) * Cardinality(Jobs)
    BY <2>2, ChunksAssumption, FS_Product
  <2> QED
    BY <2>1, <2>2, <2>3, FS_CardinalityType
<1>4. \A ref \in refs : Gathered[ref].score \in Int /\ ref[1] \in Int /\ ref[2] \in Int
  <2>1. \A ref \in refs : Gathered[ref].score \in Int
    BY GatheredIsSound DEF Sound
  <2>2. \A ref \in (1..Chunks) \X Jobs : ref[1] \in Int /\ ref[2] \in Int
    <3>1. \A k \in 1..Chunks : \A j \in Jobs : k \in Int /\ j \in Int
      BY ChunksAssumption
    <3> QED
      BY <3>1
  <2> QED
    BY <1>3, <2>1, <2>2
<1>5. \A a, b \in refs : a # b => a[1] # b[1] \/ a[2] # b[2]
  BY <1>3
<1> HIDE DEF refs, n
<1>6. /\ DOMAIN result' = 1..n /\ Len(result') = n
      /\ \A i \in 1..n : result'[i].ref = order[i] /\ result'[i].score = Gathered[order[i]].score
  BY <1>2, <1>3
<1>7. ASSUME NEW i \in 1..n, NEW j \in 1..n, i < j
      PROVE  \/ result'[i].score > result'[j].score
             \/ result'[i].score = result'[j].score /\ RefBefore(result'[i].ref, result'[j].ref)
  <2>1. /\ order[i] \in refs /\ order[j] \in refs /\ order[i] # order[j]
        /\ ~RanksBefore(order[j], order[i])
    BY <1>2, <1>7
  <2> DEFINE a == order[i]
             b == order[j]
  <2>2. /\ Gathered[a].score \in Int /\ Gathered[b].score \in Int
        /\ a[1] \in Int /\ a[2] \in Int /\ b[1] \in Int /\ b[2] \in Int
        /\ a[1] # b[1] \/ a[2] # b[2]
    BY <1>4, <1>5, <2>1
  <2>3. ~RanksBefore(b, a)
    BY <2>1
  <2>4. result'[i].ref = a /\ result'[j].ref = b
        /\ result'[i].score = Gathered[a].score /\ result'[j].score = Gathered[b].score
    BY <1>6
  <2> HIDE DEF a, b
  <2>5. \/ Gathered[a].score > Gathered[b].score
        \/ Gathered[a].score = Gathered[b].score /\ RefBefore(a, b)
    <3>1. CASE Gathered[a].score = Gathered[b].score
      <4>1. ~RefBefore(b, a)
        BY <2>3, <3>1 DEF RanksBefore
      <4> QED
        BY <2>2, <3>1, <4>1 DEF RefBefore, Before
    <3>2. CASE Gathered[a].score # Gathered[b].score
      BY <2>2, <2>3, <3>2 DEF RanksBefore
    <3> QED
      BY <3>1, <3>2
  <2> QED
    BY <2>4, <2>5
<1>8. RankingIsDetermined'
  BY <1>3, <1>6, <1>7 DEF RankingIsDetermined, RefBefore, Before
<1> QED
  BY <1>1, <1>8, SameText DEF EInv, TypeOK, ProfileSound, MatchesSound, CoverageOK, Sound

\* Nothing is collected before the first step.
LEMMA InitKeeps == Init => EInv
<1> SUFFICES ASSUME Init PROVE EInv
  OBVIOUS
<1>1. /\ profile = NoProfile /\ matches = <<>> /\ covered = <<>> /\ result = <<>>
      /\ done = FALSE /\ failed = FALSE /\ chunk = 1
  BY DEF Init
<1>2. DOMAIN matches = {} /\ DOMAIN covered = {} /\ 1..(chunk - 1) = {}
  BY <1>1
<1>3. TypeOK
  <2>1. chunk \in Nat /\ chunk >= 1
    BY <1>1
  <2>2. done \in BOOLEAN /\ failed \in BOOLEAN
    BY <1>1, Zenon
  <2> QED
    BY <1>1, <1>2, <2>1, <2>2, Zenon DEF TypeOK
<1>4. ProfileSound /\ MatchesSound
  BY <1>1, <1>2 DEF ProfileSound, MatchesSound
<1>5. CoverageOK
  <2>1. (1..(chunk - 1)) \X Jobs = {}
    BY <1>2
  <2> QED
    BY <1>1, <1>2, <2>1 DEF CoverageOK
<1>6. RankingIsDetermined
  BY <1>1 DEF RankingIsDetermined
<1> QED
  BY <1>3, <1>4, <1>5, <1>6 DEF EInv

\* Every step of the collector keeps the invariant.
LEMMA StepKeeps == EInv /\ [Next]_vars => EInv'
<1>1. ASSUME EInv, UNCHANGED vars PROVE EInv'
  <2>1. TypeOK' /\ CoverageOK'
    BY <1>1 DEF vars, EInv, TypeOK, CoverageOK
  <2>2. ProfileSound' /\ MatchesSound'
    BY <1>1, SameText DEF vars, EInv, ProfileSound, MatchesSound, Sound
  <2>3. RankingIsDetermined'
    BY <1>1 DEF vars, EInv, RankingIsDetermined
  <2> QED
    BY <2>1, <2>2, <2>3 DEF EInv
<1> QED
  BY <1>1, SubmitProfileKeeps, SubmitMatchesKeeps, TaskDoneKeeps, NextChunkKeeps, RankKeeps DEF Next

\* It holds throughout.
LEMMA Inductive == Spec => []EInv
<1>1. Init => EInv
  BY InitKeeps
<1>2. EInv /\ [Next]_vars => EInv'
  BY StepKeeps
<1> QED
  BY <1>1, <1>2, PTL DEF Spec

-----------------------------------------------------------------------------
(* What follows for the resume *)

\* Every quote of a claim, a tag or a match stands in one piece on the page it names,
\* within the lines it names, for every text, every passage and every limit of the
\* checks (collector.go, Verify, validateEvidence).
THEOREM QuotesAreGenuine == Spec => []EvidenceIsGenuine
<1>1. EInv => EvidenceIsGenuine
  BY GatheredIsSound DEF EInv, ProfileSound, EvidenceIsGenuine, AllMatches, Sound
<1> QED
  BY <1>1, Inductive, PTL

\* A doubtful tag is never confirmed, and a thin resume limits the quality of the
\* matches of all chunks (collector.go, SubmitProfile and SubmitMatches).
THEOREM DoubtsReachScores == Spec => []DoubtIsCarried
<1>1. EInv => DoubtIsCarried
  BY GatheredIsSound DEF EInv, ProfileSound, DoubtIsCarried, AllMatches, Sound
<1> QED
  BY <1>1, Inductive, PTL

\* The order of the map does not show in the ranking, which has each post of every
\* chunk (collector.go, Ranked).
THEOREM OneRanking == Spec => []RankingIsDetermined
<1>1. EInv => RankingIsDetermined
  BY DEF EInv
<1> QED
  BY <1>1, Inductive, PTL

-----------------------------------------------------------------------------
(* The steps the analysis loop is built on *)

\* The collector as the loop sees it.
Seen == [profile |-> profile # NoProfile, matches |-> DOMAIN matches, done |-> done, failed |-> failed]

\* What the operations of the loop's collector make of it.
LEMMA SeenSteps ==
           /\ Accepted!SubmitProfile(Seen) =
                 [profile |-> TRUE, matches |-> DOMAIN matches, done |-> done, failed |-> failed]
           /\ \A status : Accepted!Finish(Seen, status) =
                 [profile |-> profile # NoProfile, matches |-> DOMAIN matches, done |-> TRUE,
                  failed |-> (status = "FAILED")]
           /\ [Accepted!NewCollector EXCEPT !.profile = Seen.profile] =
                 [profile |-> profile # NoProfile, matches |-> {}, done |-> FALSE, failed |-> FALSE]
<1>0. PICK p, ms, d, f, yes, no : /\ p = (profile # NoProfile) /\ ms = DOMAIN matches
                                  /\ d = done /\ f = failed /\ yes = TRUE /\ no = FALSE
  OBVIOUS
<1> DEFINE seen == [profile |-> p, matches |-> ms, done |-> d, failed |-> f]
<1>1. Seen = seen /\ Seen.profile = p
  BY <1>0, Zenon DEF Seen
<1>2. Accepted!SubmitProfile(seen) = [profile |-> TRUE, matches |-> ms, done |-> d, failed |-> f]
  <2>1. [seen EXCEPT !.profile = yes] = [profile |-> yes, matches |-> ms, done |-> d, failed |-> f]
    OBVIOUS
  <2> QED
    BY <1>0, <2>1, Zenon DEF Accepted!SubmitProfile
<1>3. ASSUME NEW status
      PROVE  Accepted!Finish(seen, status) =
                [profile |-> p, matches |-> ms, done |-> TRUE, failed |-> (status = "FAILED")]
  <2>1. PICK failure : failure = (status = "FAILED")
    OBVIOUS
  <2>2. [seen EXCEPT !.done = yes, !.failed = failure] =
           [profile |-> p, matches |-> ms, done |-> yes, failed |-> failure]
    <3>1. \A x : [[profile |-> p, matches |-> ms, done |-> d, failed |-> x] EXCEPT !.done = yes] =
                   [profile |-> p, matches |-> ms, done |-> yes, failed |-> x]
      OBVIOUS
    <3>2. [[profile |-> p, matches |-> ms, done |-> yes, failed |-> f] EXCEPT !.failed = failure] =
             [profile |-> p, matches |-> ms, done |-> yes, failed |-> failure]
      OBVIOUS
    <3>3. \A c : [c EXCEPT !.done = yes, !.failed = failure] =
                   [[c EXCEPT !.done = yes] EXCEPT !.failed = failure]
      BY Zenon
    <3> QED
      BY <3>1, <3>2, <3>3, Zenon
  <2> QED
    BY <1>0, <2>1, <2>2, Zenon DEF Accepted!Finish
<1>4. [Accepted!NewCollector EXCEPT !.profile = p] =
         [profile |-> p, matches |-> {}, done |-> FALSE, failed |-> FALSE]
  <2>1. [[profile |-> no, matches |-> {}, done |-> no, failed |-> no] EXCEPT !.profile = p] =
           [profile |-> p, matches |-> {}, done |-> no, failed |-> no]
    OBVIOUS
  <2> QED
    BY <1>0, <2>1, Zenon DEF Accepted!NewCollector
<1> HIDE DEF seen
<1> QED
  BY <1>0, <1>1, <1>2, <1>3, <1>4, Zenon

\* What is seen of the collector.
LEMMA SeenFields ==
    ASSUME TypeOK
    PROVE  /\ Seen.profile = (profile # NoProfile) /\ Seen.matches = DOMAIN matches
           /\ Seen.done = done /\ Seen.failed = failed
BY Zenon DEF Seen

\* A refusal is a step of the loop's collector.
LEMMA RefusedIsRefuse == Refused => Accepted!Refuse
BY DEF Refused, Accepted!Refuse

\* Every step of the collector is a step of the loop's collector, or none of it.
LEMMA StepIsAccepted == EInv /\ [Next]_vars => [Accepted!Next]_(Accepted!vars)
<1> SUFFICES ASSUME EInv, [Next]_vars PROVE Accepted!Next \/ UNCHANGED Accepted!vars
  OBVIOUS
<1>1. CASE Refused
  BY <1>1, RefusedIsRefuse DEF Accepted!Next
<1>2. ASSUME NEW claims \in ClaimLists, NEW tags \in TagLists, NEW risk \in BOOLEAN,
             ProfileValid(claims, tags),
             profile' = [claims |-> claims, tags |-> [i \in DOMAIN tags |-> Checked(tags[i])],
                         incomplete |-> risk \/ ThinResume(claims)],
             reply' = "accepted", UNCHANGED <<matches, done, failed>>
      PROVE  Accepted!Profile
  <2>1. profile' # NoProfile /\ profile = NoProfile /\ ~done
    BY <1>2, AcceptedProfile, NoProfileAssumption DEF ProfileValid
  <2>2. Accepted!ProfileAccepted(Seen)
    BY <2>1 DEF Seen, Accepted!ProfileAccepted
  <2>3. Seen' = Accepted!SubmitProfile(Seen)
    <3>1. Seen' = [profile |-> TRUE, matches |-> DOMAIN matches, done |-> done, failed |-> failed]
      <4>1. (profile' # NoProfile) = TRUE
        BY <2>1
      <4> QED
        BY <1>2, <4>1, Zenon DEF Seen
    <3>2. Accepted!SubmitProfile(Seen) =
             [profile |-> TRUE, matches |-> DOMAIN matches, done |-> done, failed |-> failed]
      BY SeenSteps
    <3> QED
      BY <3>1, <3>2, Zenon
  <2> QED
    BY <1>2, <2>2, <2>3 DEF Seen, Accepted!Profile, Accepted!Accept
<1>3. ASSUME NEW batch \in MatchLists, MatchesValid(batch), matches' = Stored(batch),
             reply' = "accepted", UNCHANGED <<profile, done, failed>>
      PROVE  Accepted!Matches
  <2> DEFINE jobs == {batch[i].job : i \in DOMAIN batch}
  <2>1. /\ DOMAIN matches' = DOMAIN matches \cup jobs
        /\ jobs \subseteq Jobs /\ jobs \cap DOMAIN matches = {} /\ jobs # {}
        /\ ~done /\ profile # NoProfile
    <3>1. /\ DOMAIN Stored(batch) = DOMAIN matches \cup jobs
          /\ jobs \subseteq Jobs \ DOMAIN matches /\ DOMAIN batch # {}
      BY <1>3, StoredIsSound
    <3>2. jobs # {}
      BY <3>1
    <3> HIDE DEF jobs
    <3> QED
      BY <1>3, <3>1, <3>2 DEF MatchesValid
  <2> HIDE DEF jobs
  <2>2. Accepted!MatchesAccepted(Seen, jobs)
    BY <2>1 DEF Seen, Accepted!MatchesAccepted
  <2>3. Seen' = Accepted!SubmitMatches(Seen, jobs)
    BY <1>3, <2>1 DEF Seen, Accepted!SubmitMatches
  <2> QED
    BY <1>3, <2>1, <2>2, <2>3 DEF Seen, Accepted!Matches, Accepted!Accept
<1>4. ASSUME NEW status \in {"DONE", "FAILED"}, ~done, status = "DONE" => Complete,
             done' = TRUE, failed' = (status = "FAILED"), reply' = "accepted",
             UNCHANGED <<profile, matches>>
      PROVE  Accepted!TaskDone
  <2>1. Accepted!FinishAccepted(Seen, status)
    <3>1. Seen.done = FALSE /\ Seen.matches = DOMAIN matches
          /\ (status = "DONE" => Seen.profile)
      BY <1>4, SeenFields, Zenon DEF EInv, TypeOK, Complete
    <3>2. status = "DONE" => Accepted!AllMatched(Seen)
      <4>1. Complete => Cardinality(DOMAIN matches) = Cardinality(Jobs)
        BY DEF Complete
      <4>2. Accepted!AllMatched(Seen) <=> Cardinality(DOMAIN matches) = Cardinality(Jobs)
        BY <3>1, Zenon DEF Accepted!AllMatched, Accepted!Cardinality, Cardinality
      <4> QED
        BY <1>4, <4>1, <4>2, Zenon
    <3>3. ~Seen.done
      BY <3>1, Zenon
    <3>4. status = "FAILED" \/ status = "DONE"
      OBVIOUS
    <3> QED
      BY <3>1, <3>2, <3>3, <3>4, Zenon DEF Accepted!FinishAccepted
  <2>2. Seen' = Accepted!Finish(Seen, status)
    <3>1. Seen' = [profile |-> profile # NoProfile, matches |-> DOMAIN matches, done |-> TRUE,
                   failed |-> (status = "FAILED")]
      BY <1>4, Zenon DEF Seen
    <3>2. Accepted!Finish(Seen, status) =
             [profile |-> profile # NoProfile, matches |-> DOMAIN matches, done |-> TRUE,
              failed |-> (status = "FAILED")]
      BY SeenSteps
    <3> QED
      BY <3>1, <3>2, Zenon
  <2> QED
    BY <1>4, <2>1, <2>2 DEF Seen, Accepted!TaskDone, Accepted!Accept
<1>5. CASE NextChunk
  <2>1. /\ done /\ ~failed /\ DOMAIN matches' = {} /\ done' = FALSE /\ reply' = "none"
        /\ failed' = FALSE /\ profile' = profile
    BY <1>5 DEF NextChunk, EInv, TypeOK
  <2>2. Seen' = [Accepted!NewCollector EXCEPT !.profile = Seen.profile]
    <3>1. Seen' = [profile |-> profile # NoProfile, matches |-> {}, done |-> FALSE, failed |-> FALSE]
      BY <2>1, Zenon DEF Seen
    <3>2. [Accepted!NewCollector EXCEPT !.profile = Seen.profile] =
             [profile |-> profile # NoProfile, matches |-> {}, done |-> FALSE, failed |-> FALSE]
      BY SeenSteps
    <3> QED
      BY <3>1, <3>2, Zenon
  <2> QED
    BY <2>1, <2>2 DEF Seen, Accepted!NextChunk, Accepted!Next
<1>6. CASE Rank \/ UNCHANGED vars
  BY <1>6 DEF Rank, vars, Accepted!vars
<1>7. CASE SubmitProfile
  BY <1>1, <1>2, <1>7 DEF SubmitProfile, Accepted!Next
<1>8. CASE SubmitMatches
  BY <1>1, <1>3, <1>8 DEF SubmitMatches, RefusedBatch, Accepted!Next
<1>9. CASE TaskDone
  BY <1>1, <1>4, <1>9 DEF TaskDone, Accepted!Next
<1> QED
  BY <1>5, <1>6, <1>7, <1>8, <1>9 DEF Next

\* With every check of evidence, tags and scores, the collector accepts and refuses
\* as the analysis loop assumes: whole submissions, in order, and none undone.
THEOREM LoopSeesSubmissions == Spec => ImplementsSubmissions
<1>1. Init => Accepted!Init
  <2> SUFFICES ASSUME Init PROVE Accepted!Init
    OBVIOUS
  <2>1. profile = NoProfile /\ DOMAIN matches = {} /\ done = FALSE /\ failed = FALSE /\ reply = "none"
    BY DEF Init
  <2> QED
    BY <2>1 DEF Accepted!Init, Accepted!NewCollector
<1>2. EInv /\ [Next]_vars => [Accepted!Next]_(Accepted!vars)
  BY StepIsAccepted
<1> QED
  BY <1>1, <1>2, Inductive, PTL DEF Spec, ImplementsSubmissions, Accepted!Spec
=============================================================================
