----------------------------- MODULE MCEvidence -----------------------------
(* Values of the constants of Evidence for TLC. *)
EXTENDS Evidence

\* Two pages; the quote "ab" stands on the first, "bc" over two of its lines,
\* "cd" only over the page break.
LongText == << << <<"a", " ", "b">>, <<"c">> >>, << <<"d", "a">> >> >>
ShortText == << << <<"a", "b", " ">>, <<"c">> >>, << <<"d">> >> >>
BothTexts == {LongText, ShortText}

E(quote, page, first, last) == [quote |-> quote, page |-> page, first |-> first, last |-> last]
AB == E(<<"a", "b">>, 1, 1, 1)
BC == E(<<"b", " ", "c">>, 1, 1, 2)
TooShort == E(<<"a", " ">>, 1, 1, 1)
Beyond == E(<<"a", "b">>, 1, 1, 4)
Backwards == E(<<"a", "b">>, 1, 2, 1)
TooWide == E(<<"a", "b">>, 1, 1, 3)
WrongPage == E(<<"a", "b">>, 2, 1, 1)
OverTheBreak == E(<<"c", "d">>, 1, 2, 3)
Altered == E(<<"a", "c">>, 1, 1, 2)
LineBefore == E(<<"a", "b">>, 1, 2, 2)
LineAfter == E(<<"b", "c">>, 1, 1, 1)

Evidences ==
    {AB, BC, TooShort, Beyond, Backwards, TooWide, WrongPage, OverTheBreak, Altered,
     LineBefore, LineAfter}
EvidenceLists == {<<>>, <<AB>>} \cup {<<BC, e>> : e \in Evidences}

Claim(kind, summary, evidence) == [kind |-> kind, summary |-> summary, evidence |-> evidence]
Project == Claim("project", TRUE, <<AB>>)
SomeClaims ==
    {<<>>, <<Project>>, <<Project, Project, Project>>, <<Claim("hobby", TRUE, <<AB>>)>>,
     <<Claim("skill", FALSE, <<AB>>)>>}
    \cup {<<Claim("education", TRUE, e)>> : e \in EvidenceLists}

Tag(code, confidence, status, evidence) ==
    [code |-> code, confidence |-> confidence, status |-> status, evidence |-> evidence]
SomeTags ==
    {<<>>, <<Tag("java", 90, "supported", <<AB>>)>>, <<Tag("go", 101, "supported", <<AB>>)>>,
     <<Tag("go", 90, "supported", <<AB>>), Tag("go", 90, "supported", <<AB>>)>>,
     <<Tag("go", 90, "confirmed", <<AB>>)>>, <<Tag("go", 80, "supported", <<AB>>)>>,
     <<Tag("go", 79, "supported", <<BC>>)>>, <<Tag("go", 90, "supported", <<OverTheBreak>>)>>}

Match(job, merit, quality, evidence) ==
    [job |-> job, merit |-> merit, quality |-> quality, confidence |-> 50, reason |-> TRUE,
     evidence |-> evidence]
M1 == Match(1, 1000, 90, <<AB>>)
M2 == Match(2, 1000, 20, <<AB>>)
SomeMatches ==
    {<<>>, <<M1>>, <<M2>>, <<M1, M2>>, <<Match(2, 1000, 90, <<BC>>), M1>>, <<M1, M1>>,
     <<M1, Match(3, 1000, 90, <<AB>>)>>, <<M2, Match(1, 9001, 90, <<AB>>)>>,
     <<M2, Match(1, 1000, 101, <<AB>>)>>, <<[M1 EXCEPT !.confidence = -1]>>,
     <<[M1 EXCEPT !.reason = FALSE]>>}
    \cup {<<M1, Match(2, 1000, 90, e)>> : e \in EvidenceLists}

TwoJobs == {1, 2}
=============================================================================
