SPECIFICATION Spec
CONSTANTS
    Texts <- BothTexts
    Blank = " "
    MinQuote = 2
    MaxSpan = 2
    MinCharacters = 6
    MaxClaims = 2
    TagCodes = {"go"}
    Jobs <- TwoJobs
    Chunks = 2
    ClaimLists <- SomeClaims
    TagLists <- SomeTags
    MatchLists <- SomeMatches
    NoProfile = NoProfile
INVARIANTS
    EvidenceIsGenuine
    DoubtIsCarried
    RankingIsDetermined
PROPERTY ImplementsSubmissions
