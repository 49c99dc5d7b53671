SPECIFICATION TaskSpec
CONSTANTS
    Chunks = 2
    MaxTurns = 4
    MaxToolCalls = 5
    MaxTokens = 52000
    MaxContextTokens = 11000
    Attempts = 2
    Jobs = {j1}
    NumLines = 0
    RepeatKeys <- NoKeys
    AnalysisTokens = 3000
    FinalTokens = 2500
    ProfileTokens = 400
    MatchTokens = 300
    LineTokens = 50
    FeedbackTokens = 50
    ReplyTokens = {2500, 60000}
    InputBills <- ReportedOrNot
INVARIANTS
    TaskTypeOK
    HonestSpending
    RequestFits
    FinalSubmissionAffordable
    CompletedResultIsWhole
    AllOrNothing
    ProfileIsShared
    FailureNamesItsCause
PROPERTIES
    TaskUsesUpWork
