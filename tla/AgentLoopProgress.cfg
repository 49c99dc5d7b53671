SPECIFICATION Spec
CONSTANTS
    MaxTurns = 6
    MaxToolCalls = 5
    MaxTokens = 32000
    MaxContextTokens = 8000
    Attempts = 1
    Jobs = {j1}
    NumLines = 1
    RepeatKeys <- OneKey
    AnalysisTokens = 3000
    FinalTokens = 2500
    ProfileTokens = 400
    MatchTokens = 300
    LineTokens = 50
    FeedbackTokens = 50
    ReplyTokens = {600, 8000}
    InputBills <- Plain
INVARIANTS
    FinishingIsIrrevocable
PROPERTIES
    NothingAcceptedAfterContextEnds
    StallEndsTheTask
    RereadingIsProgress
