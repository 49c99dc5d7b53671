SPECIFICATION Spec
CONSTANTS
    MaxTurns = 4
    MaxToolCalls = 5
    MaxTokens = 24000
    MaxContextTokens = 16000
    Attempts = 1
    Jobs = {j1}
    NumLines = 0
    RepeatKeys <- NoKeys
    AnalysisTokens = 3000
    FinalTokens = 2500
    ProfileTokens = 400
    MatchTokens = 300
    LineTokens = 50
    FeedbackTokens = 50
    ReplyTokens = {600, 8000}
    InputBills <- Plain
INVARIANTS
    CorrectionAffordable
