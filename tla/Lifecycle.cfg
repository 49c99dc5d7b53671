SPECIFICATION FairSpec
CONSTANTS
    Configs <- SomeConfigs
    Pages <- SomePages
    Versions = {"v1"}
    BuiltIn <- Analysis
    Tasks = {t1, t2}
    Unpublished = Unpublished
INVARIANTS
    SessionsAreBalanced
    PinnedToolsOnly
    OnlyAllowedTools
    ToolsOutliveTasks
PROPERTIES
    PhasesEnd
