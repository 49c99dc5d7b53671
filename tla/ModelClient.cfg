SPECIFICATION FairSpec
CONSTANTS
    RetryCount = 9
    Figures <- ReportedOrNot
INVARIANT RequestsAreCounted
PROPERTY ImplementsModelCall
