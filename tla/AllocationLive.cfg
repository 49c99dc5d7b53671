SPECIFICATION FairSpec
CONSTANTS
    Callers = {c1, c2}
    Keys = {k1}
    Hashes <- TwoPayloads
    NoCaller = NoCaller
    Slots = 1
    Capacity = 1
    TTL = 2
    MaxAge = 2
    Skew = 0
    Steps = 2
    MaxRun = 1
    SnapshotAt <- SnapshotOfAny
    MaxNow = 2
CHECK_DEADLOCK FALSE
PROPERTIES
    EveryCallReturns
