SPECIFICATION Spec
CONSTANTS
    Callers = {c1, c2, c3}
    Keys = {k1}
    Hashes <- TwoPayloads
    NoCaller = NoCaller
    Slots = 2
    Capacity = 2
    TTL = 2
    MaxAge = 5
    Skew = 0
    Steps = 1
    MaxRun = 1
    SnapshotAt <- SnapshotOfAny
    MaxNow = 4
CHECK_DEADLOCK FALSE
SYMMETRY Symmetry
INVARIANTS
    FiveMinuteWindow
