SPECIFICATION Spec
CONSTANTS
    Callers = {c1, c2, c3}
    Keys = {k1, k2}
    Hashes <- TwoPayloads
    NoCaller = NoCaller
    Slots = 1
    Capacity = 1
    TTL = 3
    MaxAge = 2
    Skew = 0
    Steps = 2
    MaxRun = 1
    SnapshotAt <- SnapshotOf
    MaxNow = 3
CHECK_DEADLOCK FALSE
SYMMETRY Symmetry
INVARIANTS
    NoSlotLost
    ReplaySound
    CacheBound
    ConflictWindow
