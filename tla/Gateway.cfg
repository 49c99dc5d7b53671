SPECIFICATION GivenFairSpec
CONSTANTS
    Callers = {c1, c2, c3}
    Keys = {k1, k2}
    Hashes = {h1, h2}
    NoCaller = NoCaller
    Capacity = 1
    TTL = 1
    MaxNow = 2
    Forms <- FewForms
CHECK_DEADLOCK FALSE
INVARIANTS
    OneRunPerKey
    KeptForAnHour
    ServedOwnRequest
    CapacityBound
    ConflictHasACause
PROPERTIES
    EveryCallerReturns
    ImplementsSingleFlight
