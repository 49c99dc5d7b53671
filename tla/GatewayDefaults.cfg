SPECIFICATION GatewaySpec
CONSTANTS
    Callers = {c1, c2}
    Keys = {k1, k2}
    Hashes = {h1, h2}
    NoCaller = NoCaller
    Capacity = 1
    TTL = 1
    MaxNow = 1
    Forms <- Oddities
CHECK_DEADLOCK FALSE
INVARIANTS
    DefaultsMayBeOmitted
