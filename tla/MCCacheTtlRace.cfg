CONSTANTS
    k1 = k1
    k2 = k2
    bad = bad
    p1 = p1
    p2 = p2
    Procs <- TwoProcs
    Keys <- OneKey
    Compilable <- OneKey
    Paths <- OneKey
    PathOf <- PathsOfKeys
    TTL = 1
    LocalCapacity = 1
    LocalInvalidates = TRUE
    MaxTime = 2
    MaxOps = 4
    MaxFaults = 0
SPECIFICATION Spec
CHECK_DEADLOCK FALSE
INVARIANTS
    TtlBoundsService
