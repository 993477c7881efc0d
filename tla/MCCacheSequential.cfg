CONSTANTS
    k1 = k1
    k2 = k2
    bad = bad
    p1 = p1
    p2 = p2
    Procs <- OneProc
    Keys <- TwoKeys
    Compilable <- TwoKeys
    Paths <- TwoKeys
    PathOf <- PathsOfKeys
    TTL = 2
    LocalCapacity = 1
    LocalInvalidates = TRUE
    MaxTime = 3
    MaxOps = 5
    MaxFaults = 1
SPECIFICATION Spec
CHECK_DEADLOCK FALSE
INVARIANTS
    TypeOK
    TiersAgree
    TtlBoundsService
    ServesNothingInvalidated
