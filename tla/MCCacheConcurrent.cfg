CONSTANTS
    k1 = k1
    k2 = k2
    bad = bad
    p1 = p1
    p2 = p2
    Procs <- TwoProcs
    Keys <- KeysWithBad
    Compilable <- OneKey
    Paths <- KeysWithBad
    PathOf <- PathsOfKeys
    TTL = 1
    LocalCapacity = 1
    LocalInvalidates = TRUE
    MaxTime = 1
    MaxOps = 3
    MaxFaults = 1
SPECIFICATION Spec
CHECK_DEADLOCK FALSE
INVARIANTS
    TiersHoldOwnProgram
    ServedProgramIsOwn
    FaultsNeverSurface
    QuietInvalidateHolds
PROPERTIES
    CallsReturn
