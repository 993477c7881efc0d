SPECIFICATION Spec
CONSTANTS
    p1 = p1
    p2 = p2
    k1 = k1
    k2 = k2
    k3 = k3
    a = a
    b = b
    None = None
    Procs <- MCProcs
    Keys <- MCKeys
    Programs <- MCPrograms
    Requested = 2
    MaxOps = 5
INVARIANTS ListIsSound ReportAccounts
PROPERTIES EvictsLeastRecent ImplementsBoundedCache
CHECK_DEADLOCK FALSE
