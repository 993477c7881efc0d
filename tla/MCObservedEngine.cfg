CONSTANTS
    Procs = {p1, p2}
    Keys = {"rule", "broken"}
    Compilable = {"rule"}
    MaxOps = 4
SPECIFICATION Spec
INVARIANTS
    CountersAgree
    CompilesAreBounded
CHECK_DEADLOCK FALSE
