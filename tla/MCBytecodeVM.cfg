CONSTANTS
    WordBits = 4
    ValueKey = 2
    Substring <- MCSubstring
    Programs <- MCPrograms
    Contexts <- MCContexts
    MaxSteps = 5
    MaxStackDepth = 2
SPECIFICATION Spec
CHECK_DEADLOCK FALSE
INVARIANTS
    TypeOK
    WithinBudgets
    WellFormedRunsClean
    TraceFollowsExecution
PROPERTIES
    CancelStopsExecution
    EveryEvalReturns
