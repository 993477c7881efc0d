CONSTANTS
    WordBits = 4
    Substring <- MCContains
    ValueKey <- MCValueKey
    Registry <- MCRegistry
    Contexts <- MCAllContexts
    Rules <- MCAllRules
    Trees <- MCAllTrees
    ConstKey <- PrintedKey
    Coerced <- MCCoerced
    Stored <- MCStored
    Programs = {}
    MaxSteps = 100
    MaxStackDepth = 8
SPECIFICATION SnapshotSpec
INVARIANTS
    CompiledIsWellFormed
    FoldingKeepsMeaning
    RestoredMeansTheSame
    TypesHold
    NamesMatchAccessors
    FingerprintSurvivesText
CHECK_DEADLOCK FALSE
