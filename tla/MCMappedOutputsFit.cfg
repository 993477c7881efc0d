SPECIFICATION ValidatorSpec
CONSTANTS
    WordBits = 4
    Substring = {}
    ValueKey = "value"
    Loads <- MCLoads
    Registry <- MCRegistry
    Published <- MCPublished
    Definitions <- MCDefinitions
INVARIANT MappedOutputsFit
CHECK_DEADLOCK FALSE
