CONSTANTS
    WordBits = 4
    Substring <- MCSubstring
    ValueKey <- MCValueKey
    Registry <- MCRegistry
    Contexts <- MCContexts
    Rules <- MCRules
    Trees <- MCTrees
    ConstKey <- PrintedKey
    Programs = {}
    MaxSteps = 100
    MaxStackDepth = 8
SPECIFICATION RuleSpec
INVARIANT VMMatchesInterpreter
CHECK_DEADLOCK FALSE
