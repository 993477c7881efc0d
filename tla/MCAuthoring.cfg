SPECIFICATION AuthoringSpec
CONSTANTS
    WordBits = 4
    IntBits = 3
    Substring = {}
    ValueKey = "value"
    Letters = {"a", "b", "e", "f", "g", "i", "l", "n", "r", "s", "t", "u"}
    Alphabets <- MCAllAlphabets
    Writings <- MCAllWritings
    MaxLength = 5
    Registries <- MCRegistries
    Rules <- MCRules
    Names <- MCNames
    MaxPrograms = 2
    Loads <- MCAllLoads
    Registry <- MCRegistry
    Published <- MCPublished
    Definitions <- MCAllDefinitions
INVARIANTS
    ParsesTheGrammar
    ServedIsCurrent
    CompiledOnce
    AcceptsWhatIsDescribable
    LookupFindsTheLatest
    MappedInputsFit
    OutputsAreFilled
PROPERTIES
    CallsReturn
CHECK_DEADLOCK FALSE
