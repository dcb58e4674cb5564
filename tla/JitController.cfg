SPECIFICATION FairSpec
CONSTANTS
    Gids = {1, 2, 3, 4}
    Types <- Alphabet
    Setups <- AllSetups
INVARIANTS
    InStep
    ModelsExact
    BrokenForCause
PROPERTIES
    CallsEnd
