SPECIFICATION FairSpec
CONSTANTS
    Gids = {1, 2, 3}
    Setups <- Complete
    None = None
INVARIANTS
    TablesExact
    ReadoutsFinal
PROPERTIES
    ImplementsWholeDecoding
    CallsEnd
