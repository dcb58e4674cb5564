SPECIFICATION Spec
CONSTANTS
    Gids = {1, 2, 3, 4}
    Programs <- Small
    None = None
INVARIANTS
    FramesConsistent
    ReadoutsExact
