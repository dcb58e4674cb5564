SPECIFICATION FairSpec
CONSTANTS
    Ops = {o1, o2}
    Tasks = {t1}
    Resets = {r1, r2}
    RelaxedReorder = TRUE
    DroppedResets = TRUE
INVARIANTS
    PauseOwned
PROPERTIES
    ResetEnds
