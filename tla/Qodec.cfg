CONSTANTS
    InferFormat <- MCInferFormat
    CallList <- MCCallList
    Mnemonics <- MCMnemonics
    Blocks <- MCBlocks
    SafeFilename <- MCSafeFilename
    GadgetStem <- MCGadgetStem
    Layouts <- MCLayouts
    Destinations <- MCDestinations
    Filenames <- MCFilenames
    Circuits <- MCCircuits
    IsaNames <- MCIsaNames
    MaxEdits = 1
    MaxSaves = 2
SPECIFICATION Spec
INVARIANTS
    RoundTrip
    StaysInside
    SavesInPlace
CHECK_DEADLOCK FALSE
