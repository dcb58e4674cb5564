SPECIFICATION SpecValues
CONSTANTS
    Gadgets = {1, 2, 3, 4}
    Circuits <- ShapesOrDecoded
    Configs <- ShapesOrDecodedConfigs
    Problems <- ShapesOrDecodedProblems
    Failures <- NoFailures
INVARIANTS
    CommitOnce
    BufferOnAllSides
    NoStrandedFreeHop
    SyndromeExplained
PROPERTIES
    CacheExact
