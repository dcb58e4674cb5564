SPECIFICATION Spec
CONSTANTS
    Shapes <- MCShapes
    MaxGenerators = 3
    WordBits = 2
    BlockWords = 2
    MaxLength = 5
INVARIANTS
    VectorsExact
    LinearAlgebraExact
    GroupsExact
CHECK_DEADLOCK FALSE
