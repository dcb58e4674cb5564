SPECIFICATION Spec
CONSTANTS
    Starts = {1, 2}
    Instructions <- Circuits
INVARIANTS SpecificExact CompleteExact NoisyExact EncodersExact
CHECK_DEADLOCK FALSE
