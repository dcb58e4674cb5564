SPECIFICATION FairSpec
CONSTANTS
    Gadgets = {1, 2, 3}
    Circuits <- FaultyAndOrdered
    Configs <- ParallelOrModes
    Failures <- Faulty
INVARIANTS
    ReservationsExact
    LeaderAfterItsPast
PROPERTIES
    CancelEndsCalls
    EveryDecodeReturns
