SPECIFICATION Spec
CONSTANTS
    VertexNum = 5
    Unit = 1296
    QueueFactor = 1
    QueueFloor = 2
    Timeouts = TRUE
    Top = 12
    Infinite = 100
    ForcedVertex = 5
    Programs <- MCPrograms
    Configs <- MCConfigs
    Updates <- MCUpdates
    Syndromes <- MCSyndromes
INVARIANTS
    LossSitesExact
    ProjectionExact
    UnionFindExact
    RiskExact
CHECK_DEADLOCK FALSE
