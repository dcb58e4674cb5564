SPECIFICATION FairSpec
CONSTANTS
    Calls = {c1, c2, c3}
    MaxHid = 1
    Parallel = 2
INVARIANTS
    CounterMatchesWork
    HandleStable
    PooledInstancesClean
    ResetDrains
PROPERTIES
    EveryCallEnds
