SPECIFICATION Spec
CONSTANTS
    Asked = {1, 3}
    DefaultParallel = 2
    MaxPools = 2
    MaxTasks = 5
    MaxPending = 2
CHECK_DEADLOCK FALSE
INVARIANTS
    PoolBound
    
