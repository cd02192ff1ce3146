SPECIFICATION BreakerSpec
CONSTANTS
    c1 = c1
    c2 = c2
    c3 = c3
    Callers = {c1, c2, c3}
    Threshold = 2
    RecoveryTimeout = 1
    RetryOnQueueFull = TRUE
    Kinds = {"timeout", "thread_died"}
    MaxTime = 3
    MaxFailures = 4
SYMMETRY Symmetry
INVARIANTS
    OpensAtThreshold
    
PROPERTIES
    ClosesAfterTimeout
