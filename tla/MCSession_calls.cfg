SPECIFICATION Spec
CONSTANTS
    client = client
    callback = callback
    fetch = fetch
    encode = encode
    p1 = p1
    p2 = p2
    gpu = gpu
    Callers = {client, callback}
    Ids = {p1, p2}
    Tasks = {fetch, encode}
    Pools = {gpu}
    TasksOf <- Pipelines
    Plans <- TwoPlans
    Backed = {fetch}
    PoolOf <- InPool
    Raises = {"register", "make_runner", "start"}
    MaxCalls = 4
CHECK_DEADLOCK FALSE
INVARIANTS
    SessionTellsPlan
    
PROPERTIES
    StartReachesAll
