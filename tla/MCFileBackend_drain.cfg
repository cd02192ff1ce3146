SPECIFICATION FairSpec
CONSTANTS
    stdout = stdout
    Writers <- OneWriter
    Capacity = 3
    MaxLines = 2
    MaxFiles = 2
    MinDrain = 2
    Keep = 2
    Fails = {"open", "write", "sink"}
    MaxPuts = 6
CHECK_DEADLOCK FALSE
INVARIANTS
    StreamIntact
    LossIsOldest
    
PROPERTIES
    CloseReturns
    WriteReturns
