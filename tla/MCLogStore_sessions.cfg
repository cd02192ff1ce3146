SPECIFICATION Spec
CONSTANTS
    s1 = s1
    s2 = s2
    Sessions = {s1, s2}
    NTasks = 2
    Window = 1
    MaxIds = 3
    MaxTime = 2000
SYMMETRY Symmetry
CHECK_DEADLOCK FALSE
INVARIANTS
    IndexReadable
    
    LogsReachable

    
