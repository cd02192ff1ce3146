SPECIFICATION Spec
CONSTANTS
    NPipelines = 1
    NTasks <- One
    PairOf <- DefaultPair
    Backed = {}
    Commands = {"start"}
    Raises = {}
    MaxCancels = 1
CHECK_DEADLOCK FALSE
INVARIANTS
    CancelExcludesSuccess
