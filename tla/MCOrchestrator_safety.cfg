SPECIFICATION Spec
CONSTANTS
    NPipelines = 1
    NTasks <- Three
    PairOf <- OwnPair
    Backed = {}
    Commands = {"execute", "start", "start_pipeline", "stop_task", "stop"}
    Raises = {"Popen", "on_event", "on_cancel", "on_finally"}
    MaxCancels = 1
INVARIANTS
    InOrder
    StatusMatchesExit
    VerdictMatchesTasks
    FinallyOnce
    IInv
PROPERTIES
    NothingStartsAfterVerdict
