SPECIFICATION FairSpec
CONSTANTS
    NPipelines = 2
    NTasks <- TwoAndOne
    PairOf <- DefaultPair
    Backed <- LastBacked
    Commands = {"start", "start_pipeline", "stop_task"}
    Raises = {"on_event"}
    MaxCancels = 1

    
PROPERTIES
    ThreadsEnd
    ClientReturns
