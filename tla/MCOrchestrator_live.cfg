SPECIFICATION FairSpec
CONSTANTS
    NPipelines = 2
    NTasks <- TwoAndOne
    PairOf <- OwnPair
    Backed = {}
    Commands = {"start", "start_pipeline"}
    Raises = {}
    MaxCancels = 1
PROPERTIES
    RefinesSequential
    VerdictReached
    VerdictSettlesTasks
