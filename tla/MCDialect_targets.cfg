SPECIFICATION Spec
CONSTANTS
    Tokens <- AllTokens
    Groups <- SomeGroups
    ReprLimit = 9
    Policy = "BEST_EFFORT"
    ParseFns = {"runner", "results", "raise"}
    MaxTokens = 5
    Longer <- Plainest
    MaxLonger = 7
    MaxFields = 2
CHECK_DEADLOCK FALSE
INVARIANTS
    TypeOK
    
    EveryFieldAnswered
    
