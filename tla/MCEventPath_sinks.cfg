SPECIFICATION FairSpec
CONSTANTS
    NSinks = 2
    Threshold = 1
    MaxThreshold = 3
    MaxAttempts = 4
    Fails = {"sink", "decode"}
    MaxLines = 3
    PipeSize = 2
    MaxQuiet = 6
INVARIANTS
    StreamWhole
PROPERTIES
    TimeoutAfterSilence
    EverythingArrives
    SilenceReported
