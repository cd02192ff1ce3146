SPECIFICATION FairSpec
CONSTANTS
    Chunk = 2
    PipeSize = 3
    MaxText = 5
CHECK_DEADLOCK FALSE
INVARIANTS
    TextWhole
    LeavesNothingBehind
PROPERTIES
    TerminateEnds
