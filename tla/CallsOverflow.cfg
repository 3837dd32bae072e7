CONSTANTS
    Funcs <- OneAfterTheOther
    MaxCallDepth = 2
    FrameSize = 2
    LabelSize = 8
    OpSize = 8
    MaxExnref = 1
SPECIFICATION CallsSpec
INVARIANT OverflowIsDepth
CHECK_DEADLOCK FALSE
