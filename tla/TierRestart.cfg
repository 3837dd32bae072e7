CONSTANTS
    Programs <- StoringLoop
    MaxCalls = 1
    HotThreshold = 3
    BackEdgeThreshold = 2
    MaxJitInstrs = 6
    GuardWindow = 2
    MaxJitParams = 2
    MaxCallDepth = 3
    RegStackSize = 6
    JitSlots = 1
    MaxArg = 3
SPECIFICATION TierSpec
INVARIANT RestartIsInvisible
CHECK_DEADLOCK FALSE
