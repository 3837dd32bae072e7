CONSTANTS
    CheckInterval = 2
    MaxI64 = 9
    TableLoops = TRUE
    MaxCompiles = 1
    StartFuel = 4
    JitInterval = 2
    MaxDepth = 3
    MaxTicks = 6
    HasDeadline = TRUE
    Cancellable = TRUE
    Programs <- AllPrograms
    MaxCalls = 4
    HotThreshold = 3
    BackEdgeThreshold = 2
    MaxJitInstrs = 6
    GuardWindow = 2
    MaxJitParams = 2
    MaxCallDepth = 3
    RegStackSize = 6
    JitSlots = 1
    MaxArg = 3
SPECIFICATION MCSpec
INVARIANT EngineTypesOK FuelIsCeiling ChargedOnce
INVARIANT EffectsOnce GuardPassedOnce HotIsDecided
PROPERTY CancelStops DeadlineStops FuelStops Returns
CHECK_DEADLOCK FALSE
