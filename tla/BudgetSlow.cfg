CONSTANTS
    CheckInterval = 2
    MaxI64 = 9
    TableLoops = FALSE
    MaxCompiles = 1
    StartFuel = 4
    JitInterval = 2
    MaxDepth = 3
    MaxTicks = 6
    HasDeadline = FALSE
    Cancellable = FALSE
SPECIFICATION Spec
INVARIANT FuelLimit
