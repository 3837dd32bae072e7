CONSTANTS
    Thread = {t1, t2}
    Addr = {a1}
    Counts = {1}
    MaxI32 = 2
    MaxState = 2
    TimedWaits = {TRUE}
    LazyQueue = FALSE
    MayOom = FALSE
    MaxCounted = 2
    Spare = 2
    MaxMoves = 0
SPECIFICATION WaitSpec
PROPERTY RemovesSelf
CHECK_DEADLOCK FALSE
