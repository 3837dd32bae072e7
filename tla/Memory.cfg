CONSTANTS
    Min = 1
    Max = 3
    MaxPages = 4
    Ceiling = 2
    Requests = {0, 1, 2}
    MaxDepth = 3
    Thread = {t1, t2}
    Addr = {a1, a2}
    MaxI32 = 2
    MaxState = 2
    TimedWaits = {TRUE, FALSE}
    LazyQueue = TRUE
    MayOom = TRUE
    MaxCounted = 2
    Spare = 1
    MaxMoves = 1
    Counts = {0, 1, 2, 3}
    PageSlots = 4
    Sizes = {0, 1, 2, 3, 5}
    MaxArenaPages = 3
    ArenaOom = TRUE
SPECIFICATION MCSpec
INVARIANT MemoryTypesOK FaultIsTrap TiersAgree FreshIsZero CeilingHolds
INVARIANT WokenWasNotified
INVARIANT SlicesInBounds OrdinaryIsDisjoint
PROPERTY WaitReturns
CHECK_DEADLOCK FALSE
