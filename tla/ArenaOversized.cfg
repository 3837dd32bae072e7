SPECIFICATION ArenaSpec
CONSTANTS
    PageSlots = 4
    Sizes = {0, 1, 2, 5}
    MaxArenaPages = 3
    ArenaOom = TRUE
INVARIANT StorageIsDisjoint
