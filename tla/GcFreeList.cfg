SPECIFICATION Spec
CONSTANTS
    MaxSlots = 2
    NFields = 1
    Kind = {"struct"}
    MaxOps = 2
    GcThresholdDefault = 1
    MaxSince = 3
    MayOom = TRUE
    Unscanned = {"table", "native"}
INVARIANTS TypeOK FreeListIsStack
PROPERTIES AllocationIsFresh CollectionEnds
