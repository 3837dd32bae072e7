SPECIFICATION Spec
CONSTANTS
    MaxSlots = 3
    NFields = 1
    Kind = {"array"}
    MaxOps = 2
    GcThresholdDefault = 1
    MaxSince = 6
    MayOom = FALSE
    Unscanned = {}
INVARIANTS ReferencesStayLive MarkerMissesNothing
PROPERTIES CollectionIsExact
