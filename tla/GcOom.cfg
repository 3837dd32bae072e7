SPECIFICATION Spec
CONSTANTS
    MaxSlots = 2
    NFields = 1
    Kind = {"struct"}
    MaxOps = 2
    GcThresholdDefault = 1
    MaxSince = 4
    MayOom = TRUE
    Unscanned = {}
INVARIANT NoDanglingReference

