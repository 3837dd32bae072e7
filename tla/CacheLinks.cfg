CONSTANTS
    Procs = {p1}
    LinkSets = {a, b}
    MaxBuild = 1
    NumImports = 1
    OwnSizes <- Sizes2
    LinkedSizes <- Unlike
    Stray = 1
    MaxStarts = 2
    NoIr = NoIr
    NoFile = NoFile
SPECIFICATION CacheSpec
INVARIANT IrIsOwn
CHECK_DEADLOCK FALSE
