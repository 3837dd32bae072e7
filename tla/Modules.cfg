CONSTANTS
    Funcs <- Module
    MaxCallDepth = 5
    FrameSize = 5
    LabelSize = 11
    OpSize = 8
    MaxExnref = 1
    Programs <- MCPrograms
    Names = {"A", "B"}
    MaxLoads = 3
    Procs = {p1, p2}
    LinkSets = {a}
    MaxBuild = 2
    NumImports = 1
    OwnSizes <- Sizes2
    LinkedSizes <- WithTable
    Stray = 1
    MaxStarts = 4
    NoIr = NoIr
    NoFile = NoFile
    Files = {s}
    Dirs = {d}
    Stream = s
    Overrides = {1}
    MaxHandle = 5
    MaxPreopens = 1
    GuestFds = {1, 3, 4, 5}
    MaxTable = 4
    Free = Free
    Closed = Closed
    G = 3
    Instrs <- AllInstrs
    Results <- OneReference
    LocalType = "ref"
    MaxBody = 7
    MaxDead = 1
    Widths = {7, 8}
    MaxBytes = 3
SPECIFICATION MCSpec
INVARIANT DecodesExactly AcceptedIsSafe
INVARIANT ModulesTypesOK StacksMatchCode ValuesAreRight BranchTableIsOwn
INVARIANT NothingDangles ImportsReachDefinition
INVARIANT IrIsOwn HandlesHeldOnce
PROPERTY SavedIsComplete HostHandleKept ImplementsFdMap
CHECK_DEADLOCK FALSE
