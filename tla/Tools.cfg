SPECIFICATION Spec
CONSTANTS
    MaxItem = 4
    MaxChunkSize = 2
    Datasets <- SortedLists
    Outputs <- AllOutputs
    ChunkSizes = {0, 1, 3}
    Limits = {1, 2}
    Caps = {0, 3}
    MaxEdits = 2
    NoCursor = NoCursor
    Packages <- AllPackages
    Programs <- SomePrograms
    Windows <- SomeWindows
    Rules <- SomeRules
    Beneath <- Tree
    Funcs <- AllFuncs
    CallGraphs <- SomeCallGraphs
    Narrow <- NarrowFuncs
    Own <- OwnFuncs
    Synthetic = {2}
    Queries <- SomeQueries
    Depths = {0, 2}
    DefaultDepth = 3
    DepthLimit = 3
    PathCounts = {1, 2}
    Roles <- SomeRoles
    MaxCallDepth = 3
    DataFields = {"x", "y"}
    LockFields = {"mu", "nu"}
    GoPrograms <- SomeGoPrograms
    Sources = {"api", "cmd"}
    Patterns = {{"api"}, {"api", "cmd"}}
    RowNames = {"route", "register"}
    Guessed = {"route"}
    Declares = "api"
    Registers = "cmd"
    Asks = {a1, a2}
    MaxRevisions = 1
    NoProgram = NoProgram
    AppFuncs = {"main", "a", "b", "c"}
    Methods = {"b"}
    Apps <- SomeApps
    ModelPkg = "models"
    MaxPasses = 2
    Dynamic = "dynamic"
SYMMETRY SymmetricAsks
INVARIANTS
    TypeOK
    ReadsWholeList
    ChunksFit
    CyclesExact
    DependentsExact
    WalkExact
    PathsExact
    DeadExact
    RaceIsReported
    LockedIsQuiet
    ListingIsComplete
    WrappedUseIsKept
PROPERTY
    NoViolationLost
\* A tool that has answered stops.
CHECK_DEADLOCK FALSE
