SPECIFICATION Spec
CONSTANTS
    none = none
    local = local
    Symbols = {x1, x2}
    Sessions = {s1, s2}
    Providers = {none, local}
    Fallback = none
    Dimension <- DimensionOf
    MaxVersion = 1
    MaxMoves = 1
    MayStop = TRUE
    NoRow = NoRow
    NoDimension = NoDimension
    Calls = {c1, c2}
    Requests <- SomeRequests
    Contents <- SomeContents
    Trees <- SomeTrees
    MaxEdits = 1
    Unset = Unset
    Absent = Absent
    Broken = Broken
SYMMETRY Symmetry
INVARIANTS
    TypeOK
    VectorIndexIsSound
    HighestLayerWins
    OnlyOwnFileIsWritten
    AnswerFitsDisk
PROPERTY
    CommitStoresProgram
\* A server that died does not come back.
CHECK_DEADLOCK FALSE
