SPECIFICATION Spec
CONSTANTS
    Keys = {k1, k2, k3}
    Calls = {c1, c2}
    Modes = {1, 2}
    Capacities = {0, 2}
    TTLs = {0, 1}
    MaxVersion = 0
    MaxTime = 2
    NoEntry = NoEntry
    NoFlight = NoFlight
    NoResult = NoResult
    LoadError = LoadError
SYMMETRY CallSymmetry
INVARIANTS
    MapMatchesList
    WithinCapacity
PROPERTY
    SweepIsComplete
