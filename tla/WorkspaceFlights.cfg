SPECIFICATION FairSpec
CONSTANTS
    Keys = {k1}
    Calls = {c1, c2}
    Modes = {1, 2}
    Capacities = {1}
    TTLs = {0, 1}
    MaxVersion = 1
    MaxTime = 2
    NoEntry = NoEntry
    NoFlight = NoFlight
    NoResult = NoResult
    LoadError = LoadError
INVARIANTS
    ServedModeSuffices
    QuietReloadIsFresh
PROPERTIES
    NeverDowngraded
    EveryCallReturns
    IdleIsEvicted
