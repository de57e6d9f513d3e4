SPECIFICATION Spec
CONSTANTS
    Keys = {k1}
    Calls = {c1, c2}
    Modes = {1}
    Capacities = {1}
    TTLs = {0}
    MaxVersion = 1
    MaxTime = 0
    NoEntry = NoEntry
    NoFlight = NoFlight
    NoResult = NoResult
    LoadError = LoadError
INVARIANT
    ReloadIsFresh
