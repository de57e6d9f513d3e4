SPECIFICATION Spec
CONSTANTS
    t1 = t1
    w1 = w1
    w2 = w2
    c1 = c1
    c2 = c2
    NoRequest = NoRequest
    TriggerRequests = {}
    WatcherRequests = {w1, w2}
    Calls = {}
    Tool <- DistinctTools
INVARIANT
    BuilderStoreUsable
