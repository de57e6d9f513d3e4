SPECIFICATION FairSpec
CONSTANTS
    t1 = t1
    w1 = w1
    w2 = w2
    c1 = c1
    c2 = c2
    NoRequest = NoRequest
    TriggerRequests = {t1}
    WatcherRequests = {w1}
    Calls = {c1, c2}
    Tool <- SameTool
PROPERTIES
    EveryRequestFinishes
    CancelStopsLoop
