SPECIFICATION RateSpec
CONSTANTS
    Processes = {"p1", "p2"}
    Clients = {"c1"}
    Shared = Shared
    NoStore = NoStore
    Limit = 2
    Window = 2
    MaxHits = 4
    MaxNow = 5
INVARIANT
    LimitShared
CHECK_DEADLOCK FALSE
