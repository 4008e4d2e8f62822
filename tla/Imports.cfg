SPECIFICATION ImportSpec
CONSTANTS
    Names = {"id", "key"}
    Paths <- SomePaths
    Rais = {"granted", "unknown"}
    GrantedRais = {"granted"}
    MaxCalls = 5
    Modules = {1, 2, 3}
    Unknown = {9}
    Priorities = {0, 1}
    Processes = {"p1", "p2"}
    Clients = {"c1"}
    Shared = Shared
    NoStore = NoStore
    Limit = 2
    Window = 2
    MaxHits = 4
    MaxNow = 5
INVARIANTS
    TypeOK
    TableAsDeclared
    MisplacedReported
    SortTypeOK
    OrderSound
    VerdictRight
    PriorityBorrowed
    RateTypeOK
    BurstBounded
    RefusedForCause
PROPERTY
    BootReachesHooks
CHECK_DEADLOCK FALSE
