SPECIFICATION StoredSpec
SYMMETRY Alike
CONSTANTS
    Keys = {"k1"}
    Callers = {c1, c2}
    Ttls = {0, 1, 2}
    WholeTtls = {0, 2}
    Form <- FormOfVersion
    MaxVersion = 4
    MaxNow = 2
    Absent = Absent
    Idle = Idle
    Docs = {"d1"}
    Handlers = {"h1", "h2"}
    Actors = {"a"}
    NoActor = NoActor
    NoCopy = NoCopy
    NoBulk = NoBulk
    MaxDeletions = 2
INVARIANTS
    TypeOK
    InvalidationHolds
    MarksTypeOK
    MarksAgree
PROPERTIES
    ImplementsCache
    FlipsTakeEffect
    DeletionRecordKept
CHECK_DEADLOCK FALSE
