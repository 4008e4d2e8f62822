SPECIFICATION PartsSpec
SYMMETRY Alike
CONSTANTS
    Rais = {"r1", "r2"}
    Endpoints = {"e1", "e2"}
    Urls = {}
    Releases = {"v1", "v2"}
    Table <- MCTable
    UrlsOf <- MCUrlsOf
    Instances = {i1, i2}
    SyncInstances = {i1, i2}
    Operators = {o1, o2}
    NoDoc = NoDoc
    NoHold = NoHold
INVARIANTS
    TypeOK
    UniqueOnceIndexed
    MirrorComplete
PROPERTIES
    TogglesSurvive
