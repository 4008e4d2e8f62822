SPECIFICATION Spec
CONSTANTS
    Rais = {"r1", "r2"}
    Endpoints = {"e1", "e2", "e3"}
    Urls = {}
    Releases = {"v1", "v2"}
    Table <- MCTable
    UrlsOf <- MCUrlsOf
    Instances = {0, 1}
    SyncInstances = {0}
    Operators = {"o1"}
    NoDoc = NoDoc
    NoHold = NoHold
INVARIANT
    SyncAcceptsMoves
