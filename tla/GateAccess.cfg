SPECIFICATION AccessSpec
SYMMETRY Alike
CONSTANTS
    Rais = {"r1", "r2"}
    Endpoints = {"e1", "e2"}
    Urls = {"u1", "u3"}
    Releases = {"v1", "v2"}
    Table <- MCTable
    UrlsOf <- MCUrlsOf
    Instances = {i1, i2}
    SyncInstances = {i1, i2}
    Operators = {}
    NoDoc = NoDoc
    NoHold = NoHold
    AclRais = {"r1", "r2"}
    Roles = {"user", "public"}
    PublicRoles = {"public"}
    Names = {"user", "public"}
    AclModules = {"m"}
    ModuleAcl <- MCModuleAcl
    Requests = {"q1"}
INVARIANTS
    GateTypeOK
    GrantedPath
    SyncedReleaseKnown
