SPECIFICATION BoardSpec
CONSTANTS
    Rais = {"r1", "r2"}
    Endpoints = {"e1", "e2"}
    Urls = {"u1", "u3"}
    Releases = {"v1", "v2"}
    Table <- BoardTable
    UrlsOf <- MCUrlsOf
    Instances = {0, 1}
    SyncInstances = {0}
    Operators = {"o1"}
    NoDoc = NoDoc
    NoHold = NoHold
    AclRais = {"r1", "r2"}
    Roles = {"user", "public"}
    PublicRoles = {"public"}
    Names = {"user", "public"}
    AclModules = {"m"}
    ModuleAcl <- MCModuleAcl
    Requests = {"q1"}
PROPERTIES
    ImplementsBoard
    EveryRequestEnds
    BootTerminates
