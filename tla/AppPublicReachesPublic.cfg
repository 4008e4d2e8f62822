SPECIFICATION GateSpec
CONSTANTS
    Rais <- AppRais
    Endpoints <- AppEndpoints
    Urls <- AppUrls
    Releases = {"shipped"}
    Table <- MCTable
    UrlsOf <- AppUrlsOf
    Instances = {0}
    SyncInstances = {0}
    Operators = {}
    NoDoc = NoDoc
    NoHold = NoHold
    AclRais <- AppPermissions
    Roles <- AppRoles
    PublicRoles <- AppPublicRoles
    Names <- AppRoles
    AclModules <- AppModules
    ModuleAcl <- AppModuleAcl
    Requests = {"q1"}
INVARIANT
    PublicReachesPublic
