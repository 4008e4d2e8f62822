SPECIFICATION Spec
CONSTANTS
    Rais <- AppRais
    Endpoints <- AppEndpoints
    Urls <- AppUrls
    Releases = {"shipped"}
    Table <- MCTable
    UrlsOf <- AppUrlsOf
    Instances = {0}
    SyncInstances = {0}
    Operators = {}
    NoDoc = NoDoc
    NoHold = NoHold
INVARIANT
    EndpointsUnique
