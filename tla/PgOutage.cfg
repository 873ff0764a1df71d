SPECIFICATION Spec
CONSTANTS
    c1 = c1
    c2 = c2
    Clients <- MCClients
    Tenants <- OneTenant
    Ids <- OneId
    Kinds = {"accounts"}
    Values <- OneVal
    Default = "v"
    MaxTime = 0
    Backend = "postgres"
    None = None
    Requests <- AccountRequests
    ServiceToken = FALSE
    StoreFaults = TRUE
    MaxRestarts = 0
SYMMETRY Symmetry
PROPERTIES NotFoundMeansMissing
