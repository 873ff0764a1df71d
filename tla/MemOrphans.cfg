SPECIFICATION Spec
CONSTANTS
    c1 = c1
    c2 = c2
    Clients <- MCClients
    Tenants <- OneTenant
    Ids <- OneId
    Kinds = {"accounts", "contacts"}
    Values <- OneVal
    Default = "v"
    MaxTime = 0
    Backend = "memory"
    None = None
    Requests <- ContactRequests
    ServiceToken = FALSE
    StoreFaults = FALSE
    MaxRestarts = 0
SYMMETRY Symmetry
INVARIANTS NoOrphans
