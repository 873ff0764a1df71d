SPECIFICATION Spec
CONSTANTS
    c1 = c1
    c2 = c2
    Clients <- MCClients
    Tenants <- TwoTenants
    Ids <- TwoIds
    Kinds = {"rules", "accounts", "contacts"}
    Values <- TwoVals
    Default = "v"
    MaxTime = 0
    Backend = "memory"
    None = None
    Requests <- TenantRequests
    ServiceToken = TRUE
    StoreFaults = FALSE
    MaxRestarts = 1
SYMMETRY Symmetry
INVARIANTS TenantIsolation
