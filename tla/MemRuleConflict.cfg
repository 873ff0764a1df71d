SPECIFICATION Spec
CONSTANTS
    c1 = c1
    c2 = c2
    Clients <- MCClients
    Tenants <- TwoTenants
    Ids <- TwoIds
    Kinds = {"rules"}
    Values <- TwoVals
    Default = "v"
    MaxTime = 0
    Backend = "memory"
    None = None
    Requests <- RuleRequests
    ServiceToken = FALSE
    StoreFaults = FALSE
    MaxRestarts = 0
SYMMETRY Symmetry
PROPERTIES ConflictMeansDuplicate
