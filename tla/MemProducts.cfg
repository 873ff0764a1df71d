SPECIFICATION FairSpec
CONSTANTS
    c1 = c1
    c2 = c2
    Clients <- MCClients
    Tenants <- OneTenant
    Ids <- OneId
    Kinds = {"products"}
    Values <- TwoVals
    Default = "v"
    MaxTime = 1
    Backend = "memory"
    None = None
    Requests <- ProductRequests
    ServiceToken = FALSE
    StoreFaults = FALSE
    MaxRestarts = 0
INVARIANTS StampsOrdered
PROPERTIES StampsRegressOnlyByRace OmittedFieldsKept EveryRequestAnswered
