SPECIFICATION Spec
CONSTANTS
    c1 = c1
    c2 = c2
    Clients <- MCClients
    Tenants <- OneTenant
    Ids <- OneId
    Kinds = {"accounts", "contacts", "opportunities"}
    Values <- OneVal
    Default = "v"
    MaxTime = 0
    Backend = "postgres"
    None = None
    Requests <- OpportunityRequests
    ServiceToken = FALSE
    StoreFaults = FALSE
    MaxRestarts = 0
SYMMETRY Symmetry
PROPERTIES DanglingOnlyByRace
