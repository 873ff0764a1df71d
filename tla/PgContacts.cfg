SPECIFICATION Spec
CONSTANTS
    c1 = c1
    c2 = c2
    Clients <- MCClients
    Tenants <- OneTenant
    Ids <- OneId
    Kinds = {"accounts", "contacts"}
    Values <- OneVal
    Default = "v"
    MaxTime = 0
    Backend = "postgres"
    None = None
    Requests <- ContactRequests
    ServiceToken = FALSE
    StoreFaults = TRUE
    MaxRestarts = 1
SYMMETRY Symmetry
INVARIANTS TypeOK NoOrphans ServerErrorOnlyByRace
PROPERTIES DanglingOnlyByRace ImplementsLifecycle
