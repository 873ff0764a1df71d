SPECIFICATION FairSpec
CONSTANTS
    j1 = j1
    j2 = j2
    list = list
    create = create
    exec = exec
    bogus = bogus
    Jobs <- MCJobs
    Tools <- MCTools
    Unregistered = {bogus}
    Risk <- MCRisk
    Policies = {"AllowAllPolicy", "StaticPolicy", "RiskBasedPolicy"}
    Decisions <- MCDecisions
    DefaultDecision = "deny"
    StepLimits <- MCLimits
    MaxTurns = 2
    None = None
INVARIANTS
    TypeOK
    TrailTellsOneRun
    CallsFollowPermission
    OnlyPermittedTools
    ResultsMatchTrail
    CompletedMeansAllSucceeded
    MaxStepProtection
PROPERTIES EveryJobReturns
CHECK_DEADLOCK FALSE
