SPECIFICATION CrmSpec
CONSTANTS
    j1 = j1
    j2 = j2
    list = list
    create = create
    Jobs <- MCJobs
    Tools <- MCTools
    Unregistered = {}
    Risk <- MCRisk
    Policies = {"AllowAllPolicy", "StaticPolicy", "RiskBasedPolicy"}
    Decisions <- MCDecisions
    DefaultDecision = "allow"
    StepLimits <- MCLimits
    MaxTurns = 0
    None = None
    Records = {"acme"}
    Creates = {create}
    MaxRestarts = 1
    MaxLosses = 1
SYMMETRY MCSymmetry
INVARIANTS
    ToldMeansDone
    CompletedMeansServed
    EffectsOnRecord
    DefaultPolicyNeverWrites
CHECK_DEADLOCK FALSE
