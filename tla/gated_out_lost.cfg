\* A router and the learn command work on one state directory.
CONSTANTS
    Routers = {router}
    Learners = {learn}
    Failures <- FourFailures
    GlobalQueries = {g1, g2}
    AcmeQueries = {a1, a2}
    RuleShaped <- SchemaOnly
    MinDistinct = 2
    Triggers = {a}
    Models = {m1}
    Ids = {1, 2}
    MaxTrials = 0
    MaxMisfired = 0
    TornWrites = FALSE
    MaxRecords = 4
    WriteFaults = FALSE
    NoRule = NoRule
    NoModel = NoModel
    Torn = Torn
    Tenants = {"GLOBAL", "acme"}
    Global = "GLOBAL"
    PromoteAt = 20
    DemoteAt = 10
    MinTrialsToDemote = 2
    MaxMisfires = 30
    ReviewGlobal = TRUE
SPECIFICATION Spec
INVARIANT GatedOutKept
CHECK_DEADLOCK FALSE
