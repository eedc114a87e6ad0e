\* The rules of one tenant in two processes that take turns, one of which only
\* learns: outcomes, re-synthesis, retirement, model upgrades and restarts.
CONSTANTS
    Routers = {p1}
    Learners = {p1, p2}
    Failures <- SameTenant
    GlobalQueries = {g1, g2}
    AcmeQueries = {a1, a2}
    RuleShaped <- AllTopics
    MinDistinct = 1
    Triggers = {a, b}
    Models = {m1, m2}
    Ids = {1, 2}
    MaxTrials = 2
    MaxMisfired = 1
    TornWrites = FALSE
    MaxRecords = 4
    WriteFaults = FALSE
    NoRule = NoRule
    NoModel = NoModel
    Torn = Torn
    Tenants = {"GLOBAL", "acme"}
    Global = "GLOBAL"
    PromoteAt = 20
    DemoteAt = 10
    MinTrialsToDemote = 2
    MaxMisfires = 30
    ReviewGlobal = TRUE
SPECIFICATION TurnsSpec
SYMMETRY Alike
INVARIANTS TypeOK PassedWithinTrials Durable IdsNeverReused
PROPERTIES EvidenceKept RevivedInShadow
CHECK_DEADLOCK FALSE
