\* A rule learnt under one checkpoint is synthesised again under the next; it is
\* tried in replays only.
CONSTANTS
    Routers = {p1}
    Learners = {p1}
    Failures <- FourFailures
    GlobalQueries = {g1, g2}
    AcmeQueries = {a1, a2}
    RuleShaped <- AllTopics
    MinDistinct = 1
    Triggers = {a}
    Models = {m1, m2}
    Ids = {1, 2}
    MaxTrials = 0
    MaxMisfired = 0
    TornWrites = FALSE
    MaxRecords = 4
    WriteFaults = FALSE
    NoRule = NoRule
    NoModel = NoModel
    Torn = Torn
    Tenants = {"GLOBAL", "acme"}
    Global = "GLOBAL"
    PromoteAt = 30
    DemoteAt = 10
    MinTrialsToDemote = 2
    MaxMisfires = 30
    ReviewGlobal = TRUE
SPECIFICATION Spec
PROPERTY SupersededIsNoEvidence
CHECK_DEADLOCK FALSE
