\* Two tenants whose clusters grow across learning passes, a failure log that drops
\* failures at its cap and whose writes may fail, and saves a crash may truncate.
CONSTANTS
    Routers = {p1}
    Learners = {p1, p2}
    Failures <- PairedFailures
    GlobalQueries = {g1, g2}
    AcmeQueries = {a1, a2}
    RuleShaped <- AllTopics
    MinDistinct = 2
    Triggers = {a}
    Models = {m1}
    Ids = {1, 2}
    MaxTrials = 0
    MaxMisfired = 0
    TornWrites = TRUE
    MaxRecords = 3
    WriteFaults = TRUE
    NoRule = NoRule
    NoModel = NoModel
    Torn = Torn
    Tenants = {"GLOBAL", "acme"}
    Global = "GLOBAL"
    PromoteAt = 20
    DemoteAt = 10
    MinTrialsToDemote = 2
    MaxMisfires = 30
    ReviewGlobal = TRUE
SPECIFICATION TurnsSpec
SYMMETRY Alike
INVARIANTS OneRulePerTrigger GlobalReviewed GatedOutKept
PROPERTIES PaidOnce
CHECK_DEADLOCK FALSE
