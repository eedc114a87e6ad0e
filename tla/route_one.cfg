SPECIFICATION RouterSpec
CONSTANTS
    r1 = r1
    r2 = r2
    id1 = id1
    id2 = id2
    read = read
    send = send
    wipe = wipe
    ghost = ghost
    acme = acme
    globex = globex
    NoCall = NoCall
    NoEntry = NoEntry
    Prose = Prose
    Requests = {r1}
    Rids = {id1, id2}
    RidOf <- MCOwnIds
    Calls = {read, send, wipe, ghost}
    Known = {read, send, wipe, ghost}
    WellFormed <- MCWellFormed
    Irreversible <- MCIrreversible
    DryRunnable <- MCIrreversible
    Exposed = {read, send, wipe, ghost}
    Rehearses <- MCIrreversible
    MaxToolRetries = 1
    DryRunIrreversible = TRUE
    RequireApproval = FALSE
    Approved = {}
    ResultVerifiers = FALSE
    HonoursKeys = TRUE
    LateFaults = FALSE
    Queries <- MCPolicy
    FrontierOnlyTenants = {}
    FrontierOnIrreversibleIntent = FALSE
    Override = {FALSE, TRUE}
    VerifierCategories = {"REFUSAL", "TIMEOUT", "NONE"}
    Gated = TRUE
    Classified = TRUE
    Judged = TRUE
    Memory = TRUE
    StoreFaults = TRUE
INVARIANT RouterTypeOK
INVARIANT CallBudget
INVARIANT OneLesson
INVARIANT SingleIrreversibleEffect
INVARIANT AnswerExecuted
INVARIANT TraceTellsRecovery
PROPERTY SmallExecutesVerified
PROPERTY EveryRequestEnds
CHECK_DEADLOCK FALSE
