SPECIFICATION RouterSafetySpec
CONSTANTS
    r1 = r1
    r2 = r2
    id1 = id1
    id2 = id2
    read = read
    send = send
    wipe = wipe
    ghost = ghost
    acme = acme
    globex = globex
    NoCall = NoCall
    NoEntry = NoEntry
    Prose = Prose
    Requests = {r1, r2}
    Rids = {id1, id2}
    RidOf <- MCOwnIds
    Calls = {read, send}
    Known = {read, send}
    WellFormed <- MCWellFormed
    Irreversible <- MCIrreversible
    DryRunnable <- MCNone
    Exposed = {read, send}
    Rehearses <- MCNone
    MaxToolRetries = 0
    DryRunIrreversible = FALSE
    RequireApproval = FALSE
    Approved = {}
    ResultVerifiers = TRUE
    HonoursKeys = TRUE
    LateFaults = FALSE
    Queries <- MCTenants
    FrontierOnlyTenants = {}
    FrontierOnIrreversibleIntent = FALSE
    Override = {FALSE}
    VerifierCategories = {"REFUSAL"}
    Gated = TRUE
    Classified = FALSE
    Judged = FALSE
    Memory = FALSE
    StoreFaults = FALSE
INVARIANT AnswerExecuted
PROPERTY RouterImplementsContract
CHECK_DEADLOCK FALSE
