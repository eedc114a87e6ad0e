SPECIFICATION RouterSpec
CONSTANTS
    r1 = r1
    r2 = r2
    id1 = id1
    id2 = id2
    read = read
    send = send
    wipe = wipe
    ghost = ghost
    acme = acme
    globex = globex
    NoCall = NoCall
    NoEntry = NoEntry
    Prose = Prose
    Requests = {r1}
    Rids = {id1, id2}
    RidOf <- MCOwnIds
    Calls = {read}
    Known = {read}
    WellFormed <- MCWellFormed
    Irreversible <- MCIrreversible
    DryRunnable <- MCNone
    Exposed = {read}
    Rehearses <- MCNone
    MaxToolRetries = 0
    DryRunIrreversible = FALSE
    RequireApproval = FALSE
    Approved = {}
    ResultVerifiers = FALSE
    HonoursKeys = TRUE
    LateFaults = FALSE
    Queries <- MCTenants
    FrontierOnlyTenants = {}
    FrontierOnIrreversibleIntent = FALSE
    Override = {FALSE}
    VerifierCategories = {"REFUSAL"}
    Gated = TRUE
    Classified = FALSE
    Judged = FALSE
    Memory = TRUE
    StoreFaults = TRUE
INVARIANT MemoryNeverFailsRequests
CHECK_DEADLOCK FALSE
