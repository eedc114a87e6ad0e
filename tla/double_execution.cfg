SPECIFICATION Spec
CONSTANTS
    r1 = r1
    r2 = r2
    id1 = id1
    read = read
    send = send
    wipe = wipe
    bogus = bogus
    ghost = ghost
    drift = drift
    NoCall = NoCall
    Requests = {r1}
    Rids = {id1}
    RidOf <- MCRidOf
    Calls = {read, wipe}
    Known <- MCKnown
    WellFormed <- MCWellFormed
    Irreversible <- MCIrreversible
    DryRunnable <- MCDryRunnable
    Exposed <- MCExposed
    Rehearses <- MCNone
    MaxToolRetries = 1
    DryRunIrreversible = TRUE
    RequireApproval = FALSE
    Approved = {}
    ResultVerifiers = FALSE
    HonoursKeys = FALSE
    LateFaults = TRUE
INVARIANT NoDoubleExecution
CHECK_DEADLOCK FALSE
