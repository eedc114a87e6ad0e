SPECIFICATION Spec
CONSTANTS
    r1 = r1
    r2 = r2
    id1 = id1
    read = read
    send = send
    wipe = wipe
    bogus = bogus
    ghost = ghost
    drift = drift
    NoCall = NoCall
    Requests = {r1, r2}
    Rids = {id1}
    RidOf <- MCRidOf
    Calls = {read, send, bogus, ghost, drift}
    Known <- MCKnown
    WellFormed <- MCWellFormed
    Irreversible <- MCIrreversible
    DryRunnable <- MCDryRunnable
    Exposed <- MCExposed
    Rehearses <- MCDryRunnable
    MaxToolRetries = 1
    DryRunIrreversible = TRUE
    RequireApproval = TRUE
    Approved = {r1}
    ResultVerifiers = TRUE
    HonoursKeys = TRUE
    LateFaults = FALSE
INVARIANT TypeOK
INVARIANT AtMostOnce
INVARIANT CommittedHappened
INVARIANT TransientExhausted
PROPERTY CheckedBeforeEffect
PROPERTY Answered
CHECK_DEADLOCK FALSE
