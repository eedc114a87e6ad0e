\* Cache, failure log, recent items, served memory, verifiers and gateway, each on
\* its own.
SPECIFICATION PartsSpec
CONSTANTS
    k1 = k1
    k2 = k2
    k3 = k3
    a = a
    b = b
    Nothing = Nothing
    Keys = {k1, k2, k3}
    Values = {a, b}
    MaxEntries = 2
    TTL = 2
    MaxTime = 3
    Junk = Junk
    e1 = e1
    e2 = e2
    Embedders = {e1, e2}
    MaxRecords = 2
    MaxFailures = 4
    MaxTears = 2
    Down = Down
    ItemKeys = {k1, k2, k3}
    Outputs = {a, b}
    Capacity = 2
    CompactFactor = 2
    MaxFaults = 1
    Items <- MCItems
    Clients = {"acme", "globex"}
    Everyone = "GLOBAL"
    Places = {0, 3}
    TopK = 2
    TokenCap = 5
    Floor = 6
    MaxSim = 8
    MaxTurns = 2
    Absent = Absent
    Verifiers <- MCVerifiers
    Accepts <- Validates
    Tools <- MCTools
    Texts <- MCTexts
    Mutating = {"git.push"}
    Observing = {"docs.search", "items.list"}
    Judge = TRUE
    NotJson = NotJson
    Nobody = Nobody
    c1 = c1
    c2 = c2
    Callers = {c1, c2}
    MaxThreads = 2
    MaxOps = 3
INVARIANTS
    TypeOK KeptWhileRecent
    TearCostsOne LogReloads FileBounded RecentReloads
    TenantIsolation LadderAgreesWithGate ConstrainedAccepted
    ReadyMeansLoaded CrashExplained
PROPERTIES CacheImplementsLossyMap PrefixExtends OperationsEnd
CHECK_DEADLOCK FALSE
