SPECIFICATION NetworkSpec
CONSTANTS
    a1 = a1
    a2 = a2
    a3 = a3
    Addr = {a1, a2, a3}
    NoPeer = NoPeer
    MaxPeers = 2
    MinPeers = 1
    StartReputation = 2
    MaxReputation = 3
    HandshakeGain = 1
    ListGain = 1
    AskGain = 1
    Penalty = 1
    StopsApart = TRUE
    MaxStarts = 2
    MaxLookups = 2
    MaxHandshakes = 2
    r1 = r1
    r2 = r2
    cl = cl
    m1 = m1
    Endpoint = {r1, r2, cl}
    Relay = {r1, r2}
    Client = {cl}
    Msg = {m1}
    Target <- MCTarget
    NoEntry = NoEntry
    Ttl = 2
    MaxRelayed = 2
    DeliveredLimit = 0
    MaxRelayStarts = 1
    MaxSubmits = 1
    MaxForgets = 1
    Patient = TRUE
    MaxQueueSize = 2
    MaxConnects = 3
    MaxSends = 4
    MaxServers = 2
    n1 = n1
    n2 = n2
    b1 = b1
    b2 = b2
    v1 = v1
    Node = {n1, n2}
    Kept = {b1, b2}
    Told = {v1}
    Needs <- MCNeeds
    StartsApart = TRUE
    MaxCalls = 2
    ScoredPeer = {"p"}
    Grain = 4
    Weight <- MCWeight
    Low <- MCLow
    High = {25, 75}
    DecayPercent = 50
    Mark = {0, 10}
    MaxBehavior = 12
    MaxRecords = 3
    SeedAddress = {a1, a2, a3}
    DnsSeed = {"d1", "d2"}
    Hardcoded = {a1}
    BatchSize = 2
    Enough = 2
    Few = 1
    MaxSearches = 2
    Address = {a1, a2, a3}
    BookLimit = 2
    Scores <- MCScores
    MaxListed = 2
    MaxRestarts = 1
INVARIANTS
    NetworkTypeOK
    PoolWithinLimit
    BannedStaysOut
    
    DeliveredOnce
    
    
    CrossingsReported
PROPERTIES
    FindsPeers
    RelaySettles
    
CHECK_DEADLOCK FALSE
