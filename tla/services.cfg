SPECIFICATION ServicesSpec
CONSTANTS
    MaxBackups = 1
    BackupOnClose = TRUE
    DeletesApart = TRUE
    MaxMade = 3
    MaxBackupKills = 1
    Creator = {"a", "b"}
    SnapshotHeight = {1, 2}
    MaxSnapshots = 1
    MaxSnapMade = 2
    MaxSnapKills = 1
    StoredPeer = {"p", "q"}
    Reputations = {1, 2}
    MaxStored = 1
    SavesApart = TRUE
    MaxSaves = 3
    MaxStoreKills = 1
    Tx = {"t"}
    PageSize = 2
    Subject = {"proposer"}
    QueriesApart = TRUE
    MaxHeight = 1
    MaxAsked = 3
    Proposer = {v, w}
    HistorySize = 2
    SamplesKept = 1
    HalvingEvery = 2
    LowPeers = {0, 1}
    DefaultLowPeers = 1
    MaxMonitored = 2
    MaxStarts = 2
    MaxMonitorKills = 1
    MaxAsides = 1
    CkCaller = {c1, c2}
    CkHeight = {1, 2}
    ForeignHeight = {2}
    MaxCheckpoints = 1
    Signs = TRUE
    Verifies = TRUE
    MaxCkMade = 2
    MaxCkKills = 1
SYMMETRY ServicesSymmetry
INVARIANTS
    ServicesTypeOK
    
    
    
    HistoryCounted
    

    
CHECK_DEADLOCK FALSE
