SPECIFICATION StateSpec
CONSTANTS
    a1 = a1
    a2 = a2
    Addr = {a1, a2}
    Null = Null
    Fork = {"f"}
    Transactions <- MCTransactions
    Bodies <- MCBodies
    StakeChanges <- MCStakeChanges
    MinimumStake = 2
    BlockReward = 5
    HalvingInterval = 2
    MaxSupply = 8
    DeveloperNodeReward = 1
    EarlyValidatorReward = 1
    DistributionBlocks = 1
    LoadsFirst = TRUE
    MaxHeight = 2
    SavedHeights = {1}
    dev = dev
    other = other
    NoRow = NoRow
    Address = {dev, other}
    Developer = dev
    c1 = c1
    c2 = c2
    Caller = {c1, c2}
    Amount = {1, 2}
    MinStake = 1
    DeveloperReward = 1
    ValidatorReward = 1
    ErrorListener = TRUE
    MaxCalls = 3
    FirstRows <- MCRows
    Account = {a1, a2}
    Tx <- MCTx
    MinFee = 1
    MaxSize = 2
    SavesApart = TRUE
    RedisTx = {"t", "u"}
    RedisCaller = {"p", "q"}
    MaxRedisCalls = 4
    MaxOutages = 1
SYMMETRY CallersAlike
INVARIANTS
    StateTypeOK
    Backed
    PaidOnce
    Conserved
    NoConflictingNonces
    KeysAgree
PROPERTIES
    NoncesInOrder
    SavedWhole
CHECK_DEADLOCK FALSE
