SPECIFICATION Spec
CONSTANTS
    v1 = v1
    v2 = v2
    v3 = v3
    null = null
    Addr = {v1, v2}
    Null = null
    Self = v1
    Genesis = {v1, v2}
    InitialStake = 10
    StakeValues = {5, 12}
    ManagerAttached = TRUE
    ErrorListener = FALSE
    PromptWrites = TRUE
    Env = {"vote"}
    MinimumStake = 10
    MaxMissedBlocks = 1
    SlashingPenalty = 10
    MinValidators = 2
    VotingThreshold = 67
    BlockReward = 4
    HalvingInterval = 2
    MaxSupply = 15
    DeveloperNodeReward = 6
    PrecommitDelay = 1
    CheckPeriod = 2
    VotingTimeout = 3
    ProposalTimeout = 4
    BlockTime = 6
    MaxRound = 2
    MaxTimers = 2
    MaxBlocks = 3
    MaxActive = 3
    VotedBlocks <- NoVotedBlocks
PROPERTIES
    HeightAcceptedOnce
CHECK_DEADLOCK FALSE
