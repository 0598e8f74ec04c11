SPECIFICATION Spec
CONSTANTS
    v1 = v1
    v2 = v2
    v3 = v3
    null = null
    Addr = {v1, v2}
    Null = null
    Self = v1
    Genesis = {}
    InitialStake = 10
    StakeValues = {5, 12}
    ManagerAttached = FALSE
    ErrorListener = FALSE
    PromptWrites = TRUE
    Env = {"registry", "slash"}
    MinimumStake = 10
    MaxMissedBlocks = 0
    SlashingPenalty = 10
    MinValidators = 1
    VotingThreshold = 67
    BlockReward = 4
    HalvingInterval = 2
    MaxSupply = 15
    DeveloperNodeReward = 6
    PrecommitDelay = 1
    CheckPeriod = 1
    VotingTimeout = 1
    ProposalTimeout = 2
    BlockTime = 2
    MaxRound = 1
    MaxTimers = 1
    MaxBlocks = 1
    MaxActive = 3
    VotedBlocks <- NoVotedBlocks
INVARIANTS
    QuorumNotUndercounted
CHECK_DEADLOCK FALSE
