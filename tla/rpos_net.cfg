SPECIFICATION Spec
CONSTANTS
    v1 = v1
    v2 = v2
    v3 = v3
    null = null
    Addr = {v1, v2}
    Null = null
    Self = v1
    Genesis = {v1, v2}
    InitialStake = 10
    StakeValues = {5, 12}
    ManagerAttached = TRUE
    ErrorListener = FALSE
    PromptWrites = FALSE
    Env = {"vote", "block", "restart"}
    MinimumStake = 10
    MaxMissedBlocks = 1
    SlashingPenalty = 10
    MinValidators = 2
    VotingThreshold = 67
    BlockReward = 4
    HalvingInterval = 2
    MaxSupply = 15
    DeveloperNodeReward = 6
    PrecommitDelay = 1
    CheckPeriod = 1
    VotingTimeout = 1
    ProposalTimeout = 2
    BlockTime = 2
    MaxRound = 1
    MaxTimers = 1
    MaxBlocks = 3
    MaxActive = 3
    VotedBlocks <- NoVotedBlocks
INVARIANTS
    OwnVotesMatchProposal
    

    
CHECK_DEADLOCK FALSE
