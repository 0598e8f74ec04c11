-------------------------------- MODULE RPoS --------------------------------
(***************************************************************************)
(* The consensus engine of one node (src/consensus/rpos.js), wired to the  *)
(* validator manager and to the block store the way                        *)
(* src/consensus/consensus_integration.js and src/index.js wire it.        *)
(*                                                                         *)
(* The engine is driven by its timers and by calls from outside.  Node.js  *)
(* runs one callback to its end before the next, so every timer callback   *)
(* and every call is one action, with all the handlers it calls inside.    *)
(* Timers are kept as the ticks they have left, oldest first: the engine   *)
(* keeps only the handle of the newest timer of each kind, and a timer     *)
(* whose handle was overwritten still fires.                               *)
(***************************************************************************)
EXTENDS Validator, FiniteSets, FiniteSetsExt, Sequences

CONSTANTS
    Addr,              \* addresses: validators and strangers
    Null,              \* null or undefined
    Self,              \* options.validatorAddress, or Null
    Genesis,           \* validators the genesis file registers as active
    InitialStake,      \* their stake
    StakeValues,       \* stakes that callers pass
    ManagerAttached,   \* TRUE when the engine is built by ConsensusIntegration
    ErrorListener,     \* TRUE when somebody listens to 'error' events
    PromptWrites,      \* TRUE when a block is written before the next timer fires
    Env,               \* which calls from outside a run considers
    MinValidators, VotingThreshold,
    BlockReward, HalvingInterval, MaxSupply, DeveloperNodeReward,
    PrecommitDelay, CheckPeriod, VotingTimeout, ProposalTimeout, BlockTime,
    VotedBlocks,       \* blocks other than the proposal that votes may name
    MaxRound, MaxTimers, MaxBlocks, MaxActive   \* bounds of the model

ASSUME AddressAssumption ==
    /\ Null \notin Addr
    /\ Self \in Addr \cup {Null}
    /\ Genesis \subseteq Addr
    /\ IsFiniteSet(Addr)
ASSUME FlagAssumption ==
    /\ ManagerAttached \in BOOLEAN
    /\ ErrorListener \in BOOLEAN
    /\ PromptWrites \in BOOLEAN
ASSUME ThresholdAssumption ==
    /\ MinValidators \in Nat \ {0}
    /\ VotingThreshold \in 1..100
ASSUME StakeAssumption == InitialStake \in Nat /\ StakeValues \subseteq Nat
ASSUME VoteAssumption == \A b \in VotedBlocks : b # Null
ASSUME TimeAssumption ==
    {PrecommitDelay, CheckPeriod, VotingTimeout, ProposalTimeout, BlockTime}
        \subseteq Nat \ {0}
ASSUME BoundAssumption ==
    {MaxRound, MaxTimers, MaxBlocks, MaxActive} \subseteq Nat
ASSUME RewardAssumption ==
    /\ {BlockReward, MaxSupply, DeveloperNodeReward} \subseteq Nat
    /\ HalvingInterval \in Nat \ {0}
    /\ DeveloperNodeReward <= MaxSupply
    /\ \A h \in 0..MaxBlocks : BlockReward \div (2^(h \div HalvingInterval)) \in Nat

VARIABLES
    up,          \* the process is alive
    running,     \* isRunning
    state, height, round, proposer,   \* currentHeight, currentRound, currentProposer
    prevotes, precommits,             \* votes.prevote, votes.precommit
    proposal,                         \* currentProposal
    timer,       \* ticks left of the pending timers of each kind, oldest first
    held,        \* the handle field still names the newest pending timer
    known,       \* the keys of the engine's validators map
    registered,  \* the keys of the validator manager's map
    val,         \* the validator objects, shared by both maps
    activeValidators, totalStake, developerNodeSet, totalSupply,
    storeHeight, \* BlockchainStore.currentHeight
    adding,      \* addBlock calls that have passed the height check and are writing
    accepted     \* 'block:accepted' events so far, bounded by MaxBlocks

chainVars == <<height, totalSupply, accepted>>
roundVars == <<state, round, proposer, prevotes, precommits, proposal>>
timerVars == <<timer, held>>
memberVars == <<known, registered, activeValidators, totalStake, developerNodeSet>>
storeVars == <<storeHeight, adding>>
vars == <<up, running, chainVars, roundVars, timerVars, memberVars, val, storeVars>>

ConsensusState ==
    {"syncing", "waiting", "proposing", "validating", "voting", "finalizing"}

Block == [height : Nat, from : Addr]

ASSUME BlockAssumption == Null \notin Block

NoVotes == [a \in Addr |-> Null]

Count(votes) == Cardinality({a \in Addr : votes[a] # Null})

\* Mutant: one vote more than the threshold is asked for.
ThresholdPlusOne == (activeValidators * VotingThreshold + 99) \div 100 + 1

\* Math.ceil(activeValidators * votingThreshold), the threshold in percent
Threshold == (activeValidators * VotingThreshold + 99) \div 100

ActiveOf(vs, set) == {a \in set : IsActive(vs[a])}

Stake(vs, set) == MapThenSumSet(LAMBDA a : vs[a].stake, set)

-----------------------------------------------------------------------------
(* Timers *)

Kind == {"block", "proposal", "voting", "precommit", "check", "orphanCheck"}

NoTimers == [k \in Kind |-> <<>>]

Due(k) == timer[k] # <<>> /\ Head(timer[k]) = 0

Fired(k) == [timer EXCEPT ![k] = Tail(@)]

\* The newest pending timer is the one the handle field names.
ClearHeld(t, h, k) ==
    IF h[k] /\ t[k] # <<>> THEN [t EXCEPT ![k] = SubSeq(@, 1, Len(@) - 1)] ELSE t

Arm(t, k, ticks) == [t EXCEPT ![k] = Append(@, ticks)]

\* Mutant: the old block timer is cleared and no new one armed.
ScheduleNothing(t) == [t EXCEPT !["block"] = <<>>]

ScheduleBlock(t) == [t EXCEPT !["block"] = <<BlockTime>>]

Tick ==
    /\ up
    /\ timer # NoTimers
    /\ \A k \in Kind : \A i \in DOMAIN timer[k] : timer[k][i] > 0
    /\ PromptWrites => adding = <<>>
    /\ timer' = [k \in Kind |-> [i \in DOMAIN timer[k] |-> timer[k][i] - 1]]
    /\ UNCHANGED <<up, running, chainVars, roundVars, held, memberVars, val, storeVars>>

-----------------------------------------------------------------------------
(***************************************************************************)
(* An exception that leaves a callback ends the process: nothing in src/   *)
(* catches it.  An 'error' event without a listener is such an exception.  *)
(***************************************************************************)
Crash ==
    /\ up' = FALSE
    /\ UNCHANGED <<running, chainVars, roundVars, timerVars, memberVars, val, storeVars>>

\* The proposers selectProposer can settle on: none when nobody is eligible,
\* and undefined without the manager, because selectValidatorWithVRF returns
\* an address where the caller expects a validator.
Eligible(vs) ==
    {a \in (IF ManagerAttached THEN registered ELSE known) : IsEligible(vs[a])}

SelectProposer(vs) ==
    IF Eligible(vs) = {} THEN {proposer}
    ELSE IF ManagerAttached THEN Eligible(vs)
    ELSE {Null}

\* Mutant: the height is not advanced.
OwnBlockSameHeight == [height |-> height, from |-> Self]

OwnBlock == [height |-> height + 1, from |-> Self]

OwnBlocks == [height : 1..MaxBlocks, from : {Self} \ {Null}]

\* Mutant: the precommits of the last round are kept.
KeepPrecommits == UNCHANGED precommits

ClearPrecommits == precommits' = NoVotes

(***************************************************************************)
(* runConsensusRound, with what its callers have already changed: the      *)
(* round counter r, the validators vs, the timers t and their handles h.   *)
(***************************************************************************)
RoundRefused(r, vs, t, h) ==
    /\ round' = r /\ val' = vs /\ timer' = t /\ held' = h
    /\ UNCHANGED <<up, state, proposer, prevotes, precommits, proposal>>

BeginRound(r, vs, t, h) ==
    \E p \in SelectProposer(vs) :
        LET proposes == p = Self /\ Self # Null IN
        /\ round' = IF r < MaxRound THEN r + 1 ELSE r
        /\ proposer' = p
        /\ val' = vs
        /\ ClearPrecommits
        /\ IF proposes
           THEN /\ state' = "voting"
                /\ proposal' = OwnBlock
                /\ prevotes' = [NoVotes EXCEPT ![Self] = OwnBlock]
                /\ timer' = Arm(Arm(Arm(t, "precommit", PrecommitDelay),
                                    "voting", VotingTimeout),
                                "proposal", ProposalTimeout)
                /\ held' = [h EXCEPT !["voting"] = TRUE, !["proposal"] = TRUE]
           ELSE /\ state' = state
                /\ proposal' = Null
                /\ prevotes' = NoVotes
                /\ timer' = IF p = Self THEN Arm(t, "proposal", ProposalTimeout) ELSE t
                /\ held' = IF p = Self THEN [h EXCEPT !["proposal"] = TRUE] ELSE h
        /\ UNCHANGED up

RunConsensusRound(r, vs, t, h) ==
    /\ UNCHANGED <<running, chainVars, memberVars, storeVars>>
    /\ \/ /\ ~running
          /\ RoundRefused(r, vs, t, h)
       \/ /\ running /\ activeValidators < MinValidators
          /\ IF ErrorListener THEN RoundRefused(r, vs, t, h)
             ELSE up' = FALSE /\ UNCHANGED <<roundVars, timerVars, val>>
       \/ /\ running /\ activeValidators >= MinValidators
          /\ IF Eligible(vs) = {} /\ ~ErrorListener
             THEN up' = FALSE /\ UNCHANGED <<roundVars, timerVars, val>>
             ELSE BeginRound(r, vs, t, h)

-----------------------------------------------------------------------------
(* Rewards *)

HalvedReward(h) == BlockReward \div (2^(h \div HalvingInterval))

\* Mutant: the reward ignores the maximum supply.
UncappedBlockReward(supply, h) == HalvedReward(h)

\* In whole smallest units: a positive fraction of a unit still counts
\* against the cap, and the reward is at least one unit.
CalculateBlockReward(supply, h) ==
    LET reward == IF HalvedReward(h) = 0 THEN 1 ELSE HalvedReward(h) IN
    IF supply + reward > MaxSupply
    THEN IF MaxSupply - supply < 1 THEN MaxSupply - supply ELSE 1
    ELSE reward

AwardBlockReward(supply, h) == supply + CalculateBlockReward(supply, h)

-----------------------------------------------------------------------------
(* Voting *)

CheckAndJailValidators(vs) ==
    [a \in Addr |-> IF a \in known /\ IsActive(vs[a])
                    THEN CheckAndJailIfNeeded(vs[a]) ELSE vs[a]]

\* Mutant: the store takes the block it already has.
StoreTakesTip(b) == b.height = storeHeight

\* the height check of BlockchainStore.addBlock
StoreTakes(b) == b.height = storeHeight + 1

(***************************************************************************)
(* acceptBlock: a known proposer is rewarded once in the middle of the     *)
(* handler, and whoever proposed once more at its end.  The                *)
(* 'block:accepted' event runs addBlock up to its first await, which is    *)
(* behind the height check; a refused block is an 'error' event.           *)
(***************************************************************************)
AcceptBlock(b, t, h) ==
    LET first  == IF b.from \in known
                  THEN AwardBlockReward(totalSupply, b.height) ELSE totalSupply
        stored == StoreTakes(b)
    IN
    /\ accepted < MaxBlocks /\ b.height <= MaxBlocks
    /\ accepted' = accepted + 1
    /\ height' = b.height
    /\ round' = 0
    /\ totalSupply' = AwardBlockReward(first, b.height)
    /\ val' = CheckAndJailValidators(val)
    /\ state' = "waiting"
    /\ timer' = ScheduleBlock(t)
    /\ held' = h
    /\ adding' = IF stored THEN Append(adding, b) ELSE adding
    /\ up' = (stored \/ ErrorListener)
    /\ UNCHANGED <<running, proposer, memberVars, storeHeight>>

(***************************************************************************)
(* castVote: the votes pv and pc already hold the new vote, whoever cast   *)
(* it and whatever for; t is the timers on entry.  Reaching the threshold  *)
(* accepts the current proposal, which stays current, with its votes.      *)
(***************************************************************************)
CastVote(pv, pc, t) ==
    \/ /\ Count(pc) >= Threshold
       /\ IF proposal = Null THEN Crash
          ELSE /\ prevotes' = pv /\ precommits' = pc
               /\ AcceptBlock(proposal, ClearHeld(t, held, "voting"),
                              [held EXCEPT !["voting"] = FALSE])
               /\ UNCHANGED proposal
    \/ /\ Count(pc) < Threshold
       /\ prevotes' = pv /\ precommits' = pc
       /\ timer' = t
       /\ UNCHANGED <<up, running, chainVars, state, round, proposer, proposal,
                      held, memberVars, val, storeVars>>

ReceiveVote ==
    /\ up /\ "vote" \in Env
    /\ \E a \in Addr \ {Self}, b \in VotedBlocks \cup {proposal} :
        /\ b # Null
        /\ \/ CastVote([prevotes EXCEPT ![a] = b], precommits, timer)
           \/ CastVote(prevotes, [precommits EXCEPT ![a] = b], timer)

(***************************************************************************)
(* The 500 ms callback of startVotingPhase: no field holds its handle, so  *)
(* nothing cancels it, and it votes for what is then the proposal.         *)
(***************************************************************************)
PrecommitDue ==
    /\ up /\ Due("precommit")
    /\ IF Count(prevotes) < Threshold
       THEN /\ timer' = Fired("precommit")
            /\ UNCHANGED <<up, running, chainVars, roundVars, held, memberVars, val, storeVars>>
       ELSE IF proposal = Null THEN Crash
       ELSE CastVote(prevotes, [precommits EXCEPT ![Self] = proposal], Fired("precommit"))

\* finalizeVoting, run by the voting timer
VotingTimedOut ==
    LET t == ClearHeld(Fired("voting"), held, "voting")
        h == [held EXCEPT !["voting"] = FALSE]
    IN
    /\ up /\ Due("voting")
    /\ \/ /\ Count(precommits) >= Threshold
          /\ IF proposal = Null THEN Crash
             ELSE AcceptBlock(proposal, t, h) /\ UNCHANGED <<proposal, prevotes, precommits>>
       \/ /\ Count(precommits) < Threshold
          /\ RunConsensusRound(IF round < MaxRound THEN round + 1 ELSE round, val, t, h)

-----------------------------------------------------------------------------
(* Proposals *)

ValidateBlock(b, fresh) == b.from = proposer /\ b.height = height + 1 /\ fresh

Penalize(a) ==
    IF a \in known THEN [val EXCEPT ![a] = CheckAndJailIfNeeded(MissBlock(@))] ELSE val

\* handleProposedBlock for a valid block, with startVotingPhase.  When no
\* validator is active the threshold is zero and the own prevote is enough.
StartVotingPhase(b) ==
    LET own  == Self # Null
        pv   == IF own THEN [NoVotes EXCEPT ![Self] = b] ELSE NoVotes
        now  == own /\ Threshold <= 0
        base == IF now THEN ClearHeld(timer, held, "voting") ELSE timer
        t    == Arm(IF own THEN Arm(base, "precommit", PrecommitDelay) ELSE base,
                    "voting", VotingTimeout)
        h    == [held EXCEPT !["voting"] = TRUE]
    IN
    /\ proposal' = b
    /\ prevotes' = pv
    /\ ClearPrecommits
    /\ \/ now /\ AcceptBlock(b, t, h)
       \/ /\ ~now
          /\ state' = "voting"
          /\ timer' = t
          /\ held' = h
          /\ UNCHANGED <<up, running, chainVars, round, proposer, memberVars, val, storeVars>>

\* handleProposedBlock for a block from outside; fresh stands for its
\* timestamp being no older than roundStartTime.
ReceiveBlock ==
    /\ up /\ "block" \in Env
    /\ \A k \in Kind : Len(timer[k]) < MaxTimers
    /\ \E a \in Addr \ {Self}, n \in {height, height + 1}, fresh \in BOOLEAN :
        LET b == [height |-> n, from |-> a] IN
        \/ ValidateBlock(b, fresh) /\ StartVotingPhase(b)
        \/ /\ ~ValidateBlock(b, fresh)
           /\ RunConsensusRound(round, Penalize(a), timer, held)

\* handleProposalTimeout: nothing cancels the timer when the proposal comes.
ProposalTimedOut ==
    /\ up /\ Due("proposal")
    /\ RunConsensusRound(round, Penalize(proposer), Fired("proposal"),
                         [held EXCEPT !["proposal"] = @ /\ Len(timer["proposal"]) > 1])

BlockTimerDue ==
    /\ up /\ Due("block")
    /\ RunConsensusRound(round, val, Fired("block"), held)

-----------------------------------------------------------------------------
(* Starting and stopping *)

(***************************************************************************)
(* _loadValidators: the engine copies the manager's map, not the objects.  *)
(* The first load of a waiting engine also settles on a proposer.          *)
(***************************************************************************)
LoadValidators(st) ==
    IF ManagerAttached
    THEN LET active == Cardinality(ActiveOf(val, registered)) IN
         /\ known' = registered
         /\ activeValidators' = active
         /\ totalStake' = Stake(val, registered)
         /\ IF active > 0 /\ proposer = Null /\ st = "waiting"
            THEN proposer' \in SelectProposer(val)
            ELSE UNCHANGED proposer
    ELSE UNCHANGED <<known, activeValidators, totalStake, proposer>>

\* selectProposer found nobody and its 'error' event is not listened to
LoadFails(st) ==
    /\ ManagerAttached /\ ~ErrorListener
    /\ ActiveOf(val, registered) # {} /\ Eligible(val) = {}
    /\ proposer = Null /\ st = "waiting"

\* start() forgets an interval that is still pending; the model follows at
\* most one such orphan.
Start ==
    /\ up /\ ~running
    /\ timer["check"] = <<>> \/ timer["orphanCheck"] = <<>>
    /\ IF LoadFails("waiting") THEN Crash
       ELSE /\ running' = TRUE
            /\ state' = "waiting"
            /\ LoadValidators("waiting")
            /\ timer' = IF activeValidators' < MinValidators
                        THEN [timer EXCEPT !["orphanCheck"] = @ \o timer["check"],
                                           !["check"] = <<CheckPeriod>>]
                        ELSE ScheduleBlock(timer)
            /\ UNCHANGED <<up, chainVars, round, prevotes, precommits, proposal, held,
                           registered, developerNodeSet, val, storeVars>>

(***************************************************************************)
(* The 5 s interval armed by start().  clearInterval names the interval of *)
(* the last start(); one that an earlier start() left behind goes on.      *)
(***************************************************************************)
CheckDue(k) ==
    /\ up /\ Due(k)
    /\ IF LoadFails(state) THEN Crash
       ELSE LET again == Arm(Fired(k), k, CheckPeriod) IN
            /\ LoadValidators(state)
            /\ timer' = IF activeValidators' >= MinValidators
                        THEN ScheduleBlock([again EXCEPT !["check"] = <<>>])
                        ELSE again
            /\ UNCHANGED <<up, running, chainVars, state, round, prevotes, precommits,
                           proposal, held, registered, developerNodeSet, val, storeVars>>

\* stop() leaves the precommit callbacks and the check intervals alone.
Stop ==
    /\ up /\ running /\ "stop" \in Env
    /\ running' = FALSE
    /\ timer' = [ClearHeld(ClearHeld(timer, held, "proposal"), held, "voting")
                    EXCEPT !["block"] = <<>>]
    /\ held' = [k \in DOMAIN held |-> FALSE]
    /\ UNCHANGED <<up, chainVars, roundVars, memberVars, val, storeVars>>

\* The process ends, by a signal or by losing power.
Exit == up /\ "restart" \in Env /\ Crash

(***************************************************************************)
(* The process starts over: the block store recovers its height, the       *)
(* genesis file registers its validators again, and the engine's height    *)
(* starts at 0, as nothing sets it from the store.                         *)
(***************************************************************************)
GenesisValidators ==
    [a \in Addr |-> IF a \in Genesis THEN Activate(NewValidator(InitialStake))
                    ELSE NewValidator(0)]

NothingHeld == [k \in {"proposal", "voting"} |-> FALSE]

\* Mutant: the store's index is not loaded.
ForgottenHeight == 0

RecoveredHeight == storeHeight

Restart ==
    /\ ~up /\ "restart" \in Env
    /\ up' = TRUE /\ running' = FALSE
    /\ state' = "syncing" /\ height' = 0 /\ round' = 0 /\ proposer' = Null
    /\ prevotes' = NoVotes /\ precommits' = NoVotes /\ proposal' = Null
    /\ timer' = NoTimers /\ held' = NothingHeld
    /\ known' = {} /\ registered' = IF ManagerAttached THEN Genesis ELSE {}
    /\ val' = GenesisValidators
    /\ activeValidators' = 0 /\ totalStake' = 0 /\ developerNodeSet' = FALSE
    /\ totalSupply' = 0 /\ adding' = <<>>
    /\ storeHeight' = RecoveredHeight
    /\ UNCHANGED accepted

\* addBlock after its await: the height it was called with becomes the
\* store's, and through 'blockAdded' the engine's.
AddBlockDone ==
    /\ up /\ adding # <<>>
    /\ storeHeight' = Head(adding).height
    /\ height' = Head(adding).height
    /\ adding' = Tail(adding)
    /\ UNCHANGED <<up, running, totalSupply, accepted, roundVars, timerVars, memberVars, val>>

-----------------------------------------------------------------------------
(* The validator set: calls on the engine *)

registryFrame == <<up, running, height, accepted, roundVars, timerVars, registered, storeVars>>

\* The caller passes a new validator, or an object it has used before.  The
\* early reward is never paid: its recipient is not in the map yet.
AddValidator(a, v, inDistribution) ==
    /\ up /\ "registry" \in Env /\ ~ManagerAttached
    /\ a \notin known
    /\ v.stake >= MinimumStake
    /\ activeValidators < MaxActive
    /\ known' = known \cup {a}
    /\ val' = [val EXCEPT ![a] = Activate(v)]
    /\ activeValidators' = activeValidators + 1
    /\ totalStake' = totalStake + v.stake
    /\ developerNodeSet' = TRUE
    /\ totalSupply' = totalSupply + IF ~developerNodeSet /\ inDistribution
                                    THEN DeveloperNodeReward ELSE 0
    /\ UNCHANGED registryFrame

\* Mutant: a removed validator always counts as active.
AlwaysUncount(a) == activeValidators - 1

UncountRemoved(a) == activeValidators - IF IsActive(val[a]) THEN 1 ELSE 0

RestakeTotal(a, stake) == totalStake - val[a].stake + stake

RemoveValidator(a) ==
    /\ up /\ "registry" \in Env
    /\ a \in known
    /\ known' = known \ {a}
    /\ totalStake' = RestakeTotal(a, 0)
    /\ activeValidators' = UncountRemoved(a)
    /\ UNCHANGED <<registryFrame, developerNodeSet, totalSupply, val>>

\* updateValidatorStake, and jail() after it when the validator is slashed
SetStake(a, stake, slashed) ==
    LET enough == stake >= MinimumStake
        v == [(IF enough THEN Activate(val[a]) ELSE Deactivate(val[a])) EXCEPT !.stake = stake]
    IN
    /\ val' = [val EXCEPT ![a] = IF slashed THEN Jail(v) ELSE v]
    /\ totalStake' = RestakeTotal(a, stake)
    /\ activeValidators' =
            CASE enough /\ val[a].state = "inactive" -> activeValidators + 1
              [] ~enough /\ IsActive(val[a]) -> activeValidators - 1
              [] OTHER -> activeValidators
    /\ UNCHANGED <<registryFrame, known, developerNodeSet, totalSupply>>

UpdateValidatorStake(a, stake) ==
    /\ up /\ "registry" \in Env
    /\ a \in known
    /\ SetStake(a, stake, FALSE)

\* The count of active validators is not lowered.
TombstoneForOffense(a) ==
    /\ up /\ "slash" \in Env
    /\ a \in known
    /\ val' = [val EXCEPT ![a] = Tombstone(@)]
    /\ UNCHANGED <<registryFrame, known, activeValidators, totalStake, developerNodeSet,
                   totalSupply>>

\* The manager hears of it and refuses a stake below the minimum, by an
\* exception nobody catches.
SlashForOffense(a) ==
    LET stake == val[a].stake - SlashAmount(val[a].stake) IN
    /\ up /\ "slash" \in Env
    /\ a \in known
    /\ IF ManagerAttached /\ a \in registered /\ stake < MinimumStake THEN Crash
       ELSE SetStake(a, stake, TRUE)

-----------------------------------------------------------------------------
(* The validator set: calls on the validator manager *)

ManagerCall == up /\ "manager" \in Env /\ ManagerAttached

managerFrame == <<up, running, chainVars, roundVars, timerVars, known, activeValidators,
                  totalStake, developerNodeSet, storeVars>>

\* A validator the engine still knows is not registered anew: the two maps
\* would then hold different objects, which this model does not describe.
RegisterValidator(a, stake) ==
    /\ ManagerCall
    /\ a \notin registered \cup known
    /\ stake >= MinimumStake
    /\ registered' = registered \cup {a}
    /\ val' = [val EXCEPT ![a] = NewValidator(stake)]
    /\ UNCHANGED managerFrame

UnregisterValidator(a) ==
    /\ ManagerCall
    /\ registered' = registered \ {a}
    /\ UNCHANGED <<managerFrame, val>>

ChangeValidator(a, v) ==
    /\ ManagerCall
    /\ a \in registered
    /\ val' = [val EXCEPT ![a] = v]
    /\ UNCHANGED <<managerFrame, registered>>

ActivateValidator(a) == ChangeValidator(a, Activate(val[a]))

DeactivateValidator(a) == ChangeValidator(a, Deactivate(val[a]))

JailValidator(a) == ChangeValidator(a, Jail(val[a]))

TryUnjailValidator(a) == \E expired \in BOOLEAN : ChangeValidator(a, TryUnjail(val[a], expired))

TombstoneValidator(a) == ChangeValidator(a, Tombstone(val[a]))

UpdateStake(a, stake) ==
    stake >= MinimumStake /\ ChangeValidator(a, [val[a] EXCEPT !.stake = stake])

CheckAndJailMissingValidators ==
    /\ ManagerCall
    /\ val' = [a \in Addr |-> IF a \in registered /\ IsActive(val[a])
                              THEN CheckAndJailIfNeeded(val[a]) ELSE val[a]]
    /\ UNCHANGED <<managerFrame, registered>>

-----------------------------------------------------------------------------
(* The specification *)

Init ==
    /\ up = TRUE /\ running = FALSE
    /\ state = "syncing" /\ height = 0 /\ round = 0 /\ proposer = Null
    /\ prevotes = NoVotes /\ precommits = NoVotes /\ proposal = Null
    /\ timer = NoTimers /\ held = NothingHeld
    /\ known = {} /\ registered = IF ManagerAttached THEN Genesis ELSE {}
    /\ val = GenesisValidators
    /\ activeValidators = 0 /\ totalStake = 0 /\ developerNodeSet = FALSE
    /\ totalSupply = 0 /\ storeHeight = 0 /\ adding = <<>> /\ accepted = 0

TimerStep ==
    \/ Tick
    \/ BlockTimerDue
    \/ ProposalTimedOut
    \/ VotingTimedOut
    \/ PrecommitDue
    \/ CheckDue("check")
    \/ CheckDue("orphanCheck")

NodeStep ==
    \/ Start
    \/ Stop
    \/ Exit
    \/ Restart
    \/ AddBlockDone

NetworkStep ==
    \/ ReceiveBlock
    \/ ReceiveVote

RegistryStep ==
    \E a \in Addr :
        \/ \E v \in {NewValidator(s) : s \in StakeValues} \cup {val[a]}, b \in BOOLEAN :
                AddValidator(a, v, b)
        \/ RemoveValidator(a)
        \/ \E s \in StakeValues : UpdateValidatorStake(a, s)
        \/ TombstoneForOffense(a)
        \/ SlashForOffense(a)

ManagerStep ==
    \/ CheckAndJailMissingValidators
    \/ \E a \in Addr :
        \/ \E s \in StakeValues : RegisterValidator(a, s) \/ UpdateStake(a, s)
        \/ UnregisterValidator(a)
        \/ ActivateValidator(a)
        \/ DeactivateValidator(a)
        \/ JailValidator(a)
        \/ TryUnjailValidator(a)
        \/ TombstoneValidator(a)

Next == TimerStep \/ NodeStep \/ NetworkStep \/ RegistryStep \/ ManagerStep

Spec == Init /\ [][Next]_vars

\* Node.js runs every expired timer and settles every write; index.js starts
\* the engine.  Nothing is assumed of calls from outside.
Fairness ==
    /\ WF_vars(TimerStep)
    /\ WF_vars(Start)
    /\ WF_vars(AddBlockDone)

FairSpec == Spec /\ Fairness

-----------------------------------------------------------------------------
(* Properties *)

\* Every variable holds a value of its kind.  The total stake is left to
\* TotalStakeAddsUp, which says which sum it is.
TypeOK ==
    /\ up \in BOOLEAN /\ running \in BOOLEAN
    /\ state \in ConsensusState
    /\ height \in Nat /\ round \in Nat
    /\ proposer \in Addr \cup {Null}
    /\ prevotes \in [Addr -> Block \cup VotedBlocks \cup {Null}]
    /\ precommits \in [Addr -> Block \cup VotedBlocks \cup {Null}]
    /\ proposal \in Block \cup {Null}
    /\ timer \in [Kind -> Seq(Nat)]
    /\ held \in [{"proposal", "voting"} -> BOOLEAN]
    /\ known \subseteq Addr /\ registered \subseteq Addr
    /\ val \in [Addr -> ValidatorRecord]
    /\ activeValidators \in Int
    /\ developerNodeSet \in BOOLEAN
    /\ totalSupply \in Nat /\ accepted \in Nat
    /\ storeHeight \in Nat /\ adding \in Seq(Block)

\* The node's own votes are always for the block that is the proposal now,
\* although the delayed precommit of an earlier round may cast them.
OwnVotesMatchProposal ==
    Self # Null => {prevotes[Self], precommits[Self]} \subseteq {Null, proposal}

\* Rewards, awarded twice per accepted block, stop at the maximum supply.
SupplyCap == totalSupply <= MaxSupply

\* The store's height moves by one block at a time and never back, whatever
\* the engine accepts again, out of turn or after a restart.
StoreNeverSkips == [][storeHeight' \in {storeHeight, storeHeight + 1}]_vars

\* The count that the voting threshold is computed from is never below the
\* number of active validators: the quorum is never too small.
QuorumNotUndercounted == activeValidators >= Cardinality(ActiveOf(val, known))

\* acceptBlock moves the engine to the next height: no height is accepted a
\* second time and none is jumped over.
HeightAcceptedOnce == [][accepted' > accepted => height' = height + 1]_vars

\* Every accepted block is taken by the block store.
AcceptedIsStored == [][accepted' > accepted => Len(adding') > Len(adding)]_vars

\* The engine that waits for validators starts a round once enough of them
\* are active for good, unless stop() and start() left an interval behind that
\* clears the block timer again and again.
WaitingEndsInARound ==
    <>[](up /\ running /\ Cardinality(ActiveOf(val, registered)) >= MinValidators)
        => <>(round > 0 \/ timer["orphanCheck"] # <<>>)

\* Every proposal is accepted or given up, unless the engine stops or the
\* bound on accepted blocks is reached.
ProposalDecided ==
    \A b \in OwnBlocks :
        proposal = b ~> proposal # b \/ height >= b.height \/ accepted = MaxBlocks
                        \/ ~running \/ ~up

=============================================================================
