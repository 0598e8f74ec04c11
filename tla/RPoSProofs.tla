----------------------------- MODULE RPoSProofs -----------------------------
(***************************************************************************)
(* What holds of the engine for every value of its constants: the types,   *)
(* the supply cap and the one-by-one growth of the store, all from one     *)
(* inductive invariant; the agreement of the node's own votes with the     *)
(* proposal; without a manager, the count behind the quorum; and, on a     *)
(* node that is its only validator, that heights are accepted in turn and  *)
(* every accepted block is stored.                                         *)
(***************************************************************************)
EXTENDS RPoS, SequenceTheorems, FiniteSetTheorems, TLAPS

TimerType == [Kind -> Seq(Nat)]

HeldType == [{"proposal", "voting"} -> BOOLEAN]

VotesType == [Addr -> Block \cup VotedBlocks \cup {Null}]

\* Without a validator manager no proposer is ever found, so no block is ever
\* accepted and the developer's reward is the only one.
StandaloneInv ==
    ~ManagerAttached =>
        /\ proposer = Null /\ proposal = Null
        /\ ~developerNodeSet => totalSupply = 0

\* The blocks being written are in order, and none is more than one ahead of
\* the store: a block already stored may be among them again.
StoreInv ==
    /\ \A i \in 1..Len(adding) : adding[i].height \in {storeHeight, storeHeight + 1}
    /\ \A i, j \in 1..Len(adding) : i <= j => adding[i].height <= adding[j].height

IInv == TypeOK /\ SupplyCap /\ StandaloneInv /\ StoreInv

-----------------------------------------------------------------------------
(* The validator's methods and the timers *)

\* Every method of a validator leaves a validator.
LEMMA ValidatorMethods ==
    ASSUME NEW v \in ValidatorRecord
    PROVE  /\ Jail(v) \in ValidatorRecord
           /\ \A b \in BOOLEAN : TryUnjail(v, b) \in ValidatorRecord
           /\ Tombstone(v) \in ValidatorRecord
           /\ Activate(v) \in ValidatorRecord
           /\ Deactivate(v) \in ValidatorRecord
           /\ MissBlock(v) \in ValidatorRecord
           /\ CheckAndJailIfNeeded(v) \in ValidatorRecord
           /\ \A s \in Nat : [v EXCEPT !.stake = s] \in ValidatorRecord
BY MaxMissedBlocksAssumption
   DEF ValidatorRecord, ValidatorState, Jail, TryUnjail, Tombstone, Activate, Deactivate,
       MissBlock, CheckAndJailIfNeeded

LEMMA NewValidatorType ==
    ASSUME NEW s \in Nat
    PROVE  NewValidator(s) \in ValidatorRecord
BY MaxMissedBlocksAssumption DEF NewValidator, ValidatorRecord, ValidatorState

\* A slashed stake is still a natural number.
LEMMA SlashedStake ==
    ASSUME NEW s \in Nat
    PROVE  s - SlashAmount(s) \in Nat
<1>1. SlashingPenalty \in Nat /\ SlashingPenalty <= 100
  BY SlashingPenaltyAssumption
<1>2. s * SlashingPenalty \in Nat /\ s * SlashingPenalty <= s * 100
  BY <1>1
<1>3. (s * SlashingPenalty) \div 100 \in Nat /\ (s * SlashingPenalty) \div 100 <= s
  BY <1>2
<1> QED BY <1>3 DEF SlashAmount

\* Arming, clearing and firing a timer leaves timers.
LEMMA ArmType ==
    ASSUME NEW t \in TimerType, NEW k \in Kind, NEW n \in Nat
    PROVE  Arm(t, k, n) \in TimerType
BY AppendProperties DEF Arm, TimerType

LEMMA ScheduleBlockType ==
    ASSUME NEW t \in TimerType
    PROVE  ScheduleBlock(t) \in TimerType
BY TimeAssumption DEF ScheduleBlock, TimerType, Kind

LEMMA ClearHeldType ==
    ASSUME NEW t \in TimerType, NEW h \in HeldType, NEW k \in {"proposal", "voting"}
    PROVE  ClearHeld(t, h, k) \in TimerType
<1>1. k \in Kind /\ t[k] \in Seq(Nat)
  BY DEF Kind, TimerType
<1>2. SubSeq(t[k], 1, Len(t[k]) - 1) \in Seq(Nat)
  <2>1. Len(t[k]) \in Nat /\ \A i \in 1..Len(t[k]) : t[k][i] \in Nat
    BY <1>1, LenProperties, ElementOfSeq
  <2> QED BY <1>1, <2>1, SubSeqProperties
<1> QED BY <1>1, <1>2 DEF ClearHeld, TimerType

LEMMA FiredType ==
    ASSUME timer \in TimerType, NEW k \in Kind, Due(k)
    PROVE  Fired(k) \in TimerType
BY HeadTailProperties DEF Fired, Due, TimerType

LEMMA ActiveCountType ==
    ASSUME TypeOK
    PROVE  Cardinality(ActiveOf(val, registered)) \in Nat
<1>1. ActiveOf(val, registered) \subseteq Addr
  BY DEF ActiveOf, TypeOK
<1> QED BY <1>1, AddressAssumption, FS_Subset, FS_CardinalityType

-----------------------------------------------------------------------------
(* The handlers *)

LEMMA CrashKeeps ==
    ASSUME IInv, Crash
    PROVE  IInv'
BY DEF IInv, Crash, TypeOK, SupplyCap, StandaloneInv, StoreInv, chainVars, roundVars,
       timerVars, memberVars, storeVars, Block, ValidatorRecord, IsActive

\* What selectProposer settles on is an address or nobody, and nobody without
\* a manager.
LEMMA ProposerType ==
    ASSUME IInv, NEW vs, NEW p \in SelectProposer(vs)
    PROVE  /\ p \in Addr \cup {Null}
           /\ ~ManagerAttached => p = Null
BY DEF IInv, TypeOK, StandaloneInv, SelectProposer, Eligible

LEMMA VotesTypes ==
    /\ NoVotes \in VotesType
    /\ \A b \in Block, a \in Addr : [NoVotes EXCEPT ![a] = b] \in VotesType
BY DEF NoVotes, VotesType

LEMMA OwnBlockType ==
    ASSUME TypeOK, Self # Null
    PROVE  OwnBlock \in Block
BY AddressAssumption DEF OwnBlock, Block, TypeOK

LEMMA RoundKeeps ==
    ASSUME IInv, NEW r \in Nat, NEW vs \in [Addr -> ValidatorRecord],
           NEW t \in TimerType, NEW h \in HeldType,
           RunConsensusRound(r, vs, t, h)
    PROVE  IInv'
<1>1. /\ UNCHANGED <<running, chainVars, memberVars, storeVars>>
      /\ SupplyCap' /\ StoreInv'
  BY DEF RunConsensusRound, IInv, SupplyCap, StoreInv, chainVars, storeVars
<1>2. CASE RoundRefused(r, vs, t, h)
  BY <1>1, <1>2 DEF RoundRefused, IInv, TypeOK, StandaloneInv, TimerType, HeldType,
     chainVars, memberVars, storeVars
<1>3. CASE up' = FALSE /\ UNCHANGED <<roundVars, timerVars, val>>
  <2>1. Crash
    BY <1>1, <1>3 DEF Crash
  <2> QED BY <2>1, CrashKeeps
<1>4. CASE BeginRound(r, vs, t, h)
  <2>1. PICK p \in SelectProposer(vs) : BeginRound(r, vs, t, h)!(p)
    BY <1>4 DEF BeginRound
  <2>2. /\ p \in Addr \cup {Null}
        /\ ~ManagerAttached => p = Null
    BY <2>1, ProposerType
  <2>3. /\ up' = up /\ round' \in Nat /\ proposer' = p /\ val' = vs
        /\ precommits' = NoVotes
    BY <2>1 DEF ClearPrecommits
  <2>4. CASE p = Self /\ Self # Null
    <3>1. state' = "voting" /\ proposal' = OwnBlock
          /\ prevotes' = [NoVotes EXCEPT ![Self] = OwnBlock]
      BY <2>1, <2>4
    <3>2. timer' \in TimerType
      <4>1. Arm(t, "precommit", PrecommitDelay) \in TimerType
        BY ArmType, TimeAssumption DEF Kind
      <4>2. Arm(Arm(t, "precommit", PrecommitDelay), "voting", VotingTimeout) \in TimerType
        BY <4>1, ArmType, TimeAssumption DEF Kind
      <4>3. Arm(Arm(Arm(t, "precommit", PrecommitDelay), "voting", VotingTimeout),
                "proposal", ProposalTimeout) \in TimerType
        BY <4>2, ArmType, TimeAssumption DEF Kind
      <4> QED BY <2>1, <2>4, <4>3
    <3>3. held' \in HeldType
      BY <2>1, <2>4 DEF HeldType
    <3>4. ManagerAttached
      BY <2>2, <2>4, AddressAssumption
    <3>5. proposal' \in Block /\ Self \in Addr
      BY <3>1, OwnBlockType, <2>4, AddressAssumption DEF IInv
    <3> QED
      BY <1>1, <2>2, <2>3, <3>1, <3>2, <3>3, <3>4, <3>5, VotesTypes
      DEF IInv, TypeOK, StandaloneInv, TimerType, HeldType, VotesType, ConsensusState,
          chainVars, memberVars, storeVars
  <2>5. CASE ~(p = Self /\ Self # Null)
    <3>1. state' = state /\ proposal' = Null /\ prevotes' = NoVotes
      BY <2>1, <2>5
    <3>2. timer' \in TimerType
      <4>1. Arm(t, "proposal", ProposalTimeout) \in TimerType
        BY ArmType, TimeAssumption DEF Kind
      <4> QED BY <2>1, <2>5, <4>1
    <3>3. held' \in HeldType
      BY <2>1, <2>5 DEF HeldType
    <3> QED
      BY <1>1, <2>2, <2>3, <3>1, <3>2, <3>3, VotesTypes
      DEF IInv, TypeOK, StandaloneInv, TimerType, HeldType, VotesType, ConsensusState,
          chainVars, memberVars, storeVars
  <2> QED BY <2>4, <2>5
<1> QED BY <1>2, <1>3, <1>4 DEF RunConsensusRound

\* A reward never takes the supply over the maximum.
LEMMA AwardCapped ==
    ASSUME NEW s \in 0..MaxSupply, NEW n \in 0..MaxBlocks
    PROVE  AwardBlockReward(s, n) \in 0..MaxSupply
<1>1. HalvedReward(n) \in Nat /\ MaxSupply \in Nat
  BY RewardAssumption DEF HalvedReward
<1> QED BY <1>1 DEF AwardBlockReward, CalculateBlockReward

LEMMA JailingType ==
    ASSUME val \in [Addr -> ValidatorRecord]
    PROVE  CheckAndJailValidators(val) \in [Addr -> ValidatorRecord]
BY ValidatorMethods DEF CheckAndJailValidators

\* A block the store takes extends the blocks being written in order.
LEMMA AddingGrows ==
    ASSUME TypeOK, StoreInv, NEW b \in Block, StoreTakes(b),
           adding' = Append(adding, b), storeHeight' = storeHeight
    PROVE  StoreInv' /\ adding' \in Seq(Block)
<1>1. adding \in Seq(Block) /\ storeHeight \in Nat
  BY DEF TypeOK
<1>2. /\ adding' \in Seq(Block) /\ Len(adding') = Len(adding) + 1 /\ Len(adding) \in Nat
      /\ \A i \in 1..Len(adding) : adding'[i] = adding[i]
      /\ adding'[Len(adding) + 1] = b
  BY <1>1, AppendProperties, LenProperties
<1>3. b.height = storeHeight + 1
  BY DEF StoreTakes
<1>4. \A i \in 1..Len(adding') : adding'[i].height \in {storeHeight', storeHeight' + 1}
  BY <1>2, <1>3 DEF StoreInv
<1>5. \A i, j \in 1..Len(adding') : i <= j => adding'[i].height <= adding'[j].height
  BY <1>1, <1>2, <1>3, <1>4 DEF StoreInv
<1> QED BY <1>2, <1>4, <1>5 DEF StoreInv

LEMMA AcceptKeeps ==
    ASSUME IInv, ManagerAttached, NEW b \in Block, NEW t \in TimerType, NEW h \in HeldType,
           AcceptBlock(b, t, h),
           proposal' \in Block, prevotes' \in VotesType, precommits' \in VotesType
    PROVE  IInv'
<1>1. b.height \in 0..MaxBlocks /\ b.height \in Nat
  BY BoundAssumption DEF AcceptBlock, Block
<1>2. totalSupply' \in 0..MaxSupply
  <2>1. totalSupply \in 0..MaxSupply
    BY RewardAssumption DEF IInv, TypeOK, SupplyCap
  <2>2. AwardBlockReward(totalSupply, b.height) \in 0..MaxSupply
    BY <1>1, <2>1, AwardCapped
  <2>3. AwardBlockReward(AwardBlockReward(totalSupply, b.height), b.height) \in 0..MaxSupply
    BY <1>1, <2>2, AwardCapped
  <2> QED BY <2>2, <2>3 DEF AcceptBlock
<1>3. StoreInv' /\ adding' \in Seq(Block) /\ storeHeight' = storeHeight
  <2>1. storeHeight' = storeHeight
    BY DEF AcceptBlock
  <2>2. CASE StoreTakes(b)
    BY <2>1, <2>2, AddingGrows DEF AcceptBlock, IInv
  <2>3. CASE ~StoreTakes(b)
    BY <2>1, <2>3 DEF AcceptBlock, IInv, TypeOK, StoreInv
  <2> QED BY <2>1, <2>2, <2>3
<1>4. val' \in [Addr -> ValidatorRecord]
  BY JailingType DEF AcceptBlock, IInv, TypeOK
<1>5. timer' \in TimerType /\ held' \in HeldType
  BY ScheduleBlockType DEF AcceptBlock
<1>6. /\ up' \in BOOLEAN /\ state' \in ConsensusState /\ round' \in Nat
      /\ height' \in Nat /\ accepted' \in Nat
  BY <1>1 DEF AcceptBlock, ConsensusState, IInv, TypeOK, StoreTakes
<1>7. UNCHANGED <<running, proposer, memberVars>>
  BY DEF AcceptBlock
<1>8. StandaloneInv'
  BY Zenon DEF StandaloneInv
<1>9. SupplyCap' /\ totalSupply' \in Nat
  BY <1>2, RewardAssumption DEF SupplyCap
<1>10. TypeOK'
  BY <1>3, <1>4, <1>5, <1>6, <1>7, <1>9
  DEF IInv, TypeOK, TimerType, HeldType, VotesType, memberVars
<1> QED BY <1>3, <1>8, <1>9, <1>10 DEF IInv

-----------------------------------------------------------------------------
(* The actions *)

LEMMA CastVoteKeeps ==
    ASSUME IInv, NEW pv \in VotesType, NEW pc \in VotesType, NEW t \in TimerType,
           CastVote(pv, pc, t)
    PROVE  IInv'
<1>1. CASE Crash
  BY <1>1, CrashKeeps
<1>2. CASE /\ proposal # Null
           /\ prevotes' = pv /\ precommits' = pc
           /\ AcceptBlock(proposal, ClearHeld(t, held, "voting"),
                          [held EXCEPT !["voting"] = FALSE])
           /\ UNCHANGED proposal
  <2>1. ManagerAttached
    BY <1>2 DEF IInv, StandaloneInv
  <2>2. proposal \in Block /\ proposal' \in Block
    BY <1>2 DEF IInv, TypeOK
  <2>3. /\ held \in HeldType
        /\ [held EXCEPT !["voting"] = FALSE] \in HeldType
    BY DEF IInv, TypeOK, HeldType
  <2>4. ClearHeld(t, held, "voting") \in TimerType
    BY <2>3, ClearHeldType
  <2> QED BY <1>2, <2>1, <2>2, <2>3, <2>4, AcceptKeeps
<1>3. CASE /\ prevotes' = pv /\ precommits' = pc
           /\ timer' = t
           /\ UNCHANGED <<up, running, chainVars, state, round, proposer, proposal,
                          held, memberVars, val, storeVars>>
  BY <1>3
  DEF IInv, TypeOK, SupplyCap, StandaloneInv, StoreInv, TimerType, VotesType,
      chainVars, memberVars, storeVars
<1> QED BY <1>1, <1>2, <1>3 DEF CastVote

LEMMA ReceiveVoteKeeps ==
    ASSUME IInv, ReceiveVote
    PROVE  IInv'
<1>1. PICK a \in Addr, b \in VotedBlocks \cup {proposal} :
        /\ b # Null
        /\ \/ CastVote([prevotes EXCEPT ![a] = b], precommits, timer)
           \/ CastVote(prevotes, [precommits EXCEPT ![a] = b], timer)
  BY DEF ReceiveVote
<1>2. b \in Block \cup VotedBlocks
  BY <1>1 DEF IInv, TypeOK
<1>3. /\ prevotes \in VotesType /\ precommits \in VotesType /\ timer \in TimerType
      /\ [prevotes EXCEPT ![a] = b] \in VotesType
      /\ [precommits EXCEPT ![a] = b] \in VotesType
  BY <1>2 DEF IInv, TypeOK, VotesType, TimerType
<1> QED BY <1>1, <1>3, CastVoteKeeps

LEMMA PrecommitDueKeeps ==
    ASSUME IInv, PrecommitDue
    PROVE  IInv'
<1>1. timer \in TimerType /\ Fired("precommit") \in TimerType
  BY FiredType DEF PrecommitDue, IInv, TypeOK, TimerType, Kind
<1>2. CASE /\ timer' = Fired("precommit")
           /\ UNCHANGED <<up, running, chainVars, roundVars, held, memberVars, val, storeVars>>
  BY <1>1, <1>2
  DEF IInv, TypeOK, SupplyCap, StandaloneInv, StoreInv, TimerType,
      chainVars, roundVars, memberVars, storeVars
<1>3. CASE Crash
  BY <1>3, CrashKeeps
<1>4. CASE /\ proposal # Null
           /\ CastVote(prevotes, [precommits EXCEPT ![Self] = proposal], Fired("precommit"))
  <2>1. /\ prevotes \in VotesType
        /\ [precommits EXCEPT ![Self] = proposal] \in VotesType
    BY <1>4 DEF IInv, TypeOK, VotesType
  <2> QED BY <1>1, <1>4, <2>1, CastVoteKeeps
<1> QED BY <1>2, <1>3, <1>4 DEF PrecommitDue

LEMMA VotingTimedOutKeeps ==
    ASSUME IInv, VotingTimedOut
    PROVE  IInv'
<1> DEFINE t == ClearHeld(Fired("voting"), held, "voting")
<1> DEFINE h == [held EXCEPT !["voting"] = FALSE]
<1>1. held \in HeldType /\ h \in HeldType
  BY DEF IInv, TypeOK, HeldType
<1>2. Fired("voting") \in TimerType
  BY FiredType DEF VotingTimedOut, IInv, TypeOK, TimerType, Kind
<1>3. t \in TimerType
  BY <1>1, <1>2, ClearHeldType
<1>4. CASE Crash
  BY <1>4, CrashKeeps
<1>5. CASE /\ proposal # Null
           /\ AcceptBlock(proposal, t, h)
           /\ UNCHANGED <<proposal, prevotes, precommits>>
  <2>1. ManagerAttached
    BY <1>5 DEF IInv, StandaloneInv
  <2>2. /\ proposal \in Block /\ proposal' \in Block
        /\ prevotes' \in VotesType /\ precommits' \in VotesType
    BY <1>5 DEF IInv, TypeOK, VotesType
  <2> QED BY <1>1, <1>3, <1>5, <2>1, <2>2, AcceptKeeps
<1>6. CASE RunConsensusRound(IF round < MaxRound THEN round + 1 ELSE round, val, t, h)
  <2>1. /\ (IF round < MaxRound THEN round + 1 ELSE round) \in Nat
        /\ val \in [Addr -> ValidatorRecord]
    BY DEF IInv, TypeOK
  <2> QED BY <1>1, <1>3, <1>6, <2>1, RoundKeeps
<1> QED BY <1>4, <1>5, <1>6 DEF VotingTimedOut

LEMMA PenalizeType ==
    ASSUME TypeOK, NEW a
    PROVE  Penalize(a) \in [Addr -> ValidatorRecord]
<1>1. CASE a \in known
  <2>1. a \in Addr /\ val[a] \in ValidatorRecord
    BY <1>1 DEF TypeOK
  <2>2. CheckAndJailIfNeeded(MissBlock(val[a])) \in ValidatorRecord
    BY <2>1, ValidatorMethods
  <2> QED BY <1>1, <2>1, <2>2 DEF Penalize, TypeOK
<1>2. CASE a \notin known
  BY <1>2 DEF Penalize, TypeOK
<1> QED BY <1>1, <1>2

LEMMA ProposalTimedOutKeeps ==
    ASSUME IInv, ProposalTimedOut
    PROVE  IInv'
<1> DEFINE h == [held EXCEPT !["proposal"] = @ /\ Len(timer["proposal"]) > 1]
<1>1. Fired("proposal") \in TimerType
  BY FiredType DEF ProposalTimedOut, IInv, TypeOK, TimerType, Kind
<1>2. h \in HeldType
  <2>1. (held["proposal"] /\ Len(timer["proposal"]) > 1) \in BOOLEAN
    OBVIOUS
  <2> QED BY <2>1, Zenon DEF IInv, TypeOK, HeldType
<1>3. round \in Nat /\ Penalize(proposer) \in [Addr -> ValidatorRecord]
  BY PenalizeType DEF IInv, TypeOK
<1> QED BY <1>1, <1>2, <1>3, RoundKeeps DEF ProposalTimedOut

LEMMA BlockTimerDueKeeps ==
    ASSUME IInv, BlockTimerDue
    PROVE  IInv'
<1>1. Fired("block") \in TimerType
  BY FiredType DEF BlockTimerDue, IInv, TypeOK, TimerType, Kind
<1>2. round \in Nat /\ val \in [Addr -> ValidatorRecord] /\ held \in HeldType
  BY DEF IInv, TypeOK, HeldType
<1> QED BY <1>1, <1>2, RoundKeeps DEF BlockTimerDue

\* A valid block comes from the proposer, whom only a manager's node has.
LEMMA ReceiveBlockKeeps ==
    ASSUME IInv, ReceiveBlock
    PROVE  IInv'
<1>1. PICK a \in Addr \ {Self}, n \in {height, height + 1}, fresh \in BOOLEAN :
        LET b == [height |-> n, from |-> a] IN
        \/ ValidateBlock(b, fresh) /\ StartVotingPhase(b)
        \/ /\ ~ValidateBlock(b, fresh)
           /\ RunConsensusRound(round, Penalize(a), timer, held)
  BY DEF ReceiveBlock
<1> DEFINE b == [height |-> n, from |-> a]
<1>2. /\ timer \in TimerType /\ held \in HeldType /\ b \in Block
      /\ round \in Nat
  BY DEF IInv, TypeOK, TimerType, HeldType, Block
<1>3. CASE RunConsensusRound(round, Penalize(a), timer, held)
  BY <1>2, <1>3, PenalizeType, RoundKeeps DEF IInv
<1>4. CASE ValidateBlock(b, fresh) /\ StartVotingPhase(b)
  <2> DEFINE own  == Self # Null
             now  == own /\ Threshold <= 0
             base == IF now THEN ClearHeld(timer, held, "voting") ELSE timer
             t    == Arm(IF own THEN Arm(base, "precommit", PrecommitDelay) ELSE base,
                         "voting", VotingTimeout)
             h    == [held EXCEPT !["voting"] = TRUE]
  <2>1. ManagerAttached
    BY <1>4, AddressAssumption DEF ValidateBlock, IInv, StandaloneInv
  <2>2. base \in TimerType
    BY <1>2, ClearHeldType
  <2>3. Arm(base, "precommit", PrecommitDelay) \in TimerType
    BY <2>2, ArmType, TimeAssumption DEF Kind
  <2>4. t \in TimerType
    BY <2>2, <2>3, ArmType, TimeAssumption DEF Kind
  <2>5. h \in HeldType
    BY <1>2 DEF HeldType
  <2>6. /\ proposal' = b /\ precommits' = NoVotes
        /\ prevotes' = IF own THEN [NoVotes EXCEPT ![Self] = b] ELSE NoVotes
    BY <1>4 DEF StartVotingPhase, ClearPrecommits
  <2>7. proposal' \in Block /\ prevotes' \in VotesType /\ precommits' \in VotesType
    BY <1>2, <2>6, VotesTypes, AddressAssumption
  <2>8. CASE AcceptBlock(b, t, h)
    BY <1>2, <2>1, <2>4, <2>5, <2>7, <2>8, AcceptKeeps
  <2>9. CASE /\ state' = "voting" /\ timer' = t /\ held' = h
             /\ UNCHANGED <<up, running, chainVars, round, proposer, memberVars, val, storeVars>>
    BY <2>1, <2>4, <2>5, <2>7, <2>9
    DEF IInv, TypeOK, SupplyCap, StandaloneInv, StoreInv, TimerType, HeldType,
        VotesType, ConsensusState, chainVars, memberVars, storeVars
  <2> QED BY <1>4, <2>8, <2>9 DEF StartVotingPhase
<1> QED BY <1>1, <1>3, <1>4

LEMMA TickKeeps ==
    ASSUME IInv, Tick
    PROVE  IInv'
<1>1. timer \in TimerType
  BY DEF IInv, TypeOK, TimerType
<1>2. \A k \in Kind : [i \in DOMAIN timer[k] |-> timer[k][i] - 1] \in Seq(Nat)
  <2> TAKE k \in Kind
  <2>1. /\ timer[k] \in Seq(Nat) /\ Len(timer[k]) \in Nat
        /\ DOMAIN timer[k] = 1..Len(timer[k])
    BY <1>1, LenProperties DEF TimerType
  <2>2. \A i \in 1..Len(timer[k]) : timer[k][i] - 1 \in Nat
    BY <2>1, ElementOfSeq DEF Tick
  <2>3. [i \in 1..Len(timer[k]) |-> timer[k][i] - 1] \in [1..Len(timer[k]) -> Nat]
    BY <2>2
  <2> QED BY <2>1, <2>3, SeqDef
<1>3. timer' \in TimerType
  BY <1>2 DEF Tick, TimerType
<1> QED
  BY <1>3
  DEF Tick, IInv, TypeOK, SupplyCap, StandaloneInv, StoreInv, TimerType,
      chainVars, roundVars, memberVars, storeVars

\* Loading validators keeps the types of what it changes.
LEMMA LoadType ==
    ASSUME IInv, NEW st, LoadValidators(st)
    PROVE  /\ known' \subseteq Addr /\ activeValidators' \in Int
           /\ proposer' \in Addr \cup {Null}
           /\ ~ManagerAttached => proposer' = Null
<1>1. CASE ManagerAttached
  <2>1. proposer' \in Addr \cup {Null}
    BY <1>1, ProposerType DEF LoadValidators, IInv, TypeOK
  <2> QED BY <1>1, <2>1, ActiveCountType DEF LoadValidators, IInv, TypeOK
<1>2. CASE ~ManagerAttached
  BY <1>2 DEF LoadValidators, IInv, TypeOK, StandaloneInv
<1> QED BY <1>1, <1>2

LEMMA StartKeeps ==
    ASSUME IInv, Start
    PROVE  IInv'
<1>1. CASE Crash
  BY <1>1, CrashKeeps
<1>2. CASE ~Crash
  <2>1. /\ running' = TRUE /\ state' = "waiting" /\ LoadValidators("waiting")
        /\ timer' = IF activeValidators' < MinValidators
                    THEN [timer EXCEPT !["orphanCheck"] = @ \o timer["check"],
                                       !["check"] = <<CheckPeriod>>]
                    ELSE ScheduleBlock(timer)
        /\ UNCHANGED <<up, chainVars, round, prevotes, precommits, proposal, held,
                       registered, developerNodeSet, val, storeVars>>
    BY <1>2 DEF Start
  <2>2. timer \in TimerType
    BY DEF IInv, TypeOK, TimerType
  <2>3. timer' \in TimerType
    <3>1. timer["orphanCheck"] \o timer["check"] \in Seq(Nat)
      BY <2>2, ConcatProperties DEF TimerType, Kind
    <3>2. <<CheckPeriod>> \in Seq(Nat)
      BY TimeAssumption
    <3>3. [timer EXCEPT !["orphanCheck"] = @ \o timer["check"],
                        !["check"] = <<CheckPeriod>>] \in TimerType
      BY <2>2, <3>1, <3>2 DEF TimerType
    <3> QED BY <2>1, <2>2, <3>3, ScheduleBlockType
  <2>4. /\ known' \subseteq Addr /\ activeValidators' \in Int
        /\ proposer' \in Addr \cup {Null}
        /\ ~ManagerAttached => proposer' = Null
    BY <2>1, LoadType
  <2> QED
    BY <2>1, <2>3, <2>4
    DEF IInv, TypeOK, SupplyCap, StandaloneInv, StoreInv, TimerType, ConsensusState,
        chainVars, storeVars
<1> QED BY <1>1, <1>2

LEMMA CheckDueKeeps ==
    ASSUME IInv, NEW k \in {"check", "orphanCheck"}, CheckDue(k)
    PROVE  IInv'
<1>1. CASE Crash
  BY <1>1, CrashKeeps
<1>2. CASE ~Crash
  <2> DEFINE again == Arm(Fired(k), k, CheckPeriod)
  <2>1. /\ LoadValidators(state)
        /\ timer' = IF activeValidators' >= MinValidators
                    THEN ScheduleBlock([again EXCEPT !["check"] = <<>>])
                    ELSE again
        /\ UNCHANGED <<up, running, chainVars, state, round, prevotes, precommits,
                       proposal, held, registered, developerNodeSet, val, storeVars>>
    BY <1>2 DEF CheckDue
  <2>2. Fired(k) \in TimerType
    BY FiredType DEF CheckDue, IInv, TypeOK, TimerType, Kind
  <2>3. again \in TimerType
    BY <2>2, ArmType, TimeAssumption DEF Kind
  <2>4. [again EXCEPT !["check"] = <<>>] \in TimerType
    <3> HIDE DEF again
    <3>1. <<>> \in Seq(Nat)
      OBVIOUS
    <3> QED BY <2>3, <3>1 DEF TimerType
  <2>5. timer' \in TimerType
    BY <2>1, <2>3, <2>4, ScheduleBlockType
  <2>6. /\ known' \subseteq Addr /\ activeValidators' \in Int
        /\ proposer' \in Addr \cup {Null}
        /\ ~ManagerAttached => proposer' = Null
    BY <2>1, LoadType
  <2> HIDE DEF again
  <2> QED
    BY <2>1, <2>5, <2>6
    DEF IInv, TypeOK, SupplyCap, StandaloneInv, StoreInv, TimerType,
        chainVars, storeVars
<1> QED BY <1>1, <1>2

LEMMA StopKeeps ==
    ASSUME IInv, Stop
    PROVE  IInv'
<1> DEFINE t1 == ClearHeld(timer, held, "proposal")
           t2 == ClearHeld(t1, held, "voting")
<1>1. timer \in TimerType /\ held \in HeldType
  BY DEF IInv, TypeOK, TimerType, HeldType
<1>2. t1 \in TimerType
  BY <1>1, ClearHeldType
<1>3. t2 \in TimerType
  BY <1>1, <1>2, ClearHeldType
<1>4. [t2 EXCEPT !["block"] = <<>>] \in TimerType
  <2> HIDE DEF t2
  <2>1. <<>> \in Seq(Nat)
    OBVIOUS
  <2> QED BY <1>3, <2>1 DEF TimerType
<1>5. timer' \in TimerType /\ held' \in HeldType
  BY <1>1, <1>4 DEF Stop, HeldType
<1> QED
  BY <1>5
  DEF Stop, IInv, TypeOK, SupplyCap, StandaloneInv, StoreInv, TimerType, HeldType,
      chainVars, roundVars, memberVars, storeVars

\* What a process that starts holds, apart from the store.
LEMMA FreshTypes ==
    /\ NoVotes \in VotesType
    /\ NoTimers \in TimerType
    /\ NothingHeld \in HeldType
    /\ GenesisValidators \in [Addr -> ValidatorRecord]
<1>1. NoTimers \in TimerType
  BY DEF NoTimers, TimerType
<1>2. NothingHeld \in HeldType
  BY DEF NothingHeld, HeldType
<1>3. /\ NewValidator(InitialStake) \in ValidatorRecord
      /\ NewValidator(0) \in ValidatorRecord
  BY NewValidatorType, StakeAssumption
<1>4. Activate(NewValidator(InitialStake)) \in ValidatorRecord
  BY <1>3, ValidatorMethods
<1> QED BY <1>1, <1>2, <1>3, <1>4, VotesTypes DEF GenesisValidators

LEMMA RestartKeeps ==
    ASSUME IInv, Restart
    PROVE  IInv'
<1>1. StoreInv' /\ adding' \in Seq(Block)
  BY DEF Restart, StoreInv
<1>2. SupplyCap'
  BY RewardAssumption DEF Restart, SupplyCap
<1>3. StandaloneInv'
  BY DEF Restart, StandaloneInv
<1>4. TypeOK'
  <2>1. known' \subseteq Addr /\ registered' \subseteq Addr
    BY AddressAssumption DEF Restart
  <2>2. /\ prevotes' \in VotesType /\ precommits' \in VotesType
        /\ timer' \in TimerType /\ held' \in HeldType /\ val' \in [Addr -> ValidatorRecord]
    BY FreshTypes DEF Restart
  <2>3. /\ up' \in BOOLEAN /\ running' \in BOOLEAN /\ developerNodeSet' \in BOOLEAN
        /\ state' \in ConsensusState
        /\ proposer' \in Addr \cup {Null} /\ proposal' \in Block \cup {Null}
    BY DEF Restart, ConsensusState
  <2>4. /\ height' \in Nat /\ round' \in Nat /\ activeValidators' \in Int
        /\ totalSupply' \in Nat /\ accepted' \in Nat /\ storeHeight' \in Nat
    BY DEF Restart, RecoveredHeight, IInv, TypeOK
  <2> QED BY <1>1, <2>1, <2>2, <2>3, <2>4 DEF TypeOK, VotesType, TimerType, HeldType
<1> QED BY <1>1, <1>2, <1>3, <1>4 DEF IInv

LEMMA AddBlockDoneKeeps ==
    ASSUME IInv, AddBlockDone
    PROVE  /\ IInv'
           /\ storeHeight' \in {storeHeight, storeHeight + 1}
<1>1. adding \in Seq(Block) /\ adding # <<>> /\ storeHeight \in Nat
  BY DEF AddBlockDone, IInv, TypeOK
<1>2. /\ Len(adding) \in Nat /\ Len(adding) >= 1
      /\ Head(adding) = adding[1] /\ Head(adding) \in Block
      /\ Tail(adding) \in Seq(Block) /\ Len(Tail(adding)) = Len(adding) - 1
      /\ \A i \in 1..Len(Tail(adding)) : Tail(adding)[i] = adding[i + 1]
  BY <1>1, HeadTailProperties, LenProperties, EmptySeq
<1>3. \A i \in 1..Len(adding) : adding[i].height \in Nat
  <2>1. \A i \in 1..Len(adding) : adding[i] \in Block
    BY <1>1, ElementOfSeq
  <2> QED BY <2>1 DEF Block
<1>4. storeHeight' = adding[1].height /\ adding' = Tail(adding)
  BY <1>2 DEF AddBlockDone
<1>5. storeHeight' \in {storeHeight, storeHeight + 1}
  BY <1>2, <1>4 DEF IInv, StoreInv
<1>6. StoreInv'
  <2>1. \A i \in 1..Len(adding) :
            /\ adding[i].height \in {storeHeight, storeHeight + 1}
            /\ adding[1].height <= adding[i].height
    BY <1>2 DEF IInv, StoreInv
  <2>2. \A i \in 1..Len(adding') : i + 1 \in 1..Len(adding) /\ adding'[i] = adding[i + 1]
    BY <1>2, <1>4
  <2>3. \A i \in 1..Len(adding') : adding'[i].height \in {storeHeight', storeHeight' + 1}
    BY <1>1, <1>3, <1>4, <1>5, <2>1, <2>2
  <2>4. \A i, j \in 1..Len(adding') : i <= j => adding'[i].height <= adding'[j].height
    <3> SUFFICES ASSUME NEW i \in 1..Len(adding'), NEW j \in 1..Len(adding'), i <= j
                 PROVE  adding[i + 1].height <= adding[j + 1].height
      BY <2>2
    <3>1. i + 1 \in 1..Len(adding) /\ j + 1 \in 1..Len(adding) /\ i + 1 <= j + 1
      BY <2>2, <1>2, <1>4
    <3> QED BY <3>1 DEF IInv, StoreInv
  <2> QED BY <2>3, <2>4 DEF StoreInv
<1>7. TypeOK'
  BY <1>1, <1>2, <1>4
  DEF AddBlockDone, IInv, TypeOK, Block, roundVars, timerVars, memberVars
<1>8. SupplyCap' /\ StandaloneInv'
  BY DEF AddBlockDone, IInv, SupplyCap, StandaloneInv, roundVars, memberVars
<1> QED BY <1>5, <1>6, <1>7, <1>8 DEF IInv

\* The calls on the engine's own validator map.
LEMMA RegistryKeeps ==
    ASSUME IInv, RegistryStep
    PROVE  IInv'
<1>1. PICK a \in Addr :
        \/ \E v \in {NewValidator(s) : s \in StakeValues} \cup {val[a]}, b \in BOOLEAN :
                AddValidator(a, v, b)
        \/ RemoveValidator(a)
        \/ \E s \in StakeValues : UpdateValidatorStake(a, s)
        \/ TombstoneForOffense(a)
        \/ SlashForOffense(a)
  BY DEF RegistryStep
<1>2. val[a] \in ValidatorRecord /\ val[a].stake \in Nat /\ val \in [Addr -> ValidatorRecord]
  BY DEF IInv, TypeOK, ValidatorRecord
\* enough for a call that leaves the rounds, the timers and the store alone
<1>3. ASSUME registryFrame' = registryFrame,
             val' \in [Addr -> ValidatorRecord], known' \subseteq Addr,
             activeValidators' \in Int, developerNodeSet' \in BOOLEAN,
             totalSupply' \in Nat, totalSupply' <= MaxSupply,
             ~ManagerAttached => (~developerNodeSet' => totalSupply' = 0)
      PROVE  IInv'
  BY <1>3
  DEF registryFrame, IInv, TypeOK, SupplyCap, StandaloneInv, StoreInv,
      roundVars, timerVars, storeVars
<1>4. ASSUME NEW s \in Nat, NEW slashed \in BOOLEAN, SetStake(a, s, slashed)
      PROVE  IInv'
  <2> DEFINE w == IF s >= MinimumStake THEN Activate(val[a]) ELSE Deactivate(val[a])
             v == [w EXCEPT !.stake = s]
  <2>1. w \in ValidatorRecord
    BY <1>2, ValidatorMethods
  <2>2. v \in ValidatorRecord
    BY <2>1, ValidatorMethods
  <2>3. (IF slashed THEN Jail(v) ELSE v) \in ValidatorRecord
    BY <2>2, ValidatorMethods
  <2>4. val' \in [Addr -> ValidatorRecord]
    <3> HIDE DEF v
    <3>1. val' = [val EXCEPT ![a] = IF slashed THEN Jail(v) ELSE v]
      BY <1>4 DEF SetStake, v
    <3> QED BY <1>2, <2>3, <3>1
  <2>5. activeValidators' \in Int
    BY <1>4 DEF SetStake, IInv, TypeOK
  <2>6. /\ registryFrame' = registryFrame
        /\ UNCHANGED <<known, developerNodeSet, totalSupply>>
    BY <1>4 DEF SetStake
  <2> QED BY <1>3, <2>4, <2>5, <2>6 DEF IInv, TypeOK, SupplyCap, StandaloneInv
<1>5. ASSUME NEW v \in {NewValidator(s) : s \in StakeValues} \cup {val[a]},
             NEW b \in BOOLEAN, AddValidator(a, v, b)
      PROVE  IInv'
  <2>1. v \in ValidatorRecord
    BY <1>2, NewValidatorType, StakeAssumption
  <2>2. val' \in [Addr -> ValidatorRecord]
    BY <1>2, <1>5, <2>1, ValidatorMethods DEF AddValidator
  <2>3. totalSupply' \in Nat /\ totalSupply' <= MaxSupply
    BY <1>5, RewardAssumption DEF AddValidator, IInv, TypeOK, SupplyCap, StandaloneInv
  <2>4. /\ registryFrame' = registryFrame /\ known' \subseteq Addr
        /\ activeValidators' \in Int /\ developerNodeSet' = TRUE
    BY <1>5 DEF AddValidator, IInv, TypeOK
  <2> QED BY <1>3, <2>2, <2>3, <2>4
<1>6. CASE RemoveValidator(a)
  <2>1. /\ registryFrame' = registryFrame /\ known' \subseteq Addr
        /\ activeValidators' \in Int
        /\ UNCHANGED <<developerNodeSet, totalSupply, val>>
    BY <1>6 DEF RemoveValidator, UncountRemoved, IInv, TypeOK
  <2> QED BY <1>2, <1>3, <2>1 DEF IInv, TypeOK, SupplyCap, StandaloneInv
<1>7. CASE TombstoneForOffense(a)
  <2>1. val' \in [Addr -> ValidatorRecord]
    BY <1>2, <1>7, ValidatorMethods DEF TombstoneForOffense
  <2>2. /\ registryFrame' = registryFrame
        /\ UNCHANGED <<known, activeValidators, developerNodeSet, totalSupply>>
    BY <1>7 DEF TombstoneForOffense
  <2> QED BY <1>3, <2>1, <2>2 DEF IInv, TypeOK, SupplyCap, StandaloneInv
<1>8. ASSUME NEW s \in StakeValues, UpdateValidatorStake(a, s)
      PROVE  IInv'
  BY <1>4, <1>8, StakeAssumption DEF UpdateValidatorStake
<1>9. CASE SlashForOffense(a)
  <2>1. val[a].stake - SlashAmount(val[a].stake) \in Nat
    BY <1>2, SlashedStake
  <2> QED BY <1>4, <1>9, <2>1, CrashKeeps DEF SlashForOffense
<1> QED BY <1>1, <1>5, <1>6, <1>7, <1>8, <1>9

\* The calls on the validator manager change validator objects and its map.
LEMMA ManagerKeeps ==
    ASSUME IInv, ManagerStep
    PROVE  IInv'
<1>1. val \in [Addr -> ValidatorRecord] /\ registered \subseteq Addr
  BY DEF IInv, TypeOK
<1>2. ASSUME managerFrame' = managerFrame,
             val' \in [Addr -> ValidatorRecord], registered' \subseteq Addr
      PROVE  IInv'
  <2>1. TypeOK'
    BY <1>2 DEF managerFrame, IInv, TypeOK, chainVars, roundVars, timerVars, storeVars
  <2>2. SupplyCap' /\ StoreInv'
    BY <1>2 DEF managerFrame, IInv, SupplyCap, StoreInv, chainVars, storeVars
  <2>3. StandaloneInv'
    BY <1>2 DEF managerFrame, IInv, StandaloneInv, chainVars, roundVars
  <2> QED BY <2>1, <2>2, <2>3 DEF IInv
<1>3. CASE CheckAndJailMissingValidators
  <2>1. val' \in [Addr -> ValidatorRecord]
    BY <1>1, <1>3, ValidatorMethods DEF CheckAndJailMissingValidators
  <2> QED BY <1>1, <1>2, <1>3, <2>1 DEF CheckAndJailMissingValidators
<1>4. ASSUME NEW a \in Addr, NEW v \in ValidatorRecord, ChangeValidator(a, v)
      PROVE  IInv'
  BY <1>1, <1>2, <1>4 DEF ChangeValidator
<1>5. ASSUME NEW a \in Addr, NEW s \in StakeValues, RegisterValidator(a, s)
      PROVE  IInv'
  <2>1. val' \in [Addr -> ValidatorRecord]
    BY <1>1, <1>5, NewValidatorType, StakeAssumption DEF RegisterValidator
  <2> QED BY <1>1, <1>2, <1>5, <2>1 DEF RegisterValidator
<1>6. ASSUME NEW a \in Addr, UnregisterValidator(a)
      PROVE  IInv'
  BY <1>1, <1>2, <1>6 DEF UnregisterValidator
<1>7. ASSUME NEW a \in Addr, NEW s \in StakeValues, UpdateStake(a, s)
      PROVE  IInv'
  <2>1. [val[a] EXCEPT !.stake = s] \in ValidatorRecord
    BY <1>1, ValidatorMethods, StakeAssumption
  <2> QED BY <1>4, <1>7, <2>1 DEF UpdateStake
<1>8. ASSUME NEW a \in Addr,
             \/ ActivateValidator(a)
             \/ DeactivateValidator(a)
             \/ JailValidator(a)
             \/ TryUnjailValidator(a)
             \/ TombstoneValidator(a)
      PROVE  IInv'
  <2>1. /\ Activate(val[a]) \in ValidatorRecord
        /\ Deactivate(val[a]) \in ValidatorRecord
        /\ Jail(val[a]) \in ValidatorRecord
        /\ \A b \in BOOLEAN : TryUnjail(val[a], b) \in ValidatorRecord
        /\ Tombstone(val[a]) \in ValidatorRecord
    BY <1>1, ValidatorMethods
  <2> QED
    BY <1>4, <1>8, <2>1
    DEF ActivateValidator, DeactivateValidator, JailValidator, TryUnjailValidator,
        TombstoneValidator
<1> QED BY <1>3, <1>5, <1>6, <1>7, <1>8 DEF ManagerStep

-----------------------------------------------------------------------------
(* The theorems *)

LEMMA InitEstablishes ==
    ASSUME Init
    PROVE  IInv
<1>1. StoreInv /\ adding \in Seq(Block)
  BY DEF Init, StoreInv
<1>2. SupplyCap
  BY RewardAssumption DEF Init, SupplyCap
<1>3. StandaloneInv
  BY DEF Init, StandaloneInv
<1>4. TypeOK
  <2>1. known \subseteq Addr /\ registered \subseteq Addr
    BY AddressAssumption DEF Init
  <2>2. /\ prevotes \in VotesType /\ precommits \in VotesType
        /\ timer \in TimerType /\ held \in HeldType /\ val \in [Addr -> ValidatorRecord]
    BY FreshTypes DEF Init
  <2>3. /\ up \in BOOLEAN /\ running \in BOOLEAN /\ developerNodeSet \in BOOLEAN
        /\ state \in ConsensusState
        /\ proposer \in Addr \cup {Null} /\ proposal \in Block \cup {Null}
    BY DEF Init, ConsensusState
  <2>4. /\ height \in Nat /\ round \in Nat /\ activeValidators \in Int
        /\ totalSupply \in Nat /\ accepted \in Nat /\ storeHeight \in Nat
    BY DEF Init
  <2> QED BY <1>1, <2>1, <2>2, <2>3, <2>4 DEF TypeOK, VotesType, TimerType, HeldType
<1> QED BY <1>1, <1>2, <1>3, <1>4 DEF IInv

LEMMA StepKeeps ==
    ASSUME IInv, [Next]_vars
    PROVE  IInv'
<1>1. CASE UNCHANGED vars
  BY <1>1
  DEF vars, IInv, TypeOK, SupplyCap, StandaloneInv, StoreInv,
      chainVars, roundVars, timerVars, memberVars, storeVars
<1>2. CASE TimerStep
  BY <1>2, TickKeeps, BlockTimerDueKeeps, ProposalTimedOutKeeps, VotingTimedOutKeeps,
     PrecommitDueKeeps, CheckDueKeeps
  DEF TimerStep
<1>3. CASE NodeStep
  BY <1>3, StartKeeps, StopKeeps, CrashKeeps, RestartKeeps, AddBlockDoneKeeps
  DEF NodeStep, Exit
<1>4. CASE NetworkStep
  BY <1>4, ReceiveBlockKeeps, ReceiveVoteKeeps DEF NetworkStep
<1>5. CASE RegistryStep
  BY <1>5, RegistryKeeps
<1>6. CASE ManagerStep
  BY <1>6, ManagerKeeps
<1> QED BY <1>1, <1>2, <1>3, <1>4, <1>5, <1>6 DEF Next

\* The invariant behind all that follows: what a standalone engine lacks and
\* the order of the blocks being written are what makes it inductive.
THEOREM Invariance == Spec => []IInv
<1>1. Init => IInv
  BY InitEstablishes
<1>2. IInv /\ [Next]_vars => IInv'
  BY StepKeeps
<1> QED BY <1>1, <1>2, PTL DEF Spec

\* Every engine variable holds a value of its kind in every reachable state,
\* whatever timers, votes, blocks and validator calls arrive.
THEOREM TypeCorrectness == Spec => []TypeOK
<1>1. IInv => TypeOK
  BY DEF IInv
<1> QED BY <1>1, Invariance, PTL

\* Although an accepted block is rewarded twice and may be accepted again,
\* the engine's supply never exceeds the maximum.
THEOREM SupplyNeverExceedsMaximum == Spec => []SupplyCap
<1>1. IInv => SupplyCap
  BY DEF IInv
<1> QED BY <1>1, Invariance, PTL

\* Only the end of a write moves the store's height, and only by one.
LEMMA StoreStep ==
    ASSUME IInv, [Next]_vars
    PROVE  storeHeight' \in {storeHeight, storeHeight + 1}
<1>1. CASE UNCHANGED vars
  BY <1>1 DEF vars, storeVars
<1>2. CASE TimerStep
  BY <1>2 DEF TimerStep, Tick, BlockTimerDue, ProposalTimedOut, VotingTimedOut, PrecommitDue,
     CheckDue, CastVote, AcceptBlock, RunConsensusRound, Crash, storeVars
<1>3. CASE NodeStep
  BY <1>3, AddBlockDoneKeeps DEF NodeStep, Start, Stop, Exit, Restart, RecoveredHeight, Crash,
     storeVars
<1>4. CASE NetworkStep
  BY <1>4 DEF NetworkStep, ReceiveBlock, ReceiveVote, StartVotingPhase, CastVote, AcceptBlock,
     RunConsensusRound, Crash, storeVars
<1>5. CASE RegistryStep
  BY <1>5 DEF RegistryStep, AddValidator, RemoveValidator, UpdateValidatorStake,
     TombstoneForOffense, SlashForOffense, SetStake, Crash, registryFrame, storeVars
<1>6. CASE ManagerStep
  BY <1>6 DEF ManagerStep, CheckAndJailMissingValidators, RegisterValidator, UpdateStake,
     UnregisterValidator, ActivateValidator, DeactivateValidator, JailValidator,
     TryUnjailValidator, TombstoneValidator, ChangeValidator, managerFrame, storeVars
<1> QED BY <1>1, <1>2, <1>3, <1>4, <1>5, <1>6 DEF Next

\* However often the engine accepts a block again, out of turn or after a
\* restart, the store's height grows by one block at a time and never back.
THEOREM StoreGrowsByOne == Spec => StoreNeverSkips
<1>1. IInv /\ [Next]_vars => [storeHeight' \in {storeHeight, storeHeight + 1}]_vars
  BY StoreStep
<1> QED BY <1>1, Invariance, PTL DEF Spec, StoreNeverSkips

-----------------------------------------------------------------------------
(* The node's own votes *)

\* A round that begins takes back the votes with the proposal, and casts the
\* own prevote for the own block.
LEMMA RoundAgrees ==
    ASSUME OwnVotesMatchProposal, NEW r, NEW vs, NEW t, NEW h, RunConsensusRound(r, vs, t, h)
    PROVE  OwnVotesMatchProposal'
<1>1. CASE RoundRefused(r, vs, t, h) \/ UNCHANGED roundVars
  BY <1>1 DEF RoundRefused, roundVars, OwnVotesMatchProposal
<1>2. CASE BeginRound(r, vs, t, h)
  BY <1>2, AddressAssumption DEF BeginRound, ClearPrecommits, NoVotes, OwnVotesMatchProposal
<1> QED BY <1>1, <1>2 DEF RunConsensusRound

\* A vote that is cast leaves the proposal, accepted or not.
LEMMA CastAgrees ==
    ASSUME OwnVotesMatchProposal, NEW pv, NEW pc, NEW t, CastVote(pv, pc, t),
           Self # Null => {pv[Self], pc[Self]} \subseteq {Null, proposal}
    PROVE  OwnVotesMatchProposal'
<1>1. CASE Crash
  BY <1>1 DEF Crash, roundVars, OwnVotesMatchProposal
<1>2. CASE prevotes' = pv /\ precommits' = pc /\ UNCHANGED proposal
  BY <1>2 DEF OwnVotesMatchProposal
<1> QED BY <1>1, <1>2 DEF CastVote

LEMMA OwnVotesStep ==
    ASSUME TypeOK, OwnVotesMatchProposal, [Next]_vars
    PROVE  OwnVotesMatchProposal'
<1>1. CASE UNCHANGED <<prevotes, precommits, proposal>>
  BY <1>1 DEF OwnVotesMatchProposal
<1>2. CASE UNCHANGED vars
  BY <1>1, <1>2 DEF vars, roundVars
<1>3. CASE TimerStep
  <2>1. CASE BlockTimerDue \/ ProposalTimedOut
    BY <2>1, RoundAgrees DEF BlockTimerDue, ProposalTimedOut
  <2>2. CASE VotingTimedOut
    <3>1. CASE Crash \/ UNCHANGED <<proposal, prevotes, precommits>>
      BY <1>1, <3>1 DEF Crash, roundVars
    <3> QED BY <2>2, <3>1, RoundAgrees DEF VotingTimedOut
  <2>3. CASE PrecommitDue
    <3>1. CASE Crash \/ UNCHANGED roundVars
      BY <1>1, <3>1 DEF Crash, roundVars
    <3>2. CASE CastVote(prevotes, [precommits EXCEPT ![Self] = proposal], Fired("precommit"))
      <4>1. Self # Null =>
              {prevotes[Self], [precommits EXCEPT ![Self] = proposal][Self]}
                \subseteq {Null, proposal}
        BY AddressAssumption DEF TypeOK, OwnVotesMatchProposal
      <4> QED BY <3>2, <4>1, CastAgrees
    <3> QED BY <2>3, <3>1, <3>2 DEF PrecommitDue
  <2>4. CASE Tick \/ CheckDue("check") \/ CheckDue("orphanCheck")
    BY <1>1, <2>4 DEF Tick, CheckDue, Crash, roundVars
  <2> QED BY <1>3, <2>1, <2>2, <2>3, <2>4 DEF TimerStep
<1>4. CASE NodeStep
  <2>1. CASE Restart
    BY <2>1, AddressAssumption DEF Restart, NoVotes, OwnVotesMatchProposal
  <2> QED BY <1>1, <1>4, <2>1 DEF NodeStep, Start, Stop, Exit, AddBlockDone, Crash, roundVars
<1>5. CASE ReceiveBlock
  <2>1. CASE \E b : StartVotingPhase(b)
    BY <2>1, AddressAssumption
    DEF StartVotingPhase, ClearPrecommits, NoVotes, OwnVotesMatchProposal
  <2> QED BY <1>5, <2>1, RoundAgrees DEF ReceiveBlock
<1>6. CASE ReceiveVote
  <2>1. PICK a \in Addr \ {Self}, b \in VotedBlocks \cup {proposal} :
          \/ CastVote([prevotes EXCEPT ![a] = b], precommits, timer)
          \/ CastVote(prevotes, [precommits EXCEPT ![a] = b], timer)
    BY <1>6 DEF ReceiveVote
  <2>2. /\ [prevotes EXCEPT ![a] = b][Self] = prevotes[Self]
        /\ [precommits EXCEPT ![a] = b][Self] = precommits[Self]
    BY AddressAssumption DEF TypeOK
  <2> QED BY <2>1, <2>2, CastAgrees DEF OwnVotesMatchProposal
<1>7. CASE RegistryStep
  BY <1>1, <1>7 DEF RegistryStep, AddValidator, RemoveValidator, UpdateValidatorStake,
     TombstoneForOffense, SlashForOffense, SetStake, Crash, registryFrame, roundVars
<1>8. CASE ManagerStep
  BY <1>1, <1>8 DEF ManagerStep, CheckAndJailMissingValidators, RegisterValidator, UpdateStake,
     UnregisterValidator, ActivateValidator, DeactivateValidator, JailValidator,
     TryUnjailValidator, TombstoneValidator, ChangeValidator, managerFrame, roundVars
<1> QED BY <1>2, <1>3, <1>4, <1>5, <1>6, <1>7, <1>8 DEF Next, NetworkStep

\* The delayed precommit votes for whatever is then the proposal, and no
\* handler moves the proposal on without the votes: the node's prevote and
\* precommit are always for the current proposal or for nothing.
THEOREM OwnVotesAgree == Spec => []OwnVotesMatchProposal
<1>1. Init => OwnVotesMatchProposal
  BY AddressAssumption DEF Init, NoVotes, OwnVotesMatchProposal
<1>2. TypeOK /\ OwnVotesMatchProposal /\ [Next]_vars => OwnVotesMatchProposal'
  BY OwnVotesStep
<1> QED BY <1>1, <1>2, TypeCorrectness, PTL DEF Spec

-----------------------------------------------------------------------------
(* The count of active validators, in an engine that keeps its own map *)

Active == ActiveOf(val, known)

\* Whoever stays active, the count is not too low if it was not.
LEMMA CountEnough ==
    ASSUME TypeOK, QuorumNotUndercounted,
           \/ Active' \subseteq Active /\ activeValidators' = activeValidators
           \/ \E a : Active' \subseteq Active \cup {a} /\ activeValidators' = activeValidators + 1
           \/ \E a \in Active : Active' \subseteq Active \ {a} /\ activeValidators' = activeValidators - 1
    PROVE  QuorumNotUndercounted'
<1>1. IsFiniteSet(Active) /\ Cardinality(Active) \in Nat
  <2>1. Active \subseteq Addr
    BY DEF TypeOK, Active, ActiveOf
  <2> QED BY <2>1, AddressAssumption, FS_Subset, FS_CardinalityType
<1>2. activeValidators \in Int /\ activeValidators >= Cardinality(Active)
  BY DEF TypeOK, QuorumNotUndercounted, Active
<1>3. SUFFICES activeValidators' >= Cardinality(Active')
  BY DEF QuorumNotUndercounted, Active
<1>4. CASE Active' \subseteq Active /\ activeValidators' = activeValidators
  <2>1. IsFiniteSet(Active') /\ Cardinality(Active') <= Cardinality(Active)
    BY <1>1, <1>4, FS_Subset
  <2> QED BY <1>1, <1>2, <1>4, <2>1, FS_CardinalityType
<1>5. ASSUME NEW a, Active' \subseteq Active \cup {a}, activeValidators' = activeValidators + 1
      PROVE  activeValidators' >= Cardinality(Active')
  <2>1. /\ IsFiniteSet(Active \cup {a})
        /\ Cardinality(Active \cup {a}) <= Cardinality(Active) + 1
    BY <1>1, FS_AddElement
  <2>2. IsFiniteSet(Active') /\ Cardinality(Active') <= Cardinality(Active \cup {a})
    BY <1>5, <2>1, FS_Subset
  <2> QED BY <1>1, <1>2, <1>5, <2>1, <2>2, FS_CardinalityType
<1>6. ASSUME NEW a \in Active, Active' \subseteq Active \ {a},
             activeValidators' = activeValidators - 1
      PROVE  activeValidators' >= Cardinality(Active')
  <2>1. IsFiniteSet(Active \ {a}) /\ Cardinality(Active \ {a}) = Cardinality(Active) - 1
    BY <1>1, FS_RemoveElement
  <2>2. IsFiniteSet(Active') /\ Cardinality(Active') <= Cardinality(Active \ {a})
    BY <1>6, <2>1, FS_Subset
  <2> QED BY <1>1, <1>2, <1>6, <2>1, <2>2, FS_CardinalityType
<1> QED BY <1>4, <1>5, <1>6

\* Jailing makes nobody active.
LEMMA JailingActivatesNobody ==
    ASSUME TypeOK
    PROVE  /\ \A a \in known : IsActive(CheckAndJailValidators(val)[a]) => IsActive(val[a])
           /\ \A p : \A a \in known : IsActive(Penalize(p)[a]) => IsActive(val[a])
<1>1. \A a \in Addr : val[a] \in ValidatorRecord
  BY DEF TypeOK
<1>2. \A a \in known : IsActive(CheckAndJailValidators(val)[a]) => IsActive(val[a])
  BY <1>1 DEF TypeOK, CheckAndJailValidators, CheckAndJailIfNeeded, Jail, IsActive, ValidatorRecord
<1>3. ASSUME NEW v \in ValidatorRecord, IsActive(CheckAndJailIfNeeded(MissBlock(v)))
      PROVE  IsActive(v)
  BY <1>3 DEF CheckAndJailIfNeeded, MissBlock, Jail, IsActive, ValidatorRecord
<1>4. ASSUME NEW p, NEW a \in known, IsActive(Penalize(p)[a])
      PROVE  IsActive(val[a])
  BY <1>1, <1>3, <1>4 DEF Penalize, TypeOK
<1> QED BY <1>2, <1>4

\* A round leaves the validators as its caller changed them, or as they were.
LEMMA RoundCounts ==
    ASSUME NEW r, NEW vs, NEW t, NEW h, RunConsensusRound(r, vs, t, h),
           \A a \in known : IsActive(vs[a]) => IsActive(val[a])
    PROVE  Active' \subseteq Active /\ activeValidators' = activeValidators
<1>1. UNCHANGED memberVars /\ (val' = vs \/ val' = val)
  BY DEF RunConsensusRound, RoundRefused, BeginRound
<1> QED BY <1>1 DEF memberVars, Active, ActiveOf

LEMMA AcceptCounts ==
    ASSUME TypeOK, NEW b, NEW t, NEW h, AcceptBlock(b, t, h)
    PROVE  Active' \subseteq Active /\ activeValidators' = activeValidators
BY JailingActivatesNobody DEF AcceptBlock, memberVars, Active, ActiveOf

LEMMA CastCounts ==
    ASSUME TypeOK, NEW pv, NEW pc, NEW t, CastVote(pv, pc, t)
    PROVE  Active' \subseteq Active /\ activeValidators' = activeValidators
<1>1. CASE UNCHANGED <<memberVars, val>>
  BY <1>1 DEF memberVars, Active, ActiveOf
<1> QED BY <1>1, AcceptCounts DEF CastVote, Crash

\* A new stake activates an inactive validator or stops an active one, and
\* counts it; one that is slashed is jailed besides and stays counted.
LEMMA StakeCounts ==
    ASSUME TypeOK, QuorumNotUndercounted, NEW a \in known, NEW s \in Nat,
           NEW slashed \in BOOLEAN, SetStake(a, s, slashed)
    PROVE  QuorumNotUndercounted'
<1> DEFINE w == IF s >= MinimumStake THEN Activate(val[a]) ELSE Deactivate(val[a])
           v == [w EXCEPT !.stake = s]
           x == IF slashed THEN Jail(v) ELSE v
<1>1. val \in [Addr -> ValidatorRecord] /\ a \in Addr /\ val[a] \in ValidatorRecord
  BY DEF TypeOK
<1>2. w \in ValidatorRecord /\ v \in ValidatorRecord
  BY <1>1, ValidatorMethods
<1>3. v.state = w.state
  BY <1>2 DEF ValidatorRecord
<1>4. IsActive(x) => w.state = "active"
  <2>1. slashed => x.state = "jailed"
    <3> HIDE DEF v
    <3> QED BY <1>2 DEF Jail, ValidatorRecord
  <2> QED BY <1>3, <2>1 DEF IsActive
<1>5. known' = known /\ val' = [val EXCEPT ![a] = x]
  BY DEF SetStake
<1>6. w.state = "active" =>
        s >= MinimumStake /\ (val[a].state = "active" \/ val[a].state = "inactive")
  BY <1>1 DEF Activate, Deactivate, ValidatorRecord
<1> HIDE DEF w, v, x
<1>7. /\ val'[a] = x
      /\ \A b \in known \ {a} : val'[b] = val[b]
  BY <1>1, <1>5
<1>8. Active' \subseteq Active \cup {a} /\ (IsActive(x) \/ Active' \subseteq Active \ {a})
  BY <1>5, <1>7 DEF Active, ActiveOf
<1>9. CASE s >= MinimumStake /\ val[a].state = "inactive"
  <2>1. activeValidators' = activeValidators + 1
    BY <1>9 DEF SetStake
  <2> QED BY <1>8, <2>1, CountEnough
<1>10. CASE ~(s >= MinimumStake) /\ IsActive(val[a])
  <2>1. activeValidators' = activeValidators - 1
    BY <1>10 DEF SetStake
  <2>2. a \in Active /\ Active' \subseteq Active \ {a}
    BY <1>4, <1>6, <1>8, <1>10 DEF Active, ActiveOf
  <2> QED BY <2>1, <2>2, CountEnough
<1>11. CASE /\ ~(s >= MinimumStake /\ val[a].state = "inactive")
            /\ ~(~(s >= MinimumStake) /\ IsActive(val[a]))
  <2>1. activeValidators' = activeValidators
    BY <1>11 DEF SetStake
  <2>2. IsActive(x) => a \in Active
    BY <1>4, <1>6, <1>11 DEF Active, ActiveOf, IsActive
  <2>3. Active' \subseteq Active
    BY <1>8, <2>2
  <2> QED BY <2>1, <2>3, CountEnough
<1> QED BY <1>9, <1>10, <1>11

LEMMA RegistryCounts ==
    ASSUME TypeOK, QuorumNotUndercounted, ~ManagerAttached, RegistryStep
    PROVE  QuorumNotUndercounted'
<1>1. PICK a \in Addr :
        \/ \E v \in {NewValidator(s) : s \in StakeValues} \cup {val[a]}, b \in BOOLEAN :
                AddValidator(a, v, b)
        \/ RemoveValidator(a)
        \/ \E s \in StakeValues : UpdateValidatorStake(a, s)
        \/ TombstoneForOffense(a)
        \/ SlashForOffense(a)
  BY DEF RegistryStep
<1>2. val \in [Addr -> ValidatorRecord] /\ val[a] \in ValidatorRecord
      /\ activeValidators \in Int /\ known \subseteq Addr
  BY DEF TypeOK
<1>3. ASSUME NEW v, NEW b, AddValidator(a, v, b)
      PROVE  QuorumNotUndercounted'
  <2>1. activeValidators' = activeValidators + 1
    BY <1>3 DEF AddValidator
  <2>2. Active' \subseteq Active \cup {a}
    BY <1>2, <1>3 DEF AddValidator, Active, ActiveOf
  <2> QED BY <2>1, <2>2, CountEnough
<1>4. CASE RemoveValidator(a)
  <2>1. Active' = Active \ {a} /\ (a \in Active <=> IsActive(val[a]))
    BY <1>4 DEF RemoveValidator, Active, ActiveOf
  <2>2. activeValidators' = activeValidators - IF IsActive(val[a]) THEN 1 ELSE 0
    BY <1>4 DEF RemoveValidator, UncountRemoved
  <2>3. CASE IsActive(val[a])
    BY <2>1, <2>2, <2>3, CountEnough
  <2>4. CASE ~IsActive(val[a])
    BY <1>2, <2>1, <2>2, <2>4, CountEnough
  <2> QED BY <2>3, <2>4
<1>5. ASSUME NEW s \in StakeValues, UpdateValidatorStake(a, s)
      PROVE  QuorumNotUndercounted'
  BY <1>5, StakeCounts, StakeAssumption DEF UpdateValidatorStake
<1>6. CASE TombstoneForOffense(a)
  <2>1. val' = [val EXCEPT ![a] = Tombstone(val[a])] /\ UNCHANGED <<known, activeValidators>>
    BY <1>6 DEF TombstoneForOffense
  <2>2. ~IsActive(Tombstone(val[a]))
    BY <1>2 DEF Tombstone, IsActive, ValidatorRecord
  <2>3. Active' \subseteq Active
    BY <1>2, <2>1, <2>2 DEF Active, ActiveOf
  <2> QED BY <2>1, <2>3, CountEnough
<1>7. CASE SlashForOffense(a)
  <2>1. val[a].stake \in Nat /\ val[a].stake - SlashAmount(val[a].stake) \in Nat
    BY <1>2, SlashedStake DEF ValidatorRecord
  <2> QED BY <1>7, <2>1, StakeCounts DEF SlashForOffense
<1> QED BY <1>1, <1>3, <1>4, <1>5, <1>6, <1>7

LEMMA CountStep ==
    ASSUME TypeOK, QuorumNotUndercounted, ~ManagerAttached, [Next]_vars
    PROVE  QuorumNotUndercounted'
<1>1. CASE Active' \subseteq Active /\ activeValidators' = activeValidators
  BY <1>1, CountEnough
<1>2. CASE UNCHANGED <<known, val, activeValidators>>
  BY <1>1, <1>2 DEF Active, ActiveOf
<1>3. CASE UNCHANGED vars
  BY <1>2, <1>3 DEF vars, memberVars
<1>4. CASE TimerStep
  <2>1. CASE BlockTimerDue \/ ProposalTimedOut
    BY <1>1, <2>1, RoundCounts, JailingActivatesNobody DEF BlockTimerDue, ProposalTimedOut
  <2>2. CASE VotingTimedOut
    <3>1. CASE Crash
      BY <1>2, <3>1 DEF Crash, memberVars
    <3> QED BY <1>1, <2>2, <3>1, RoundCounts, AcceptCounts DEF VotingTimedOut
  <2>3. CASE PrecommitDue
    BY <1>1, <1>2, <2>3, CastCounts DEF PrecommitDue, Crash, memberVars
  <2>4. CASE Tick
    BY <1>2, <2>4 DEF Tick, memberVars
  <2>5. CASE CheckDue("check") \/ CheckDue("orphanCheck")
    BY <1>2, <2>5 DEF CheckDue, LoadValidators, Crash, memberVars
  <2> QED BY <1>4, <2>1, <2>2, <2>3, <2>4, <2>5 DEF TimerStep
<1>5. CASE NodeStep
  <2>1. CASE Restart
    <3>1. Active' = {} /\ activeValidators' = 0
      BY <2>1 DEF Restart, Active, ActiveOf
    <3> QED BY <3>1, FS_EmptySet DEF QuorumNotUndercounted, Active
  <2>2. CASE Start
    BY <1>2, <2>2 DEF Start, LoadValidators, Crash, memberVars
  <2>3. CASE Stop \/ Exit \/ AddBlockDone
    BY <1>2, <2>3 DEF Stop, Exit, AddBlockDone, Crash, memberVars
  <2> QED BY <1>5, <2>1, <2>2, <2>3 DEF NodeStep
<1>6. CASE ReceiveBlock
  <2>1. CASE \E b : StartVotingPhase(b)
    BY <1>1, <1>2, <2>1, AcceptCounts DEF StartVotingPhase, memberVars
  <2> QED BY <1>1, <1>6, <2>1, RoundCounts, JailingActivatesNobody DEF ReceiveBlock
<1>7. CASE ReceiveVote
  BY <1>1, <1>7, CastCounts DEF ReceiveVote
<1>8. CASE RegistryStep
  BY <1>8, RegistryCounts
<1>9. CASE ManagerStep
  BY <1>9 DEF ManagerStep, CheckAndJailMissingValidators, RegisterValidator, UpdateStake,
     UnregisterValidator, ActivateValidator, DeactivateValidator, JailValidator,
     TryUnjailValidator, TombstoneValidator, ChangeValidator, ManagerCall
<1> QED BY <1>3, <1>4, <1>5, <1>6, <1>7, <1>8, <1>9 DEF Next, NetworkStep

\* An engine that keeps its own map never counts fewer active validators than
\* there are, although jailing and tombstoning leave the count alone: the
\* threshold computed from it is never too small.  (With a manager it may be:
\* the manager activates validators that the engine does not count.)
THEOREM QuorumIsEnough ==
    ASSUME ~ManagerAttached
    PROVE  Spec => []QuorumNotUndercounted
<1>1. Init => QuorumNotUndercounted
  <2>1. Init => ActiveOf(val, known) = {} /\ activeValidators = 0
    BY DEF Init, ActiveOf
  <2> QED BY <2>1, FS_EmptySet DEF QuorumNotUndercounted
<1>2. TypeOK /\ QuorumNotUndercounted /\ [Next]_vars => QuorumNotUndercounted'
  BY CountStep
<1> QED BY <1>1, <1>2, TypeCorrectness, PTL DEF Spec

-----------------------------------------------------------------------------
(* A node that is its only validator, with delays that are far apart       *)

\* The node is the only address, nobody uses the engine's own registry, and
\* writes are prompt.  The delays are apart as those of the options are:
\* 500 ms, then 15 s, 30 s and 5 min.
Alone ==
    /\ Addr = {Self} /\ PromptWrites
    /\ "registry" \notin Env /\ "slash" \notin Env
    /\ PrecommitDelay < VotingTimeout /\ PrecommitDelay < ProposalTimeout
    /\ PrecommitDelay + ProposalTimeout < BlockTime

RoundKind == {"block", "proposal", "voting", "precommit"}

\* At most one timer of a kind is pending, and its handle is held.
Single(t, h) ==
    /\ \A k \in RoundKind : Len(t[k]) <= 1
    /\ \A k \in {"proposal", "voting"} : t[k] # <<>> => h[k]

Pending(t, k) == t[k] # <<>>

\* If a timer of the kind is pending, it has more than n ticks left.
After(t, k, n) == t[k] # <<>> => n < Head(t[k])

\* A precommit fires before any other timer of its round and before the next
\* round, and no block timer fires while a proposal is waited for.
Races(t) ==
    /\ Pending(t, "voting") => Pending(t, "precommit")
    /\ Pending(t, "proposal") => Head(t["proposal"]) <= ProposalTimeout
    /\ Pending(t, "precommit") =>
        \A k \in {"voting", "proposal", "block"} : After(t, k, Head(t["precommit"]))
    /\ Pending(t, "proposal") /\ ~Pending(t, "precommit") =>
        After(t, "block", Head(t["proposal"]) + PrecommitDelay)
    /\ Pending(t, "precommit") => Head(t["precommit"]) <= PrecommitDelay

\* The pending precommit is for a proposal of the next height.
Fresh ==
    Pending(timer, "precommit") =>
        proposal = OwnBlock /\ prevotes[Self] # Null /\ adding = <<>>

\* While a block is written no round can begin.
Writing ==
    adding # <<>> =>
        /\ Len(adding) = 1 /\ Head(adding).height = height
        /\ ~Pending(timer, "precommit")
        /\ After(timer, "block", 0) /\ After(timer, "proposal", 0)

AloneInv ==
    Single(timer, held) /\ Races(timer) /\ Fresh /\ Writing /\ activeValidators \in {0, 1}

\* What arming, clearing and firing leave of timers of which one is pending.
LEMMA ArmedAlone ==
    ASSUME NEW t \in TimerType, NEW k \in Kind, NEW n \in Nat, t[k] = <<>>
    PROVE  /\ Arm(t, k, n)[k] = <<n>>
           /\ \A j \in Kind : j # k => Arm(t, k, n)[j] = t[j]
<1>1. Append(<<>>, n) = <<n>>
  OBVIOUS
<1> QED BY <1>1 DEF Arm, TimerType

LEMMA ClearedAlone ==
    ASSUME NEW t \in TimerType, NEW h, NEW k \in Kind, Len(t[k]) <= 1, t[k] # <<>> => h[k]
    PROVE  /\ ClearHeld(t, h, k)[k] = <<>>
           /\ \A j \in Kind : j # k => ClearHeld(t, h, k)[j] = t[j]
<1>1. CASE t[k] = <<>>
  BY <1>1 DEF ClearHeld
<1>2. CASE t[k] # <<>>
  <2>1. t[k] \in Seq(Nat) /\ Len(t[k]) \in Nat /\ Len(t[k]) # 0
    BY <1>2, EmptySeq, LenProperties DEF TimerType
  <2>2. Len(t[k]) - 1 = 0
    <3> DEFINE n == Len(t[k])
    <3>1. n \in Nat /\ n # 0 /\ n <= 1
      BY <2>1
    <3> HIDE DEF n
    <3>2. n - 1 = 0
      BY <3>1
    <3> QED BY <3>2 DEF n
  <2>3. SubSeq(t[k], 1, 0) = <<>>
    BY SubSeqEmpty
  <2>4. ClearHeld(t, h, k) = [t EXCEPT ![k] = <<>>]
    BY <1>2, <2>2, <2>3 DEF ClearHeld
  <2> QED BY <2>4 DEF TimerType
<1> QED BY <1>1, <1>2

LEMMA FiredAlone ==
    ASSUME timer \in TimerType, NEW k \in Kind, Len(timer[k]) <= 1, Due(k)
    PROVE  /\ Fired(k)[k] = <<>>
           /\ \A j \in Kind : j # k => Fired(k)[j] = timer[j]
<1>1. timer[k] \in Seq(Nat) /\ timer[k] # <<>>
  BY DEF Due, TimerType
<1>2. Len(timer[k]) \in Nat /\ Len(timer[k]) # 0
  BY <1>1, EmptySeq, LenProperties
<1>3. Tail(timer[k]) = SubSeq(timer[k], 2, Len(timer[k]))
  BY <1>1, TailIsSubSeq
<1>4. Tail(timer[k]) = <<>>
  BY <1>2, <1>3, SubSeqEmpty
<1> QED BY <1>4 DEF Fired, TimerType

LEMMA ScheduledAlone ==
    ASSUME NEW t \in TimerType
    PROVE  /\ ScheduleBlock(t)["block"] = <<BlockTime>>
           /\ \A j \in Kind : j # "block" => ScheduleBlock(t)[j] = t[j]
BY DEF ScheduleBlock, TimerType, Kind

\* A pending timer has a number of ticks left.
LEMMA LeftAlone ==
    ASSUME NEW t \in TimerType, NEW k \in Kind, t[k] # <<>>
    PROVE  Head(t[k]) \in Nat
BY HeadTailProperties DEF TimerType

\* A round begins when no other is under way.
LEMMA AloneBegins ==
    ASSUME Alone, TypeOK, AloneInv, adding = <<>>,
           NEW r, NEW vs, NEW t \in TimerType, NEW h \in HeldType,
           Single(t, h), ~Pending(t, "precommit"), ~Pending(t, "voting"),
           ~Pending(t, "proposal"), After(t, "block", PrecommitDelay),
           UNCHANGED <<height, adding, activeValidators>>,
           BeginRound(r, vs, t, h)
    PROVE  AloneInv'
<1>1. Self # Null /\ Self \in Addr
  BY AddressAssumption DEF Alone
<1>2. {PrecommitDelay, VotingTimeout, ProposalTimeout, BlockTime} \subseteq Nat \ {0}
  BY TimeAssumption
<1>3. PICK p \in SelectProposer(vs) : BeginRound(r, vs, t, h)!(p)
  BY DEF BeginRound
<1>4. CASE p = Self
  <2> DEFINE t1 == Arm(t, "precommit", PrecommitDelay)
             t2 == Arm(t1, "voting", VotingTimeout)
             t3 == Arm(t2, "proposal", ProposalTimeout)
  <2>1. timer' = t3 /\ held' = [h EXCEPT !["voting"] = TRUE, !["proposal"] = TRUE]
        /\ proposal' = OwnBlock /\ prevotes' = [NoVotes EXCEPT ![Self] = OwnBlock]
    BY <1>1, <1>3, <1>4
  <2>2. t1 \in TimerType /\ t1["precommit"] = <<PrecommitDelay>> /\ t1["voting"] = <<>>
        /\ t1["proposal"] = <<>> /\ t1["block"] = t["block"]
    BY <1>2, ArmType, ArmedAlone DEF Kind, Pending
  <2> HIDE DEF t1
  <2>3. t2 \in TimerType /\ t2["precommit"] = <<PrecommitDelay>>
        /\ t2["voting"] = <<VotingTimeout>> /\ t2["proposal"] = <<>>
        /\ t2["block"] = t["block"]
    <3>1. t2 \in TimerType
      BY <1>2, <2>2, ArmType DEF Kind
    <3>2. t2["voting"] = <<VotingTimeout>> /\ \A j \in Kind : j # "voting" => t2[j] = t1[j]
      BY <1>2, <2>2, ArmedAlone DEF Kind
    <3> HIDE DEF t2
    <3> QED BY <2>2, <3>1, <3>2 DEF Kind
  <2> HIDE DEF t2
  <2>4. t3["precommit"] = <<PrecommitDelay>> /\ t3["voting"] = <<VotingTimeout>>
        /\ t3["proposal"] = <<ProposalTimeout>> /\ t3["block"] = t["block"]
    <3>1. t3["proposal"] = <<ProposalTimeout>>
          /\ \A j \in Kind : j # "proposal" => t3[j] = t2[j]
      BY <1>2, <2>3, ArmedAlone DEF Kind
    <3> HIDE DEF t3
    <3> QED BY <2>3, <3>1 DEF Kind
  <2> HIDE DEF t3
  <2>5. held'["voting"] /\ held'["proposal"]
    BY <2>1 DEF HeldType
  <2>6. Single(timer', held')
    <3>1. Len(t3["precommit"]) = 1 /\ Len(t3["voting"]) = 1 /\ Len(t3["proposal"]) = 1
      BY <2>4
    <3>2. Len(t3["block"]) <= 1
      BY <2>4 DEF Single, RoundKind
    <3>3. \A k \in RoundKind : Len(t3[k]) = 1 \/ Len(t3[k]) <= 1
      BY <3>1, <3>2, Zenon DEF RoundKind
    <3>4. ASSUME NEW k \in RoundKind PROVE Len(t3[k]) <= 1
      <4>1. CASE Len(t3[k]) = 1
        <5> DEFINE n == Len(t3[k])
        <5> HIDE DEF n
        <5> QED BY <4>1 DEF n
      <4> QED BY <3>3, <4>1
    <3> QED BY <2>1, <2>5, <3>4 DEF Single
  <2>7. Races(timer')
    <3>1. Head(t3["precommit"]) = PrecommitDelay /\ Head(t3["proposal"]) = ProposalTimeout
          /\ Head(t3["voting"]) = VotingTimeout
      BY <2>4
    <3>2. After(t3, "block", PrecommitDelay)
      BY <2>4 DEF After
    <3>3. t3["precommit"] # <<>>
      BY <2>4
    <3> HIDE DEF t3
    <3> QED BY <1>2, <2>1, <3>1, <3>2, <3>3 DEF Races, Pending, After, Alone
  <2>8. OwnBlock' = OwnBlock /\ OwnBlock # Null
    BY <1>1, OwnBlockType, BlockAssumption DEF OwnBlock, TypeOK
  <2> QED
    BY <1>1, <2>1, <2>6, <2>7, <2>8, Zenon DEF AloneInv, Fresh, Writing, NoVotes
<1>5. CASE p # Self
  <2>1. timer' = t /\ held' = h
    BY <1>3, <1>5
  <2>2. Races(t)
    BY DEF Races, Pending
  <2> QED BY <2>1, <2>2 DEF AloneInv, Fresh, Writing
<1> QED BY <1>4, <1>5

\* runConsensusRound, called with timers and handles that t and h stand for.
LEMMA AloneRounds ==
    ASSUME Alone, TypeOK, AloneInv, adding = <<>>,
           NEW r, NEW vs, NEW t \in TimerType, NEW h \in HeldType,
           Single(t, h), ~Pending(t, "precommit"), ~Pending(t, "voting"),
           ~Pending(t, "proposal"), After(t, "block", PrecommitDelay),
           RunConsensusRound(r, vs, t, h)
    PROVE  AloneInv'
<1>1. UNCHANGED <<height, adding, activeValidators>>
  BY DEF RunConsensusRound, chainVars, storeVars, memberVars
<1>2. CASE RoundRefused(r, vs, t, h)
  <2>1. timer' = t /\ held' = h
    BY <1>2 DEF RoundRefused
  <2>2. Races(t)
    BY DEF Races, Pending
  <2> QED BY <1>1, <2>1, <2>2 DEF AloneInv, Fresh, Writing
<1>3. CASE UNCHANGED <<roundVars, timerVars, val>>
  BY <1>1, <1>3 DEF AloneInv, Fresh, Writing, OwnBlock, roundVars, timerVars
<1>4. CASE BeginRound(r, vs, t, h)
  BY <1>1, <1>4, AloneBegins
<1> QED BY <1>2, <1>3, <1>4 DEF RunConsensusRound

\* With at most one active validator one vote is enough, and it is the own.
LEMMA OneVote ==
    ASSUME Alone, activeValidators \in {0, 1}
    PROVE  /\ Threshold <= 1
           /\ \A votes : votes[Self] # Null => Count(votes) = 1
<1>1. Threshold <= 1
  <2>1. VotingThreshold \in 1..100
    BY ThresholdAssumption
  <2>2. CASE activeValidators = 0
    <3>1. activeValidators * VotingThreshold = 0
      BY <2>1, <2>2
    <3> QED BY <3>1 DEF Threshold
  <2>3. CASE activeValidators = 1
    <3>1. activeValidators * VotingThreshold = VotingThreshold
      BY <2>1, <2>3
    <3> QED BY <2>1, <3>1 DEF Threshold
  <2> QED BY <2>2, <2>3
<1>2. ASSUME NEW votes, votes[Self] # Null
      PROVE  Count(votes) = 1
  <2>1. {a \in Addr : votes[a] # Null} = {Self}
    BY <1>2 DEF Alone
  <2> QED BY <2>1, FS_Singleton DEF Count
<1> QED BY <1>1, <1>2

\* A block timer that is set anew runs longer than all that is pending.
LEMMA AloneScheduled ==
    ASSUME Alone, TypeOK, AloneInv, NEW t \in TimerType,
           t["proposal"] = timer["proposal"], t["precommit"] = timer["precommit"],
           t["voting"] = timer["voting"]
    PROVE  /\ Single(ScheduleBlock(t), held) /\ Races(ScheduleBlock(t))
           /\ After(ScheduleBlock(t), "block", 0)
           /\ ScheduleBlock(t)["precommit"] = timer["precommit"]
           /\ ScheduleBlock(t)["proposal"] = timer["proposal"]
<1> DEFINE s == ScheduleBlock(t)
<1>1. s["block"] = <<BlockTime>> /\ s["proposal"] = timer["proposal"]
      /\ s["precommit"] = timer["precommit"] /\ s["voting"] = timer["voting"]
  BY ScheduledAlone DEF Kind
<1>2. Head(s["block"]) = BlockTime /\ s["block"] # <<>> /\ Len(s["block"]) = 1
  BY <1>1
<1> HIDE DEF s
<1>3. {PrecommitDelay, VotingTimeout, ProposalTimeout, BlockTime} \subseteq Nat \ {0}
  BY TimeAssumption
<1>4. timer \in TimerType
  BY DEF TypeOK, TimerType
<1>5. \A k \in RoundKind : timer[k] # <<>> => Head(timer[k]) \in Nat
  BY <1>4, LeftAlone DEF RoundKind, Kind
<1>6. Single(s, held)
  <2>1. \A k \in RoundKind : Len(s[k]) <= 1
    <3> SUFFICES ASSUME NEW k \in RoundKind PROVE Len(s[k]) <= 1
      OBVIOUS
    <3>1. CASE k = "block"
      <4> DEFINE n == Len(s[k])
      <4>1. n = 1
        BY <1>2, <3>1
      <4> HIDE DEF n
      <4>2. n <= 1
        BY <4>1
      <4> QED BY <4>2 DEF n
    <3>2. CASE k # "block"
      <4>1. s[k] = timer[k]
        BY <1>1, <3>2, Zenon DEF RoundKind
      <4> QED BY <4>1 DEF AloneInv, Single
    <3> QED BY <3>1, <3>2
  <2> QED BY <1>1, <2>1 DEF AloneInv, Single
<1>7. Races(s)
  <2>1. Pending(s, "voting") => Pending(s, "precommit")
    BY <1>1, Zenon DEF AloneInv, Races, Pending
  <2>2. Pending(s, "proposal") => Head(s["proposal"]) <= ProposalTimeout
    BY <1>1, Zenon DEF AloneInv, Races, Pending
  <2>3. Pending(s, "precommit") => Head(s["precommit"]) <= PrecommitDelay
    BY <1>1, Zenon DEF AloneInv, Races, Pending
  <2>4. Pending(s, "precommit") =>
          \A k \in {"voting", "proposal"} : After(s, k, Head(s["precommit"]))
    BY <1>1, Zenon DEF AloneInv, Races, Pending, After
  <2>5. Pending(s, "precommit") => After(s, "block", Head(s["precommit"]))
    <3> SUFFICES ASSUME Pending(s, "precommit") PROVE Head(s["precommit"]) < BlockTime
      BY <1>2 DEF After
    <3>1. Head(s["precommit"]) \in Nat
      BY <1>1, <1>5 DEF Pending, RoundKind
    <3> QED BY <1>3, <2>3, <3>1 DEF Alone
  <2>6. Pending(s, "proposal") => After(s, "block", Head(s["proposal"]) + PrecommitDelay)
    <3> SUFFICES ASSUME Pending(s, "proposal")
                 PROVE  Head(s["proposal"]) + PrecommitDelay < BlockTime
      BY <1>2 DEF After
    <3>1. Head(s["proposal"]) \in Nat
      BY <1>1, <1>5 DEF Pending, RoundKind
    <3> QED BY <1>3, <2>2, <3>1 DEF Alone
  <2> QED BY <2>1, <2>2, <2>3, <2>4, <2>5, <2>6, Zenon DEF Races
<1>8. After(s, "block", 0)
  BY <1>2, <1>3 DEF After
<1> QED BY <1>1, <1>6, <1>7, <1>8 DEF s

\* The only acceptance: the precommit of a round, for the own proposal.
LEMMA AlonePrecommits ==
    ASSUME Alone, TypeOK, AloneInv, PrecommitDue
    PROVE  /\ AloneInv' /\ adding = <<>> /\ height' = height + 1
           /\ adding' = IF height = storeHeight THEN <<OwnBlock>> ELSE <<>>
           /\ storeHeight' = storeHeight
<1>1. Self # Null /\ Self \in Addr
  BY AddressAssumption DEF Alone
<1>2. timer \in TimerType /\ held \in HeldType
  BY DEF TypeOK, TimerType, HeldType
<1>3. Pending(timer, "precommit") /\ Head(timer["precommit"]) = 0
  BY DEF PrecommitDue, Due, Pending
<1>4. /\ proposal = OwnBlock /\ prevotes[Self] # Null /\ adding = <<>>
      /\ OwnBlock # Null /\ OwnBlock.height = height + 1 /\ height \in Nat
      /\ precommits \in VotesType
  BY <1>1, <1>3, OwnBlockType, BlockAssumption
  DEF AloneInv, Fresh, OwnBlock, TypeOK, VotesType
<1> DEFINE f == Fired("precommit")
           c == ClearHeld(f, held, "voting")
           pc == [precommits EXCEPT ![Self] = proposal]
<1>5. Threshold <= 1 /\ Count(prevotes) = 1 /\ Count(pc) = 1
  <2>1. pc[Self] # Null
    BY <1>1, <1>4 DEF VotesType
  <2> QED BY <1>4, <2>1, OneVote DEF AloneInv
<1>6. Threshold \in Int
  BY ThresholdAssumption DEF Threshold, TypeOK
<1>7. CastVote(prevotes, pc, f)
  <2>1. ~(Count(prevotes) < Threshold)
    BY <1>5, <1>6
  <2> HIDE DEF f, pc
  <2> QED BY <1>4, <2>1, Zenon DEF PrecommitDue, f, pc
<1>8. /\ AcceptBlock(proposal, c, [held EXCEPT !["voting"] = FALSE])
      /\ UNCHANGED proposal /\ prevotes' = prevotes
  BY <1>4, <1>5, <1>6, <1>7 DEF CastVote
<1>9. f \in TimerType /\ f["precommit"] = <<>>
      /\ \A j \in Kind : j # "precommit" => f[j] = timer[j]
  BY <1>2, FiredType, FiredAlone DEF PrecommitDue, AloneInv, Single, RoundKind, Kind
<1> HIDE DEF f
<1>10. c \in TimerType /\ c["voting"] = <<>>
       /\ \A j \in Kind : j # "voting" => c[j] = f[j]
  <2>1. f["voting"] = timer["voting"]
    BY <1>9 DEF Kind
  <2>2. Len(f["voting"]) <= 1 /\ (f["voting"] # <<>> => held["voting"])
    BY <2>1 DEF AloneInv, Single, RoundKind
  <2> QED BY <1>2, <1>9, <2>2, ClearHeldType, ClearedAlone DEF Kind
<1> HIDE DEF c
<1>11. timer' = ScheduleBlock(c) /\ held' = [held EXCEPT !["voting"] = FALSE]
       /\ height' = height + 1 /\ storeHeight' = storeHeight
       /\ activeValidators' = activeValidators
  BY <1>4, <1>8 DEF AcceptBlock, memberVars
<1>12. adding' = IF height = storeHeight THEN <<OwnBlock>> ELSE <<>>
  <2>1. StoreTakes(OwnBlock) <=> height = storeHeight
    BY <1>4 DEF StoreTakes, TypeOK
  <2>2. Append(<<>>, OwnBlock) = <<OwnBlock>>
    OBVIOUS
  <2> QED BY <1>4, <1>8, <2>1, <2>2 DEF AcceptBlock
<1>13. timer'["block"] = <<BlockTime>> /\ timer'["voting"] = <<>>
       /\ timer'["precommit"] = <<>> /\ timer'["proposal"] = timer["proposal"]
  <2>1. c["voting"] = <<>> /\ c["precommit"] = <<>> /\ c["proposal"] = timer["proposal"]
    BY <1>9, <1>10 DEF Kind
  <2> QED BY <1>10, <1>11, <2>1, ScheduledAlone DEF Kind
<1>14. {PrecommitDelay, VotingTimeout, ProposalTimeout, BlockTime} \subseteq Nat \ {0}
  BY TimeAssumption
<1>15. Single(timer', held')
  <2>1. Len(timer'["block"]) = 1 /\ Len(timer'["voting"]) = 0 /\ Len(timer'["precommit"]) = 0
    BY <1>13
  <2>2. Len(timer'["proposal"]) <= 1
    BY <1>13 DEF AloneInv, Single, RoundKind
  <2>3. \A k \in RoundKind : Len(timer'[k]) \in {0, 1} \/ Len(timer'[k]) <= 1
    BY <2>1, <2>2 DEF RoundKind
  <2>4. \A k \in RoundKind : Len(timer'[k]) <= 1
    <3> SUFFICES ASSUME NEW k \in RoundKind PROVE Len(timer'[k]) <= 1
      OBVIOUS
    <3> DEFINE n == Len(timer'[k])
    <3>1. n \in {0, 1} \/ n <= 1
      BY <2>3
    <3> HIDE DEF n
    <3>2. n <= 1
      BY <3>1
    <3> QED BY <3>2 DEF n
  <2>5. held'["proposal"] = held["proposal"]
    BY <1>2, <1>11 DEF HeldType
  <2>6. timer'["proposal"] # <<>> => held'["proposal"]
    BY <1>13, <2>5, Zenon DEF AloneInv, Single
  <2> QED BY <1>13, <2>4, <2>6, Zenon DEF Single
<1>16. timer'["proposal"] # <<>> =>
         /\ Head(timer'["proposal"]) \in Nat
         /\ Head(timer'["proposal"]) <= ProposalTimeout
         /\ 0 < Head(timer'["proposal"])
  <2>1. timer["proposal"] # <<>> =>
         /\ Head(timer["proposal"]) <= ProposalTimeout
         /\ 0 < Head(timer["proposal"])
    BY <1>3 DEF AloneInv, Races, Pending, After
  <2>2. timer["proposal"] # <<>> => Head(timer["proposal"]) \in Nat
    BY <1>2, LeftAlone DEF Kind
  <2> QED BY <1>13, <2>1, <2>2
<1>17. Head(timer'["block"]) = BlockTime /\ timer'["block"] # <<>>
  BY <1>13
<1>18. After(timer', "block", 0) /\ After(timer', "proposal", 0)
  BY <1>14, <1>16, <1>17 DEF After
<1>19. Races(timer')
  <2>1. timer'["proposal"] # <<>> => Head(timer'["proposal"]) + PrecommitDelay < BlockTime
    BY <1>14, <1>16 DEF Alone
  <2> QED BY <1>13, <1>16, <1>17, <2>1, Zenon DEF Races, Pending, After
<1>20. Fresh'
  BY <1>13 DEF Fresh, Pending
<1>21. Writing'
  <2>1. CASE adding' = <<>>
    BY <2>1 DEF Writing
  <2>2. CASE adding' = <<OwnBlock>>
    <3>1. Len(adding') = 1 /\ Head(adding') = OwnBlock
      BY <2>2
    <3>2. Head(adding').height = height'
      BY <1>4, <1>11, <3>1
    <3> QED BY <1>13, <1>18, <3>1, <3>2, Zenon DEF Writing, Pending
  <2> QED BY <1>12, <2>1, <2>2
<1>22. activeValidators' \in {0, 1}
  BY <1>11 DEF AloneInv
<1> QED BY <1>4, <1>11, <1>12, <1>15, <1>19, <1>20, <1>21, <1>22 DEF AloneInv

\* Block and proposal timers begin rounds only when none is under way.
LEMMA AloneBlocks ==
    ASSUME Alone, TypeOK, AloneInv, BlockTimerDue
    PROVE  AloneInv' /\ accepted' = accepted /\ adding' = adding
                     /\ UNCHANGED <<height, storeHeight>>
<1>1. timer \in TimerType /\ held \in HeldType
  BY DEF TypeOK, TimerType, HeldType
<1>2. Due("block") /\ Pending(timer, "block") /\ Head(timer["block"]) = 0
      /\ RunConsensusRound(round, val, Fired("block"), held)
  BY DEF BlockTimerDue, Due, Pending
<1>3. \A k \in RoundKind : timer[k] # <<>> => Head(timer[k]) \in Nat
  BY <1>1, LeftAlone DEF RoundKind, Kind
<1>4. ~Pending(timer, "precommit")
  <2> SUFFICES ASSUME Pending(timer, "precommit") PROVE FALSE
    OBVIOUS
  <2>1. Head(timer["precommit"]) < Head(timer["block"])
    BY <1>2 DEF AloneInv, Races, After, Pending
  <2>2. Head(timer["precommit"]) \in Nat
    BY <1>3 DEF Pending, RoundKind
  <2> QED BY <1>2, <2>1, <2>2
<1>5. ~Pending(timer, "proposal")
  <2> SUFFICES ASSUME Pending(timer, "proposal") PROVE FALSE
    OBVIOUS
  <2>1. Head(timer["proposal"]) + PrecommitDelay < Head(timer["block"])
    BY <1>2, <1>4 DEF AloneInv, Races, After, Pending
  <2>2. Head(timer["proposal"]) \in Nat
    BY <1>3 DEF Pending, RoundKind
  <2> QED BY <1>2, <2>1, <2>2, TimeAssumption
<1>6. ~Pending(timer, "voting") /\ adding = <<>>
  BY <1>2, <1>4 DEF AloneInv, Races, Writing, After, Pending
<1> DEFINE f == Fired("block")
<1>7. f \in TimerType /\ f["block"] = <<>>
      /\ \A j \in Kind : j # "block" => f[j] = timer[j]
  BY <1>1, <1>2, FiredType, FiredAlone DEF AloneInv, Single, RoundKind, Kind
<1> HIDE DEF f
<1>8. f["block"] = <<>> /\ f["proposal"] = <<>> /\ f["precommit"] = <<>> /\ f["voting"] = <<>>
  BY <1>4, <1>5, <1>6, <1>7 DEF Kind, Pending
<1>9. Single(f, held) /\ After(f, "block", PrecommitDelay)
  BY <1>8 DEF Single, RoundKind, After
<1>10. AloneInv'
  BY <1>1, <1>2, <1>6, <1>7, <1>8, <1>9, AloneRounds DEF Pending, f
<1> QED BY <1>2, <1>10 DEF RunConsensusRound, chainVars, storeVars

LEMMA AloneProposals ==
    ASSUME Alone, TypeOK, AloneInv, ProposalTimedOut
    PROVE  AloneInv' /\ accepted' = accepted /\ adding' = adding
                     /\ UNCHANGED <<height, storeHeight>>
<1>1. timer \in TimerType /\ held \in HeldType
  BY DEF TypeOK, TimerType, HeldType
<1> DEFINE f == Fired("proposal")
           h == [held EXCEPT !["proposal"] = @ /\ Len(timer["proposal"]) > 1]
<1>2. Due("proposal") /\ Pending(timer, "proposal") /\ Head(timer["proposal"]) = 0
      /\ RunConsensusRound(round, Penalize(proposer), f, h)
  BY DEF ProposalTimedOut, Due, Pending
<1>3. ~Pending(timer, "precommit")
  <2> SUFFICES ASSUME Pending(timer, "precommit") PROVE FALSE
    OBVIOUS
  <2>1. Head(timer["precommit"]) < Head(timer["proposal"])
    BY <1>2 DEF AloneInv, Races, After, Pending
  <2>2. Head(timer["precommit"]) \in Nat
    BY <1>1, LeftAlone DEF Pending, Kind
  <2> QED BY <1>2, <2>1, <2>2
<1>4. ~Pending(timer, "voting") /\ adding = <<>>
  BY <1>2, <1>3 DEF AloneInv, Races, Writing, After, Pending
<1>5. After(timer, "block", PrecommitDelay)
  <2>1. After(timer, "block", Head(timer["proposal"]) + PrecommitDelay)
    BY <1>2, <1>3 DEF AloneInv, Races
  <2>2. Head(timer["proposal"]) + PrecommitDelay = PrecommitDelay
    BY <1>2, TimeAssumption
  <2> QED BY <2>1, <2>2
<1>6. f \in TimerType /\ f["proposal"] = <<>>
      /\ \A j \in Kind : j # "proposal" => f[j] = timer[j]
  BY <1>1, <1>2, FiredType, FiredAlone DEF AloneInv, Single, RoundKind, Kind
<1>7. h \in HeldType
  <2>1. (held["proposal"] /\ Len(timer["proposal"]) > 1) \in BOOLEAN
    OBVIOUS
  <2> QED BY <1>1, <2>1, Zenon DEF HeldType
<1> HIDE DEF f, h
<1>8. f["proposal"] = <<>> /\ f["precommit"] = <<>> /\ f["voting"] = <<>>
      /\ f["block"] = timer["block"]
  BY <1>3, <1>4, <1>6 DEF Kind, Pending
<1>9. Single(f, h)
  <2>1. Len(f["proposal"]) <= 1 /\ Len(f["precommit"]) <= 1 /\ Len(f["voting"]) <= 1
    BY <1>8
  <2>2. Len(f["block"]) <= 1
    BY <1>8 DEF AloneInv, Single, RoundKind
  <2> QED BY <1>8, <2>1, <2>2, Zenon DEF Single, RoundKind
<1>10. After(f, "block", PrecommitDelay)
  BY <1>5, <1>8 DEF After
<1>11. AloneInv'
  BY <1>1, <1>2, <1>4, <1>6, <1>7, <1>8, <1>9, <1>10, AloneRounds DEF Pending
<1> QED BY <1>2, <1>11 DEF RunConsensusRound, chainVars, storeVars

\* Voting never times out: the precommit comes first and is enough.
LEMMA VotingIsQuick ==
    ASSUME TypeOK, AloneInv
    PROVE  ~VotingTimedOut
<1> SUFFICES ASSUME VotingTimedOut PROVE FALSE
  OBVIOUS
<1>1. Pending(timer, "voting") /\ Head(timer["voting"]) = 0
  BY DEF VotingTimedOut, Due, Pending
<1>2. Pending(timer, "precommit") /\ Head(timer["precommit"]) < Head(timer["voting"])
  BY <1>1 DEF AloneInv, Races, After, Pending
<1>3. Head(timer["precommit"]) \in Nat
  BY <1>2, LeftAlone DEF Pending, Kind, TypeOK, TimerType
<1> QED BY <1>1, <1>2, <1>3

\* Time passes for all pending timers alike.
LEMMA AloneTicks ==
    ASSUME Alone, TypeOK, AloneInv, Tick
    PROVE  AloneInv'
<1>1. timer \in TimerType /\ timer' = [k \in Kind |-> [i \in DOMAIN timer[k] |-> timer[k][i] - 1]]
  BY DEF TypeOK, TimerType, Tick
<1>2. adding = <<>> /\ UNCHANGED <<adding, height, held, proposal, prevotes, activeValidators>>
  BY DEF Tick, Alone, chainVars, storeVars, memberVars, roundVars
<1>3. ASSUME NEW k \in RoundKind
      PROVE  /\ Len(timer'[k]) = Len(timer[k])
             /\ timer'[k] # <<>> <=> timer[k] # <<>>
             /\ timer[k] # <<>> => /\ Head(timer[k]) \in Nat
                                   /\ Head(timer'[k]) = Head(timer[k]) - 1
  <2>1. k \in Kind /\ timer[k] \in Seq(Nat)
    BY <1>1 DEF RoundKind, Kind, TimerType
  <2>2. timer'[k] = [i \in 1..Len(timer[k]) |-> timer[k][i] - 1]
    BY <1>1, <2>1, LenProperties
  <2>3. Len(timer[k]) \in Nat /\ Len(timer'[k]) = Len(timer[k])
    BY <2>1, <2>2, LenProperties
  <2>4. timer'[k] \in Seq(Int)
    <3>1. \A i \in 1..Len(timer[k]) : timer[k][i] - 1 \in Int
      BY <2>1, ElementOfSeq
    <3> QED BY <2>2, <2>3, <3>1
  <2>5. timer[k] # <<>> <=> Len(timer[k]) # 0
    BY <2>1, EmptySeq
  <2>6. timer'[k] # <<>> <=> Len(timer'[k]) # 0
    BY <2>4, EmptySeq
  <2>7. ASSUME timer[k] # <<>>
        PROVE  Head(timer[k]) \in Nat /\ Head(timer'[k]) = Head(timer[k]) - 1
    <3>1. 1 \in 1..Len(timer[k])
      BY <2>3, <2>5, <2>7
    <3>2. timer'[k][1] = timer[k][1] - 1 /\ timer[k][1] \in Nat
      BY <2>1, <2>2, <3>1, ElementOfSeq
    <3>3. Head(timer[k]) = timer[k][1] /\ Head(timer'[k]) = timer'[k][1]
      OBVIOUS
    <3> QED BY <3>2, <3>3
  <2> QED BY <2>3, <2>5, <2>6, <2>7
<1>4. Single(timer', held')
  BY <1>2, <1>3 DEF AloneInv, Single, RoundKind
<1>5. Races(timer')
  <2> DEFINE H(k) == Head(timer[k])
             G(k) == Head(timer'[k])
  <2>1. /\ Pending(timer', "voting") <=> Pending(timer, "voting")
        /\ Pending(timer', "proposal") <=> Pending(timer, "proposal")
        /\ Pending(timer', "precommit") <=> Pending(timer, "precommit")
        /\ Pending(timer', "block") <=> Pending(timer, "block")
    BY <1>3 DEF Pending, RoundKind
  <2>2. \A k \in RoundKind : Pending(timer, k) => H(k) \in Nat /\ G(k) = H(k) - 1
    BY <1>3 DEF Pending
  <2>3. PrecommitDelay \in Nat /\ ProposalTimeout \in Nat
    BY TimeAssumption
  <2>4. Races(timer)
    BY DEF AloneInv
  <2> HIDE DEF H, G
  <2>5. Pending(timer, "proposal") => G("proposal") <= ProposalTimeout
    <3>1. Pending(timer, "proposal") => H("proposal") <= ProposalTimeout
      BY <2>4 DEF Races, H
    <3> QED BY <2>2, <2>3, <3>1 DEF RoundKind
  <2>6. Pending(timer, "precommit") => G("precommit") <= PrecommitDelay
    <3>1. Pending(timer, "precommit") => H("precommit") <= PrecommitDelay
      BY <2>4 DEF Races, H
    <3> QED BY <2>2, <2>3, <3>1 DEF RoundKind
  <2>7. ASSUME Pending(timer, "precommit"), NEW k \in {"voting", "proposal", "block"},
               Pending(timer, k)
        PROVE  G("precommit") < G(k)
    <3>1. H("precommit") < H(k)
      BY <2>4, <2>7 DEF Races, H, After, Pending
    <3> QED BY <2>2, <2>7, <3>1 DEF RoundKind
  <2>8. ASSUME Pending(timer, "proposal"), ~Pending(timer, "precommit"), Pending(timer, "block")
        PROVE  G("proposal") + PrecommitDelay < G("block")
    <3>1. H("proposal") + PrecommitDelay < H("block")
      BY <2>4, <2>8 DEF Races, H, After, Pending
    <3> QED BY <2>2, <2>3, <2>8, <3>1 DEF RoundKind
  <2>9. Pending(timer, "voting") => Pending(timer, "precommit")
    BY <2>4 DEF Races
  <2>10. Pending(timer', "precommit") =>
           \A k \in {"voting", "proposal", "block"} : After(timer', k, Head(timer'["precommit"]))
    BY <2>1, <2>7, Zenon DEF After, G, Pending
  <2>11. Pending(timer', "proposal") /\ ~Pending(timer', "precommit") =>
           After(timer', "block", Head(timer'["proposal"]) + PrecommitDelay)
    BY <2>1, <2>8, Zenon DEF After, G, Pending
  <2> QED BY <2>1, <2>5, <2>6, <2>9, <2>10, <2>11, Zenon DEF Races, G
<1>6. Pending(timer', "precommit") <=> Pending(timer, "precommit")
  BY <1>3 DEF Pending, RoundKind
<1>7. OwnBlock' = OwnBlock
  BY <1>2 DEF OwnBlock
<1> QED BY <1>2, <1>4, <1>5, <1>6, <1>7, Zenon DEF AloneInv, Fresh, Writing

\* What leaves the timers of a round alone, and what they race for.
LEMMA AloneRests ==
    ASSUME AloneInv, \A k \in RoundKind : timer'[k] = timer[k],
           UNCHANGED <<held, height, adding, proposal, prevotes>>,
           activeValidators' \in {0, 1}
    PROVE  AloneInv'
<1>1. Single(timer', held')
  BY DEF AloneInv, Single, RoundKind
<1>2. Races(timer')
  BY Zenon DEF AloneInv, Races, Pending, After, RoundKind
<1>3. Fresh'
  BY DEF AloneInv, Fresh, Pending, RoundKind, OwnBlock
<1>4. Writing'
  BY Zenon DEF AloneInv, Writing, Pending, After, RoundKind
<1> QED BY <1>1, <1>2, <1>3, <1>4 DEF AloneInv

LEMMA AloneReschedules ==
    ASSUME Alone, TypeOK, AloneInv, NEW t \in TimerType,
           t["proposal"] = timer["proposal"], t["precommit"] = timer["precommit"],
           t["voting"] = timer["voting"], timer' = ScheduleBlock(t),
           UNCHANGED <<held, height, adding, proposal, prevotes>>,
           activeValidators' \in {0, 1}
    PROVE  AloneInv'
<1>1. /\ Single(timer', held) /\ Races(timer') /\ After(timer', "block", 0)
      /\ timer'["precommit"] = timer["precommit"] /\ timer'["proposal"] = timer["proposal"]
  BY AloneScheduled
<1>2. Fresh'
  BY <1>1 DEF AloneInv, Fresh, Pending, OwnBlock
<1>3. Writing'
  BY <1>1, Zenon DEF AloneInv, Writing, Pending, After
<1> QED BY <1>1, <1>2, <1>3 DEF AloneInv

LEMMA AloneLoads ==
    ASSUME Alone, TypeOK, AloneInv, NEW st, LoadValidators(st)
    PROVE  activeValidators' \in {0, 1}
<1>1. CASE ManagerAttached
  <2> DEFINE set == ActiveOf(val, registered)
  <2>1. set = {} \/ set = {Self}
    BY DEF ActiveOf, TypeOK, Alone
  <2>2. activeValidators' = Cardinality(set)
    BY <1>1 DEF LoadValidators
  <2> HIDE DEF set
  <2> QED BY <2>1, <2>2, FS_EmptySet, FS_Singleton
<1>2. CASE ~ManagerAttached
  BY <1>2 DEF LoadValidators, AloneInv
<1> QED BY <1>1, <1>2

LEMMA AloneStarts ==
    ASSUME Alone, TypeOK, AloneInv, Start
    PROVE  AloneInv'
<1>1. CASE Crash
  BY <1>1, AloneRests DEF Crash, AloneInv, chainVars, roundVars, timerVars, memberVars, storeVars
<1>2. CASE ~Crash
  <2>1. /\ LoadValidators("waiting")
        /\ timer' = IF activeValidators' < MinValidators
                    THEN [timer EXCEPT !["orphanCheck"] = @ \o timer["check"],
                                       !["check"] = <<CheckPeriod>>]
                    ELSE ScheduleBlock(timer)
        /\ UNCHANGED <<held, height, adding, proposal, prevotes>>
    BY <1>2 DEF Start, chainVars, storeVars
  <2>2. timer \in TimerType /\ activeValidators' \in {0, 1}
    BY <2>1, AloneLoads DEF TypeOK, TimerType
  <2>3. CASE timer' = ScheduleBlock(timer)
    BY <2>1, <2>2, <2>3, AloneReschedules
  <2>4. CASE timer' = [timer EXCEPT !["orphanCheck"] = @ \o timer["check"],
                                    !["check"] = <<CheckPeriod>>]
    <3>1. \A k \in RoundKind : timer'[k] = timer[k]
      BY <2>2, <2>4 DEF TimerType, RoundKind, Kind
    <3> QED BY <2>1, <2>2, <3>1, AloneRests
  <2> QED BY <2>1, <2>3, <2>4
<1> QED BY <1>1, <1>2

LEMMA AloneChecks ==
    ASSUME Alone, TypeOK, AloneInv, NEW k \in {"check", "orphanCheck"}, CheckDue(k)
    PROVE  AloneInv'
<1>1. CASE Crash
  BY <1>1, AloneRests DEF Crash, AloneInv, chainVars, roundVars, timerVars, memberVars, storeVars
<1>2. CASE ~Crash
  <2> DEFINE again == Arm(Fired(k), k, CheckPeriod)
             last == [again EXCEPT !["check"] = <<>>]
  <2>1. /\ LoadValidators(state)
        /\ timer' = IF activeValidators' >= MinValidators THEN ScheduleBlock(last) ELSE again
        /\ UNCHANGED <<held, height, adding, proposal, prevotes>>
    BY <1>2 DEF CheckDue, chainVars, storeVars
  <2>2. timer \in TimerType /\ activeValidators' \in {0, 1}
    BY <2>1, AloneLoads DEF TypeOK, TimerType
  <2>3. Fired(k) \in TimerType /\ \A j \in RoundKind : Fired(k)[j] = timer[j]
    BY <2>2, FiredType DEF CheckDue, Fired, TimerType, RoundKind, Kind
  <2>4. again \in TimerType /\ \A j \in RoundKind : again[j] = timer[j]
    <3>1. again \in TimerType
      BY <2>3, ArmType, TimeAssumption DEF Kind
    <3>2. \A j \in RoundKind : again[j] = Fired(k)[j]
      BY <2>3 DEF Arm, TimerType, RoundKind, Kind
    <3> HIDE DEF again
    <3> QED BY <2>3, <3>1, <3>2
  <2> HIDE DEF again
  <2>5. last \in TimerType /\ \A j \in RoundKind : last[j] = timer[j]
    <3>1. <<>> \in Seq(Nat)
      OBVIOUS
    <3>2. last \in TimerType
      BY <2>4, <3>1 DEF TimerType
    <3>3. \A j \in RoundKind : last[j] = again[j]
      BY <2>4 DEF TimerType, RoundKind, Kind
    <3> HIDE DEF last
    <3> QED BY <2>4, <3>2, <3>3
  <2> HIDE DEF last
  <2>6. CASE timer' = ScheduleBlock(last)
    BY <2>1, <2>2, <2>5, <2>6, AloneReschedules DEF RoundKind
  <2>7. CASE timer' = again
    BY <2>1, <2>2, <2>4, <2>7, AloneRests
  <2> QED BY <2>1, <2>6, <2>7
<1> QED BY <1>1, <1>2

\* stop() takes away all timers of the round but the precommit.
LEMMA AloneStops ==
    ASSUME Alone, TypeOK, AloneInv, Stop
    PROVE  AloneInv'
<1> DEFINE t1 == ClearHeld(timer, held, "proposal")
           t2 == ClearHeld(t1, held, "voting")
<1>1. timer \in TimerType /\ held \in HeldType
  BY DEF TypeOK, TimerType, HeldType
<1>2. t1 \in TimerType /\ t1["proposal"] = <<>>
      /\ \A j \in Kind : j # "proposal" => t1[j] = timer[j]
  BY <1>1, ClearHeldType, ClearedAlone DEF AloneInv, Single, RoundKind, Kind
<1> HIDE DEF t1
<1>3. t2 \in TimerType /\ t2["voting"] = <<>>
      /\ \A j \in Kind : j # "voting" => t2[j] = t1[j]
  <2>1. t1["voting"] = timer["voting"]
    BY <1>2 DEF Kind
  <2>2. Len(t1["voting"]) <= 1 /\ (t1["voting"] # <<>> => held["voting"])
    BY <2>1 DEF AloneInv, Single, RoundKind
  <2> QED BY <1>1, <1>2, <2>2, ClearHeldType, ClearedAlone DEF Kind
<1> HIDE DEF t2
<1>4. timer' = [t2 EXCEPT !["block"] = <<>>]
      /\ UNCHANGED <<height, adding, proposal, prevotes, activeValidators>>
  BY DEF Stop, t1, t2, chainVars, roundVars, memberVars, storeVars
<1>5. t2["proposal"] = <<>> /\ t2["voting"] = <<>> /\ t2["precommit"] = timer["precommit"]
  BY <1>2, <1>3 DEF Kind
<1>6. timer'["block"] = <<>> /\ timer'["proposal"] = <<>> /\ timer'["voting"] = <<>>
      /\ timer'["precommit"] = timer["precommit"]
  BY <1>3, <1>4, <1>5 DEF TimerType, Kind
<1>7. timer["voting"] # <<>> => timer["precommit"] # <<>>
  BY DEF AloneInv, Races, Pending
<1>8. Single(timer', held')
  <2>1. Len(timer'["block"]) <= 1 /\ Len(timer'["proposal"]) <= 1 /\ Len(timer'["voting"]) <= 1
    BY <1>6
  <2>2. Len(timer'["precommit"]) <= 1
    BY <1>6 DEF AloneInv, Single, RoundKind
  <2> QED BY <1>6, <2>1, <2>2, Zenon DEF Single, RoundKind
<1>9. Races(timer')
  BY <1>6, Zenon DEF AloneInv, Races, Pending, After
<1>10. Fresh'
  BY <1>4, <1>6 DEF AloneInv, Fresh, Pending, OwnBlock
<1>11. Writing'
  BY <1>4, <1>6, Zenon DEF AloneInv, Writing, Pending, After
<1> QED BY <1>4, <1>8, <1>9, <1>10, <1>11 DEF AloneInv

LEMMA AloneFresh ==
    ASSUME timer' = NoTimers, adding' = <<>>, activeValidators' = 0
    PROVE  AloneInv'
<1>1. \A k \in RoundKind : timer'[k] = <<>> /\ Len(timer'[k]) <= 1
  <2>1. \A k \in RoundKind : timer'[k] = <<>>
    BY DEF NoTimers, RoundKind, Kind
  <2>2. Len(<<>>) <= 1
    OBVIOUS
  <2> QED BY <2>1, <2>2
<1> QED BY <1>1 DEF AloneInv, Single, Races, Fresh, Writing, Pending, RoundKind

\* The end of a write finds the engine at the height of the block.
LEMMA AloneWritten ==
    ASSUME Alone, TypeOK, AloneInv, AddBlockDone
    PROVE  AloneInv' /\ height' = height /\ adding' = <<>> /\ storeHeight' = height
                     /\ Len(adding) = 1
<1>1. adding # <<>> /\ Len(adding) = 1 /\ Head(adding).height = height
  BY DEF AddBlockDone, AloneInv, Writing
<1>2. adding' = <<>>
  <2>1. Tail(adding) = SubSeq(adding, 2, Len(adding))
    BY <1>1, TailIsSubSeq DEF TypeOK
  <2> QED BY <1>1, <2>1, SubSeqEmpty DEF AddBlockDone
<1>3. UNCHANGED <<timer, held, height, proposal, prevotes, activeValidators>> /\ storeHeight' = height
  BY <1>1 DEF AddBlockDone, timerVars, roundVars, memberVars
<1>4. Fresh'
  BY <1>2, <1>3 DEF AloneInv, Fresh, OwnBlock
<1>5. Writing'
  BY <1>2 DEF Writing
<1> QED BY <1>1, <1>2, <1>3, <1>4, <1>5 DEF AloneInv

\* Every step keeps the race in hand, and only a precommit accepts.
LEMMA AloneStep ==
    ASSUME Alone, TypeOK, AloneInv, [Next]_vars
    PROVE  /\ AloneInv'
           /\ accepted' = accepted \/ PrecommitDue
           /\ \/ UNCHANGED <<height, storeHeight, adding>>
              \/ PrecommitDue \/ AddBlockDone \/ Restart
<1> DEFINE Rest == UNCHANGED <<timer, held, height, storeHeight, adding, accepted, proposal,
                               prevotes, activeValidators>>
<1>1. ASSUME Rest
      PROVE  AloneInv' /\ accepted' = accepted /\ UNCHANGED <<height, storeHeight, adding>>
  BY <1>1, AloneRests DEF AloneInv
<1>2. CASE UNCHANGED vars
  BY <1>1, <1>2 DEF vars, chainVars, roundVars, timerVars, memberVars, storeVars
<1>3. CASE TimerStep
  <2>1. CASE Tick
    BY <2>1, AloneTicks DEF Tick, chainVars, storeVars
  <2>2. CASE CheckDue("check") \/ CheckDue("orphanCheck")
    BY <2>2, AloneChecks DEF CheckDue, Crash, chainVars, storeVars
  <2>3. CASE PrecommitDue
    BY <2>3, AlonePrecommits
  <2>4. CASE BlockTimerDue
    BY <2>4, AloneBlocks
  <2>5. CASE ProposalTimedOut
    BY <2>5, AloneProposals
  <2> QED BY <1>3, <2>1, <2>2, <2>3, <2>4, <2>5, VotingIsQuick DEF TimerStep
<1>4. CASE NodeStep
  <2>1. CASE Start
    BY <2>1, AloneStarts DEF Start, Crash, chainVars, storeVars
  <2>2. CASE Stop
    BY <2>2, AloneStops DEF Stop, chainVars, storeVars
  <2>3. CASE Exit
    BY <1>1, <2>3 DEF Exit, Crash, chainVars, roundVars, timerVars, memberVars, storeVars
  <2>4. CASE Restart
    BY <2>4, AloneFresh DEF Restart
  <2>5. CASE AddBlockDone
    BY <2>5, AloneWritten DEF AddBlockDone
  <2> QED BY <1>4, <2>1, <2>2, <2>3, <2>4, <2>5 DEF NodeStep
<1>5. CASE NetworkStep
  BY <1>5 DEF NetworkStep, ReceiveBlock, ReceiveVote, Alone
<1>6. CASE RegistryStep
  BY <1>6 DEF RegistryStep, AddValidator, RemoveValidator, UpdateValidatorStake,
     TombstoneForOffense, SlashForOffense, Alone
<1>7. CASE ManagerStep
  <2>1. Rest
    BY <1>7 DEF ManagerStep, CheckAndJailMissingValidators, RegisterValidator, UpdateStake,
       UnregisterValidator, ActivateValidator, DeactivateValidator, JailValidator,
       TryUnjailValidator, TombstoneValidator, ChangeValidator, managerFrame,
       chainVars, roundVars, timerVars, memberVars, storeVars
  <2> QED BY <1>1, <2>1
<1> QED BY <1>2, <1>3, <1>4, <1>5, <1>6, <1>7 DEF Next

LEMMA AloneInvariance ==
    ASSUME Alone
    PROVE  Spec => []AloneInv
<1>1. Init => AloneInv
  <2> SUFFICES ASSUME Init PROVE AloneInv
    OBVIOUS
  <2>1. timer = NoTimers /\ adding = <<>> /\ activeValidators = 0
    BY DEF Init
  <2>2. \A k \in RoundKind : timer[k] = <<>>
    BY <2>1 DEF NoTimers, RoundKind, Kind
  <2>3. Len(<<>>) <= 1
    OBVIOUS
  <2>4. \A k \in RoundKind : timer[k] = <<>> /\ Len(timer[k]) <= 1
    BY <2>2, <2>3
  <2> QED BY <2>1, <2>4 DEF AloneInv, Single, Races, Fresh, Writing, Pending, RoundKind
<1>2. TypeOK /\ AloneInv /\ [Next]_vars => AloneInv'
  BY AloneStep
<1> QED BY <1>1, <1>2, TypeCorrectness, PTL DEF Spec

\* The precommit callback has no handle and timers outlive their rounds, yet a
\* node that is its only validator accepts one height after the other: with
\* delays as far apart as those of the options no timer of one round meets
\* another.  Stops, starts, kills and calls on the manager may come any time.
THEOREM HeightsAcceptedInTurn ==
    ASSUME Alone
    PROVE  Spec => HeightAcceptedOnce
<1>1. TypeOK /\ AloneInv /\ [Next]_vars => [accepted' > accepted => height' = height + 1]_vars
  <2> SUFFICES ASSUME TypeOK, AloneInv, [Next]_vars, accepted' > accepted
               PROVE  height' = height + 1
    OBVIOUS
  <2>1. accepted' # accepted
    BY DEF TypeOK
  <2> QED BY <2>1, AloneStep, AlonePrecommits
<1> QED BY <1>1, TypeCorrectness, AloneInvariance, PTL DEF Spec, HeightAcceptedOnce

\* Without a restart the engine is as far as the store and the block that is
\* written to it: the store takes every block that is accepted.
InStep == height = storeHeight + Len(adding)

THEOREM AcceptedBlocksAreStored ==
    ASSUME Alone, "restart" \notin Env
    PROVE  Spec => AcceptedIsStored
<1>1. Init => InStep
  <2>1. Len(<<>>) = 0
    OBVIOUS
  <2> QED BY <2>1 DEF Init, InStep
<1>2. TypeOK /\ AloneInv /\ InStep /\ [Next]_vars =>
        /\ InStep'
        /\ accepted' > accepted => Len(adding') > Len(adding)
  <2> SUFFICES ASSUME TypeOK, AloneInv, InStep, [Next]_vars
               PROVE  /\ InStep'
                      /\ accepted' > accepted => Len(adding') > Len(adding)
    OBVIOUS
  <2>1. ~Restart
    BY DEF Restart
  <2>2. height \in Nat /\ storeHeight \in Nat /\ accepted \in Nat
    BY DEF TypeOK
  <2>3. \A b : Len(<<b>>) = 1
    OBVIOUS
  <2>4. CASE PrecommitDue
    <3>1. adding = <<>> /\ height' = height + 1 /\ storeHeight' = storeHeight
          /\ adding' = IF height = storeHeight THEN <<OwnBlock>> ELSE <<>>
      BY <2>4, AlonePrecommits
    <3>2. Len(adding) = 0 /\ height = storeHeight
      BY <2>2, <3>1 DEF InStep
    <3>3. Len(adding') = 1
      BY <2>3, <3>1, <3>2
    <3> QED BY <2>2, <3>1, <3>2, <3>3 DEF InStep
  <2>5. CASE AddBlockDone
    <3>1. height' = height /\ adding' = <<>> /\ storeHeight' = height
      BY <2>5, AloneWritten
    <3>2. accepted' = accepted
      BY <2>5 DEF AddBlockDone
    <3>3. Len(adding') = 0
      BY <3>1
    <3> QED BY <2>2, <3>1, <3>2, <3>3 DEF InStep
  <2>6. CASE ~PrecommitDue /\ ~AddBlockDone
    <3>1. accepted' = accepted /\ UNCHANGED <<height, storeHeight, adding>>
      BY <2>1, <2>6, AloneStep
    <3> QED BY <2>2, <3>1 DEF InStep
  <2> QED BY <2>4, <2>5, <2>6
<1>3. TypeOK /\ AloneInv /\ InStep /\ [Next]_vars => InStep'
  BY <1>2
<1>4. TypeOK /\ AloneInv /\ InStep /\ [Next]_vars =>
        [accepted' > accepted => Len(adding') > Len(adding)]_vars
  BY <1>2
<1> QED BY <1>1, <1>3, <1>4, TypeCorrectness, AloneInvariance, PTL DEF Spec, AcceptedIsStored

=============================================================================
