------------------------------- MODULE Ledger -------------------------------
(***************************************************************************)
(* The ledger of accounts and validators (src/blockchain/state_machine.js).*)
(*                                                                         *)
(* Its methods are synchronous, so each is one action.  An account that    *)
(* does not exist yet is an account with nothing in it, which is what      *)
(* getOrCreateAccount makes of it.  Amounts are whole smallest units.      *)
(* Only the loading from the database is asynchronous: its three queries   *)
(* are answered one by one, and other calls may come in between.           *)
(***************************************************************************)
EXTENDS Integers, FiniteSets, FiniteSetsExt, Sequences

CONSTANTS
    Addr, Null,
    Fork,                 \* tells blocks of one height apart
    Transactions,         \* transactions that may be offered
    Bodies,               \* sequences of transactions that blocks may hold
    StakeChanges,         \* amounts that callers of updateAccountStake pass
    MinimumStake, BlockReward, HalvingInterval, MaxSupply,
    DeveloperNodeReward, EarlyValidatorReward,
    DistributionBlocks,   \* heights reached within the distribution period
    LoadsFirst,           \* TRUE when callers wait until the state is loaded
    MaxHeight,            \* bounds of the model: heights of blocks, and heights
    SavedHeights          \* at which the timer of the database fires

ASSUME LedgerAddressAssumption == Null \notin Addr /\ IsFiniteSet(Addr)
ASSUME LedgerAmountAssumption ==
    /\ {MinimumStake, BlockReward, MaxSupply, DeveloperNodeReward, EarlyValidatorReward,
        DistributionBlocks, MaxHeight} \subseteq Nat
    /\ HalvingInterval \in Nat \ {0}
    /\ StakeChanges \subseteq Int

\* Halving never adds to a reward: arithmetic of powers of two.
ASSUME HalvingAssumption ==
    \A h \in 0..MaxHeight : BlockReward \div (2^(h \div HalvingInterval)) \in 0..BlockReward

\* What is minted in the distribution period is far below the maximum supply.
ASSUME DistributionAssumption ==
    DistributionBlocks * BlockReward + DeveloperNodeReward
        + Cardinality(Addr) * EarlyValidatorReward <= MaxSupply

VARIABLES
    state,    \* the fields of the state machine
    saved,    \* the tables of the database, Null while they are empty
    query   \* the query of loadFromDatabase that is answered next

ledgerVars == <<state, saved, query>>

ValidatorState == {"inactive", "active", "jailed", "tombstoned"}

\* Blocks are known by their height and fork, which stand for their hash.
Hash == [height : Nat, fork : Fork]

Transaction ==
    [from : Addr, to : Addr \cup {Null}, amount : Nat, fee : Nat, nonce : Nat,
     validatorAddress : Addr \cup {Null}]

ASSUME TransactionAssumption ==
    Transactions \subseteq Transaction /\ Bodies \subseteq Seq(Transactions)

\* methods holds the validators that are objects of class Validator; copies
\* and database rows are plain objects.
Fresh ==
    [balance |-> [a \in Addr |-> 0], nonce |-> [a \in Addr |-> 0],
     stake |-> [a \in Addr |-> 0],
     validators |-> {}, validatorState |-> [a \in Addr |-> "inactive"],
     validatorStake |-> [a \in Addr |-> 0], methods |-> {},
     currentHeight |-> 0, lastBlockHash |-> Null, totalSupply |-> 0,
     developerNodeSet |-> FALSE]

\* A call from outside, which callers may hold back while the state loads.
Call == (LoadsFirst => query = "no") /\ UNCHANGED <<saved, query>>

-----------------------------------------------------------------------------
(* Transactions *)

\* Mutant: any later nonce will do.
LaterNonce(nonces, t) == t.nonce > nonces[t.from]

NextNonce(nonces, t) == t.nonce = nonces[t.from] + 1

Affords(balances, t) == balances[t.from] >= t.amount + t.fee

WellFormed(t) == t.to # Null /\ t.amount > 0

\* Mutant: the fee is credited to the validator but not taken from the sender.
FeeRefunded(balances, t) ==
    LET paid  == [balances EXCEPT ![t.from] = @ - t.amount]
        moved == [paid EXCEPT ![t.to] = @ + t.amount]
    IN IF t.validatorAddress = Null THEN moved
       ELSE [moved EXCEPT ![t.validatorAddress] = @ + t.fee]

\* A fee without a validator to credit it to is burned.
Transfer(balances, t) ==
    LET paid  == [balances EXCEPT ![t.from] = @ - (t.amount + t.fee)]
        moved == [paid EXCEPT ![t.to] = @ + t.amount]
    IN IF t.validatorAddress = Null THEN moved
       ELSE [moved EXCEPT ![t.validatorAddress] = @ + t.fee]

\* One transaction on the balances and nonces of acc; after a transaction that
\* is refused nothing more is applied.
ApplyTo(acc, t) ==
    IF acc.ok /\ WellFormed(t) /\ Affords(acc.balance, t) /\ NextNonce(acc.nonce, t)
    THEN [ok |-> TRUE, balance |-> Transfer(acc.balance, t),
          nonce |-> [acc.nonce EXCEPT ![t.from] = t.nonce]]
    ELSE [acc EXCEPT !.ok = FALSE]

ApplyTransaction(t) ==
    LET acc == ApplyTo([ok |-> TRUE, balance |-> state.balance, nonce |-> state.nonce], t)
    IN
    /\ Call
    /\ acc.ok
    /\ state' = [state EXCEPT !.balance = acc.balance, !.nonce = acc.nonce]

-----------------------------------------------------------------------------
(* Blocks *)

HalvedReward == BlockReward \div (2^(state.currentHeight \div HalvingInterval))

\* One smallest unit, or what is left of the supply, when the cap is reached.
CalculateBlockReward ==
    IF state.totalSupply + HalvedReward <= MaxSupply THEN HalvedReward
    ELSE IF MaxSupply - state.totalSupply < 1 THEN MaxSupply - state.totalSupply
    ELSE 1

\* The checks that reject a block before anything is touched.
Follows(b) ==
    /\ b.height = state.currentHeight + 1
    /\ state.lastBlockHash # Null => b.previousHash = state.lastBlockHash
    /\ ~b.future

\* The first pass looks at every transaction as if it came first.
Prevalidated(b) ==
    \A i \in DOMAIN b.transactions :
        LET t == b.transactions[i] IN
        Affords(state.balance, t) /\ NextNonce(state.nonce, t)

ProcessBlockReward(b) ==
    [state.balance EXCEPT ![b.validatorAddress] = @ + CalculateBlockReward]

\* the reward and the transactions, as far as the block goes before it fails
Processed(b) ==
    LET After[n \in 0..Len(b.transactions)] ==
            IF n = 0
            THEN [ok |-> TRUE, nonce |-> state.nonce, balance |-> ProcessBlockReward(b)]
            ELSE ApplyTo(After[n - 1], b.transactions[n])
    IN  After[Len(b.transactions)]

\* The copies that are put back have lost the methods of their class.
RestoreStateSnapshot(failed, snapshot) == [snapshot EXCEPT !.methods = {}]

(***************************************************************************)
(* A block fails when a transaction of it is refused in the second pass: a *)
(* second one of the same sender, one without recipient or amount.         *)
(***************************************************************************)
ApplyBlock(b) ==
    LET acc     == Processed(b)
        touched == [state EXCEPT !.balance = acc.balance, !.nonce = acc.nonce,
                                 !.totalSupply = @ + CalculateBlockReward]
    IN
    /\ Call
    /\ Follows(b)
    /\ \/ /\ Prevalidated(b) /\ acc.ok
          /\ state' = [touched EXCEPT !.currentHeight = b.height,
                                      !.lastBlockHash = [height |-> b.height, fork |-> b.fork]]
       \/ /\ Prevalidated(b) /\ ~acc.ok
          /\ state' = RestoreStateSnapshot(touched, state)
       \/ /\ ~Prevalidated(b)
          /\ state' = RestoreStateSnapshot(state, state)

-----------------------------------------------------------------------------
(* Stakes and validators *)

InDistributionPeriod == state.currentHeight < DistributionBlocks

StateForStake(a, stake) ==
    IF stake >= MinimumStake
    THEN IF state.validatorState[a] = "inactive" THEN "active" ELSE state.validatorState[a]
    ELSE IF state.validatorState[a] = "active" THEN "inactive" ELSE state.validatorState[a]

\* A positive amount moves from balance to stake, a negative one back.
UpdateAccountStake(a, amount) ==
    LET stake == state.stake[a] + amount IN
    /\ Call
    /\ stake >= 0 /\ amount <= state.balance[a]
    /\ state' = [state EXCEPT
            !.stake[a] = stake,
            !.balance[a] = @ - amount,
            !.validatorStake[a] = IF a \in state.validators THEN stake ELSE @,
            !.validatorState[a] = IF a \in state.validators THEN StateForStake(a, stake) ELSE @]

\* Nothing is taken that is not there.
UpdateAccountBalance(a, amount) ==
    [state.balance EXCEPT ![a] = IF @ + amount >= 0 THEN @ + amount ELSE @]

\* The early validator's reward looks for a validator that is only put into
\* the map afterwards, so nobody ever gets it.
RewardOnRegistration(a) ==
    IF ~InDistributionPeriod THEN 0
    ELSE IF ~state.developerNodeSet THEN DeveloperNodeReward
    ELSE IF a \in state.validators THEN EarlyValidatorReward
    ELSE 0

RegisterValidator(a) ==
    /\ Call
    /\ a \notin state.validators
    /\ state.stake[a] >= MinimumStake
    /\ state' = [state EXCEPT
            !.validators = @ \cup {a}, !.methods = @ \cup {a},
            !.validatorState[a] = "inactive",
            !.validatorStake[a] = state.stake[a],
            !.developerNodeSet = TRUE,
            !.balance = UpdateAccountBalance(a, RewardOnRegistration(a)),
            !.totalSupply = @ + RewardOnRegistration(a)]

\* jail() and tombstone() exist only on objects of the class.
JailValidator(a) ==
    /\ Call
    /\ a \in state.validators /\ a \in state.methods
    /\ state' = [state EXCEPT !.validatorState[a] = "jailed"]

TombstoneValidator(a) ==
    /\ Call
    /\ a \in state.validators /\ a \in state.methods
    /\ state' = [state EXCEPT !.validatorState[a] = "tombstoned"]

-----------------------------------------------------------------------------
(* The database *)

(***************************************************************************)
(* persistToDatabase sends its queries in one transaction and computes all *)
(* their parameters before it returns, so what is saved is the state of    *)
(* one moment.  It runs on a timer and when the state machine stops.       *)
(***************************************************************************)
PersistToDatabase ==
    /\ query = "no" /\ state.currentHeight \in SavedHeights
    /\ saved' = [state EXCEPT !.methods = {}]
    /\ UNCHANGED <<state, query>>

\* The process ends and a new one starts to load.
LedgerRestart ==
    /\ state' = Fresh
    /\ query' = "accounts"
    /\ UNCHANGED saved

Rows == saved

AccountsLoaded ==
    /\ query = "accounts"
    /\ query' = "validators"
    /\ state' = IF saved = Null
                THEN [state EXCEPT !.balance = Fresh.balance, !.nonce = Fresh.nonce,
                                   !.stake = Fresh.stake]
                ELSE [state EXCEPT !.balance = Rows.balance, !.nonce = Rows.nonce,
                                   !.stake = Rows.stake]
    /\ UNCHANGED saved

ValidatorsLoaded ==
    /\ query = "validators"
    /\ query' = "state"
    /\ state' = LET from == IF saved = Null THEN Fresh ELSE Rows IN
                [state EXCEPT !.validators = from.validators,
                              !.validatorState = from.validatorState,
                              !.validatorStake = from.validatorStake, !.methods = {}]
    /\ UNCHANGED saved

StateLoaded ==
    /\ query = "state"
    /\ query' = "no"
    /\ state' = IF saved = Null THEN state
                ELSE [state EXCEPT !.currentHeight = Rows.currentHeight,
                                   !.lastBlockHash = Rows.lastBlockHash,
                                   !.totalSupply = Rows.totalSupply,
                                   !.developerNodeSet = Rows.developerNodeSet]
    /\ UNCHANGED saved

-----------------------------------------------------------------------------
(* The specification *)

LedgerInit ==
    /\ state = Fresh
    /\ saved = Null
    /\ query = "no"

\* Blocks of the current and the next height, on the tip and beside it.
Offered ==
    {b \in [height : {state.currentHeight, state.currentHeight + 1}, fork : Fork,
            previousHash : {state.lastBlockHash, [height |-> 0, fork |-> "other"]},
            validatorAddress : Addr, transactions : Bodies, future : BOOLEAN] :
        b.height <= MaxHeight}

BlockStep ==
    \/ \E b \in Offered : ApplyBlock(b)
    \/ \E t \in Transactions : ApplyTransaction(t)

ValidatorStep ==
    \E a \in Addr :
        \/ \E n \in StakeChanges : UpdateAccountStake(a, n)
        \/ RegisterValidator(a)
        \/ JailValidator(a)
        \/ TombstoneValidator(a)

DatabaseStep ==
    \/ PersistToDatabase
    \/ LedgerRestart
    \/ AccountsLoaded
    \/ ValidatorsLoaded
    \/ StateLoaded

LedgerNext == BlockStep \/ ValidatorStep \/ DatabaseStep

LedgerSpec == LedgerInit /\ [][LedgerNext]_ledgerVars

-----------------------------------------------------------------------------
(* Properties *)

StateRecord ==
    [balance : [Addr -> Nat], nonce : [Addr -> Nat], stake : [Addr -> Nat],
     validators : SUBSET Addr, validatorState : [Addr -> ValidatorState],
     validatorStake : [Addr -> Nat], methods : SUBSET Addr,
     currentHeight : Nat, lastBlockHash : Hash \cup {Null}, totalSupply : Nat,
     developerNodeSet : BOOLEAN]

\* Every field holds a value of its kind; no balance, stake or supply is
\* negative.
LedgerTypeOK ==
    /\ state \in StateRecord
    /\ saved \in StateRecord \cup {Null}
    /\ query \in {"no", "accounts", "validators", "state"}

HeldInLedger == MapThenSumSet(LAMBDA a : state.balance[a] + state.stake[a], Addr)

\* Nothing is held that was not minted, and no more is minted than there may
\* be: after rewards, fees, stakes, failed blocks and restarts the accounts
\* hold at most the total supply, and that is at most the maximum.
Backed ==
    /\ query = "no" => HeldInLedger <= state.totalSupply
    /\ state.totalSupply <= MaxSupply

\* Transactions of a sender are applied in the order of their nonces, none
\* twice and none left out, in blocks and on their own.
NoncesInOrder ==
    [][query = "no" /\ query' = "no" =>
        \A a \in Addr : state'.nonce[a] \in {state.nonce[a], state.nonce[a] + 1}]_ledgerVars

=============================================================================
