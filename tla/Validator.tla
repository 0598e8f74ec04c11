------------------------------ MODULE Validator ------------------------------
(***************************************************************************)
(* The life of one validator (src/blockchain/validator.js).                *)
(*                                                                         *)
(* A validator is a record; every method of the class is an operator from  *)
(* the record before the call to the record after it.  Stakes are natural  *)
(* numbers of a smallest unit.  The clock is left out: whether the jail    *)
(* period is over is a parameter of TryUnjail.  Reputation and uptime only *)
(* weigh the random choice of a proposer, which the models make            *)
(* nondeterministic, so they are left out as well.                         *)
(***************************************************************************)
EXTENDS Integers

CONSTANTS
    MinimumStake,      \* options.minimumStake, MIN_STAKE
    MaxMissedBlocks,   \* options.maxMissedBlocks, MAX_MISSED_BLOCKS
    SlashingPenalty    \* percentage of the stake taken by a slashing

ASSUME MinimumStakeAssumption == MinimumStake \in Nat \ {0}
ASSUME MaxMissedBlocksAssumption == MaxMissedBlocks \in Nat
ASSUME SlashingPenaltyAssumption == SlashingPenalty \in 0..100

ValidatorState == {"inactive", "active", "jailed", "tombstoned"}

\* blocksMissed is only ever compared with MaxMissedBlocks, so the model
\* stops counting one above it.
ValidatorRecord ==
    [state : ValidatorState, stake : Nat, blocksMissed : 0..MaxMissedBlocks + 1]

NewValidator(stake) ==
    [state |-> "inactive", stake |-> stake, blocksMissed |-> 0]

(***************************************************************************)
(* jail() looks at no state: it applies to a tombstoned validator too.     *)
(***************************************************************************)
Jail(v) == [v EXCEPT !.state = "jailed"]

TryUnjail(v, expired) ==
    IF v.state = "jailed" /\ expired THEN [v EXCEPT !.state = "inactive"] ELSE v

Tombstone(v) == [v EXCEPT !.state = "tombstoned"]

Activate(v) ==
    IF v.state = "inactive" THEN [v EXCEPT !.state = "active"] ELSE v

Deactivate(v) ==
    IF v.state = "active" THEN [v EXCEPT !.state = "inactive"] ELSE v

IsActive(v) == v.state = "active"

IsEligible(v) == IsActive(v) /\ v.stake >= MinimumStake

\* updateStats(false)
MissBlock(v) ==
    IF v.blocksMissed > MaxMissedBlocks THEN v
    ELSE [v EXCEPT !.blocksMissed = @ + 1]

(***************************************************************************)
(* blocksMissed is never reset: a validator over the limit is jailed again *)
(* the next time anybody looks.                                            *)
(***************************************************************************)
CheckAndJailIfNeeded(v) ==
    IF v.blocksMissed > MaxMissedBlocks THEN Jail(v) ELSE v

\* Stakes are whole units here, so the amount taken is rounded down.
SlashAmount(stake) == (stake * SlashingPenalty) \div 100
=============================================================================
