------------------------------ MODULE Accounts ------------------------------
(***************************************************************************)
(* The accounts and validators of src/consensus/state_machine.js with the  *)
(* distribution period of src/consensus/distribution.js, both on top of    *)
(* PostgreSQL.                                                             *)
(*                                                                         *)
(* Calls are asynchronous: a call reads the memory, waits, and writes what *)
(* it makes of that reading.  One action is the code between two waits; a  *)
(* statement takes effect in the action that handles its answer, except    *)
(* for reads, whose answer may be old when it is handled.  The counters of *)
(* the distribution period and the tables rewards and validator_events are *)
(* left out: nothing reads them back.                                      *)
(***************************************************************************)
EXTENDS Integers, FiniteSets

CONSTANTS
    Address,
    Developer,       \* developerAddress
    Caller,          \* bounds the calls under way at a time
    Amount,          \* the amounts and nonces that callers ask for
    MinStake,
    DeveloperReward,
    ValidatorReward,
    NoRow,
    ErrorListener,   \* TRUE when somebody listens to 'error'
    MaxCalls,        \* bounds the calls of a behaviour
    FirstRows        \* the accounts of the database at the beginning

AccountRecord == [balance : Nat, nonce : Nat]

Validator == [stake : Nat, status : {"active", "jailed"}]

ASSUME AccountsAssumption ==
    /\ Developer \in Address
    /\ Amount \subseteq Nat \ {0}
    /\ MinStake \in Nat \ {0} /\ DeveloperReward \in Nat \ {0} /\ ValidatorReward \in Nat \ {0}
    /\ NoRow \notin AccountRecord \cup Validator \cup BOOLEAN
    /\ ErrorListener \in BOOLEAN
    /\ MaxCalls \in Nat
    /\ FirstRows \in [Address -> AccountRecord \cup {NoRow}]

VARIABLES
    accounts, validators,          \* in memory
    rewarded, developerRewarded,   \* in memory, of the distribution period
    accountRows, validatorRows,    \* the tables of the same names
    rewardRows,                    \* the addresses of distribution_rewards
    stateRow,                      \* developer_rewarded, in the last row of distribution_state
    call,                          \* what each caller has under way
    calls,                         \* how many calls were made
    paid,                          \* history: how often an address got a distribution reward
    granted,                       \* history: what it was given, from the start on
    disturbed                      \* history: its calls overlapped, or one was cut off

memory == <<accounts, validators, rewarded, developerRewarded>>
database == <<accountRows, validatorRows, rewardRows, stateRow>>
history == <<paid, granted, disturbed>>
accountsVars == <<memory, database, call, calls, history>>

Operation == {"register", "stake", "unstake", "jail", "unjail", "add", "nonce"}

NoCall == [pc |-> "idle"]

Quiet(a) == \A c \in Caller : call[c] = NoCall \/ call[c].of # a

Empty == [balance |-> 0, nonce |-> 0]

Goes(c, pc) == call' = [call EXCEPT ![c].pc = pc]

Ends(c) == call' = [call EXCEPT ![c] = NoCall]

-----------------------------------------------------------------------------
(* Reading an account or a validator, through the memory *)

\* getValidator up to its first wait
AskValidator(c, k) ==
    call' = [call EXCEPT ![c] =
        [k EXCEPT !.val = validators[k.of],
                  !.pc = IF validators[k.of] = NoRow THEN "findValidator" ELSE "gotValidator"]]

\* getAccount up to its first wait; what comes after it depends on the call.
AskAccount(c, k) ==
    call' = [call EXCEPT ![c] =
        [k EXCEPT !.acc = accounts[k.of],
                  !.pc = IF accounts[k.of] = NoRow THEN "findAccount"
                         ELSE IF k.op \in {"unstake", "add"} THEN "update" ELSE "gotAccount"]]

FindValidator(c) ==
    /\ call[c].pc = "findValidator"
    /\ call' = [call EXCEPT ![c].val = validatorRows[call[c].of], ![c].pc = "foundValidator"]
    /\ UNCHANGED <<memory, database, calls, history>>

FoundValidator(c) ==
    /\ call[c].pc = "foundValidator"
    /\ validators' = IF call[c].val = NoRow THEN validators
                     ELSE [validators EXCEPT ![call[c].of] = call[c].val]
    /\ Goes(c, "gotValidator")
    /\ UNCHANGED <<accounts, rewarded, developerRewarded, database, calls, history>>

FindAccount(c) ==
    /\ call[c].pc = "findAccount"
    /\ call' = [call EXCEPT ![c].acc = accountRows[call[c].of], ![c].pc = "foundAccount"]
    /\ UNCHANGED <<memory, database, calls, history>>

FoundAccount(c) ==
    LET found == IF call[c].acc = NoRow THEN Empty ELSE call[c].acc IN
    /\ call[c].pc = "foundAccount"
    /\ accounts' = [accounts EXCEPT ![call[c].of] = found]
    /\ call' = [call EXCEPT ![c].acc = found,
                            ![c].pc = IF call[c].op \in {"unstake", "add"} THEN "update"
                                                                           ELSE "gotAccount"]
    /\ UNCHANGED <<validators, rewarded, developerRewarded, database, calls, history>>

-----------------------------------------------------------------------------
(* The seven calls, up to where they write *)

\* The change of the balance that goes with a change of the stake.
\* Mutant: what is taken out of the stake is taken out of the balance.
AlwaysTaken(op, n) == IF op = "add" THEN n ELSE -n

Owed(op, n) == IF op \in {"unstake", "add"} THEN n ELSE -n

Begin(c, op, a, n) ==
    LET k == [op |-> op, of |-> a, n |-> n, by |-> Owed(op, n), pc |-> "begin",
              val |-> NoRow, acc |-> NoRow, flag |-> FALSE]
    IN
    /\ call[c] = NoCall
    /\ calls < MaxCalls
    /\ calls' = calls + 1
    /\ IF op \in {"add", "nonce"} THEN AskAccount(c, k) ELSE AskValidator(c, k)
    /\ disturbed' = IF Quiet(a) THEN disturbed ELSE disturbed \cup {a}
    /\ UNCHANGED <<memory, database, paid, granted>>

MayUnstake(val, n) == val.stake >= n /\ val.stake - n >= MinStake

Staked(val, n) == [val EXCEPT !.stake = @ + n]

\* The term of a jailed validator may be over at any time.
GotValidator(c) ==
    LET k == call[c]
        Writes(val) == validators' = [validators EXCEPT ![k.of] = val]
    IN
    /\ k.pc = "gotValidator"
    /\ \/ /\ \/ k.op = "register" /\ k.val = NoRow
             \/ k.op = "stake" /\ k.val # NoRow
          /\ AskAccount(c, k)
          /\ UNCHANGED validators
       \/ /\ k.op = "unstake" /\ k.val # NoRow /\ MayUnstake(k.val, k.n)
          /\ Writes([k.val EXCEPT !.stake = @ - k.n])
          /\ AskAccount(c, k)
       \/ /\ k.op = "jail" /\ k.val # NoRow
          /\ Writes([k.val EXCEPT !.status = "jailed"])
          /\ Goes(c, "row")
       \/ /\ k.op = "unjail" /\ k.val # NoRow /\ k.val.status = "jailed"
          /\ Writes([k.val EXCEPT !.status = "active"])
          /\ Goes(c, "row")
       \/ /\ \/ k.op # "register" /\ k.val = NoRow
             \/ k.op = "register" /\ k.val # NoRow
             \/ k.op = "unstake" /\ k.val # NoRow /\ ~MayUnstake(k.val, k.n)
             \/ k.op = "unjail"
          /\ Ends(c)
          /\ UNCHANGED validators
    /\ UNCHANGED <<accounts, rewarded, developerRewarded, database, calls, history>>

\* registerValidator and stakeTokens write the stake and go on with
\* updateBalance, which reads the account again; updateNonce.
GotAccount(c) ==
    LET k == call[c]
        Stakes(val) ==
            /\ validators' = [validators EXCEPT ![k.of] = val]
            /\ call' = [call EXCEPT ![c].pc = "update", ![c].acc = accounts[k.of]]
            /\ UNCHANGED accounts
    IN
    /\ k.pc = "gotAccount"
    /\ \/ /\ k.op = "register" /\ k.acc.balance >= k.n /\ k.n >= MinStake
          /\ Stakes([stake |-> k.n, status |-> "active"])
       \/ /\ k.op = "stake" /\ k.acc.balance >= k.n
          /\ Stakes(Staked(k.val, k.n))
       \/ /\ k.op = "nonce" /\ k.n > k.acc.nonce
          /\ accounts' = [accounts EXCEPT ![k.of] = [k.acc EXCEPT !.nonce = k.n]]
          /\ Goes(c, "count")
          /\ UNCHANGED validators
       \/ /\ \/ k.op = "register" /\ (k.acc.balance < k.n \/ k.n < MinStake)
             \/ k.op = "stake" /\ k.acc.balance < k.n
             \/ k.op = "nonce" /\ k.n <= k.acc.nonce
          /\ Ends(c)
          /\ UNCHANGED <<accounts, validators>>
    /\ UNCHANGED <<rewarded, developerRewarded, database, calls, history>>

-----------------------------------------------------------------------------
(* updateBalance, and the rows that a call leaves behind *)

IsReward(k) == k.op = "register" /\ k.by > 0

\* What comes after updateBalance, whose result only addBalance looks at.
AfterUpdate(c, success) ==
    IF call[c].op \in {"add", "nonce"} THEN Ends(c)
    ELSE Goes(c, IF ~IsReward(call[c]) THEN "row"
                 ELSE IF success THEN "rewards" ELSE "distribution")

\* Mutant: the balance was checked by the caller.
CheckedBefore(acc, by) == TRUE

Covers(acc, by) == acc.balance + by >= 0

Update(c) ==
    LET k == call[c]
        gift == IF k.op = "add" \/ IsReward(k) THEN k.by ELSE 0
    IN
    /\ k.pc = "update"
    /\ IF Covers(k.acc, k.by)
       THEN /\ accounts' = [accounts EXCEPT ![k.of] = [k.acc EXCEPT !.balance = @ + k.by]]
            /\ Goes(c, "count")
            /\ granted' = [granted EXCEPT ![k.of] = @ + gift]
            /\ paid' = IF IsReward(k) THEN [paid EXCEPT ![k.of] = @ + 1] ELSE paid
       ELSE AfterUpdate(c, FALSE) /\ UNCHANGED <<accounts, granted, paid>>
    /\ UNCHANGED <<validators, rewarded, developerRewarded, database, calls, disturbed>>

Count(c) ==
    /\ call[c].pc = "count"
    /\ call' = [call EXCEPT ![c].flag = accountRows[call[c].of] # NoRow, ![c].pc = "write"]
    /\ UNCHANGED <<memory, database, calls, history>>

NewRow(k) ==
    IF k.op = "nonce" THEN [k.acc EXCEPT !.nonce = k.n] ELSE [k.acc EXCEPT !.balance = @ + k.by]

\* UPDATE, or INSERT when the row was not there; that fails if it now is.
Write(c) ==
    LET k == call[c] IN
    /\ k.pc = "write"
    /\ IF k.flag
       THEN /\ accountRows' = [accountRows EXCEPT ![k.of] =
                    IF k.op = "nonce" THEN [@ EXCEPT !.nonce = k.n]
                                      ELSE [@ EXCEPT !.balance = k.acc.balance + k.by]]
            /\ AfterUpdate(c, TRUE)
       ELSE IF accountRows[k.of] = NoRow
       THEN /\ accountRows' = [accountRows EXCEPT ![k.of] = NewRow(k)]
            /\ AfterUpdate(c, TRUE)
       ELSE /\ IF ErrorListener THEN AfterUpdate(c, FALSE) ELSE Ends(c)
            /\ UNCHANGED accountRows
    /\ UNCHANGED <<memory, validatorRows, rewardRows, stateRow, calls, history>>

\* Mutant: a registration that is there already is replaced.
Replaces(a) == TRUE

\* The address is the primary key of the table.
Inserts(a) == validatorRows[a] = NoRow

\* checkEligibility; the distribution period may be over at any time.
Eligible(a) == a \notin rewarded /\ (a = Developer => ~developerRewarded)

\* registerValidator's INSERT and, in the distribution period, processReward
\* up to the first wait of its updateBalance
InsertValidator(c) ==
    LET k == call[c] IN
    /\ k.pc = "row" /\ k.op = "register"
    /\ IF Inserts(k.of)
       THEN /\ validatorRows' =
                    [validatorRows EXCEPT ![k.of] = [stake |-> k.n, status |-> "active"]]
            /\ \/ /\ Eligible(k.of)
                  /\ call' = [call EXCEPT ![c].pc = "update", ![c].acc = accounts[k.of],
                        ![c].by = IF k.of = Developer THEN DeveloperReward ELSE ValidatorReward]
               \/ Ends(c)
       ELSE Ends(c) /\ UNCHANGED validatorRows
    /\ UNCHANGED <<memory, accountRows, rewardRows, stateRow, calls, history>>

\* The UPDATE of the other calls; they write what they computed from the
\* validator they read.
UpdateValidator(c) ==
    LET k == call[c]
        row == validatorRows[k.of]
        written == IF k.op = "stake" THEN [row EXCEPT !.stake = k.val.stake + k.n]
                   ELSE IF k.op = "unstake" THEN [row EXCEPT !.stake = k.val.stake - k.n]
                   ELSE [row EXCEPT !.status = IF k.op = "jail" THEN "jailed" ELSE "active"]
    IN
    /\ k.pc = "row" /\ k.op # "register"
    /\ validatorRows' = IF row = NoRow THEN validatorRows
                        ELSE [validatorRows EXCEPT ![k.of] = written]
    /\ Ends(c)
    /\ UNCHANGED <<memory, accountRows, rewardRows, stateRow, calls, history>>

\* addBalance's INSERT INTO rewards
RecordReward(c) ==
    /\ call[c].pc = "rewards"
    /\ Goes(c, "distribution")
    /\ UNCHANGED <<memory, database, calls, history>>

\* The address is unique in the table.
RecordDistribution(c) ==
    LET a == call[c].of IN
    /\ call[c].pc = "distribution"
    /\ IF a \in rewardRows
       THEN Ends(c)
       ELSE call' = [call EXCEPT ![c].pc = "state",
                                 ![c].flag = a = Developer \/ developerRewarded]
    /\ rewardRows' = rewardRows \cup {a}
    /\ UNCHANGED <<memory, accountRows, validatorRows, stateRow, calls, history>>

\* INSERT INTO distribution_state, and the end of processReward
RecordState(c) ==
    LET k == call[c] IN
    /\ k.pc = "state"
    /\ stateRow' = k.flag
    /\ rewarded' = rewarded \cup {k.of}
    /\ developerRewarded' = (developerRewarded \/ k.of = Developer)
    /\ Ends(c)
    /\ UNCHANGED <<accounts, validators, accountRows, validatorRows, rewardRows, calls, history>>

-----------------------------------------------------------------------------
(* What goes wrong *)

\* The statement a call waits for fails.  updateBalance reports it to the
\* listeners and returns, and its caller goes on; without listeners the report
\* is thrown, and ends the call.
Fault(c) ==
    LET k == call[c]
        Updating == \/ k.pc \in {"count", "write"}
                    \/ k.pc = "findAccount" /\ k.op \in {"unstake", "add"}
    IN
    /\ k.pc \in {"findValidator", "findAccount", "count", "write", "row", "rewards",
                 "distribution", "state"}
    /\ IF Updating /\ ErrorListener THEN AfterUpdate(c, FALSE) ELSE Ends(c)
    /\ disturbed' = disturbed \cup {k.of}
    /\ UNCHANGED <<memory, database, calls, paid, granted>>

\* A new process, up to the end of initialize.
AccountsRestart ==
    /\ accounts' = accountRows
    /\ validators' = validatorRows
    /\ rewarded' = IF stateRow = NoRow THEN {} ELSE rewardRows
    /\ developerRewarded' = (stateRow = TRUE)
    /\ disturbed' = disturbed \cup {a \in Address : ~Quiet(a)}
    /\ call' = [c \in Caller |-> NoCall]
    /\ UNCHANGED <<database, calls, paid, granted>>

-----------------------------------------------------------------------------
(* The specification *)

AccountsInit ==
    /\ accountRows = FirstRows /\ accounts = FirstRows
    /\ validators = [a \in Address |-> NoRow] /\ validatorRows = validators
    /\ rewarded = {} /\ developerRewarded = FALSE
    /\ rewardRows = {} /\ stateRow = NoRow
    /\ call = [c \in Caller |-> NoCall] /\ calls = 0
    /\ paid = [a \in Address |-> 0]
    /\ granted = [a \in Address |-> IF FirstRows[a] = NoRow THEN 0 ELSE FirstRows[a].balance]
    /\ disturbed = {}

Step(c) ==
    \/ \E op \in Operation, a \in Address, n \in Amount : Begin(c, op, a, n)
    \/ FindValidator(c) \/ FoundValidator(c) \/ FindAccount(c) \/ FoundAccount(c)
    \/ GotValidator(c) \/ GotAccount(c)
    \/ Update(c) \/ Count(c) \/ Write(c)
    \/ InsertValidator(c) \/ UpdateValidator(c)
    \/ RecordReward(c) \/ RecordDistribution(c) \/ RecordState(c)
    \/ Fault(c)

AccountsNext == AccountsRestart \/ \E c \in Caller : Step(c)

AccountsSpec == AccountsInit /\ [][AccountsNext]_accountsVars

-----------------------------------------------------------------------------
(* Properties *)

\* Every variable holds a value of its kind; no balance or stake is negative.
AccountsTypeOK ==
    /\ accounts \in [Address -> AccountRecord \cup {NoRow}]
    /\ accountRows \in [Address -> AccountRecord \cup {NoRow}]
    /\ validators \in [Address -> Validator \cup {NoRow}]
    /\ validatorRows \in [Address -> Validator \cup {NoRow}]
    /\ rewarded \subseteq Address /\ rewardRows \subseteq Address /\ disturbed \subseteq Address
    /\ developerRewarded \in BOOLEAN /\ stateRow \in {NoRow, TRUE, FALSE}
    /\ paid \in [Address -> Nat] /\ granted \in [Address -> Nat] /\ calls \in 0..MaxCalls

\* No address gets the reward of the distribution period twice: not when its
\* calls overlap, nor when the recording of the reward fails, nor after a
\* restart.
PaidOnce == \A a \in Address : paid[a] <= 1

HeldIn(a) ==
    (IF accounts[a] = NoRow THEN 0 ELSE accounts[a].balance)
        + (IF validators[a] = NoRow THEN 0 ELSE validators[a].stake)

RowsMatch(a) ==
    /\ accountRows[a] = accounts[a] \/ (accountRows[a] = NoRow /\ accounts[a] = Empty)
    /\ validatorRows[a] = validators[a]
    /\ a \in rewarded <=> a \in rewardRows

\* Between calls the balance and the stake of an address are together what it
\* was given, and the rows a restart finds say the same, unless calls for this
\* address overlapped or failed; calls for other addresses do no harm.
Conserved ==
    \A a \in Address \ disturbed : Quiet(a) => HeldIn(a) = granted[a] /\ RowsMatch(a)

=============================================================================
