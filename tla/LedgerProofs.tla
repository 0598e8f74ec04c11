---------------------------- MODULE LedgerProofs ----------------------------
(***************************************************************************)
(* The two state machines: the accounts on top of PostgreSQL (Accounts)    *)
(* and the ledger of the blockchain (Ledger).  Types, the order of nonces, *)
(* and that value is neither made nor lost, for any addresses, callers,    *)
(* amounts, transactions, blocks and failures.                             *)
(*                                                                         *)
(* PaidOnce holds because a reward is only ever begun by the call that     *)
(* inserted the row of the validator, and that row stays (Rewards).  That  *)
(* rows stay needs the types, and these need what a call remembers between *)
(* two waits (CallOK): that the account and the validator it read are      *)
(* there, and that the sum it is about to write is not negative.           *)
(*                                                                         *)
(* Conserved is about addresses that no call is about.  ConservedInv says  *)
(* for every place of every call what the address it is about has in       *)
(* memory and in the tables (OnItsWay): which half of a change of the      *)
(* stake is done, what is not yet in a row, and that what the call read is *)
(* still so, since it is alone (Carried).                                  *)
(*                                                                         *)
(* Backed is about sums over all addresses.  LedgerInv says how far the    *)
(* supply may be at a height (Minted), which keeps rewards from becoming   *)
(* negative; BackedInv, that what is saved is backed like what runs, and   *)
(* which half of the saved state is there while it is loaded.              *)
(***************************************************************************)
EXTENDS Accounts, Ledger, FiniteSetTheorems, WellFoundedInduction, TLAPS

AccountRow == AccountRecord \cup {NoRow}
Row == Validator \cup {NoRow}

Places == {"begin", "findValidator", "foundValidator", "gotValidator", "findAccount",
           "foundAccount", "gotAccount", "update", "count", "write", "row", "rewards", "distribution",
           "state"}

Calls == [op : Operation, of : Address, n : Amount, by : Int, pc : Places,
          val : Row, acc : AccountRow, flag : BOOLEAN]

\* the places after the validator was read
Later == {"findAccount", "foundAccount", "gotAccount", "update", "count", "write", "row"}

CallOK(k, accs, rows) ==
    /\ k.pc \in {"gotAccount", "update", "count", "write"} => k.acc # NoRow /\ accs[k.of] # NoRow
    /\ k.op = "register" /\ k.pc = "row" => accs[k.of] # NoRow
    /\ k.pc \in {"count", "write"} /\ k.op # "nonce" => k.acc.balance + k.by >= 0
    /\ k.pc = "write" /\ k.flag => rows[k.of] # NoRow
    /\ k.op \in {"stake", "unstake"} /\ k.pc \in Later => k.val # NoRow
    /\ k.op = "unstake" /\ k.pc \in Later => k.val.stake - k.n >= 0
    /\ k.op = "add" => k.by >= 0
    /\ k.op = "register" /\ k.by > 0 =>
          k.pc \in {"update", "count", "write", "rewards", "distribution",
           "state"}

CallsOK ==
    /\ call \in [Caller -> {NoCall} \cup Calls]
    /\ \A c \in Caller : call[c] # NoCall => CallOK(call[c], accounts, accountRows)

Rewarding(k) == k # NoCall /\ k.op = "register" /\ k.by > 0

Rewards ==
    /\ \A a \in Address : /\ paid[a] \in {0, 1}
                          /\ validatorRows[a] = NoRow => paid[a] = 0
    /\ \A c \in Caller : Rewarding(call[c]) =>
          /\ validatorRows[call[c].of] # NoRow
          /\ call[c].pc = "update" => paid[call[c].of] = 0
          /\ \A d \in Caller \ {c} : Rewarding(call[d]) => call[d].of # call[c].of

AccInv == AccountsTypeOK /\ CallsOK /\ Rewards

Stays(f, g) == \A a \in Address : f[a] # NoRow => g[a] # NoRow

-----------------------------------------------------------------------------
(* Calls *)

LEMMA InCall ==
    ASSUME CallsOK, NEW c \in Caller, NEW pc \in Places, call[c].pc = pc
    PROVE  /\ call[c] # NoCall /\ call[c] \in Calls /\ CallOK(call[c], accounts, accountRows)
           /\ call[c].of \in Address /\ call[c].n \in Nat /\ call[c].n > 0 /\ call[c].by \in Int
<1>1. NoCall.pc = "idle" /\ pc # "idle"
  BY DEF NoCall, Places
<1>2. call[c] # NoCall
  BY <1>1
<1>3. call[c] \in Calls /\ CallOK(call[c], accounts, accountRows)
  BY <1>2 DEF CallsOK
<1>4. call[c].of \in Address /\ call[c].n \in Amount /\ call[c].by \in Int
  BY <1>3 DEF Calls
<1>5. \A n \in Amount : n \in Nat /\ n > 0
  BY AccountsAssumption
<1> QED
  BY <1>2, <1>3, <1>4, <1>5

\* A step of one call that neither pays nor inserts a validator
LEMMA OneCall ==
    ASSUME AccInv, NEW c \in Caller, NEW k \in {NoCall} \cup Calls,
           call' = [call EXCEPT ![c] = k], k # NoCall => CallOK(k, accounts', accountRows'),
           Rewarding(k) => /\ Rewarding(call[c]) /\ k.of = call[c].of
                           /\ k.pc = "update" => call[c].pc = "update",
           AccountsTypeOK', Stays(accounts, accounts'), Stays(accountRows, accountRows'),
           Stays(validatorRows, validatorRows'), paid' = paid
    PROVE  AccInv'
<1>1. /\ call' \in [Caller -> {NoCall} \cup Calls] /\ call'[c] = k
      /\ \A d \in Caller \ {c} : call'[d] = call[d]
  BY DEF AccInv, CallsOK
<1>2. CallsOK'
  <2> SUFFICES ASSUME NEW d \in Caller, d # c, call[d] # NoCall
               PROVE  CallOK(call[d], accounts', accountRows')
    BY <1>1 DEF CallsOK
  <2>1. call[d] \in Calls /\ CallOK(call[d], accounts, accountRows)
    BY DEF AccInv, CallsOK
  <2>2. call[d].of \in Address
    BY <2>1 DEF Calls
  <2> QED
    BY <2>1, <2>2 DEF CallOK, Stays
<1>3. Rewards'
  <2>1. \A a \in Address : paid'[a] \in {0, 1} /\ (validatorRows'[a] = NoRow => paid'[a] = 0)
    BY DEF AccInv, Rewards, Stays
  <2>2. \A d \in Caller : Rewarding(call'[d]) =>
           /\ Rewarding(call[d]) /\ call'[d].of = call[d].of /\ call[d].of \in Address
           /\ call'[d].pc = "update" => call[d].pc = "update"
    <3>1. \A d \in Caller : Rewarding(call[d]) => call[d].of \in Address
      BY DEF AccInv, CallsOK, Rewarding, Calls
    <3> QED
      BY <1>1, <3>1
  <2>3. ASSUME NEW d \in Caller, Rewarding(call'[d])
        PROVE  /\ validatorRows'[call'[d].of] # NoRow
               /\ call'[d].pc = "update" => paid'[call'[d].of] = 0
               /\ \A e \in Caller \ {d} : Rewarding(call'[e]) => call'[e].of # call'[d].of
    BY <2>2, <2>3 DEF AccInv, Rewards, Stays
  <2> QED
    BY <2>1, <2>3 DEF Rewards, Rewarding
<1> QED
  BY <1>2, <1>3 DEF AccInv

LEMMA NoCallNotRewarding == ~Rewarding(NoCall)
BY DEF Rewarding

\* Only the call changes.
LEMMA CallOnly ==
    ASSUME AccInv, NEW c \in Caller, NEW k \in {NoCall} \cup Calls,
           call' = [call EXCEPT ![c] = k], k # NoCall => CallOK(k, accounts, accountRows),
           Rewarding(k) => /\ Rewarding(call[c]) /\ k.of = call[c].of
                           /\ k.pc = "update" => call[c].pc = "update",
           UNCHANGED <<memory, database, paid, granted>>, disturbed' \subseteq Address,
           calls' \in 0..MaxCalls
    PROVE  AccInv'
<1>1. UNCHANGED <<accounts, validators, rewarded, developerRewarded, accountRows, validatorRows,
                  rewardRows, stateRow, paid, granted>>
  BY DEF memory, database
<1>2. AccountsTypeOK'
  BY <1>1 DEF AccInv, AccountsTypeOK
<1>3. /\ Stays(accounts, accounts') /\ Stays(accountRows, accountRows')
      /\ Stays(validatorRows, validatorRows')
  BY <1>1 DEF Stays
<1> QED
  BY <1>1, <1>2, <1>3, OneCall

\* A call that ends is none.
LEMMA EndsStep ==
    ASSUME AccInv, NEW c \in Caller, Ends(c), UNCHANGED <<memory, database, paid, granted>>,
           disturbed' \subseteq Address, calls' \in 0..MaxCalls
    PROVE  AccInv'
BY CallOnly, NoCallNotRewarding DEF Ends

\* getAccount goes on with k, a call that has come as far as to read an account.
LEMMA AskAccountStep ==
    ASSUME AccInv, NEW c \in Caller, NEW k \in Calls, AskAccount(c, k),
           k.op \in {"stake", "unstake"} => k.val # NoRow,
           k.op = "unstake" => k.val.stake - k.n >= 0,
           k.op = "add" => k.by >= 0, k.op = "register" => k.by <= 0,
           UNCHANGED <<accounts, accountRows, validatorRows, paid>>, AccountsTypeOK'
    PROVE  AccInv'
<1> DEFINE place == IF accounts[k.of] = NoRow THEN "findAccount"
                    ELSE IF k.op \in {"unstake", "add"} THEN "update" ELSE "gotAccount"
           ka == [k EXCEPT !.acc = accounts[k.of], !.pc = place]
<1>1. /\ k.of \in Address /\ k.by \in Int /\ k.op \in Operation
      /\ accounts[k.of] \in AccountRow
  BY DEF Calls, AccInv, AccountsTypeOK, AccountRow
<1>0. /\ place \in {"findAccount", "update", "gotAccount"}
      /\ place # "findAccount" => accounts[k.of] # NoRow
      /\ place = "update" => k.op # "register"
  OBVIOUS
<1>3. call' = [call EXCEPT ![c] = ka]
  BY DEF AskAccount
<1> HIDE DEF place
<1>2. /\ ka \in Calls /\ ka.op = k.op /\ ka.of = k.of /\ ka.by = k.by /\ ka.n = k.n
      /\ ka.val = k.val /\ ka.acc = accounts[k.of] /\ ka.pc = place
  BY <1>0, <1>1 DEF Calls, Places
<1> HIDE DEF ka
<1>4. CallOK(ka, accounts, accountRows) /\ ~Rewarding(ka)
  BY <1>0, <1>1, <1>2 DEF CallOK, Rewarding
<1> QED
  BY <1>2, <1>3, <1>4, OneCall DEF Stays

\* getValidator goes on with k.
LEMMA AskValidatorStep ==
    ASSUME AccInv, NEW c \in Caller, NEW k \in Calls, AskValidator(c, k),
           k.op = "add" => k.by >= 0, k.op = "register" => k.by <= 0,
           UNCHANGED <<accounts, accountRows, validatorRows, paid>>, AccountsTypeOK'
    PROVE  AccInv'
<1> DEFINE kv == [k EXCEPT !.val = validators[k.of],
                           !.pc = IF validators[k.of] = NoRow THEN "findValidator" ELSE "gotValidator"]
<1>1. /\ k.of \in Address /\ k.by \in Int /\ k.op \in Operation
      /\ validators[k.of] \in Row
  BY DEF Calls, AccInv, AccountsTypeOK, Row
<1>2. /\ kv \in Calls /\ kv.op = k.op /\ kv.by = k.by
      /\ kv.pc \in {"findValidator", "gotValidator"}
  BY <1>1 DEF Calls, Places
<1>3. call' = [call EXCEPT ![c] = kv]
  BY DEF AskValidator
<1> HIDE DEF kv
<1>4. CallOK(kv, accounts, accountRows) /\ ~Rewarding(kv)
  BY <1>1, <1>2 DEF CallOK, Rewarding, Later
<1> QED
  BY <1>2, <1>3, <1>4, OneCall DEF Stays

-----------------------------------------------------------------------------
(* Reading *)

LEMMA BeginStep ==
    ASSUME AccInv, NEW c \in Caller, NEW op \in Operation, NEW a \in Address, NEW n \in Amount,
           Begin(c, op, a, n)
    PROVE  AccInv'
<1> DEFINE k == [op |-> op, of |-> a, n |-> n, by |-> Owed(op, n), pc |-> "begin",
                 val |-> NoRow, acc |-> NoRow, flag |-> FALSE]
<1>1. n \in Nat /\ n > 0 /\ Owed(op, n) \in Int /\ (op = "add" => Owed(op, n) >= 0)
      /\ (op = "register" => Owed(op, n) <= 0)
  BY AccountsAssumption DEF Owed
<1>2. k \in Calls /\ k.op = op /\ k.by = Owed(op, n)
  BY <1>1 DEF Calls, Places, Row, AccountRow
<1>3. /\ IF op \in {"add", "nonce"} THEN AskAccount(c, k) ELSE AskValidator(c, k)
      /\ calls < MaxCalls /\ calls' = calls + 1
      /\ disturbed' = IF Quiet(a) THEN disturbed ELSE disturbed \cup {a}
      /\ UNCHANGED <<memory, database, paid, granted>>
  BY DEF Begin
<1>4. calls' \in 0..MaxCalls /\ disturbed' \subseteq Address
  BY <1>3, AccountsAssumption DEF AccInv, AccountsTypeOK
<1>5. AccountsTypeOK' /\ UNCHANGED <<accounts, accountRows, validatorRows, paid>>
  BY <1>3, <1>4 DEF memory, database, AccInv, AccountsTypeOK
<1> HIDE DEF k
<1> QED
  BY <1>1, <1>2, <1>3, <1>5, AskAccountStep, AskValidatorStep

\* The answers to reads
LEMMA ReadingSteps ==
    ASSUME AccInv, NEW c \in Caller,
           FindValidator(c) \/ FoundValidator(c) \/ FindAccount(c) \/ FoundAccount(c) \/ Count(c)
    PROVE  AccInv'
<1> DEFINE k == call[c]
<1>0. AccountsTypeOK /\ CallsOK
  BY DEF AccInv
<1>1. ASSUME NEW pc \in Places, k.pc = pc
      PROVE  /\ k \in Calls /\ CallOK(k, accounts, accountRows) /\ k # NoCall
             /\ k.of \in Address /\ k.by \in Int /\ k.val \in Row /\ k.acc \in AccountRow
             /\ k.op \in Operation
             /\ accounts[k.of] \in AccountRow /\ accountRows[k.of] \in AccountRow
             /\ validators[k.of] \in Row /\ validatorRows[k.of] \in Row
  <2>1. k \in Calls /\ CallOK(k, accounts, accountRows) /\ k # NoCall
    BY <1>0, <1>1, InCall
  <2> QED
    BY <1>0, <2>1 DEF Calls, AccountsTypeOK, AccountRow, Row
<1>2. CASE FindValidator(c)
  <2> DEFINE k2 == [k EXCEPT !.val = validatorRows[k.of], !.pc = "foundValidator"]
  <2>1. /\ k.pc = "findValidator" /\ call' = [call EXCEPT ![c] = k2]
        /\ UNCHANGED <<memory, database, calls, history>>
    BY <1>2 DEF FindValidator
  <2>2. /\ k \in Calls /\ CallOK(k, accounts, accountRows) /\ k.by \in Int
        /\ validatorRows[k.of] \in Row
    BY <1>1, <2>1 DEF Places
  <2>3. k2 \in Calls /\ k2.pc = "foundValidator" /\ k2.op = k.op /\ k2.by = k.by
    BY <2>2 DEF Calls, Places
  <2> HIDE DEF k2
  <2>4. CallOK(k2, accounts, accountRows) /\ ~Rewarding(k2)
    BY <2>1, <2>2, <2>3 DEF CallOK, Rewarding, Later
  <2>5. UNCHANGED <<memory, database, paid, granted, disturbed, calls>>
    BY <2>1 DEF history
  <2> QED
    BY <1>0, <2>1, <2>3, <2>4, <2>5, CallOnly DEF AccountsTypeOK
<1>3. CASE FindAccount(c)
  <2> DEFINE k2 == [k EXCEPT !.acc = accountRows[k.of], !.pc = "foundAccount"]
  <2>1. /\ k.pc = "findAccount" /\ call' = [call EXCEPT ![c] = k2]
        /\ UNCHANGED <<memory, database, calls, history>>
    BY <1>3 DEF FindAccount
  <2>2. /\ k \in Calls /\ CallOK(k, accounts, accountRows) /\ k.by \in Int
        /\ accountRows[k.of] \in AccountRow
    BY <1>1, <2>1 DEF Places
  <2>3. /\ k2 \in Calls /\ k2.pc = "foundAccount" /\ k2.op = k.op /\ k2.by = k.by
        /\ k2.val = k.val /\ k2.n = k.n
    BY <2>2 DEF Calls, Places
  <2> HIDE DEF k2
  <2>4. CallOK(k2, accounts, accountRows) /\ ~Rewarding(k2)
    BY <2>1, <2>2, <2>3 DEF CallOK, Rewarding, Later
  <2>5. UNCHANGED <<memory, database, paid, granted, disturbed, calls>>
    BY <2>1 DEF history
  <2> QED
    BY <1>0, <2>1, <2>3, <2>4, <2>5, CallOnly DEF AccountsTypeOK
<1>4. CASE Count(c)
  <2> DEFINE k2 == [k EXCEPT !.flag = accountRows[k.of] # NoRow, !.pc = "write"]
  <2>1. /\ k.pc = "count" /\ call' = [call EXCEPT ![c] = k2]
        /\ UNCHANGED <<memory, database, calls, history>>
    BY <1>4 DEF Count
  <2>2. /\ k \in Calls /\ CallOK(k, accounts, accountRows) /\ k.by \in Int
        /\ k # NoCall
    BY <1>1, <2>1 DEF Places
  <2>3. (accountRows[k.of] # NoRow) \in BOOLEAN
    BY Zenon
  <2>4. /\ k2 \in Calls /\ k2.pc = "write" /\ k2.op = k.op /\ k2.by = k.by /\ k2.of = k.of
        /\ k2.val = k.val /\ k2.n = k.n /\ k2.acc = k.acc
    BY <2>2, <2>3 DEF Calls, Places
  <2>5. k2.flag = (accountRows[k.of] # NoRow)
    BY <2>2 DEF Calls
  <2> HIDE DEF k2
  <2>6. CallOK(k2, accounts, accountRows)
    BY <2>1, <2>2, <2>4, <2>5 DEF CallOK, Later
  <2>7. Rewarding(k2) => Rewarding(k)
    BY <2>2, <2>4 DEF Rewarding
  <2>8. UNCHANGED <<memory, database, paid, granted, disturbed, calls>>
    BY <2>1 DEF history
  <2> QED
    BY <1>0, <2>1, <2>4, <2>6, <2>7, <2>8, CallOnly DEF AccountsTypeOK
<1>5. CASE FoundValidator(c)
  <2> DEFINE k2 == [k EXCEPT !.pc = "gotValidator"]
  <2>1. /\ k.pc = "foundValidator" /\ call' = [call EXCEPT ![c] = k2]
        /\ validators' = IF k.val = NoRow THEN validators ELSE [validators EXCEPT ![k.of] = k.val]
        /\ UNCHANGED <<accounts, rewarded, developerRewarded, database, calls, history>>
    BY <1>5 DEF FoundValidator, Goes
  <2>2. /\ k \in Calls /\ CallOK(k, accounts, accountRows) /\ k.by \in Int
        /\ k.val \in Row
    BY <1>1, <2>1 DEF Places
  <2>3. k2 \in Calls /\ k2.pc = "gotValidator" /\ k2.op = k.op /\ k2.by = k.by
    BY <2>2 DEF Calls, Places
  <2> HIDE DEF k2
  <2>4. CallOK(k2, accounts, accountRows) /\ ~Rewarding(k2)
    BY <2>1, <2>2, <2>3 DEF CallOK, Rewarding, Later
  <2>5. UNCHANGED <<accounts, rewarded, developerRewarded, accountRows, validatorRows, rewardRows,
                    stateRow, paid, granted, disturbed, calls>>
    BY <2>1 DEF history, database
  <2>6. validators' \in [Address -> Row]
    BY <1>0, <2>1, <2>2 DEF AccountsTypeOK, Row
  <2>7. AccountsTypeOK'
    BY <1>0, <2>5, <2>6 DEF AccountsTypeOK, Row
  <2> QED
    BY <2>1, <2>3, <2>4, <2>5, <2>7, OneCall DEF Stays
<1>6. CASE FoundAccount(c)
  <2> DEFINE found == IF k.acc = NoRow THEN Empty ELSE k.acc
             k2 == [k EXCEPT !.acc = found,
                             !.pc = IF k.op \in {"unstake", "add"} THEN "update" ELSE "gotAccount"]
  <2>1. /\ k.pc = "foundAccount" /\ call' = [call EXCEPT ![c] = k2]
        /\ accounts' = [accounts EXCEPT ![k.of] = found]
        /\ UNCHANGED <<validators, rewarded, developerRewarded, database, calls, history>>
    BY <1>6 DEF FoundAccount
  <2>2. /\ k \in Calls /\ CallOK(k, accounts, accountRows) /\ k.by \in Int
        /\ k.acc \in AccountRow /\ k.of \in Address
    BY <1>1, <2>1 DEF Places
  <2>3. found \in AccountRecord /\ found # NoRow
    BY <2>2, AccountsAssumption DEF AccountRow, AccountRecord, Empty
  <2>4. /\ k2 \in Calls /\ k2.pc \in {"update", "gotAccount"} /\ k2.op = k.op /\ k2.by = k.by
        /\ k2.of = k.of /\ k2.acc = found /\ k2.val = k.val /\ k2.n = k.n
    BY <2>2, <2>3 DEF Calls, Places, AccountRow
  <2> HIDE DEF k2, found
  <2>5. UNCHANGED <<validators, rewarded, developerRewarded, accountRows, validatorRows, rewardRows,
                    stateRow, paid, granted, disturbed, calls>>
    BY <2>1 DEF history, database
  <2>6. accounts' \in [Address -> AccountRow] /\ accounts'[k.of] # NoRow /\ Stays(accounts, accounts')
    BY <1>0, <2>1, <2>2, <2>3 DEF AccountsTypeOK, AccountRow, Stays
  <2>7. CallOK(k2, accounts', accountRows) /\ ~Rewarding(k2)
    BY <2>1, <2>2, <2>3, <2>4, <2>6 DEF CallOK, Rewarding, Later
  <2>8. AccountsTypeOK'
    BY <1>0, <2>5, <2>6 DEF AccountsTypeOK, AccountRow
  <2> QED
    BY <2>1, <2>4, <2>5, <2>6, <2>7, <2>8, OneCall DEF Stays
<1> QED
  BY <1>2, <1>3, <1>4, <1>5, <1>6

-----------------------------------------------------------------------------
(* What the calls change in memory *)

\* What a call that has come somewhere has read
LEMMA CallParts ==
    ASSUME AccInv, NEW c \in Caller, NEW pc \in Places, call[c].pc = pc
    PROVE  /\ call[c] \in Calls /\ CallOK(call[c], accounts, accountRows) /\ call[c] # NoCall
           /\ call[c].of \in Address /\ call[c].n \in Nat /\ call[c].n > 0 /\ call[c].by \in Int
           /\ call[c].val \in Row /\ call[c].acc \in AccountRow /\ call[c].op \in Operation
           /\ call[c].flag \in BOOLEAN
<1>1. /\ call[c] \in Calls /\ CallOK(call[c], accounts, accountRows) /\ call[c] # NoCall
      /\ call[c].of \in Address /\ call[c].n \in Nat /\ call[c].n > 0 /\ call[c].by \in Int
  BY InCall DEF AccInv
<1> QED
  BY <1>1 DEF Calls

\* A validator is put into memory, and the call goes on to a row.
LEMMA JailSteps ==
    ASSUME AccInv, NEW c \in Caller, call[c].pc = "gotValidator", NEW v \in Validator,
           call[c].op \in {"jail", "unjail"},
           validators' = [validators EXCEPT ![call[c].of] = v], Goes(c, "row"),
           UNCHANGED <<accounts, rewarded, developerRewarded, database, calls, history>>
    PROVE  AccInv'
<1> DEFINE k == call[c]
           k2 == [k EXCEPT !.pc = "row"]
<1>1. k \in Calls /\ k # NoCall /\ k.of \in Address /\ k.by \in Int
  BY CallParts DEF Places
<1>2. k2 \in Calls /\ k2.pc = "row" /\ k2.op = k.op
  BY <1>1 DEF Calls, Places
<1>3. call' = [call EXCEPT ![c] = k2]
  BY DEF Goes
<1> HIDE DEF k2
<1>4. CallOK(k2, accounts, accountRows) /\ ~Rewarding(k2)
  BY <1>2 DEF CallOK, Rewarding
<1>5. UNCHANGED <<accounts, rewarded, developerRewarded, accountRows, validatorRows, rewardRows,
                  stateRow, paid, granted, disturbed, calls>>
  BY DEF history, database
<1>6. AccountsTypeOK'
  BY <1>1, <1>5 DEF AccInv, AccountsTypeOK
<1> QED
  BY <1>2, <1>3, <1>4, <1>5, <1>6, OneCall DEF Stays

LEMMA GotValidatorStep == ASSUME AccInv, NEW c \in Caller, GotValidator(c) PROVE AccInv'
<1> DEFINE k == call[c]
           Writes(val) == validators' = [validators EXCEPT ![k.of] = val]
<1>1. /\ k.pc = "gotValidator"
      /\ UNCHANGED <<accounts, rewarded, developerRewarded, database, calls, history>>
  BY DEF GotValidator
<1>2. /\ k \in Calls /\ CallOK(k, accounts, accountRows) /\ k # NoCall
      /\ k.of \in Address /\ k.n \in Nat /\ k.n > 0 /\ k.by \in Int /\ k.val \in Row
      /\ (k.op = "add" => k.by >= 0) /\ (k.op = "register" => k.by <= 0)
  <2>1. /\ k \in Calls /\ CallOK(k, accounts, accountRows) /\ k # NoCall
        /\ k.of \in Address /\ k.n \in Nat /\ k.n > 0 /\ k.by \in Int /\ k.val \in Row
    BY <1>1, CallParts DEF Places
  <2> QED
    BY <1>1, <2>1 DEF CallOK
<1>3. /\ UNCHANGED <<accounts, rewarded, developerRewarded, accountRows, validatorRows, rewardRows,
                     stateRow, paid, granted, disturbed, calls>>
      /\ AccountsTypeOK
  BY <1>1 DEF history, database, AccInv
<1>4. ASSUME validators' \in [Address -> Row] PROVE AccountsTypeOK'
  BY <1>3, <1>4 DEF AccountsTypeOK, Row
<1>5. CASE /\ \/ k.op = "register" /\ k.val = NoRow
              \/ k.op = "stake" /\ k.val # NoRow
           /\ AskAccount(c, k) /\ UNCHANGED validators
  <2>1. AccountsTypeOK'
    BY <1>3, <1>4, <1>5 DEF AccountsTypeOK, Row
  <2> QED
    BY <1>2, <1>3, <1>5, <2>1, AskAccountStep
<1>6. CASE /\ k.op = "unstake" /\ k.val # NoRow /\ MayUnstake(k.val, k.n)
           /\ Writes([k.val EXCEPT !.stake = @ - k.n]) /\ AskAccount(c, k)
  <2>1. k.val \in Validator /\ k.val.stake \in Nat /\ k.val.stake - k.n >= 0
    BY <1>2, <1>6 DEF Row, Validator, MayUnstake
  <2>2. [k.val EXCEPT !.stake = @ - k.n] \in Validator
    BY <1>2, <2>1 DEF Validator
  <2>3. AccountsTypeOK'
    BY <1>2, <1>3, <1>4, <1>6, <2>2 DEF AccountsTypeOK, Row
  <2> QED
    BY <1>2, <1>3, <1>6, <2>1, <2>3, AskAccountStep
<1>7. CASE k.op = "jail" /\ k.val # NoRow /\ Writes([k.val EXCEPT !.status = "jailed"]) /\ Goes(c, "row")
  <2>1. [k.val EXCEPT !.status = "jailed"] \in Validator
    BY <1>2, <1>7 DEF Row, Validator
  <2> QED
    BY <1>1, <1>7, <2>1, JailSteps
<1>8. CASE /\ k.op = "unjail" /\ k.val # NoRow /\ Writes([k.val EXCEPT !.status = "active"])
           /\ Goes(c, "row")
  <2>1. [k.val EXCEPT !.status = "active"] \in Validator
    BY <1>2, <1>8 DEF Row, Validator
  <2> QED
    BY <1>1, <1>8, <2>1, JailSteps
<1>9. CASE Ends(c) /\ UNCHANGED validators
  BY <1>1, <1>3, <1>9, EndsStep DEF memory, history, AccountsTypeOK
<1> QED
  BY <1>5, <1>6, <1>7, <1>8, <1>9 DEF GotValidator

LEMMA GotAccountStep == ASSUME AccInv, NEW c \in Caller, GotAccount(c) PROVE AccInv'
<1> DEFINE k == call[c]
           Stakes(val) ==
            /\ validators' = [validators EXCEPT ![k.of] = val]
            /\ call' = [call EXCEPT ![c].pc = "update", ![c].acc = accounts[k.of]]
            /\ UNCHANGED accounts
<1>1. /\ k.pc = "gotAccount"
      /\ UNCHANGED <<rewarded, developerRewarded, database, calls, history>>
  BY DEF GotAccount
<1>2. /\ k \in Calls /\ CallOK(k, accounts, accountRows) /\ k # NoCall
      /\ k.of \in Address /\ k.n \in Nat /\ k.n > 0 /\ k.by \in Int /\ k.val \in Row
      /\ k.acc \in AccountRow /\ k.acc # NoRow /\ accounts[k.of] # NoRow
      /\ (k.op = "register" => k.by <= 0)
  <2>1. /\ k \in Calls /\ CallOK(k, accounts, accountRows) /\ k # NoCall
        /\ k.of \in Address /\ k.n \in Nat /\ k.n > 0 /\ k.by \in Int /\ k.val \in Row
        /\ k.acc \in AccountRow
    BY <1>1, CallParts DEF Places
  <2> QED
    BY <1>1, <2>1 DEF CallOK
<1>3. /\ UNCHANGED <<rewarded, developerRewarded, accountRows, validatorRows, rewardRows,
                     stateRow, paid, granted, disturbed, calls>>
      /\ AccountsTypeOK
  BY <1>1 DEF history, database, AccInv
<1>4. k.acc \in AccountRecord /\ k.acc.balance \in Nat /\ accounts[k.of] \in AccountRow
  BY <1>2, <1>3 DEF AccountRow, AccountRecord, AccountsTypeOK
<1>5. ASSUME NEW v \in Validator, Stakes(v), k.op \in {"register", "stake"},
             k.op = "stake" => k.val # NoRow
      PROVE  AccInv'
  <2> DEFINE k2 == [k EXCEPT !.pc = "update", !.acc = accounts[k.of]]
  <2>1. /\ k2 \in Calls /\ k2.pc = "update" /\ k2.op = k.op /\ k2.by = k.by /\ k2.of = k.of
        /\ k2.val = k.val /\ k2.acc = accounts[k.of]
    BY <1>2, <1>4 DEF Calls, Places
  <2>2. call' = [call EXCEPT ![c] = k2]
    BY <1>5
  <2> HIDE DEF k2
  <2>3. CallOK(k2, accounts, accountRows) /\ ~Rewarding(k2)
    BY <1>2, <1>5, <2>1 DEF CallOK, Rewarding
  <2>4. AccountsTypeOK'
    BY <1>2, <1>3, <1>5 DEF AccountsTypeOK
  <2> QED
    BY <1>3, <1>5, <2>1, <2>2, <2>3, <2>4, OneCall DEF Stays
<1>6. CASE /\ k.op = "register" /\ k.acc.balance >= k.n /\ k.n >= MinStake
           /\ Stakes([stake |-> k.n, status |-> "active"])
  <2>1. [stake |-> k.n, status |-> "active"] \in Validator
    BY <1>2 DEF Validator
  <2> HIDE DEF Stakes
  <2> QED
    BY <1>5, <1>6, <2>1
<1>7. CASE k.op = "stake" /\ k.acc.balance >= k.n /\ Stakes(Staked(k.val, k.n))
  <2>1. k.val # NoRow
    BY <1>1, <1>2, <1>7 DEF CallOK, Later
  <2>2. Staked(k.val, k.n) \in Validator
    BY <1>2, <2>1 DEF Staked, Validator, Row
  <2> HIDE DEF Stakes
  <2> QED
    BY <1>5, <1>7, <2>1, <2>2
<1>8. CASE /\ k.op = "nonce" /\ k.n > k.acc.nonce
           /\ accounts' = [accounts EXCEPT ![k.of] = [k.acc EXCEPT !.nonce = k.n]]
           /\ Goes(c, "count") /\ UNCHANGED validators
  <2> DEFINE k2 == [k EXCEPT !.pc = "count"]
             acc == [k.acc EXCEPT !.nonce = k.n]
  <2>1. /\ k2 \in Calls /\ k2.pc = "count" /\ k2.op = "nonce" /\ k2.of = k.of /\ k2.acc = k.acc
    BY <1>2, <1>8 DEF Calls, Places
  <2>2. call' = [call EXCEPT ![c] = k2]
    BY <1>8 DEF Goes
  <2>3. acc \in AccountRecord
    BY <1>2, <1>4 DEF AccountRecord
  <2>4. acc # NoRow
    BY <2>3, AccountsAssumption
  <2>5. accounts' = [accounts EXCEPT ![k.of] = acc]
    BY <1>8
  <2> HIDE DEF k2, acc
  <2>6. accounts' \in [Address -> AccountRow] /\ Stays(accounts, accounts') /\ accounts'[k.of] # NoRow
    BY <1>2, <1>3, <2>3, <2>4, <2>5 DEF AccountsTypeOK, AccountRow, Stays
  <2>7. CallOK(k2, accounts', accountRows) /\ ~Rewarding(k2)
    BY <1>2, <2>1, <2>6 DEF CallOK, Rewarding
  <2>8. AccountsTypeOK'
    BY <1>3, <1>8, <2>6 DEF AccountsTypeOK, AccountRow
  <2> QED
    BY <1>3, <2>1, <2>2, <2>6, <2>7, <2>8, OneCall DEF Stays
<1>9. CASE Ends(c) /\ UNCHANGED <<accounts, validators>>
  BY <1>1, <1>3, <1>9, EndsStep DEF memory, history, AccountsTypeOK
<1> QED
  BY <1>6, <1>7, <1>8, <1>9 DEF GotAccount

-----------------------------------------------------------------------------
(* updateBalance *)

LEMMA AfterUpdateStep ==
    ASSUME AccInv, NEW c \in Caller, call[c].pc \in {"findAccount", "update", "count", "write"},
           call[c].pc = "findAccount" => call[c].op \in {"unstake", "add"},
           NEW success \in BOOLEAN, AfterUpdate(c, success),
           AccountsTypeOK', Stays(accounts, accounts'), Stays(accountRows, accountRows'),
           validatorRows' = validatorRows, paid' = paid
    PROVE  AccInv'
<1> DEFINE k == call[c]
           place == IF ~IsReward(k) THEN "row" ELSE IF success THEN "rewards" ELSE "distribution"
           k2 == [k EXCEPT !.pc = place]
<1>1. /\ k \in Calls /\ CallOK(k, accounts, accountRows) /\ k # NoCall
      /\ k.of \in Address /\ k.by \in Int
  BY CallParts DEF Places
<1>2. CASE k.op \in {"add", "nonce"}
  <2>1. call' = [call EXCEPT ![c] = NoCall]
    BY <1>2 DEF AfterUpdate, Ends
  <2> QED
    BY <2>1, OneCall, NoCallNotRewarding DEF Stays
<1>3. CASE k.op \notin {"add", "nonce"}
  <2>1. call' = [call EXCEPT ![c] = k2]
    BY <1>3 DEF AfterUpdate, Goes
  <2>2. place \in {"row", "rewards", "distribution"} /\ (place = "row" => ~IsReward(k))
    OBVIOUS
  <2> HIDE DEF place
  <2>3. /\ k2 \in Calls /\ k2.pc = place /\ k2.op = k.op /\ k2.by = k.by /\ k2.of = k.of
        /\ k2.val = k.val /\ k2.n = k.n
    BY <1>1, <2>2 DEF Calls, Places
  <2> HIDE DEF k2
  <2>4. CallOK(k2, accounts', accountRows')
    BY <1>1, <2>2, <2>3 DEF CallOK, IsReward, Later, Stays
  <2>5. Rewarding(k2) => Rewarding(k) /\ k2.pc # "update"
    BY <1>1, <2>2, <2>3 DEF Rewarding
  <2> QED
    BY <2>1, <2>3, <2>4, <2>5, OneCall DEF Stays
<1> QED
  BY <1>2, <1>3

LEMMA UpdateStep == ASSUME AccInv, NEW c \in Caller, Update(c) PROVE AccInv'
<1> DEFINE k == call[c]
           gift == IF k.op = "add" \/ IsReward(k) THEN k.by ELSE 0
           acc == [k.acc EXCEPT !.balance = @ + k.by]
           k2 == [k EXCEPT !.pc = "count"]
<1>1. /\ k.pc = "update" /\ AccountsTypeOK
      /\ UNCHANGED <<validators, rewarded, developerRewarded, database, calls, disturbed>>
  BY DEF Update, AccInv
<1>2. /\ k \in Calls /\ CallOK(k, accounts, accountRows) /\ k # NoCall
      /\ k.of \in Address /\ k.by \in Int /\ k.acc \in AccountRow
  BY <1>1, CallParts DEF Places
<1>3. k.acc \in AccountRecord /\ k.acc.balance \in Nat /\ accounts[k.of] # NoRow
  BY <1>1, <1>2 DEF CallOK, AccountRow, AccountRecord
<1>4. UNCHANGED <<validators, rewarded, developerRewarded, accountRows, validatorRows, rewardRows,
                  stateRow, disturbed, calls>>
  BY <1>1 DEF database
<1>5. CASE ~Covers(k.acc, k.by)
  <2>1. AfterUpdate(c, FALSE) /\ UNCHANGED <<accounts, granted, paid>>
    BY <1>5 DEF Update
  <2>2. AccountsTypeOK'
    BY <1>1, <1>4, <2>1 DEF AccountsTypeOK
  <2> QED
    BY <1>1, <1>4, <2>1, <2>2, AfterUpdateStep DEF Stays
<1>6. CASE Covers(k.acc, k.by)
  <2>1. /\ accounts' = [accounts EXCEPT ![k.of] = acc] /\ call' = [call EXCEPT ![c] = k2]
        /\ granted' = [granted EXCEPT ![k.of] = @ + gift]
        /\ paid' = IF IsReward(k) THEN [paid EXCEPT ![k.of] = @ + 1] ELSE paid
    BY <1>6 DEF Update, Goes
  <2>2. k.acc.balance + k.by \in Nat
    BY <1>2, <1>3, <1>6 DEF Covers
  <2>3. acc \in AccountRecord /\ acc # NoRow
    <3>1. acc \in AccountRecord
      BY <1>3, <2>2 DEF AccountRecord
    <3> QED
      BY <3>1, AccountsAssumption
  <2>4. gift \in Nat
    <3>1. (k.op = "add" => k.by >= 0) /\ (IsReward(k) => k.by > 0)
      BY <1>2 DEF CallOK, IsReward
    <3> QED
      BY <1>2, <3>1
  <2>5. /\ k2 \in Calls /\ k2.pc = "count" /\ k2.op = k.op /\ k2.by = k.by /\ k2.of = k.of
        /\ k2.val = k.val /\ k2.n = k.n /\ k2.acc = k.acc
    BY <1>2 DEF Calls, Places
  <2> HIDE DEF acc, gift, k2
  <2>6. accounts' \in [Address -> AccountRow] /\ Stays(accounts, accounts') /\ accounts'[k.of] # NoRow
    BY <1>1, <1>2, <2>1, <2>3 DEF AccountsTypeOK, AccountRow, Stays
  <2>7. CallOK(k2, accounts', accountRows')
    BY <1>1, <1>2, <1>3, <2>2, <2>5, <2>6 DEF CallOK, Later
  <2>8. granted' \in [Address -> Nat]
    BY <1>1, <1>2, <2>1, <2>4 DEF AccountsTypeOK
  <2>9. CASE ~IsReward(k)
    <3>1. paid' = paid
      BY <2>1, <2>9
    <3>2. AccountsTypeOK'
      BY <1>1, <1>4, <2>6, <2>8, <3>1 DEF AccountsTypeOK, AccountRow
    <3>3. ~Rewarding(k2)
      BY <2>5, <2>9 DEF Rewarding, IsReward
    <3> QED
      BY <1>4, <2>1, <2>5, <2>6, <2>7, <3>1, <3>2, <3>3, OneCall DEF Stays
  <2>10. CASE IsReward(k)
    <3>1. Rewarding(k) /\ Rewarding(k2)
      BY <1>2, <2>5, <2>10 DEF Rewarding, IsReward, Calls, NoCall
    <3>2. paid[k.of] = 0 /\ validatorRows[k.of] # NoRow
      BY <1>1, <3>1 DEF AccInv, Rewards
    <3>3. paid' = [paid EXCEPT ![k.of] = 1]
      BY <2>1, <2>10, <3>2
    <3>4. AccountsTypeOK'
      BY <1>1, <1>2, <1>4, <2>6, <2>8, <3>3 DEF AccountsTypeOK, AccountRow
    <3>5. /\ call' \in [Caller -> {NoCall} \cup Calls] /\ call'[c] = k2
          /\ \A d \in Caller \ {c} : call'[d] = call[d]
      BY <2>1, <2>5 DEF AccInv, CallsOK
    <3>6. CallsOK'
      <4> SUFFICES ASSUME NEW d \in Caller, d # c, call[d] # NoCall
                   PROVE  CallOK(call[d], accounts', accountRows')
        BY <2>7, <3>5 DEF CallsOK
      <4>1. call[d] \in Calls /\ CallOK(call[d], accounts, accountRows)
        BY DEF AccInv, CallsOK
      <4>2. call[d].of \in Address
        BY <4>1 DEF Calls
      <4> QED
        BY <1>4, <2>6, <4>1, <4>2 DEF CallOK, Stays
    <3>7. Rewards'
      <4>1. \A a \in Address : paid'[a] \in {0, 1} /\ (validatorRows'[a] = NoRow => paid'[a] = 0)
        BY <1>1, <1>2, <1>4, <3>2, <3>3 DEF AccInv, Rewards, AccountsTypeOK
      <4>2. \A d \in Caller : Rewarding(call'[d]) =>
               /\ Rewarding(call[d]) /\ call'[d].of = call[d].of /\ call[d].of \in Address
               /\ call'[d].pc = "update" => call[d].pc = "update" /\ d # c
        <5>1. \A d \in Caller : Rewarding(call[d]) => call[d].of \in Address
          BY DEF AccInv, CallsOK, Rewarding, Calls
        <5> QED
          BY <2>5, <3>1, <3>5, <5>1
      <4>3. ASSUME NEW d \in Caller, Rewarding(call'[d])
            PROVE  /\ validatorRows'[call'[d].of] # NoRow
                   /\ call'[d].pc = "update" => paid'[call'[d].of] = 0
                   /\ \A e \in Caller \ {d} : Rewarding(call'[e]) => call'[e].of # call'[d].of
        <5>1. /\ validatorRows[call[d].of] # NoRow
              /\ call[d].pc = "update" => paid[call[d].of] = 0
              /\ \A e \in Caller \ {d} : Rewarding(call[e]) => call[e].of # call[d].of
          BY <4>2, <4>3 DEF AccInv, Rewards
        <5>2. call'[d].pc = "update" => call[d].of # k.of
          BY <3>1, <4>2, <4>3, <5>1
        <5> QED
          BY <1>1, <1>4, <3>3, <4>2, <4>3, <5>1, <5>2 DEF AccountsTypeOK
      <4> QED
        BY <4>1, <4>3 DEF Rewards
    <3> QED
      BY <3>4, <3>6, <3>7 DEF AccInv
  <2> QED
    BY <2>9, <2>10
<1> QED
  BY <1>5, <1>6

-----------------------------------------------------------------------------
(* Rows *)

LEMMA WriteStep == ASSUME AccInv, NEW c \in Caller, Write(c) PROVE AccInv'
<1> DEFINE k == call[c]
           row == accountRows[k.of]
<1>1. /\ k.pc = "write" /\ AccountsTypeOK
      /\ UNCHANGED <<memory, validatorRows, rewardRows, stateRow, calls, history>>
  BY DEF Write, AccInv
<1>2. /\ k \in Calls /\ CallOK(k, accounts, accountRows) /\ k # NoCall
      /\ k.of \in Address /\ k.by \in Int /\ k.acc \in AccountRow /\ k.n \in Nat /\ k.flag \in BOOLEAN
  BY <1>1, CallParts DEF Places
<1>3. /\ k.acc \in AccountRecord /\ k.acc.balance \in Nat
      /\ k.op # "nonce" => k.acc.balance + k.by \in Nat
      /\ k.flag => row # NoRow
  <2>1. /\ k.acc # NoRow /\ (k.op # "nonce" => k.acc.balance + k.by >= 0)
        /\ k.flag => row # NoRow
    BY <1>1, <1>2 DEF CallOK
  <2>2. k.acc \in AccountRecord /\ k.acc.balance \in Nat
    BY <1>2, <2>1 DEF AccountRow, AccountRecord
  <2> QED
    BY <1>2, <2>1, <2>2
<1>4. UNCHANGED <<accounts, validators, rewarded, developerRewarded, validatorRows, rewardRows,
                  stateRow, paid, granted, disturbed, calls>>
  BY <1>1 DEF memory, history
<1>5. ASSUME NEW v \in AccountRecord, accountRows' = [accountRows EXCEPT ![k.of] = v],
             AfterUpdate(c, TRUE)
      PROVE  AccInv'
  <2>1. v # NoRow
    BY <1>5, AccountsAssumption
  <2>2. accountRows' \in [Address -> AccountRow] /\ Stays(accountRows, accountRows')
    BY <1>1, <1>2, <1>5, <2>1 DEF AccountsTypeOK, AccountRow, Stays
  <2>3. AccountsTypeOK'
    BY <1>1, <1>4, <2>2 DEF AccountsTypeOK, AccountRow
  <2> QED
    BY <1>1, <1>4, <1>5, <2>2, <2>3, AfterUpdateStep DEF Stays
<1>6. CASE k.flag
  <2>1. row \in AccountRecord
    BY <1>1, <1>2, <1>3, <1>6 DEF AccountsTypeOK
  <2> DEFINE v == IF k.op = "nonce" THEN [row EXCEPT !.nonce = k.n]
                  ELSE [row EXCEPT !.balance = k.acc.balance + k.by]
  <2>2. v \in AccountRecord
    BY <1>2, <1>3, <2>1 DEF AccountRecord
  <2>3. accountRows' = [accountRows EXCEPT ![k.of] = v] /\ AfterUpdate(c, TRUE)
    BY <1>6 DEF Write
  <2> HIDE DEF v
  <2> QED
    BY <1>5, <2>2, <2>3
<1>7. CASE ~k.flag /\ row = NoRow
  <2>1. NewRow(k) \in AccountRecord
    BY <1>2, <1>3 DEF NewRow, AccountRecord
  <2>2. accountRows' = [accountRows EXCEPT ![k.of] = NewRow(k)] /\ AfterUpdate(c, TRUE)
    BY <1>7 DEF Write
  <2> QED
    BY <1>5, <2>1, <2>2
<1>8. CASE ~k.flag /\ row # NoRow
  <2>1. accountRows' = accountRows /\ (AfterUpdate(c, FALSE) \/ Ends(c))
    BY <1>8 DEF Write
  <2>2. AccountsTypeOK'
    BY <1>1, <1>4, <2>1 DEF AccountsTypeOK
  <2>3. CASE AfterUpdate(c, FALSE)
    BY <1>1, <1>4, <2>1, <2>2, <2>3, AfterUpdateStep DEF Stays
  <2>4. CASE Ends(c)
    BY <1>4, <2>1, <2>2, <2>4, OneCall, NoCallNotRewarding DEF Stays, Ends
  <2> QED
    BY <2>1, <2>3, <2>4
<1> QED
  BY <1>6, <1>7, <1>8

\* Nobody was paid for a validator whose row was not there, and its insertion
\* is the only step that begins to pay.
LEMMA InsertStep == ASSUME AccInv, NEW c \in Caller, InsertValidator(c) PROVE AccInv'
<1> DEFINE k == call[c]
           reward == IF k.of = Developer THEN DeveloperReward ELSE ValidatorReward
           k2 == [k EXCEPT !.pc = "update", !.acc = accounts[k.of], !.by = reward]
<1>1. /\ k.pc = "row" /\ k.op = "register" /\ AccountsTypeOK
      /\ UNCHANGED <<memory, accountRows, rewardRows, stateRow, calls, history>>
  BY DEF InsertValidator, AccInv
<1>2. /\ k \in Calls /\ CallOK(k, accounts, accountRows) /\ k # NoCall
      /\ k.of \in Address /\ k.n \in Nat
  BY <1>1, CallParts DEF Places
<1>3. UNCHANGED <<accounts, validators, rewarded, developerRewarded, accountRows, rewardRows,
                  stateRow, paid, granted, disturbed, calls>>
  BY <1>1 DEF memory, history
<1>4. CASE ~Inserts(k.of)
  <2>1. validatorRows' = validatorRows /\ Ends(c)
    BY <1>4 DEF InsertValidator
  <2>2. AccountsTypeOK'
    BY <1>1, <1>3, <2>1 DEF AccountsTypeOK
  <2> QED
    BY <1>3, <2>1, <2>2, OneCall, NoCallNotRewarding DEF Stays, Ends
<1>5. CASE Inserts(k.of)
  <2> DEFINE v == [stake |-> k.n, status |-> "active"]
  <2>1. /\ validatorRows[k.of] = NoRow /\ validatorRows' = [validatorRows EXCEPT ![k.of] = v]
        /\ call' = [call EXCEPT ![c] = k2] \/ Ends(c)
    BY <1>5 DEF InsertValidator, Inserts
  <2>2. v \in Validator
    BY <1>2 DEF Validator
  <2>3. v # NoRow
    BY <2>2, AccountsAssumption
  <2> HIDE DEF v
  <2>4. /\ validatorRows' \in [Address -> Row] /\ Stays(validatorRows, validatorRows')
        /\ validatorRows'[k.of] # NoRow
    BY <1>1, <1>2, <2>1, <2>2, <2>3 DEF AccountsTypeOK, Row, Stays
  <2>5. AccountsTypeOK'
    BY <1>1, <1>3, <2>4 DEF AccountsTypeOK, Row
  <2>6. CASE Ends(c)
    BY <1>3, <2>4, <2>5, <2>6, OneCall, NoCallNotRewarding DEF Stays, Ends
  <2>7. CASE call' = [call EXCEPT ![c] = k2]
    <3>1. reward \in Nat /\ reward > 0
      BY AccountsAssumption
    <3>2. accounts[k.of] # NoRow /\ accounts[k.of] \in AccountRow
      BY <1>1, <1>2 DEF CallOK, AccountsTypeOK, AccountRow
    <3> HIDE DEF reward
    <3>3. /\ k2 \in Calls /\ k2.pc = "update" /\ k2.op = "register" /\ k2.of = k.of
          /\ k2.by = reward /\ k2.acc = accounts[k.of]
      <4>1. reward \in Int /\ "update" \in Places /\ k \in Calls /\ accounts[k.of] \in AccountRow
        BY <1>2, <3>1, <3>2 DEF Places
      <4>2. k2 \in Calls
        BY <4>1 DEF Calls
      <4>3. k.op = "register"
        BY <1>1
      <4> QED
        BY <4>1, <4>2, <4>3 DEF Calls
    <3> HIDE DEF k2
    <3>4. CallOK(k2, accounts, accountRows)
      BY <3>2, <3>3 DEF CallOK
    <3>5. /\ call' \in [Caller -> {NoCall} \cup Calls] /\ call'[c] = k2
          /\ \A d \in Caller \ {c} : call'[d] = call[d]
      BY <2>7, <3>3 DEF AccInv, CallsOK
    <3>6. CallsOK'
      BY <1>3, <3>4, <3>5 DEF AccInv, CallsOK
    <3>7. Rewards'
      <4>1. paid[k.of] = 0 /\ \A d \in Caller : Rewarding(call[d]) => call[d].of # k.of
        BY <1>2, <2>1 DEF AccInv, Rewards
      <4>2. \A a \in Address : paid'[a] \in {0, 1} /\ (validatorRows'[a] = NoRow => paid'[a] = 0)
        BY <1>3, <2>4 DEF AccInv, Rewards, Stays
      <4>3. \A d \in Caller : Rewarding(call[d]) => call[d].of \in Address
        BY DEF AccInv, CallsOK, Rewarding, Calls
      <4>4. ASSUME NEW d \in Caller, Rewarding(call'[d])
            PROVE  /\ validatorRows'[call'[d].of] # NoRow
                   /\ call'[d].pc = "update" => paid'[call'[d].of] = 0
                   /\ \A e \in Caller \ {d} : Rewarding(call'[e]) => call'[e].of # call'[d].of
        <5>1. CASE d = c
          BY <1>3, <2>4, <3>3, <3>5, <4>1, <5>1
        <5>2. CASE d # c
          <6>1. /\ Rewarding(call[d]) /\ call'[d] = call[d]
                /\ validatorRows[call[d].of] # NoRow
                /\ call[d].pc = "update" => paid[call[d].of] = 0
                /\ \A e \in Caller \ {d} : Rewarding(call[e]) => call[e].of # call[d].of
            BY <3>5, <4>4, <5>2 DEF AccInv, Rewards
          <6> QED
            BY <1>3, <2>4, <3>3, <3>5, <4>1, <4>3, <6>1 DEF Stays
        <5> QED
          BY <5>1, <5>2
      <4> QED
        BY <4>2, <4>4 DEF Rewards
    <3> QED
      BY <2>5, <3>6, <3>7 DEF AccInv
  <2> QED
    BY <2>1, <2>6, <2>7
<1> QED
  BY <1>4, <1>5

LEMMA UpdateValidatorStep == ASSUME AccInv, NEW c \in Caller, UpdateValidator(c) PROVE AccInv'
<1> DEFINE k == call[c]
           row == validatorRows[k.of]
           written == IF k.op = "stake" THEN [row EXCEPT !.stake = k.val.stake + k.n]
                      ELSE IF k.op = "unstake" THEN [row EXCEPT !.stake = k.val.stake - k.n]
                      ELSE [row EXCEPT !.status = IF k.op = "jail" THEN "jailed" ELSE "active"]
<1>1. /\ k.pc = "row" /\ Ends(c) /\ AccountsTypeOK
      /\ validatorRows' = IF row = NoRow THEN validatorRows
                          ELSE [validatorRows EXCEPT ![k.of] = written]
      /\ UNCHANGED <<memory, accountRows, rewardRows, stateRow, calls, history>>
  BY DEF UpdateValidator, AccInv
<1>2. /\ k \in Calls /\ CallOK(k, accounts, accountRows) /\ k # NoCall
      /\ k.of \in Address /\ k.n \in Nat /\ k.val \in Row /\ row \in Row
  BY <1>1, CallParts DEF Places, AccountsTypeOK, Row
<1>3. UNCHANGED <<accounts, validators, rewarded, developerRewarded, accountRows, rewardRows,
                  stateRow, paid, granted, disturbed, calls>>
  BY <1>1 DEF memory, history
<1>4. validatorRows' \in [Address -> Row] /\ Stays(validatorRows, validatorRows')
  <2>1. CASE row = NoRow
    BY <1>1, <2>1 DEF AccountsTypeOK, Row, Stays
  <2>2. CASE row # NoRow
    <3>1. row \in Validator
      BY <1>2, <2>2 DEF Row
    <3>2. /\ k.op = "stake" => k.val.stake + k.n \in Nat
          /\ k.op = "unstake" => k.val.stake - k.n \in Nat
      <4>1. k.op \in {"stake", "unstake"} => k.val # NoRow
        BY <1>1, <1>2 DEF CallOK, Later
      <4>2. k.op \in {"stake", "unstake"} => k.val.stake \in Nat
        BY <1>2, <4>1 DEF Row, Validator
      <4>3. k.op = "unstake" => k.val.stake - k.n >= 0
        BY <1>1, <1>2 DEF CallOK, Later
      <4> QED
        BY <1>2, <4>2, <4>3
    <3>3. written \in Validator
      BY <3>1, <3>2 DEF Validator
    <3>4. written # NoRow
      BY <3>3, AccountsAssumption
    <3> HIDE DEF written
    <3> QED
      BY <1>1, <1>2, <2>2, <3>3, <3>4 DEF AccountsTypeOK, Row, Stays
  <2> QED
    BY <2>1, <2>2
<1>5. AccountsTypeOK'
  BY <1>1, <1>3, <1>4 DEF AccountsTypeOK, Row
<1> QED
  BY <1>1, <1>3, <1>4, <1>5, OneCall, NoCallNotRewarding DEF Stays, Ends

-----------------------------------------------------------------------------
(* The records of the distribution period *)

\* A call whose only change is its place, and its flag
LEMMA PlaceStep ==
    ASSUME AccInv, NEW c \in Caller, NEW from \in Places, call[c].pc = from,
           NEW place \in {"distribution", "state"}, NEW flag \in BOOLEAN,
           call' = [call EXCEPT ![c].pc = place, ![c].flag = flag],
           UNCHANGED <<accounts, accountRows, validatorRows, paid>>, AccountsTypeOK'
    PROVE  AccInv'
<1> DEFINE k == call[c]
           k2 == [k EXCEPT !.pc = place, !.flag = flag]
<1>1. /\ k \in Calls /\ CallOK(k, accounts, accountRows) /\ k # NoCall /\ k.by \in Int
  BY CallParts
<1>2. /\ k2 \in Calls /\ k2.pc = place /\ k2.op = k.op /\ k2.by = k.by /\ k2.of = k.of
  BY <1>1 DEF Calls, Places
<1>3. call' = [call EXCEPT ![c] = k2]
  BY DEF AccInv, CallsOK
<1> HIDE DEF k2
<1>4. CallOK(k2, accounts', accountRows')
  BY <1>1, <1>2 DEF CallOK, Later
<1>5. Rewarding(k2) => Rewarding(k) /\ k2.pc # "update"
  BY <1>1, <1>2 DEF Rewarding
<1> QED
  BY <1>2, <1>3, <1>4, <1>5, OneCall DEF Stays

LEMMA RecordSteps ==
    ASSUME AccInv, NEW c \in Caller,
           RecordReward(c) \/ RecordDistribution(c) \/ RecordState(c)
    PROVE  AccInv'
<1> DEFINE k == call[c]
<1>0. AccountsTypeOK /\ CallsOK
  BY DEF AccInv
<1>1. CASE RecordReward(c)
  <2>1. /\ k.pc = "rewards" /\ call' = [call EXCEPT ![c].pc = "distribution"]
        /\ UNCHANGED <<accounts, accountRows, validatorRows, paid>>
        /\ UNCHANGED <<memory, database, calls, history>>
    BY <1>1 DEF RecordReward, Goes, memory, database, history
  <2>2. k \in Calls /\ k.flag \in BOOLEAN
    BY <2>1, CallParts DEF Places
  <2>3. call' = [call EXCEPT ![c].pc = "distribution", ![c].flag = k.flag]
    BY <1>0, <2>1, <2>2 DEF CallsOK, Calls
  <2>4. AccountsTypeOK'
    BY <1>0, <2>1 DEF AccountsTypeOK, memory, database, history
  <2> QED
    BY <2>1, <2>2, <2>3, <2>4, PlaceStep DEF Places
<1>2. CASE RecordDistribution(c)
  <2> DEFINE flag == k.of = Developer \/ developerRewarded
  <2>1. /\ k.pc = "distribution" /\ rewardRows' = rewardRows \cup {k.of}
        /\ \/ Ends(c)
           \/ call' = [call EXCEPT ![c].pc = "state", ![c].flag = flag]
        /\ UNCHANGED <<memory, accountRows, validatorRows, stateRow, calls, history>>
    BY <1>2 DEF RecordDistribution
  <2>2. k.of \in Address
    BY <2>1, CallParts DEF Places
  <2>3. UNCHANGED <<accounts, validators, rewarded, developerRewarded, accountRows, validatorRows,
                    stateRow, calls, paid, granted, disturbed>>
    BY <2>1 DEF memory, history
  <2>4. AccountsTypeOK'
    BY <1>0, <2>1, <2>2, <2>3 DEF AccountsTypeOK
  <2>5. flag \in BOOLEAN
    BY Zenon
  <2> HIDE DEF flag
  <2>6. CASE Ends(c)
    BY <2>3, <2>4, <2>6, OneCall, NoCallNotRewarding DEF Stays, Ends
  <2>7. CASE call' = [call EXCEPT ![c].pc = "state", ![c].flag = flag]
    BY <2>1, <2>3, <2>4, <2>5, <2>7, PlaceStep DEF Places
  <2> QED
    BY <2>1, <2>6, <2>7
<1>3. CASE RecordState(c)
  <2> DEFINE now == developerRewarded \/ k.of = Developer
  <2>1. /\ k.pc = "state" /\ stateRow' = k.flag /\ rewarded' = rewarded \cup {k.of}
        /\ developerRewarded' = now /\ Ends(c)
        /\ UNCHANGED <<accounts, validators, accountRows, validatorRows, rewardRows, calls, history>>
    BY <1>3 DEF RecordState
  <2>2. k.of \in Address /\ k.flag \in BOOLEAN
    BY <2>1, CallParts DEF Places
  <2>3. now \in BOOLEAN
    BY Zenon
  <2> HIDE DEF now
  <2>4. AccountsTypeOK'
    BY <1>0, <2>1, <2>2, <2>3 DEF AccountsTypeOK, history
  <2> QED
    BY <2>1, <2>4, OneCall, NoCallNotRewarding DEF Stays, Ends, history
<1> QED
  BY <1>1, <1>2, <1>3

-----------------------------------------------------------------------------
(* Failures and restarts *)

LEMMA FaultStep == ASSUME AccInv, NEW c \in Caller, Fault(c) PROVE AccInv'
<1> DEFINE k == call[c]
<1>1. /\ k.pc \in {"findValidator", "findAccount", "count", "write", "row", "rewards",
                   "distribution", "state"}
      /\ \/ /\ k.pc \in {"findAccount", "count", "write"}
            /\ k.pc = "findAccount" => k.op \in {"unstake", "add"}
            /\ AfterUpdate(c, FALSE)
         \/ Ends(c)
      /\ disturbed' = disturbed \cup {k.of}
      /\ UNCHANGED <<memory, database, calls, paid, granted>>
  BY DEF Fault
<1>2. k.of \in Address
  BY <1>1, CallParts DEF Places
<1>3. UNCHANGED <<accounts, validators, rewarded, developerRewarded, accountRows, validatorRows,
                  rewardRows, stateRow, calls, paid, granted>>
  BY <1>1 DEF memory, database
<1>4. AccountsTypeOK'
  BY <1>1, <1>2, <1>3 DEF AccInv, AccountsTypeOK
<1>5. CASE Ends(c)
  BY <1>3, <1>4, <1>5, OneCall, NoCallNotRewarding DEF Stays, Ends
<1>6. CASE ~Ends(c)
  <2>1. /\ k.pc \in {"findAccount", "update", "count", "write"}
        /\ k.pc = "findAccount" => k.op \in {"unstake", "add"}
        /\ AfterUpdate(c, FALSE)
    BY <1>1, <1>6
  <2> QED
    BY <1>3, <1>4, <2>1, AfterUpdateStep DEF Stays
<1> QED
  BY <1>5, <1>6

\* The calls are gone; the rows, by which nobody is paid twice, are not.
LEMMA RestartStep == ASSUME AccInv, AccountsRestart PROVE AccInv'
<1>1. /\ accounts' = accountRows /\ validators' = validatorRows
      /\ rewarded' \in {{}, rewardRows}
      /\ disturbed' = disturbed \cup {a \in Address : ~Quiet(a)}
      /\ call' = [c \in Caller |-> NoCall]
      /\ UNCHANGED <<database, calls, paid, granted>>
  BY DEF AccountsRestart
<1>2. developerRewarded' \in BOOLEAN
  BY Zenon DEF AccountsRestart
<1>3. UNCHANGED <<accountRows, validatorRows, rewardRows, stateRow, calls, paid, granted>>
  BY <1>1 DEF database
<1>4. AccountsTypeOK'
  BY <1>1, <1>2, <1>3 DEF AccInv, AccountsTypeOK
<1>5. CallsOK'
  BY <1>1 DEF CallsOK
<1>6. \A c \in Caller : ~Rewarding(call'[c])
  BY <1>1, NoCallNotRewarding
<1>7. Rewards'
  BY <1>3, <1>6 DEF AccInv, Rewards, Rewarding
<1> QED
  BY <1>4, <1>5, <1>7 DEF AccInv

-----------------------------------------------------------------------------
(* The theorems *)

LEMMA AccInit == AccountsInit => AccInv
<1> SUFFICES ASSUME AccountsInit PROVE AccInv
  OBVIOUS
<1>1. FirstRows \in [Address -> AccountRecord \cup {NoRow}] /\ MaxCalls \in Nat
  BY AccountsAssumption
<1>2. granted \in [Address -> Nat]
  BY <1>1 DEF AccountsInit, AccountRecord
<1>3. AccountsTypeOK
  <2>1. /\ accounts \in [Address -> AccountRecord \cup {NoRow}]
        /\ accountRows \in [Address -> AccountRecord \cup {NoRow}]
    BY <1>1 DEF AccountsInit
  <2>2. /\ validators \in [Address -> Validator \cup {NoRow}]
        /\ validatorRows \in [Address -> Validator \cup {NoRow}]
    BY DEF AccountsInit
  <2>3. /\ rewarded \subseteq Address /\ rewardRows \subseteq Address /\ disturbed \subseteq Address
        /\ developerRewarded \in BOOLEAN /\ stateRow \in {NoRow, TRUE, FALSE}
    BY DEF AccountsInit
  <2>4. paid \in [Address -> Nat] /\ calls \in 0..MaxCalls
    BY <1>1 DEF AccountsInit
  <2> QED
    BY <1>2, <2>1, <2>2, <2>3, <2>4 DEF AccountsTypeOK
<1>4. call = [c \in Caller |-> NoCall] /\ paid = [a \in Address |-> 0]
  BY DEF AccountsInit
<1>5. CallsOK
  BY <1>4 DEF CallsOK
<1>6. \A c \in Caller : ~Rewarding(call[c])
  BY <1>4, NoCallNotRewarding
<1>7. Rewards
  BY <1>4, <1>6 DEF Rewards
<1> QED
  BY <1>3, <1>5, <1>7 DEF AccInv

LEMMA AccStep == AccInv /\ [AccountsNext]_accountsVars => AccInv'
<1> SUFFICES ASSUME AccInv, [AccountsNext]_accountsVars PROVE AccInv'
  OBVIOUS
<1>1. CASE AccountsRestart
  BY <1>1, RestartStep
<1>2. ASSUME NEW c \in Caller, Step(c) PROVE AccInv'
  <2>1. CASE \E op \in Operation, a \in Address, n \in Amount : Begin(c, op, a, n)
    BY <2>1, BeginStep
  <2>2. CASE FindValidator(c) \/ FoundValidator(c) \/ FindAccount(c) \/ FoundAccount(c) \/ Count(c)
    BY <2>2, ReadingSteps
  <2>3. CASE RecordReward(c) \/ RecordDistribution(c) \/ RecordState(c)
    BY <2>3, RecordSteps
  <2> QED
    BY <1>2, <2>1, <2>2, <2>3, GotValidatorStep, GotAccountStep, UpdateStep, WriteStep,
       InsertStep, UpdateValidatorStep, FaultStep DEF Step
<1>3. CASE UNCHANGED accountsVars
  <2>1. /\ UNCHANGED <<memory, database, call, calls, history>>
    BY <1>3 DEF accountsVars
  <2>2. UNCHANGED <<accounts, validators, rewarded, developerRewarded, accountRows, validatorRows,
                    rewardRows, stateRow, call, calls, paid, granted, disturbed>>
    BY <2>1 DEF memory, database, history
  <2> QED
    BY <2>2 DEF AccInv, AccountsTypeOK, CallsOK, CallOK, Rewards, Rewarding
<1> QED
  BY <1>1, <1>2, <1>3 DEF AccountsNext

LEMMA AccInvHolds == AccountsSpec => []AccInv
BY AccInit, AccStep, PTL DEF AccountsSpec

\* Whatever calls overlap and fail, no call of src/consensus/state_machine.js
\* makes a balance or a stake negative, in memory or in the tables, and every
\* call that goes on finds the account it writes.
THEOREM AccountsTypeCorrect == AccountsSpec => []AccountsTypeOK
<1>1. AccInv => AccountsTypeOK
  BY DEF AccInv
<1> QED
  BY <1>1, AccInvHolds, PTL

\* processReward of src/consensus/distribution.js pays no address twice, when
\* registrations overlap, when the records of a payment fail, and after a
\* restart that has forgotten who was paid: the row of the validator, which
\* registerValidator inserts before it pays, is there once.
THEOREM PaidAtMostOnce == AccountsSpec => []PaidOnce
<1>1. AccInv => PaidOnce
  BY DEF AccInv, Rewards, PaidOnce
<1> QED
  BY <1>1, AccInvHolds, PTL

-----------------------------------------------------------------------------
(* What an address has while a call about it is on its way *)

\* The places that a call of each operation comes to
Reading == {"findValidator", "foundValidator", "gotValidator"}

Asking == {"findAccount", "foundAccount"}

Updating == {"update", "count", "write"}

PlacesOf(op) ==
    CASE op = "register" -> Reading \cup Asking \cup Updating
                              \cup {"gotAccount", "row", "rewards", "distribution", "state"}
      [] op = "stake"    -> Reading \cup Asking \cup Updating \cup {"gotAccount", "row"}
      [] op = "unstake"  -> Reading \cup Asking \cup Updating \cup {"row"}
      [] op = "add"      -> Asking \cup Updating
      [] op = "nonce"    -> Asking \cup {"gotAccount", "count", "write"}
      [] OTHER           -> Reading \cup {"row"}

BalanceOf(acc) == IF acc = NoRow THEN 0 ELSE acc.balance
StakeOf(val) == IF val = NoRow THEN 0 ELSE val.stake

Matches(row, acc) == row = acc \/ (row = NoRow /\ acc = Empty)

\* What an address that no call is about has, in memory and in the tables
AtRest(acc, accRow, val, valRow, given) ==
    BalanceOf(acc) + StakeOf(val) = given /\ Matches(accRow, acc) /\ valRow = val

\* The call has changed the stake and not yet the balance.
Half(k) ==
    \/ k.op = "unstake" /\ k.pc \in Asking \cup {"update"}
    \/ k.op \in {"register", "stake"} /\ k.by <= 0 /\ k.pc = "update"

\* The call has changed the validator and not yet its row.
Unrecorded(k) ==
    \/ k.pc = "row"
    \/ k.op = "unstake" /\ k.pc \in Asking \cup Updating
    \/ k.op \in {"register", "stake"} /\ k.by <= 0 /\ k.pc \in Updating

\* What a call makes of the validator it read
Altered(k) ==
    CASE k.op = "register" -> [stake |-> k.n, status |-> "active"]
      [] k.op = "stake"    -> [k.val EXCEPT !.stake = @ + k.n]
      [] k.op = "unstake"  -> [k.val EXCEPT !.stake = @ - k.n]
      [] k.op = "jail"     -> [k.val EXCEPT !.status = "jailed"]
      [] OTHER             -> [k.val EXCEPT !.status = "active"]

\* The operation, the place and the amount of a call fit.
Fits(k) ==
    /\ k.pc \in PlacesOf(k.op)
    /\ k.op = "unstake" => k.by = k.n
    /\ k.op = "stake" \/ (k.op = "register" /\ k.by <= 0) => k.by = -k.n
    /\ k.op = "register" /\ k.by > 0 => k.pc \in Updating \cup {"rewards", "distribution", "state"}
    /\ k.pc \in {"rewards", "distribution", "state"} => k.by > 0

BalanceGoes(k, acc, accRow) ==
    /\ IF k.pc \in {"count", "write"} THEN Matches(accRow, k.acc) /\ acc = NewRow(k)
                                      ELSE Matches(accRow, acc)
    /\ k.pc = "write" => (k.flag <=> accRow # NoRow)
    /\ k.pc \in {"gotAccount", "update"} => k.acc = acc
    /\ k.pc \in Asking => acc = NoRow
    /\ k.pc = "foundAccount" => k.acc = NoRow
    /\ k.op \in {"register", "stake"} /\ k.by <= 0 /\ k.pc = "update" => k.acc.balance >= k.n

StakeGoes(k, val, valRow) ==
    /\ IF Unrecorded(k) THEN val = Altered(k) /\ valRow = k.val ELSE valRow = val
    /\ k.pc = "findValidator" => val = NoRow
    /\ k.pc = "foundValidator" => k.val = NoRow
    /\ k.pc \in {"foundValidator", "gotValidator"} => k.val = val
    /\ k.op \in {"register", "stake"} /\ k.pc \in Asking \cup {"gotAccount"} => k.val = val
    /\ k.op = "register" /\ k.pc \in Later => k.val = NoRow
    /\ k.op \in {"jail", "unjail"} /\ k.pc = "row" => k.val # NoRow

\* What an address has while the call k is on its way
OnItsWay(k, acc, accRow, val, valRow, given) ==
    /\ Fits(k)
    /\ BalanceOf(acc) + StakeOf(val) = given + IF Half(k) THEN -k.by ELSE 0
    /\ BalanceGoes(k, acc, accRow)
    /\ StakeGoes(k, val, valRow)

\* That it was rewarded is known in memory and listed in the table.
Paying(k, known, listed) ==
    /\ IF k.pc = "state" THEN k.of \in listed /\ k.of \notin known
                         ELSE k.of \in known <=> k.of \in listed
    /\ IsReward(k) => k.of \notin known

AddressInv(a) ==
    /\ \A c, d \in Caller :
          call[c] # NoCall /\ call[c].of = a /\ call[d] # NoCall /\ call[d].of = a => c = d
    /\ Quiet(a) => /\ AtRest(accounts[a], accountRows[a], validators[a], validatorRows[a], granted[a])
                   /\ a \in rewarded <=> a \in rewardRows
    /\ \A c \in Caller : call[c] # NoCall /\ call[c].of = a =>
          /\ OnItsWay(call[c], accounts[a], accountRows[a], validators[a], validatorRows[a],
                      granted[a])
          /\ Paying(call[c], rewarded, rewardRows)

ConservedInv ==
    /\ \A a \in Address \ disturbed : AddressInv(a)
    /\ rewarded # {} => stateRow # NoRow

\* Two stages of one call
Same(k, k2) == k2.op = k.op /\ k2.of = k.of /\ k2.n = k.n /\ k2.by = k.by

\* What the lemmas below know of a call, of an address it is about, and of
\* their values
Typed(k, acc, accRow, val, valRow, given) ==
    /\ k \in Calls /\ k.n \in Nat /\ k.n > 0 /\ k.by \in Int /\ k.op \in Operation
    /\ k.val \in Row /\ k.acc \in AccountRow
    /\ acc \in AccountRow /\ accRow \in AccountRow /\ val \in Row /\ valRow \in Row /\ given \in Int

\* getAccount begins for a call that has done what comes before.
Asks(k, acc, accRow, val, valRow, given) ==
    /\ k.op \in {"add", "nonce", "register", "stake", "unstake"}
    /\ k.op = "unstake" => k.by = k.n
    /\ k.op \in {"stake", "register"} => k.by = -k.n
    /\ k.op \in {"stake", "register"} => k.val = val
    /\ k.op = "register" => k.val = NoRow
    /\ BalanceOf(acc) + StakeOf(val) = given + IF k.op = "unstake" THEN -k.by ELSE 0
    /\ Matches(accRow, acc)
    /\ IF k.op = "unstake" THEN val = Altered(k) /\ valRow = k.val ELSE valRow = val

LEMMA AsksMoves ==
    ASSUME NEW k \in Calls, NEW acc, NEW accRow, NEW val, NEW valRow, NEW given, NEW k2 \in Calls,
           Asks(k, acc, accRow, val, valRow, given), k.n \in Nat, k.n > 0, Same(k, k2), k2.val = k.val,
           k2.acc = acc,
           k2.pc = IF acc = NoRow THEN "findAccount"
                   ELSE IF k.op \in {"unstake", "add"} THEN "update" ELSE "gotAccount"
    PROVE  OnItsWay(k2, acc, accRow, val, valRow, given)
<1>1. k2.op = k.op /\ k2.n = k.n /\ k2.by = k.by
  BY DEF Same
<1>2. Altered(k2) = Altered(k)
  BY <1>1 DEF Altered
<1>3. \/ k2.pc = "findAccount" /\ acc = NoRow
      \/ k2.pc = "update" /\ acc # NoRow /\ k.op \in {"unstake", "add"}
      \/ k2.pc = "gotAccount" /\ acc # NoRow /\ k.op \in {"nonce", "register", "stake"}
  BY DEF Asks
<1>4. Fits(k2)
  <2>1. CASE k.op \in {"add", "nonce"}
    BY <1>1, <1>3, <2>1 DEF Asks, Fits, PlacesOf, Asking, Updating
  <2>2. CASE k.op = "unstake"
    BY <1>1, <1>3, <2>2 DEF Asks, Fits, PlacesOf, Asking, Updating
  <2>3. CASE k.op \in {"register", "stake"}
    BY <1>1, <1>3, <2>3 DEF Asks, Fits, PlacesOf, Asking, Updating
  <2>4. QED
    BY <2>1, <2>2, <2>3 DEF Asks
<1>5. Half(k2) <=> k.op = "unstake"
  BY <1>1, <1>3 DEF Asks, Half, Asking
<1>6. Unrecorded(k2) <=> k.op = "unstake"
  BY <1>1, <1>3 DEF Asks, Unrecorded, Asking, Updating
<1>7. BalanceGoes(k2, acc, accRow)
  BY <1>1, <1>3 DEF Asks, BalanceGoes, Asking
<1>8. StakeGoes(k2, val, valRow)
  BY <1>1, <1>2, <1>3, <1>6 DEF Asks, StakeGoes, Asking
<1>9. BalanceOf(acc) + StakeOf(val) = given + IF Half(k2) THEN -k2.by ELSE 0
  BY <1>1, <1>5 DEF Asks
<1>10. QED
  BY <1>4, <1>7, <1>8, <1>9 DEF OnItsWay

\* The answers to reads
LEMMA ReadMoves ==
    ASSUME NEW k \in Calls, NEW acc, NEW accRow, NEW val, NEW valRow, NEW given, NEW k2 \in Calls,
           Typed(k, acc, accRow, val, valRow, given), OnItsWay(k, acc, accRow, val, valRow, given),
           Same(k, k2),
           \/ k.pc = "findValidator" /\ k2.pc = "foundValidator" /\ k2.val = valRow
           \/ k.pc = "foundValidator" /\ k2.pc = "gotValidator" /\ k2.val = k.val
           \/ /\ k.pc = "findAccount" /\ k2.pc = "foundAccount"
              /\ k2.val = k.val /\ k2.acc = accRow
           \/ /\ k.pc = "count" /\ k2.pc = "write" /\ k2.val = k.val /\ k2.acc = k.acc
              /\ (k2.flag <=> accRow # NoRow)
    PROVE  OnItsWay(k2, acc, accRow, val, valRow, given)
<1>1. k2.op = k.op /\ k2.n = k.n /\ k2.by = k.by
  BY DEF Same
<1>2. Fits(k2)
  BY <1>1 DEF OnItsWay, Fits, PlacesOf, Reading, Asking, Updating
<1>3. (Half(k2) <=> Half(k)) /\ (Unrecorded(k2) <=> Unrecorded(k))
  BY <1>1 DEF Half, Unrecorded, Asking, Updating
<1>4. BalanceOf(acc) + StakeOf(val) = given + IF Half(k2) THEN -k2.by ELSE 0
  BY <1>1, <1>3 DEF OnItsWay
<1>5. k2.acc = k.acc /\ k2.pc = "write" => NewRow(k2) = NewRow(k)
  BY <1>1 DEF NewRow
<1>6. BalanceGoes(k2, acc, accRow)
  BY <1>1, <1>5, AccountsAssumption DEF OnItsWay, BalanceGoes, Asking, Matches, Empty, AccountRecord
<1>7. k2.val = k.val => Altered(k2) = Altered(k)
  BY <1>1 DEF Altered
<1>8. StakeGoes(k2, val, valRow)
  BY <1>1, <1>3, <1>7 DEF OnItsWay, StakeGoes, Unrecorded, Reading, Asking, Updating, Later
<1>9. QED
  BY <1>2, <1>4, <1>6, <1>8 DEF OnItsWay

\* FoundAccount puts an account into memory that has no row.
LEMMA FoundMoves ==
    ASSUME NEW k \in Calls, NEW acc, NEW accRow, NEW val, NEW valRow, NEW given, NEW k2 \in Calls,
           Typed(k, acc, accRow, val, valRow, given), OnItsWay(k, acc, accRow, val, valRow, given),
           Same(k, k2), k.pc = "foundAccount", k2.val = k.val, k2.acc = Empty,
           k2.pc = IF k.op \in {"unstake", "add"} THEN "update" ELSE "gotAccount"
    PROVE  OnItsWay(k2, Empty, accRow, val, valRow, given)
<1>1. k2.op = k.op /\ k2.n = k.n /\ k2.by = k.by /\ Empty # NoRow
  BY AccountsAssumption DEF Same, Empty, AccountRecord
<1>2. /\ acc = NoRow /\ accRow = NoRow
  BY <1>1 DEF OnItsWay, BalanceGoes, Asking, Matches
<1>3. BalanceOf(Empty) = BalanceOf(acc)
  BY <1>1, <1>2 DEF BalanceOf, Empty
<1>4. k.op \in {"add", "nonce", "register", "stake", "unstake"}
  BY DEF Typed, Operation, OnItsWay, Fits, PlacesOf, Reading
<1>5. k.op \in {"stake", "register"} => k.by <= 0 /\ k.by = -k.n
  BY DEF Typed, OnItsWay, Fits, Updating
<1>6. Asks(k, Empty, accRow, val, valRow, given)
  BY <1>2, <1>3, <1>4, <1>5
  DEF Asks, OnItsWay, Fits, StakeGoes, Half, Unrecorded, Asking, Matches, Later
<1>7. QED
  BY <1>1, <1>6, AsksMoves DEF Typed

\* The other steps that change no row and no account but the validator
LEMMA JailMoves ==
    ASSUME NEW k \in Calls, NEW acc, NEW accRow, NEW val, NEW valRow, NEW given, NEW k2 \in Calls,
           Typed(k, acc, accRow, val, valRow, given), OnItsWay(k, acc, accRow, val, valRow, given),
           Same(k, k2), k.pc = "gotValidator", k2.val = k.val, k2.pc = "row",
           k.op \in {"jail", "unjail"}, k.val # NoRow
    PROVE  OnItsWay(k2, acc, accRow, Altered(k), valRow, given)
<1>1. k2.op = k.op /\ k2.n = k.n /\ k2.by = k.by
  BY DEF Same
<1>2. val = k.val /\ valRow = k.val /\ ~Half(k) /\ ~Half(k2) /\ Unrecorded(k2)
  BY <1>1 DEF OnItsWay, StakeGoes, Unrecorded, Half
<1>3. Altered(k2) = Altered(k)
  BY <1>1 DEF Altered
<1>4. Altered(k).stake = val.stake /\ Altered(k) # NoRow
  <2>1. k.val \in Validator
    BY DEF Typed, Row
  <2>2. Altered(k) \in Validator /\ Altered(k).stake = k.val.stake
    BY <2>1 DEF Altered, Validator
  <2>3. QED
    BY <1>2, <2>2, AccountsAssumption
<1>5. BalanceOf(acc) + StakeOf(Altered(k)) = given + IF Half(k2) THEN -k2.by ELSE 0
  BY <1>2, <1>4 DEF OnItsWay, StakeOf
<1>6. Fits(k2) /\ BalanceGoes(k2, acc, accRow)
  BY <1>1 DEF OnItsWay, Fits, PlacesOf, BalanceGoes, Asking
<1>7. StakeGoes(k2, Altered(k), valRow)
  BY <1>1, <1>2, <1>3 DEF StakeGoes, Asking
<1>8. QED
  BY <1>5, <1>6, <1>7 DEF OnItsWay

\* registerValidator and stakeTokens change the stake.
LEMMA StakeMoves ==
    ASSUME NEW k \in Calls, NEW acc, NEW accRow, NEW val, NEW valRow, NEW given, NEW k2 \in Calls,
           Typed(k, acc, accRow, val, valRow, given), OnItsWay(k, acc, accRow, val, valRow, given),
           Same(k, k2), k.pc = "gotAccount", k2.val = k.val, k2.pc = "update", k2.acc = acc,
           k.op \in {"register", "stake"}, k.acc # NoRow, k.op = "stake" => k.val # NoRow,
           k.acc.balance >= k.n
    PROVE  OnItsWay(k2, acc, accRow, Altered(k), valRow, given)
<1>1. k2.op = k.op /\ k2.n = k.n /\ k2.by = k.by /\ k.by <= 0 /\ k.by = -k.n
  BY DEF Same, OnItsWay, Fits, Typed, Updating
<1>2. val = k.val /\ valRow = k.val /\ ~Half(k) /\ Half(k2) /\ Unrecorded(k2) /\ k.acc = acc
  BY <1>1 DEF OnItsWay, StakeGoes, BalanceGoes, Unrecorded, Half, Asking, Updating
<1>3. Altered(k2) = Altered(k)
  BY <1>1 DEF Altered
<1>4. StakeOf(Altered(k)) = StakeOf(val) + k.n
  <2>1. CASE k.op = "register"
    <3>1. k.val = NoRow
      BY <2>1 DEF OnItsWay, StakeGoes, Later
    <3>2. Altered(k) \in Validator /\ Altered(k).stake = k.n
      BY <2>1 DEF Altered, Validator, Typed
    <3>3. Altered(k) # NoRow /\ k.n \in Nat
      BY <3>2, AccountsAssumption DEF Typed
    <3>4. QED
      BY <1>2, <3>1, <3>2, <3>3 DEF StakeOf
  <2>2. CASE k.op = "stake"
    <3>1. k.val \in Validator
      BY <2>2 DEF Typed, Row
    <3>2. Altered(k) \in Validator /\ Altered(k).stake = k.val.stake + k.n
      BY <2>2, <3>1 DEF Altered, Validator, Typed
    <3>3. Altered(k) # NoRow /\ k.val # NoRow
      BY <3>1, <3>2, AccountsAssumption
    <3>4. QED
      BY <1>2, <3>2, <3>3 DEF StakeOf
  <2>3. QED
    BY <2>1, <2>2
<1>5. BalanceOf(acc) + StakeOf(Altered(k)) = given + IF Half(k2) THEN -k2.by ELSE 0
  <2>1. BalanceOf(acc) \in Int /\ StakeOf(val) \in Int /\ given \in Int /\ k.n \in Int
    BY DEF Typed, BalanceOf, StakeOf, AccountRow, AccountRecord, Row, Validator
  <2>2. BalanceOf(acc) + StakeOf(val) = given + 0
    BY <1>2 DEF OnItsWay
  <2>3. BalanceOf(acc) + (StakeOf(val) + k.n) = given + k.n
    BY <2>1, <2>2
  <2>4. -k2.by = k.n
    BY <1>1, <2>1
  <2>5. QED
    BY <1>2, <1>4, <2>3, <2>4
<1>6. Fits(k2)
  BY <1>1 DEF OnItsWay, Fits, PlacesOf, Updating
<1>7. BalanceGoes(k2, acc, accRow)
  BY <1>1, <1>2 DEF OnItsWay, BalanceGoes, Asking
<1>8. StakeGoes(k2, Altered(k), valRow)
  BY <1>1, <1>2, <1>3 DEF OnItsWay, StakeGoes, Asking, Later
<1>9. QED
  BY <1>5, <1>6, <1>7, <1>8 DEF OnItsWay

\* updateNonce and updateBalance write the account into memory.
LEMMA NonceMoves ==
    ASSUME NEW k \in Calls, NEW acc, NEW accRow, NEW val, NEW valRow, NEW given, NEW k2 \in Calls,
           Typed(k, acc, accRow, val, valRow, given), OnItsWay(k, acc, accRow, val, valRow, given),
           Same(k, k2), k.pc = "gotAccount", k2.pc = "count", k2.acc = k.acc, k.op = "nonce",
           k.acc # NoRow
    PROVE  OnItsWay(k2, NewRow(k), accRow, val, valRow, given)
<1>1. k2.op = k.op /\ k2.n = k.n /\ k2.by = k.by
  BY DEF Same
<1>2. acc = k.acc /\ ~Half(k) /\ ~Half(k2) /\ ~Unrecorded(k) /\ ~Unrecorded(k2)
  BY <1>1 DEF OnItsWay, BalanceGoes, Half, Unrecorded
<1>3. NewRow(k2) = NewRow(k)
  BY <1>1 DEF NewRow
<1>4. BalanceOf(NewRow(k)) = BalanceOf(acc)
  <2>1. k.acc \in AccountRecord /\ k.n \in Nat
    BY DEF Typed, AccountRow
  <2>2. NewRow(k) \in AccountRecord /\ NewRow(k).balance = k.acc.balance
    BY <2>1 DEF NewRow, AccountRecord
  <2>3. NewRow(k) # NoRow
    BY <2>2, AccountsAssumption
  <2>4. QED
    BY <1>2, <2>2, <2>3 DEF BalanceOf
<1>5. BalanceOf(NewRow(k)) + StakeOf(val) = given + IF Half(k2) THEN -k2.by ELSE 0
  BY <1>2, <1>4 DEF OnItsWay
<1>6. Fits(k2)
  BY <1>1 DEF OnItsWay, Fits, PlacesOf, Updating
<1>7. BalanceGoes(k2, NewRow(k), accRow)
  BY <1>1, <1>2, <1>3 DEF OnItsWay, BalanceGoes, Asking
<1>8. StakeGoes(k2, val, valRow)
  BY <1>1, <1>2 DEF OnItsWay, StakeGoes
<1>9. QED
  BY <1>5, <1>6, <1>7, <1>8 DEF OnItsWay

\* What updateBalance adds is what was missing, or what was given just now; it
\* is never more than there is.
LEMMA UpdateMoves ==
    ASSUME NEW k \in Calls, NEW acc, NEW accRow, NEW val, NEW valRow, NEW given, NEW k2 \in Calls,
           Typed(k, acc, accRow, val, valRow, given), OnItsWay(k, acc, accRow, val, valRow, given),
           Same(k, k2), k.pc = "update", k2.pc = "count", k2.acc = k.acc, k2.val = k.val,
           k.acc # NoRow, k.op = "add" => k.by >= 0, NEW gift,
           gift = IF k.op = "add" \/ IsReward(k) THEN k.by ELSE 0
    PROVE  /\ Covers(k.acc, k.by)
           /\ OnItsWay(k2, NewRow(k), accRow, val, valRow, given + gift)
<1>1. k2.op = k.op /\ k2.n = k.n /\ k2.by = k.by /\ k.by \in Int /\ k.n \in Nat
  BY DEF Same, Typed
<1>2. k.op \in {"register", "stake", "unstake", "add"}
  BY DEF OnItsWay, Fits, PlacesOf, Typed, Operation, Asking, Reading
<1>3. acc = k.acc /\ ~Half(k2) /\ (Unrecorded(k2) <=> Unrecorded(k))
  BY <1>1 DEF OnItsWay, BalanceGoes, Half, Unrecorded, Asking, Updating
<1>4. k.acc \in AccountRecord /\ k.acc.balance \in Nat
  BY DEF Typed, AccountRow, AccountRecord
<1>5. Covers(k.acc, k.by)
  <2>1. k.by >= 0 \/ (k.by = -k.n /\ k.acc.balance >= k.n)
    BY <1>1, <1>2 DEF OnItsWay, Fits, BalanceGoes
  <2>2. QED
    BY <1>1, <1>4, <2>1 DEF Covers
<1>6. BalanceOf(NewRow(k)) = BalanceOf(acc) + k.by /\ BalanceOf(acc) = k.acc.balance
  <2>1. k.acc.balance + k.by \in Nat
    BY <1>1, <1>4, <1>5 DEF Covers
  <2>2. NewRow(k) \in AccountRecord /\ NewRow(k).balance = k.acc.balance + k.by
    BY <1>2, <1>4, <2>1 DEF NewRow, AccountRecord
  <2>3. NewRow(k) # NoRow
    BY <2>2, AccountsAssumption
  <2>4. QED
    BY <1>3, <2>2, <2>3 DEF BalanceOf
<1>7. BalanceOf(NewRow(k)) + StakeOf(val) = given + gift + IF Half(k2) THEN -k2.by ELSE 0
  <2>1. BalanceOf(acc) \in Int /\ StakeOf(val) \in Int /\ given \in Int
    BY <1>4, <1>6 DEF Typed, StakeOf, Row, Validator
  <2>2. CASE Half(k)
    <3>1. gift = 0
      BY <1>1, <2>2 DEF Half, IsReward
    <3>2. BalanceOf(acc) + StakeOf(val) = given + (-k.by)
      BY <2>2 DEF OnItsWay
    <3>3. (BalanceOf(acc) + k.by) + StakeOf(val) = given + 0 + 0
      BY <1>1, <2>1, <3>2
    <3>4. QED
      BY <1>3, <1>6, <3>1, <3>3
  <2>3. CASE ~Half(k)
    <3>0. k.op = "add" \/ IsReward(k)
      <4>1. k.op = "stake" => k.by <= 0
        BY <1>1 DEF OnItsWay, Fits
      <4>2. k.op # "unstake" /\ (k.op \in {"register", "stake"} => k.by > 0)
        BY <1>1, <2>3 DEF Half
      <4>3. QED
        BY <1>1, <1>2, <4>1, <4>2 DEF IsReward
    <3>1. gift = k.by
      BY <3>0
    <3>2. BalanceOf(acc) + StakeOf(val) = given + 0
      BY <2>3 DEF OnItsWay
    <3>3. (BalanceOf(acc) + k.by) + StakeOf(val) = given + k.by + 0
      BY <1>1, <2>1, <3>2
    <3>4. QED
      BY <1>3, <1>6, <3>1, <3>3
  <2>4. QED
    BY <2>2, <2>3
<1>8. Fits(k2)
  BY <1>1, <1>2 DEF OnItsWay, Fits, PlacesOf, Updating
<1>9. NewRow(k2) = NewRow(k) /\ Altered(k2) = Altered(k)
  BY <1>1 DEF NewRow, Altered
<1>10. BalanceGoes(k2, NewRow(k), accRow)
  BY <1>1, <1>3, <1>9 DEF OnItsWay, BalanceGoes, Asking
<1>11. StakeGoes(k2, val, valRow)
  BY <1>1, <1>3, <1>9 DEF OnItsWay, StakeGoes, Later, Asking
<1>12. QED
  BY <1>5, <1>7, <1>8, <1>10, <1>11 DEF OnItsWay

\* The row of the account is what memory has, once it is written.
LEMMA WriteMoves ==
    ASSUME NEW k \in Calls, NEW acc, NEW accRow, NEW val, NEW valRow, NEW given,
           Typed(k, acc, accRow, val, valRow, given), OnItsWay(k, acc, accRow, val, valRow, given),
           k.pc = "write", k.acc # NoRow
    PROVE  /\ k.flag <=> accRow # NoRow
           /\ k.flag => acc = IF k.op = "nonce" THEN [accRow EXCEPT !.nonce = k.n]
                              ELSE [accRow EXCEPT !.balance = k.acc.balance + k.by]
           /\ acc = NewRow(k)
           /\ k.op \in {"add", "nonce"} => AtRest(acc, acc, val, valRow, given)
           /\ k.op \notin {"add", "nonce"} => \A k2 \in Calls :
                 /\ Same(k, k2) /\ k2.val = k.val
                 /\ k2.pc = IF IsReward(k) THEN "rewards" ELSE "row"
                 => OnItsWay(k2, acc, acc, val, valRow, given)
<1>1. (k.flag <=> accRow # NoRow) /\ acc = NewRow(k) /\ Matches(accRow, k.acc)
  BY DEF OnItsWay, BalanceGoes
<1>2. k.flag => accRow = k.acc
  BY <1>1 DEF Matches
<1>3. k.flag => acc = IF k.op = "nonce" THEN [accRow EXCEPT !.nonce = k.n]
                      ELSE [accRow EXCEPT !.balance = k.acc.balance + k.by]
  BY <1>1, <1>2 DEF NewRow
<1>4. ~Half(k) /\ BalanceOf(acc) + StakeOf(val) = given + 0
  BY DEF OnItsWay, Half, Asking
<1>5. BalanceOf(acc) + StakeOf(val) = given
  BY <1>4 DEF Typed
<1>6. k.op \in {"add", "nonce"} => AtRest(acc, acc, val, valRow, given)
  BY <1>5 DEF OnItsWay, StakeGoes, Unrecorded, AtRest, Matches
<1>7. ASSUME NEW k2 \in Calls, Same(k, k2), k2.val = k.val, k.op \notin {"add", "nonce"},
             k2.pc = IF IsReward(k) THEN "rewards" ELSE "row"
      PROVE  OnItsWay(k2, acc, acc, val, valRow, given)
  <2>1. k2.op = k.op /\ k2.n = k.n /\ k2.by = k.by /\ k.by \in Int
    BY <1>7 DEF Same, Typed
  <2>2. k.op \in {"register", "stake", "unstake"}
    BY <1>7 DEF OnItsWay, Fits, PlacesOf, Typed, Operation, Reading
  <2>3. \/ k2.pc = "rewards" /\ k.op = "register" /\ k.by > 0
        \/ k2.pc = "row" /\ (k.op = "register" => k.by <= 0)
    BY <1>7, <2>1 DEF IsReward
  <2>4. Fits(k2)
    <3>1. k2.pc \in PlacesOf(k2.op)
      BY <2>1, <2>2, <2>3 DEF PlacesOf
    <3>2. /\ k.op = "unstake" => k.by = k.n
          /\ k.op = "stake" \/ (k.op = "register" /\ k.by <= 0) => k.by = -k.n
      BY DEF OnItsWay, Fits
    <3>3. QED
      BY <2>1, <2>3, <3>1, <3>2 DEF Fits
  <2>5. ~Half(k2) /\ (Unrecorded(k2) <=> Unrecorded(k)) /\ Altered(k2) = Altered(k)
    <3>1. ~Half(k2)
      BY <2>3 DEF Half, Asking
    <3>2. Unrecorded(k2) <=> Unrecorded(k)
      <4>1. k.op = "stake" => k.by <= 0
        BY <2>1 DEF Typed, OnItsWay, Fits
      <4>2. QED
        BY <2>1, <2>2, <2>3, <4>1 DEF Unrecorded, Asking, Updating
    <3>3. Altered(k2) = Altered(k)
      BY <1>7, <2>1 DEF Altered
    <3>4. QED
      BY <3>1, <3>2, <3>3
  <2>6. BalanceGoes(k2, acc, acc)
    BY <2>1, <2>3 DEF BalanceGoes, Matches, Asking
  <2>7. StakeGoes(k2, val, valRow)
    BY <1>7, <2>1, <2>2, <2>3, <2>5 DEF OnItsWay, StakeGoes, Asking, Later
  <2>8. QED
    BY <1>4, <2>4, <2>5, <2>6, <2>7 DEF OnItsWay
<1>8. QED
  BY <1>1, <1>3, <1>6, <1>7

\* So is the row of the validator, and a reward may come next.
LEMMA RowMoves ==
    ASSUME NEW k \in Calls, NEW acc, NEW accRow, NEW val, NEW valRow, NEW given,
           Typed(k, acc, accRow, val, valRow, given), OnItsWay(k, acc, accRow, val, valRow, given),
           k.pc = "row"
    PROVE  /\ val = Altered(k) /\ valRow = k.val
           /\ AtRest(acc, accRow, val, val, given)
           /\ k.op = "register" => valRow = NoRow
           /\ k.op = "register" => \A k2 \in Calls :
                 k2.op = "register" /\ k2.by > 0 /\ k2.pc = "update" /\ k2.acc = acc /\ k2.val = k.val
                 => OnItsWay(k2, acc, accRow, val, val, given)
<1>1. Unrecorded(k) /\ ~Half(k)
  BY DEF Unrecorded, Half, Asking
<1>2. val = Altered(k) /\ valRow = k.val /\ Matches(accRow, acc)
  BY <1>1 DEF OnItsWay, StakeGoes, BalanceGoes
<1>3. BalanceOf(acc) + StakeOf(val) = given + 0
  BY <1>1 DEF OnItsWay
<1>4. AtRest(acc, accRow, val, val, given)
  BY <1>2, <1>3 DEF AtRest, Typed
<1>5. k.op = "register" => k.val = NoRow
  BY DEF OnItsWay, StakeGoes, Later
<1>6. ASSUME NEW k2 \in Calls, k2.op = "register", k.op = "register",
             k2.by > 0, k2.pc = "update", k2.acc = acc, k2.val = k.val
      PROVE  OnItsWay(k2, acc, accRow, val, val, given)
  <2>0. k2.by \in Int
    BY DEF Calls
  <2>1. Fits(k2) /\ ~Half(k2) /\ ~Unrecorded(k2)
    <3>1. k2.pc \in PlacesOf(k2.op)
      BY <1>6 DEF PlacesOf, Updating
    <3>2. Fits(k2)
      BY <1>6, <2>0, <3>1 DEF Fits, Updating
    <3>3. ~(k2.by <= 0)
      BY <1>6, <2>0
    <3>4. ~Half(k2) /\ ~Unrecorded(k2)
      BY <1>6, <3>3 DEF Half, Unrecorded
    <3>5. QED
      BY <3>2, <3>4
  <2>2. BalanceGoes(k2, acc, accRow)
    BY <1>2, <1>6, <2>0 DEF BalanceGoes, Asking
  <2>3. StakeGoes(k2, val, val)
    BY <1>5, <1>6, <2>1 DEF StakeGoes, Asking
  <2>4. QED
    BY <1>3, <2>1, <2>2, <2>3 DEF OnItsWay
<1>7. QED
  BY <1>2, <1>4, <1>5, <1>6

\* The records of a reward
LEMMA RecordMoves ==
    ASSUME NEW k \in Calls, NEW acc, NEW accRow, NEW val, NEW valRow, NEW given,
           Typed(k, acc, accRow, val, valRow, given), OnItsWay(k, acc, accRow, val, valRow, given),
           k.pc \in {"rewards", "distribution", "state"}
    PROVE  /\ AtRest(acc, accRow, val, valRow, given)
           /\ \A k2 \in Calls :
                 Same(k, k2) /\ k2.pc \in {"distribution", "state"} /\ k2.val = k.val /\ k2.acc = k.acc
                 => OnItsWay(k2, acc, accRow, val, valRow, given)
<1>1. k.op = "register" /\ k.by > 0 /\ k.by \in Int
  BY DEF OnItsWay, Fits, PlacesOf, Typed, Operation, Reading, Asking, Updating
<1>2. ~Half(k) /\ ~Unrecorded(k)
  BY <1>1 DEF Half, Unrecorded, Asking, Updating
<1>3. BalanceOf(acc) + StakeOf(val) = given + 0 /\ Matches(accRow, acc) /\ valRow = val
  BY <1>2 DEF OnItsWay, BalanceGoes, StakeGoes
<1>4. AtRest(acc, accRow, val, valRow, given)
  BY <1>3 DEF AtRest, Typed
<1>5. ASSUME NEW k2 \in Calls, Same(k, k2), k2.pc \in {"distribution", "state"},
             k2.val = k.val, k2.acc = k.acc
      PROVE  OnItsWay(k2, acc, accRow, val, valRow, given)
  <2>1. k2.op = "register" /\ k2.by > 0 /\ k2.by \in Int
    BY <1>1, <1>5 DEF Same
  <2>2. Fits(k2) /\ ~Half(k2) /\ ~Unrecorded(k2)
    BY <1>5, <2>1 DEF Fits, Half, Unrecorded, PlacesOf, Updating, Asking
  <2>3. BalanceGoes(k2, acc, accRow)
    BY <1>3, <1>5 DEF BalanceGoes, Asking
  <2>4. StakeGoes(k2, val, valRow)
    BY <1>3, <1>5, <2>1, <2>2 DEF StakeGoes, Asking, Later
  <2>5. QED
    BY <1>3, <2>2, <2>3, <2>4 DEF OnItsWay
<1>6. QED
  BY <1>4, <1>5

\* Calls that end before they have changed anything
LEMMA EndMoves ==
    ASSUME NEW k \in Calls, NEW acc, NEW accRow, NEW val, NEW valRow, NEW given,
           Typed(k, acc, accRow, val, valRow, given), OnItsWay(k, acc, accRow, val, valRow, given),
           k.pc \in {"gotValidator", "gotAccount"}
    PROVE  AtRest(acc, accRow, val, valRow, given)
<1>1. ~Half(k) /\ ~Unrecorded(k)
  BY DEF Half, Unrecorded, Asking, Updating, OnItsWay, Fits, PlacesOf, Reading
<1>2. BalanceOf(acc) + StakeOf(val) = given + 0 /\ Matches(accRow, acc) /\ valRow = val
  BY <1>1 DEF OnItsWay, BalanceGoes, StakeGoes
<1>3. QED
  BY <1>2 DEF AtRest, Typed

\* A validator is found in memory, or asked for.
LEMMA BeginMoves ==
    ASSUME NEW acc, NEW accRow, NEW val, NEW valRow, NEW given, NEW k2 \in Calls,
           AtRest(acc, accRow, val, valRow, given), given \in Int,
           k2.op \in {"register", "stake", "unstake", "jail", "unjail"}, k2.n \in Nat, k2.n > 0,
           k2.by = Owed(k2.op, k2.n), k2.val = val,
           k2.pc = IF val = NoRow THEN "findValidator" ELSE "gotValidator"
    PROVE  OnItsWay(k2, acc, accRow, val, valRow, given)
<1>1. /\ k2.op = "unstake" => k2.by = k2.n
      /\ k2.op # "unstake" => k2.by = -k2.n /\ k2.by <= 0
  BY DEF Owed
<1>2. k2.pc \in {"findValidator", "gotValidator"} /\ (k2.pc = "findValidator" => val = NoRow)
  OBVIOUS
<1>3. Fits(k2) /\ ~Half(k2) /\ ~Unrecorded(k2)
  BY <1>1, <1>2 DEF Fits, Half, Unrecorded, PlacesOf, Reading, Asking, Updating
<1>4. BalanceOf(acc) + StakeOf(val) = given + IF Half(k2) THEN -k2.by ELSE 0
  BY <1>3 DEF AtRest
<1>5. BalanceGoes(k2, acc, accRow)
  BY <1>2 DEF AtRest, BalanceGoes, Asking
<1>6. StakeGoes(k2, val, valRow)
  BY <1>2, <1>3 DEF AtRest, StakeGoes, Asking, Later
<1>7. QED
  BY <1>3, <1>4, <1>5, <1>6 DEF OnItsWay

\* No other call is about this address.
Alone(c, a) == \A d \in Caller \ {c} : call[d] = NoCall \/ call[d].of # a

\* What ConservedInv says of a call under way
LEMMA UnderWay ==
    ASSUME AccInv, ConservedInv, NEW c \in Caller, NEW k, k = call[c], NEW pc \in Places, k.pc = pc
    PROVE  /\ k \in Calls /\ k # NoCall /\ k.of \in Address
           /\ Typed(k, accounts[k.of], accountRows[k.of], validators[k.of], validatorRows[k.of],
                    granted[k.of])
           /\ CallOK(k, accounts, accountRows)
           /\ k.of \notin disturbed =>
                 /\ OnItsWay(k, accounts[k.of], accountRows[k.of], validators[k.of],
                             validatorRows[k.of], granted[k.of])
                 /\ Paying(k, rewarded, rewardRows)
                 /\ Alone(c, k.of)
<1>1. /\ k # NoCall /\ k \in Calls /\ CallOK(k, accounts, accountRows)
      /\ k.of \in Address /\ k.n \in Nat /\ k.n > 0 /\ k.by \in Int
  BY InCall DEF AccInv
<1>2. k.op \in Operation /\ k.val \in Row /\ k.acc \in AccountRow
  BY <1>1 DEF Calls
<1>3. /\ accounts[k.of] \in AccountRow /\ accountRows[k.of] \in AccountRow
      /\ validators[k.of] \in Row /\ validatorRows[k.of] \in Row /\ granted[k.of] \in Int
  BY <1>1 DEF AccInv, AccountsTypeOK, AccountRow, Row
<1>4. Typed(k, accounts[k.of], accountRows[k.of], validators[k.of], validatorRows[k.of],
            granted[k.of])
  BY <1>1, <1>2, <1>3 DEF Typed
<1>5. ASSUME k.of \notin disturbed
      PROVE  /\ OnItsWay(k, accounts[k.of], accountRows[k.of], validators[k.of],
                         validatorRows[k.of], granted[k.of])
             /\ Paying(k, rewarded, rewardRows)
             /\ Alone(c, k.of)
  <2>1. AddressInv(k.of)
    BY <1>1, <1>5 DEF ConservedInv
  <2>2. QED
    BY <1>1, <2>1 DEF AddressInv, Alone
<1>6. QED
  BY <1>1, <1>4, <1>5

\* A step of one call: what it makes of the address it is about is all that
\* needs to be looked at.
LEMMA Carried ==
    ASSUME ConservedInv, NEW c \in Caller, NEW b \in Address, NEW k2,
           call \in [Caller -> {NoCall} \cup Calls], call' = [call EXCEPT ![c] = k2],
           call[c] # NoCall => call[c].of = b, k2 # NoCall => k2.of = b,
           \A a \in Address \ {b} :
              /\ accounts'[a] = accounts[a] /\ accountRows'[a] = accountRows[a]
              /\ validators'[a] = validators[a] /\ validatorRows'[a] = validatorRows[a]
              /\ granted'[a] = granted[a]
              /\ a \in rewarded' <=> a \in rewarded
              /\ a \in rewardRows' <=> a \in rewardRows,
           disturbed \subseteq disturbed', rewarded' # {} => stateRow' # NoRow,
           b \notin disturbed' =>
              /\ Alone(c, b)
              /\ k2 = NoCall => /\ AtRest(accounts'[b], accountRows'[b], validators'[b],
                                          validatorRows'[b], granted'[b])
                                /\ b \in rewarded' <=> b \in rewardRows'
              /\ k2 # NoCall => /\ OnItsWay(k2, accounts'[b], accountRows'[b], validators'[b],
                                            validatorRows'[b], granted'[b])
                                /\ Paying(k2, rewarded', rewardRows')
    PROVE  ConservedInv'
<1>1. call'[c] = k2 /\ \A d \in Caller \ {c} : call'[d] = call[d]
  OBVIOUS
<1>2. ASSUME NEW a \in Address, a \notin disturbed' PROVE AddressInv(a)'
  <2>1. AddressInv(a)
    BY <1>2 DEF ConservedInv
  <2>2. CASE a = b
    <3>1. Alone(c, b)
      BY <1>2, <2>2
    <3>2. \A d \in Caller : call'[d] # NoCall /\ call'[d].of = a => d = c
      BY <1>1, <2>2, <3>1 DEF Alone
    <3>3. Quiet(a)' => k2 = NoCall
      BY <1>1, <2>2 DEF Quiet
    <3>4. QED
      BY <1>1, <1>2, <2>2, <3>2, <3>3 DEF AddressInv
  <2>3. CASE a # b
    <3>1. \A d \in Caller : call'[d] # NoCall /\ call'[d].of = a =>
             d # c /\ call[d] # NoCall /\ call[d].of = a /\ call'[d] = call[d]
      BY <1>1, <2>3
    <3>2. Quiet(a)' => Quiet(a)
      BY <1>1, <2>3 DEF Quiet
    <3>3. /\ accounts'[a] = accounts[a] /\ accountRows'[a] = accountRows[a]
          /\ validators'[a] = validators[a] /\ validatorRows'[a] = validatorRows[a]
          /\ granted'[a] = granted[a]
          /\ a \in rewarded' <=> a \in rewarded
          /\ a \in rewardRows' <=> a \in rewardRows
      BY <2>3
    <3>4. \A c1, d \in Caller :
             call'[c1] # NoCall /\ call'[c1].of = a /\ call'[d] # NoCall /\ call'[d].of = a => c1 = d
      BY <2>1, <3>1 DEF AddressInv
    <3>5. Quiet(a)' => /\ AtRest(accounts'[a], accountRows'[a], validators'[a], validatorRows'[a],
                                 granted'[a])
                       /\ a \in rewarded' <=> a \in rewardRows'
      BY <2>1, <3>2, <3>3 DEF AddressInv
    <3>6. ASSUME NEW d \in Caller, call'[d] # NoCall, call'[d].of = a
          PROVE  /\ OnItsWay(call'[d], accounts'[a], accountRows'[a], validators'[a],
                             validatorRows'[a], granted'[a])
                 /\ Paying(call'[d], rewarded', rewardRows')
      <4>1. call[d] # NoCall /\ call[d].of = a /\ call'[d] = call[d]
        BY <3>1, <3>6
      <4>2. /\ OnItsWay(call[d], accounts[a], accountRows[a], validators[a], validatorRows[a],
                        granted[a])
            /\ Paying(call[d], rewarded, rewardRows)
        BY <2>1, <4>1 DEF AddressInv
      <4>3. Paying(call[d], rewarded', rewardRows')
        BY <3>3, <4>1, <4>2 DEF Paying
      <4>4. QED
        BY <3>3, <4>1, <4>2, <4>3
    <3>7. QED
      BY <3>4, <3>5, <3>6 DEF AddressInv
  <2>4. QED
    BY <2>2, <2>3
<1>3. QED
  BY <1>2 DEF ConservedInv

LEMMA PayingOn ==
    ASSUME NEW k, NEW known, NEW listed, Paying(k, known, listed), k.pc # "state"
    PROVE  /\ k.of \in known <=> k.of \in listed
           /\ \A k2 : Same(k, k2) /\ k2.pc # "state" => Paying(k2, known, listed)
BY DEF Paying, Same, IsReward

\* A step of one call that leaves the distribution period alone
LEMMA OneCarried ==
    ASSUME AccInv, ConservedInv, NEW c \in Caller, NEW k, k = call[c], NEW pc \in Places, k.pc = pc,
           NEW k2 \in {NoCall} \cup Calls, call' = [call EXCEPT ![c] = k2],
           k2 # NoCall => Same(k, k2) /\ (k2.pc # "state" \/ k.of \in disturbed'),
           pc # "state" \/ k.of \in disturbed',
           \A a \in Address \ {k.of} :
              /\ accounts'[a] = accounts[a] /\ accountRows'[a] = accountRows[a]
              /\ validators'[a] = validators[a] /\ validatorRows'[a] = validatorRows[a]
              /\ granted'[a] = granted[a],
           UNCHANGED <<rewarded, rewardRows, stateRow>>, disturbed \subseteq disturbed',
           k.of \notin disturbed' =>
              /\ k2 = NoCall => AtRest(accounts'[k.of], accountRows'[k.of], validators'[k.of],
                                       validatorRows'[k.of], granted'[k.of])
              /\ k2 # NoCall => OnItsWay(k2, accounts'[k.of], accountRows'[k.of], validators'[k.of],
                                         validatorRows'[k.of], granted'[k.of])
    PROVE  ConservedInv'
<1>1. /\ k.of \in Address
      /\ k.of \notin disturbed => Paying(k, rewarded, rewardRows) /\ Alone(c, k.of)
  BY UnderWay
<1>2. k2 # NoCall => k2.of = k.of
  BY DEF Same
<1>3. k.of \notin disturbed' => /\ k.of \in rewarded <=> k.of \in rewardRows
                                /\ k2 # NoCall => Paying(k2, rewarded, rewardRows)
  BY <1>1, PayingOn
<1>4. call \in [Caller -> {NoCall} \cup Calls]
  BY DEF AccInv, CallsOK
<1>5. rewarded # {} => stateRow # NoRow
  BY DEF ConservedInv
<1>6. QED
  BY <1>1, <1>2, <1>3, <1>4, <1>5, Carried

\* A step that changes nothing but the call
LEMMA CallCarried ==
    ASSUME AccInv, ConservedInv, NEW c \in Caller, NEW k, k = call[c], NEW pc \in Places, k.pc = pc,
           NEW k2 \in {NoCall} \cup Calls, call' = [call EXCEPT ![c] = k2],
           k2 # NoCall => Same(k, k2) /\ (k2.pc # "state" \/ k.of \in disturbed'),
           pc # "state" \/ k.of \in disturbed',
           UNCHANGED <<memory, database, granted>>, disturbed \subseteq disturbed',
           k.of \notin disturbed' =>
              /\ k2 = NoCall => AtRest(accounts[k.of], accountRows[k.of], validators[k.of],
                                       validatorRows[k.of], granted[k.of])
              /\ k2 # NoCall => OnItsWay(k2, accounts[k.of], accountRows[k.of], validators[k.of],
                                         validatorRows[k.of], granted[k.of])
    PROVE  ConservedInv'
<1>1. UNCHANGED <<accounts, validators, rewarded, accountRows, validatorRows, rewardRows, stateRow,
                  granted>>
  BY DEF memory, database
<1>2. QED
  BY <1>1, OneCarried

\* Reading, from a row or from memory
LEMMA ReadConserves ==
    ASSUME AccInv, ConservedInv, NEW c \in Caller,
           FindValidator(c) \/ FindAccount(c) \/ Count(c)
    PROVE  ConservedInv'
<1> DEFINE k == call[c]
<1>1. CASE FindValidator(c)
  <2> DEFINE k2 == [k EXCEPT !.val = validatorRows[k.of], !.pc = "foundValidator"]
  <2>1. k.pc = "findValidator" /\ call' = [call EXCEPT ![c] = k2]
        /\ UNCHANGED <<memory, database, calls, history>>
    BY <1>1 DEF FindValidator
  <2>2. /\ k \in Calls /\ k.of \in Address
        /\ Typed(k, accounts[k.of], accountRows[k.of], validators[k.of], validatorRows[k.of],
                 granted[k.of])
        /\ k.of \notin disturbed => OnItsWay(k, accounts[k.of], accountRows[k.of], validators[k.of],
                                             validatorRows[k.of], granted[k.of])
    BY <2>1, UnderWay DEF Places
  <2>3. k2 \in Calls /\ Same(k, k2) /\ k2.pc = "foundValidator" /\ k2.val = validatorRows[k.of]
    BY <2>2 DEF Typed, Calls, Places, Same
  <2> HIDE DEF k2
  <2>4. k.of \notin disturbed => OnItsWay(k2, accounts[k.of], accountRows[k.of], validators[k.of],
                                          validatorRows[k.of], granted[k.of])
    BY <2>1, <2>2, <2>3, ReadMoves
  <2>5. k2 # NoCall
    BY <2>3 DEF NoCall
  <2>6. QED
    BY <2>1, <2>3, <2>4, <2>5, CallCarried DEF history, Places
<1>2. CASE FindAccount(c)
  <2> DEFINE k2 == [k EXCEPT !.acc = accountRows[k.of], !.pc = "foundAccount"]
  <2>1. k.pc = "findAccount" /\ call' = [call EXCEPT ![c] = k2]
        /\ UNCHANGED <<memory, database, calls, history>>
    BY <1>2 DEF FindAccount
  <2>2. /\ k \in Calls /\ k.of \in Address
        /\ Typed(k, accounts[k.of], accountRows[k.of], validators[k.of], validatorRows[k.of],
                 granted[k.of])
        /\ k.of \notin disturbed => OnItsWay(k, accounts[k.of], accountRows[k.of], validators[k.of],
                                             validatorRows[k.of], granted[k.of])
    BY <2>1, UnderWay DEF Places
  <2>3. /\ k2 \in Calls /\ Same(k, k2) /\ k2.pc = "foundAccount" /\ k2.acc = accountRows[k.of]
        /\ k2.val = k.val
    BY <2>2 DEF Typed, Calls, Places, Same
  <2> HIDE DEF k2
  <2>4. k.of \notin disturbed => OnItsWay(k2, accounts[k.of], accountRows[k.of], validators[k.of],
                                          validatorRows[k.of], granted[k.of])
    BY <2>1, <2>2, <2>3, ReadMoves
  <2>5. k2 # NoCall
    BY <2>3 DEF NoCall
  <2>6. QED
    BY <2>1, <2>3, <2>4, <2>5, CallCarried DEF history, Places
<1>3. CASE Count(c)
  <2> DEFINE k2 == [k EXCEPT !.flag = accountRows[k.of] # NoRow, !.pc = "write"]
  <2>1. k.pc = "count" /\ call' = [call EXCEPT ![c] = k2]
        /\ UNCHANGED <<memory, database, calls, history>>
    BY <1>3 DEF Count
  <2>2. /\ k \in Calls /\ k.of \in Address
        /\ Typed(k, accounts[k.of], accountRows[k.of], validators[k.of], validatorRows[k.of],
                 granted[k.of])
        /\ k.of \notin disturbed => OnItsWay(k, accounts[k.of], accountRows[k.of], validators[k.of],
                                             validatorRows[k.of], granted[k.of])
    BY <2>1, UnderWay DEF Places
  <2>3. (accountRows[k.of] # NoRow) \in BOOLEAN
    BY Zenon
  <2>4. /\ k2 \in Calls /\ Same(k, k2) /\ k2.pc = "write" /\ k2.acc = k.acc /\ k2.val = k.val
    BY <2>2, <2>3 DEF Calls, Places, Same
  <2>5. k2.flag = (accountRows[k.of] # NoRow)
    BY <2>2 DEF Calls
  <2> HIDE DEF k2
  <2>6. k.of \notin disturbed => OnItsWay(k2, accounts[k.of], accountRows[k.of], validators[k.of],
                                          validatorRows[k.of], granted[k.of])
    BY <2>1, <2>2, <2>4, <2>5, ReadMoves
  <2>7. k2 # NoCall
    BY <2>4 DEF NoCall
  <2>8. QED
    BY <2>1, <2>4, <2>6, <2>7, CallCarried DEF history, Places
<1>4. QED
  BY <1>1, <1>2, <1>3

LEMMA FoundConserves ==
    ASSUME AccInv, ConservedInv, NEW c \in Caller, FoundValidator(c) \/ FoundAccount(c)
    PROVE  ConservedInv'
<1> DEFINE k == call[c]
<1>1. CASE FoundValidator(c)
  <2> DEFINE k2 == [k EXCEPT !.pc = "gotValidator"]
  <2>1. /\ k.pc = "foundValidator" /\ call' = [call EXCEPT ![c] = k2]
        /\ validators' = IF k.val = NoRow THEN validators ELSE [validators EXCEPT ![k.of] = k.val]
        /\ UNCHANGED <<accounts, rewarded, database, granted, disturbed>>
    BY <1>1 DEF FoundValidator, Goes, history
  <2>2. /\ k \in Calls /\ k.of \in Address
        /\ Typed(k, accounts[k.of], accountRows[k.of], validators[k.of], validatorRows[k.of],
                 granted[k.of])
        /\ k.of \notin disturbed => OnItsWay(k, accounts[k.of], accountRows[k.of], validators[k.of],
                                             validatorRows[k.of], granted[k.of])
    BY <2>1, UnderWay DEF Places
  <2>3. k2 \in Calls /\ Same(k, k2) /\ k2.pc = "gotValidator" /\ k2.val = k.val
    BY <2>2 DEF Calls, Places, Same
  <2> HIDE DEF k2
  <2>4. k.of \notin disturbed => validators'[k.of] = validators[k.of]
    <3>1. k.of \notin disturbed => k.val = validators[k.of]
      BY <2>1, <2>2 DEF OnItsWay, StakeGoes
    <3>2. validators \in [Address -> Row]
      BY DEF AccInv, AccountsTypeOK, Row
    <3>3. QED
      BY <2>1, <2>2, <3>1, <3>2
  <2>5. k.of \notin disturbed => OnItsWay(k2, accounts[k.of], accountRows[k.of], validators'[k.of],
                                          validatorRows[k.of], granted[k.of])
    BY <2>1, <2>2, <2>3, <2>4, ReadMoves
  <2>6. k2 # NoCall
    BY <2>3 DEF NoCall
  <2>7. \A a \in Address \ {k.of} : validators'[a] = validators[a]
    BY <2>1
  <2>8. UNCHANGED <<accountRows, validatorRows, rewardRows, stateRow>>
    BY <2>1 DEF database
  <2>9. QED
    BY <2>1, <2>3, <2>5, <2>6, <2>7, <2>8, OneCarried DEF Places
<1>2. CASE FoundAccount(c)
  <2> DEFINE found == IF k.acc = NoRow THEN Empty ELSE k.acc
             place == IF k.op \in {"unstake", "add"} THEN "update" ELSE "gotAccount"
             k2 == [k EXCEPT !.acc = found, !.pc = place]
  <2>1. /\ k.pc = "foundAccount" /\ call' = [call EXCEPT ![c] = k2]
        /\ accounts' = [accounts EXCEPT ![k.of] = found]
        /\ UNCHANGED <<validators, rewarded, database, granted, disturbed>>
    BY <1>2 DEF FoundAccount, history
  <2>2. /\ k \in Calls /\ k.of \in Address
        /\ Typed(k, accounts[k.of], accountRows[k.of], validators[k.of], validatorRows[k.of],
                 granted[k.of])
        /\ k.of \notin disturbed => OnItsWay(k, accounts[k.of], accountRows[k.of], validators[k.of],
                                             validatorRows[k.of], granted[k.of])
    BY <2>1, UnderWay DEF Places
  <2>3. k.of \notin disturbed => found = Empty
    BY <2>1, <2>2 DEF OnItsWay, BalanceGoes
  <2>4. found \in AccountRow /\ place \in {"update", "gotAccount"}
    BY <2>2 DEF Typed, AccountRow, AccountRecord, Empty
  <2> HIDE DEF found, place
  <2>5. k2 \in Calls /\ Same(k, k2) /\ k2.pc = place /\ k2.val = k.val /\ k2.acc = found
    BY <2>2, <2>4 DEF Calls, Places, Same
  <2> HIDE DEF k2
  <2>6. accounts \in [Address -> AccountRow]
    BY DEF AccInv, AccountsTypeOK, AccountRow
  <2>7. accounts'[k.of] = found /\ \A a \in Address \ {k.of} : accounts'[a] = accounts[a]
    BY <2>1, <2>2, <2>6
  <2>8. k.of \notin disturbed => OnItsWay(k2, accounts'[k.of], accountRows[k.of], validators[k.of],
                                          validatorRows[k.of], granted[k.of])
    BY <2>1, <2>2, <2>3, <2>5, <2>7, FoundMoves DEF place
  <2>9. k2 # NoCall /\ k2.pc # "state"
    BY <2>4, <2>5 DEF NoCall
  <2>10. UNCHANGED <<accountRows, validatorRows, rewardRows, stateRow>>
    BY <2>1 DEF database
  <2>11. "foundAccount" \in Places /\ k.pc = "foundAccount" /\ k = call[c] /\ disturbed' = disturbed
    BY <2>1 DEF Places
  <2>12. /\ call' = [call EXCEPT ![c] = k2]
         /\ UNCHANGED <<validators, rewarded, rewardRows, stateRow, accountRows, validatorRows, granted>>
    BY <2>1, <2>10
  <2>13. QED
    BY <2>5, <2>7, <2>8, <2>9, <2>11, <2>12, OneCarried
<1>3. QED
  BY <1>1, <1>2

\* getAccount asks the memory.
LEMMA AskConserves ==
    ASSUME AccInv, ConservedInv, NEW c \in Caller, NEW b \in Address, NEW k \in Calls, k.of = b,
           call[c] # NoCall => call[c].of = b, k.n > 0, k.n \in Nat, AskAccount(c, k),
           \A a \in Address \ {b} : validators'[a] = validators[a],
           UNCHANGED <<accounts, rewarded, database, granted>>, disturbed \subseteq disturbed',
           b \notin disturbed' =>
              /\ Alone(c, b)
              /\ Asks(k, accounts[b], accountRows[b], validators'[b], validatorRows[b], granted[b])
              /\ Paying(k, rewarded, rewardRows) /\ k.pc # "state"
    PROVE  ConservedInv'
<1> DEFINE place == IF accounts[k.of] = NoRow THEN "findAccount"
                    ELSE IF k.op \in {"unstake", "add"} THEN "update" ELSE "gotAccount"
           k2 == [k EXCEPT !.acc = accounts[k.of], !.pc = place]
<1>1. call' = [call EXCEPT ![c] = k2]
  BY DEF AskAccount
<1>2. place \in {"findAccount", "update", "gotAccount"}
  OBVIOUS
<1>3. accounts[b] \in AccountRow
  BY DEF AccInv, AccountsTypeOK, AccountRow
<1>4. place = IF accounts[b] = NoRow THEN "findAccount"
              ELSE IF k.op \in {"unstake", "add"} THEN "update" ELSE "gotAccount"
  OBVIOUS
<1> HIDE DEF place
<1>5. k2 \in Calls /\ Same(k, k2) /\ k2.val = k.val /\ k2.acc = accounts[b] /\ k2.pc = place
  BY <1>2, <1>3 DEF Calls, Places, Same
<1> HIDE DEF k2
<1>6. k2 # NoCall /\ k2.of = b /\ k2.pc # "state"
  BY <1>2, <1>5 DEF NoCall, Same
<1>7. UNCHANGED <<accountRows, validatorRows, rewardRows, stateRow>>
  BY DEF database
<1>8. ASSUME b \notin disturbed'
      PROVE  /\ OnItsWay(k2, accounts'[b], accountRows'[b], validators'[b], validatorRows'[b],
                         granted'[b])
             /\ Paying(k2, rewarded', rewardRows')
  <2>1. OnItsWay(k2, accounts[b], accountRows[b], validators'[b], validatorRows[b], granted[b])
    BY <1>4, <1>5, <1>8, AsksMoves
  <2>2. Paying(k2, rewarded, rewardRows)
    BY <1>5, <1>6, <1>8, PayingOn
  <2>3. QED
    BY <1>7, <2>1, <2>2
<1>9. call \in [Caller -> {NoCall} \cup Calls]
  BY DEF AccInv, CallsOK
<1>10. rewarded # {} => stateRow # NoRow
  BY DEF ConservedInv
<1>11. QED
  BY <1>1, <1>6, <1>7, <1>8, <1>9, <1>10, Carried

LEMMA BeginConserves ==
    ASSUME AccInv, ConservedInv, NEW c \in Caller, NEW op \in Operation, NEW a \in Address,
           NEW n \in Amount, Begin(c, op, a, n)
    PROVE  ConservedInv'
<1> DEFINE k == [op |-> op, of |-> a, n |-> n, by |-> Owed(op, n), pc |-> "begin",
                 val |-> NoRow, acc |-> NoRow, flag |-> FALSE]
<1>1. /\ IF op \in {"add", "nonce"} THEN AskAccount(c, k) ELSE AskValidator(c, k)
      /\ disturbed' = IF Quiet(a) THEN disturbed ELSE disturbed \cup {a}
      /\ call[c] = NoCall /\ UNCHANGED <<memory, database, granted>>
  BY DEF Begin
<1>2. UNCHANGED <<accounts, validators, rewarded, accountRows, validatorRows, rewardRows, stateRow,
                  granted>>
  BY <1>1 DEF memory, database
<1>3. n \in Nat /\ n > 0 /\ Owed(op, n) \in Int /\ (op = "register" => Owed(op, n) <= 0)
  BY AccountsAssumption DEF Owed
<1>4. /\ k \in Calls /\ k.op = op /\ k.of = a /\ k.n = n /\ k.by = Owed(op, n) /\ k.pc = "begin"
  BY <1>3 DEF Calls, Places, Row, AccountRow
<1> HIDE DEF k
<1>5. /\ accounts[a] \in AccountRow /\ accountRows[a] \in AccountRow
      /\ validators[a] \in Row /\ validatorRows[a] \in Row /\ granted[a] \in Int
      /\ call \in [Caller -> {NoCall} \cup Calls]
  BY DEF AccInv, AccountsTypeOK, CallsOK, AccountRow, Row
<1>6. disturbed \subseteq disturbed' /\ (a \notin disturbed' => Quiet(a) /\ a \notin disturbed)
  BY <1>1
<1>7. a \notin disturbed' => /\ AtRest(accounts[a], accountRows[a], validators[a], validatorRows[a],
                                       granted[a])
                             /\ a \in rewarded <=> a \in rewardRows
                             /\ Alone(c, a)
  BY <1>6 DEF ConservedInv, AddressInv, Quiet, Alone
<1>8. rewarded # {} => stateRow # NoRow
  BY DEF ConservedInv
<1>9. CASE op \in {"add", "nonce"}
  <2>1. AskAccount(c, k)
    BY <1>1, <1>9
  <2>2. a \notin disturbed' => Asks(k, accounts[a], accountRows[a], validators'[a],
                                    validatorRows[a], granted[a])
    BY <1>2, <1>4, <1>5, <1>7, <1>9 DEF Asks, AtRest
  <2>3. a \notin disturbed' => Paying(k, rewarded, rewardRows)
    BY <1>4, <1>7, <1>9 DEF Paying, IsReward
  <2>4. QED
    BY <1>1, <1>2, <1>3, <1>4, <1>6, <1>7, <2>1, <2>2, <2>3, AskConserves
<1>10. CASE op \notin {"add", "nonce"}
  <2> DEFINE place == IF validators[a] = NoRow THEN "findValidator" ELSE "gotValidator"
             kv == [k EXCEPT !.val = validators[a], !.pc = place]
  <2>1. call' = [call EXCEPT ![c] = kv]
    BY <1>1, <1>4, <1>10 DEF AskValidator
  <2>2. place \in {"findValidator", "gotValidator"}
    OBVIOUS
  <2>3. place = IF validators[a] = NoRow THEN "findValidator" ELSE "gotValidator"
    OBVIOUS
  <2> HIDE DEF place
  <2>4. /\ kv \in Calls /\ kv.op = op /\ kv.of = a /\ kv.n = n /\ kv.by = Owed(op, n)
        /\ kv.val = validators[a] /\ kv.pc = place
    BY <1>4, <1>5, <2>2 DEF Calls, Places
  <2> HIDE DEF kv
  <2>5. kv # NoCall /\ kv.pc # "state"
    BY <2>2, <2>4 DEF NoCall
  <2>6. op \in {"register", "stake", "unstake", "jail", "unjail"}
    BY <1>10 DEF Operation
  <2>7. a \notin disturbed' => OnItsWay(kv, accounts[a], accountRows[a], validators[a],
                                        validatorRows[a], granted[a])
    BY <1>3, <1>5, <1>7, <2>3, <2>4, <2>6, BeginMoves
  <2>8. a \notin disturbed' => Paying(kv, rewarded, rewardRows)
    <3>1. ~IsReward(kv)
      BY <1>3, <2>4 DEF IsReward
    <3>2. QED
      BY <1>7, <2>4, <2>5, <3>1 DEF Paying
  <2>9. QED
    BY <1>1, <1>2, <1>5, <1>6, <1>7, <1>8, <2>1, <2>4, <2>5, <2>7, <2>8, Carried
<1>11. QED
  BY <1>9, <1>10

\* What is true when a call that has its validator asks for the account
LEMMA AsksNow ==
    ASSUME NEW k \in Calls, NEW acc, NEW accRow, NEW val, NEW valRow, NEW given, NEW val2,
           Typed(k, acc, accRow, val, valRow, given), OnItsWay(k, acc, accRow, val, valRow, given),
           k.pc = "gotValidator",
           \/ k.op = "register" /\ k.val = NoRow /\ val2 = val
           \/ k.op = "stake" /\ k.val # NoRow /\ val2 = val
           \/ k.op = "unstake" /\ k.val # NoRow /\ k.val.stake - k.n >= 0 /\ val2 = Altered(k)
    PROVE  Asks(k, acc, accRow, val2, valRow, given)
<1>1. val = k.val /\ valRow = val /\ ~Half(k) /\ Matches(accRow, acc)
  BY DEF OnItsWay, StakeGoes, BalanceGoes, Unrecorded, Half, Asking, Updating
<1>2. BalanceOf(acc) + StakeOf(val) = given + 0
  BY <1>1 DEF OnItsWay
<1>3. k.op = "unstake" => k.by = k.n
  BY DEF OnItsWay, Fits
<1>4. k.op \in {"stake", "register"} => k.by = -k.n
  BY DEF Typed, OnItsWay, Fits, Updating
<1>5. CASE k.op = "unstake"
  <2>1. k.val \in Validator /\ k.val.stake \in Nat
    BY <1>5 DEF Typed, Row, Validator
  <2>2. Altered(k) \in Validator /\ Altered(k).stake = k.val.stake - k.n
    BY <1>5, <2>1 DEF Altered, Validator, Typed
  <2>3. StakeOf(val) = k.val.stake /\ StakeOf(Altered(k)) = k.val.stake - k.n
    BY <1>1, <1>5, <2>2, AccountsAssumption DEF StakeOf
  <2>4. BalanceOf(acc) \in Int /\ given \in Int /\ k.n \in Int
    BY DEF Typed, BalanceOf, AccountRow, AccountRecord
  <2>5. BalanceOf(acc) + StakeOf(Altered(k)) = given + (-k.by)
    BY <1>2, <1>3, <1>5, <2>1, <2>3, <2>4
  <2>6. QED
    BY <1>1, <1>3, <1>5, <2>5 DEF Asks
<1>6. CASE k.op # "unstake"
  BY <1>1, <1>2, <1>4, <1>6 DEF Asks
<1>7. QED
  BY <1>5, <1>6

LEMMA GotValidatorConserves ==
    ASSUME AccInv, ConservedInv, NEW c \in Caller, GotValidator(c) PROVE ConservedInv'
<1> DEFINE k == call[c]
<1>1. /\ k.pc = "gotValidator"
      /\ UNCHANGED <<accounts, rewarded, accountRows, validatorRows, rewardRows, stateRow, granted,
                     disturbed>>
  BY DEF GotValidator, database, history
<1>2. /\ k \in Calls /\ k.of \in Address /\ k # NoCall /\ k.n \in Nat /\ k.n > 0
      /\ Typed(k, accounts[k.of], accountRows[k.of], validators[k.of], validatorRows[k.of],
               granted[k.of])
      /\ k.of \notin disturbed =>
            /\ OnItsWay(k, accounts[k.of], accountRows[k.of], validators[k.of], validatorRows[k.of],
                        granted[k.of])
            /\ Paying(k, rewarded, rewardRows) /\ Alone(c, k.of)
  BY <1>1, UnderWay DEF Places, Typed
<1>3. validators \in [Address -> Row]
  BY DEF AccInv, AccountsTypeOK, Row
<1>4. UNCHANGED database
  BY <1>1 DEF database
<1>5. CASE /\ \/ k.op = "register" /\ k.val = NoRow
              \/ k.op = "stake" /\ k.val # NoRow
           /\ AskAccount(c, k) /\ UNCHANGED validators
  <2>1. k.of \notin disturbed => Asks(k, accounts[k.of], accountRows[k.of], validators'[k.of],
                                      validatorRows[k.of], granted[k.of])
    BY <1>1, <1>2, <1>5, AsksNow
  <2>2. QED
    BY <1>1, <1>2, <1>4, <1>5, <2>1, AskConserves
<1>6. CASE /\ k.op = "unstake" /\ k.val # NoRow /\ MayUnstake(k.val, k.n)
           /\ validators' = [validators EXCEPT ![k.of] = [k.val EXCEPT !.stake = @ - k.n]]
           /\ AskAccount(c, k)
  <2>1. Altered(k) = [k.val EXCEPT !.stake = @ - k.n]
    BY <1>6 DEF Altered
  <2>2. validators'[k.of] = Altered(k) /\ \A a \in Address \ {k.of} : validators'[a] = validators[a]
    BY <1>2, <1>3, <1>6, <2>1
  <2>3. k.val.stake - k.n >= 0
    <3>1. k.val \in Validator
      BY <1>2, <1>6 DEF Typed, Row
    <3>2. QED
      BY <1>2, <1>6, <3>1 DEF MayUnstake, Validator
  <2>4. k.of \notin disturbed => Asks(k, accounts[k.of], accountRows[k.of], validators'[k.of],
                                      validatorRows[k.of], granted[k.of])
    BY <1>1, <1>2, <1>6, <2>2, <2>3, AsksNow
  <2>5. QED
    BY <1>1, <1>2, <1>4, <1>6, <2>2, <2>4, AskConserves
<1>7. ASSUME NEW val, k.val # NoRow, k.op \in {"jail", "unjail"}, val = Altered(k),
             validators' = [validators EXCEPT ![k.of] = val], Goes(c, "row")
      PROVE  ConservedInv'
  <2> DEFINE k2 == [k EXCEPT !.pc = "row"]
  <2>1. call' = [call EXCEPT ![c] = k2]
    BY <1>7 DEF Goes
  <2>2. k2 \in Calls /\ Same(k, k2) /\ k2.val = k.val /\ k2.pc = "row"
    BY <1>2 DEF Calls, Places, Same
  <2> HIDE DEF k2
  <2>3. k2 # NoCall /\ k2.pc # "state"
    BY <2>2 DEF NoCall
  <2>4. validators'[k.of] = Altered(k) /\ \A a \in Address \ {k.of} : validators'[a] = validators[a]
    BY <1>2, <1>3, <1>7
  <2>5. k.of \notin disturbed => OnItsWay(k2, accounts[k.of], accountRows[k.of], validators'[k.of],
                                          validatorRows[k.of], granted[k.of])
    BY <1>1, <1>2, <1>7, <2>2, <2>4, JailMoves
  <2>6. "gotValidator" \in Places
    BY DEF Places
  <2>7. QED
    BY <1>1, <2>1, <2>2, <2>3, <2>4, <2>5, <2>6, OneCarried
<1>8. CASE Ends(c) /\ UNCHANGED validators
  <2>1. call' = [call EXCEPT ![c] = NoCall]
    BY <1>8 DEF Ends
  <2>2. k.of \notin disturbed => AtRest(accounts[k.of], accountRows[k.of], validators[k.of],
                                        validatorRows[k.of], granted[k.of])
    BY <1>1, <1>2, EndMoves
  <2>3. "gotValidator" \in Places
    BY DEF Places
  <2>4. QED
    BY <1>1, <1>8, <2>1, <2>2, <2>3, OneCarried
<1>9. \/ /\ \/ k.op = "register" /\ k.val = NoRow
            \/ k.op = "stake" /\ k.val # NoRow
         /\ AskAccount(c, k) /\ UNCHANGED validators
      \/ /\ k.op = "unstake" /\ k.val # NoRow /\ MayUnstake(k.val, k.n)
         /\ validators' = [validators EXCEPT ![k.of] = [k.val EXCEPT !.stake = @ - k.n]]
         /\ AskAccount(c, k)
      \/ /\ k.op = "jail" /\ k.val # NoRow /\ Goes(c, "row")
         /\ validators' = [validators EXCEPT ![k.of] = [k.val EXCEPT !.status = "jailed"]]
      \/ /\ k.op = "unjail" /\ k.val # NoRow /\ Goes(c, "row")
         /\ validators' = [validators EXCEPT ![k.of] = [k.val EXCEPT !.status = "active"]]
      \/ Ends(c) /\ UNCHANGED validators
  BY DEF GotValidator
<1>10. /\ k.op = "jail" => Altered(k) = [k.val EXCEPT !.status = "jailed"]
       /\ k.op = "unjail" => Altered(k) = [k.val EXCEPT !.status = "active"]
  BY DEF Altered
<1>11. QED
  BY <1>5, <1>6, <1>7, <1>8, <1>9, <1>10

LEMMA GotAccountConserves ==
    ASSUME AccInv, ConservedInv, NEW c \in Caller, GotAccount(c) PROVE ConservedInv'
<1> DEFINE k == call[c]
<1>1. /\ k.pc = "gotAccount"
      /\ UNCHANGED <<rewarded, accountRows, validatorRows, rewardRows, stateRow, granted, disturbed>>
  BY DEF GotAccount, database, history
<1>2. /\ k \in Calls /\ k.of \in Address /\ k # NoCall /\ k.n \in Nat /\ k.n > 0
      /\ Typed(k, accounts[k.of], accountRows[k.of], validators[k.of], validatorRows[k.of],
               granted[k.of])
      /\ CallOK(k, accounts, accountRows)
      /\ k.of \notin disturbed =>
            OnItsWay(k, accounts[k.of], accountRows[k.of], validators[k.of], validatorRows[k.of],
                     granted[k.of])
  BY <1>1, UnderWay DEF Places, Typed
<1>3. validators \in [Address -> Row] /\ accounts \in [Address -> AccountRow]
  BY DEF AccInv, AccountsTypeOK, Row, AccountRow
<1>4. k.acc # NoRow /\ (k.op = "stake" => k.val # NoRow) /\ "gotAccount" \in Places
  BY <1>1, <1>2 DEF CallOK, Later, Places
<1>5. ASSUME NEW val, k.op \in {"register", "stake"}, k.acc.balance >= k.n, val = Altered(k),
             validators' = [validators EXCEPT ![k.of] = val], UNCHANGED accounts,
             call' = [call EXCEPT ![c].pc = "update", ![c].acc = accounts[k.of]]
      PROVE  ConservedInv'
  <2> DEFINE k2 == [k EXCEPT !.pc = "update", !.acc = accounts[k.of]]
  <2>1. call' = [call EXCEPT ![c] = k2]
    BY <1>5
  <2>2. accounts[k.of] \in AccountRow
    BY <1>2, <1>3
  <2>3. k2 \in Calls /\ Same(k, k2) /\ k2.val = k.val /\ k2.pc = "update" /\ k2.acc = accounts[k.of]
    BY <1>2, <2>2 DEF Calls, Places, Same
  <2> HIDE DEF k2
  <2>4. k2 # NoCall /\ k2.pc # "state"
    BY <2>3 DEF NoCall
  <2>5. validators'[k.of] = Altered(k) /\ \A a \in Address \ {k.of} : validators'[a] = validators[a]
    BY <1>2, <1>3, <1>5
  <2>6. k.of \notin disturbed => OnItsWay(k2, accounts[k.of], accountRows[k.of], validators'[k.of],
                                          validatorRows[k.of], granted[k.of])
    <3>1. k.op \in {"register", "stake"} /\ k.acc.balance >= k.n
      BY <1>5
    <3>2. k.of \notin disturbed => OnItsWay(k2, accounts[k.of], accountRows[k.of], Altered(k),
                                            validatorRows[k.of], granted[k.of])
      BY <1>1, <1>2, <1>4, <2>3, <3>1, StakeMoves
    <3>3. QED
      BY <2>5, <3>2
  <2>7. UNCHANGED accounts
    BY <1>5
  <2>8. QED
    BY <1>1, <1>4, <2>1, <2>3, <2>4, <2>5, <2>6, <2>7, OneCarried
<1>6. CASE /\ k.op = "nonce" /\ Goes(c, "count") /\ UNCHANGED validators
           /\ accounts' = [accounts EXCEPT ![k.of] = [k.acc EXCEPT !.nonce = k.n]]
  <2> DEFINE k2 == [k EXCEPT !.pc = "count"]
  <2>1. call' = [call EXCEPT ![c] = k2]
    BY <1>6 DEF Goes
  <2>2. k2 \in Calls /\ Same(k, k2) /\ k2.acc = k.acc /\ k2.pc = "count"
    BY <1>2 DEF Calls, Places, Same
  <2> HIDE DEF k2
  <2>3. k2 # NoCall /\ k2.pc # "state"
    BY <2>2 DEF NoCall
  <2>4. NewRow(k) = [k.acc EXCEPT !.nonce = k.n]
    BY <1>6 DEF NewRow
  <2>5. accounts'[k.of] = NewRow(k) /\ \A a \in Address \ {k.of} : accounts'[a] = accounts[a]
    BY <1>2, <1>3, <1>6, <2>4
  <2>6. k.of \notin disturbed => OnItsWay(k2, accounts'[k.of], accountRows[k.of], validators[k.of],
                                          validatorRows[k.of], granted[k.of])
    <3>1. k.of \notin disturbed => OnItsWay(k2, NewRow(k), accountRows[k.of], validators[k.of],
                                            validatorRows[k.of], granted[k.of])
      BY <1>1, <1>2, <1>4, <1>6, <2>2, NonceMoves
    <3>2. QED
      BY <2>5, <3>1
  <2>7. QED
    BY <1>1, <1>4, <1>6, <2>1, <2>2, <2>3, <2>5, <2>6, OneCarried
<1>7. CASE Ends(c) /\ UNCHANGED <<accounts, validators>>
  <2>1. call' = [call EXCEPT ![c] = NoCall]
    BY <1>7 DEF Ends
  <2>2. k.of \notin disturbed => AtRest(accounts[k.of], accountRows[k.of], validators[k.of],
                                        validatorRows[k.of], granted[k.of])
    BY <1>1, <1>2, EndMoves
  <2>3. QED
    BY <1>1, <1>4, <1>7, <2>1, <2>2, OneCarried
<1>8. \/ /\ k.op = "register" /\ k.acc.balance >= k.n /\ UNCHANGED accounts
         /\ validators' = [validators EXCEPT ![k.of] = [stake |-> k.n, status |-> "active"]]
         /\ call' = [call EXCEPT ![c].pc = "update", ![c].acc = accounts[k.of]]
      \/ /\ k.op = "stake" /\ k.acc.balance >= k.n /\ UNCHANGED accounts
         /\ validators' = [validators EXCEPT ![k.of] = Staked(k.val, k.n)]
         /\ call' = [call EXCEPT ![c].pc = "update", ![c].acc = accounts[k.of]]
      \/ /\ k.op = "nonce" /\ Goes(c, "count") /\ UNCHANGED validators
         /\ accounts' = [accounts EXCEPT ![k.of] = [k.acc EXCEPT !.nonce = k.n]]
      \/ Ends(c) /\ UNCHANGED <<accounts, validators>>
  BY DEF GotAccount
<1>9. /\ k.op = "register" => Altered(k) = [stake |-> k.n, status |-> "active"]
      /\ k.op = "stake" => Altered(k) = Staked(k.val, k.n)
  BY DEF Altered, Staked
<1>10. QED
  BY <1>5, <1>6, <1>7, <1>8, <1>9

LEMMA AfterParts ==
    ASSUME NEW c \in Caller, NEW k \in Calls, k = call[c], NEW success \in BOOLEAN,
           AfterUpdate(c, success)
    PROVE  \/ k.op \in {"add", "nonce"} /\ call' = [call EXCEPT ![c] = NoCall]
           \/ /\ k.op \notin {"add", "nonce"}
              /\ \E k2 \in Calls :
                    /\ call' = [call EXCEPT ![c] = k2]
                    /\ Same(k, k2) /\ k2.val = k.val
                    /\ k2.pc = IF ~IsReward(k) THEN "row"
                               ELSE IF success THEN "rewards" ELSE "distribution"
<1> DEFINE place == IF ~IsReward(k) THEN "row" ELSE IF success THEN "rewards" ELSE "distribution"
           k2 == [k EXCEPT !.pc = place]
<1>1. place \in {"row", "rewards", "distribution"}
  OBVIOUS
<1>2. CASE k.op \in {"add", "nonce"}
  BY <1>2 DEF AfterUpdate, Ends
<1>3. CASE k.op \notin {"add", "nonce"}
  <2>1. call' = [call EXCEPT ![c] = k2]
    BY <1>3 DEF AfterUpdate, Goes
  <2> HIDE DEF place
  <2>2. k2 \in Calls /\ Same(k, k2) /\ k2.val = k.val /\ k2.pc = place
    BY <1>1 DEF Calls, Places, Same
  <2> HIDE DEF k2
  <2>3. QED
    BY <1>3, <2>1, <2>2 DEF place
<1>4. QED
  BY <1>2, <1>3

\* Nothing is asked of an address whose calls overlapped or failed.
LEMMA DisturbedCarried ==
    ASSUME AccInv, ConservedInv, NEW c \in Caller, NEW k, k = call[c], NEW pc \in Places, k.pc = pc,
           k.of \in disturbed', disturbed \subseteq disturbed',
           Ends(c) \/ \E success \in BOOLEAN : AfterUpdate(c, success),
           \A a \in Address \ {k.of} :
              /\ accounts'[a] = accounts[a] /\ accountRows'[a] = accountRows[a]
              /\ validators'[a] = validators[a] /\ validatorRows'[a] = validatorRows[a]
              /\ granted'[a] = granted[a],
           UNCHANGED <<rewarded, rewardRows, stateRow>>
    PROVE  ConservedInv'
<1>1. k \in Calls
  BY UnderWay
<1>2. CASE call' = [call EXCEPT ![c] = NoCall]
  BY <1>2, OneCarried
<1>3. ASSUME NEW k2 \in Calls, call' = [call EXCEPT ![c] = k2], Same(k, k2)
      PROVE  ConservedInv'
  <2>1. k2 \in {NoCall} \cup Calls
    OBVIOUS
  <2>2. QED
    BY <1>3, <2>1, OneCarried
<1>4. QED
  BY <1>1, <1>2, <1>3, AfterParts DEF Ends

LEMMA UpdateConserves == ASSUME AccInv, ConservedInv, NEW c \in Caller, Update(c) PROVE ConservedInv'
<1> DEFINE k == call[c]
           gift == IF k.op = "add" \/ IsReward(k) THEN k.by ELSE 0
<1>1. /\ k.pc = "update"
      /\ UNCHANGED <<validators, rewarded, accountRows, validatorRows, rewardRows, stateRow, disturbed>>
  BY DEF Update, database
<1>2. /\ k \in Calls /\ k.of \in Address /\ k # NoCall
      /\ Typed(k, accounts[k.of], accountRows[k.of], validators[k.of], validatorRows[k.of],
               granted[k.of])
      /\ CallOK(k, accounts, accountRows)
      /\ k.of \notin disturbed =>
            OnItsWay(k, accounts[k.of], accountRows[k.of], validators[k.of], validatorRows[k.of],
                     granted[k.of])
  BY <1>1, UnderWay DEF Places
<1>3. accounts \in [Address -> AccountRow] /\ granted \in [Address -> Nat] /\ "update" \in Places
  BY DEF AccInv, AccountsTypeOK, AccountRow, Places
<1>4. k.acc # NoRow /\ (k.op = "add" => k.by >= 0)
  BY <1>1, <1>2 DEF CallOK
<1>5. CASE /\ Covers(k.acc, k.by) /\ Goes(c, "count")
           /\ accounts' = [accounts EXCEPT ![k.of] = [k.acc EXCEPT !.balance = @ + k.by]]
           /\ granted' = [granted EXCEPT ![k.of] = @ + gift]
  <2> DEFINE k2 == [k EXCEPT !.pc = "count"]
  <2>1. call' = [call EXCEPT ![c] = k2]
    BY <1>5 DEF Goes
  <2>2. k2 \in Calls /\ Same(k, k2) /\ k2.acc = k.acc /\ k2.val = k.val /\ k2.pc = "count"
    BY <1>2 DEF Calls, Places, Same
  <2>3. granted'[k.of] = granted[k.of] + gift
    BY <1>2, <1>3, <1>5
  <2>4. /\ accounts'[k.of] = [k.acc EXCEPT !.balance = @ + k.by]
        /\ \A a \in Address \ {k.of} : accounts'[a] = accounts[a] /\ granted'[a] = granted[a]
    BY <1>2, <1>3, <1>5
  <2> HIDE DEF k2
  <2>5. k2 # NoCall /\ k2.pc # "state" /\ k2 \in {NoCall} \cup Calls
    BY <2>2 DEF NoCall
  <2>6. ASSUME k.of \notin disturbed
        PROVE  OnItsWay(k2, accounts'[k.of], accountRows[k.of], validators[k.of],
                        validatorRows[k.of], granted'[k.of])
    <3>1. k.op # "nonce"
      BY <1>1, <1>2, <2>6 DEF OnItsWay, Fits, PlacesOf, Asking
    <3>2. NewRow(k) = [k.acc EXCEPT !.balance = @ + k.by]
      BY <3>1 DEF NewRow
    <3>3. OnItsWay(k2, NewRow(k), accountRows[k.of], validators[k.of], validatorRows[k.of],
                   granted[k.of] + gift)
      BY <1>1, <1>2, <1>4, <2>2, <2>6, UpdateMoves
    <3>4. QED
      BY <2>3, <2>4, <3>2, <3>3
  <2>7. QED
    BY <1>1, <1>3, <2>1, <2>2, <2>4, <2>5, <2>6, OneCarried
<1>6. CASE ~Covers(k.acc, k.by) /\ AfterUpdate(c, FALSE) /\ UNCHANGED <<accounts, granted>>
  <2>1. k.of \in disturbed
    <3>1. ASSUME k.of \notin disturbed PROVE Covers(k.acc, k.by)
      <4> DEFINE k2 == [k EXCEPT !.pc = "count"]
      <4>1. k2 \in Calls /\ Same(k, k2) /\ k2.acc = k.acc /\ k2.val = k.val /\ k2.pc = "count"
        BY <1>2 DEF Calls, Places, Same
      <4> HIDE DEF k2
      <4>2. QED
        BY <1>1, <1>2, <1>4, <3>1, <4>1, UpdateMoves
    <3>2. QED
      BY <1>6, <3>1
  <2>2. QED
    BY <1>1, <1>3, <1>6, <2>1, DisturbedCarried
<1>7. QED
  BY <1>5, <1>6 DEF Update

LEMMA WriteConserves == ASSUME AccInv, ConservedInv, NEW c \in Caller, Write(c) PROVE ConservedInv'
<1> DEFINE k == call[c]
<1>1. /\ k.pc = "write"
      /\ UNCHANGED <<accounts, validators, rewarded, validatorRows, rewardRows, stateRow, granted,
                     disturbed>>
  BY DEF Write, memory, history
<1>2. /\ k \in Calls /\ k.of \in Address /\ k # NoCall
      /\ Typed(k, accounts[k.of], accountRows[k.of], validators[k.of], validatorRows[k.of],
               granted[k.of])
      /\ CallOK(k, accounts, accountRows)
      /\ k.of \notin disturbed =>
            OnItsWay(k, accounts[k.of], accountRows[k.of], validators[k.of], validatorRows[k.of],
                     granted[k.of])
  BY <1>1, UnderWay DEF Places
<1>3. accountRows \in [Address -> AccountRow] /\ "write" \in Places
  BY DEF AccInv, AccountsTypeOK, AccountRow, Places
<1>4. k.acc # NoRow
  BY <1>1, <1>2 DEF CallOK
<1>5. \A a \in Address \ {k.of} : accountRows'[a] = accountRows[a]
  <2>1. \/ accountRows' = accountRows
        \/ \E row : accountRows' = [accountRows EXCEPT ![k.of] = row]
    BY Zenon DEF Write
  <2>2. QED
    BY <1>3, <2>1
<1>6. CASE k.of \in disturbed
  <2>1. Ends(c) \/ \E success \in BOOLEAN : AfterUpdate(c, success)
    BY DEF Write
  <2>2. QED
    BY <1>1, <1>3, <1>5, <1>6, <2>1, DisturbedCarried
<1>7. CASE k.of \notin disturbed
  <2>1. /\ k.flag <=> accountRows[k.of] # NoRow
        /\ k.flag => accounts[k.of] = IF k.op = "nonce" THEN [accountRows[k.of] EXCEPT !.nonce = k.n]
                                      ELSE [accountRows[k.of] EXCEPT !.balance = k.acc.balance + k.by]
        /\ accounts[k.of] = NewRow(k)
        /\ k.op \in {"add", "nonce"} => AtRest(accounts[k.of], accounts[k.of], validators[k.of],
                                               validatorRows[k.of], granted[k.of])
        /\ k.op \notin {"add", "nonce"} => \A k2 \in Calls :
              /\ Same(k, k2) /\ k2.val = k.val
              /\ k2.pc = IF IsReward(k) THEN "rewards" ELSE "row"
              => OnItsWay(k2, accounts[k.of], accounts[k.of], validators[k.of], validatorRows[k.of],
                          granted[k.of])
    BY <1>1, <1>2, <1>4, <1>7, WriteMoves
  <2>2. AfterUpdate(c, TRUE) /\ accountRows'[k.of] = accounts[k.of]
    <3>1. CASE k.flag
      <4>1. /\ AfterUpdate(c, TRUE)
            /\ accountRows' = [accountRows EXCEPT ![k.of] =
                    IF k.op = "nonce" THEN [@ EXCEPT !.nonce = k.n]
                                      ELSE [@ EXCEPT !.balance = k.acc.balance + k.by]]
        BY <3>1 DEF Write
      <4>2. QED
        BY <1>2, <1>3, <2>1, <3>1, <4>1
    <3>2. CASE ~k.flag
      <4>1. accountRows[k.of] = NoRow
        BY <2>1, <3>2
      <4>2. AfterUpdate(c, TRUE) /\ accountRows' = [accountRows EXCEPT ![k.of] = NewRow(k)]
        BY <3>2, <4>1 DEF Write
      <4>3. QED
        BY <1>2, <1>3, <2>1, <4>2
    <3>3. QED
      BY <3>1, <3>2
  <2>3. CASE k.op \in {"add", "nonce"} /\ call' = [call EXCEPT ![c] = NoCall]
    BY <1>1, <1>3, <1>5, <2>1, <2>2, <2>3, OneCarried
  <2>4. ASSUME NEW k2 \in Calls, k.op \notin {"add", "nonce"}, call' = [call EXCEPT ![c] = k2],
               Same(k, k2), k2.val = k.val, k2.pc = IF ~IsReward(k) THEN "row" ELSE "rewards"
        PROVE  ConservedInv'
    <3>1. OnItsWay(k2, accounts'[k.of], accountRows'[k.of], validators'[k.of], validatorRows'[k.of],
                   granted'[k.of])
      BY <1>1, <2>1, <2>2, <2>4
    <3>2. k2 # NoCall /\ k2.pc # "state" /\ k2 \in {NoCall} \cup Calls
      BY <2>4 DEF NoCall
    <3>3. QED
      BY <1>1, <1>3, <1>5, <2>4, <3>1, <3>2, OneCarried
  <2>5. QED
    BY <1>2, <2>2, <2>3, <2>4, AfterParts
<1>8. QED
  BY <1>6, <1>7

LEMMA InsertConserves ==
    ASSUME AccInv, ConservedInv, NEW c \in Caller, InsertValidator(c) PROVE ConservedInv'
<1> DEFINE k == call[c]
           b == k.of
           reward == IF k.of = Developer THEN DeveloperReward ELSE ValidatorReward
           k2 == [k EXCEPT !.pc = "update", !.acc = accounts[k.of], !.by = reward]
<1>1. /\ k.pc = "row" /\ k.op = "register"
      /\ UNCHANGED <<accounts, validators, rewarded, accountRows, rewardRows, stateRow, granted,
                     disturbed>>
  BY DEF InsertValidator, memory, history
<1>2. /\ k \in Calls /\ b \in Address /\ k # NoCall
      /\ Typed(k, accounts[b], accountRows[b], validators[b], validatorRows[b], granted[b])
      /\ b \notin disturbed =>
            /\ OnItsWay(k, accounts[b], accountRows[b], validators[b], validatorRows[b], granted[b])
            /\ Paying(k, rewarded, rewardRows) /\ Alone(c, b)
  BY <1>1, UnderWay DEF Places
<1>3. /\ call \in [Caller -> {NoCall} \cup Calls] /\ accounts[b] \in AccountRow
      /\ validatorRows \in [Address -> Row]
  BY <1>2 DEF AccInv, AccountsTypeOK, CallsOK, AccountRow, Row
<1>4. reward \in Int /\ reward > 0
  BY AccountsAssumption
<1>5. \A a \in Address \ {b} : validatorRows'[a] = validatorRows[a]
  <2>1. \/ validatorRows' = validatorRows
        \/ validatorRows' = [validatorRows EXCEPT ![b] = [stake |-> k.n, status |-> "active"]]
    BY Zenon DEF InsertValidator
  <2>2. QED
    BY <1>3, <2>1
<1>6. b \notin disturbed => /\ validators[b] = Altered(k) /\ validatorRows[b] = k.val
                            /\ AtRest(accounts[b], accountRows[b], validators[b], validators[b],
                                      granted[b])
                            /\ k.val = NoRow
                            /\ \A m \in Calls : /\ m.op = "register" /\ m.by > 0 /\ m.pc = "update"
                                                /\ m.acc = accounts[b] /\ m.val = k.val
                                  => OnItsWay(m, accounts[b], accountRows[b], validators[b],
                                              validators[b], granted[b])
  BY <1>1, <1>2, RowMoves
<1>7. b \notin disturbed => validatorRows'[b] = validators[b]
  <2>1. ASSUME b \notin disturbed PROVE validatorRows'[b] = validators[b]
    <3>1. Inserts(b)
      BY <1>6, <2>1 DEF Inserts
    <3>2. validatorRows' = [validatorRows EXCEPT ![b] = [stake |-> k.n, status |-> "active"]]
      BY <3>1 DEF InsertValidator
    <3>3. Altered(k) = [stake |-> k.n, status |-> "active"]
      BY <1>1 DEF Altered
    <3>4. QED
      BY <1>2, <1>3, <1>6, <2>1, <3>2, <3>3
  <2>2. QED
    BY <2>1
<1>8. b \notin disturbed => (b \in rewarded <=> b \in rewardRows)
  BY <1>1, <1>2 DEF Paying
<1>9. rewarded # {} => stateRow # NoRow
  BY DEF ConservedInv
<1>10. CASE Ends(c)
  <2>1. call' = [call EXCEPT ![c] = NoCall]
    BY <1>10 DEF Ends
  <2>2. QED
    BY <1>1, <1>2, <1>3, <1>5, <1>6, <1>7, <1>8, <1>9, <2>1, Carried
<1>11. CASE Eligible(b) /\ call' = [call EXCEPT ![c] = k2]
  <2> HIDE DEF reward
  <2>1. /\ k2 \in Calls /\ k2.of = b /\ k2.op = k.op /\ k2.val = k.val /\ k2.by = reward
        /\ k2.pc = "update" /\ k2.acc = accounts[b]
    BY <1>2, <1>3, <1>4 DEF Calls, Places
  <2>2. call' = [call EXCEPT ![c] = k2] /\ b \notin rewarded
    BY <1>11 DEF Eligible
  <2> HIDE DEF k2
  <2>3. k2 # NoCall
    BY <2>1 DEF NoCall
  <2>4. b \notin disturbed => OnItsWay(k2, accounts[b], accountRows[b], validators[b],
                                       validatorRows'[b], granted[b])
    BY <1>1, <1>4, <1>6, <1>7, <2>1
  <2>5. b \notin disturbed => Paying(k2, rewarded, rewardRows)
    BY <1>8, <2>1, <2>2 DEF Paying
  <2>6. QED
    BY <1>1, <1>2, <1>3, <1>5, <1>9, <2>1, <2>2, <2>3, <2>4, <2>5, Carried
<1>12. QED
  BY <1>10, <1>11 DEF InsertValidator

LEMMA UpdateValidatorConserves ==
    ASSUME AccInv, ConservedInv, NEW c \in Caller, UpdateValidator(c) PROVE ConservedInv'
<1> DEFINE k == call[c]
           row == validatorRows[k.of]
           written == IF k.op = "stake" THEN [row EXCEPT !.stake = k.val.stake + k.n]
                      ELSE IF k.op = "unstake" THEN [row EXCEPT !.stake = k.val.stake - k.n]
                      ELSE [row EXCEPT !.status = IF k.op = "jail" THEN "jailed" ELSE "active"]
<1>1. /\ k.pc = "row" /\ k.op # "register"
      /\ UNCHANGED <<accounts, validators, rewarded, accountRows, rewardRows, stateRow, granted,
                     disturbed>>
      /\ validatorRows' = IF row = NoRow THEN validatorRows
                          ELSE [validatorRows EXCEPT ![k.of] = written]
      /\ call' = [call EXCEPT ![c] = NoCall]
  BY DEF UpdateValidator, memory, history, Ends
<1> HIDE DEF written
<1>2. /\ k \in Calls /\ k.of \in Address /\ CallOK(k, accounts, accountRows)
      /\ Typed(k, accounts[k.of], accountRows[k.of], validators[k.of], row, granted[k.of])
      /\ k.of \notin disturbed =>
            OnItsWay(k, accounts[k.of], accountRows[k.of], validators[k.of], row, granted[k.of])
  BY <1>1, UnderWay DEF Places
<1>3. validatorRows \in [Address -> Row] /\ "row" \in Places
  BY DEF AccInv, AccountsTypeOK, Row, Places
<1>4. \A a \in Address \ {k.of} : validatorRows'[a] = validatorRows[a]
  BY <1>1, <1>3
<1>5. ASSUME k.of \notin disturbed
      PROVE  AtRest(accounts'[k.of], accountRows'[k.of], validators'[k.of], validatorRows'[k.of],
                    granted'[k.of])
  <2>1. /\ validators[k.of] = Altered(k) /\ row = k.val
        /\ AtRest(accounts[k.of], accountRows[k.of], validators[k.of], validators[k.of],
                  granted[k.of])
    BY <1>1, <1>2, <1>5, RowMoves
  <2>2. k.op \in {"stake", "unstake", "jail", "unjail"}
    BY <1>1, <1>2, <1>5 DEF Typed, Operation, OnItsWay, Fits, PlacesOf, Asking, Updating
  <2>3. k.val # NoRow
    BY <1>1, <1>2, <1>5, <2>2 DEF CallOK, Later, OnItsWay, StakeGoes
  <2>4. k.val \in Validator
    BY <1>2, <2>3 DEF Typed, Row
  <2>5. written = Altered(k)
    <3>1. CASE k.op = "stake"
      BY <2>1, <2>4, <3>1 DEF written, Altered
    <3>2. CASE k.op = "unstake"
      BY <2>1, <2>4, <3>2 DEF written, Altered
    <3>3. CASE k.op \in {"jail", "unjail"}
      BY <2>1, <2>4, <3>3 DEF written, Altered
    <3>4. QED
      BY <2>2, <3>1, <3>2, <3>3
  <2>6. validatorRows'[k.of] = validators[k.of]
    BY <1>1, <1>2, <1>3, <2>1, <2>3, <2>5
  <2>7. QED
    BY <1>1, <2>1, <2>6
<1>6. QED
  BY <1>1, <1>3, <1>4, <1>5, OneCarried

LEMMA RecordsConserve ==
    ASSUME AccInv, ConservedInv, NEW c \in Caller,
           RecordReward(c) \/ RecordDistribution(c) \/ RecordState(c)
    PROVE  ConservedInv'
<1> DEFINE k == call[c]
           b == k.of
<1>1. /\ k.pc \in {"rewards", "distribution", "state"}
      /\ UNCHANGED <<accounts, validators, accountRows, validatorRows, granted, disturbed>>
  BY DEF RecordReward, RecordDistribution, RecordState, memory, database, history
<1>2. /\ k \in Calls /\ b \in Address /\ k # NoCall /\ k.flag \in BOOLEAN
      /\ Typed(k, accounts[b], accountRows[b], validators[b], validatorRows[b], granted[b])
      /\ b \notin disturbed =>
            /\ OnItsWay(k, accounts[b], accountRows[b], validators[b], validatorRows[b], granted[b])
            /\ Paying(k, rewarded, rewardRows) /\ Alone(c, b)
  <2>1. k.pc \in Places
    BY <1>1 DEF Places
  <2>2. QED
    BY <2>1, UnderWay DEF Calls
<1>3. /\ call \in [Caller -> {NoCall} \cup Calls]
      /\ "rewards" \in Places /\ "distribution" \in Places
  BY DEF AccInv, CallsOK, Places
<1>4. b \notin disturbed =>
         /\ AtRest(accounts[b], accountRows[b], validators[b], validatorRows[b], granted[b])
         /\ \A k2 \in Calls :
               Same(k, k2) /\ k2.pc \in {"distribution", "state"} /\ k2.val = k.val /\ k2.acc = k.acc
               => OnItsWay(k2, accounts[b], accountRows[b], validators[b], validatorRows[b], granted[b])
         /\ IsReward(k)
  <2>1. b \notin disturbed => IsReward(k)
    BY <1>1, <1>2 DEF OnItsWay, Fits, PlacesOf, Typed, Operation, Reading, Asking, Updating, IsReward
  <2>2. QED
    BY <1>1, <1>2, <2>1, RecordMoves
<1>5. rewarded # {} => stateRow # NoRow
  BY DEF ConservedInv
<1>6. CASE RecordReward(c)
  <2> DEFINE k2 == [k EXCEPT !.pc = "distribution"]
  <2>1. /\ k.pc = "rewards" /\ call' = [call EXCEPT ![c] = k2]
        /\ UNCHANGED <<memory, database, granted, disturbed>>
    BY <1>6 DEF RecordReward, Goes, history
  <2>2. /\ k2 \in Calls /\ Same(k, k2) /\ k2.pc = "distribution" /\ k2.val = k.val /\ k2.acc = k.acc
    BY <1>2 DEF Calls, Places, Same
  <2> HIDE DEF k2
  <2>3. k2 # NoCall /\ k2 \in {NoCall} \cup Calls
    BY <2>2 DEF NoCall
  <2>4. QED
    BY <1>3, <1>4, <2>1, <2>2, <2>3, CallCarried
<1>7. CASE RecordDistribution(c)
  <2> DEFINE flag == b = Developer \/ developerRewarded
             k2 == [k EXCEPT !.pc = "state", !.flag = flag]
  <2>1. /\ k.pc = "distribution" /\ UNCHANGED <<rewarded, stateRow>>
        /\ rewardRows' = rewardRows \cup {b}
        /\ IF b \in rewardRows THEN Ends(c) ELSE call' = [call EXCEPT ![c] = k2]
    BY <1>7 DEF RecordDistribution, memory
  <2>2. b \notin disturbed => b \notin rewardRows /\ b \notin rewarded
    BY <1>2, <1>4, <2>1 DEF Paying
  <2>3. \A a \in Address \ {b} : a \in rewardRows' <=> a \in rewardRows
    BY <2>1
  <2>4. CASE b \in rewardRows
    <3>1. call' = [call EXCEPT ![c] = NoCall] /\ b \in disturbed
      BY <2>1, <2>2, <2>4 DEF Ends
    <3>2. QED
      BY <1>1, <1>2, <1>3, <1>5, <2>1, <2>3, <3>1, Carried
  <2>5. CASE b \notin rewardRows
    <3>1. flag \in BOOLEAN
      BY Zenon DEF AccInv, AccountsTypeOK
    <3> HIDE DEF flag
    <3>2. /\ k2 \in Calls /\ Same(k, k2) /\ k2.pc = "state" /\ k2.val = k.val /\ k2.acc = k.acc
      BY <1>2, <3>1 DEF Calls, Places, Same
    <3>3. call' = [call EXCEPT ![c] = k2]
      BY <2>1, <2>5
    <3> HIDE DEF k2
    <3>4. k2 # NoCall /\ k2.of = b
      BY <3>2 DEF NoCall, Same
    <3>5. b \notin disturbed => OnItsWay(k2, accounts[b], accountRows[b], validators[b],
                                         validatorRows[b], granted[b])
      BY <1>4, <3>2
    <3>6. b \notin disturbed => Paying(k2, rewarded, rewardRows')
      BY <2>1, <2>2, <3>2, <3>4 DEF Paying
    <3>7. QED
      BY <1>1, <1>2, <1>3, <1>5, <2>1, <2>3, <3>3, <3>4, <3>5, <3>6, Carried
  <2>6. QED
    BY <2>4, <2>5
<1>8. CASE RecordState(c)
  <2>1. /\ k.pc = "state" /\ UNCHANGED rewardRows /\ stateRow' = k.flag
        /\ rewarded' = rewarded \cup {b} /\ call' = [call EXCEPT ![c] = NoCall]
    BY <1>8 DEF RecordState, Ends
  <2>2. stateRow' # NoRow
    BY <1>2, <2>1, AccountsAssumption
  <2>3. b \notin disturbed => (b \in rewarded' <=> b \in rewardRows')
    BY <1>2, <2>1 DEF Paying
  <2>4. \A a \in Address \ {b} : a \in rewarded' <=> a \in rewarded
    BY <2>1
  <2>5. QED
    BY <1>1, <1>2, <1>3, <1>4, <2>1, <2>2, <2>3, <2>4, Carried
<1>9. QED
  BY <1>6, <1>7, <1>8

LEMMA FaultConserves == ASSUME AccInv, ConservedInv, NEW c \in Caller, Fault(c) PROVE ConservedInv'
<1>1. /\ UNCHANGED <<memory, database, granted>> /\ disturbed' = disturbed \cup {call[c].of}
      /\ call[c].pc \in {"findValidator", "findAccount", "count", "write", "row", "rewards",
                         "distribution", "state"}
      /\ Ends(c) \/ AfterUpdate(c, FALSE)
  BY DEF Fault
<1>2. call[c].pc \in Places
  BY <1>1 DEF Places
<1>3. QED
  BY <1>1, <1>2, DisturbedCarried DEF memory, database

\* A new process takes the rows, and they say what the memory said.
LEMMA RestartConserves == ASSUME AccInv, ConservedInv, AccountsRestart PROVE ConservedInv'
<1>1. /\ accounts' = accountRows /\ validators' = validatorRows
      /\ rewarded' = IF stateRow = NoRow THEN {} ELSE rewardRows
      /\ disturbed' = disturbed \cup {a \in Address : ~Quiet(a)}
      /\ call' = [c \in Caller |-> NoCall]
      /\ UNCHANGED <<accountRows, validatorRows, rewardRows, stateRow, granted>>
  BY DEF AccountsRestart, database
<1>2. ASSUME NEW a \in Address, a \notin disturbed' PROVE AddressInv(a)'
  <2>1. AddressInv(a) /\ Quiet(a)
    BY <1>1, <1>2 DEF ConservedInv
  <2>2. /\ AtRest(accounts[a], accountRows[a], validators[a], validatorRows[a], granted[a])
        /\ a \in rewarded <=> a \in rewardRows
    BY <2>1 DEF AddressInv
  <2>3. BalanceOf(accountRows[a]) = BalanceOf(accounts[a])
    <3>1. accountRows[a] = accounts[a] \/ (accountRows[a] = NoRow /\ accounts[a] = Empty)
      BY <2>2 DEF AtRest, Matches
    <3>2. BalanceOf(Empty) = 0 /\ BalanceOf(NoRow) = 0
      BY DEF BalanceOf, Empty
    <3>3. QED
      BY <3>1, <3>2
  <2>4. AtRest(accounts'[a], accountRows'[a], validators'[a], validatorRows'[a], granted'[a])
    BY <1>1, <2>2, <2>3 DEF AtRest, Matches
  <2>5. a \in rewarded' <=> a \in rewardRows'
    BY <1>1, <2>2 DEF ConservedInv
  <2>6. \A c \in Caller : call'[c] = NoCall
    BY <1>1
  <2>7. QED
    BY <2>4, <2>5, <2>6 DEF AddressInv
<1>3. rewarded' # {} => stateRow' # NoRow
  BY <1>1
<1>4. QED
  BY <1>2, <1>3 DEF ConservedInv

-----------------------------------------------------------------------------
(* The theorem *)

LEMMA ConservedInit == AccountsInit => ConservedInv
<1> SUFFICES ASSUME AccountsInit PROVE ConservedInv
  OBVIOUS
<1>1. ASSUME NEW a \in Address PROVE AddressInv(a)
  <2>1. /\ accounts[a] = FirstRows[a] /\ accountRows[a] = FirstRows[a]
        /\ validators[a] = NoRow /\ validatorRows[a] = NoRow
        /\ granted[a] = IF FirstRows[a] = NoRow THEN 0 ELSE FirstRows[a].balance
        /\ a \notin rewarded /\ a \notin rewardRows /\ \A c \in Caller : call[c] = NoCall
    BY <1>1 DEF AccountsInit
  <2>2. BalanceOf(accounts[a]) = granted[a] /\ StakeOf(validators[a]) = 0 /\ granted[a] \in Int
    BY <1>1, <2>1, AccountsAssumption DEF BalanceOf, StakeOf, AccountRecord
  <2>3. AtRest(accounts[a], accountRows[a], validators[a], validatorRows[a], granted[a])
    BY <2>1, <2>2 DEF AtRest, Matches
  <2>4. QED
    BY <2>1, <2>3 DEF AddressInv
<1>2. rewarded = {}
  BY DEF AccountsInit
<1>3. QED
  BY <1>1, <1>2 DEF ConservedInv

LEMMA ConservedStep ==
    ASSUME AccInv, ConservedInv, [AccountsNext]_accountsVars PROVE ConservedInv'
<1>1. ASSUME NEW c \in Caller, Step(c) PROVE ConservedInv'
  BY <1>1, BeginConserves, ReadConserves, FoundConserves, GotValidatorConserves,
     GotAccountConserves, UpdateConserves, WriteConserves, InsertConserves,
     UpdateValidatorConserves, RecordsConserve, FaultConserves
  DEF Step
<1>2. CASE UNCHANGED accountsVars
  <2>1. UNCHANGED <<accounts, validators, rewarded, accountRows, validatorRows, rewardRows, stateRow,
                    call, granted, disturbed>>
    BY <1>2 DEF accountsVars, memory, database, history
  <2>2. QED
    BY <2>1 DEF ConservedInv, AddressInv, Quiet
<1>3. CASE AccountsRestart
  BY <1>3, RestartConserves
<1>4. QED
  BY <1>1, <1>2, <1>3 DEF AccountsNext

\* Between calls an address has, as balance and stake together, what it was
\* given, and its rows say so, whatever calls for other addresses overlap or
\* fail: updateBalance and the writers of the stake in state_machine.js.
THEOREM ValueConserved == AccountsSpec => []Conserved
<1>1. AccountsInit => AccInv /\ ConservedInv
  BY AccInit, ConservedInit
<1>2. AccInv /\ ConservedInv /\ [AccountsNext]_accountsVars => AccInv' /\ ConservedInv'
  BY AccStep, ConservedStep
<1>3. AccInv /\ ConservedInv => Conserved
  <2> SUFFICES ASSUME ConservedInv, NEW a \in Address \ disturbed, Quiet(a)
               PROVE  HeldIn(a) = granted[a] /\ RowsMatch(a)
    BY DEF Conserved
  <2>1. /\ AtRest(accounts[a], accountRows[a], validators[a], validatorRows[a], granted[a])
        /\ a \in rewarded <=> a \in rewardRows
    BY DEF ConservedInv, AddressInv
  <2>2. QED
    BY <2>1 DEF AtRest, Matches, HeldIn, RowsMatch, BalanceOf, StakeOf
<1>4. QED
  BY <1>1, <1>2, <1>3, PTL DEF AccountsSpec

-----------------------------------------------------------------------------
(***************************************************************************)
(* The ledger.  What all addresses hold is a sum over a finite set, which  *)
(* the model takes in the order of CHOOSE.  That it can be taken in any    *)
(* order, so that changing one address changes it by as much (TotalMoves), *)
(* is shown with least counterexamples: a set with the fewest elements for *)
(* which the claim fails has an element to take out.                       *)
(***************************************************************************)

\* A natural number that is the least of a set of them.
LEMMA LeastOf ==
    ASSUME NEW T, T \subseteq Nat, T # {}
    PROVE  \E n \in T : \A k \in T : n <= k
<1> DEFINE R == {ss \in Nat \X Nat : ss[1] < ss[2]}
<1>1. IsWellFoundedOn(R, Nat)
  BY NatLessThanWellFounded DEF OpToRel
<1> HIDE DEF R
<1>2. PICK n \in T : \A k \in T : ~(<<k, n>> \in R)
  BY <1>1, WFMin
<1>3. \A k \in T : ~(k < n)
  BY <1>2 DEF R
<1> QED BY <1>2, <1>3

Chosen(s) == CHOOSE x \in s : TRUE

\* g gives the sum of w over every subset of D, adding in the order of CHOOSE.
Sums(g, w, D) ==
    g = [s \in SUBSET D |-> IF s = {} THEN 0
                            ELSE LET x == Chosen(s) IN w[x] + g[s \ {x}]]

LEMMA ChosenIn ==
    ASSUME NEW s, s # {}
    PROVE  Chosen(s) \in s
BY DEF Chosen

\* Taking one element out of a finite set makes it smaller by one.
LEMMA Smaller ==
    ASSUME NEW D, IsFiniteSet(D), NEW s \in SUBSET D, NEW x \in s
    PROVE  /\ Cardinality(s) \in Nat /\ Cardinality(s \ {x}) \in Nat
           /\ Cardinality(s \ {x}) = Cardinality(s) - 1
<1>1. IsFiniteSet(s)
  BY FS_Subset
<1> QED BY <1>1, FS_RemoveElement, FS_CardinalityType

\* There are such sums: a set without them would have a least number of
\* elements.
LEMMA SumsExist ==
    ASSUME NEW D, IsFiniteSet(D), NEW w
    PROVE  \E g : Sums(g, w, D)
<1> DEFINE Upto(n) == {s \in SUBSET D : Cardinality(s) <= n}
           Eq(g, n) == g = [s \in Upto(n) |-> IF s = {} THEN 0
                                              ELSE LET x == Chosen(s) IN w[x] + g[s \ {x}]]
           T == {n \in Nat : ~\E g : Eq(g, n)}
<1>1. T = {}
  <2> SUFFICES ASSUME T # {} PROVE FALSE
    OBVIOUS
  <2>0. T \subseteq Nat
    OBVIOUS
  <2>1. PICK n \in T : \A k \in T : n <= k
    <3> HIDE DEF T
    <3> QED BY <2>0, LeastOf
  <2>2. n # 0
    <3>1. \A s \in Upto(0) : s = {}
      <4> SUFFICES ASSUME NEW s \in Upto(0), s # {} PROVE FALSE
        OBVIOUS
      <4>1. Chosen(s) \in s
        BY ChosenIn
      <4>2. /\ Cardinality(s) \in Nat /\ Cardinality(s \ {Chosen(s)}) \in Nat
            /\ Cardinality(s \ {Chosen(s)}) = Cardinality(s) - 1
        BY <4>1, Smaller
      <4>3. Cardinality(s) <= 0
        OBVIOUS
      <4> QED BY <4>2, <4>3
    <3> DEFINE h == [s \in Upto(0) |-> 0]
               F == [s \in Upto(0) |-> IF s = {} THEN 0
                                       ELSE LET x == Chosen(s) IN w[x] + h[s \ {x}]]
    <3>2. h = F
      <4> HIDE DEF Upto
      <4> QED BY <3>1
    <3>3. Eq(h, 0)
      BY <3>2
    <3>4. \E g : Eq(g, 0)
      <4> HIDE DEF Eq, h
      <4> QED BY <3>3
    <3>5. 0 \notin T
      <4> HIDE DEF Eq
      <4> QED BY <3>4
    <3> HIDE DEF T
    <3> QED BY <2>1, <3>5
  <2>3. n - 1 \in Nat /\ n - 1 \notin T
    <3>1. n \in Nat /\ \A k \in T : n <= k
      <4> HIDE DEF Eq
      <4> QED BY <2>1
    <3>2. n - 1 \in Nat /\ ~(n <= n - 1)
      BY <2>2, <3>1
    <3> HIDE DEF T
    <3> QED BY <3>1, <3>2
  <2>4. PICK g : Eq(g, n - 1)
    BY <2>3
  <2> DEFINE h == [s \in Upto(n) |-> IF s = {} THEN 0
                                     ELSE LET x == Chosen(s) IN w[x] + g[s \ {x}]]
  <2>5. \A s \in Upto(n - 1) : s \in Upto(n) /\ h[s] = g[s]
    <3> SUFFICES ASSUME NEW s \in Upto(n - 1) PROVE s \in Upto(n) /\ h[s] = g[s]
      OBVIOUS
    <3>1. s \in Upto(n)
      <4>1. Cardinality(s) \in Nat
        BY FS_Subset, FS_CardinalityType
      <4> QED BY <2>1, <4>1
    <3>2. g[s] = IF s = {} THEN 0 ELSE LET x == Chosen(s) IN w[x] + g[s \ {x}]
      BY <2>4
    <3> QED BY <3>1, <3>2
  <2>6. \A s \in Upto(n) : s # {} => s \ {Chosen(s)} \in Upto(n - 1)
    <3> SUFFICES ASSUME NEW s \in Upto(n), s # {} PROVE s \ {Chosen(s)} \in Upto(n - 1)
      OBVIOUS
    <3>1. Chosen(s) \in s
      BY ChosenIn
    <3> QED BY <2>1, <3>1, Smaller
  <2>7. \A s \in Upto(n) : s # {} => h[s \ {Chosen(s)}] = g[s \ {Chosen(s)}]
    <3> HIDE DEF h, Upto
    <3> QED BY <2>5, <2>6
  <2>8. \A s \in Upto(n) : h[s] = IF s = {} THEN 0
                                  ELSE LET x == Chosen(s) IN w[x] + h[s \ {x}]
    <3> HIDE DEF Upto
    <3> QED BY <2>7
  <2>9. Eq(h, n)
    <3> DEFINE F == [s \in Upto(n) |-> IF s = {} THEN 0
                                      ELSE LET x == Chosen(s) IN w[x] + h[s \ {x}]]
    <3>1. h = F
      <4> HIDE DEF Upto
      <4> QED BY <2>8
    <3> QED BY <3>1
  <2> HIDE DEF h
  <2> QED BY <2>1, <2>9
<1>2. Cardinality(D) \in Nat
  BY FS_CardinalityType
<1>3. Upto(Cardinality(D)) = SUBSET D
  <2> SUFFICES ASSUME NEW s \in SUBSET D PROVE Cardinality(s) <= Cardinality(D)
    OBVIOUS
  <2> QED BY FS_Subset
<1>4. PICK g : Eq(g, Cardinality(D))
  BY <1>1, <1>2
<1> QED BY <1>3, <1>4 DEF Sums

LEMMA SumsStep ==
    ASSUME NEW D, NEW w, NEW g, Sums(g, w, D), NEW s \in SUBSET D
    PROVE  g[s] = IF s = {} THEN 0 ELSE w[Chosen(s)] + g[s \ {Chosen(s)}]
BY DEF Sums

\* Sums of whole numbers are whole, and depend on nothing else.
LEMMA SumsAgree ==
    ASSUME NEW D, IsFiniteSet(D), NEW w, NEW u, NEW g, NEW h, Sums(g, w, D), Sums(h, u, D),
           NEW S \in SUBSET D, \A x \in S : w[x] \in Int /\ u[x] = w[x]
    PROVE  g[S] \in Int /\ h[S] = g[S]
<1> DEFINE Bad == {s \in SUBSET S : ~(g[s] \in Int /\ h[s] = g[s])}
           T == {Cardinality(s) : s \in Bad}
<1>1. \A s \in SUBSET S : s \in SUBSET D /\ Cardinality(s) \in Nat
  BY FS_Subset, FS_CardinalityType
<1>2. Bad = {}
  <2> SUFFICES ASSUME Bad # {} PROVE FALSE
    OBVIOUS
  <2>1. T \subseteq Nat /\ T # {}
    BY <1>1
  <2>2. PICK n \in T : \A k \in T : n <= k
    <3> HIDE DEF T
    <3> QED BY <2>1, LeastOf
  <2>3. PICK s \in Bad : n = Cardinality(s)
    BY <2>2
  <2>4. s # {}
    <3> SUFFICES ASSUME s = {} PROVE FALSE
      OBVIOUS
    <3>1. g[s] = 0 /\ h[s] = 0
      BY <1>1, <2>3, SumsStep
    <3> QED BY <2>3, <3>1
  <2>5. Chosen(s) \in s
    BY <2>4, ChosenIn
  <2> DEFINE r == s \ {Chosen(s)}
  <2>6. r \in SUBSET S /\ Cardinality(r) < n
    BY <1>1, <2>3, <2>5, Smaller
  <2>7. g[r] \in Int /\ h[r] = g[r]
    <3>1. r \notin Bad
      <4> SUFFICES ASSUME r \in Bad PROVE FALSE
        OBVIOUS
      <4>1. Cardinality(r) \in T
        OBVIOUS
      <4>2. Cardinality(r) \in Nat /\ n \in Nat
        BY <1>1, <2>1, <2>2, <2>6
      <4> QED BY <2>2, <2>6, <4>1, <4>2
    <3> QED BY <2>6, <3>1
  <2>8. g[s] = w[Chosen(s)] + g[r] /\ h[s] = u[Chosen(s)] + h[r]
    <3>1. s \in SUBSET D
      BY <1>1, <2>3
    <3>2. g[s] = w[Chosen(s)] + g[r]
      BY <2>4, <3>1, SumsStep
    <3>3. h[s] = u[Chosen(s)] + h[r]
      BY <2>4, <3>1 DEF Sums
    <3> QED BY <3>2, <3>3
  <2>9. w[Chosen(s)] \in Int /\ u[Chosen(s)] = w[Chosen(s)]
    BY <2>3, <2>5
  <2> HIDE DEF r
  <2>10. g[s] \in Int /\ h[s] = g[s]
    BY <2>7, <2>8, <2>9
  <2> QED BY <2>3, <2>10
<1> QED BY <1>2

\* Any element may be taken out of a sum.
LEMMA SumsApart ==
    ASSUME NEW D, IsFiniteSet(D), NEW w, NEW g, Sums(g, w, D),
           \A x \in D : w[x] \in Int, NEW S \in SUBSET D, NEW y \in S
    PROVE  g[S] = w[y] + g[S \ {y}]
<1> DEFINE Bad == {s \in SUBSET D : \E z \in s : g[s] # w[z] + g[s \ {z}]}
           T == {Cardinality(s) : s \in Bad}
<1>0. \A s \in SUBSET D : g[s] \in Int
  BY SumsAgree
<1>1. \A s \in SUBSET D : Cardinality(s) \in Nat
  BY FS_Subset, FS_CardinalityType
<1>2. Bad = {}
  <2> SUFFICES ASSUME Bad # {} PROVE FALSE
    OBVIOUS
  <2>1. T \subseteq Nat /\ T # {}
    BY <1>1
  <2>2. PICK n \in T : \A k \in T : n <= k
    <3> HIDE DEF T
    <3> QED BY <2>1, LeastOf
  <2>3. PICK s \in Bad : n = Cardinality(s)
    BY <2>2
  <2>4. PICK z \in s : g[s] # w[z] + g[s \ {z}]
    BY <2>3
  <2> DEFINE x == Chosen(s)
  <2>5. x \in s /\ g[s] = w[x] + g[s \ {x}]
    BY <2>3, <2>4, ChosenIn, SumsStep
  <2> HIDE DEF x
  <2>6. x # z
    BY <2>4, <2>5
  <2>7. ASSUME NEW r \in SUBSET D, Cardinality(r) < n, NEW v \in r
        PROVE  g[r] = w[v] + g[r \ {v}]
    <3>1. r \notin Bad
      <4> SUFFICES ASSUME r \in Bad PROVE FALSE
        OBVIOUS
      <4>1. Cardinality(r) \in T
        OBVIOUS
      <4>2. Cardinality(r) \in Nat /\ n \in Nat
        BY <1>1, <2>1, <2>2
      <4> QED BY <2>2, <2>7, <4>1, <4>2
    <3> QED BY <3>1
  <2>8. Cardinality(s \ {x}) < n /\ Cardinality(s \ {z}) < n
    BY <2>3, <2>4, <2>5, Smaller
  <2>9. g[s \ {x}] = w[z] + g[(s \ {x}) \ {z}]
    BY <2>3, <2>4, <2>6, <2>7, <2>8
  <2>10. g[s \ {z}] = w[x] + g[(s \ {z}) \ {x}]
    BY <2>3, <2>5, <2>6, <2>7, <2>8
  <2>11. (s \ {x}) \ {z} = (s \ {z}) \ {x}
    OBVIOUS
  <2>12. w[x] \in Int /\ w[z] \in Int /\ g[(s \ {z}) \ {x}] \in Int
    BY <1>0, <2>3, <2>4, <2>5
  <2>13. g[s] = w[z] + g[s \ {z}]
    <3> DEFINE q == g[(s \ {z}) \ {x}]
               p == g[s \ {x}]
    <3>1. p = w[z] + q
      BY <2>9, <2>11
    <3>2. g[s] = w[x] + p
      BY <2>5
    <3>3. q \in Int
      BY <2>12
    <3> HIDE DEF p, q
    <3>4. g[s] = w[z] + (w[x] + q)
      BY <2>12, <3>1, <3>2, <3>3
    <3> QED BY <2>10, <3>4 DEF q
  <2> QED BY <2>4, <2>13
<1> QED BY <1>2

\* The sum of w over all addresses.
Total(w) == (CHOOSE g : Sums(g, w, Addr))[Addr]

LEMMA TotalSums ==
    ASSUME NEW w
    PROVE  \E g : Sums(g, w, Addr) /\ Total(w) = g[Addr]
<1>1. \E g : Sums(g, w, Addr)
  BY SumsExist, LedgerAddressAssumption
<1>2. Sums(CHOOSE g : Sums(g, w, Addr), w, Addr)
  BY <1>1, Zenon
<1> QED BY <1>2 DEF Total

LEMMA TotalAgrees ==
    ASSUME NEW w, NEW u, \A x \in Addr : w[x] \in Int /\ u[x] = w[x]
    PROVE  Total(w) \in Int /\ Total(u) = Total(w)
<1>1. PICK g : Sums(g, w, Addr) /\ Total(w) = g[Addr]
  BY TotalSums
<1>2. PICK h : Sums(h, u, Addr) /\ Total(u) = h[Addr]
  BY TotalSums
<1> QED BY <1>1, <1>2, SumsAgree, LedgerAddressAssumption

\* One address more or less changes the total by as much.
LEMMA TotalMoves ==
    ASSUME NEW w, NEW u, NEW a \in Addr,
           \A x \in Addr : w[x] \in Int /\ u[x] \in Int,
           \A x \in Addr : x # a => u[x] = w[x]
    PROVE  /\ Total(w) \in Int /\ Total(u) \in Int
           /\ Total(u) = Total(w) + (u[a] - w[a])
<1>1. PICK g : Sums(g, w, Addr) /\ Total(w) = g[Addr]
  BY TotalSums
<1>2. PICK h : Sums(h, u, Addr) /\ Total(u) = h[Addr]
  BY TotalSums
<1> DEFINE rest == Addr \ {a}
<1>3. Total(w) = w[a] + g[rest]
  BY <1>1, SumsApart, LedgerAddressAssumption
<1>4. Total(u) = u[a] + h[rest]
  BY <1>2, SumsApart, LedgerAddressAssumption
<1>5. g[rest] \in Int /\ h[rest] = g[rest]
  <2>1. rest \in SUBSET Addr /\ \A x \in rest : w[x] \in Int /\ u[x] = w[x]
    OBVIOUS
  <2> HIDE DEF rest
  <2> QED BY <1>1, <1>2, <2>1, SumsAgree, LedgerAddressAssumption
<1>6. w[a] \in Int /\ u[a] \in Int
  OBVIOUS
<1> HIDE DEF rest
<1> QED BY <1>3, <1>4, <1>5, <1>6

\* What an address has, with what it has staked
Holdings(b, k) == [a \in Addr |-> b[a] + k[a]]

Held(b, k) == Total(Holdings(b, k))

LEMMA HeldInLedgerIs ==
    ASSUME \A x \in Addr : state.balance[x] + state.stake[x] \in Int
    PROVE  HeldInLedger = Held(state.balance, state.stake)
<1> DEFINE w == Holdings(state.balance, state.stake)
           Eq(g) == g = [s \in SUBSET Addr |->
                          IF s = {} THEN 0
                          ELSE LET x == CHOOSE x \in s : TRUE
                               IN  (state.balance[x] + state.stake[x]) + g[s \ {x}]]
           Iter == CHOOSE g : Eq(g)
<1>1. HeldInLedger = Iter[Addr]
  BY DEF HeldInLedger, MapThenSumSet, MapThenFoldSet
<1>2. ASSUME NEW g
      PROVE  Eq(g) <=> Sums(g, w, Addr)
  <2> DEFINE F == [s \in SUBSET Addr |->
                          IF s = {} THEN 0
                          ELSE LET x == CHOOSE x \in s : TRUE
                               IN  (state.balance[x] + state.stake[x]) + g[s \ {x}]]
             G == [s \in SUBSET Addr |-> IF s = {} THEN 0
                            ELSE LET x == Chosen(s) IN w[x] + g[s \ {x}]]
  <2>1. \A s \in SUBSET Addr : F[s] = G[s]
    <3> SUFFICES ASSUME NEW s \in SUBSET Addr, s # {} PROVE F[s] = G[s]
      OBVIOUS
    <3>1. Chosen(s) \in Addr
      BY ChosenIn
    <3>2. w[Chosen(s)] = state.balance[Chosen(s)] + state.stake[Chosen(s)]
      BY <3>1 DEF Holdings
    <3>3. G[s] = w[Chosen(s)] + g[s \ {Chosen(s)}]
      OBVIOUS
    <3>4. F[s] = (state.balance[Chosen(s)] + state.stake[Chosen(s)]) + g[s \ {Chosen(s)}]
      BY DEF Chosen
    <3> QED BY <3>2, <3>3, <3>4
  <2>2. F = G
    BY <2>1
  <2> QED BY <2>2 DEF Sums
<1>3. \E g : Eq(g)
  <2>1. PICK g : Sums(g, w, Addr)
    BY SumsExist, LedgerAddressAssumption
  <2> HIDE DEF Eq
  <2> QED BY <1>2, <2>1
<1>4. Eq(Iter)
  <2> HIDE DEF Eq
  <2> QED BY <1>3, Zenon
<1>5. Sums(Iter, w, Addr)
  <2> HIDE DEF Eq, Iter
  <2> QED BY <1>2, <1>4
<1>6. PICK h : Sums(h, w, Addr) /\ Total(w) = h[Addr]
  BY TotalSums
<1>7. \A x \in Addr : w[x] \in Int /\ w[x] = w[x]
  BY DEF Holdings
<1> HIDE DEF Iter, w
<1>8. h[Addr] = Iter[Addr]
  BY <1>5, <1>6, <1>7, SumsAgree, LedgerAddressAssumption
<1> QED BY <1>1, <1>6, <1>8 DEF Held, w

LEMMA HeldMoves ==
    ASSUME NEW b \in [Addr -> Int], NEW c \in [Addr -> Int], NEW k \in [Addr -> Int],
           NEW a \in Addr, NEW d \in Int, c[a] = b[a] + d,
           \A x \in Addr : x # a => c[x] = b[x]
    PROVE  /\ Held(b, k) \in Int /\ Held(c, k) \in Int
           /\ Held(c, k) = Held(b, k) + d
<1> DEFINE w == Holdings(b, k)
           u == Holdings(c, k)
<1>1. \A x \in Addr : w[x] \in Int /\ u[x] \in Int
  BY DEF Holdings
<1>2. \A x \in Addr : x # a => u[x] = w[x]
  BY DEF Holdings
<1>3. u[a] - w[a] = d
  BY DEF Holdings
<1> HIDE DEF w, u
<1>4. /\ Total(w) \in Int /\ Total(u) \in Int
      /\ Total(u) = Total(w) + (u[a] - w[a])
  BY <1>1, <1>2, TotalMoves
<1> QED BY <1>3, <1>4 DEF Held, w, u

Balances == [Addr -> Nat]

\* A transfer moves an amount, and burns a fee that no validator gets.
LEMMA TransferHolds ==
    ASSUME NEW b \in Balances, NEW k \in Balances, NEW t \in Transaction,
           WellFormed(t), Affords(b, t)
    PROVE  /\ Transfer(b, t) \in Balances
           /\ Held(b, k) \in Int /\ Held(Transfer(b, t), k) \in Int
           /\ Held(Transfer(b, t), k) <= Held(b, k)
<1>1. /\ t.from \in Addr /\ t.to \in Addr /\ t.amount \in Nat /\ t.fee \in Nat
      /\ t.validatorAddress \in Addr \cup {Null}
  BY DEF Transaction, WellFormed
<1>2. b[t.from] >= t.amount + t.fee
  BY DEF Affords
<1> DEFINE cost == t.amount + t.fee
           debited == [b EXCEPT ![t.from] = @ - cost]
           moved == [debited EXCEPT ![t.to] = @ + t.amount]
           given == [moved EXCEPT ![t.validatorAddress] = @ + t.fee]
<1>3. cost \in Nat /\ b[t.from] - cost \in Nat
  BY <1>1, <1>2 DEF Balances
<1>4. /\ debited \in Balances /\ debited[t.from] = b[t.from] + (0 - cost)
      /\ \A x \in Addr : x # t.from => debited[x] = b[x]
  <2> HIDE DEF cost
  <2> QED BY <1>1, <1>3 DEF Balances
<1> HIDE DEF debited
<1>5. /\ moved \in Balances /\ moved[t.to] = debited[t.to] + t.amount
      /\ \A x \in Addr : x # t.to => moved[x] = debited[x]
  BY <1>1, <1>4 DEF Balances
<1> HIDE DEF moved
<1>6. ASSUME t.validatorAddress \in Addr
      PROVE  /\ given \in Balances /\ given[t.validatorAddress] = moved[t.validatorAddress] + t.fee
             /\ \A x \in Addr : x # t.validatorAddress => given[x] = moved[x]
  BY <1>1, <1>5, <1>6 DEF Balances
<1> HIDE DEF given
<1>7. Balances \subseteq [Addr -> Int]
  BY DEF Balances
<1>8. Held(b, k) \in Int /\ Held(debited, k) \in Int /\ Held(debited, k) = Held(b, k) + (0 - cost)
  <2>1. b \in [Addr -> Int] /\ debited \in [Addr -> Int] /\ k \in [Addr -> Int]
    BY <1>4, <1>7
  <2>2. 0 - cost \in Int
    BY <1>3
  <2> HIDE DEF cost
  <2> QED BY <1>1, <1>4, <2>1, <2>2, HeldMoves
<1>9. Held(moved, k) \in Int /\ Held(moved, k) = Held(debited, k) + t.amount
  <2>1. moved \in [Addr -> Int] /\ debited \in [Addr -> Int] /\ k \in [Addr -> Int]
    BY <1>4, <1>5, <1>7
  <2> QED BY <1>1, <1>5, <2>1, HeldMoves
<1>10. CASE t.validatorAddress = Null
  <2>1. Transfer(b, t) = moved
    BY <1>10 DEF Transfer, moved, debited
  <2> QED BY <1>1, <1>5, <1>8, <1>9, <2>1
<1>11. CASE t.validatorAddress \in Addr
  <2>1. Transfer(b, t) = given
    BY <1>11, LedgerAddressAssumption DEF Transfer, given, moved, debited
  <2>2. moved \in [Addr -> Int] /\ given \in [Addr -> Int] /\ k \in [Addr -> Int]
    BY <1>5, <1>6, <1>7, <1>11
  <2>3. Held(given, k) \in Int /\ Held(given, k) = Held(moved, k) + t.fee
    BY <1>1, <1>6, <1>11, <2>2, HeldMoves
  <2> QED BY <1>1, <1>6, <1>8, <1>9, <1>11, <2>1, <2>3
<1> QED BY <1>1, <1>10, <1>11

AccRecord == [ok : BOOLEAN, balance : Balances, nonce : Balances]

\* One transaction of many: types, totals and the next nonce.
LEMMA ApplyToIs ==
    ASSUME NEW acc \in AccRecord, NEW t \in Transaction, NEW k \in Balances
    PROVE  /\ ApplyTo(acc, t) \in AccRecord
           /\ Held(acc.balance, k) \in Int /\ Held(ApplyTo(acc, t).balance, k) \in Int
           /\ Held(ApplyTo(acc, t).balance, k) <= Held(acc.balance, k)
           /\ \/ ApplyTo(acc, t).nonce = acc.nonce
              \/ /\ acc.ok /\ NextNonce(acc.nonce, t)
                 /\ ApplyTo(acc, t).nonce = [acc.nonce EXCEPT ![t.from] = t.nonce]
<1>1. /\ acc.ok \in BOOLEAN /\ acc.balance \in Balances /\ acc.nonce \in Balances
      /\ t.from \in Addr /\ t.nonce \in Nat
  BY DEF AccRecord, Transaction
<1>2. Held(acc.balance, k) \in Int
  <2>1. acc.balance \in [Addr -> Int] /\ k \in [Addr -> Int]
    BY <1>1 DEF Balances
  <2>2. /\ acc.balance[t.from] = acc.balance[t.from] + 0
        /\ \A x \in Addr : x # t.from => acc.balance[x] = acc.balance[x]
    BY <1>1, <2>1
  <2> QED BY <1>1, <2>1, <2>2, HeldMoves
<1>3. CASE acc.ok /\ WellFormed(t) /\ Affords(acc.balance, t) /\ NextNonce(acc.nonce, t)
  <2> DEFINE after == Transfer(acc.balance, t)
             nonces == [acc.nonce EXCEPT ![t.from] = t.nonce]
  <2>1. ApplyTo(acc, t) = [ok |-> TRUE, balance |-> after, nonce |-> nonces]
    BY <1>3 DEF ApplyTo
  <2>2. after \in Balances /\ Held(after, k) \in Int /\ Held(after, k) <= Held(acc.balance, k)
    BY <1>1, <1>3, TransferHolds
  <2>3. nonces \in Balances
    BY <1>1 DEF Balances
  <2>4. ApplyTo(acc, t).nonce = nonces /\ ApplyTo(acc, t).balance = after
    BY <2>1
  <2> HIDE DEF after, nonces
  <2>5. ApplyTo(acc, t) \in AccRecord
    BY <2>1, <2>2, <2>3 DEF AccRecord
  <2> QED BY <1>2, <1>3, <2>2, <2>4, <2>5 DEF nonces
<1>4. CASE ~(acc.ok /\ WellFormed(t) /\ Affords(acc.balance, t) /\ NextNonce(acc.nonce, t))
  <2>1. ApplyTo(acc, t) = [acc EXCEPT !.ok = FALSE]
    BY <1>4, Zenon DEF ApplyTo
  <2>2. /\ ApplyTo(acc, t) \in AccRecord /\ ApplyTo(acc, t).balance = acc.balance
        /\ ApplyTo(acc, t).nonce = acc.nonce
    BY <2>1 DEF AccRecord
  <2> QED BY <1>2, <2>2
<1> QED BY <1>3, <1>4

\* What every transaction of a block keeps holds of the whole block.
LEMMA ProcessedIn ==
    ASSUME NEW b, b.transactions \in Seq(Transactions), NEW S,
           [ok |-> TRUE, nonce |-> state.nonce, balance |-> ProcessBlockReward(b)] \in S,
           \A p \in S : \A i \in DOMAIN b.transactions : ApplyTo(p, b.transactions[i]) \in S
    PROVE  Processed(b) \in S
<1> DEFINE len == Len(b.transactions)
           first == [ok |-> TRUE, nonce |-> state.nonce, balance |-> ProcessBlockReward(b)]
           Next1(p, n) == ApplyTo(p, b.transactions[n])
           Eq(g, n) == g = [i \in 0..n |-> IF i = 0 THEN first ELSE Next1(g[i - 1], i)]
           After == CHOOSE g : Eq(g, len)
           T == {n \in 0..len : ~\E g : Eq(g, n)}
           U == {n \in 0..len : After[n] \notin S}
<1>1. Processed(b) = After[len]
  BY DEF Processed
<1>2. len \in Nat /\ DOMAIN b.transactions = 1..len
  OBVIOUS
<1>3. \A p \in S : \A i \in 1..len : Next1(p, i) \in S
  BY <1>2
<1>4. first \in S
  OBVIOUS
<1> HIDE DEF len, first, Next1
<1>5. T = {}
  <2> SUFFICES ASSUME T # {} PROVE FALSE
    OBVIOUS
  <2>0. T \subseteq Nat
    BY <1>2
  <2>1. PICK n \in T : \A k \in T : n <= k
    <3> HIDE DEF T
    <3> QED BY <2>0, LeastOf
  <2>2. n # 0
    <3>1. Eq([i \in 0..0 |-> first], 0)
      OBVIOUS
    <3> QED BY <2>1, <3>1
  <2>3. n - 1 \in 0..len /\ n - 1 \notin T
    <3>1. n \in 0..len /\ \A k \in T : n <= k
      <4> HIDE DEF Eq
      <4> QED BY <2>1
    <3>2. n - 1 \in 0..len /\ ~(n <= n - 1)
      BY <1>2, <2>2, <3>1
    <3> HIDE DEF T
    <3> QED BY <3>1, <3>2
  <2>4. PICK g : Eq(g, n - 1)
    BY <2>3
  <2>5. Eq([i \in 0..n |-> IF i = n THEN Next1(g[n - 1], n) ELSE g[i]], n)
    BY <1>2, <2>1, <2>2, <2>4
  <2> QED BY <2>1, <2>5
<1>6. Eq(After, len)
  <2>1. \E g : Eq(g, len)
    BY <1>2, <1>5
  <2> HIDE DEF Eq
  <2> QED BY <2>1, Zenon
<1>7. U = {}
  <2> SUFFICES ASSUME U # {} PROVE FALSE
    OBVIOUS
  <2>0. U \subseteq Nat
    BY <1>2
  <2>1. PICK n \in U : \A k \in U : n <= k
    <3> HIDE DEF U
    <3> QED BY <2>0, LeastOf
  <2>2. CASE n = 0
    BY <1>2, <1>4, <1>6, <2>1, <2>2
  <2>3. CASE n # 0
    <3>1. n - 1 \in 0..len /\ n - 1 \notin U /\ n \in 1..len
      BY <1>2, <2>1, <2>3
    <3>2. After[n] = Next1(After[n - 1], n)
      BY <1>2, <1>6, <2>1, <2>3
    <3> QED BY <1>3, <2>1, <3>1, <3>2
  <2> QED BY <2>2, <2>3
<1> QED BY <1>1, <1>2, <1>7

-----------------------------------------------------------------------------
(* Blocks, stakes and rewards *)

Bonus(s) == IF s.developerNodeSet THEN DeveloperNodeReward ELSE 0

\* No more is minted than there may be; early on the supply is what the blocks
\* and the developer node's reward have minted, which leaves room for both.
Minted(s) ==
    /\ s.currentHeight <= MaxHeight /\ s.totalSupply <= MaxSupply
    /\ s.currentHeight <= DistributionBlocks =>
          s.totalSupply <= s.currentHeight * BlockReward + Bonus(s)

LedgerInv ==
    /\ LedgerTypeOK
    /\ Minted(state)
    /\ saved # Null => Minted(saved)

Covered(s) == Held(s.balance, s.stake) <= s.totalSupply

\* What a call may do to the state
CallKeeps ==
    /\ Call
    /\ state' \in StateRecord /\ Minted(state')
    /\ Covered(state) => Covered(state')
    /\ \A a \in Addr : state'.nonce[a] \in {state.nonce[a], state.nonce[a] + 1}

States == [Addr -> ValidatorState]
Subsets == SUBSET Addr
Tips == Hash \cup {Null}

LEMMA RecordIs ==
    StateRecord =
      [balance : Balances, nonce : Balances, stake : Balances,
       validators : Subsets, validatorState : States,
       validatorStake : Balances, methods : Subsets,
       currentHeight : Nat, lastBlockHash : Tips, totalSupply : Nat,
       developerNodeSet : BOOLEAN]
BY DEF StateRecord, Balances, Subsets, States, Tips

LEMMA HeldIs ==
    ASSUME NEW b \in Balances, NEW k \in Balances
    PROVE  Held(b, k) \in Int
<1>1. \A x \in Addr : Holdings(b, k)[x] \in Int
  BY DEF Holdings, Balances
<1>2. Total(Holdings(b, k)) \in Int
  BY <1>1, TotalAgrees
<1> QED BY <1>2 DEF Held

LEMMA Fields ==
    ASSUME NEW s \in StateRecord
    PROVE  /\ s.balance \in Balances /\ s.nonce \in Balances /\ s.stake \in Balances
           /\ s.validators \in Subsets /\ s.validatorState \in States
           /\ s.validatorStake \in Balances /\ s.methods \in Subsets
           /\ s.currentHeight \in Nat /\ s.lastBlockHash \in Tips /\ s.totalSupply \in Nat
           /\ s.developerNodeSet \in BOOLEAN
           /\ Held(s.balance, s.stake) \in Int
<1>1. /\ s.balance \in Balances /\ s.nonce \in Balances /\ s.stake \in Balances
      /\ s.validators \in Subsets /\ s.validatorState \in States
      /\ s.validatorStake \in Balances /\ s.methods \in Subsets
      /\ s.currentHeight \in Nat /\ s.lastBlockHash \in Tips /\ s.totalSupply \in Nat
      /\ s.developerNodeSet \in BOOLEAN
  BY RecordIs
<1> QED BY <1>1, HeldIs

LEMMA BonusIs ==
    ASSUME NEW s
    PROVE  /\ Bonus(s) \in Nat /\ Bonus(s) <= DeveloperNodeReward
           /\ s.developerNodeSet = TRUE => Bonus(s) = DeveloperNodeReward
           /\ s.developerNodeSet = FALSE => Bonus(s) = 0
<1>1. DeveloperNodeReward \in Nat
  BY LedgerAmountAssumption
<1>2. Bonus(s) = DeveloperNodeReward \/ Bonus(s) = 0
  BY Zenon DEF Bonus
<1>3. s.developerNodeSet = TRUE => Bonus(s) = DeveloperNodeReward
  BY Zenon DEF Bonus
<1>4. s.developerNodeSet = FALSE => Bonus(s) = 0
  BY Zenon DEF Bonus
<1> QED BY <1>1, <1>2, <1>3, <1>4

\* The reward of a block is no more than the full one, nor than what is left.
LEMMA RewardIs ==
    ASSUME state \in StateRecord, Minted(state)
    PROVE  /\ CalculateBlockReward \in 0..BlockReward
           /\ state.totalSupply + CalculateBlockReward <= MaxSupply
<1>1. state.currentHeight \in 0..MaxHeight /\ state.totalSupply \in Nat
      /\ state.totalSupply <= MaxSupply /\ MaxSupply \in Nat /\ BlockReward \in Nat
      /\ MaxHeight \in Nat
  BY Fields, LedgerAmountAssumption DEF Minted
<1>2. HalvedReward \in 0..BlockReward
  BY <1>1, HalvingAssumption DEF HalvedReward
<1> QED BY <1>1, <1>2 DEF CalculateBlockReward

LEMMA RewardHolds ==
    ASSUME NEW b \in Balances, NEW c \in Balances, NEW k \in Balances,
           NEW a \in Addr, NEW d \in Int, c[a] = b[a] + d,
           \A x \in Addr : x # a => c[x] = b[x]
    PROVE  /\ Held(b, k) \in Int /\ Held(c, k) \in Int
           /\ Held(c, k) = Held(b, k) + d
<1>1. b \in [Addr -> Int] /\ c \in [Addr -> Int] /\ k \in [Addr -> Int]
  BY DEF Balances
<1> QED BY <1>1, HeldMoves

LEMMA OfferedIs ==
    ASSUME NEW b \in Offered
    PROVE  /\ b.height <= MaxHeight /\ b.fork \in Fork /\ b.validatorAddress \in Addr
           /\ b.transactions \in Seq(Transactions)
BY TransactionAssumption DEF Offered

\* The transactions of a block that passed the first look hold no more than the
\* reward brought in, and take at most one nonce of each sender.
LEMMA ProcessedIs ==
    ASSUME state \in StateRecord, Minted(state), NEW b \in Offered, Prevalidated(b)
    PROVE  /\ Processed(b) \in AccRecord
           /\ Held(Processed(b).balance, state.stake)
                 <= Held(state.balance, state.stake) + CalculateBlockReward
           /\ \A a \in Addr : Processed(b).nonce[a] \in {state.nonce[a], state.nonce[a] + 1}
<1> DEFINE most == Held(state.balance, state.stake) + CalculateBlockReward
           S == {acc \in AccRecord :
                   /\ Held(acc.balance, state.stake) <= most
                   /\ \A a \in Addr : acc.nonce[a] \in {state.nonce[a], state.nonce[a] + 1}}
           first == [ok |-> TRUE, nonce |-> state.nonce, balance |-> ProcessBlockReward(b)]
           raised == ProcessBlockReward(b)
           reward == CalculateBlockReward
<1>1. /\ state.balance \in Balances /\ state.stake \in Balances /\ state.nonce \in Balances
      /\ Held(state.balance, state.stake) \in Int
  BY Fields
<1>2. /\ b.validatorAddress \in Addr /\ b.transactions \in Seq(Transactions)
  BY OfferedIs
<1>3. reward \in Nat
  BY RewardIs, LedgerAmountAssumption
<1>4. most \in Int
  BY <1>1, <1>3
<1> DEFINE bal == state.balance
           stk == state.stake
           val == b.validatorAddress
<1>14. raised = [bal EXCEPT ![val] = @ + reward]
  BY DEF ProcessBlockReward
<1>5. /\ raised \in Balances /\ raised[val] = bal[val] + reward
      /\ \A x \in Addr : x # val => raised[x] = bal[x]
  <2>1. bal \in [Addr -> Nat] /\ val \in Addr
    BY <1>1, <1>2 DEF Balances
  <2> HIDE DEF bal, val, reward, raised
  <2> QED BY <1>3, <1>14, <2>1 DEF Balances
<1>6. Held(raised, state.stake) = most
  <2>1. bal \in Balances /\ stk \in Balances /\ val \in Addr /\ reward \in Int
    BY <1>1, <1>2, <1>3
  <2> HIDE DEF bal, stk, val, reward, raised
  <2>2. Held(raised, stk) = Held(bal, stk) + reward
    BY <1>5, <2>1, RewardHolds
  <2> QED BY <2>2 DEF bal, stk, reward
<1>7. first \in S
  <2>1. first \in AccRecord
    <3> HIDE DEF raised
    <3>1. [ok |-> TRUE, nonce |-> state.nonce, balance |-> raised] \in AccRecord
      BY <1>1, <1>5 DEF AccRecord
    <3> QED BY <3>1 DEF raised
  <2>2. first.balance = raised /\ first.nonce = state.nonce
    OBVIOUS
  <2>3. Held(first.balance, state.stake) <= most
    <3> HIDE DEF first, raised, most
    <3> QED BY <1>4, <1>6, <2>2
  <2> HIDE DEF first, most
  <2> QED BY <2>1, <2>2, <2>3
<1>8. ASSUME NEW p \in S, NEW i \in DOMAIN b.transactions
      PROVE  ApplyTo(p, b.transactions[i]) \in S
  <2> DEFINE t == b.transactions[i]
             q == ApplyTo(p, t)
  <2>1. t \in Transaction
    BY <1>2, TransactionAssumption
  <2>2. t.nonce = state.nonce[t.from] + 1 /\ t.from \in Addr
    BY <2>1 DEF Prevalidated, NextNonce, Transaction
  <2>3. /\ p \in AccRecord /\ Held(p.balance, state.stake) <= most
        /\ \A a \in Addr : p.nonce[a] \in {state.nonce[a], state.nonce[a] + 1}
    BY <1>8
  <2> HIDE DEF most, t, S
  <2>4. /\ q \in AccRecord
        /\ Held(p.balance, state.stake) \in Int /\ Held(q.balance, state.stake) \in Int
        /\ Held(q.balance, state.stake) <= Held(p.balance, state.stake)
        /\ \/ q.nonce = p.nonce
           \/ q.nonce = [p.nonce EXCEPT ![t.from] = t.nonce]
    BY <1>1, <2>1, <2>3, ApplyToIs
  <2> HIDE DEF q
  <2>5. Held(q.balance, state.stake) <= most
    BY <1>4, <2>3, <2>4
  <2>6. \A a \in Addr : q.nonce[a] \in {state.nonce[a], state.nonce[a] + 1}
    <3>1. p.nonce \in Balances
      BY <2>3 DEF AccRecord
    <3> QED BY <2>2, <2>3, <2>4, <3>1 DEF Balances
  <2>7. q \in S
    BY <2>4, <2>5, <2>6 DEF S
  <2> QED BY <2>7 DEF q, t
<1>9. Processed(b) \in S
  <2>1. \A p \in S : \A i \in DOMAIN b.transactions : ApplyTo(p, b.transactions[i]) \in S
    BY <1>8
  <2> HIDE DEF S
  <2> QED BY <1>2, <1>7, <2>1, ProcessedIn
<1> QED BY <1>9

\* Parts of the arithmetic of supplies
LEMMA OneMore ==
    ASSUME NEW h \in Nat, NEW r \in Nat
    PROVE  h * r \in Nat /\ (h + 1) * r = h * r + r
OBVIOUS

LEMMA MoreIsMore ==
    ASSUME NEW h \in Nat, NEW d \in Nat, NEW r \in Nat, h <= d
    PROVE  h * r \in Nat /\ d * r \in Nat /\ h * r <= d * r
<1>1. PICK x \in Nat : d = h + x
  <2>1. d - h \in Nat /\ d = h + (d - h)
    OBVIOUS
  <2> QED BY <2>1
<1>2. (h + x) * r = h * r + x * r /\ h * r \in Nat /\ x * r \in Nat
  OBVIOUS
<1> QED BY <1>1, <1>2

LEMMA BlockKeeps ==
    ASSUME LedgerInv, NEW b \in Offered, ApplyBlock(b)
    PROVE  CallKeeps
<1> DEFINE acc == Processed(b)
           tip == [height |-> b.height, fork |-> b.fork]
           reward == CalculateBlockReward
           touched == [state EXCEPT !.balance = acc.balance, !.nonce = acc.nonce,
                                    !.totalSupply = @ + CalculateBlockReward]
<1>0. state \in StateRecord /\ Minted(state) /\ Call /\ Follows(b)
  BY DEF LedgerInv, LedgerTypeOK, ApplyBlock
<1>1. /\ state.balance \in Balances /\ state.nonce \in Balances /\ state.stake \in Balances
      /\ state.validators \in Subsets /\ state.validatorState \in States
      /\ state.validatorStake \in Balances /\ state.methods \in Subsets
      /\ state.currentHeight \in Nat /\ state.lastBlockHash \in Tips /\ state.totalSupply \in Nat
      /\ state.developerNodeSet \in BOOLEAN
      /\ Held(state.balance, state.stake) \in Int
  BY <1>0, Fields
<1>2. /\ reward \in Nat /\ reward <= BlockReward /\ state.totalSupply + reward <= MaxSupply
      /\ BlockReward \in Nat
  BY <1>0, RewardIs, LedgerAmountAssumption
<1>3. /\ b.height <= MaxHeight /\ b.height = state.currentHeight + 1 /\ b.height \in Nat
      /\ tip \in Tips
  <2>1. b.height <= MaxHeight /\ b.fork \in Fork /\ b.height = state.currentHeight + 1
    BY <1>0, OfferedIs DEF Follows
  <2>2. b.height \in Nat
    BY <1>1, <2>1
  <2> QED BY <2>1, <2>2 DEF Tips, Hash
<1>4. CASE Prevalidated(b) /\ acc.ok
            /\ state' = [touched EXCEPT !.currentHeight = b.height, !.lastBlockHash = tip]
  <2>1. /\ acc \in AccRecord
        /\ Held(acc.balance, state.stake) <= Held(state.balance, state.stake) + reward
        /\ \A a \in Addr : acc.nonce[a] \in {state.nonce[a], state.nonce[a] + 1}
    BY <1>0, <1>4, ProcessedIs
  <2>2. acc.balance \in Balances /\ acc.nonce \in Balances
    BY <2>1 DEF AccRecord
  <2> HIDE DEF acc, reward, tip
  <2>3. state' = [state EXCEPT !.balance = acc.balance, !.nonce = acc.nonce,
                               !.totalSupply = state.totalSupply + reward,
                               !.currentHeight = b.height, !.lastBlockHash = tip]
    BY <1>0, <1>4, RecordIs DEF reward
  <2>4. /\ state' \in StateRecord
        /\ state'.balance = acc.balance /\ state'.nonce = acc.nonce
        /\ state'.stake = state.stake /\ state'.totalSupply = state.totalSupply + reward
        /\ state'.currentHeight = state.currentHeight + 1
        /\ state'.developerNodeSet = state.developerNodeSet
    <3> DEFINE bal == acc.balance
               non == acc.nonce
               supply == state.totalSupply + reward
               h == b.height
    <3>1. supply \in Nat /\ bal \in Balances /\ non \in Balances /\ h \in Nat
      BY <1>1, <1>2, <1>3, <2>2
    <3>2. state' = [state EXCEPT !.balance = bal, !.nonce = non, !.totalSupply = supply,
                                 !.currentHeight = h, !.lastBlockHash = tip]
      BY <2>3
    <3> HIDE DEF bal, non, supply, h
    <3>3. /\ state' \in StateRecord
          /\ state'.balance = bal /\ state'.nonce = non
          /\ state'.stake = state.stake /\ state'.totalSupply = supply
          /\ state'.currentHeight = h
          /\ state'.developerNodeSet = state.developerNodeSet
      BY <1>0, <1>3, <3>1, <3>2, RecordIs
    <3> QED BY <1>3, <3>3 DEF bal, non, supply, h
  <2>5. Bonus(state') = Bonus(state) /\ Bonus(state) \in Nat
    BY <2>4, BonusIs DEF Bonus
  <2>6. Minted(state')
    <3>1. /\ state.currentHeight * BlockReward \in Nat
          /\ (state.currentHeight + 1) * BlockReward
                = state.currentHeight * BlockReward + BlockReward
      BY <1>1, <1>2, OneMore
    <3> DEFINE before == state.currentHeight * BlockReward
               after == (state.currentHeight + 1) * BlockReward
    <3> HIDE DEF before, after
    <3>2. before \in Nat /\ after = before + BlockReward
      BY <3>1 DEF before, after
    <3>3. state.currentHeight + 1 <= DistributionBlocks =>
            state.totalSupply <= before + Bonus(state)
      BY <1>0, <1>1, LedgerAmountAssumption DEF Minted, before
    <3>4. state'.currentHeight <= DistributionBlocks =>
            state'.totalSupply <= after + Bonus(state')
      BY <1>1, <1>2, <2>4, <2>5, <3>2, <3>3
    <3>5. state'.currentHeight <= MaxHeight /\ state'.totalSupply <= MaxSupply
      BY <1>2, <1>3, <2>4
    <3> QED BY <2>4, <3>4, <3>5 DEF Minted, after
  <2>7. Covered(state) => Covered(state')
    <3>1. Held(acc.balance, state.stake) \in Int
      BY <1>1, <2>2, HeldIs
    <3> DEFINE h0 == Held(state.balance, state.stake)
               h1 == Held(acc.balance, state.stake)
    <3>2. Covered(state) <=> h0 <= state.totalSupply
      BY DEF Covered
    <3>3. Covered(state') <=> h1 <= state.totalSupply + reward
      BY <2>4 DEF Covered
    <3> HIDE DEF h0, h1
    <3>4. h0 \in Int /\ h1 \in Int /\ h1 <= h0 + reward
      BY <1>1, <2>1, <3>1 DEF h0, h1
    <3> QED BY <1>1, <1>2, <3>2, <3>3, <3>4
  <2> QED BY <1>0, <2>1, <2>4, <2>6, <2>7 DEF CallKeeps
<1>5. CASE state' = [state EXCEPT !.methods = {}]
  <2>1. {} \in Subsets
    BY DEF Subsets
  <2>2. /\ state' \in StateRecord
        /\ state'.balance = state.balance /\ state'.nonce = state.nonce
        /\ state'.stake = state.stake /\ state'.totalSupply = state.totalSupply
        /\ state'.currentHeight = state.currentHeight
        /\ state'.developerNodeSet = state.developerNodeSet
    BY <1>0, <1>5, <2>1, RecordIs
  <2>3. Minted(state')
    BY <1>0, <2>2 DEF Minted, Bonus
  <2> QED BY <1>0, <2>2, <2>3 DEF CallKeeps, Covered
<1>6. QED
  BY <1>4, <1>5 DEF ApplyBlock, RestoreStateSnapshot

LEMMA TransactionKeeps ==
    ASSUME LedgerInv, NEW t \in Transactions, ApplyTransaction(t)
    PROVE  CallKeeps
<1> DEFINE p == [ok |-> TRUE, balance |-> state.balance, nonce |-> state.nonce]
           acc == ApplyTo(p, t)
           bal == acc.balance
           non == acc.nonce
<1>0. state \in StateRecord /\ Minted(state) /\ Call /\ t \in Transaction
  BY TransactionAssumption DEF LedgerInv, LedgerTypeOK, ApplyTransaction
<1>1. /\ state.balance \in Balances /\ state.nonce \in Balances /\ state.stake \in Balances
      /\ state.totalSupply \in Nat /\ Held(state.balance, state.stake) \in Int
  BY <1>0, Fields
<1>2. state' = [state EXCEPT !.balance = bal, !.nonce = non]
  BY DEF ApplyTransaction
<1>3. p \in AccRecord /\ p.balance = state.balance /\ p.nonce = state.nonce
  BY <1>1 DEF AccRecord
<1> HIDE DEF p
<1>4. /\ acc \in AccRecord
      /\ Held(bal, state.stake) \in Int
      /\ Held(bal, state.stake) <= Held(state.balance, state.stake)
      /\ \/ non = state.nonce
         \/ /\ NextNonce(state.nonce, t)
            /\ non = [state.nonce EXCEPT ![t.from] = t.nonce]
  <2> HIDE DEF acc
  <2> QED BY <1>0, <1>1, <1>3, ApplyToIs DEF acc
<1> HIDE DEF acc
<1>5. bal \in Balances /\ non \in Balances
  BY <1>4 DEF AccRecord
<1>6. \A a \in Addr : non[a] \in {state.nonce[a], state.nonce[a] + 1}
  <2>1. t.from \in Addr
    BY <1>0 DEF Transaction
  <2> QED BY <1>1, <1>4, <2>1 DEF NextNonce, Balances
<1> HIDE DEF bal, non
<1>7. /\ state' \in StateRecord
      /\ state'.balance = bal /\ state'.nonce = non
      /\ state'.stake = state.stake /\ state'.totalSupply = state.totalSupply
      /\ state'.currentHeight = state.currentHeight
      /\ state'.developerNodeSet = state.developerNodeSet
  BY <1>0, <1>2, <1>5, RecordIs
<1>8. Minted(state')
  BY <1>0, <1>7 DEF Minted, Bonus
<1>9. Covered(state) => Covered(state')
  <2> DEFINE h0 == Held(state.balance, state.stake)
             h1 == Held(bal, state.stake)
  <2>1. (Covered(state) <=> h0 <= state.totalSupply) /\ (Covered(state') <=> h1 <= state.totalSupply)
    BY <1>7 DEF Covered
  <2>2. h0 \in Int /\ h1 \in Int /\ h1 <= h0
    BY <1>1, <1>4
  <2> HIDE DEF h0, h1
  <2> QED BY <1>1, <2>1, <2>2
<1> QED BY <1>0, <1>6, <1>7, <1>8, <1>9 DEF CallKeeps

\* What moves between balance and stake stays with its owner.
LEMMA Swapped ==
    ASSUME NEW b \in Balances, NEW k \in Balances, NEW c \in Balances, NEW l \in Balances,
           NEW a \in Addr, NEW d \in Int, l[a] = k[a] + d, c[a] = b[a] - d,
           \A x \in Addr : x # a => c[x] = b[x] /\ l[x] = k[x]
    PROVE  Held(c, l) = Held(b, k)
<1>1. \A x \in Addr : Holdings(b, k)[x] \in Int /\ Holdings(c, l)[x] = Holdings(b, k)[x]
  <2> SUFFICES ASSUME NEW x \in Addr
               PROVE  b[x] + k[x] \in Int /\ c[x] + l[x] = b[x] + k[x]
    BY DEF Holdings
  <2>1. b[x] \in Int /\ k[x] \in Int
    BY DEF Balances
  <2> QED BY <2>1
<1> QED BY <1>1, TotalAgrees DEF Held

LEMMA StakeKeeps ==
    ASSUME LedgerInv, NEW a \in Addr, NEW n \in StakeChanges, UpdateAccountStake(a, n)
    PROVE  CallKeeps
<1> DEFINE stake == state.stake[a] + n
           bal == state.balance
           stk == state.stake
           val == state.validatorStake
           vst == state.validatorState
           bal1 == [bal EXCEPT ![a] = @ - n]
           stk1 == [stk EXCEPT ![a] = stake]
           val1 == [val EXCEPT ![a] = IF a \in state.validators THEN stake ELSE @]
           vst1 == [vst EXCEPT ![a] = IF a \in state.validators THEN StateForStake(a, stake) ELSE @]
<1>0. state \in StateRecord /\ Minted(state) /\ Call /\ n \in Int
  BY LedgerAmountAssumption DEF LedgerInv, LedgerTypeOK, UpdateAccountStake
<1>1. /\ bal \in Balances /\ stk \in Balances /\ val \in Balances /\ vst \in States
      /\ state.nonce \in Balances /\ state.totalSupply \in Nat
  BY <1>0, Fields
<1>2. stake >= 0 /\ n <= bal[a]
  BY DEF UpdateAccountStake
<1>3. state' = [state EXCEPT !.stake = stk1, !.balance = bal1,
                             !.validatorStake = val1, !.validatorState = vst1]
  BY <1>0, RecordIs DEF UpdateAccountStake
<1>4. /\ bal1 \in Balances /\ bal1[a] = bal[a] - n
      /\ \A x \in Addr : x # a => bal1[x] = bal[x]
  <2>1. bal[a] - n \in Nat
    <3>1. bal[a] \in Nat
      BY <1>1 DEF Balances
    <3> HIDE DEF bal
    <3> QED BY <1>0, <1>2, <3>1
  <2> HIDE DEF bal
  <2> QED BY <1>1, <2>1 DEF Balances
<1>5. stake \in Nat
  <2>1. stk[a] \in Nat
    BY <1>1 DEF Balances
  <2> QED BY <1>0, <1>2, <2>1
<1>6. /\ stk1 \in Balances /\ stk1[a] = stk[a] + n
      /\ \A x \in Addr : x # a => stk1[x] = stk[x]
  <2>1. stake = stk[a] + n
    OBVIOUS
  <2> HIDE DEF stk, stake
  <2> QED BY <1>1, <1>5, <2>1 DEF Balances
<1>7. val1 \in Balances
  <2>1. (IF a \in state.validators THEN stake ELSE val[a]) \in Nat
    <3>1. val[a] \in Nat
      BY <1>1 DEF Balances
    <3> HIDE DEF stake, val
    <3> QED BY <1>5, <3>1
  <2> HIDE DEF stake, val
  <2> QED BY <1>1, <2>1 DEF Balances
<1>8. vst1 \in States
  <2>1. vst[a] \in ValidatorState
    BY <1>1 DEF States
  <2>2. StateForStake(a, stake) \in ValidatorState
    <3> HIDE DEF stake
    <3> QED BY <2>1 DEF StateForStake, ValidatorState
  <2>3. (IF a \in state.validators THEN StateForStake(a, stake) ELSE vst[a]) \in ValidatorState
    <3> HIDE DEF stake, vst
    <3> QED BY <2>1, <2>2
  <2> HIDE DEF stake, vst
  <2> QED BY <1>1, <2>3 DEF States
<1> HIDE DEF bal1, stk1, val1, vst1
<1>9. /\ state' \in StateRecord
      /\ state'.balance = bal1 /\ state'.nonce = state.nonce
      /\ state'.stake = stk1 /\ state'.totalSupply = state.totalSupply
      /\ state'.currentHeight = state.currentHeight
      /\ state'.developerNodeSet = state.developerNodeSet
  <2> HIDE DEF stake, bal, stk, val, vst
  <2> QED BY <1>0, <1>3, <1>4, <1>6, <1>7, <1>8, RecordIs
<1>10. Minted(state')
  <2> HIDE DEF stake, bal, stk, val, vst
  <2> QED BY <1>0, <1>9 DEF Minted, Bonus
<1>11. Held(bal1, stk1) = Held(bal, stk)
  <2> HIDE DEF stake, bal, stk, val, vst
  <2> QED BY <1>0, <1>1, <1>4, <1>6, Swapped
<1>12. Covered(state) => Covered(state')
  BY <1>9, <1>11, Zenon DEF Covered
<1>13. \A x \in Addr : state'.nonce[x] \in {state.nonce[x], state.nonce[x] + 1}
  BY <1>9
<1> QED BY <1>0, <1>9, <1>10, <1>12, <1>13 DEF CallKeeps

\* The developer node's reward is minted once, within the distribution period.
LEMMA RegistrationReward ==
    ASSUME state \in StateRecord, Minted(state), NEW a \in Addr, a \notin state.validators
    PROVE  /\ RewardOnRegistration(a) \in Nat
           /\ state.totalSupply + RewardOnRegistration(a) <= MaxSupply
           /\ state.currentHeight <= DistributionBlocks =>
                state.totalSupply + RewardOnRegistration(a)
                    <= state.currentHeight * BlockReward + DeveloperNodeReward
<1> DEFINE r == RewardOnRegistration(a)
           h == state.currentHeight
           mined == h * BlockReward
           most == DistributionBlocks * BlockReward
<1>1. /\ h \in Nat /\ state.totalSupply \in Nat /\ state.developerNodeSet \in BOOLEAN
      /\ BlockReward \in Nat /\ DeveloperNodeReward \in Nat /\ MaxSupply \in Nat
      /\ DistributionBlocks \in Nat /\ EarlyValidatorReward \in Nat
  BY Fields, LedgerAmountAssumption
<1>2. mined \in Nat /\ most \in Nat /\ (h <= DistributionBlocks => mined <= most)
  <2>1. mined \in Nat /\ most \in Nat
    <3> HIDE DEF h
    <3> QED BY <1>1, OneMore
  <2>2. ASSUME h <= DistributionBlocks PROVE mined <= most
    <3> HIDE DEF h
    <3> QED BY <1>1, <2>2, MoreIsMore
  <2> QED BY <2>1, <2>2
<1>3. most + DeveloperNodeReward <= MaxSupply
  <2>1. Cardinality(Addr) \in Nat
    BY LedgerAddressAssumption, FS_CardinalityType
  <2>2. Cardinality(Addr) * EarlyValidatorReward \in Nat
    BY <1>1, <2>1, OneMore
  <2> DEFINE early == Cardinality(Addr) * EarlyValidatorReward
  <2>3. most + DeveloperNodeReward + early <= MaxSupply
    BY DistributionAssumption
  <2> HIDE DEF most, early
  <2> QED BY <1>1, <1>2, <2>2, <2>3 DEF early
<1>4. state.totalSupply <= MaxSupply
  BY DEF Minted
<1>5. h <= DistributionBlocks => state.totalSupply <= mined + Bonus(state)
  BY DEF Minted
<1>6. Bonus(state) \in Nat /\ Bonus(state) <= DeveloperNodeReward
  BY <1>1, BonusIs
<1>7. r = 0 \/ (InDistributionPeriod /\ state.developerNodeSet = FALSE /\ r = DeveloperNodeReward)
  <2>1. CASE ~InDistributionPeriod
    BY <2>1 DEF RewardOnRegistration
  <2>2. CASE InDistributionPeriod /\ state.developerNodeSet = TRUE
    BY <2>2 DEF RewardOnRegistration
  <2>3. CASE InDistributionPeriod /\ state.developerNodeSet = FALSE
    BY <2>3 DEF RewardOnRegistration
  <2> QED BY <1>1, <2>1, <2>2, <2>3
<1> HIDE DEF r
<1>8. CASE r = 0
  <2>1. h <= DistributionBlocks => state.totalSupply + r <= mined + DeveloperNodeReward
    <3> HIDE DEF mined, h
    <3> QED BY <1>1, <1>2, <1>5, <1>6, <1>8
  <2>2. r \in Nat /\ state.totalSupply + r <= MaxSupply
    BY <1>1, <1>4, <1>8
  <2> QED BY <2>1, <2>2 DEF r
<1>9. CASE InDistributionPeriod /\ state.developerNodeSet = FALSE /\ r = DeveloperNodeReward
  <2>1. Bonus(state) = 0
    BY <1>9, BonusIs
  <2>5. h <= DistributionBlocks
    BY <1>1, <1>9 DEF InDistributionPeriod
  <2> HIDE DEF mined, most, h
  <2>2. state.totalSupply <= mined
    BY <1>1, <1>2, <1>5, <2>1, <2>5
  <2>3. r \in Nat /\ state.totalSupply + r <= mined + DeveloperNodeReward
    BY <1>1, <1>2, <1>9, <2>2
  <2>4. state.totalSupply + r <= MaxSupply
    BY <1>1, <1>2, <1>3, <2>3, <2>5
  <2> QED BY <2>3, <2>4 DEF r, mined, h
<1> QED BY <1>7, <1>8, <1>9

LEMMA RegisterKeeps ==
    ASSUME LedgerInv, NEW a \in Addr, RegisterValidator(a)
    PROVE  CallKeeps
<1> DEFINE r == RewardOnRegistration(a)
           bal == state.balance
           stk == state.stake
           bal1 == [bal EXCEPT ![a] = IF @ + r >= 0 THEN @ + r ELSE @]
           vals1 == state.validators \cup {a}
           meth1 == state.methods \cup {a}
           vst1 == [state.validatorState EXCEPT ![a] = "inactive"]
           val1 == [state.validatorStake EXCEPT ![a] = stk[a]]
           supply1 == state.totalSupply + r
<1>0. state \in StateRecord /\ Minted(state) /\ Call /\ a \notin state.validators
  BY DEF LedgerInv, LedgerTypeOK, RegisterValidator
<1>1. /\ bal \in Balances /\ stk \in Balances /\ state.totalSupply \in Nat
      /\ state.validators \in Subsets /\ state.methods \in Subsets
      /\ state.validatorState \in States /\ state.validatorStake \in Balances
      /\ state.currentHeight \in Nat /\ Held(bal, stk) \in Int
  BY <1>0, Fields
<1>2. /\ r \in Nat /\ supply1 <= MaxSupply
      /\ state.currentHeight <= DistributionBlocks =>
            supply1 <= state.currentHeight * BlockReward + DeveloperNodeReward
  BY <1>0, RegistrationReward
<1>3. state' = [state EXCEPT !.validators = vals1, !.methods = meth1,
                             !.validatorState = vst1, !.validatorStake = val1,
                             !.developerNodeSet = TRUE, !.balance = bal1,
                             !.totalSupply = supply1]
  BY <1>0, RecordIs DEF RegisterValidator, UpdateAccountBalance
<1>4. /\ bal1 \in Balances /\ bal1[a] = bal[a] + r
      /\ \A x \in Addr : x # a => bal1[x] = bal[x]
  <2> HIDE DEF bal, r
  <2> QED BY <1>1, <1>2 DEF Balances
<1>5. vals1 \in Subsets /\ meth1 \in Subsets /\ vst1 \in States /\ val1 \in Balances
  BY <1>1 DEF Subsets, States, ValidatorState, Balances
<1>6. supply1 \in Nat
  BY <1>1, <1>2
<1> HIDE DEF bal1, vals1, meth1, vst1, val1, supply1, r
<1>7. /\ state' \in StateRecord
      /\ state'.balance = bal1 /\ state'.nonce = state.nonce
      /\ state'.stake = stk /\ state'.totalSupply = supply1
      /\ state'.currentHeight = state.currentHeight
      /\ state'.developerNodeSet = TRUE
  BY <1>0, <1>3, <1>4, <1>5, <1>6, RecordIs
<1>8. Minted(state')
  <2>1. Bonus(state') = DeveloperNodeReward
    BY <1>7, BonusIs
  <2> QED BY <1>0, <1>2, <1>7, <2>1 DEF Minted
<1>9. Covered(state) => Covered(state')
  <2> DEFINE h0 == Held(bal, stk)
             h1 == Held(bal1, stk)
  <2>1. (Covered(state) <=> h0 <= state.totalSupply) /\ (Covered(state') <=> h1 <= supply1)
    BY <1>7, Zenon DEF Covered
  <2>2. h1 = h0 + r /\ h0 \in Int /\ h1 \in Int
    <3> HIDE DEF bal, stk
    <3> QED BY <1>1, <1>2, <1>4, RewardHolds
  <2> HIDE DEF h0, h1
  <2> QED BY <1>1, <1>2, <2>1, <2>2 DEF supply1
<1>10. \A x \in Addr : state'.nonce[x] \in {state.nonce[x], state.nonce[x] + 1}
  BY <1>7
<1> QED BY <1>0, <1>7, <1>8, <1>9, <1>10 DEF CallKeeps

LEMMA BanKeeps ==
    ASSUME LedgerInv, NEW a \in Addr, JailValidator(a) \/ TombstoneValidator(a)
    PROVE  CallKeeps
<1>0. state \in StateRecord /\ Minted(state) /\ Call
  BY DEF LedgerInv, LedgerTypeOK, JailValidator, TombstoneValidator
<1>1. PICK s \in {"jailed", "tombstoned"} : state' = [state EXCEPT !.validatorState[a] = s]
  BY DEF JailValidator, TombstoneValidator
<1> DEFINE vst1 == [state.validatorState EXCEPT ![a] = s]
<1>2. vst1 \in States
  BY <1>0, Fields DEF States, ValidatorState
<1>3. state' = [state EXCEPT !.validatorState = vst1]
  BY <1>1
<1> HIDE DEF vst1
<1>4. /\ state' \in StateRecord
      /\ state'.balance = state.balance /\ state'.nonce = state.nonce
      /\ state'.stake = state.stake /\ state'.totalSupply = state.totalSupply
      /\ state'.currentHeight = state.currentHeight
      /\ state'.developerNodeSet = state.developerNodeSet
  BY <1>0, <1>2, <1>3, RecordIs
<1>5. Minted(state')
  BY <1>0, <1>4 DEF Minted, Bonus
<1> QED BY <1>0, <1>4, <1>5 DEF CallKeeps, Covered

-----------------------------------------------------------------------------
(* Saving and loading *)

LEMMA TotalOfNothing ==
    ASSUME NEW w, \A x \in Addr : w[x] = 0
    PROVE  Total(w) = 0
<1>1. PICK g : Sums(g, w, Addr) /\ Total(w) = g[Addr]
  BY TotalSums
<1> DEFINE Bad == {s \in SUBSET Addr : g[s] # 0}
           T == {Cardinality(s) : s \in Bad}
<1>2. \A s \in SUBSET Addr : Cardinality(s) \in Nat
  BY LedgerAddressAssumption, FS_Subset, FS_CardinalityType
<1>3. Bad = {}
  <2> SUFFICES ASSUME Bad # {} PROVE FALSE
    OBVIOUS
  <2>1. T \subseteq Nat /\ T # {}
    BY <1>2
  <2>2. PICK n \in T : \A k \in T : n <= k
    <3> HIDE DEF T
    <3> QED BY <2>1, LeastOf
  <2>3. PICK s \in Bad : n = Cardinality(s)
    BY <2>2
  <2>4. s # {}
    BY <1>1, <2>3, SumsStep
  <2>5. Chosen(s) \in s /\ Chosen(s) \in Addr
    BY <2>3, <2>4, ChosenIn
  <2> DEFINE r == s \ {Chosen(s)}
  <2>6. r \in SUBSET Addr /\ Cardinality(r) \in Nat /\ Cardinality(r) < n
    BY <1>2, <2>3, <2>5, Smaller, LedgerAddressAssumption
  <2>7. r \notin Bad
    <3> SUFFICES ASSUME r \in Bad PROVE FALSE
      OBVIOUS
    <3>1. Cardinality(r) \in T
      OBVIOUS
    <3>2. n \in Nat
      BY <2>1, <2>2
    <3> QED BY <2>2, <2>6, <3>1, <3>2
  <2>8. g[r] = 0
    BY <2>6, <2>7
  <2>9. g[s] = w[Chosen(s)] + g[r]
    BY <1>1, <2>3, <2>4, SumsStep
  <2> QED BY <2>3, <2>5, <2>8, <2>9
<1> QED BY <1>1, <1>3

LEMMA FreshIs ==
    /\ Fresh \in StateRecord /\ Minted(Fresh)
    /\ Held(Fresh.balance, Fresh.stake) = 0
<1> DEFINE none == [a \in Addr |-> 0]
           idle == [a \in Addr |-> "inactive"]
<1>1. none \in Balances /\ idle \in States /\ {} \in Subsets /\ Null \in Tips
  BY DEF Balances, States, ValidatorState, Subsets, Tips
<1>2. /\ Fresh.balance = none /\ Fresh.stake = none /\ Fresh.currentHeight = 0
      /\ Fresh.totalSupply = 0
  BY DEF Fresh
<1>3. Fresh \in StateRecord
  <2>1. Fresh = [balance |-> none, nonce |-> none, stake |-> none,
                 validators |-> {}, validatorState |-> idle,
                 validatorStake |-> none, methods |-> {},
                 currentHeight |-> 0, lastBlockHash |-> Null, totalSupply |-> 0,
                 developerNodeSet |-> FALSE]
    BY DEF Fresh
  <2> HIDE DEF none, idle
  <2> QED BY <1>1, <2>1, RecordIs
<1>4. Minted(Fresh)
  <2>1. /\ MaxHeight \in Nat /\ MaxSupply \in Nat /\ BlockReward \in Nat
    BY LedgerAmountAssumption
  <2>2. Bonus(Fresh) \in Nat
    BY BonusIs
  <2> QED BY <1>2, <2>1, <2>2 DEF Minted
<1>5. Held(none, none) = 0
  <2>1. \A x \in Addr : Holdings(none, none)[x] = 0
    BY DEF Holdings
  <2> QED BY <2>1, TotalOfNothing DEF Held
<1> QED BY <1>2, <1>3, <1>4, <1>5

Source == IF saved = Null THEN Fresh ELSE saved

LEMMA SourceIs ==
    ASSUME LedgerInv
    PROVE  Source \in StateRecord /\ Minted(Source)
<1>1. CASE saved = Null
  BY <1>1, FreshIs DEF Source
<1>2. CASE saved # Null
  BY <1>2 DEF Source, LedgerInv, LedgerTypeOK
<1> QED BY <1>1, <1>2

\* What the steps of the database leave of the state
LEMMA DatabaseKeeps ==
    ASSUME LedgerInv, DatabaseStep
    PROVE  /\ LedgerInv'
           /\ \/ /\ PersistToDatabase
                 /\ saved' \in StateRecord
                 /\ saved'.balance = state.balance /\ saved'.stake = state.stake
                 /\ saved'.totalSupply = state.totalSupply
              \/ LedgerRestart
              \/ /\ AccountsLoaded
                 /\ state'.balance = Source.balance /\ state'.stake = Source.stake
              \/ /\ ValidatorsLoaded
                 /\ state'.balance = state.balance /\ state'.stake = state.stake
              \/ /\ StateLoaded
                 /\ state'.balance = state.balance /\ state'.stake = state.stake
                 /\ saved # Null => state'.totalSupply = saved.totalSupply
<1>0. /\ state \in StateRecord /\ Minted(state)
      /\ saved \in StateRecord \cup {Null} /\ (saved # Null => Minted(saved))
  BY DEF LedgerInv, LedgerTypeOK
<1>1. Source \in StateRecord /\ Minted(Source)
  BY SourceIs
<1>2. /\ Source.balance \in Balances /\ Source.nonce \in Balances /\ Source.stake \in Balances
      /\ Source.validators \in Subsets /\ Source.validatorState \in States
      /\ Source.validatorStake \in Balances
      /\ Source.currentHeight \in Nat /\ Source.lastBlockHash \in Tips
      /\ Source.totalSupply \in Nat /\ Source.developerNodeSet \in BOOLEAN
  BY <1>1, Fields
<1>3. {} \in Subsets
  BY DEF Subsets
<1>4. CASE PersistToDatabase
  <2>1. saved' = [state EXCEPT !.methods = {}] /\ UNCHANGED <<state, query>>
    BY <1>4 DEF PersistToDatabase
  <2>2. /\ saved' \in StateRecord /\ saved'.balance = state.balance /\ saved'.stake = state.stake
        /\ saved'.currentHeight = state.currentHeight /\ saved'.totalSupply = state.totalSupply
        /\ saved'.developerNodeSet = state.developerNodeSet
    BY <1>0, <1>3, <2>1, RecordIs
  <2>3. Minted(saved')
    BY <1>0, <2>2 DEF Minted, Bonus
  <2>4. LedgerTypeOK'
    BY <2>1, <2>2 DEF LedgerInv, LedgerTypeOK
  <2>5. Minted(state')
    BY <1>0, <2>1
  <2> QED BY <1>4, <2>2, <2>3, <2>4, <2>5 DEF LedgerInv
<1>5. CASE LedgerRestart
  <2>1. state' = Fresh /\ saved' = saved /\ query' = "accounts"
    BY <1>5 DEF LedgerRestart
  <2>2. Minted(state') /\ (saved' # Null => Minted(saved'))
    BY <1>0, <2>1, FreshIs
  <2>3. LedgerTypeOK'
    BY <1>0, <2>1, FreshIs DEF LedgerTypeOK
  <2> QED BY <1>5, <2>2, <2>3 DEF LedgerInv
<1>6. CASE AccountsLoaded
  <2>1. state' = [state EXCEPT !.balance = Source.balance, !.nonce = Source.nonce,
                               !.stake = Source.stake]
    <3>1. CASE saved = Null
      BY <1>6, <3>1 DEF AccountsLoaded, Source
    <3>2. CASE saved # Null
      BY <1>6, <3>2 DEF AccountsLoaded, Rows, Source
    <3> QED BY <3>1, <3>2
  <2>2. saved' = saved /\ query' = "validators"
    BY <1>6 DEF AccountsLoaded
  <2>3. /\ state' \in StateRecord
        /\ state'.balance = Source.balance /\ state'.stake = Source.stake
        /\ state'.currentHeight = state.currentHeight /\ state'.totalSupply = state.totalSupply
        /\ state'.developerNodeSet = state.developerNodeSet
    BY <1>0, <1>2, <2>1, RecordIs
  <2>4. Minted(state')
    BY <1>0, <2>3 DEF Minted, Bonus
  <2>5. LedgerTypeOK'
    BY <1>0, <2>2, <2>3 DEF LedgerTypeOK
  <2>6. saved' # Null => Minted(saved')
    BY <1>0, <2>2
  <2> QED BY <1>6, <2>3, <2>4, <2>5, <2>6 DEF LedgerInv
<1>7. CASE ValidatorsLoaded
  <2>1. state' = [state EXCEPT !.validators = Source.validators,
                               !.validatorState = Source.validatorState,
                               !.validatorStake = Source.validatorStake, !.methods = {}]
    <3>1. CASE saved = Null
      BY <1>7, <3>1 DEF ValidatorsLoaded, Source
    <3>2. CASE saved # Null
      BY <1>7, <3>2 DEF ValidatorsLoaded, Rows, Source
    <3> QED BY <3>1, <3>2
  <2>2. saved' = saved /\ query' = "state"
    BY <1>7 DEF ValidatorsLoaded
  <2>3. /\ state' \in StateRecord
        /\ state'.balance = state.balance /\ state'.stake = state.stake
        /\ state'.currentHeight = state.currentHeight /\ state'.totalSupply = state.totalSupply
        /\ state'.developerNodeSet = state.developerNodeSet
    BY <1>0, <1>2, <1>3, <2>1, RecordIs
  <2>4. Minted(state')
    BY <1>0, <2>3 DEF Minted, Bonus
  <2>5. LedgerTypeOK'
    BY <1>0, <2>2, <2>3 DEF LedgerTypeOK
  <2>6. saved' # Null => Minted(saved')
    BY <1>0, <2>2
  <2> QED BY <1>7, <2>3, <2>4, <2>5, <2>6 DEF LedgerInv
<1>8. CASE StateLoaded
  <2>2. saved' = saved /\ query' = "no"
    BY <1>8 DEF StateLoaded
  <2>3. /\ state' \in StateRecord /\ Minted(state')
        /\ state'.balance = state.balance /\ state'.stake = state.stake
        /\ saved # Null => state'.totalSupply = saved.totalSupply
    <3>1. CASE saved = Null
      BY <1>0, <1>8, <3>1 DEF StateLoaded
    <3>2. CASE saved # Null
      <4>1. Source = saved
        BY <3>2 DEF Source
      <4>2. state' = [state EXCEPT !.currentHeight = Source.currentHeight,
                                   !.lastBlockHash = Source.lastBlockHash,
                                   !.totalSupply = Source.totalSupply,
                                   !.developerNodeSet = Source.developerNodeSet]
        BY <1>8, <3>2, <4>1 DEF StateLoaded, Rows
      <4>3. /\ state' \in StateRecord
            /\ state'.balance = state.balance /\ state'.stake = state.stake
            /\ state'.currentHeight = Source.currentHeight
            /\ state'.totalSupply = Source.totalSupply
            /\ state'.developerNodeSet = Source.developerNodeSet
        BY <1>0, <1>2, <4>2, RecordIs
      <4>4. Minted(state')
        BY <1>1, <4>3 DEF Minted, Bonus
      <4> QED BY <4>1, <4>3, <4>4
    <3> QED BY <3>1, <3>2
  <2>5. LedgerTypeOK'
    BY <1>0, <2>2, <2>3 DEF LedgerTypeOK
  <2>6. saved' # Null => Minted(saved')
    BY <1>0, <2>2
  <2> QED BY <1>8, <2>3, <2>5, <2>6 DEF LedgerInv
<1> QED BY <1>4, <1>5, <1>6, <1>7, <1>8 DEF DatabaseStep

-----------------------------------------------------------------------------
(* The theorems *)

LEMMA CallsKeep ==
    ASSUME LedgerInv, BlockStep \/ ValidatorStep
    PROVE  CallKeeps
<1>1. CASE BlockStep
  BY <1>1, BlockKeeps, TransactionKeeps DEF BlockStep
<1>2. CASE ValidatorStep
  BY <1>2, StakeKeeps, RegisterKeeps, BanKeeps DEF ValidatorStep
<1> QED BY <1>1, <1>2

LEMMA LedgerInvInit == LedgerInit => LedgerInv
<1> SUFFICES ASSUME LedgerInit PROVE LedgerInv
  OBVIOUS
<1>1. state = Fresh /\ saved = Null /\ query = "no"
  BY DEF LedgerInit
<1> QED BY <1>1, FreshIs DEF LedgerInv, LedgerTypeOK

LEMMA LedgerInvNext ==
    ASSUME LedgerInv, LedgerNext
    PROVE  LedgerInv'
<1>1. CASE BlockStep \/ ValidatorStep
  <2>1. CallKeeps
    BY <1>1, CallsKeep
  <2> QED BY <2>1 DEF CallKeeps, Call, LedgerInv, LedgerTypeOK
<1>2. CASE DatabaseStep
  BY <1>2, DatabaseKeeps
<1> QED BY <1>1, <1>2 DEF LedgerNext

LEMMA LedgerInvStutter ==
    ASSUME LedgerInv, UNCHANGED ledgerVars
    PROVE  LedgerInv'
BY DEF LedgerInv, LedgerTypeOK, Minted, Bonus, ledgerVars

\* Every field of the state machine, in memory and in the database, holds a
\* value of its kind, also while rows are still being loaded: no balance, stake
\* or supply ever becomes negative (src/blockchain/state_machine.js).
THEOREM LedgerTypeCorrect == LedgerSpec => []LedgerTypeOK
<1>1. LedgerInv /\ [LedgerNext]_ledgerVars => LedgerInv'
  BY LedgerInvNext, LedgerInvStutter
<1>2. LedgerInv => LedgerTypeOK
  BY DEF LedgerInv
<1> QED BY <1>1, <1>2, LedgerInvInit, PTL DEF LedgerSpec

\* No step of the running state machine applies a transaction twice or leaves
\* a nonce out, however many transactions of a sender a block carries, and
\* whether the block succeeds or fails (applyTransaction, applyBlock).
THEOREM NoncesFollow == LedgerSpec => NoncesInOrder
<1> DEFINE InOrder == query = "no" /\ query' = "no" =>
             \A a \in Addr : state'.nonce[a] \in {state.nonce[a], state.nonce[a] + 1}
<1>1. LedgerInv /\ [LedgerNext]_ledgerVars => LedgerInv'
  BY LedgerInvNext, LedgerInvStutter
<1>2. ASSUME LedgerInv, LedgerNext PROVE InOrder
  <2>1. CASE BlockStep \/ ValidatorStep
    <3>1. CallKeeps
      BY <1>2, <2>1, CallsKeep
    <3> QED BY <3>1 DEF CallKeeps
  <2>2. CASE DatabaseStep
    <3>1. query = "no" /\ query' = "no" => state' = state
      BY <2>2 DEF DatabaseStep, PersistToDatabase, LedgerRestart, AccountsLoaded,
                  ValidatorsLoaded, StateLoaded
    <3> QED BY <3>1
  <2> QED BY <1>2, <2>1, <2>2 DEF LedgerNext
<1>3. LedgerInv /\ [LedgerNext]_ledgerVars => [InOrder]_ledgerVars
  BY <1>2
<1> QED BY <1>1, <1>3, LedgerInvInit, PTL DEF LedgerSpec, NoncesInOrder

\* What is saved is backed, what runs is backed, and what is loading has the
\* balances and stakes of what is saved.
BackedInv ==
    /\ LedgerInv
    /\ saved # Null => Covered(saved)
    /\ query = "no" => Covered(state)
    /\ query \in {"validators", "state"} =>
          state.balance = Source.balance /\ state.stake = Source.stake

LEMMA BackedNext ==
    ASSUME LoadsFirst, BackedInv, LedgerNext
    PROVE  BackedInv'
<1>1. LedgerInv' /\ LedgerInv
  BY LedgerInvNext DEF BackedInv
<1>2. CASE BlockStep \/ ValidatorStep
  <2>1. CallKeeps
    BY <1>1, <1>2, CallsKeep
  <2>2. query = "no" /\ query' = "no" /\ saved' = saved
    BY <2>1 DEF CallKeeps, Call
  <2>3. Covered(state')
    BY <2>1, <2>2 DEF CallKeeps, BackedInv
  <2>4. saved' # Null => Covered(saved')
    BY <2>2 DEF BackedInv
  <2> QED BY <1>1, <2>2, <2>3, <2>4 DEF BackedInv
<1>3. CASE DatabaseStep
  <2>0. /\ saved # Null => Covered(saved)
        /\ query = "no" => Covered(state)
        /\ query \in {"validators", "state"} =>
              state.balance = Source.balance /\ state.stake = Source.stake
    BY DEF BackedInv
  <2>1. CASE /\ PersistToDatabase
             /\ saved'.balance = state.balance /\ saved'.stake = state.stake
             /\ saved'.totalSupply = state.totalSupply
    <3>1. query = "no" /\ query' = "no" /\ state' = state
      BY <2>1 DEF PersistToDatabase
    <3>2. Covered(saved')
      BY <2>0, <2>1, <3>1 DEF Covered
    <3>3. Covered(state')
      BY <2>0, <3>1
    <3> QED BY <1>1, <3>1, <3>2, <3>3 DEF BackedInv
  <2>2. CASE LedgerRestart
    <3>1. query' = "accounts" /\ saved' = saved
      BY <2>2 DEF LedgerRestart
    <3>2. saved' # Null => Covered(saved')
      BY <2>0, <3>1
    <3> QED BY <1>1, <3>1, <3>2 DEF BackedInv
  <2>3. CASE AccountsLoaded /\ state'.balance = Source.balance /\ state'.stake = Source.stake
    <3>1. query' = "validators" /\ saved' = saved
      BY <2>3 DEF AccountsLoaded
    <3>2. Source' = Source
      BY <3>1, Zenon DEF Source, Fresh
    <3>3. saved' # Null => Covered(saved')
      BY <2>0, <3>1
    <3> QED BY <1>1, <2>3, <3>1, <3>2, <3>3 DEF BackedInv
  <2>4. CASE ValidatorsLoaded /\ state'.balance = state.balance /\ state'.stake = state.stake
    <3>1. query = "validators" /\ query' = "state" /\ saved' = saved
      BY <2>4 DEF ValidatorsLoaded
    <3>2. Source' = Source
      BY <3>1, Zenon DEF Source, Fresh
    <3>3. saved' # Null => Covered(saved')
      BY <2>0, <3>1
    <3> QED BY <1>1, <2>0, <2>4, <3>1, <3>2, <3>3 DEF BackedInv
  <2>5. CASE /\ StateLoaded
             /\ state'.balance = state.balance /\ state'.stake = state.stake
             /\ saved # Null => state'.totalSupply = saved.totalSupply
    <3>1. query = "state" /\ query' = "no" /\ saved' = saved
      BY <2>5 DEF StateLoaded
    <3>2. state'.balance = Source.balance /\ state'.stake = Source.stake
      BY <2>0, <2>5, <3>1
    <3>3. Covered(state')
      <4>1. CASE saved = Null
        <5>1. Held(state'.balance, state'.stake) = 0
          BY <3>2, <4>1, FreshIs DEF Source
        <5>2. state'.totalSupply \in Nat
          BY <1>1, Fields DEF LedgerInv, LedgerTypeOK
        <5> QED BY <5>1, <5>2 DEF Covered
      <4>2. CASE saved # Null
        BY <2>0, <2>5, <3>2, <4>2 DEF Source, Covered
      <4> QED BY <4>1, <4>2
    <3>4. saved' # Null => Covered(saved')
      BY <2>0, <3>1
    <3> QED BY <1>1, <3>1, <3>3, <3>4 DEF BackedInv
  <2> QED BY <1>1, <1>3, <2>1, <2>2, <2>3, <2>4, <2>5, DatabaseKeeps
<1> QED BY <1>2, <1>3 DEF LedgerNext

\* When callers wait until the state is loaded, the accounts never hold more
\* than was minted, nor is more minted than the maximum supply: through
\* rewards, burned and credited fees, stakes, blocks that fail half way,
\* saving, and restarts that load what was saved.
THEOREM EverythingBacked ==
    ASSUME LoadsFirst
    PROVE  LedgerSpec => []Backed
<1>1. LedgerInit => BackedInv
  <2> SUFFICES ASSUME LedgerInit PROVE BackedInv
    OBVIOUS
  <2>1. state = Fresh /\ saved = Null /\ query = "no"
    BY DEF LedgerInit
  <2>2. Covered(Fresh)
    BY FreshIs DEF Covered, Fresh
  <2> QED BY <2>1, <2>2, LedgerInvInit DEF BackedInv
<1>2. BackedInv /\ UNCHANGED ledgerVars => BackedInv'
  <2> SUFFICES ASSUME BackedInv, UNCHANGED ledgerVars PROVE BackedInv'
    OBVIOUS
  <2>1. state' = state /\ saved' = saved /\ query' = query
    BY DEF ledgerVars
  <2>2. LedgerInv'
    BY LedgerInvStutter DEF BackedInv
  <2>3. Source' = Source
    BY <2>1, Zenon DEF Source, Fresh
  <2>4. (saved' # Null => Covered(saved')) /\ (query' = "no" => Covered(state'))
    BY <2>1 DEF BackedInv
  <2> QED BY <2>1, <2>2, <2>3, <2>4 DEF BackedInv
<1>3. BackedInv /\ [LedgerNext]_ledgerVars => BackedInv'
  BY <1>2, BackedNext
<1>4. BackedInv => Backed
  <2> SUFFICES ASSUME BackedInv PROVE Backed
    OBVIOUS
  <2>1. state \in StateRecord /\ Minted(state) /\ (query = "no" => Covered(state))
    BY DEF BackedInv, LedgerInv, LedgerTypeOK
  <2>2. HeldInLedger = Held(state.balance, state.stake)
    <3>1. \A x \in Addr : state.balance[x] + state.stake[x] \in Int
      BY <2>1, Fields DEF Balances
    <3> QED BY <3>1, HeldInLedgerIs
  <2> QED BY <2>1, <2>2, Zenon DEF Backed, Minted, Covered
<1> QED BY <1>1, <1>3, <1>4, PTL DEF LedgerSpec

=============================================================================
