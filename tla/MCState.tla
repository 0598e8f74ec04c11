------------------------------- MODULE MCState -------------------------------
(***************************************************************************)
(* The keepers of the node's state that call nobody, side by side on small *)
(* instances: the ledger, the accounts of the current state machine, the   *)
(* transaction pool and its copy in Redis, statement by statement.  A      *)
(* behaviour belongs to one of them, "part".                               *)
(***************************************************************************)
EXTENDS Ledger, Accounts, TransactionPool, RedisMempool, TLC

CONSTANTS a1, a2, dev, other, c1, c2

VARIABLE part

----------------------------------------------------------------------------
(* The ledger: transactions that are good, that come too early, and that a *)
(* block only finds out in its second pass.                                *)

Payment(from, to, amount, fee, nonce, validator) ==
    [from |-> from, to |-> to, amount |-> amount, fee |-> fee, nonce |-> nonce,
     validatorAddress |-> validator]

MCTransactions ==
    {Payment(a1, a2, 1, 1, n, v) : n \in 1..2, v \in {Null, a2}}
        \cup {Payment(a2, a1, 2, 0, 1, Null), Payment(a1, Null, 1, 0, 1, Null)}

MCBodies ==
    {<<>>} \cup {<<t>> : t \in MCTransactions}
           \cup {<<t, u>> : t, u \in {x \in MCTransactions : x.validatorAddress = Null}}

MCStakeChanges == {-2, 2}

----------------------------------------------------------------------------
(* The accounts: a developer whose account has a row, and another address  *)
(* whose account has none yet.  The callers are alike.                     *)

MCRows == [a \in Address |-> IF a = dev THEN [balance |-> 2, nonce |-> 0] ELSE NoRow]

CallersAlike == Permutations(Caller)

----------------------------------------------------------------------------
(* The pool: rivals for one nonce under both names of the sender, a        *)
(* successor, and one that pays too little.                                *)

Offer(id, account, named, nonce, fee) ==
    [id |-> id, account |-> account, named |-> named, nonce |-> nonce, fee |-> fee]

MCTx == {Offer(1, a1, "sender", 1, 1), Offer(2, a1, "sender", 1, 2),
         Offer(3, a1, "sender", 2, 1), Offer(4, a1, "from", 2, 3),
         Offer(5, a2, "sender", 1, 0)}

----------------------------------------------------------------------------

stateVars == <<part, ledgerVars, accountsVars, vars, redisVars>>

StateInit ==
    /\ part \in {"ledger", "accounts", "pool", "redis"}
    /\ LedgerInit /\ AccountsInit /\ Init /\ RedisInit

StateNext ==
    /\ UNCHANGED part
    /\ \/ part = "ledger" /\ LedgerNext /\ UNCHANGED <<accountsVars, vars, redisVars>>
       \/ part = "accounts" /\ AccountsNext /\ UNCHANGED <<ledgerVars, vars, redisVars>>
       \/ part = "pool" /\ Next /\ UNCHANGED <<ledgerVars, accountsVars, redisVars>>
       \/ part = "redis" /\ RedisNext /\ UNCHANGED <<ledgerVars, accountsVars, vars>>

StateSpec == StateInit /\ [][StateNext]_stateVars

\* Types: each keeper's variables keep to the values its code gives them.
StateTypeOK == LedgerTypeOK /\ AccountsTypeOK /\ PoolTypeOK /\ RedisTypeOK
=============================================================================
