---------------------------- MODULE StateProofs ----------------------------
(***************************************************************************)
(* The keepers of the node's state side by side: the types of the ledger,  *)
(* the accounts, the pool and its copy in Redis hold of all four together. *)
(***************************************************************************)
EXTENDS MCState, LedgerProofs, TransactionPoolProofs

\* A step of one keeper is a step or a stutter of each.
LEMMA KeepersStep ==
    ASSUME [StateNext]_stateVars
    PROVE  /\ [LedgerNext]_ledgerVars /\ [AccountsNext]_accountsVars
           /\ [Next]_vars /\ [RedisNext]_redisVars
BY Zenon DEF StateNext, stateVars

\* Every variable of the ledger, the accounts, the pool and Redis keeps its type
\* when they run side by side.
THEOREM StateTypeCorrect == StateSpec => []StateTypeOK
<1>1. StateInit => LedgerInit /\ AccountsInit /\ Init /\ RedisInit
  BY DEF StateInit
<1>2. [StateNext]_stateVars => /\ [LedgerNext]_ledgerVars /\ [AccountsNext]_accountsVars
                               /\ [Next]_vars /\ [RedisNext]_redisVars
  BY KeepersStep
<1>3. StateSpec => LedgerSpec /\ AccountsSpec /\ Spec /\ RedisSpec
  BY <1>1, <1>2, PTL DEF StateSpec, LedgerSpec, AccountsSpec, Spec, RedisSpec
<1>4. LedgerTypeOK /\ AccountsTypeOK /\ PoolTypeOK /\ RedisTypeOK => StateTypeOK
  BY DEF StateTypeOK
<1> QED
  BY <1>3, <1>4, LedgerTypeCorrect, AccountsTypeCorrect, TypeCorrectness, RedisTypeCorrect, PTL

=============================================================================
