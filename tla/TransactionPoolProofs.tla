------------------------ MODULE TransactionPoolProofs ------------------------
(***************************************************************************)
(* What holds of the pool for any set of transactions and accounts, and of *)
(* its copy in Redis for any number of calls.                              *)
(***************************************************************************)
EXTENDS TransactionPool, RedisMempool, FiniteSetTheorems, TLAPS

\* PoolTypeOK but for the size, which needs the invariant to be a natural
\* number.
TypeInv ==
    /\ running \in BOOLEAN /\ loading \in BOOLEAN
    /\ added \subseteq Tx /\ loaded \subseteq Tx /\ redis \subseteq Tx
    /\ nonces \in [Account -> Nat]
    /\ save \in [Saver -> SaveRecord]

\* The nonces on record are never behind a transaction added to the pool,
\* whatever was removed, evicted or loaded in between.
NoncesCoverPool == \A t \in added : t.nonce <= nonces[t.account]

\* A transaction is in the pool once.
Apart == added \cap loaded = {}

IInv ==
    TypeInv /\ Apart /\ SizeMatchesPool /\ NoncesCoverPool /\ NoConflictingNonces

\* With saves apart only one is under way, and Redis holds what it has added.
SaveInv ==
    /\ \A s, r \in Saver : s # r => save[s] = NoSave \/ save[r] = NoSave
    /\ \A s \in Saver : save[s].pc = "clear" => save[s].rest = save[s].of
    /\ \A s \in Saver :
        save[s].pc = "add" => save[s].rest \subseteq save[s].of
                                /\ redis = save[s].of \ save[s].rest

-----------------------------------------------------------------------------
LEMMA PoolOffers ==
    ASSUME NEW t \in Tx
    PROVE  /\ t.account \in Account /\ t.nonce \in Nat /\ t.fee \in Nat
           /\ t.named \in {"from", "sender"}
  BY PoolAssumption

LEMMA FinitePool ==
    ASSUME TypeInv
    PROVE  IsFiniteSet(added) /\ IsFiniteSet(loaded) /\ IsFiniteSet(Pool) /\ Pool \subseteq Tx
<1>1. added \subseteq Tx /\ loaded \subseteq Tx /\ Pool \subseteq Tx
  BY DEF TypeInv, Pool
<1>2. QED
  BY <1>1, PoolAssumption, FS_Subset

\* Taking some transactions out of the pool lowers its size by their number.
LEMMA Removal ==
    ASSUME TypeInv, NEW S \in SUBSET Pool
    PROVE  /\ IsFiniteSet(S) /\ Cardinality(S) \in Nat
           /\ Cardinality(Pool \ S) = Cardinality(Pool) - Cardinality(S)
<1>1. IsFiniteSet(Pool)
  BY FinitePool
<1>2. IsFiniteSet(S) /\ Pool \cap S = S
  BY <1>1, FS_Subset
<1>3. Cardinality(Pool \ S) = Cardinality(Pool) - Cardinality(Pool \cap S)
  BY <1>1, FS_Difference
<1>4. QED
  BY <1>2, <1>3, FS_CardinalityType

\* A step that only takes transactions out keeps what nonces promise.
LEMMA Fewer ==
    ASSUME IInv, added' \subseteq added, loaded' \subseteq loaded, UNCHANGED nonces
    PROVE  Apart' /\ NoncesCoverPool' /\ NoConflictingNonces'
  BY DEF IInv, Apart, NoncesCoverPool, NoConflictingNonces

-----------------------------------------------------------------------------
(* Types *)

LEMMA TypeInit == Init => TypeInv
<1> SUFFICES ASSUME Init PROVE TypeInv
  OBVIOUS
<1>1. save \in [Saver -> SaveRecord]
  BY DEF Init, SaveRecord
<1>2. nonces \in [Account -> Nat]
  BY DEF Init
<1> QED
  BY <1>1, <1>2 DEF Init, TypeInv

LEMMA StartedSave ==
    ASSUME TypeInv, NEW s \in Saver, StartSave(s)
    PROVE  save' \in [Saver -> SaveRecord]
<1> DEFINE started == [pc |-> "clear", of |-> Pool, rest |-> Pool]
<1>1. Pool \in SUBSET Tx
  BY DEF TypeInv, Pool
<1>2. started \in SaveRecord
  BY <1>1 DEF SaveRecord
<1> HIDE DEF started
<1>3. save' = [save EXCEPT ![s] = started]
  BY DEF StartSave, started
<1> QED
  BY <1>2, <1>3 DEF TypeInv

LEMMA TypeStep == TypeInv /\ [Next]_vars => TypeInv'
<1> SUFFICES ASSUME TypeInv, [Next]_vars PROVE TypeInv'
  OBVIOUS
<1> USE DEF TypeInv
<1>1. ASSUME NEW t \in Tx, AddTransaction(t) PROVE TypeInv'
  BY <1>1, PoolOffers DEF AddTransaction, UpdateAccountNonce
<1>2. ASSUME NEW t \in Tx, RemoveTransaction(t) PROVE TypeInv'
  BY <1>2 DEF RemoveTransaction
<1>3. ASSUME NEW expired \in SUBSET loaded, Cleanup(expired) PROVE TypeInv'
  BY <1>3 DEF Cleanup
<1>4. ASSUME NEW t \in Tx, NEW n \in 0..1, EvictLowerFee(t.fee, n) PROVE TypeInv'
  BY <1>4 DEF EvictLowerFee
<1>5. CASE TimerSave
  BY <1>5, StartedSave DEF TimerSave, Saver
<1>6. ASSUME NEW t \in Tx, Expire(t) PROVE TypeInv'
  BY <1>6 DEF Expire
<1>7. ASSUME NEW s \in Saver, SaveClears(s) PROVE TypeInv'
  BY <1>7 DEF SaveClears, ClearMempool, SaveRecord, NoSave
<1>8. ASSUME NEW s \in Saver, SaveAdds(s) PROVE TypeInv'
  BY <1>8 DEF SaveAdds, SaveRecord, NoSave
<1>9. ASSUME NEW s \in Saver, SaveEnds(s) \/ SaveFails(s) PROVE TypeInv'
  BY <1>9 DEF SaveEnds, SaveFails, SaveRecord
<1>10. CASE Start
  BY <1>10 DEF Start
<1>11. CASE LoadFromRedis \/ LoadFails
  BY <1>11 DEF LoadFromRedis, LoadFails
<1>12. CASE Stop
  BY <1>12, StartedSave DEF Stop, Saver
<1>13. CASE Crash
  BY <1>13 DEF Crash, SaveRecord
<1>14. CASE UNCHANGED vars
  BY <1>14 DEF vars
<1> QED
  BY <1>1, <1>2, <1>3, <1>4, <1>5, <1>6, <1>7, <1>8, <1>9, <1>10, <1>11, <1>12, <1>13, <1>14
  DEF Next, CallStep, SaveStep, ProcessStep

-----------------------------------------------------------------------------
(* The size and the nonces *)

LEMMA InvInit == Init => IInv
<1> SUFFICES ASSUME Init PROVE IInv
  OBVIOUS
<1>1. Pool = {} /\ Cardinality(Pool) = 0
  BY FS_EmptySet DEF Init, Pool
<1> QED
  BY <1>1, TypeInit
  DEF Init, IInv, Apart, SizeMatchesPool, NoncesCoverPool, NoConflictingNonces

LEMMA InvStep == IInv /\ [Next]_vars => IInv'
<1> SUFFICES ASSUME IInv, [Next]_vars PROVE IInv'
  OBVIOUS
<1>t. TypeInv /\ TypeInv'
  BY TypeStep DEF IInv
<1>f. IsFiniteSet(Pool) /\ Cardinality(Pool) \in Nat /\ sizeBytes = Cardinality(Pool)
  BY <1>t, FinitePool, FS_CardinalityType DEF IInv, SizeMatchesPool
<1>1. ASSUME NEW t \in Tx, AddTransaction(t) PROVE IInv'
  <2>1. Pool' = Pool \cup {t} /\ t \notin Pool /\ loaded' = loaded
    BY <1>1 DEF AddTransaction, Pool
  <2>2. SizeMatchesPool'
    <3>1. Cardinality(Pool \cup {t}) = Cardinality(Pool) + 1
      BY <1>f, <2>1, FS_AddElement
    <3> QED
      BY <1>1, <1>f, <2>1, <3>1 DEF AddTransaction, SizeMatchesPool
  <2>3. Apart'
    BY <1>1, <2>1 DEF AddTransaction, Apart, IInv, Pool
  <2>4. \A u \in added : nonces[u.account] >= u.nonce
    BY <1>t, PoolOffers DEF IInv, NoncesCoverPool, TypeInv
  <2>5. \A a \in Account : nonces'[a] \in Nat /\ nonces'[a] >= nonces[a]
    BY <1>1, <1>t, PoolOffers DEF AddTransaction, UpdateAccountNonce, TypeInv
  <2>6. nonces'[t.account] >= t.nonce
    BY <1>1, <1>t, PoolOffers DEF AddTransaction, UpdateAccountNonce, TypeInv
  <2>7. NoncesCoverPool'
    <3> SUFFICES ASSUME NEW u \in added' PROVE u.nonce <= nonces'[u.account]
      BY DEF NoncesCoverPool
    <3>1. CASE u = t
      BY <3>1, <2>5, <2>6, PoolOffers
    <3>2. CASE u \in added
      <4>1. u \in Tx
        BY <3>2, <1>t DEF TypeInv
      <4>2. u.account \in Account /\ u.nonce \in Nat /\ nonces[u.account] \in Nat
        BY <4>1, <1>t, PoolOffers DEF TypeInv
      <4> QED
        BY <3>2, <4>2, <2>4, <2>5
    <3> QED
      BY <1>1, <3>1, <3>2 DEF AddTransaction
  <2>8. NoConflictingNonces'
    <3>1. \A u \in added : t.named = "sender" /\ u.account = t.account => u.nonce < t.nonce
      <4> SUFFICES ASSUME NEW u \in added, t.named = "sender", u.account = t.account
                   PROVE  u.nonce < t.nonce
        OBVIOUS
      <4>1. u \in Tx
        BY <1>t DEF TypeInv
      <4>2. t.nonce > nonces[t.account]
        BY <1>1 DEF AddTransaction, Validates
      <4> QED
        BY <4>1, <4>2, <2>4, <1>t, PoolOffers DEF TypeInv
    <3>2. added \subseteq Tx /\ added' = added \cup {t}
      BY <1>1, <1>t DEF AddTransaction, TypeInv
    <3>3. \A u \in added : u.nonce \in Nat
      BY <3>2, PoolOffers
    <3>4. t.nonce \in Nat
      BY PoolOffers
    <3> QED
      BY <3>1, <3>2, <3>3, <3>4 DEF IInv, NoConflictingNonces
  <2> QED
    BY <1>t, <2>2, <2>3, <2>7, <2>8 DEF IInv
<1>2. ASSUME NEW t \in Tx, RemoveTransaction(t) PROVE IInv'
  <2>1. Pool' = Pool \ {t} /\ {t} \in SUBSET Pool
    BY <1>2 DEF RemoveTransaction, Pool
  <2>2. Cardinality(Pool \ {t}) = Cardinality(Pool) - Cardinality({t}) /\ Cardinality({t}) = 1
    BY <1>t, <2>1, Removal, FS_Singleton
  <2>3. SizeMatchesPool'
    BY <1>2, <1>f, <2>1, <2>2 DEF RemoveTransaction, SizeMatchesPool
  <2> QED
    BY <1>2, <1>t, <2>3, Fewer DEF RemoveTransaction, IInv
<1>3. ASSUME NEW expired \in SUBSET loaded, Cleanup(expired) PROVE IInv'
  <2>1. Pool' = Pool \ expired /\ expired \in SUBSET Pool
    BY <1>3 DEF Cleanup, Pool, IInv, Apart
  <2>2. SizeMatchesPool'
    BY <1>3, <1>f, <1>t, <2>1, Removal DEF Cleanup, SizeMatchesPool
  <2> QED
    BY <1>3, <1>t, <2>2, Fewer DEF Cleanup, IInv
<1>4. ASSUME NEW t \in Tx, NEW n \in 0..1, EvictLowerFee(t.fee, n) PROVE IInv'
  <2>1. PICK evicted \in SUBSET Pool :
          /\ added' = added \ evicted
          /\ loaded' = loaded \ evicted
          /\ sizeBytes' = sizeBytes - Cardinality(evicted)
    BY <1>4 DEF EvictLowerFee, Freed
  <2>2. Pool' = Pool \ evicted
    BY <2>1 DEF Pool
  <2>3. SizeMatchesPool'
    BY <1>f, <1>t, <2>1, <2>2, Removal DEF SizeMatchesPool
  <2>4. UNCHANGED nonces
    BY <1>4 DEF EvictLowerFee
  <2> QED
    BY <1>t, <2>1, <2>3, <2>4, Fewer DEF IInv
<1>5. CASE Start
  <2>1. Pool' = {} /\ Cardinality(Pool') = 0
    BY <1>5, FS_EmptySet DEF Start, Pool
  <2> QED
    BY <1>5, <1>t, <2>1
    DEF Start, IInv, Apart, SizeMatchesPool, NoncesCoverPool, NoConflictingNonces
<1>6. CASE LoadFromRedis
  <2>1. Pool' = loaded' /\ added' = {}
    BY <1>6 DEF LoadFromRedis, Pool
  <2>2. SizeMatchesPool'
    BY <1>6, <2>1 DEF LoadFromRedis, SizeMatchesPool
  <2> QED
    BY <1>t, <2>1, <2>2 DEF IInv, Apart, NoncesCoverPool, NoConflictingNonces
<1>7. CASE UNCHANGED <<added, loaded, nonces, sizeBytes>>
  <2>1. Pool' = Pool
    BY <1>7 DEF Pool
  <2> QED
    BY <1>7, <1>t, <2>1, Fewer DEF IInv, SizeMatchesPool
<1> QED
  BY <1>1, <1>2, <1>3, <1>4, <1>5, <1>6, <1>7
  DEF Next, CallStep, SaveStep, ProcessStep, TimerSave, Expire, SaveClears, SaveAdds, SaveEnds,
      SaveFails, LoadFails, Stop, Crash, vars

LEMMA InvAlways == Spec => []IInv
  BY InvInit, InvStep, PTL DEF Spec

-----------------------------------------------------------------------------
(* Theorems *)

\* Every variable of the pool keeps its type; the size is never negative,
\* although it is lowered in four places.
THEOREM TypeCorrectness == Spec => []PoolTypeOK
<1>1. IInv => PoolTypeOK
  <2> SUFFICES ASSUME IInv PROVE PoolTypeOK
    OBVIOUS
  <2>1. sizeBytes \in Nat
    BY FinitePool, FS_CardinalityType DEF IInv, SizeMatchesPool
  <2> QED
    BY <2>1 DEF IInv, TypeInv, PoolTypeOK
<1> QED
  BY <1>1, InvAlways, PTL

\* The size kept beside the pool is the number of its transactions.
THEOREM SizeIsExact == Spec => []SizeMatchesPool
<1>1. IInv => SizeMatchesPool
  BY DEF IInv
<1> QED
  BY <1>1, InvAlways, PTL

\* The nonces on record cover every transaction that was added.
THEOREM NoncesAreRecorded == Spec => []NoncesCoverPool
<1>1. IInv => NoncesCoverPool
  BY DEF IInv
<1> QED
  BY <1>1, InvAlways, PTL

\* No two transactions under the name 'sender' share account and nonce.
THEOREM NoConflicts == Spec => []NoConflictingNonces
<1>1. IInv => NoConflictingNonces
  BY DEF IInv
<1> QED
  BY <1>1, InvAlways, PTL

\* With saves apart, a save that ends leaves in Redis what the pool held when
\* it began.
THEOREM SavesAreWhole == ASSUME SavesApart PROVE Spec => SavedWhole
<1>1. Init => SaveInv
  BY DEF Init, SaveInv, Saver, NoSave
<1>2. TypeInv /\ SaveInv /\ [Next]_vars => SaveInv'
  <2> SUFFICES ASSUME TypeInv, SaveInv, [Next]_vars PROVE SaveInv'
    OBVIOUS
  <2> USE DEF TypeInv, SaveInv, Saver, NoSave
  <2>1. CASE TimerSave
    BY <2>1 DEF TimerSave, StartSave, Idle
  <2>2. CASE Stop
    BY <2>2 DEF Stop, StartSave, Idle
  <2>3. ASSUME NEW t \in Tx, Expire(t) PROVE SaveInv'
    BY <2>3 DEF Expire, Idle
  <2>4. ASSUME NEW s \in Saver, SaveClears(s) PROVE SaveInv'
    BY <2>4 DEF SaveClears, ClearMempool, SaveRecord
  <2>5. ASSUME NEW s \in Saver, SaveAdds(s) PROVE SaveInv'
    BY <2>5 DEF SaveAdds, SaveRecord
  <2>6. ASSUME NEW s \in Saver, SaveEnds(s) \/ SaveFails(s) PROVE SaveInv'
    BY <2>6 DEF SaveEnds, SaveFails, SaveRecord
  <2>7. CASE Crash
    BY <2>7 DEF Crash
  <2>8. CASE UNCHANGED <<save, redis>>
    BY <2>8
  <2> QED
    BY <2>1, <2>2, <2>3, <2>4, <2>5, <2>6, <2>7, <2>8
    DEF Next, CallStep, SaveStep, ProcessStep, AddTransaction, RemoveTransaction, Cleanup,
        EvictLowerFee, Start, LoadFromRedis, LoadFails, vars
<1>3. SaveInv => [\A s \in Saver :
          save[s] # NoSave /\ save[s].pc = "add" /\ save[s].rest = {} /\ save'[s] = NoSave
            /\ (running => running') => redis = save[s].of]_vars
  BY DEF SaveInv
<1>4. Init => TypeInv
  BY TypeInit
<1> QED
  BY <1>1, <1>2, <1>3, <1>4, TypeStep, PTL DEF Spec, SavedWhole

-----------------------------------------------------------------------------
(* The copy in Redis.  The argument: as long as nothing has spoilt a        *)
(* transaction, one call at most is changing it, so that how far the call   *)
(* has come says which of its keys are there.                               *)

\* A call under way has the shape its operation gives it.
RedisCallOK(c) ==
    \/ redisCall[c] = NoRedisCall
    \/ /\ redisCall[c].op = "add"
       /\ redisCall[c].pc \in Kind \cup {"publish"}
       /\ \E t \in RedisTx : redisCall[c].txs = {t}
    \/ /\ redisCall[c].op = "remove"
       /\ redisCall[c].pc \in Kind \cup {"get", "publish"}
       /\ \E t \in RedisTx : redisCall[c].txs = {t}
    \/ /\ redisCall[c].op = "clear"
       /\ redisCall[c].pc \in {"members", "mget", "exec"}

Changes(c, t) == redisCall[c].op \in {"add", "remove"} /\ t \in redisCall[c].txs

Agrees(t) == \A kind \in Kind : t \in keys[kind] <=> t \in keys["tx"]

\* What a call has done to t when it has come to pc, in the order of its statements
AddedTo(t, pc) ==
    /\ pc \in {"sender", "recipient", "all", "publish"} => t \in keys["tx"]
    /\ pc \in {"recipient", "all", "publish"} => t \in keys["sender"]
    /\ pc \in {"all", "publish"} => t \in keys["recipient"]
    /\ pc = "publish" => t \in keys["all"]

RemovedFrom(t, pc) ==
    /\ pc \in {"get", "tx"} => Agrees(t)
    /\ pc \in {"sender", "recipient", "all", "publish"} => t \notin keys["tx"]
    /\ pc \in {"recipient", "all", "publish"} => t \notin keys["sender"]
    /\ pc \in {"all", "publish"} => t \notin keys["recipient"]
    /\ pc = "publish" => t \notin keys["all"]

\* One call at most changes t, no clear runs beside it, and it is as far with t
\* as its statements say; a clear holds t if there is anything of it to take
\* out; and with no call for t its keys agree.
Undisturbed(t) ==
    /\ \A c, d \in RedisCaller : Changes(c, t) /\ Changes(d, t) => c = d
    /\ t \in Changing => ~Clearing
    /\ \A c \in RedisCaller : Changes(c, t) =>
          IF redisCall[c].op = "add" THEN AddedTo(t, redisCall[c].pc)
                                     ELSE RemovedFrom(t, redisCall[c].pc)
    /\ \A c \in RedisCaller :
          redisCall[c].pc \in {"mget", "exec"} /\ t \in keys["all"] => t \in redisCall[c].txs
    /\ t \notin Changing => Agrees(t)

RedisInv ==
    /\ RedisTypeOK
    /\ \A c \in RedisCaller : RedisCallOK(c)
    /\ \A t \in RedisTx \ spoilt : Undisturbed(t)

LEMMA ChangingIs ==
    ASSUME NEW t PROVE t \in Changing <=> \E c \in RedisCaller : Changes(c, t)
  BY DEF Changing, Changes

\* What each statement does to the calls under way
LEMMA GoingTo ==
    ASSUME RedisTypeOK, NEW c \in RedisCaller, NEW pc, GoesTo(c, pc)
    PROVE  /\ \A d \in RedisCaller : /\ redisCall'[d].op = redisCall[d].op
                                     /\ redisCall'[d].txs = redisCall[d].txs
                                     /\ d # c => redisCall'[d] = redisCall[d]
           /\ redisCall'[c].pc = pc
           /\ redisCall'[c] = [op |-> redisCall[c].op, pc |-> pc, txs |-> redisCall[c].txs]
           /\ redisCall' = [redisCall EXCEPT ![c] = redisCall'[c]]
           /\ \A t : \A d \in RedisCaller : Changes(d, t)' <=> Changes(d, t)
  BY DEF RedisTypeOK, GoesTo, Changes

LEMMA Answering ==
    ASSUME RedisTypeOK, NEW c \in RedisCaller, Answered(c)
    PROVE  /\ redisCall'[c] = NoRedisCall
           /\ \A d \in RedisCaller \ {c} : redisCall'[d] = redisCall[d]
           /\ redisCall' = [redisCall EXCEPT ![c] = NoRedisCall]
           /\ \A t : ~Changes(c, t)'
           /\ \A t : \A d \in RedisCaller \ {c} : Changes(d, t)' <=> Changes(d, t)
  BY DEF RedisTypeOK, Answered, Changes, NoRedisCall

LEMMA AfterEach ==
    /\ After["tx"] = "sender" /\ After["sender"] = "recipient"
    /\ After["recipient"] = "all" /\ After["all"] = "publish"
  BY DEF After

LEMMA RedisTypeInit == RedisInit => RedisTypeOK
<1> SUFFICES ASSUME RedisInit PROVE RedisTypeOK
  OBVIOUS
<1>1. 0 \in 0..MaxRedisCalls /\ 0 \in 0..MaxOutages
  BY RedisAssumption
<1>2. redisCalls \in 0..MaxRedisCalls /\ outages \in 0..MaxOutages
  BY <1>1 DEF RedisInit
<1>3. QED
  BY <1>2 DEF RedisInit, RedisTypeOK, NoRedisCall

LEMMA RedisTypeStep ==
    ASSUME RedisTypeOK, [RedisNext]_redisVars
    PROVE  RedisTypeOK'
<1> USE RedisAssumption
<1> USE DEF RedisTypeOK
<1>1. CASE UNCHANGED redisVars
  BY <1>1 DEF redisVars
<1>2. ASSUME NEW c \in RedisCaller, NEW t \in RedisTx, BeginAdd(c, t) \/ BeginRemove(c, t)
      PROVE  RedisTypeOK'
  BY <1>2 DEF BeginAdd, BeginRemove, BeginCall, Kind
<1>3. ASSUME NEW c \in RedisCaller, BeginClear(c)
      PROVE  RedisTypeOK'
  BY <1>3 DEF BeginClear, BeginCall, Changing
<1>4. ASSUME NEW c \in RedisCaller, GetKey(c) \/ Publish(c) \/ AskMembers(c) \/ AskTransactions(c)
      PROVE  RedisTypeOK'
  BY <1>4 DEF GetKey, Publish, AskMembers, AskTransactions, GoesTo, Answered, NoRedisCall, Kind
<1>5. ASSUME NEW c \in RedisCaller, ChangeKey(c) \/ ChangeSetOffline(c)
      PROVE  RedisTypeOK'
  <2>1. redisCall[c].pc \in Kind /\ redisCall[c].txs \subseteq RedisTx
    BY <1>5 DEF ChangeKey, ChangeSetOffline
  <2>2. keys' \in [Kind -> SUBSET RedisTx]
    BY <1>5, <2>1 DEF ChangeKey, ChangeSetOffline, Changed
  <2>3. After[redisCall[c].pc] \in Kind \cup {"publish"}
    BY <2>1, AfterEach DEF Kind
  <2>4. QED
    BY <1>5, <2>1, <2>2, <2>3 DEF ChangeKey, ChangeSetOffline, GoesTo
<1>6. ASSUME NEW c \in RedisCaller, ClearAll(c) \/ StatementFails(c)
      PROVE  RedisTypeOK'
  BY <1>6 DEF ClearAll, StatementFails, Cleared, Answered, NoRedisCall
<1>7. ASSUME NEW t \in RedisTx, ExpireKey(t)
      PROVE  RedisTypeOK'
  BY <1>7 DEF ExpireKey, Kind
<1>8. CASE Disconnected \/ Connected
  <2>1. outages' \in 0..MaxOutages
    BY <1>8 DEF Disconnected, Connected
  <2>2. QED
    BY <1>8, <2>1 DEF Disconnected, Connected
<1>9. CASE NewProcess
  <2>1. outages' \in 0..MaxOutages
    BY <1>9 DEF NewProcess
  <2>2. spoilt' \subseteq RedisTx
    BY <1>9 DEF NewProcess, Changing
  <2>3. redisCall' \in [RedisCaller ->
          [op : {"none", "add", "remove", "clear"},
           pc : Kind \cup {"idle", "get", "publish", "members", "mget", "exec"},
           txs : SUBSET RedisTx]]
    BY <1>9 DEF NewProcess, NoRedisCall
  <2>4. QED
    BY <1>9, <2>1, <2>2, <2>3 DEF NewProcess
<1>10. QED
  BY <1>1, <1>2, <1>3, <1>4, <1>5, <1>6, <1>7, <1>8, <1>9 DEF RedisNext

LEMMA CallsStep ==
    ASSUME RedisTypeOK, \A c \in RedisCaller : RedisCallOK(c), [RedisNext]_redisVars,
           NEW d \in RedisCaller
    PROVE  RedisCallOK(d)'
<1>1. CASE redisCall'[d] = redisCall[d]
  BY <1>1 DEF RedisCallOK
<1>2. CASE redisCall'[d] = NoRedisCall
  BY <1>2 DEF RedisCallOK
<1>3. ASSUME NEW t \in RedisTx, BeginAdd(d, t) \/ BeginRemove(d, t)
      PROVE  RedisCallOK(d)'
  BY <1>3 DEF BeginAdd, BeginRemove, BeginCall, RedisCallOK, Kind, RedisTypeOK
<1>4. ASSUME BeginClear(d)
      PROVE  RedisCallOK(d)'
  BY <1>4 DEF BeginClear, BeginCall, RedisCallOK, RedisTypeOK
<1>5. ASSUME AskMembers(d) \/ AskTransactions(d), redisCall'[d] # NoRedisCall
      PROVE  RedisCallOK(d)'
  BY <1>5 DEF AskMembers, AskTransactions, Of, Answered, RedisCallOK, RedisTypeOK
<1>6. ASSUME GetKey(d), redisCall'[d] # NoRedisCall
      PROVE  RedisCallOK(d)'
  <2>1. GoesTo(d, "tx") /\ redisCall[d].op = "remove"
    BY <1>6, Answering DEF GetKey, Of
  <2>2. /\ redisCall'[d].op = "remove" /\ redisCall'[d].pc = "tx"
        /\ redisCall'[d].txs = redisCall[d].txs
    BY <2>1, GoingTo
  <2>3. \E t \in RedisTx : redisCall[d].txs = {t}
    BY <2>1 DEF RedisCallOK, NoRedisCall
  <2>4. QED
    BY <2>2, <2>3 DEF RedisCallOK, Kind
<1>7. ASSUME ChangeKey(d) \/ ChangeSetOffline(d)
      PROVE  RedisCallOK(d)'
  <2>1. redisCall[d].pc \in Kind /\ GoesTo(d, After[redisCall[d].pc])
    BY <1>7 DEF ChangeKey, ChangeSetOffline
  <2>2. After[redisCall[d].pc] \in Kind \cup {"publish"}
    BY <2>1, AfterEach DEF Kind
  <2>3. PICK pc \in Kind \cup {"publish"} : GoesTo(d, pc)
    BY <2>1, <2>2
  <2>4. redisCall[d].op \in {"add", "remove"}
    BY <2>1 DEF RedisCallOK, Kind, NoRedisCall
  <2>5. \E t \in RedisTx : redisCall[d].txs = {t}
    BY <2>4 DEF RedisCallOK, NoRedisCall
  <2>6. /\ redisCall'[d].op = redisCall[d].op /\ redisCall'[d].txs = redisCall[d].txs
        /\ redisCall'[d].pc = pc
    BY <2>3, GoingTo
  <2>7. QED
    BY <2>4, <2>5, <2>6 DEF RedisCallOK
<1>8. ASSUME Publish(d) \/ ClearAll(d) \/ StatementFails(d)
      PROVE  redisCall'[d] = NoRedisCall
  BY <1>8, Answering DEF Publish, ClearAll, StatementFails
<1>9. ASSUME NEW c \in RedisCaller \ {d}, NEW t \in RedisTx,
             \/ BeginAdd(c, t) \/ BeginRemove(c, t) \/ BeginClear(c) \/ GetKey(c)
             \/ AskMembers(c) \/ AskTransactions(c)
      PROVE  redisCall'[d] = redisCall[d]
  BY <1>9 DEF RedisTypeOK, BeginAdd, BeginRemove, BeginClear, BeginCall, GetKey, GoesTo,
              Answered, AskMembers, AskTransactions
<1>10. ASSUME NEW c \in RedisCaller \ {d},
              \/ ChangeKey(c) \/ ChangeSetOffline(c) \/ Publish(c) \/ ClearAll(c)
              \/ StatementFails(c) \/ BeginClear(c) \/ GetKey(c) \/ AskMembers(c)
              \/ AskTransactions(c)
      PROVE  redisCall'[d] = redisCall[d]
  BY <1>10 DEF RedisTypeOK, BeginClear, BeginCall, GetKey, GoesTo, Answered, AskMembers,
               AskTransactions, ChangeKey, ChangeSetOffline, Publish, ClearAll, StatementFails
<1>11. CASE \/ \E t \in RedisTx : ExpireKey(t)
            \/ Disconnected \/ Connected \/ UNCHANGED redisVars
  BY <1>1, <1>11 DEF ExpireKey, Disconnected, Connected, redisVars
<1>12. CASE NewProcess
  BY <1>2, <1>12 DEF NewProcess
<1>13. QED
  BY <1>1, <1>2, <1>3, <1>4, <1>5, <1>6, <1>7, <1>8, <1>9, <1>10, <1>11, <1>12 DEF RedisNext

-----------------------------------------------------------------------------
(* What a step leaves of a transaction that nothing has disturbed *)

\* A step that neither changes the keys of t nor a call for t
LEMMA Elsewhere ==
    ASSUME NEW t, Undisturbed(t),
           \A kind \in Kind : t \in keys'[kind] <=> t \in keys[kind],
           \A d \in RedisCaller : /\ Changes(d, t)' <=> Changes(d, t)
                                  /\ Changes(d, t) => redisCall'[d] = redisCall[d],
           t \in Changing => ~Clearing',
           \A d \in RedisCaller :
              redisCall'[d].pc \in {"mget", "exec"} /\ t \in keys'["all"]
                => t \in redisCall'[d].txs
    PROVE  Undisturbed(t)'
<1>1. Changing' = Changing \/ (t \in Changing' <=> t \in Changing)
  BY DEF Changing, Changes
<1>2. t \in Changing' <=> t \in Changing
  BY <1>1
<1>3. Agrees(t)' <=> Agrees(t)
  BY DEF Agrees, Kind
<1>4. ASSUME NEW c \in RedisCaller, Changes(c, t)'
      PROVE  (IF redisCall[c].op = "add" THEN AddedTo(t, redisCall[c].pc)
                                         ELSE RemovedFrom(t, redisCall[c].pc))'
  <2>1. Changes(c, t) /\ redisCall'[c] = redisCall[c]
    BY <1>4
  <2>2. IF redisCall[c].op = "add" THEN AddedTo(t, redisCall[c].pc)
                                   ELSE RemovedFrom(t, redisCall[c].pc)
    BY <2>1 DEF Undisturbed
  <2>3. AddedTo(t, redisCall[c].pc) => AddedTo(t, redisCall[c].pc)'
    BY <2>1 DEF AddedTo, Kind
  <2>4. RemovedFrom(t, redisCall[c].pc) => RemovedFrom(t, redisCall[c].pc)'
    BY <2>1, <1>3 DEF RemovedFrom, Kind
  <2>5. QED
    BY <2>1, <2>2, <2>3, <2>4
<1>5. \A c, d \in RedisCaller : Changes(c, t)' /\ Changes(d, t)' => c = d
  BY DEF Undisturbed
<1>6. t \in Changing' => ~Clearing'
  BY <1>2
<1>7. t \notin Changing' => Agrees(t)'
  BY <1>2, <1>3 DEF Undisturbed
<1>8. QED
  BY <1>4, <1>5, <1>6, <1>7 DEF Undisturbed

LEMMA NoClearBeside ==
    ASSUME NEW t, Undisturbed(t), \A c \in RedisCaller : RedisCallOK(c), t \in Changing
    PROVE  \A d \in RedisCaller : redisCall[d].pc \notin {"mget", "exec"}
<1>1. ~Clearing
  BY DEF Undisturbed
<1>2. QED
  BY <1>1 DEF Clearing, RedisCallOK, Kind, NoRedisCall

\* A call for t that leaves its keys in agreement ends.
LEMMA Finished ==
    ASSUME NEW t, NEW c \in RedisCaller, RedisTypeOK, \A d \in RedisCaller : RedisCallOK(d),
           Undisturbed(t), Changes(c, t), Answered(c), UNCHANGED keys, Agrees(t)
    PROVE  Undisturbed(t)'
<1>1. \A d \in RedisCaller : ~Changes(d, t)'
  BY Answering DEF Undisturbed
<1>2. t \notin Changing'
  BY <1>1 DEF Changing, Changes
<1>3. t \in Changing
  BY ChangingIs
<1>4. \A d \in RedisCaller : redisCall'[d].pc \notin {"mget", "exec"}
  BY <1>3, NoClearBeside, Answering DEF NoRedisCall
<1>5. Agrees(t)'
  BY DEF Agrees
<1>6. QED
  BY <1>1, <1>2, <1>4, <1>5 DEF Undisturbed

\* The steps of the calls that change one transaction, c's being t
LEMMA OwnStep ==
    ASSUME RedisTypeOK, \A d \in RedisCaller : RedisCallOK(d),
           NEW t \in RedisTx \ spoilt', t \notin spoilt, Undisturbed(t),
           NEW c \in RedisCaller, Changes(c, t),
           GetKey(c) \/ ChangeKey(c) \/ ChangeSetOffline(c) \/ Publish(c) \/ StatementFails(c)
    PROVE  Undisturbed(t)'
<1>1. redisCall[c].txs = {t} /\ redisCall[c].op \in {"add", "remove"}
  BY DEF Changes, RedisCallOK, NoRedisCall
<1>2. IF redisCall[c].op = "add" THEN AddedTo(t, redisCall[c].pc)
                                 ELSE RemovedFrom(t, redisCall[c].pc)
  BY DEF Undisturbed
<1>3. \A d \in RedisCaller : d # c => ~Changes(d, t)
  BY DEF Undisturbed
<1>4. t \in Changing /\ ~Clearing /\ \A d \in RedisCaller : redisCall[d].pc \notin {"mget", "exec"}
  BY ChangingIs, NoClearBeside DEF Undisturbed
\* The call goes on with t.
<1>5. ASSUME NEW pc \in Kind \cup {"publish"}, GoesTo(c, pc),
             IF redisCall[c].op = "add" THEN AddedTo(t, pc)' ELSE RemovedFrom(t, pc)'
      PROVE  Undisturbed(t)'
  <2>1. /\ \A d \in RedisCaller : Changes(d, t)' <=> Changes(d, t)
        /\ \A d \in RedisCaller : redisCall'[d].op = redisCall[d].op
        /\ redisCall'[c].pc = pc
        /\ \A d \in RedisCaller : d # c => redisCall'[d] = redisCall[d]
    BY <1>5, GoingTo
  <2>2. ~Clearing'
    BY <1>4, <2>1 DEF Clearing
  <2>3. t \in Changing'
    BY <2>1, <1>4 DEF Changing, Changes
  <2>4. \A d \in RedisCaller : redisCall'[d].pc \notin {"mget", "exec"}
    BY <1>4, <2>1 DEF Kind
  <2>5. ASSUME NEW d \in RedisCaller, Changes(d, t)'
        PROVE  (IF redisCall[d].op = "add" THEN AddedTo(t, redisCall[d].pc)
                                           ELSE RemovedFrom(t, redisCall[d].pc))'
    <3>1. d = c
      BY <1>3, <2>1, <2>5
    <3>2. QED
      BY <3>1, <2>1, <1>5
  <2>6. \A d, e \in RedisCaller : Changes(d, t)' /\ Changes(e, t)' => d = e
    BY <1>3, <2>1
  <2>7. QED
    BY <2>2, <2>3, <2>4, <2>5, <2>6 DEF Undisturbed
<1>6. CASE GetKey(c)
  <2>1. redisCall[c].op = "remove" /\ redisCall[c].pc = "get" /\ UNCHANGED keys
    BY <1>6 DEF GetKey, Of
  <2>2. Agrees(t)
    BY <1>2, <2>1 DEF RemovedFrom
  <2>3. CASE GoesTo(c, "tx")
    <3>1. RemovedFrom(t, "tx")'
      BY <2>1, <2>2 DEF RemovedFrom, Agrees
    <3>2. QED
      BY <1>5, <2>1, <2>3, <3>1 DEF Kind
  <2>4. QED
    BY <1>6, <2>1, <2>2, <2>3, Finished DEF GetKey
<1>7. CASE ChangeKey(c)
  <2>1. redisCall[c].pc \in Kind /\ GoesTo(c, After[redisCall[c].pc])
    BY <1>7 DEF ChangeKey
  <2>2. PICK pc \in Kind \cup {"publish"} :
          /\ GoesTo(c, pc)
          /\ \/ redisCall[c].pc = "tx" /\ pc = "sender"
             \/ redisCall[c].pc = "sender" /\ pc = "recipient"
             \/ redisCall[c].pc = "recipient" /\ pc = "all"
             \/ redisCall[c].pc = "all" /\ pc = "publish"
    <3>1. After[redisCall[c].pc] \in Kind \cup {"publish"}
      BY <2>1, AfterEach DEF Kind
    <3>2. \/ redisCall[c].pc = "tx" /\ After[redisCall[c].pc] = "sender"
          \/ redisCall[c].pc = "sender" /\ After[redisCall[c].pc] = "recipient"
          \/ redisCall[c].pc = "recipient" /\ After[redisCall[c].pc] = "all"
          \/ redisCall[c].pc = "all" /\ After[redisCall[c].pc] = "publish"
      BY <2>1, AfterEach DEF Kind
    <3>3. QED
      BY <2>1, <3>1, <3>2
  <2>3. \A kind \in Kind :
          t \in keys'[kind] <=> IF kind = redisCall[c].pc THEN redisCall[c].op = "add"
                                                          ELSE t \in keys[kind]
    BY <1>1, <1>7 DEF ChangeKey, Changed, RedisTypeOK
  <2>4. ASSUME redisCall[c].op = "add"
        PROVE  AddedTo(t, pc)'
    <3>1. AddedTo(t, redisCall[c].pc)
      BY <1>2, <2>4
    <3>2. QED
      BY <2>2, <2>3, <2>4, <3>1 DEF AddedTo, Kind
  <2>5. ASSUME redisCall[c].op = "remove"
        PROVE  RemovedFrom(t, pc)'
    <3>1. RemovedFrom(t, redisCall[c].pc)
      BY <1>2, <2>5
    <3>2. QED
      BY <2>2, <2>3, <2>5, <3>1 DEF RemovedFrom, Agrees, Kind
  <2>6. QED
    BY <1>1, <1>5, <2>2, <2>4, <2>5
<1>8. CASE ChangeSetOffline(c)
  BY <1>1, <1>8 DEF ChangeSetOffline
<1>9. CASE Publish(c)
  <2>1. redisCall[c].pc = "publish" /\ Answered(c) /\ UNCHANGED keys
    BY <1>9 DEF Publish
  <2>2. Agrees(t)
    BY <1>2, <2>1 DEF AddedTo, RemovedFrom, Agrees, Kind
  <2>3. QED
    BY <2>1, <2>2, Finished
<1>10. CASE StatementFails(c)
  <2>1. redisCall[c].pc \in {"get", "publish"} /\ Answered(c) /\ UNCHANGED keys
    BY <1>1, <1>4, <1>10 DEF StatementFails, RedisCallOK, Kind, NoRedisCall
  <2>2. redisCall[c].pc = "get" => redisCall[c].op = "remove"
    BY <1>1 DEF RedisCallOK, Kind, NoRedisCall
  <2>3. Agrees(t)
    BY <1>2, <2>1, <2>2 DEF AddedTo, RemovedFrom, Agrees, Kind
  <2>4. QED
    BY <2>1, <2>3, Finished
<1>11. QED
  BY <1>6, <1>7, <1>8, <1>9, <1>10

\* The same steps of a call that changes another transaction, or none
LEMMA OthersStep ==
    ASSUME RedisTypeOK, \A d \in RedisCaller : RedisCallOK(d),
           NEW t \in RedisTx, Undisturbed(t), NEW c \in RedisCaller, ~Changes(c, t),
           GetKey(c) \/ ChangeKey(c) \/ ChangeSetOffline(c) \/ Publish(c) \/ StatementFails(c)
    PROVE  Undisturbed(t)'
<1>1. \A d \in RedisCaller : d # c => redisCall'[d] = redisCall[d]
  BY DEF GetKey, ChangeKey, ChangeSetOffline, Publish, StatementFails, GoesTo, Answered, RedisTypeOK
<1>2. \/ redisCall'[c] = NoRedisCall
      \/ redisCall'[c].op = redisCall[c].op /\ redisCall'[c].txs = redisCall[c].txs
            /\ redisCall'[c].pc \in Kind \cup {"publish"}
  <2>1. CASE Answered(c)
    BY <2>1, Answering
  <2>2. CASE GetKey(c) /\ GoesTo(c, "tx")
    BY <2>2, GoingTo DEF Kind
  <2>3. CASE ChangeKey(c) \/ ChangeSetOffline(c)
    <3>1. redisCall[c].pc \in Kind /\ GoesTo(c, After[redisCall[c].pc])
      BY <2>3 DEF ChangeKey, ChangeSetOffline
    <3>2. After[redisCall[c].pc] \in Kind \cup {"publish"}
      BY <3>1, AfterEach DEF Kind
    <3>3. PICK pc \in Kind \cup {"publish"} : GoesTo(c, pc)
      BY <3>1, <3>2
    <3>4. /\ redisCall'[c].op = redisCall[c].op
          /\ redisCall'[c].txs = redisCall[c].txs
          /\ redisCall'[c].pc = pc
      BY <3>3, GoingTo
    <3>5. QED
      BY <3>4
  <2>4. QED
    BY <2>1, <2>2, <2>3 DEF GetKey, Publish, StatementFails
<1>3. ~Changes(c, t)' /\ redisCall'[c].pc \notin {"mget", "exec"}
  BY <1>2 DEF Changes, Kind, NoRedisCall
<1>4. ASSUME NEW kind \in Kind
      PROVE  t \in keys'[kind] <=> t \in keys[kind]
  <2>1. CASE ChangeKey(c) \/ ChangeSetOffline(c)
    <3>1. redisCall[c].pc \in Kind
      BY <2>1 DEF ChangeKey, ChangeSetOffline
    <3>2. redisCall[c].op \in {"add", "remove"}
      BY <3>1 DEF RedisCallOK, Kind, NoRedisCall
    <3>3. t \notin redisCall[c].txs
      BY <3>2 DEF Changes
    <3>4. CASE Changed(c)
      <4> DEFINE now == redisCall[c].pc
                 was == keys[now]
      <4>1. PICK holds : /\ keys' = [keys EXCEPT ![now] = holds]
                         /\ \/ holds = was \cup redisCall[c].txs
                            \/ holds = was \ redisCall[c].txs
        BY <3>4 DEF Changed
      <4>2. t \in holds <=> t \in was
        BY <4>1, <3>3
      <4>3. keys \in [Kind -> SUBSET RedisTx]
        BY DEF RedisTypeOK
      <4>4. QED
        BY <4>1, <4>2, <4>3, <3>1
    <3>5. QED
      BY <2>1, <3>4 DEF ChangeKey, ChangeSetOffline
  <2>2. QED
    BY <2>1 DEF GetKey, Publish, StatementFails
<1>5. \A d \in RedisCaller : /\ Changes(d, t)' <=> Changes(d, t)
                             /\ Changes(d, t) => redisCall'[d] = redisCall[d]
  BY <1>1, <1>3 DEF Changes
<1>6. t \in Changing => ~Clearing'
  BY <1>1, <1>2 DEF Undisturbed, Clearing, NoRedisCall
<1>7. \A d \in RedisCaller :
        redisCall'[d].pc \in {"mget", "exec"} /\ t \in keys'["all"] => t \in redisCall'[d].txs
  BY <1>1, <1>3, <1>4 DEF Undisturbed, Kind
<1>8. QED
  BY <1>4, <1>5, <1>6, <1>7, Elsewhere

LEMMA UndisturbedStep ==
    ASSUME RedisInv, RedisTypeOK', \A c \in RedisCaller : RedisCallOK(c)', [RedisNext]_redisVars,
           NEW t \in RedisTx \ spoilt'
    PROVE  Undisturbed(t)'
<1> USE DEF RedisInv
<1>1. CASE UNCHANGED redisVars \/ Disconnected \/ Connected
  <2>1. Undisturbed(t) /\ UNCHANGED <<keys, redisCall>>
    BY <1>1 DEF redisVars, Disconnected, Connected
  <2>2. \A d \in RedisCaller : Changes(d, t)' <=> Changes(d, t)
    BY <2>1 DEF Changes
  <2>3. t \in Changing => ~Clearing'
    BY <2>1 DEF Undisturbed, Clearing
  <2>4. \A d \in RedisCaller :
          redisCall'[d].pc \in {"mget", "exec"} /\ t \in keys'["all"] => t \in redisCall'[d].txs
    BY <2>1 DEF Undisturbed
  <2>5. QED
    BY <2>1, <2>2, <2>3, <2>4, Elsewhere
<1>2. ASSUME NEW c \in RedisCaller, NEW u \in RedisTx, BeginAdd(c, u) \/ BeginRemove(c, u)
      PROVE  Undisturbed(t)'
  <2>1. /\ redisCall[c] = NoRedisCall /\ UNCHANGED keys
        /\ redisCall' = [redisCall EXCEPT ![c] = redisCall'[c]]
        /\ redisCall'[c].txs = {u} /\ redisCall'[c].op \in {"add", "remove"}
        /\ redisCall'[c].op = "add" => redisCall'[c].pc = "tx"
        /\ redisCall'[c].op = "remove" => redisCall'[c].pc = "get" /\ ~BeginAdd(c, u)
        /\ redisCall'[c].pc \in Kind \cup {"get"}
    BY <1>2 DEF BeginAdd, BeginRemove, BeginCall, RedisTypeOK, Kind
  <2>2. /\ \A d \in RedisCaller : d # c => redisCall'[d] = redisCall[d]
        /\ \A x : ~Changes(c, x)
    BY <2>1 DEF RedisTypeOK, Changes, NoRedisCall
  <2>3. CASE u # t
    <3>1. Undisturbed(t)
      BY <1>2, <2>3 DEF BeginAdd, BeginRemove
    <3>2. \A d \in RedisCaller : /\ Changes(d, t)' <=> Changes(d, t)
                                 /\ Changes(d, t) => redisCall'[d] = redisCall[d]
      BY <2>1, <2>2, <2>3 DEF Changes
    <3>3. t \in Changing => ~Clearing'
      BY <3>1, <2>1, <2>2 DEF Undisturbed, Clearing
    <3>4. \A d \in RedisCaller :
            redisCall'[d].pc \in {"mget", "exec"} /\ t \in keys'["all"] => t \in redisCall'[d].txs
      BY <3>1, <2>1, <2>2 DEF Undisturbed, Kind
    <3>5. QED
      BY <3>1, <3>2, <3>3, <3>4, <2>1, Elsewhere
  <2>4. CASE u = t
    <3>1. t \notin Changing /\ ~Clearing
      BY <1>2, <2>4 DEF BeginAdd, BeginRemove
    <3>2. \A d \in RedisCaller : Changes(d, t)' => d = c
      BY <3>1, <2>2, ChangingIs DEF Changes
    <3>3. ~Clearing'
      BY <3>1, <2>1, <2>2 DEF Clearing
    <3>4. Changes(c, t)'
      BY <2>1, <2>4 DEF Changes
    <3>5. t \in Changing'
      BY <3>4 DEF Changing, Changes
    <3>6. \A d \in RedisCaller : redisCall'[d].pc \notin {"mget", "exec"}
      BY <3>3 DEF Clearing, RedisCallOK, Kind, NoRedisCall
    <3>7. redisCall'[c].op = "add" => AddedTo(t, redisCall[c].pc)'
      BY <2>1 DEF AddedTo
    <3>8. redisCall'[c].op = "remove" => RemovedFrom(t, redisCall[c].pc)'
      <4>1. ASSUME redisCall'[c].op = "remove"
            PROVE  Agrees(t)'
        <5>1. t \notin spoilt
          BY <4>1, <2>1, <1>2 DEF BeginRemove
        <5>2. Agrees(t)
          BY <5>1, <3>1 DEF Undisturbed
        <5>3. QED
          BY <5>2, <2>1 DEF Agrees
      <4>2. QED
        BY <4>1, <2>1 DEF RemovedFrom
    <3>9. ASSUME NEW d \in RedisCaller, Changes(d, t)'
          PROVE  (IF redisCall[d].op = "add" THEN AddedTo(t, redisCall[d].pc)
                                             ELSE RemovedFrom(t, redisCall[d].pc))'
      <4>1. d = c
        BY <3>2, <3>9
      <4>2. QED
        BY <4>1, <2>1, <3>7, <3>8
    <3>10. QED
      BY <3>2, <3>3, <3>5, <3>6, <3>9 DEF Undisturbed
  <2>5. QED
    BY <2>3, <2>4
<1>3. ASSUME NEW c \in RedisCaller, BeginClear(c)
      PROVE  Undisturbed(t)'
  <2>1. /\ redisCall[c] = NoRedisCall /\ UNCHANGED keys
        /\ redisCall'[c] = [op |-> "clear", pc |-> "members", txs |-> {}]
        /\ \A d \in RedisCaller : d # c => redisCall'[d] = redisCall[d]
        /\ t \notin spoilt /\ t \notin Changing
    BY <1>3 DEF BeginClear, BeginCall, RedisTypeOK
  <2>2. \A d \in RedisCaller : /\ Changes(d, t)' <=> Changes(d, t)
                               /\ Changes(d, t) => redisCall'[d] = redisCall[d]
    BY <2>1 DEF Changes, NoRedisCall
  <2>3. \A d \in RedisCaller :
          redisCall'[d].pc \in {"mget", "exec"} /\ t \in keys'["all"] => t \in redisCall'[d].txs
    BY <2>1 DEF Undisturbed
  <2>4. Undisturbed(t)
    BY <2>1
  <2>5. QED
    BY <2>1, <2>2, <2>3, <2>4, Elsewhere
<1>4. ASSUME NEW c \in RedisCaller, AskMembers(c) \/ AskTransactions(c)
      PROVE  Undisturbed(t)'
  <2>1. /\ redisCall[c].op = "clear" /\ UNCHANGED <<keys, spoilt>>
        /\ redisCall'[c].op \in {"clear", "none"}
        /\ \A d \in RedisCaller : d # c => redisCall'[d] = redisCall[d]
    BY <1>4, Answering DEF AskMembers, AskTransactions, Of, RedisTypeOK, NoRedisCall
  <2>2. Undisturbed(t) /\ t \notin Changing /\ Agrees(t)
    BY <2>1 DEF Undisturbed, Clearing
  <2>3. t \in keys["all"] /\ redisCall'[c] # NoRedisCall => t \in redisCall'[c].txs
    <3>1. CASE AskMembers(c)
      BY <3>1 DEF AskMembers, Answered, RedisTypeOK
    <3>2. CASE AskTransactions(c)
      <4>1. t \in keys["all"] => t \in redisCall[c].txs
        BY <3>2, <2>2 DEF AskTransactions, Of, Undisturbed
      <4>2. t \in keys["all"] => t \in keys["tx"]
        BY <2>2 DEF Agrees, Kind
      <4>3. QED
        BY <4>1, <4>2, <3>2 DEF AskTransactions, RedisTypeOK
    <3>3. QED
      BY <3>1, <3>2, <1>4
  <2>4. \A d \in RedisCaller :
          redisCall'[d].pc \in {"mget", "exec"} /\ t \in keys'["all"] => t \in redisCall'[d].txs
    BY <2>1, <2>2, <2>3 DEF Undisturbed, NoRedisCall
  <2>5. \A d \in RedisCaller : /\ Changes(d, t)' <=> Changes(d, t)
                               /\ Changes(d, t) => redisCall'[d] = redisCall[d]
    BY <2>1 DEF Changes
  <2>6. QED
    BY <2>1, <2>2, <2>4, <2>5, Elsewhere
<1>5. ASSUME NEW c \in RedisCaller, ClearAll(c)
      PROVE  Undisturbed(t)'
  <2>1. /\ redisCall[c].op = "clear" /\ redisCall[c].pc = "exec" /\ UNCHANGED spoilt
        /\ redisCall'[c] = NoRedisCall
        /\ \A d \in RedisCaller : d # c => redisCall'[d] = redisCall[d]
        /\ keys' = Cleared(redisCall[c].txs)
    BY <1>5, Answering DEF ClearAll, Of
  <2>2. /\ Undisturbed(t) /\ t \notin Changing /\ Agrees(t)
        /\ t \in keys["all"] => t \in redisCall[c].txs
    BY <2>1 DEF Undisturbed, Clearing
  <2>3. \A kind \in Kind : t \notin keys'[kind]
    BY <2>1, <2>2 DEF Cleared, Agrees, Kind
  <2>4. \A d \in RedisCaller : ~Changes(d, t)'
    BY <2>1, <2>2, ChangingIs DEF Changes, NoRedisCall
  <2>5. t \notin Changing'
    BY <2>4 DEF Changing, Changes
  <2>6. Agrees(t)'
    BY <2>3 DEF Agrees, Kind
  <2>7. QED
    BY <2>3, <2>4, <2>5, <2>6 DEF Undisturbed, Kind
<1>6. ASSUME NEW u \in RedisTx, ExpireKey(u)
      PROVE  Undisturbed(t)'
  <2>1. u # t /\ t \notin spoilt /\ UNCHANGED redisCall
    BY <1>6 DEF ExpireKey
  <2>2. \A kind \in Kind : t \in keys'[kind] <=> t \in keys[kind]
    BY <2>1, <1>6 DEF ExpireKey, RedisTypeOK, Kind
  <2>3. Undisturbed(t)
    BY <2>1
  <2>4. \A d \in RedisCaller : Changes(d, t)' <=> Changes(d, t)
    BY <2>1 DEF Changes
  <2>5. t \in Changing => ~Clearing'
    BY <2>1, <2>3 DEF Undisturbed, Clearing
  <2>6. \A d \in RedisCaller :
          redisCall'[d].pc \in {"mget", "exec"} /\ t \in keys'["all"] => t \in redisCall'[d].txs
    BY <2>1, <2>2, <2>3 DEF Undisturbed, Kind
  <2>7. QED
    BY <2>1, <2>2, <2>3, <2>4, <2>5, <2>6, Elsewhere
<1>7. CASE NewProcess
  <2>1. /\ t \notin spoilt /\ t \notin Changing /\ UNCHANGED keys
        /\ \A d \in RedisCaller : redisCall'[d] = NoRedisCall
    BY <1>7 DEF NewProcess
  <2>2. \A d \in RedisCaller : ~Changes(d, t)' /\ redisCall'[d].pc = "idle"
    BY <2>1 DEF Changes, NoRedisCall
  <2>3. t \notin Changing'
    BY <2>2 DEF Changing, Changes
  <2>4. Agrees(t)'
    BY <2>1 DEF Undisturbed, Agrees
  <2>5. QED
    BY <2>2, <2>3, <2>4 DEF Undisturbed
<1>8. ASSUME NEW c \in RedisCaller,
             \/ GetKey(c) \/ ChangeKey(c) \/ ChangeSetOffline(c) \/ Publish(c) \/ StatementFails(c)
      PROVE  Undisturbed(t)'
  <2>1. t \notin spoilt
    BY <1>8 DEF GetKey, ChangeKey, ChangeSetOffline, Publish, StatementFails
  <2>2. QED
    BY <1>8, <2>1, OwnStep, OthersStep
<1>9. QED
  BY <1>1, <1>2, <1>3, <1>4, <1>5, <1>6, <1>7, <1>8 DEF RedisNext

LEMMA RedisInvInit == RedisInit => RedisInv
<1> SUFFICES ASSUME RedisInit PROVE RedisInv
  OBVIOUS
<1>1. \A c \in RedisCaller : redisCall[c] = NoRedisCall
  BY DEF RedisInit
<1>2. \A c \in RedisCaller : RedisCallOK(c) /\ \A t : ~Changes(c, t)
  BY <1>1 DEF RedisCallOK, Changes, NoRedisCall
<1>3. Changing = {}
  BY <1>1 DEF Changing, NoRedisCall
<1>4. ASSUME NEW t PROVE Undisturbed(t)
  <2>1. Agrees(t)
    BY DEF RedisInit, Agrees, Kind
  <2>2. QED
    BY <1>1, <1>2, <1>3, <2>1 DEF Undisturbed, NoRedisCall
<1>5. QED
  BY <1>2, <1>4, RedisTypeInit DEF RedisInv

LEMMA RedisInvStep == RedisInv /\ [RedisNext]_redisVars => RedisInv'
<1> SUFFICES ASSUME RedisInv, [RedisNext]_redisVars PROVE RedisInv'
  OBVIOUS
<1>1. RedisTypeOK'
  BY RedisTypeStep DEF RedisInv
<1>2. \A c \in RedisCaller : RedisCallOK(c)'
  BY CallsStep DEF RedisInv
<1>3. \A t \in RedisTx \ spoilt' : Undisturbed(t)'
  BY <1>1, <1>2, UndisturbedStep
<1>4. QED
  BY <1>1, <1>2, <1>3 DEF RedisInv

\* Redis's copy of the pool: every variable holds a value of its kind.
THEOREM RedisTypeCorrect == RedisSpec => []RedisTypeOK
<1>1. RedisInv => RedisTypeOK
  BY DEF RedisInv
<1>2. QED
  BY <1>1, RedisInvInit, RedisInvStep, PTL DEF RedisSpec

\* A transaction has all of its keys in Redis or none, however the statements
\* of any number of calls interleave, unless calls for it overlapped or were
\* cut off or its key expired.
THEOREM TransactionsWhole == RedisSpec => []KeysAgree
<1>1. RedisInv => KeysAgree
  <2> SUFFICES ASSUME RedisInv, NEW t \in RedisTx \ (spoilt \cup Changing)
               PROVE  Agrees(t)
    BY DEF KeysAgree, Agrees
  <2>1. QED
    BY DEF RedisInv, Undisturbed
<1>2. QED
  BY <1>1, RedisInvInit, RedisInvStep, PTL DEF RedisSpec

=============================================================================
