--------------------------- MODULE TransactionPool ---------------------------
(***************************************************************************)
(* The pool of pending transactions (src/mempool/transaction_pool.js), as  *)
(* src/index.js starts and stops it, with the copy it keeps in Redis       *)
(* (src/storage/redis_client.js).                                          *)
(*                                                                         *)
(* Calls on the pool are synchronous.  A save is a sequence of calls to    *)
(* Redis, and other calls come in between; it also writes the nonces under *)
(* a key that loading never asks for, so they are left out.  Every         *)
(* transaction is estimated to have the same size, which is the unit of    *)
(* sizeBytes.                                                              *)
(***************************************************************************)
EXTENDS Integers, FiniteSets

CONSTANTS
    Account,
    Tx,          \* the transactions that callers may offer
    MinFee,
    MaxSize,     \* options.maxSize, which only the eviction looks at
    SavesApart   \* TRUE when no two saves overlap

ASSUME PoolAssumption ==
    /\ IsFiniteSet(Tx)
    /\ Tx \subseteq [id : Nat, account : Account, named : {"from", "sender"},
                     nonce : Nat, fee : Nat]
    /\ \A t, u \in Tx : t.id = u.id => t = u
    /\ MinFee \in Nat /\ MaxSize \in Nat
    /\ SavesApart \in BOOLEAN

VARIABLES
    running,     \* isRunning, of a process that is alive
    loading,     \* start() waits for the transactions of Redis
    added,       \* pooled transactions that addTransaction put there
    loaded,      \* pooled transactions that came from Redis
    nonces,      \* accountNonces
    sizeBytes,
    save,        \* the saves under way: of the timer and of stop()
    redis        \* the transactions in Redis

vars == <<running, loading, added, loaded, nonces, sizeBytes, save, redis>>

Saver == {"timer", "stop"}

NoSave == [pc |-> "idle"]

Pool == added \cup loaded

\* What callers see of a pool: index.js lets nobody call before start() is
\* done, and stops the callers before the pool.
Open == running /\ ~loading

-----------------------------------------------------------------------------
(* Adding and removing *)

\* Mutant: a transaction with the nonce of the last one is valid.
AllowsSameNonce(t) ==
    /\ t.fee >= MinFee
    /\ t.nonce >= (IF t.named = "sender" THEN nonces[t.account] ELSE 0)

\* validateTransaction knows the sender only under the name 'sender'.
Validates(t) ==
    /\ t.fee >= MinFee
    /\ t.nonce > (IF t.named = "sender" THEN nonces[t.account] ELSE 0)

UpdateAccountNonce(t) ==
    IF t.nonce > nonces[t.account] THEN [nonces EXCEPT ![t.account] = t.nonce] ELSE nonces

AddTransaction(t) ==
    /\ Open
    /\ t \notin Pool
    /\ Validates(t) /\ t.nonce >= nonces[t.account]
    /\ added' = added \cup {t}
    /\ nonces' = UpdateAccountNonce(t)
    /\ sizeBytes' = sizeBytes + 1
    /\ UNCHANGED <<running, loading, loaded, save, redis>>

\* removeTransaction, markTransactionIncluded; nonces stay as they are.
RemoveTransaction(t) ==
    /\ Open
    /\ t \in Pool
    /\ added' = added \ {t}
    /\ loaded' = loaded \ {t}
    /\ sizeBytes' = sizeBytes - 1
    /\ UNCHANGED <<running, loading, nonces, save, redis>>

\* cleanup: only what was loaded carries the time that is looked at.
Cleanup(expired) ==
    /\ Open
    /\ loaded' = loaded \ expired
    /\ sizeBytes' = sizeBytes - Cardinality(expired)
    /\ UNCHANGED <<running, loading, added, nonces, save, redis>>

Freed(evicted) == Cardinality(evicted)

(***************************************************************************)
(* evictLowerFeeTransactions for a transaction of the given fee that needs *)
(* room for required others: cheapest first, and only cheaper ones.  The   *)
(* loop counts what it has evicted twice, so it may stop too early.        *)
(***************************************************************************)
EvictLowerFee(fee, required) ==
    LET cheaper == {t \in Pool : t.fee < fee}
        Enough(k) == Cardinality(Pool) - 2 * k < MaxSize /\ k >= required
    IN
    /\ Open
    /\ \E evicted \in SUBSET cheaper :
        /\ \A t \in evicted, u \in Pool \ evicted : t.fee <= u.fee
        /\ Enough(Cardinality(evicted)) \/ evicted = cheaper
        /\ \A k \in 0..(Cardinality(evicted) - 1) : ~Enough(k)
        /\ added' = added \ evicted
        /\ loaded' = loaded \ evicted
        /\ sizeBytes' = sizeBytes - Freed(evicted)
    /\ UNCHANGED <<running, loading, nonces, save, redis>>

-----------------------------------------------------------------------------
(* Saving *)

Idle == \A s \in Saver : save[s] = NoSave

\* persistToRedis up to its first call
StartSave(s) == save' = [save EXCEPT ![s] = [pc |-> "clear", of |-> Pool, rest |-> Pool]]

TimerSave ==
    /\ running
    /\ save["timer"] = NoSave
    /\ SavesApart => Idle
    /\ StartSave("timer")
    /\ UNCHANGED <<running, loading, added, loaded, nonces, sizeBytes, redis>>

\* Mutant: the old transactions are kept.
KeepMempool == redis' = redis

ClearMempool == redis' = {}

SaveClears(s) ==
    /\ save[s].pc = "clear"
    /\ ClearMempool
    /\ save' = [save EXCEPT ![s].pc = "add"]
    /\ UNCHANGED <<running, loading, added, loaded, nonces, sizeBytes>>

SaveAdds(s) ==
    /\ save[s].pc = "add"
    /\ \E t \in save[s].rest :
        /\ redis' = redis \cup {t}
        /\ save' = [save EXCEPT ![s].rest = @ \ {t}]
    /\ UNCHANGED <<running, loading, added, loaded, nonces, sizeBytes>>

SaveEnds(s) ==
    /\ save[s].pc = "add" /\ save[s].rest = {}
    /\ save' = [save EXCEPT ![s] = NoSave]
    /\ UNCHANGED <<running, loading, added, loaded, nonces, sizeBytes, redis>>

\* Any call to Redis may fail; what was done stays done.
SaveFails(s) ==
    /\ save[s] # NoSave
    /\ save' = [save EXCEPT ![s] = NoSave]
    /\ UNCHANGED <<running, loading, added, loaded, nonces, sizeBytes, redis>>

\* The keys of transactions live for an hour, longer than a save.
Expire(t) ==
    /\ t \in redis /\ Idle
    /\ redis' = redis \ {t}
    /\ UNCHANGED <<running, loading, added, loaded, nonces, sizeBytes, save>>

-----------------------------------------------------------------------------
(* Starting and stopping *)

\* A new process, with nothing in its pool, asks for what Redis has.
Start ==
    /\ ~running /\ Idle
    /\ running' = TRUE /\ loading' = TRUE
    /\ added' = {} /\ loaded' = {} /\ sizeBytes' = 0
    /\ nonces' = [a \in Account |-> 0]
    /\ UNCHANGED <<save, redis>>

LoadFromRedis ==
    /\ running /\ loading
    /\ loading' = FALSE
    /\ added' = {}
    /\ loaded' = {t \in redis : Validates(t)}
    /\ sizeBytes' = Cardinality(loaded')
    /\ UNCHANGED <<running, nonces, save, redis>>

\* start() goes on when loading fails.
LoadFails ==
    /\ running /\ loading
    /\ loading' = FALSE
    /\ UNCHANGED <<running, added, loaded, nonces, sizeBytes, save, redis>>

\* stop() saves once more if Redis is connected, beside a save the timer has
\* started.
Stop ==
    /\ Open
    /\ SavesApart => Idle
    /\ running' = FALSE
    /\ StartSave("stop") \/ UNCHANGED save
    /\ UNCHANGED <<loading, added, loaded, nonces, sizeBytes, redis>>

\* The process dies, with its saves.
Crash ==
    /\ running
    /\ running' = FALSE /\ loading' = FALSE
    /\ save' = [s \in Saver |-> NoSave]
    /\ UNCHANGED <<added, loaded, nonces, sizeBytes, redis>>

-----------------------------------------------------------------------------
(* The specification *)

Init ==
    /\ running = FALSE /\ loading = FALSE
    /\ added = {} /\ loaded = {} /\ sizeBytes = 0
    /\ nonces = [a \in Account |-> 0]
    /\ save = [s \in Saver |-> NoSave]
    /\ redis = {}

CallStep ==
    \/ \E t \in Tx : AddTransaction(t) \/ RemoveTransaction(t)
    \/ \E expired \in SUBSET loaded : Cleanup(expired)
    \/ \E t \in Tx, n \in 0..1 : EvictLowerFee(t.fee, n)

SaveStep ==
    \/ TimerSave
    \/ \E t \in Tx : Expire(t)
    \/ \E s \in Saver : SaveClears(s) \/ SaveAdds(s) \/ SaveEnds(s) \/ SaveFails(s)

ProcessStep ==
    \/ Start
    \/ LoadFromRedis
    \/ LoadFails
    \/ Stop
    \/ Crash

Next == CallStep \/ SaveStep \/ ProcessStep

Spec == Init /\ [][Next]_vars

-----------------------------------------------------------------------------
(* Properties *)

SaveRecord == {NoSave} \cup [pc : {"clear", "add"}, of : SUBSET Tx, rest : SUBSET Tx]

\* Every variable holds a value of its kind.
PoolTypeOK ==
    /\ running \in BOOLEAN /\ loading \in BOOLEAN
    /\ added \subseteq Tx /\ loaded \subseteq Tx /\ redis \subseteq Tx
    /\ nonces \in [Account -> Nat]
    /\ sizeBytes \in Nat
    /\ save \in [Saver -> SaveRecord]

\* The size that is kept by hand beside the map is the size of the map.
SizeMatchesPool == sizeBytes = Cardinality(Pool)

\* Two transactions of one account with the same nonce are pooled together
\* only if one of them came from Redis or goes by the name 'from'.
NoConflictingNonces ==
    \A t, u \in added :
        t.named = "sender" /\ u.named = "sender" /\ t.account = u.account /\ t.nonce = u.nonce
            => t = u

\* A save that comes to its end leaves in Redis what the pool held when it
\* began, and nothing of earlier saves.
SavedWhole ==
    [][\A s \in Saver :
        save[s] # NoSave /\ save[s].pc = "add" /\ save[s].rest = {} /\ save'[s] = NoSave
            /\ (running => running') => redis = save[s].of]_vars

=============================================================================
