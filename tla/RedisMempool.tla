---------------------------- MODULE RedisMempool ----------------------------
(***************************************************************************)
(* The copy of the pool in Redis (src/storage/redis_client.js): a key for  *)
(* every transaction, which expires, and three kinds of sets of hashes,    *)
(* which do not: of its sender, of its recipient and of all.               *)
(*                                                                         *)
(* A call is a sequence of statements, and other calls come in between.    *)
(* Redis carries out the statements in the order in which they are sent.   *)
(* sadd and srem go without a callback, so that nobody waits for them and  *)
(* nobody learns that one was dropped with the connection.                 *)
(***************************************************************************)
EXTENDS Integers

CONSTANTS
    RedisTx,        \* transactions: each has its hash, sender and recipient
    RedisCaller,    \* bounds the calls under way at a time
    MaxRedisCalls,  \* bounds the calls of a behaviour
    MaxOutages      \* bounds how often the connection is lost

ASSUME RedisAssumption == MaxRedisCalls \in Nat /\ MaxOutages \in Nat

VARIABLES
    keys,           \* what Redis holds of each transaction
    isConnected,
    redisCall,      \* what each caller has under way
    redisCalls, outages,
    spoilt          \* history: transactions of which the keys may disagree

redisVars == <<keys, isConnected, redisCall, redisCalls, outages, spoilt>>

\* mempool:tx:<hash>, mempool:sender:<address>, mempool:recipient:<address>
\* and mempool:transactions
Kind == {"tx", "sender", "recipient", "all"}

NoRedisCall == [op |-> "none", pc |-> "idle", txs |-> {}]

Of(c, op, pc) == redisCall[c].op = op /\ redisCall[c].pc = pc

GoesTo(c, pc) == redisCall' = [redisCall EXCEPT ![c].pc = pc]

Answered(c) == redisCall' = [redisCall EXCEPT ![c] = NoRedisCall]

\* The transactions whose keys addTransaction or removeTransaction is changing
Changing == UNION {redisCall[c].txs : c \in {d \in RedisCaller : redisCall[d].op \in {"add", "remove"}}}

Clearing == \E c \in RedisCaller : redisCall[c].op = "clear"

BeginCall(c, op, pc, txs) ==
    /\ redisCall[c] = NoRedisCall
    /\ isConnected
    /\ redisCalls < MaxRedisCalls
    /\ redisCalls' = redisCalls + 1
    /\ redisCall' = [redisCall EXCEPT ![c] = [op |-> op, pc |-> pc, txs |-> txs]]
    /\ UNCHANGED <<keys, isConnected, outages>>

-----------------------------------------------------------------------------
(* addTransaction and removeTransaction *)

\* An undisturbed addition mends whatever was left of the transaction.
BeginAdd(c, t) ==
    /\ BeginCall(c, "add", "tx", {t})
    /\ spoilt' = IF t \in Changing \/ Clearing THEN spoilt \cup {t} ELSE spoilt \ {t}

BeginRemove(c, t) ==
    /\ BeginCall(c, "remove", "get", {t})
    /\ spoilt' = IF t \in Changing \/ Clearing THEN spoilt \cup {t} ELSE spoilt

\* A transaction whose key has expired is left in its sets.
GetKey(c) ==
    /\ Of(c, "remove", "get") /\ isConnected
    /\ IF redisCall[c].txs \subseteq keys["tx"] THEN GoesTo(c, "tx") ELSE Answered(c)
    /\ UNCHANGED <<keys, isConnected, redisCalls, outages, spoilt>>

After == [tx |-> "sender", sender |-> "recipient", recipient |-> "all", all |-> "publish"]

Changed(c) ==
    LET k == redisCall[c] IN
    keys' = [keys EXCEPT ![k.pc] = IF k.op = "add" THEN @ \cup k.txs ELSE @ \ k.txs]

\* set and del, which are waited for, and the three sadd or srem
ChangeKey(c) ==
    /\ redisCall[c].pc \in Kind /\ isConnected
    /\ Changed(c)
    /\ GoesTo(c, After[redisCall[c].pc])
    /\ UNCHANGED <<isConnected, redisCalls, outages, spoilt>>

\* Without a connection a sadd or srem waits for the next one, ahead of what
\* later calls send, or is dropped.
ChangeSetOffline(c) ==
    /\ redisCall[c].pc \in Kind \ {"tx"} /\ ~isConnected
    /\ Changed(c) \/ UNCHANGED keys
    /\ GoesTo(c, After[redisCall[c].pc])
    /\ spoilt' = spoilt \cup redisCall[c].txs
    /\ UNCHANGED <<isConnected, redisCalls, outages>>

Publish(c) ==
    /\ redisCall[c].pc = "publish" /\ isConnected
    /\ Answered(c)
    /\ UNCHANGED <<keys, isConnected, redisCalls, outages, spoilt>>

-----------------------------------------------------------------------------
(* clearMempool, which nothing keeps apart from additions *)

BeginClear(c) ==
    /\ BeginCall(c, "clear", "members", {})
    /\ spoilt' = spoilt \cup Changing

\* smembers
AskMembers(c) ==
    /\ Of(c, "clear", "members") /\ isConnected
    /\ IF keys["all"] = {} THEN Answered(c)
       ELSE redisCall' = [redisCall EXCEPT ![c].pc = "mget", ![c].txs = keys["all"]]
    /\ UNCHANGED <<keys, isConnected, redisCalls, outages, spoilt>>

AskTransactions(c) ==
    /\ Of(c, "clear", "mget") /\ isConnected
    /\ redisCall' = [redisCall EXCEPT ![c].pc = "exec", ![c].txs = @ \cap keys["tx"]]
    /\ UNCHANGED <<keys, isConnected, redisCalls, outages, spoilt>>

\* Mutant: the sets of the recipients are forgotten.
ClearedKeys(found) ==
    [kind \in Kind |-> IF kind = "all" THEN {}
                       ELSE IF kind = "recipient" THEN keys[kind] ELSE keys[kind] \ found]

Cleared(found) == [kind \in Kind |-> IF kind = "all" THEN {} ELSE keys[kind] \ found]

\* The pipeline takes out what mget has found, and the whole set of all.
ClearAll(c) ==
    /\ Of(c, "clear", "exec") /\ isConnected
    /\ keys' = Cleared(redisCall[c].txs)
    /\ Answered(c)
    /\ UNCHANGED <<isConnected, redisCalls, outages, spoilt>>

-----------------------------------------------------------------------------
(* What goes wrong *)

\* The time to live of a key is an hour; sets have none.
ExpireKey(t) ==
    /\ t \in keys["tx"]
    /\ keys' = [keys EXCEPT !["tx"] = @ \ {t}]
    /\ spoilt' = spoilt \cup {t}
    /\ UNCHANGED <<isConnected, redisCall, redisCalls, outages>>

\* A statement that is waited for fails, or is refused for want of a connection,
\* and the call rejects.  The mget of a clear is not one of them: nobody handles
\* its rejection, which ends the process.
StatementFails(c) ==
    /\ redisCall[c].pc \in {"tx", "get", "publish", "members", "exec"}
    /\ Answered(c)
    /\ spoilt' = IF redisCall[c].pc = "tx" THEN spoilt \cup redisCall[c].txs ELSE spoilt
    /\ UNCHANGED <<keys, isConnected, redisCalls, outages>>

\* The 'end' event
Disconnected ==
    /\ isConnected
    /\ outages < MaxOutages
    /\ isConnected' = FALSE
    /\ outages' = outages + 1
    /\ UNCHANGED <<keys, redisCall, redisCalls, spoilt>>

\* The 'connect' event
Connected ==
    /\ ~isConnected
    /\ isConnected' = TRUE
    /\ UNCHANGED <<keys, redisCall, redisCalls, outages, spoilt>>

\* The process ends, and a new one connects.
NewProcess ==
    /\ outages < MaxOutages
    /\ outages' = outages + 1
    /\ redisCall' = [c \in RedisCaller |-> NoRedisCall]
    /\ isConnected' = FALSE
    /\ spoilt' = spoilt \cup Changing
    /\ UNCHANGED <<keys, redisCalls>>

-----------------------------------------------------------------------------
(* The specification *)

RedisInit ==
    /\ keys = [kind \in Kind |-> {}]
    /\ isConnected = FALSE
    /\ redisCall = [c \in RedisCaller |-> NoRedisCall]
    /\ redisCalls = 0 /\ outages = 0 /\ spoilt = {}

RedisNext ==
    \/ \E c \in RedisCaller :
          \/ \E t \in RedisTx : BeginAdd(c, t) \/ BeginRemove(c, t)
          \/ BeginClear(c)
          \/ GetKey(c) \/ ChangeKey(c) \/ ChangeSetOffline(c) \/ Publish(c)
          \/ AskMembers(c) \/ AskTransactions(c) \/ ClearAll(c)
          \/ StatementFails(c)
    \/ \E t \in RedisTx : ExpireKey(t)
    \/ Disconnected \/ Connected \/ NewProcess

RedisSpec == RedisInit /\ [][RedisNext]_redisVars

-----------------------------------------------------------------------------
(* Properties *)

\* Every variable holds a value of its kind.
RedisTypeOK ==
    /\ keys \in [Kind -> SUBSET RedisTx]
    /\ isConnected \in BOOLEAN
    /\ redisCall \in [RedisCaller ->
          [op : {"none", "add", "remove", "clear"},
           pc : Kind \cup {"idle", "get", "publish", "members", "mget", "exec"},
           txs : SUBSET RedisTx]]
    /\ redisCalls \in 0..MaxRedisCalls /\ outages \in 0..MaxOutages
    /\ spoilt \subseteq RedisTx

\* A transaction has all of its keys or none, whatever happens to others at the
\* same time, unless calls for it overlapped or were cut off or its key expired;
\* and an addition that nothing disturbs mends that.
KeysAgree ==
    \A t \in RedisTx \ (spoilt \cup Changing) :
        \A kind \in Kind : t \in keys[kind] <=> t \in keys["tx"]

=============================================================================
