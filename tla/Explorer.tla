------------------------------ MODULE Explorer ------------------------------
(***************************************************************************)
(* The explorer (src/explorer/index.js) with its answers about blocks      *)
(* (block_explorer.js), transactions (transaction_explorer.js), accounts   *)
(* (account_explorer.js) and validators (validator_explorer.js): every     *)
(* answer comes from one cache, or is put together while the chain grows.  *)
(*                                                                         *)
(* An answer is a number, how much it knows of the chain: of a block,      *)
(* whether its successor is linked; of a transaction, 1 when it is pending *)
(* and 2 when it is in a block; of the latest blocks, the highest height;  *)
(* of an account or of validators, the height of the state they are of.    *)
(* The chain and the pool are the node's and only grow here.               *)
(***************************************************************************)
EXTENDS Integers, FiniteSets

CONSTANTS
    Tx,
    Subject,           \* accounts, validators and lists of validators asked for
    PageSize,          \* blocks in a list of the latest ones
    QueriesApart,      \* TRUE when no two answers to one question are put together
                       \* at the same time, of lists and of the state machine
    MaxHeight, MaxAsked   \* bounds of the model

ASSUME ExplorerAssumption ==
    {PageSize, MaxHeight, MaxAsked} \subseteq Nat /\ PageSize > 0 /\ QueriesApart \in BOOLEAN

Height == 0..MaxHeight
BlockKey == {"hash", "height"} \X Height
TxKey == {"tx"} \X Tx
LatestKey == <<"latest", 0>>
StateKey == {"state"} \X Subject
Key == BlockKey \cup TxKey \cup StateKey \cup {LatestKey}

VARIABLES
    height,        \* of the store and the state machine
    pooled, mined, \* transactions in the pool and in blocks
    exploring,     \* isRunning
    cached,        \* cache, -1 for no item
    timed,         \* the keys cacheTimers has
    armed,         \* expiry timers that will fire
    asked,         \* queries that wait for the store
    answered,      \* the last answer given for a key, -1 for none
    questions      \* queries so far

chainVars == <<height, pooled, mined>>
cacheVars == <<cached, timed, armed>>
explorerVars == <<chainVars, exploring, cacheVars, asked, answered, questions>>

Query == [key : Key, at : -1..MaxHeight, top : Height, id : 1..MaxAsked]

ExplorerTypeOK ==
    /\ height \in Height /\ pooled \subseteq Tx /\ mined \subseteq Tx
    /\ exploring \in BOOLEAN
    /\ cached \in [Key -> -1..MaxHeight + 2] /\ answered \in [Key -> -1..MaxHeight + 2]
    /\ timed \subseteq Key /\ armed \in [Key -> 0..MaxAsked]
    /\ asked \subseteq Query /\ questions \in 0..MaxAsked

-----------------------------------------------------------------------------
(* The cache *)

\* setCachedItem: one timer for every item
ArmedAnew(k) == (IF k \in timed THEN armed[k] - 1 ELSE armed[k]) + 1

Put(k, v) ==
    /\ cached' = [cached EXCEPT ![k] = v]
    /\ armed' = [armed EXCEPT ![k] = ArmedAnew(k)]
    /\ timed' = timed \cup {k}

Expire(k) ==
    /\ armed[k] > 0
    /\ armed' = [armed EXCEPT ![k] = @ - 1]
    /\ cached' = [cached EXCEPT ![k] = -1]
    /\ timed' = timed \ {k}
    /\ UNCHANGED <<chainVars, exploring, asked, answered, questions>>

StartExplorer ==
    /\ ~exploring /\ exploring' = TRUE
    /\ UNCHANGED <<chainVars, cacheVars, asked, answered, questions>>

\* stop(): clearAllCaches
StopExplorer ==
    /\ exploring /\ exploring' = FALSE
    /\ armed' = [k \in Key |-> IF k \in timed THEN armed[k] - 1 ELSE armed[k]]
    /\ cached' = [k \in Key |-> -1] /\ timed' = {}
    /\ UNCHANGED <<chainVars, asked, answered, questions>>

Answer(k, v) == answered' = [answered EXCEPT ![k] = v]

-----------------------------------------------------------------------------
(* Queries *)

\* Whether the cache has the answer
Asked(k) ==
    /\ questions < MaxAsked /\ questions' = questions + 1
    /\ UNCHANGED <<chainVars, exploring>>

FromCache(k) ==
    /\ cached[k] # -1 /\ Asked(k)
    /\ Answer(k, cached[k])
    /\ UNCHANGED <<cacheVars, asked>>

Waits(k, at) ==
    asked' = asked \cup {[key |-> k, at |-> at, top |-> height, id |-> questions + 1]}

NoOther(k) == QueriesApart => \A q \in asked : q.key # k

\* getBlockByHash and getBlockByHeight wait for the store.
AskBlock(k) ==
    /\ cached[k] = -1 /\ Asked(k)
    /\ Waits(k, k[2])
    /\ UNCHANGED <<cacheVars, answered>>

\* enhanceBlockData looks for the next block last.
NextKnown(h) == IF h + 1 <= height THEN 1 ELSE 0

BlockRead(q) ==
    /\ q.key \in BlockKey
    /\ asked' = asked \ {q}
    /\ IF q.at <= height
       THEN Put(q.key, NextKnown(q.at)) /\ Answer(q.key, NextKnown(q.at))
       ELSE UNCHANGED <<cacheVars, answered>>
    /\ UNCHANGED <<chainVars, exploring, questions>>

\* Mutant: the answer for a pending transaction waits before it is cached.
PendingLater(k) == Waits(k, -1) /\ UNCHANGED <<cacheVars, answered>>

\* A transaction of the pool is answered and cached without waiting for anything.
PendingNow(k) == Put(k, 1) /\ Answer(k, 1) /\ UNCHANGED asked

\* getTransactionByHash: the pool, then the store
AskTransaction(k) ==
    /\ cached[k] = -1 /\ Asked(k)
    /\ IF k[2] \in pooled THEN PendingNow(k)
       ELSE Waits(k, 0) /\ UNCHANGED <<cacheVars, answered>>

TransactionRead(q) ==
    /\ q.key \in TxKey
    /\ asked' = asked \ {q}
    /\ CASE q.at = -1 -> Put(q.key, 1) /\ Answer(q.key, 1)
         [] q.at = 0 /\ q.key[2] \in mined -> Put(q.key, 2) /\ Answer(q.key, 2)
         [] OTHER -> UNCHANGED <<cacheVars, answered>>
    /\ UNCHANGED <<chainVars, exploring, questions>>

\* getLatestBlocks takes the height now and the blocks one after the other.
AskLatest ==
    /\ cached[LatestKey] = -1 /\ Asked(LatestKey) /\ NoOther(LatestKey)
    /\ Waits(LatestKey, height)
    /\ UNCHANGED <<cacheVars, answered>>

Last(q) == q.at = 0 \/ q.at = q.top - PageSize + 1

\* One block of the list, from the cache or from the store
ListRead(q) ==
    LET k == <<"height", q.at>>
    IN  /\ q.key = LatestKey /\ q.at >= 0
        /\ asked' = (asked \ {q}) \cup {[q EXCEPT !.at = IF Last(q) THEN -1 ELSE @ - 1]}
        /\ IF cached[k] = -1 THEN Put(k, NextKnown(q.at)) ELSE UNCHANGED cacheVars
        /\ UNCHANGED <<chainVars, exploring, answered, questions>>

ListDone(q) ==
    /\ q.key = LatestKey /\ q.at = -1
    /\ asked' = asked \ {q}
    /\ Put(LatestKey, q.top) /\ Answer(LatestKey, q.top)
    /\ UNCHANGED <<chainVars, exploring, questions>>

\* getAccountDetails, getValidatorDetails, getAllValidators, getActiveValidators
\* and getCurrentProposer take the state as it is, then wait for the database to
\* count transactions or blocks; an error there still leaves an answer.
AskState(k) ==
    /\ cached[k] = -1 /\ Asked(k) /\ NoOther(k)
    /\ Waits(k, height)
    /\ UNCHANGED <<cacheVars, answered>>

StateAnswered(q) ==
    /\ q.key \in StateKey
    /\ asked' = asked \ {q}
    /\ Put(q.key, q.at) /\ Answer(q.key, q.at)
    /\ UNCHANGED <<chainVars, exploring, questions>>

-----------------------------------------------------------------------------
(* The node *)

Node == UNCHANGED <<exploring, cacheVars, asked, answered, questions>>

Submitted(t) == t \notin pooled \cup mined /\ pooled' = pooled \cup {t} /\ UNCHANGED <<height, mined>> /\ Node

BlockAdded(ts) ==
    /\ height < MaxHeight /\ height' = height + 1
    /\ mined' = mined \cup ts /\ pooled' = pooled \ ts
    /\ Node

ExplorerInit ==
    /\ height = 0 /\ pooled = {} /\ mined = {} /\ exploring = FALSE
    /\ cached = [k \in Key |-> -1] /\ answered = [k \in Key |-> -1]
    /\ timed = {} /\ armed = [k \in Key |-> 0]
    /\ asked = {} /\ questions = 0

ExplorerNext ==
    \/ StartExplorer \/ StopExplorer \/ AskLatest
    \/ \E k \in Key : FromCache(k) \/ Expire(k)
    \/ \E k \in BlockKey : AskBlock(k)
    \/ \E k \in TxKey : AskTransaction(k)
    \/ \E k \in StateKey : AskState(k)
    \/ \E q \in asked : BlockRead(q) \/ TransactionRead(q) \/ ListRead(q) \/ ListDone(q)
                         \/ StateAnswered(q)
    \/ \E t \in Tx : Submitted(t)
    \/ \E ts \in SUBSET pooled : BlockAdded(ts)

ExplorerSpec == ExplorerInit /\ [][ExplorerNext]_explorerVars

-----------------------------------------------------------------------------
(* Properties *)

\* What one answer has shown a later answer to the same question does not take
\* back, from the cache or not, in whatever order the store answers: a mined
\* transaction is not pending again, a linked block not the last one again, the
\* latest blocks and an account not older ones, when no two are put together at once.
AnswersMoveOn == [][\A k \in Key : answered'[k] >= answered[k]]_explorerVars

=============================================================================
