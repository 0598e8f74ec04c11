----------------------------- MODULE Integration -----------------------------
(***************************************************************************)
(* The network integration (src/network/network_integration.js with its    *)
(* core and its extensions), on several nodes: what the store, the engine  *)
(* and the validator manager of a node report goes to the other nodes, and *)
(* what comes from them goes to the store, the engine and the manager.     *)
(*                                                                         *)
(* The collaborators are outside the code, and are what the integration    *)
(* takes them to be: the network manager brings a broadcast to every other *)
(* node, in any order; the store answers an addition later, adds what is   *)
(* new and has its predecessors, and emits 'block:added' or                *)
(* 'transaction:added' for it.  The validator sets, requests and           *)
(* discoveries of the extensions go out in fields that no handler of the   *)
(* integration reads: they are sent and change nothing.                    *)
(***************************************************************************)
EXTENDS Integers, FiniteSets

CONSTANTS
    Node,
    Kept,              \* blocks and transactions
    Needs,             \* the block, if any, that the store wants before one of them
    Told,              \* proposals, votes, finalizations and validator updates
    StartsApart,       \* TRUE when start() is called only with no other call under way
    MaxCalls           \* start() calls of a node

Item == Kept \cup Told

ASSUME IntegrationAssumption ==
    /\ IsFiniteSet(Node) /\ Kept \cap Told = {}
    /\ Needs \in [Kept -> SUBSET Kept]
    /\ StartsApart \in BOOLEAN /\ MaxCalls \in Nat

VARIABLES
    made,          \* the core and the extensions exist
    beginning,      \* start() calls that wait for initialize()
    calls,         \* start() calls so far
    integrating,   \* isRunning, of the integration and its core
    handlers,     \* sets of listeners the core has put on the collaborators
    timers,        \* intervals that run the extensions
    syncing,       \* syncInProgress
    air,           \* what is under way between the nodes
    adding,        \* additions the store has not answered, with the node they came from
    has,           \* what the store of a node holds
    announced,     \* how often a node broadcast an item
    told,          \* how often the engine or the manager of a node was given an item
    missed         \* what a node was sent while it did not listen or could not add it

runVars == <<made, beginning, calls, integrating, handlers, timers>>
flowVars == <<air, adding, has, announced, told, missed>>
integrationVars == <<runVars, syncing, flowVars>>

IntegrationTypeOK ==
    /\ {made, integrating, syncing} \subseteq [Node -> BOOLEAN]
    /\ {beginning, calls, timers} \subseteq [Node -> 0..MaxCalls]
    /\ handlers = [n \in Node |-> IF integrating[n] THEN 1 ELSE 0]
    /\ air \subseteq [to : Node, from : Node, item : Item]
    /\ adding \in [Node -> SUBSET (Kept \X Node)]
    /\ has \in [Node -> SUBSET Kept]
    /\ {announced, told} \subseteq [Node -> [Item -> Nat]]
    /\ missed \subseteq Node \X Item

-----------------------------------------------------------------------------
(* Starting and stopping *)

\* Core.start, once for any number of calls, and the interval of every call
Started(n) ==
    /\ handlers' = [handlers EXCEPT ![n] = IF integrating[n] THEN @ ELSE @ + 1]
    /\ integrating' = [integrating EXCEPT ![n] = TRUE]
    /\ timers' = [timers EXCEPT ![n] = @ + 1]

IntegrationStart(n) ==
    /\ ~integrating[n] /\ calls[n] < MaxCalls
    /\ StartsApart => beginning[n] = 0
    /\ calls' = [calls EXCEPT ![n] = @ + 1]
    /\ made' = [made EXCEPT ![n] = TRUE]
    /\ IF made[n]
       THEN Started(n) /\ UNCHANGED beginning
       ELSE /\ beginning' = [beginning EXCEPT ![n] = @ + 1]
            /\ UNCHANGED <<integrating, handlers, timers>>
    /\ UNCHANGED <<syncing, flowVars>>

\* start() goes on after initialize(), whatever has been called meanwhile.
StartGoesOn(n) ==
    /\ beginning[n] > 0
    /\ beginning' = [beginning EXCEPT ![n] = @ - 1]
    /\ Started(n)
    /\ UNCHANGED <<made, calls, syncing, flowVars>>

\* removeAllListeners
NoListeners(n) == 0

\* clearInterval of the one interval that extensionTimer names
OneTimerLess(n) == timers[n] - 1

IntegrationStop(n) ==
    /\ integrating[n]
    /\ integrating' = [integrating EXCEPT ![n] = FALSE]
    /\ handlers' = [handlers EXCEPT ![n] = NoListeners(n)]
    /\ timers' = [timers EXCEPT ![n] = OneTimerLess(n)]
    /\ UNCHANGED <<made, beginning, calls, syncing, flowVars>>

-----------------------------------------------------------------------------
(* Between the nodes *)

Copies(n, i) == [to : Node \ {n}, from : {n}, item : {i}]

\* Every set of listeners broadcasts what a collaborator has reported.
Announce(n, i, rest) ==
    /\ announced' = [announced EXCEPT ![n][i] = @ + handlers[n]]
    /\ air' = IF handlers[n] = 0 THEN rest ELSE rest \cup Copies(n, i)

\* The store reports an item that the node itself has added.
AddOwn(n, i) ==
    /\ i \notin has[n] /\ Needs[i] \subseteq has[n] /\ \A m \in Node : i \notin has[m]
    /\ has' = [has EXCEPT ![n] = @ \cup {i}]
    /\ Announce(n, i, air)
    /\ UNCHANGED <<runVars, syncing, adding, told, missed>>

\* The engine reports a proposal, a vote or a finalization, the validator
\* manager a change, once for each.
Report(n, i) ==
    /\ \A m \in Node : announced[m][i] = 0
    /\ Announce(n, i, air)
    /\ UNCHANGED <<runVars, syncing, adding, has, told, missed>>

\* Mutant: an addition is dropped while another one is under way.
OneAtATime(n, a) == IF adding[n] = {} THEN {a} ELSE adding[n]

WithAddition(n, a) == adding[n] \cup {a}

\* _handleNetworkMessage
Receive(e) ==
    LET n == e.to
        i == e.item
    IN  /\ air' = air \ {e}
        /\ adding' = IF integrating[n] /\ i \in Kept
                     THEN [adding EXCEPT ![n] = WithAddition(n, <<i, e.from>>)] ELSE adding
        /\ told' = IF integrating[n] /\ i \in Told
                   THEN [told EXCEPT ![n][i] = @ + handlers[n]] ELSE told
        /\ missed' = IF integrating[n] THEN missed ELSE missed \cup {<<n, i>>}
        /\ UNCHANGED <<runVars, syncing, has, announced>>

\* Mutant: what comes from a peer is announced whether or not it was new.
AlwaysAnnounce(n, i, rest) == Announce(n, i, rest)

\* The store emits 'block:added' or 'transaction:added' only for what it adds.
AnnounceIfAdded(n, i, rest) ==
    IF i \in has[n] THEN air' = rest /\ UNCHANGED announced ELSE Announce(n, i, rest)

\* The store answers an addition, also when the integration has stopped since.
Answered(n, a) ==
    LET i == a[1] IN
    /\ a \in adding[n]
    /\ adding' = [adding EXCEPT ![n] = @ \ {a}]
    /\ IF Needs[i] \subseteq has[n]
       THEN /\ has' = [has EXCEPT ![n] = @ \cup {i}]
            /\ AnnounceIfAdded(n, i, air)
            /\ UNCHANGED missed
       ELSE /\ missed' = missed \cup {<<n, i>>}
            /\ UNCHANGED <<has, air, announced>>
    /\ UNCHANGED <<runVars, syncing, told>>

-----------------------------------------------------------------------------
(* The extensions *)

Behind(n) == \E m \in Node : Cardinality(has[m]) > Cardinality(has[n])

\* The block synchronisation, of a peer that has joined or of the interval
\* that runs the extensions, whether or not the integration is running.
CheckBlockSync(n) ==
    /\ handlers[n] > 0 \/ timers[n] > 0
    /\ ~syncing[n] /\ Behind(n)
    /\ syncing' = [syncing EXCEPT ![n] = TRUE]
    /\ UNCHANGED <<runVars, flowVars>>

\* The timeout of _startBlockSync, the only end a synchronisation has
SyncTimeout(n) ==
    /\ syncing[n]
    /\ syncing' = [syncing EXCEPT ![n] = FALSE]
    /\ UNCHANGED <<runVars, flowVars>>

-----------------------------------------------------------------------------
IntegrationInit ==
    /\ made = [n \in Node |-> FALSE]
    /\ beginning = [n \in Node |-> 0] /\ calls = [n \in Node |-> 0]
    /\ integrating = [n \in Node |-> FALSE]
    /\ handlers = [n \in Node |-> 0] /\ timers = [n \in Node |-> 0]
    /\ syncing = [n \in Node |-> FALSE]
    /\ air = {} /\ adding = [n \in Node |-> {}] /\ has = [n \in Node |-> {}]
    /\ announced = [n \in Node |-> [i \in Item |-> 0]]
    /\ told = [n \in Node |-> [i \in Item |-> 0]]
    /\ missed = {}

IntegrationNext ==
    \/ \E n \in Node :
          \/ IntegrationStart(n) \/ StartGoesOn(n) \/ IntegrationStop(n)
          \/ \E i \in Kept : AddOwn(n, i)
          \/ \E i \in Told : Report(n, i)
          \/ \E a \in adding[n] : Answered(n, a)
          \/ CheckBlockSync(n) \/ SyncTimeout(n)
    \/ \E e \in air : Receive(e)

IntegrationSpec == IntegrationInit /\ [][IntegrationNext]_integrationVars

\* The network brings what it was given, and the store answers.
IntegrationFairness ==
    /\ WF_integrationVars(\E e \in air : Receive(e))
    /\ WF_integrationVars(\E n \in Node : \E a \in adding[n] : Answered(n, a))

IntegrationFairSpec == IntegrationSpec /\ IntegrationFairness

-----------------------------------------------------------------------------
(* Properties *)

\* A node broadcasts a block or a transaction once, over restarts and however
\* many peers send it: the flood of an item ends.
AnnouncedOnce == \A n \in Node, i \in Item : announced[n][i] <= 1 /\ told[n][i] <= 1

\* In the end, what one node has broadcast every other node has, unless it was
\* not running when a copy came or had not the block before it.
Spreads ==
    <>[](\A n, m \in Node, i \in Kept :
            announced[n][i] > 0 => i \in has[m] \/ <<m, i>> \in missed)

=============================================================================
