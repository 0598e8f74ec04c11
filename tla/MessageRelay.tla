----------------------------- MODULE MessageRelay -----------------------------
(***************************************************************************)
(* Relaying of messages for peers that cannot reach one another            *)
(* (src/network/message_relay.js), on several nodes.                       *)
(*                                                                         *)
(* Every call is synchronous and one action.  A relay hands a message on   *)
(* by emitting 'relay'; who carries it is outside the code: here the       *)
(* carrier brings it to any set of other nodes, or loses it.  Time is two  *)
(* ages, of a pending message and of a registered peer.                    *)
(***************************************************************************)
EXTENDS Integers, FiniteSets

CONSTANTS
    Endpoint,
    Relay,             \* the nodes with isRelayNode
    Client,            \* the nodes that register with relays
    Msg, Target,       \* message ids, and the node each is for
    NoEntry,
    Ttl,               \* the ttl a sender gives
    MaxRelayed,        \* maxRelayedMessages, per minute
    DeliveredLimit,    \* the size at which the delivered ids are forgotten
    MaxRelayStarts, MaxSubmits, MaxForgets   \* bounds of the model

ASSUME RelayAssumption ==
    /\ IsFiniteSet(Endpoint) /\ Relay \subseteq Endpoint /\ Client \subseteq Endpoint
    /\ Target \in [Msg -> Endpoint]
    /\ {Ttl, MaxRelayed, DeliveredLimit, MaxRelayStarts, MaxSubmits, MaxForgets} \subseteq Nat

\* A relay message: 'encrypted' is what the sender asked for, sealed says
\* whether the data was in fact encrypted.
RelayMessage == [messageId : Msg, ttl : 0..Ttl, encrypted : BOOLEAN, sealed : BOOLEAN]
Pending == [message : RelayMessage, expired : BOOLEAN]

ASSUME NoEntryAssumption == NoEntry \notin Pending

VARIABLES
    relaying,       \* isRunning
    resetters,      \* intervals that set relayedMessageCount to 0
    relayedCount,   \* relayedMessageCount
    registered,     \* registeredPeers
    inactive,       \* those of them not seen for three cleanup intervals
    pending,        \* pendingMessages
    delivered,      \* deliveredMessages
    wire,           \* messages under way, with the node they go to
    received,       \* how often 'message_received' was emitted for a message
    forgets,        \* how often the delivered ids were forgotten
    submits         \* relayMessage calls so far

registryVars == <<registered, inactive>>
relayVars == <<relaying, resetters, relayedCount, registryVars, pending, delivered, wire,
               received, forgets, submits>>

RelayTypeOK ==
    /\ relaying \in [Endpoint -> BOOLEAN]
    /\ resetters \in [Endpoint -> 0..MaxRelayStarts]
    /\ relayedCount \in [Endpoint -> 0..MaxRelayed]
    /\ {registered, inactive} \subseteq [Endpoint -> SUBSET Client]
    /\ \A n \in Endpoint : inactive[n] \subseteq registered[n]
    /\ pending \in [Endpoint -> [Msg -> Pending \cup {NoEntry}]]
    /\ delivered \in [Endpoint -> SUBSET Msg]
    /\ wire \subseteq [to : Endpoint, message : RelayMessage]
    /\ received \in [Endpoint -> [Msg -> Nat]]
    /\ forgets \in [Endpoint -> Nat] /\ submits \in Nat

-----------------------------------------------------------------------------
(* The service and its registry *)

RelayStart(n) ==
    /\ ~relaying[n] /\ resetters[n] < MaxRelayStarts
    /\ relaying' = [relaying EXCEPT ![n] = TRUE]
    /\ resetters' = [resetters EXCEPT ![n] = @ + 1]
    /\ UNCHANGED <<relayedCount, registryVars, pending, delivered, wire, received, forgets, submits>>

\* The interval that resets the counter is kept nowhere and goes on.
RelayStop(n) ==
    /\ relaying[n]
    /\ relaying' = [relaying EXCEPT ![n] = FALSE]
    /\ UNCHANGED <<resetters, relayedCount, registryVars, pending, delivered, wire, received,
                   forgets, submits>>

ResetCounter(n) ==
    /\ resetters[n] > 0
    /\ relayedCount' = [relayedCount EXCEPT ![n] = 0]
    /\ UNCHANGED <<relaying, resetters, registryVars, pending, delivered, wire, received, forgets,
                   submits>>

Registry(n, ps, idle) ==
    /\ registered' = [registered EXCEPT ![n] = ps]
    /\ inactive' = [inactive EXCEPT ![n] = idle]
    /\ UNCHANGED <<relaying, resetters, relayedCount, pending, delivered, wire, received, forgets,
                   submits>>

RegisterPeer(n, p) ==
    /\ relaying[n] /\ n \in Relay
    /\ Registry(n, registered[n] \cup {p}, inactive[n] \ {p})

DeregisterPeer(n, p) ==
    /\ relaying[n] /\ n \in Relay /\ p \in registered[n]
    /\ Registry(n, registered[n] \ {p}, inactive[n] \ {p})

\* updatePeerLastSeen works on a stopped relay too.
UpdatePeerLastSeen(n, p) ==
    /\ p \in inactive[n]
    /\ Registry(n, registered[n], inactive[n] \ {p})

-----------------------------------------------------------------------------
(* Relaying *)

Overloaded(n) == n \in Relay /\ relayedCount[n] >= MaxRelayed

\* The part a relay does for a message it passes on, whoever it came from.
PassOn(n, msg, rest) ==
    /\ relayedCount' = [relayedCount EXCEPT ![n] = @ + 1]
    /\ pending' = [pending EXCEPT ![n][msg.messageId] = [message |-> msg, expired |-> FALSE]]
    /\ \E hops \in SUBSET (Endpoint \ {n}) :
          wire' = rest \cup {[to |-> q, message |-> msg] : q \in hops}

\* relayMessage: a node that is no relay answers that the message was relayed
\* and does nothing.
SubmitMessage(n, m, encrypt) ==
    /\ relaying[n] /\ submits < MaxSubmits
    /\ submits' = submits + 1
    /\ IF Overloaded(n) \/ m \in delivered[n] \/ Ttl = 0 \/ n \notin Relay
       THEN UNCHANGED <<relayedCount, pending, wire>>
       ELSE PassOn(n, [messageId |-> m, ttl |-> Ttl, encrypted |-> encrypt,
                       sealed |-> encrypt /\ Target[m] \in registered[n]], wire)
    /\ UNCHANGED <<relaying, resetters, registryVars, delivered, received, forgets>>

\* Mutant: a message handed on keeps its ttl.
SameTtl(msg) == msg

\* Mutant: the node a message is for does not remember it.
NotRemembered(n, m) == delivered[n]

OneHopLess(msg) == [msg EXCEPT !.ttl = @ - 1]

Remembered(n, m) == delivered[n] \cup {m}

\* Data that was to be encrypted and was not cannot be decrypted.
Readable(msg) == msg.encrypted => msg.sealed

ReceiveForUs(n, msg) ==
    IF Readable(msg)
    THEN /\ delivered' = [delivered EXCEPT ![n] = Remembered(n, msg.messageId)]
         /\ received' = [received EXCEPT ![n][msg.messageId] = @ + 1]
    ELSE UNCHANGED <<delivered, received>>

HandleRelayMessage(e) ==
    LET n == e.to
        msg == e.message
        forUs == Target[msg.messageId] = n
        handled == relaying[n] /\ msg.messageId \notin delivered[n]
    IN  /\ IF handled /\ forUs THEN ReceiveForUs(n, msg) ELSE UNCHANGED <<delivered, received>>
        /\ IF handled /\ ~forUs /\ n \in Relay /\ ~Overloaded(n) /\ msg.ttl > 1
           THEN PassOn(n, OneHopLess(msg), wire \ {e})
           ELSE wire' = wire \ {e} /\ UNCHANGED <<relayedCount, pending>>
        /\ UNCHANGED <<relaying, resetters, registryVars, forgets, submits>>

\* markMessageDelivered, which the carrier calls for a message it has delivered
MarkMessageDelivered(n, m) ==
    /\ relaying[n] /\ n \in Relay /\ pending[n][m] # NoEntry /\ received[Target[m]][m] > 0
    /\ delivered' = [delivered EXCEPT ![n] = Remembered(n, m)]
    /\ pending' = [pending EXCEPT ![n][m] = NoEntry]
    /\ UNCHANGED <<relaying, resetters, relayedCount, registryVars, wire, received, forgets, submits>>

-----------------------------------------------------------------------------
(* Cleaning up *)

Tired(n) == {m \in Msg : pending[n][m] # NoEntry /\ pending[n][m].expired}

HourPasses(n) ==
    /\ \E m \in Msg : pending[n][m] # NoEntry /\ ~pending[n][m].expired
    /\ pending' = [pending EXCEPT ![n] =
          [m \in Msg |-> IF @[m] = NoEntry THEN NoEntry ELSE [@[m] EXCEPT !.expired = TRUE]]]
    /\ inactive' = [inactive EXCEPT ![n] = registered[n]]
    /\ UNCHANGED <<relaying, resetters, relayedCount, registered, delivered, wire, received,
                   forgets, submits>>

\* The ids of delivered messages are forgotten all at once.
Cleanup(n) ==
    LET full == Cardinality(delivered[n]) > DeliveredLimit
    IN  /\ relaying[n] /\ (full => forgets[n] < MaxForgets)
        /\ full \/ Tired(n) # {} \/ inactive[n] # {}
        /\ pending' = [pending EXCEPT ![n] =
              [m \in Msg |-> IF m \in Tired(n) THEN NoEntry ELSE @[m]]]
        /\ delivered' = [delivered EXCEPT ![n] = IF full THEN {} ELSE @]
        /\ forgets' = [forgets EXCEPT ![n] = IF full THEN @ + 1 ELSE @]
        /\ IF n \in Relay
           THEN /\ registered' = [registered EXCEPT ![n] = @ \ inactive[n]]
                /\ inactive' = [inactive EXCEPT ![n] = {}]
           ELSE UNCHANGED registryVars
        /\ UNCHANGED <<relaying, resetters, relayedCount, wire, received, submits>>

-----------------------------------------------------------------------------
RelayInit ==
    /\ relaying = [n \in Endpoint |-> FALSE]
    /\ resetters = [n \in Endpoint |-> 0]
    /\ relayedCount = [n \in Endpoint |-> 0]
    /\ registered = [n \in Endpoint |-> {}]
    /\ inactive = [n \in Endpoint |-> {}]
    /\ pending = [n \in Endpoint |-> [m \in Msg |-> NoEntry]]
    /\ delivered = [n \in Endpoint |-> {}]
    /\ wire = {}
    /\ received = [n \in Endpoint |-> [m \in Msg |-> 0]]
    /\ forgets = [n \in Endpoint |-> 0]
    /\ submits = 0

RelayNext ==
    \/ \E n \in Endpoint :
          \/ RelayStart(n) \/ RelayStop(n) \/ ResetCounter(n)
          \/ \E p \in Client : RegisterPeer(n, p) \/ DeregisterPeer(n, p) \/ UpdatePeerLastSeen(n, p)
          \/ \E m \in Msg, encrypt \in BOOLEAN : SubmitMessage(n, m, encrypt)
          \/ \E m \in Msg : MarkMessageDelivered(n, m)
          \/ HourPasses(n) \/ Cleanup(n)
    \/ \E e \in wire : HandleRelayMessage(e)

RelaySpec == RelayInit /\ [][RelayNext]_relayVars

\* What is under way arrives, and intervals fire again and again.
RelayFairness ==
    /\ WF_relayVars(\E e \in wire : HandleRelayMessage(e))
    /\ \A n \in Endpoint : WF_relayVars(ResetCounter(n)) /\ WF_relayVars(HourPasses(n))
                       /\ WF_relayVars(Cleanup(n))

RelayFairSpec == RelaySpec /\ RelayFairness

-----------------------------------------------------------------------------
(* Properties *)

\* A node is given a message once, however many copies of it come over however
\* many relays, unless a cleanup made it forget what it had been given.
DeliveredOnce == \A n \in Endpoint, m \in Msg : received[n][m] <= 1 + forgets[n]

\* Relaying ends: copies that go round in a cycle of relays die out with their
\* ttl, although each pass stores them anew, and running relays let go of them.
RelaySettles ==
    <>[](wire = {} /\ \A n \in Endpoint : relaying[n] => \A m \in Msg : pending[n][m] = NoEntry)
=============================================================================
