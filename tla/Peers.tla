-------------------------------- MODULE Peers --------------------------------
(***************************************************************************)
(* The connection pool of a node (src/network/network.js, peer.js and      *)
(* peer_exchange.js).                                                      *)
(*                                                                         *)
(* Every handler is synchronous and one action, with the handlers it calls *)
(* through events.  Only the lookup of bootstrap peers is waited for: by   *)
(* start() and by discoverPeers().  The sockets are not part of the code:  *)
(* a connection is made at once, messages and disconnections come from     *)
(* outside.  Peers are told apart by their addresses, of which the map     *)
(* never holds one twice.                                                  *)
(*                                                                         *)
(* ban() and handlePeerBanned() call each other until the stack overflows; *)
(* receive() catches that, so a ban leaves what its first turn has done,   *)
(* and what would follow it is not reached.                                *)
(***************************************************************************)
EXTENDS Integers, FiniteSets, FiniteSetsExt

CONSTANTS
    Addr, NoPeer,
    MaxPeers, MinPeers,
    StartReputation, MaxReputation, HandshakeGain, ListGain, AskGain, Penalty,
    StopsApart,     \* TRUE when stop() is called only while no lookup is waited for
    MaxStarts, MaxLookups, MaxHandshakes   \* bounds of the model

ASSUME PoolAssumption ==
    /\ IsFiniteSet(Addr)
    /\ MaxPeers \in Nat /\ MinPeers \in 0..MaxPeers
    /\ StopsApart \in BOOLEAN
    /\ {MaxStarts, MaxLookups, MaxHandshakes} \subseteq Nat
ASSUME ReputationAssumption ==
    /\ MaxReputation \in Nat /\ StartReputation \in 1..MaxReputation
    /\ {HandshakeGain, ListGain, AskGain} \subseteq Nat
    /\ Penalty \in Nat \ {0}

Peer == [state : {"connected", "disconnected", "banned"},
         reputation : 0..MaxReputation, isValidator : BOOLEAN]

ASSUME NoPeerAssumption == NoPeer \notin Peer

VARIABLES
    isRunning,
    starting,     \* start() calls that wait for the bootstrap peers
    lookups,      \* discoverPeers() calls that do
    discoverers,  \* discovery intervals that run
    held,         \* discoveryTimer names the newest of them
    exchanging,   \* PeerExchange.isRunning
    listeners,    \* how often PeerExchange listens for messages
    peers,        \* the map: address to peer
    bannedPeers,  \* addresses whose ban has not expired
    connectedPeers, validatorPeers,
    starts        \* start() calls so far

lookupVars == <<starting, lookups>>
timerVars == <<discoverers, held, exchanging, listeners, starts>>
poolVars == <<peers, bannedPeers, connectedPeers, validatorPeers>>
vars == <<isRunning, lookupVars, timerVars, poolVars>>

Connected == {a \in Addr : peers[a] # NoPeer /\ peers[a].state = "connected"}

NewPeer == [state |-> "connected", reputation |-> StartReputation, isValidator |-> FALSE]

-----------------------------------------------------------------------------
(* Peers that join *)

\* Mutant: addresses are added whether banned or not.
EligibleAnyway(found) == {a \in found : peers[a] = NoPeer}

Eligible(found) == {a \in found : a \notin bannedPeers /\ peers[a] = NoPeer}

\* Mutant: one connection more than the maximum.
OneMore(found) == Min({Cardinality(Eligible(found)), MaxPeers + 1 - connectedPeers})

Room(found) == Min({Cardinality(Eligible(found)), MaxPeers - connectedPeers})

\* addPeer for addresses in any order, as long as the pool is not full
AddPeers(found, ps) ==
    \E new \in kSubset(Room(found), Eligible(found)) :
        /\ peers' = [a \in Addr |-> IF a \in new THEN NewPeer ELSE ps[a]]
        /\ connectedPeers' = connectedPeers + Cardinality(new)

-----------------------------------------------------------------------------
(* Discovery *)

\* Mutant: only connected peers are asked for more.
AsksPeersOnly(left) == FALSE

\* discoverPeers looks up the bootstrap peers when no peer is connected;
\* otherwise it asks some of the connected ones.
LooksUp(left) == connectedPeers < MaxPeers /\ left = {}

DiscoverPeers(left) ==
    IF LooksUp(left) THEN lookups < MaxLookups /\ lookups' = lookups + 1 ELSE UNCHANGED lookups

DiscoveryDue ==
    /\ discoverers > 0
    /\ DiscoverPeers(Connected)
    /\ UNCHANGED <<isRunning, starting, timerVars, poolVars>>

LookupAnswered(found) ==
    /\ lookups > 0
    /\ lookups' = lookups - 1
    /\ AddPeers(found, peers)
    /\ UNCHANGED <<isRunning, starting, timerVars, bannedPeers, validatorPeers>>

-----------------------------------------------------------------------------
(* Peers that leave *)

\* handlePeerDisconnected: the state is no longer 'connected' when it looks,
\* so the counters stay.
Leaves(a, p) ==
    /\ IF isRunning /\ connectedPeers < MinPeers THEN DiscoverPeers(Connected \ {a})
       ELSE UNCHANGED lookups
    /\ peers' = [peers EXCEPT ![a] = p]
    /\ UNCHANGED <<isRunning, starting, timerVars, bannedPeers, connectedPeers, validatorPeers>>

Disconnect(a) ==
    /\ a \in Connected
    /\ Leaves(a, [peers[a] EXCEPT !.state = "disconnected"])

RemovePeer(a) ==
    \/ a \in Connected /\ Leaves(a, NoPeer)
    \/ /\ a \notin Connected /\ peers[a] # NoPeer
       /\ peers' = [peers EXCEPT ![a] = NoPeer]
       /\ UNCHANGED <<isRunning, lookupVars, timerVars, bannedPeers, connectedPeers,
                      validatorPeers>>

\* The first turn of ban() and banPeer(): the state is 'banned' before
\* disconnect() looks at it, so nobody is told of a disconnection.
Banned(a, p) ==
    /\ peers' = [peers EXCEPT ![a] = IF p = NoPeer THEN NoPeer ELSE [p EXCEPT !.state = "banned"]]
    /\ bannedPeers' = bannedPeers \cup {a}
    /\ UNCHANGED connectedPeers

BanPeer(a) ==
    /\ Banned(a, peers[a])
    /\ UNCHANGED <<isRunning, lookupVars, timerVars, validatorPeers>>

BanExpires(a) ==
    /\ a \in bannedPeers
    /\ bannedPeers' = bannedPeers \ {a}
    /\ UNCHANGED <<isRunning, lookupVars, timerVars, peers, connectedPeers, validatorPeers>>

-----------------------------------------------------------------------------
(* Messages of a connected peer *)

\* Mutant: the reputation is not kept below its maximum.
Unclamped(p, change) == [p EXCEPT !.reputation = Max({0, @ + change})]

Reputed(p, change) ==
    [p EXCEPT !.reputation = Max({0, Min({MaxReputation, @ + change})})]

\* updateReputation, which bans at 0
UpdateReputation(a, change) ==
    LET p == Reputed(peers[a], change) IN
    IF p.reputation = 0 THEN Banned(a, p)
    ELSE /\ peers' = [peers EXCEPT ![a] = p]
         /\ UNCHANGED <<bannedPeers, connectedPeers>>

FromPeer(a) == a \in Connected /\ UNCHANGED <<isRunning, lookupVars, timerVars>>

(***************************************************************************)
(* A validator that does not fit in would push out another peer; but the   *)
(* pool never holds more than the maximum, so that branch is left out, as  *)
(* is the id that the peer gives itself.                                   *)
(***************************************************************************)
HandleHandshake(a, isValidator) ==
    /\ FromPeer(a)
    /\ isValidator => validatorPeers < MaxHandshakes
    /\ peers' = [peers EXCEPT ![a] = [Reputed(@, HandshakeGain) EXCEPT !.isValidator = isValidator]]
    /\ validatorPeers' = IF isValidator THEN validatorPeers + 1 ELSE validatorPeers
    /\ UNCHANGED <<bannedPeers, connectedPeers>>

\* A list of addresses: the manager adds what it has room for, and the peer
\* exchange after it finds nothing left to add.
HandlePeers(a, list) ==
    /\ FromPeer(a)
    /\ AddPeers(list, [peers EXCEPT ![a] = Reputed(@, IF list = {} THEN 0 ELSE ListGain)])
    /\ UNCHANGED <<bannedPeers, validatorPeers>>

\* Something else than a list is resented by the manager and by every
\* listener of the peer exchange.
HandleNoList(a) ==
    /\ FromPeer(a)
    /\ UpdateReputation(a, -Penalty * (1 + listeners))
    /\ UNCHANGED validatorPeers

HandleGetPeers(a) ==
    /\ FromPeer(a)
    /\ UpdateReputation(a, AskGain * listeners)
    /\ UNCHANGED validatorPeers

HandleUnknown(a) ==
    /\ FromPeer(a)
    /\ UpdateReputation(a, -Penalty)
    /\ UNCHANGED validatorPeers

-----------------------------------------------------------------------------
(* Starting and stopping *)

Start ==
    /\ ~isRunning /\ starts < MaxStarts
    /\ isRunning' = TRUE
    /\ starts' = starts + 1
    /\ starting' = starting + 1
    /\ listeners' = IF exchanging THEN listeners ELSE listeners + 1
    /\ exchanging' = TRUE
    /\ UNCHANGED <<lookups, discoverers, held, poolVars>>

\* start() goes on, whether it was stopped meanwhile or not.
Bootstrapped(found) ==
    /\ starting > 0
    /\ starting' = starting - 1
    /\ AddPeers(found, peers)
    /\ discoverers' = discoverers + 1
    /\ held' = TRUE
    /\ UNCHANGED <<isRunning, lookups, exchanging, listeners, starts, bannedPeers, validatorPeers>>

\* Mutant: the discovery interval is not cleared.
KeepsDiscovering == 0

Cleared == IF held THEN 1 ELSE 0

Stop ==
    /\ isRunning
    /\ StopsApart => starting = 0 /\ lookups = 0
    /\ isRunning' = FALSE
    /\ discoverers' = discoverers - Cleared
    /\ held' = FALSE
    /\ exchanging' = FALSE
    /\ peers' = [a \in Addr |-> NoPeer]
    /\ connectedPeers' = 0 /\ validatorPeers' = 0
    /\ UNCHANGED <<lookupVars, listeners, starts, bannedPeers>>

-----------------------------------------------------------------------------
(* The specification *)

Init ==
    /\ isRunning = FALSE
    /\ starting = 0 /\ lookups = 0
    /\ discoverers = 0 /\ held = FALSE /\ exchanging = FALSE /\ listeners = 0 /\ starts = 0
    /\ peers = [a \in Addr |-> NoPeer] /\ bannedPeers = {}
    /\ connectedPeers = 0 /\ validatorPeers = 0

Lookup ==
    \E found \in SUBSET Addr : Bootstrapped(found) \/ LookupAnswered(found)

Message(a) ==
    \/ \E b \in BOOLEAN : HandleHandshake(a, b)
    \/ \E list \in SUBSET (Addr \ {a}) : HandlePeers(a, list)
    \/ HandleNoList(a)
    \/ HandleGetPeers(a)
    \/ HandleUnknown(a)

Membership(a) ==
    \/ Disconnect(a)
    \/ RemovePeer(a)
    \/ BanPeer(a)
    \/ BanExpires(a)

Next ==
    \/ Start
    \/ Stop
    \/ DiscoveryDue
    \/ Lookup
    \/ \E a \in Addr : Membership(a) \/ Message(a)

Spec == Init /\ [][Next]_vars

\* The interval fires, lookups are answered, and those that the interval
\* repeats do not miss the reachable addresses for ever.
Fairness ==
    /\ WF_vars(DiscoveryDue)
    /\ SF_vars(LookupAnswered(Addr))
    /\ WF_vars(\E found \in SUBSET Addr : Bootstrapped(found))

FairSpec == Spec /\ Fairness

-----------------------------------------------------------------------------
(* Properties *)

\* Every variable holds a value of its kind.
PeersTypeOK ==
    /\ isRunning \in BOOLEAN /\ held \in BOOLEAN /\ exchanging \in BOOLEAN
    /\ {starting, lookups, discoverers, listeners, starts, connectedPeers, validatorPeers}
           \subseteq Nat
    /\ peers \in [Addr -> Peer \cup {NoPeer}]
    /\ bannedPeers \subseteq Addr

\* The counters are never below what they count, so the pool stays within its
\* limit, although they are not lowered again when peers leave.
PoolWithinLimit ==
    /\ Cardinality(Connected) <= connectedPeers /\ connectedPeers <= MaxPeers
    /\ Cardinality({a \in Connected : peers[a].isValidator}) <= validatorPeers

\* Whoever is banned is not connected until the ban expires: not by a lookup,
\* a list of another peer, or after it was removed from the map.
BannedStaysOut == Connected \cap bannedPeers = {}

\* A manager that was stopped has no connections and no interval, and after
\* any number of starts one that runs has one interval.
StoppedIsQuiet ==
    /\ ~isRunning => Connected = {} /\ discoverers = 0
    /\ discoverers <= 1

Fresh == {a \in Addr : peers[a] = NoPeer /\ a \notin bannedPeers}

\* A manager that runs without a connection gets one, unless it is stopped,
\* its counter is used up, or every address is banned or a peer that left.
FindsPeers ==
    isRunning /\ Connected = {} ~>
        Connected # {} \/ ~isRunning \/ connectedPeers = MaxPeers \/ Fresh = {}

=============================================================================
