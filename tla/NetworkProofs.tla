--------------------------- MODULE NetworkProofs ---------------------------
(***************************************************************************)
(* What holds of the network for any nodes, addresses and limits: of the   *)
(* connection pool, of the scores of peers, of the message relay, of the   *)
(* network integration, of web sockets, of the book of addresses and of    *)
(* the search for seeds, one after the other, and then side by side.       *)
(***************************************************************************)
EXTENDS MCNetwork, FiniteSetTheorems, SequenceTheorems, WellFoundedInduction, TLAPS

-----------------------------------------------------------------------------
(* The connection pool *)

PeerMap == [Addr -> Peer \cup {NoPeer}]

Validators == {a \in Connected : peers[a].isValidator}

\* A stopped manager waits for nothing, and one that runs waits for its
\* bootstrap peers or has the interval whose handle it holds.
QuietInv ==
    /\ ~isRunning => /\ Connected = {} /\ ~held
                     /\ starting = 0 /\ lookups = 0 /\ discoverers = 0
    /\ isRunning => starting + discoverers = 1
    /\ discoverers > 0 => held

\* A handle names an interval that runs.
HandleInv == held => discoverers > 0

IInv == PeersTypeOK /\ HandleInv /\ PoolWithinLimit /\ BannedStaysOut

-----------------------------------------------------------------------------
(* Operators *)

LEMMA MinOfTwo ==
    ASSUME NEW x \in Int, NEW y \in Int
    PROVE  Min({x, y}) \in {x, y} /\ Min({x, y}) <= x /\ Min({x, y}) <= y
<1>1. \E m \in {x, y} : \A n \in {x, y} : m <= n
  OBVIOUS
<1>2. Min({x, y}) \in {x, y} /\ \A n \in {x, y} : Min({x, y}) <= n
  BY <1>1, Zenon DEF Min
<1> QED
  BY <1>2

LEMMA MaxOfTwo ==
    ASSUME NEW x \in Int, NEW y \in Int
    PROVE  Max({x, y}) \in {x, y} /\ Max({x, y}) >= x /\ Max({x, y}) >= y
<1>1. \E m \in {x, y} : \A n \in {x, y} : m >= n
  OBVIOUS
<1>2. Max({x, y}) \in {x, y} /\ \A n \in {x, y} : Max({x, y}) >= n
  BY <1>1, Zenon DEF Max
<1> QED
  BY <1>2

\* A change of the reputation keeps it in its range and touches nothing else.
LEMMA ReputedPeer ==
    ASSUME NEW p \in Peer, NEW change \in Int
    PROVE  /\ Reputed(p, change) \in Peer
           /\ Reputed(p, change).state = p.state
           /\ Reputed(p, change).isValidator = p.isValidator
<1> DEFINE x == p.reputation + change
           m == Min({MaxReputation, x})
<1>1. x \in Int /\ MaxReputation \in Nat
  BY ReputationAssumption DEF Peer
<1> HIDE DEF x
<1>2. m \in Int /\ m <= MaxReputation
  <2>1. m \in {MaxReputation, x} /\ m <= MaxReputation
    BY <1>1, MinOfTwo
  <2> QED
    BY <1>1, <2>1
<1> HIDE DEF m
<1>3. Max({0, m}) \in 0..MaxReputation
  <2>1. Max({0, m}) \in {0, m} /\ Max({0, m}) >= 0
    BY <1>2, MaxOfTwo
  <2> QED
    BY <1>1, <1>2, <2>1
<1>4. Reputed(p, change) = [p EXCEPT !.reputation = Max({0, m})]
  BY DEF Reputed, m, x
<1> QED
  BY <1>3, <1>4 DEF Peer

LEMMA FiniteConnected ==
    /\ IsFiniteSet(Connected) /\ Cardinality(Connected) \in Nat
    /\ IsFiniteSet(Validators) /\ Cardinality(Validators) \in Nat
<1>1. Connected \subseteq Addr /\ Validators \subseteq Addr
  BY DEF Connected, Validators
<1> QED
  BY <1>1, PoolAssumption, FS_Subset, FS_CardinalityType

LEMMA Limits ==
    PoolWithinLimit <=> /\ Cardinality(Connected) <= connectedPeers
                        /\ connectedPeers <= MaxPeers
                        /\ Cardinality(Validators) <= validatorPeers
  BY DEF PoolWithinLimit, Validators

\* The limits bear peers that leave.
LEMMA Fewer ==
    ASSUME PeersTypeOK, PoolWithinLimit,
           Connected' \subseteq Connected, Validators' \subseteq Validators,
           UNCHANGED connectedPeers, validatorPeers' \in Nat, validatorPeers' >= validatorPeers
    PROVE  PoolWithinLimit'
<1>1. Cardinality(Connected') <= Cardinality(Connected)
  BY FiniteConnected, FS_Subset
<1>2. Cardinality(Validators') <= Cardinality(Validators)
  BY FiniteConnected, FS_Subset
<1>3. Cardinality(Connected') \in Nat /\ Cardinality(Validators') \in Nat
  BY FiniteConnected, FS_Subset, FS_CardinalityType
<1> QED
  BY <1>1, <1>2, <1>3, FiniteConnected, PoolAssumption DEF PoolWithinLimit, Validators, PeersTypeOK

\* Peers that join find room, and none of them is banned.
LEMMA Joining ==
    ASSUME IInv, NEW found \in SUBSET Addr, NEW ps \in PeerMap,
           \A a \in Addr : /\ ps[a] = NoPeer <=> peers[a] = NoPeer
                           /\ ps[a] # NoPeer => ps[a].state = peers[a].state
                                                  /\ ps[a].isValidator = peers[a].isValidator,
           AddPeers(found, ps), UNCHANGED <<bannedPeers, validatorPeers>>
    PROVE  /\ peers' \in PeerMap /\ connectedPeers' \in Nat
           /\ PoolWithinLimit' /\ BannedStaysOut'
<1>1. PICK new \in kSubset(Room(found), Eligible(found)) :
          /\ peers' = [a \in Addr |-> IF a \in new THEN NewPeer ELSE ps[a]]
          /\ connectedPeers' = connectedPeers + Cardinality(new)
  BY DEF AddPeers
<1>2. new \subseteq Eligible(found) /\ Cardinality(new) = Room(found)
  BY <1>1 DEF kSubset
<1>3. new \subseteq Addr /\ new \cap bannedPeers = {} /\ \A a \in new : peers[a] = NoPeer
  BY <1>2 DEF Eligible
<1>4. IsFiniteSet(new) /\ Cardinality(new) \in Nat
  BY <1>3, PoolAssumption, FS_Subset, FS_CardinalityType
<1>5. connectedPeers \in Nat /\ MaxPeers \in Nat /\ connectedPeers <= MaxPeers
  BY PoolAssumption DEF IInv, PeersTypeOK, PoolWithinLimit
<1>6. IsFiniteSet(Eligible(found)) /\ Cardinality(Eligible(found)) \in Nat
  <2>1. Eligible(found) \subseteq Addr
    BY DEF Eligible
  <2> QED
    BY <2>1, PoolAssumption, FS_Subset, FS_CardinalityType
<1>7. Cardinality(new) <= MaxPeers - connectedPeers
  BY <1>2, <1>5, <1>6, MinOfTwo DEF Room
<1>8. NewPeer \in Peer /\ NewPeer.state = "connected" /\ ~NewPeer.isValidator
  BY ReputationAssumption DEF NewPeer, Peer
<1>9. peers' \in PeerMap
  BY <1>1, <1>8 DEF PeerMap
<1>10. Connected' = Connected \cup new
  BY <1>1, <1>3, <1>8, NoPeerAssumption DEF Connected
<1>11. Validators' = Validators
  BY <1>1, <1>3, <1>8, <1>10 DEF Validators, Connected
<1>c. Cardinality({}) = 0
  BY FS_EmptySet
<1>12. Cardinality(Connected') = Cardinality(Connected) + Cardinality(new)
  <2>1. Connected \cap new = {}
    BY <1>3 DEF Connected
  <2>2. Cardinality(Connected \cup new)
            = Cardinality(Connected) + Cardinality(new) - Cardinality(Connected \cap new)
    BY <1>4, FiniteConnected, FS_Union
  <2>e. Cardinality(Connected \cap new) = 0
    BY <1>c, <2>1, Zenon
  <2>3. Cardinality(Connected \cup new) = Cardinality(Connected) + Cardinality(new)
    BY <1>4, <2>2, <2>e, FiniteConnected
  <2> QED
    BY <1>10, <2>3
<1>13. PoolWithinLimit'
  <2>1. Cardinality(Connected') <= connectedPeers' /\ connectedPeers' <= MaxPeers
    BY <1>1, <1>4, <1>5, <1>7, <1>12, FiniteConnected DEF IInv, PoolWithinLimit
  <2>2. Cardinality(Validators') <= validatorPeers'
    BY <1>11, Limits DEF IInv
  <2> QED
    BY <2>1, <2>2 DEF PoolWithinLimit, Validators
<1>14. BannedStaysOut'
  BY <1>3, <1>10 DEF IInv, BannedStaysOut
<1> QED
  BY <1>1, <1>4, <1>5, <1>9, <1>13, <1>14

-----------------------------------------------------------------------------
(* Types, limits and bans *)

LEMMA InvInit == Init => IInv
<1> SUFFICES ASSUME Init PROVE IInv
  OBVIOUS
<1>1. Connected = {} /\ Validators = {}
  BY DEF Init, Connected, Validators
<1>2. Cardinality(Connected) = 0 /\ Cardinality(Validators) = 0
  BY <1>1, FS_EmptySet
<1>3. PoolWithinLimit
  BY <1>2, PoolAssumption DEF Init, PoolWithinLimit, Validators
<1>4. PeersTypeOK
  <2>1. peers \in [Addr -> Peer \cup {NoPeer}]
    BY DEF Init
  <2>2. /\ starting = 0 /\ lookups = 0 /\ discoverers = 0 /\ listeners = 0
        /\ starts = 0 /\ connectedPeers = 0 /\ validatorPeers = 0
    BY DEF Init
  <2>3. {starting, lookups, discoverers, listeners, starts, connectedPeers, validatorPeers}
            \subseteq Nat
    BY <2>2
  <2> QED
    BY <2>1, <2>3 DEF Init, PeersTypeOK
<1> QED
  BY <1>1, <1>3, <1>4 DEF Init, IInv, HandleInv, BannedStaysOut

\* A peer that leaves, and possibly a lookup that it causes.
LEMMA Leaving ==
    ASSUME IInv, NEW a \in Addr, NEW p \in Peer \cup {NoPeer},
           p # NoPeer => p.state # "connected",
           Leaves(a, p)
    PROVE  IInv'
<1>1. peers' = [peers EXCEPT ![a] = p] /\ peers' \in PeerMap
  BY DEF Leaves, IInv, PeersTypeOK, PeerMap
<1>2. Connected' \subseteq Connected /\ Validators' \subseteq Validators
  BY <1>1 DEF Connected, Validators, IInv, PeersTypeOK
<1>3. PoolWithinLimit'
  BY <1>2, Fewer DEF Leaves, IInv, PeersTypeOK
<1>4. lookups' \in Nat
  BY DEF Leaves, DiscoverPeers, IInv, PeersTypeOK
<1>5. BannedStaysOut'
  BY <1>2 DEF Leaves, IInv, BannedStaysOut
<1> QED
  BY <1>1, <1>3, <1>4, <1>5 DEF Leaves, IInv, PeersTypeOK, HandleInv, PeerMap, timerVars

\* A ban takes the peer out of the pool before it names the address.
LEMMA Banning ==
    ASSUME IInv, NEW a \in Addr, NEW p \in Peer \cup {NoPeer},
           Banned(a, p), UNCHANGED <<isRunning, lookupVars, timerVars, validatorPeers>>
    PROVE  IInv'
<1> DEFINE q == IF p = NoPeer THEN NoPeer ELSE [p EXCEPT !.state = "banned"]
<1>1. q \in Peer \cup {NoPeer} /\ (q # NoPeer => q.state # "connected")
  BY DEF Peer
<1>2. peers' = [peers EXCEPT ![a] = q]
  BY DEF Banned
<1> HIDE DEF q
<1>3. peers' \in PeerMap
  BY <1>1, <1>2 DEF IInv, PeersTypeOK, PeerMap
<1>4. Connected' \subseteq Connected \ {a} /\ Validators' \subseteq Validators
  BY <1>1, <1>2 DEF Connected, Validators, IInv, PeersTypeOK
<1>5. PoolWithinLimit'
  BY <1>4, Fewer DEF Banned, IInv, PeersTypeOK
<1>6. BannedStaysOut'
  BY <1>4 DEF Banned, IInv, BannedStaysOut
<1> QED
  BY <1>3, <1>5, <1>6
  DEF Banned, IInv, PeersTypeOK, HandleInv, PeerMap, lookupVars, timerVars

\* A peer whose reputation changes stays or is banned.
LEMMA Judging ==
    ASSUME IInv, NEW a \in Connected, NEW change \in Int,
           UpdateReputation(a, change), UNCHANGED <<isRunning, lookupVars, timerVars, validatorPeers>>
    PROVE  IInv'
<1> DEFINE p == Reputed(peers[a], change)
<1>1. a \in Addr /\ peers[a] \in Peer /\ peers[a].state = "connected"
  BY DEF Connected, IInv, PeersTypeOK
<1>2. p \in Peer /\ p.state = "connected" /\ p.isValidator = peers[a].isValidator
  BY <1>1, ReputedPeer
<1> HIDE DEF p
<1>3. CASE Banned(a, p)
  BY <1>1, <1>2, <1>3, Banning
<1>4. CASE peers' = [peers EXCEPT ![a] = p] /\ UNCHANGED <<bannedPeers, connectedPeers>>
  <2>1. peers' \in PeerMap
    BY <1>2, <1>4 DEF IInv, PeersTypeOK, PeerMap
  <2>2. Connected' = Connected /\ Validators' = Validators
    BY <1>1, <1>2, <1>4, NoPeerAssumption DEF Connected, Validators, IInv, PeersTypeOK
  <2>3. PoolWithinLimit'
    BY <1>4, <2>2, Fewer DEF IInv, PeersTypeOK
  <2> QED
    BY <1>4, <2>1, <2>2, <2>3
    DEF IInv, PeersTypeOK, HandleInv, PeerMap, BannedStaysOut, lookupVars, timerVars
<1> QED
  BY <1>3, <1>4 DEF UpdateReputation, p

LEMMA InvStep == IInv /\ [Next]_vars => IInv'
<1> SUFFICES ASSUME IInv, [Next]_vars PROVE IInv'
  OBVIOUS
<1>t. PeersTypeOK /\ peers \in PeerMap
  BY DEF IInv, PeersTypeOK, PeerMap
<1>1. CASE UNCHANGED <<peers, bannedPeers, connectedPeers, validatorPeers>>
             /\ PeersTypeOK' /\ HandleInv'
  <2>1. Connected' = Connected /\ Validators' = Validators
    BY <1>1 DEF Connected, Validators
  <2> QED
    BY <1>1, <2>1 DEF IInv, PoolWithinLimit, BannedStaysOut, Validators
<1>2. CASE Start
  BY <1>1, <1>2, <1>t DEF Start, IInv, PeersTypeOK, HandleInv, poolVars
<1>3. CASE Stop
  <2>1. discoverers' \in Nat
    BY <1>3, <1>t DEF Stop, Cleared, IInv, HandleInv, PeersTypeOK
  <2>2. peers' \in PeerMap /\ Connected' = {} /\ Validators' = {}
    BY <1>3, NoPeerAssumption DEF Stop, PeerMap, Connected, Validators
  <2>3. Cardinality(Connected') = 0 /\ Cardinality(Validators') = 0
    BY <2>2, FS_EmptySet
  <2>4. PoolWithinLimit'
    BY <1>3, <2>3, PoolAssumption DEF Stop, PoolWithinLimit, Validators
  <2>5. connectedPeers' \in Nat /\ validatorPeers' \in Nat
    BY <1>3 DEF Stop
  <2>6. PeersTypeOK'
    BY <1>3, <1>t, <2>1, <2>2, <2>5 DEF Stop, PeersTypeOK, PeerMap, lookupVars
  <2> QED
    BY <1>3, <2>2, <2>4, <2>6 DEF Stop, IInv, HandleInv, BannedStaysOut
<1>4. CASE DiscoveryDue
  BY <1>1, <1>4, <1>t
  DEF DiscoveryDue, DiscoverPeers, IInv, PeersTypeOK, HandleInv, poolVars, timerVars
<1>5. ASSUME NEW found \in SUBSET Addr, Bootstrapped(found) PROVE IInv'
  <2>1. /\ peers' \in PeerMap /\ connectedPeers' \in Nat
        /\ PoolWithinLimit' /\ BannedStaysOut'
    BY <1>5, <1>t, Joining DEF Bootstrapped
  <2> QED
    BY <1>5, <1>t, <2>1 DEF Bootstrapped, IInv, PeersTypeOK, HandleInv, PeerMap
<1>6. ASSUME NEW found \in SUBSET Addr, LookupAnswered(found) PROVE IInv'
  <2>1. /\ peers' \in PeerMap /\ connectedPeers' \in Nat
        /\ PoolWithinLimit' /\ BannedStaysOut'
    BY <1>6, <1>t, Joining DEF LookupAnswered
  <2> QED
    BY <1>6, <1>t, <2>1 DEF LookupAnswered, IInv, PeersTypeOK, HandleInv, PeerMap, timerVars
<1>7. ASSUME NEW a \in Addr, Membership(a) PROVE IInv'
  <2>1. CASE Disconnect(a)
    <3>1. peers[a] \in Peer
      BY <2>1, <1>t DEF Disconnect, Connected, PeerMap
    <3>2. [peers[a] EXCEPT !.state = "disconnected"] \in Peer
      BY <3>1 DEF Peer
    <3>3. [peers[a] EXCEPT !.state = "disconnected"].state = "disconnected"
      BY <3>1 DEF Peer
    <3> QED
      BY <2>1, <3>2, <3>3, Leaving DEF Disconnect
  <2>2. CASE RemovePeer(a) /\ a \in Connected
    BY <2>2, Leaving DEF RemovePeer
  <2>3. CASE RemovePeer(a) /\ a \notin Connected
    <3>1. peers' = [peers EXCEPT ![a] = NoPeer] /\ peers' \in PeerMap
      BY <2>3, <1>t DEF RemovePeer, PeerMap
    <3>2. Connected' \subseteq Connected /\ Validators' \subseteq Validators
      BY <3>1, <1>t DEF Connected, Validators, PeerMap
    <3>3. PoolWithinLimit'
      BY <2>3, <3>2, Fewer DEF RemovePeer, IInv, PeersTypeOK
    <3> QED
      BY <2>3, <3>1, <3>2, <3>3
      DEF RemovePeer, IInv, PeersTypeOK, HandleInv, PeerMap, BannedStaysOut, lookupVars, timerVars
  <2>4. CASE BanPeer(a)
    BY <2>4, <1>t, Banning DEF BanPeer, PeerMap
  <2>5. CASE BanExpires(a)
    <3>1. Connected' = Connected /\ Validators' = Validators
      BY <2>5 DEF BanExpires, Connected, Validators
    <3> QED
      BY <2>5, <3>1
      DEF BanExpires, IInv, PeersTypeOK, HandleInv, PoolWithinLimit, Validators, BannedStaysOut,
          lookupVars, timerVars
  <2> QED
    BY <1>7, <2>1, <2>2, <2>3, <2>4, <2>5 DEF Membership
<1>8. ASSUME NEW a \in Addr, Message(a) PROVE IInv'
  <2>a. /\ a \in Connected /\ peers[a] \in Peer /\ peers[a].state = "connected"
        /\ UNCHANGED <<isRunning, lookupVars, timerVars>>
    BY <1>8, <1>t, NoPeerAssumption
    DEF Message, HandleHandshake, HandlePeers, HandleNoList, HandleGetPeers, HandleUnknown,
        FromPeer, Connected, PeerMap
  <2>1. ASSUME NEW b \in BOOLEAN, HandleHandshake(a, b) PROVE IInv'
    <3> DEFINE p == [Reputed(peers[a], HandshakeGain) EXCEPT !.isValidator = b]
    <3>1. p \in Peer /\ p.state = "connected" /\ p.isValidator = b
      BY <2>a, ReputedPeer, ReputationAssumption DEF Peer
    <3>2. peers' = [peers EXCEPT ![a] = p]
      BY <2>1, <1>t DEF HandleHandshake, PeerMap
    <3> HIDE DEF p
    <3>3. peers' \in PeerMap /\ Connected' = Connected
      BY <3>1, <3>2, <2>a, <1>t, NoPeerAssumption DEF PeerMap, Connected
    <3>4. Validators' \subseteq IF b THEN Validators \cup {a} ELSE Validators
      BY <3>1, <3>2, <3>3, <1>t DEF PeerMap, Validators, Connected
    <3>5. validatorPeers' \in Nat /\ Cardinality(Validators') <= validatorPeers'
      <4>1. Cardinality(Validators) <= validatorPeers /\ validatorPeers \in Nat
        BY Limits, <1>t DEF IInv, PeersTypeOK
      <4>2. IsFiniteSet(Validators \cup {a})
              /\ Cardinality(Validators \cup {a}) <= Cardinality(Validators) + 1
        <5>1. /\ IsFiniteSet(Validators \cup {a})
              /\ Cardinality(Validators \cup {a})
                   = IF a \in Validators THEN Cardinality(Validators)
                     ELSE Cardinality(Validators) + 1
          BY FiniteConnected, FS_AddElement, Zenon
        <5> QED
          BY <5>1, FiniteConnected
      <4>3. CASE b
        <5>1. Cardinality(Validators') <= Cardinality(Validators \cup {a})
          BY <3>4, <4>2, <4>3, FS_Subset
        <5>2. Cardinality(Validators') \in Nat /\ Cardinality(Validators \cup {a}) \in Nat
          BY <3>4, <4>2, <4>3, FS_Subset, FS_CardinalityType
        <5> QED
          BY <2>1, <4>1, <4>2, <4>3, <5>1, <5>2, FiniteConnected DEF HandleHandshake
      <4>4. CASE ~b
        <5>1. Cardinality(Validators') <= Cardinality(Validators)
          BY <3>4, <4>4, FiniteConnected, FS_Subset
        <5>2. Cardinality(Validators') \in Nat
          BY <3>4, <4>4, FiniteConnected, FS_Subset, FS_CardinalityType
        <5> QED
          BY <2>1, <4>1, <4>4, <5>1, <5>2, FiniteConnected DEF HandleHandshake
      <4> QED
        BY <4>3, <4>4
    <3> QED
      BY <2>1, <2>a, <3>3, <3>5, <1>t
      DEF HandleHandshake, IInv, PeersTypeOK, HandleInv, PoolWithinLimit, Validators, PeerMap,
          BannedStaysOut, lookupVars, timerVars
  <2>2. ASSUME NEW list \in SUBSET (Addr \ {a}), HandlePeers(a, list) PROVE IInv'
    <3> DEFINE gain == IF list = {} THEN 0 ELSE ListGain
               p == Reputed(peers[a], gain)
               ps == [peers EXCEPT ![a] = p]
    <3>g. gain \in Int
      BY ReputationAssumption
    <3> HIDE DEF gain
    <3>1. p \in Peer /\ p.state = peers[a].state /\ p.isValidator = peers[a].isValidator
      BY <2>a, <3>g, ReputedPeer
    <3>2. AddPeers(list, ps) /\ UNCHANGED <<bannedPeers, validatorPeers>>
      BY <2>2, <1>t DEF HandlePeers, PeerMap, gain
    <3> HIDE DEF p
    <3>3. ps \in PeerMap
      BY <3>1, <1>t DEF PeerMap
    <3>4. \A x \in Addr : /\ ps[x] = NoPeer <=> peers[x] = NoPeer
                          /\ ps[x] # NoPeer => ps[x].state = peers[x].state
                                                 /\ ps[x].isValidator = peers[x].isValidator
      BY <3>1, <2>a, <1>t, NoPeerAssumption DEF PeerMap
    <3> HIDE DEF ps
    <3>5. /\ peers' \in PeerMap /\ connectedPeers' \in Nat
          /\ PoolWithinLimit' /\ BannedStaysOut'
      BY <3>2, <3>3, <3>4, Joining
    <3> QED
      BY <2>a, <3>2, <3>5, <1>t DEF IInv, PeersTypeOK, HandleInv, PeerMap, lookupVars, timerVars
  <2>3. CASE HandleNoList(a)
    <3>1. -Penalty * (1 + listeners) \in Int
      BY <1>t, ReputationAssumption DEF PeersTypeOK
    <3> QED
      BY <2>3, <2>a, <3>1, Judging DEF HandleNoList
  <2>4. CASE HandleGetPeers(a)
    <3>1. AskGain * listeners \in Int
      BY <1>t, ReputationAssumption DEF PeersTypeOK
    <3> QED
      BY <2>4, <2>a, <3>1, Judging DEF HandleGetPeers
  <2>5. CASE HandleUnknown(a)
    <3>1. -Penalty \in Int
      BY ReputationAssumption
    <3> QED
      BY <2>5, <2>a, <3>1, Judging DEF HandleUnknown
  <2> QED
    BY <1>8, <2>1, <2>2, <2>3, <2>4, <2>5 DEF Message
<1>9. CASE UNCHANGED vars
  BY <1>1, <1>9, <1>t DEF vars, lookupVars, timerVars, poolVars, IInv, PeersTypeOK, HandleInv
<1> QED
  BY <1>2, <1>3, <1>4, <1>5, <1>6, <1>7, <1>8, <1>9 DEF Next, Lookup

LEMMA InvAlways == Spec => []IInv
  BY InvInit, InvStep, PTL DEF Spec

-----------------------------------------------------------------------------
(* Theorems *)

\* Every variable of the pool keeps its type.
THEOREM TypeCorrectness == Spec => []PeersTypeOK
<1>1. IInv => PeersTypeOK
  BY DEF IInv
<1> QED
  BY <1>1, InvAlways, PTL

\* There are never more connections than the limit allows, although the
\* counter it is compared with is not lowered when peers leave.
THEOREM LimitHolds == Spec => []PoolWithinLimit
<1>1. IInv => PoolWithinLimit
  BY DEF IInv
<1> QED
  BY <1>1, InvAlways, PTL

\* No address is connected while its ban lasts.
THEOREM BansHold == Spec => []BannedStaysOut
<1>1. IInv => BannedStaysOut
  BY DEF IInv
<1> QED
  BY <1>1, InvAlways, PTL

\* When nobody stops a manager that waits for a lookup, one that is stopped
\* has no connections and no interval, and no second interval is ever armed.
THEOREM StopsAreQuiet == ASSUME StopsApart PROVE Spec => []StoppedIsQuiet
<1>1. Init => QuietInv
  BY DEF Init, QuietInv, Connected
<1>2. PeersTypeOK /\ QuietInv /\ [Next]_vars => QuietInv'
  <2> SUFFICES ASSUME PeersTypeOK, QuietInv, [Next]_vars PROVE QuietInv'
    OBVIOUS
  <2>1. CASE Start
    <3>1. Connected' = Connected
      BY <2>1 DEF Start, poolVars, Connected
    <3> QED
      BY <2>1, <3>1 DEF Start, QuietInv
  <2>2. CASE Stop
    <3>1. Connected' = {}
      BY <2>2, NoPeerAssumption DEF Stop, Connected
    <3>2. starting = 0 /\ lookups = 0 /\ discoverers = 1 /\ held
      BY <2>2 DEF Stop, QuietInv, PeersTypeOK
    <3> QED
      BY <2>2, <3>1, <3>2 DEF Stop, Cleared, QuietInv, lookupVars
  <2>3. CASE DiscoveryDue
    BY <2>3 DEF DiscoveryDue, QuietInv, PeersTypeOK, timerVars
  <2>4. ASSUME NEW found \in SUBSET Addr, Bootstrapped(found) PROVE QuietInv'
    BY <2>4 DEF Bootstrapped, QuietInv, PeersTypeOK
  <2>5. ASSUME NEW found \in SUBSET Addr, LookupAnswered(found) PROVE QuietInv'
    BY <2>5 DEF LookupAnswered, QuietInv, PeersTypeOK, timerVars
  <2>6. ASSUME NEW a \in Addr, Message(a) PROVE QuietInv'
    <3>1. a \in Connected /\ UNCHANGED <<isRunning, lookupVars, timerVars>>
      BY <2>6 DEF Message, HandleHandshake, HandlePeers, HandleNoList, HandleGetPeers,
                  HandleUnknown, FromPeer
    <3> QED
      BY <3>1 DEF QuietInv, lookupVars, timerVars
  <2>7. ASSUME NEW a \in Addr, Membership(a) PROVE QuietInv'
    <3>1. UNCHANGED <<isRunning, starting, timerVars>>
      BY <2>7 DEF Membership, Disconnect, RemovePeer, Leaves, BanPeer, BanExpires, lookupVars
    <3>2. CASE isRunning
      BY <3>1, <3>2 DEF QuietInv, timerVars
    <3>3. CASE ~isRunning
      <4>1. Connected = {} /\ UNCHANGED lookups
        BY <2>7, <3>3 DEF QuietInv, Membership, Disconnect, RemovePeer, BanPeer, BanExpires, lookupVars
      <4>2. CASE peers' = [peers EXCEPT ![a] = NoPeer]
        BY <3>1, <3>3, <4>1, <4>2, NoPeerAssumption
        DEF QuietInv, Connected, PeersTypeOK, timerVars
      <4>3. CASE BanPeer(a)
        <5>1. \A b \in Addr : peers'[b] # NoPeer => peers[b] # NoPeer
          BY <4>3 DEF BanPeer, Banned, PeersTypeOK
        <5>2. \A b \in Addr : peers'[b] # NoPeer /\ peers'[b].state = "connected"
                                  => peers[b].state = "connected"
          BY <4>3 DEF BanPeer, Banned, PeersTypeOK, Peer
        <5> QED
          BY <3>1, <3>3, <4>1, <5>1, <5>2 DEF QuietInv, Connected, timerVars
      <4>4. CASE UNCHANGED peers
        BY <3>1, <3>3, <4>1, <4>4 DEF QuietInv, Connected, timerVars
      <4> QED
        BY <2>7, <4>1, <4>2, <4>3, <4>4 DEF Membership, Disconnect, RemovePeer, BanExpires
    <3> QED
      BY <3>2, <3>3
  <2>8. CASE UNCHANGED vars
    BY <2>8 DEF vars, QuietInv, Connected, lookupVars, timerVars, poolVars
  <2> QED
    BY <2>1, <2>2, <2>3, <2>4, <2>5, <2>6, <2>7, <2>8 DEF Next, Lookup
<1>3. PeersTypeOK /\ QuietInv => StoppedIsQuiet
  BY DEF PeersTypeOK, QuietInv, StoppedIsQuiet
<1> QED
  BY <1>1, <1>2, <1>3, TypeCorrectness, PTL DEF Spec

-----------------------------------------------------------------------------
(* That the listeners of the scores know of every threshold, for any peers,*)
(* weights and thresholds on either side of a new peer's score.  The totals*)
(* are sums over the categories, of which nothing else is needed here.     *)

\* The options as the code sets them: -100, -50 and -25 lie below the score of
\* a new peer, 25 and 75 above the 10 points a validator starts with.
ThresholdsFit == (\A t \in Low : t < 0) /\ (\A t \in High : t > 10)

\* The part of the types that the thresholds need
ScoresTyped == /\ total = [p \in ScoredPeer |-> total[p]]
          /\ crossed \in [ScoredPeer -> SUBSET (Low \cup High)]

Reached(score) == {t \in Low \cup High : Beyond(t, score)}

\* What a change of the score leaves reported is what it has reached.
LEMMA CrossedReached ==
    ASSUME NEW old, NEW new
    PROVE  {t \in Reached(old) : Beyond(t, new)} \cup Crossed(old, new) = Reached(new)
<1>1. \A t \in Low : t \notin High
  BY ScoringAssumption
<1>2. ASSUME NEW t
      PROVE  t \in {u \in Reached(old) : Beyond(u, new)} \cup Crossed(old, new)
               <=> t \in Reached(new)
  <2>1. CASE t \in Low
    BY <1>1, <2>1, Zenon DEF Reached, Crossed, Beyond
  <2>2. CASE t \in High
    BY <1>1, <2>2, Zenon DEF Reached, Crossed, Beyond
  <2>3. CASE t \notin Low \cup High
    BY <2>3, Zenon DEF Reached, Crossed
  <2>4. QED
    BY <2>1, <2>2, <2>3
<1>3. QED
  BY <1>2, Zenon

\* Nothing is reported of a peer that has just come, nor is there anything to report.
LEMMA NothingReached ==
    ASSUME ThresholdsFit, NEW isValidator \in BOOLEAN
    PROVE  Reached(IF isValidator THEN 100 * Points(10) ELSE 0) = {}
<1> DEFINE s == IF isValidator THEN 100 * Points(10) ELSE 0
<1>1. Grain \in Int /\ Grain > 0 /\ Low \subseteq Int /\ High \subseteq Int
      /\ \A t \in Low : t \notin High
  BY ScoringAssumption
<1>2. ASSUME NEW t \in Low PROVE ~AtLow(t, s)
  <2>1. t \in Int /\ t <= -1
    BY <1>1 DEF ThresholdsFit
  <2>2. t * Grain <= -Grain
    BY <1>1, <2>1
  <2>3. t * Grain \in Int
    BY <1>1, <2>1
  <2>4. s >= 0
    BY <1>1 DEF Points
  <2>5. 100 * (t * Grain) < 0
    BY <1>1, <2>2, <2>3
  <2>6. QED
    BY <1>1, <2>3, <2>4, <2>5 DEF AtLow, Points
<1>3. ASSUME NEW t \in High PROVE ~AtHigh(t, s)
  <2>1. t \in Int /\ t >= 11
    BY <1>1 DEF ThresholdsFit
  <2>2. t * Grain >= 11 * Grain
    BY <1>1, <2>1
  <2>3. t * Grain \in Int
    BY <1>1, <2>1
  <2>4. s <= 1000 * Grain /\ s \in Int
    BY <1>1 DEF Points
  <2>5. 100 * (t * Grain) > 1000 * Grain
    BY <1>1, <2>2, <2>3
  <2>6. QED
    BY <1>1, <2>3, <2>4, <2>5 DEF AtHigh, Points
<1> HIDE DEF s
<1>4. QED
  BY <1>1, <1>2, <1>3, Zenon DEF Reached, Beyond, s

LEMMA EnteringReported ==
    ASSUME ThresholdsFit, ScoresTyped, CrossingsReported,
           NEW p \in ScoredPeer, NEW isValidator \in BOOLEAN, Entry(p, isValidator)
    PROVE  ScoresTyped' /\ CrossingsReported'
<1> DEFINE s == IF isValidator THEN 100 * Points(10) ELSE 0
<1>1. Reached(s) = {}
  BY NothingReached
<1>2. /\ total' = [total EXCEPT ![p] = s] /\ crossed' = [crossed EXCEPT ![p] = {}]
  BY DEF Entry
<1> HIDE DEF s
<1>3. ScoresTyped'
  BY <1>2 DEF ScoresTyped
<1>4. ASSUME NEW q \in ScoredPeer PROVE crossed'[q] = Reached(total'[q])
  <2>1. CASE q = p
    BY <1>1, <1>2, <2>1 DEF ScoresTyped
  <2>2. CASE q # p
    BY <1>2, <2>2 DEF ScoresTyped, CrossingsReported, Reached
  <2>3. QED
    BY <2>1, <2>2
<1>5. QED
  BY <1>3, <1>4 DEF CrossingsReported, Reached

LEMMA RescoringReported ==
    ASSUME ScoresTyped, CrossingsReported, NEW p \in ScoredPeer, NEW c, Rescored(p, c)
    PROVE  ScoresTyped' /\ CrossingsReported'
<1> DEFINE new == TotalScore(c)
           cr == {t \in crossed[p] : Beyond(t, new)} \cup Crossed(total[p], new)
<1>1. total' = [total EXCEPT ![p] = new] /\ crossed' = [crossed EXCEPT ![p] = cr]
  BY DEF Rescored
<1> HIDE DEF new
<1>2. crossed[p] = Reached(total[p])
  BY DEF CrossingsReported, Reached
<1>3. cr = Reached(new)
  BY <1>2, CrossedReached
<1> HIDE DEF cr
<1>4. cr \subseteq Low \cup High
  BY <1>3 DEF Reached
<1>5. ScoresTyped'
  BY <1>1, <1>4 DEF ScoresTyped
<1>6. ASSUME NEW q \in ScoredPeer PROVE crossed'[q] = Reached(total'[q])
  <2>1. CASE q = p
    BY <1>1, <1>3, <2>1 DEF ScoresTyped
  <2>2. CASE q # p
    BY <1>1, <2>2 DEF ScoresTyped, CrossingsReported, Reached
  <2>3. QED
    BY <2>1, <2>2
<1>7. QED
  BY <1>5, <1>6 DEF CrossingsReported, Reached

\* The listeners of the scores have been told of every threshold that a peer is
\* at or beyond and of no other, however its score came there.
THEOREM ThresholdsReported ==
    ASSUME ThresholdsFit
    PROVE  ScoringSpec => []CrossingsReported
<1>1. Reached(IF FALSE THEN 100 * Points(10) ELSE 0) = {}
  BY NothingReached
<1>2. Reached(0) = {}
  BY <1>1
<1>3. ASSUME total' = [p \in ScoredPeer |-> 0], crossed' = [p \in ScoredPeer |-> {}]
      PROVE  ScoresTyped' /\ CrossingsReported'
  BY <1>2, <1>3 DEF ScoresTyped, CrossingsReported, Reached
<1>4. ScoringInit => ScoresTyped /\ CrossingsReported
  BY <1>2 DEF ScoringInit, ScoresTyped, CrossingsReported, Reached
<1>5. ASSUME ScoresTyped, CrossingsReported, [ScoringNext]_scoringVars
      PROVE  ScoresTyped' /\ CrossingsReported'
  <2>1. ASSUME NEW p \in ScoredPeer, NEW isValidator \in BOOLEAN, Entry(p, isValidator)
        PROVE  ScoresTyped' /\ CrossingsReported'
    BY <1>5, <2>1, EnteringReported
  <2>2. ASSUME NEW p \in ScoredPeer, NEW c, Rescored(p, c)
        PROVE  ScoresTyped' /\ CrossingsReported'
    BY <1>5, <2>2, RescoringReported
  <2>3. ASSUME NEW p \in ScoredPeer, NEW isValidator \in BOOLEAN,
               InitPeer(p, isValidator) \/ ResetScore(p, isValidator)
        PROVE  ScoresTyped' /\ CrossingsReported'
    BY <2>1, <2>3 DEF InitPeer, ResetScore
  <2>4. ASSUME NEW p \in ScoredPeer, NEW isValidator \in BOOLEAN,
               UpdateValidatorStatus(p, isValidator)
        PROVE  ScoresTyped' /\ CrossingsReported'
    BY <2>2, <2>4 DEF UpdateValidatorStatus
  <2>5. ASSUME NEW p \in ScoredPeer, NEW behavior \in Behavior, RecordBehavior(p, behavior)
        PROVE  ScoresTyped' /\ CrossingsReported'
    BY <2>2, <2>5 DEF RecordBehavior
  <2>6. ASSUME NEW p \in ScoredPeer, NEW k \in Measured, NEW mark \in Marks(k),
               Measure(p, k, mark)
        PROVE  ScoresTyped' /\ CrossingsReported'
    BY <2>2, <2>6 DEF Measure
  <2>7. ASSUME NEW p \in ScoredPeer, DecayScore(p)
        PROVE  ScoresTyped' /\ CrossingsReported'
    BY <2>2, <2>7 DEF DecayScore
  <2>8. CASE CloseScoring
    BY <1>3, <2>8 DEF CloseScoring
  <2>9. CASE PeriodPasses \/ UNCHANGED scoringVars
    BY <1>5, <2>9 DEF PeriodPasses, scoringVars, ScoresTyped, CrossingsReported, Beyond, AtLow, AtHigh
  <2>10. QED
    BY <1>5, <2>3, <2>4, <2>5, <2>6, <2>7, <2>8, <2>9 DEF ScoringNext
<1>6. QED
  BY <1>4, <1>5, PTL DEF ScoringSpec

LEMMA ClampedStays ==
    ASSUME NEW x
    PROVE  Clamp(Clamp(x)) = Clamp(x)
<1> DEFINE top == 100 * Points(100)
<1>1. top \in Int /\ ~(top > top) /\ ~(top < -top) /\ ~(-top > top) /\ ~(-top < -top)
  BY ScoringAssumption DEF Points
<1> HIDE DEF top
<1>2. \A y : Clamp(y) = IF y > top THEN top ELSE IF y < -top THEN -top ELSE y
  BY DEF Clamp, top
<1>3. CASE x > top
  BY <1>1, <1>2, <1>3
<1>4. CASE ~(x > top) /\ x < -top
  BY <1>1, <1>2, <1>4
<1>5. CASE ~(x > top) /\ ~(x < -top)
  BY <1>2, <1>5
<1> QED BY <1>3, <1>4, <1>5

LEMMA StartingScores ==
    ASSUME NEW isValidator \in BOOLEAN
    PROVE  /\ FreshScore(isValidator) \in [Category -> Int]
           /\ LET s == IF isValidator THEN 100 * Points(10) ELSE 0 IN s = Clamp(s)
<1>1. Grain \in Nat /\ Grain > 0
  BY ScoringAssumption
<1>2. Points(10) \in Int
  BY <1>1 DEF Points
<1>3. FreshScore(isValidator) \in [Category -> Int]
  BY <1>2 DEF FreshScore
<1>4. 1000 * Grain = Clamp(1000 * Grain) /\ 0 = Clamp(0)
  BY <1>1 DEF Clamp, Points
<1>5. 100 * Points(10) = 1000 * Grain
  BY <1>1 DEF Points
<1> QED BY <1>3, <1>4, <1>5

LEMMA EntryTypes ==
    ASSUME ScoringTypeOK, NEW p \in ScoredPeer, NEW isValidator \in BOOLEAN, Entry(p, isValidator),
           UNCHANGED decaying, records' = records
    PROVE  ScoringTypeOK'
<1> DEFINE s == IF isValidator THEN 100 * Points(10) ELSE 0
           c == FreshScore(isValidator)
<1>1. c \in [Category -> Int] /\ s = Clamp(s)
  BY StartingScores
<1>2. /\ category' = [category EXCEPT ![p] = c] /\ total' = [total EXCEPT ![p] = s]
      /\ crossed' = [crossed EXCEPT ![p] = {}]
      /\ known' = known \cup {p} /\ stale' = stale \ {p}
  BY DEF Entry
<1> HIDE DEF s, c
<1>3. category' \in [ScoredPeer -> [Category -> Int]]
      /\ crossed' \in [ScoredPeer -> SUBSET (Low \cup High)]
  BY <1>1, <1>2 DEF ScoringTypeOK
<1>4. total' = [q \in ScoredPeer |-> Clamp(total'[q])]
  <2>1. total = [q \in ScoredPeer |-> Clamp(total[q])]
    BY DEF ScoringTypeOK
  <2>2. DOMAIN total = ScoredPeer /\ \A q \in ScoredPeer : total[q] = Clamp(total[q])
    BY <2>1
  <2>3. DOMAIN total' = ScoredPeer /\ \A q \in ScoredPeer : total'[q] = Clamp(total'[q])
    BY <1>1, <1>2, <2>2
  <2>4. total' = [q \in ScoredPeer |-> total'[q]]
    BY <1>2, <2>1
  <2> QED BY <2>3, <2>4
<1> QED BY <1>2, <1>3, <1>4 DEF ScoringTypeOK

LEMMA RescoredTypes ==
    ASSUME ScoringTypeOK, NEW p \in ScoredPeer, NEW c \in [Category -> Int], Rescored(p, c),
           UNCHANGED decaying, records' \in Nat
    PROVE  ScoringTypeOK'
<1> DEFINE new == TotalScore(c)
           cr == {t \in crossed[p] : Beyond(t, new)} \cup Crossed(total[p], new)
<1>1. new = Clamp(new)
  <2>1. \A x : Clamp(Clamp(x)) = Clamp(x)
    BY ClampedStays
  <2> QED BY <2>1, Zenon DEF TotalScore
<1>2. /\ category' = [category EXCEPT ![p] = c] /\ total' = [total EXCEPT ![p] = new]
      /\ crossed' = [crossed EXCEPT ![p] = cr]
      /\ known' = known \cup {p} /\ stale' = stale \ {p}
  BY DEF Rescored
<1> HIDE DEF new
<1>3. cr \subseteq Low \cup High
  BY DEF ScoringTypeOK, Crossed
<1> HIDE DEF cr
<1>4. category' \in [ScoredPeer -> [Category -> Int]]
      /\ crossed' \in [ScoredPeer -> SUBSET (Low \cup High)]
  BY <1>2, <1>3 DEF ScoringTypeOK
<1>5. total' = [q \in ScoredPeer |-> Clamp(total'[q])]
  <2>1. total = [q \in ScoredPeer |-> Clamp(total[q])]
    BY DEF ScoringTypeOK
  <2>2. DOMAIN total = ScoredPeer /\ \A q \in ScoredPeer : total[q] = Clamp(total[q])
    BY <2>1
  <2>3. DOMAIN total' = ScoredPeer /\ \A q \in ScoredPeer : total'[q] = Clamp(total'[q])
    BY <1>1, <1>2, <2>2
  <2>4. total' = [q \in ScoredPeer |-> total'[q]]
    BY <1>2, <2>1
  <2> QED BY <2>3, <2>4
<1> QED BY <1>2, <1>4, <1>5 DEF ScoringTypeOK

\* A category that is set to an integer stays one.
LEMMA OneCategory ==
    ASSUME ScoringTypeOK, NEW p \in ScoredPeer, NEW k \in Category, NEW b \in Int
    PROVE  [category[p] EXCEPT ![k] = b] \in [Category -> Int]
BY DEF ScoringTypeOK

\* Scores stay within 100 points and categories whole parts of a point, a peer
\* due for decay has an entry, and only thresholds are reported.
THEOREM ScoringTypeCorrect == ScoringSpec => []ScoringTypeOK
<1>0. Grain \in Nat /\ Grain > 0 /\ DecayPercent \in Nat /\ Mark \subseteq Int
  BY ScoringAssumption
<1>1. ASSUME known = {}, stale = {}, decaying \in BOOLEAN, records \in Nat,
             category = [p \in ScoredPeer |-> FreshScore(FALSE)],
             total = [p \in ScoredPeer |-> 0], crossed = [p \in ScoredPeer |-> {}]
      PROVE  ScoringTypeOK
  <2>1. FreshScore(FALSE) \in [Category -> Int] /\ 0 = Clamp(0)
    BY StartingScores
  <2> QED BY <1>1, <2>1 DEF ScoringTypeOK
<1>2. ScoringInit => ScoringTypeOK
  BY <1>1 DEF ScoringInit
<1>3. ScoringTypeOK /\ [ScoringNext]_scoringVars => ScoringTypeOK'
  <2> SUFFICES ASSUME ScoringTypeOK, [ScoringNext]_scoringVars PROVE ScoringTypeOK'
    OBVIOUS
  <2>0. \A x \in Int : Points(x) \in Int
    BY <1>0 DEF Points
  <2>1. ASSUME NEW p \in ScoredPeer, NEW isValidator \in BOOLEAN,
               InitPeer(p, isValidator) \/ ResetScore(p, isValidator)
        PROVE  ScoringTypeOK'
    BY <2>1, EntryTypes DEF InitPeer, ResetScore
  <2>2. ASSUME NEW p \in ScoredPeer, NEW isValidator \in BOOLEAN, UpdateValidatorStatus(p, isValidator)
        PROVE  ScoringTypeOK'
    <3> DEFINE b == FreshScore(isValidator)["validator_status"]
               c == [category[p] EXCEPT !["validator_status"] = b]
    <3>1. "validator_status" \in Category /\ b \in Int
      <4>1. "validator_status" \in Category
        BY DEF Category
      <4> QED BY <4>1, StartingScores
    <3>2. c \in [Category -> Int]
      <4> HIDE DEF b
      <4> QED BY <3>1, OneCategory
    <3>3. Rescored(p, c) /\ UNCHANGED <<decaying, records>>
      BY <2>2 DEF UpdateValidatorStatus
    <3>4. records' \in Nat
      BY <3>3 DEF ScoringTypeOK
    <3> HIDE DEF c
    <3> QED BY <3>2, <3>3, <3>4, RescoredTypes
  <2>3. ASSUME NEW p \in ScoredPeer, NEW behavior \in Behavior, RecordBehavior(p, behavior)
        PROVE  ScoringTypeOK'
    <3> DEFINE b == category[p]["behavior"] + Points(ScoreChange(behavior))
               c == [category[p] EXCEPT !["behavior"] = b]
    <3>1. "behavior" \in Category /\ b \in Int
      <4>1. b \in -Points(MaxBehavior)..Points(MaxBehavior)
        BY <2>3 DEF RecordBehavior
      <4> HIDE DEF b
      <4> QED BY <4>1 DEF Category
    <3>2. c \in [Category -> Int]
      <4> HIDE DEF b
      <4> QED BY <3>1, OneCategory
    <3>3. Rescored(p, c) /\ UNCHANGED decaying /\ records' = records + 1
      BY <2>3 DEF RecordBehavior
    <3>4. records' \in Nat
      BY <3>3 DEF ScoringTypeOK
    <3> HIDE DEF c
    <3> QED BY <3>2, <3>3, <3>4, RescoredTypes
  <2>4. ASSUME NEW p \in ScoredPeer, NEW k \in Measured, NEW mark \in Marks(k), Measure(p, k, mark)
        PROVE  ScoringTypeOK'
    <3> DEFINE b == Points(mark)
               c == [category[p] EXCEPT ![k] = b]
    <3>1. k \in Category /\ b \in Int
      BY <1>0, <2>0 DEF Category, Marks
    <3>2. c \in [Category -> Int]
      <4> HIDE DEF b
      <4> QED BY <3>1, OneCategory
    <3>3. Rescored(p, c) /\ UNCHANGED <<decaying, records>>
      BY <2>4 DEF Measure
    <3>4. records' \in Nat
      BY <3>3 DEF ScoringTypeOK
    <3> HIDE DEF c
    <3> QED BY <3>2, <3>3, <3>4, RescoredTypes
  <2>5. ASSUME NEW p \in ScoredPeer, DecayScore(p)
        PROVE  ScoringTypeOK'
    <3> DEFINE old == category[p]["behavior"]
               b == Decayed(old)
               c == [category[p] EXCEPT !["behavior"] = b]
    <3>1. "behavior" \in Category /\ old \in Int
      BY DEF Category, ScoringTypeOK
    <3> HIDE DEF old
    <3>2. b \in Int
      <4>1. Abs(old) \in Nat
        BY <3>1 DEF Abs
      <4>2. Abs(old) * DecayPercent \in Nat
        BY <1>0, <4>1
      <4>3. (Abs(old) * DecayPercent) \div 100 \in Int
        BY <4>2
      <4>4. DecayAmount(old) \in Int
        BY <2>0, <4>3 DEF DecayAmount, Larger
      <4> QED BY <3>1, <4>1, <4>4 DEF Decayed
    <3>3. c \in [Category -> Int]
      <4> HIDE DEF b
      <4> QED BY <3>1, <3>2, OneCategory
    <3>4. Rescored(p, c) /\ UNCHANGED <<decaying, records>>
      BY <2>5 DEF DecayScore, old
    <3>5. records' \in Nat
      BY <3>4 DEF ScoringTypeOK
    <3> HIDE DEF c
    <3> QED BY <3>3, <3>4, <3>5, RescoredTypes
  <2>6. CASE CloseScoring
    <3>1. /\ known' = {} /\ stale' = {} /\ decaying' \in BOOLEAN /\ records' \in Nat
          /\ category' = [p \in ScoredPeer |-> FreshScore(FALSE)]
          /\ total' = [p \in ScoredPeer |-> 0] /\ crossed' = [p \in ScoredPeer |-> {}]
      BY <2>6 DEF CloseScoring, ScoringTypeOK
    <3>2. FreshScore(FALSE) \in [Category -> Int] /\ 0 = Clamp(0)
      BY StartingScores
    <3> QED BY <3>1, <3>2 DEF ScoringTypeOK
  <2>7. CASE PeriodPasses \/ UNCHANGED scoringVars
    BY <2>7 DEF PeriodPasses, scoringVars, ScoringTypeOK, Clamp, Points
  <2> QED BY <2>1, <2>2, <2>3, <2>4, <2>5, <2>6, <2>7 DEF ScoringNext
<1> QED BY <1>2, <1>3, PTL DEF ScoringSpec

-----------------------------------------------------------------------------
(* The message relay: a node is given a message once.  DeliveredOnce alone  *)
(* is not inductive: it does not say that what was received is remembered.  *)
(* Counted does: a node that was given a message more often than it has     *)
(* forgotten still has the message's id.                                    *)

Given(n, m) == IF m \in delivered[n] THEN 1 ELSE 0

Counted == \A n \in Endpoint, m \in Msg : received[n][m] <= forgets[n] + Given(n, m)

RelayInv == RelayTypeOK /\ Counted

\* The part of the state that Counted is about
countVars == <<delivered, received, forgets>>

-----------------------------------------------------------------------------
(* Counted *)

LEMMA NothingGiven == ASSUME RelayInv, UNCHANGED countVars PROVE Counted'
BY DEF RelayInv, Counted, Given, countVars

LEMMA Received ==
    ASSUME RelayInv, NEW n \in Endpoint, NEW msg \in RelayMessage,
           msg.messageId \notin delivered[n], ReceiveForUs(n, msg), forgets' = forgets
    PROVE  /\ Counted' /\ delivered' \in [Endpoint -> SUBSET Msg]
           /\ received' \in [Endpoint -> [Msg -> Nat]]
<1> DEFINE m == msg.messageId
<1>1. /\ m \in Msg /\ delivered \in [Endpoint -> SUBSET Msg]
      /\ received \in [Endpoint -> [Msg -> Nat]] /\ forgets \in [Endpoint -> Nat]
  BY DEF RelayInv, RelayTypeOK, RelayMessage
<1>2. CASE Readable(msg)
  <2>1. /\ delivered' = [delivered EXCEPT ![n] = delivered[n] \cup {m}]
        /\ received' = [received EXCEPT ![n][m] = @ + 1]
    BY <1>2 DEF ReceiveForUs, Remembered
  <2>2. /\ delivered' \in [Endpoint -> SUBSET Msg]
        /\ received' \in [Endpoint -> [Msg -> Nat]]
    BY <1>1, <2>1
  <2>3. ASSUME NEW k \in Endpoint, NEW i \in Msg
        PROVE  received'[k][i] <= forgets[k] + (IF i \in delivered'[k] THEN 1 ELSE 0)
    <3>1. received[k][i] <= forgets[k] + (IF i \in delivered[k] THEN 1 ELSE 0)
      BY DEF RelayInv, Counted, Given
    <3>2. received[k][i] \in Nat /\ forgets[k] \in Nat
      BY <1>1
    <3>3. CASE k = n /\ i = m
      <4>1. received'[k][i] = received[k][i] + 1 /\ i \in delivered'[k] /\ i \notin delivered[k]
        BY <1>1, <2>1, <3>3
      <4> QED
        BY <3>1, <3>2, <4>1
    <3>4. CASE ~(k = n /\ i = m)
      <4>1. received'[k][i] = received[k][i] /\ (i \in delivered[k] => i \in delivered'[k])
        BY <1>1, <2>1, <3>4
      <4> QED
        BY <3>1, <3>2, <4>1
    <3> QED
      BY <3>3, <3>4
  <2> QED
    BY <2>2, <2>3 DEF Counted, Given
<1>3. CASE ~Readable(msg)
  BY <1>1, <1>3, NothingGiven DEF ReceiveForUs, countVars
<1> QED
  BY <1>2, <1>3

-----------------------------------------------------------------------------
(* What is relayed *)

\* A relay that passes a message on counts it, stores it and sends it.
LEMMA Passed ==
    ASSUME RelayTypeOK, NEW n \in Endpoint, n \in Relay, ~Overloaded(n), NEW msg \in RelayMessage,
           NEW rest, rest \subseteq wire, PassOn(n, msg, rest)
    PROVE  /\ relayedCount' \in [Endpoint -> 0..MaxRelayed]
           /\ pending' \in [Endpoint -> [Msg -> Pending \cup {NoEntry}]]
           /\ wire' \subseteq [to : Endpoint, message : RelayMessage]
<1>1. /\ relayedCount' = [relayedCount EXCEPT ![n] = @ + 1]
      /\ pending' = [pending EXCEPT ![n][msg.messageId] = [message |-> msg, expired |-> FALSE]]
      /\ \E hops \in SUBSET (Endpoint \ {n}) :
            wire' = rest \cup {[to |-> q, message |-> msg] : q \in hops}
  BY DEF PassOn
<1>2. relayedCount' \in [Endpoint -> 0..MaxRelayed]
  <2>1. relayedCount[n] \in 0..MaxRelayed /\ relayedCount[n] < MaxRelayed /\ MaxRelayed \in Nat
    BY RelayAssumption DEF RelayTypeOK, Overloaded
  <2>2. relayedCount[n] + 1 \in 0..MaxRelayed
    BY <2>1
  <2> QED
    BY <1>1, <2>2 DEF RelayTypeOK
<1>3. pending' \in [Endpoint -> [Msg -> Pending \cup {NoEntry}]]
  <2>1. [message |-> msg, expired |-> FALSE] \in Pending /\ msg.messageId \in Msg
    BY DEF Pending, RelayMessage
  <2> QED
    BY <1>1, <2>1 DEF RelayTypeOK
<1>4. wire' \subseteq [to : Endpoint, message : RelayMessage]
  BY <1>1 DEF RelayTypeOK
<1> QED
  BY <1>2, <1>3, <1>4

-----------------------------------------------------------------------------
(* The steps *)

LEMMA InitRelay == ASSUME RelayInit PROVE RelayInv
<1>1. RelayTypeOK
  BY RelayAssumption DEF RelayInit, RelayTypeOK
<1> QED
  BY <1>1 DEF RelayInit, RelayInv, Counted, Given

LEMMA ServiceSteps ==
    ASSUME RelayInv, NEW n \in Endpoint, RelayStart(n) \/ RelayStop(n) \/ ResetCounter(n)
    PROVE  RelayInv'
<1>1. CASE RelayStart(n)
  <2>1. resetters' \in [Endpoint -> 0..MaxRelayStarts] /\ relaying' \in [Endpoint -> BOOLEAN]
    BY <1>1, RelayAssumption DEF RelayStart, RelayInv, RelayTypeOK
  <2>2. RelayTypeOK'
    BY <1>1, <2>1 DEF RelayStart, RelayInv, RelayTypeOK, registryVars
  <2> QED
    BY <1>1, <2>2, NothingGiven DEF RelayStart, RelayInv, countVars
<1>2. CASE RelayStop(n)
  <2>1. RelayTypeOK'
    BY <1>2 DEF RelayStop, RelayInv, RelayTypeOK, registryVars
  <2> QED
    BY <1>2, <2>1, NothingGiven DEF RelayStop, RelayInv, countVars
<1>3. CASE ResetCounter(n)
  <2>1. relayedCount' \in [Endpoint -> 0..MaxRelayed]
    BY <1>3, RelayAssumption DEF ResetCounter, RelayInv, RelayTypeOK
  <2>2. RelayTypeOK'
    BY <1>3, <2>1 DEF ResetCounter, RelayInv, RelayTypeOK, registryVars
  <2> QED
    BY <1>3, <2>2, NothingGiven DEF ResetCounter, RelayInv, countVars
<1> QED
  BY <1>1, <1>2, <1>3

LEMMA RegistrySteps ==
    ASSUME RelayInv, NEW n \in Endpoint, NEW p \in Client,
           RegisterPeer(n, p) \/ DeregisterPeer(n, p) \/ UpdatePeerLastSeen(n, p)
    PROVE  RelayInv'
<1>1. PICK ps \in SUBSET Client, idle \in SUBSET Client : idle \subseteq ps /\ Registry(n, ps, idle)
  <2>1. registered[n] \subseteq Client /\ inactive[n] \subseteq registered[n]
    BY DEF RelayInv, RelayTypeOK
  <2>2. CASE RegisterPeer(n, p)
    BY <2>1, <2>2 DEF RegisterPeer
  <2>3. CASE DeregisterPeer(n, p)
    <3>1. registered[n] \ {p} \subseteq Client /\ inactive[n] \ {p} \subseteq registered[n] \ {p}
      BY <2>1
    <3> QED
      BY <2>1, <2>3, <3>1 DEF DeregisterPeer
  <2>4. CASE UpdatePeerLastSeen(n, p)
    BY <2>1, <2>4 DEF UpdatePeerLastSeen
  <2> QED
    BY <2>2, <2>3, <2>4
<1>2. /\ {registered', inactive'} \subseteq [Endpoint -> SUBSET Client]
      /\ \A k \in Endpoint : inactive'[k] \subseteq registered'[k]
  BY <1>1 DEF Registry, RelayInv, RelayTypeOK
<1>3. RelayTypeOK'
  BY <1>1, <1>2 DEF Registry, RelayInv, RelayTypeOK
<1> QED
  BY <1>1, <1>3, NothingGiven DEF Registry, RelayInv, countVars

LEMMA SubmitStep ==
    ASSUME RelayInv, NEW n \in Endpoint, NEW m \in Msg, NEW encrypt \in BOOLEAN,
           SubmitMessage(n, m, encrypt)
    PROVE  RelayInv'
<1> DEFINE msg == [messageId |-> m, ttl |-> Ttl, encrypted |-> encrypt,
                   sealed |-> encrypt /\ Target[m] \in registered[n]]
           refused == Overloaded(n) \/ m \in delivered[n] \/ Ttl = 0 \/ n \notin Relay
<1>1. /\ IF refused THEN UNCHANGED <<relayedCount, pending, wire>> ELSE PassOn(n, msg, wire)
      /\ submits' = submits + 1
      /\ UNCHANGED <<relaying, resetters, registryVars, delivered, received, forgets>>
  BY DEF SubmitMessage
<1>2. msg \in RelayMessage
  <2>1. Ttl \in 0..Ttl
    BY RelayAssumption
  <2>2. (encrypt /\ Target[m] \in registered[n]) \in BOOLEAN
    BY Zenon
  <2> QED
    BY <2>1, <2>2 DEF RelayMessage
<1>3. /\ relayedCount' \in [Endpoint -> 0..MaxRelayed]
      /\ pending' \in [Endpoint -> [Msg -> Pending \cup {NoEntry}]]
      /\ wire' \subseteq [to : Endpoint, message : RelayMessage]
  <2>1. CASE refused
    BY <1>1, <2>1 DEF RelayInv, RelayTypeOK
  <2>2. CASE ~refused
    <3>1. PassOn(n, msg, wire) /\ n \in Relay /\ ~Overloaded(n)
      BY <1>1, <2>2
    <3> HIDE DEF msg
    <3> QED
      BY <1>2, <3>1, Passed DEF RelayInv
  <2> QED
    BY <2>1, <2>2
<1>4. RelayTypeOK'
  BY <1>1, <1>3 DEF RelayInv, RelayTypeOK, registryVars
<1> QED
  BY <1>1, <1>4, NothingGiven DEF RelayInv, countVars

LEMMA HandleStep ==
    ASSUME RelayInv, NEW e \in wire, HandleRelayMessage(e)
    PROVE  RelayInv'
<1> DEFINE n == e.to
           msg == e.message
           forUs == Target[msg.messageId] = n
           handled == relaying[n] /\ msg.messageId \notin delivered[n]
           passes == handled /\ ~forUs /\ n \in Relay /\ ~Overloaded(n) /\ msg.ttl > 1
<1>1. n \in Endpoint /\ msg \in RelayMessage
  BY DEF RelayInv, RelayTypeOK
<1>2. /\ IF handled /\ forUs THEN ReceiveForUs(n, msg) ELSE UNCHANGED <<delivered, received>>
      /\ IF passes THEN PassOn(n, OneHopLess(msg), wire \ {e})
                   ELSE wire' = wire \ {e} /\ UNCHANGED <<relayedCount, pending>>
      /\ UNCHANGED <<relaying, resetters, registryVars, forgets, submits>>
  BY DEF HandleRelayMessage
<1> HIDE DEF n, msg
<1>3. /\ Counted' /\ delivered' \in [Endpoint -> SUBSET Msg]
      /\ received' \in [Endpoint -> [Msg -> Nat]]
  <2>1. CASE handled /\ forUs
    BY <1>1, <1>2, <2>1, Received
  <2>2. CASE ~(handled /\ forUs)
    BY <1>2, <2>2, NothingGiven DEF countVars, RelayInv, RelayTypeOK
  <2> QED
    BY <2>1, <2>2
<1>4. /\ relayedCount' \in [Endpoint -> 0..MaxRelayed]
      /\ pending' \in [Endpoint -> [Msg -> Pending \cup {NoEntry}]]
      /\ wire' \subseteq [to : Endpoint, message : RelayMessage]
  <2>1. CASE passes
    <3>1. OneHopLess(msg) \in RelayMessage
      <4>1. msg.ttl \in 0..Ttl /\ msg.ttl > 1 /\ Ttl \in Nat
        BY <1>1, <2>1, RelayAssumption DEF RelayMessage
      <4>2. msg.ttl - 1 \in 0..Ttl
        BY <4>1
      <4> QED
        BY <1>1, <4>2 DEF OneHopLess, RelayMessage
    <3> QED
      BY <1>1, <1>2, <2>1, <3>1, Passed DEF RelayInv
  <2>2. CASE ~passes
    BY <1>2, <2>2 DEF RelayInv, RelayTypeOK
  <2> QED
    BY <2>1, <2>2
<1>5. RelayTypeOK'
  BY <1>2, <1>3, <1>4 DEF RelayInv, RelayTypeOK, registryVars
<1> QED
  BY <1>3, <1>5 DEF RelayInv

LEMMA MarkStep ==
    ASSUME RelayInv, NEW n \in Endpoint, NEW m \in Msg, MarkMessageDelivered(n, m)
    PROVE  RelayInv'
<1>1. /\ delivered' = [delivered EXCEPT ![n] = delivered[n] \cup {m}]
      /\ pending' = [pending EXCEPT ![n][m] = NoEntry]
      /\ UNCHANGED <<relaying, resetters, relayedCount, registryVars, wire, received, forgets, submits>>
  BY DEF MarkMessageDelivered, Remembered
<1>2. RelayTypeOK'
  BY <1>1 DEF RelayInv, RelayTypeOK, registryVars
<1>3. ASSUME NEW k \in Endpoint, NEW i \in Msg
      PROVE  received'[k][i] <= forgets'[k] + (IF i \in delivered'[k] THEN 1 ELSE 0)
  <2>1. received[k][i] <= forgets[k] + (IF i \in delivered[k] THEN 1 ELSE 0)
    BY DEF RelayInv, Counted, Given
  <2>2. received[k][i] \in Nat /\ forgets[k] \in Nat
    BY DEF RelayInv, RelayTypeOK
  <2>3. i \in delivered[k] => i \in delivered'[k]
    BY <1>1 DEF RelayInv, RelayTypeOK
  <2> QED
    BY <1>1, <2>1, <2>2, <2>3
<1> QED
  BY <1>2, <1>3 DEF RelayInv, Counted, Given

LEMMA HourStep == ASSUME RelayInv, NEW n \in Endpoint, HourPasses(n) PROVE RelayInv'
<1>1. ASSUME NEW x \in Pending PROVE [x EXCEPT !.expired = TRUE] \in Pending
  BY DEF Pending
<1>2. pending' \in [Endpoint -> [Msg -> Pending \cup {NoEntry}]]
  <2>1. pending' = [pending EXCEPT ![n] =
          [m \in Msg |-> IF @[m] = NoEntry THEN NoEntry ELSE [@[m] EXCEPT !.expired = TRUE]]]
    BY DEF HourPasses
  <2>2. [m \in Msg |-> IF pending[n][m] = NoEntry THEN NoEntry
                       ELSE [pending[n][m] EXCEPT !.expired = TRUE]]
           \in [Msg -> Pending \cup {NoEntry}]
    <3>1. \A m \in Msg : pending[n][m] \in Pending \cup {NoEntry}
      BY DEF RelayInv, RelayTypeOK
    <3> QED
      BY <1>1, <3>1
  <2> QED
    BY <2>1, <2>2 DEF RelayInv, RelayTypeOK
<1>3. RelayTypeOK'
  BY <1>2 DEF HourPasses, RelayInv, RelayTypeOK
<1> QED
  BY <1>3, NothingGiven DEF HourPasses, RelayInv, countVars

LEMMA CleanupStep == ASSUME RelayInv, NEW n \in Endpoint, Cleanup(n) PROVE RelayInv'
<1> DEFINE full == Cardinality(delivered[n]) > DeliveredLimit
<1>1. /\ pending' = [pending EXCEPT ![n] = [m \in Msg |-> IF m \in Tired(n) THEN NoEntry ELSE @[m]]]
      /\ delivered' = [delivered EXCEPT ![n] = IF full THEN {} ELSE @]
      /\ forgets' = [forgets EXCEPT ![n] = IF full THEN @ + 1 ELSE @]
      /\ \/ /\ registered' = [registered EXCEPT ![n] = @ \ inactive[n]]
            /\ inactive' = [inactive EXCEPT ![n] = {}]
         \/ UNCHANGED registryVars
      /\ UNCHANGED <<relaying, resetters, relayedCount, wire, received, submits>>
  BY DEF Cleanup
<1> HIDE DEF full
<1>2. pending' \in [Endpoint -> [Msg -> Pending \cup {NoEntry}]]
  BY <1>1 DEF RelayInv, RelayTypeOK
<1>3. delivered' \in [Endpoint -> SUBSET Msg] /\ forgets' \in [Endpoint -> Nat]
  BY <1>1 DEF RelayInv, RelayTypeOK
<1>4. /\ {registered', inactive'} \subseteq [Endpoint -> SUBSET Client]
      /\ \A k \in Endpoint : inactive'[k] \subseteq registered'[k]
  <2>1. /\ {registered, inactive} \subseteq [Endpoint -> SUBSET Client]
        /\ \A k \in Endpoint : inactive[k] \subseteq registered[k]
    BY DEF RelayInv, RelayTypeOK
  <2>2. CASE UNCHANGED registryVars
    BY <2>1, <2>2 DEF registryVars
  <2>3. CASE /\ registered' = [registered EXCEPT ![n] = @ \ inactive[n]]
             /\ inactive' = [inactive EXCEPT ![n] = {}]
    BY <2>1, <2>3
  <2> QED
    BY <1>1, <2>2, <2>3
<1>5. RelayTypeOK'
  BY <1>1, <1>2, <1>3, <1>4 DEF RelayInv, RelayTypeOK
<1>6. ASSUME NEW k \in Endpoint, NEW i \in Msg
      PROVE  received'[k][i] <= forgets'[k] + (IF i \in delivered'[k] THEN 1 ELSE 0)
  <2>1. received[k][i] <= forgets[k] + (IF i \in delivered[k] THEN 1 ELSE 0)
    BY DEF RelayInv, Counted, Given
  <2>2. received[k][i] \in Nat /\ forgets[k] \in Nat
    BY DEF RelayInv, RelayTypeOK
  <2>3. CASE k = n /\ full
    <3>1. forgets'[k] = forgets[k] + 1 /\ i \notin delivered'[k]
      BY <1>1, <2>3 DEF RelayInv, RelayTypeOK
    <3> QED
      BY <1>1, <2>1, <2>2, <3>1
  <2>4. CASE ~(k = n /\ full)
    <3>1. forgets'[k] = forgets[k] /\ delivered'[k] = delivered[k]
      BY <1>1, <2>4 DEF RelayInv, RelayTypeOK
    <3> QED
      BY <1>1, <2>1, <3>1
  <2> QED
    BY <2>3, <2>4
<1> QED
  BY <1>5, <1>6 DEF RelayInv, Counted, Given

LEMMA RelayInvHolds == RelaySpec => []RelayInv
<1>1. ASSUME RelayInv, [RelayNext]_relayVars PROVE RelayInv'
  <2>1. CASE UNCHANGED relayVars
    <3>0. UNCHANGED <<relaying, resetters, relayedCount, registered, inactive, pending, delivered,
                      wire, received, forgets, submits>>
      BY <2>1 DEF relayVars, registryVars
    <3>1. RelayTypeOK'
      BY <1>1, <3>0 DEF RelayInv, RelayTypeOK
    <3> QED
      BY <1>1, <3>0, <3>1, NothingGiven DEF RelayInv, countVars
  <2> QED
    BY <1>1, <2>1, ServiceSteps, RegistrySteps, SubmitStep, HandleStep, MarkStep, HourStep,
       CleanupStep DEF RelayNext
<1> QED
  BY <1>1, InitRelay, PTL DEF RelaySpec

-----------------------------------------------------------------------------
(* The theorems *)

\* The relays' state keeps its types; no relay counts more messages than it may
\* relay in a minute (maxRelayedMessages).
THEOREM RelayTypeCorrect == RelaySpec => []RelayTypeOK
<1>1. RelayInv => RelayTypeOK
  BY DEF RelayInv
<1> QED
  BY <1>1, RelayInvHolds, PTL

\* 'message_received' is emitted for a message once on a node, and once more for
\* each cleanup in which the node forgot what it had been given, over any number
\* of relays, copies and hops (handleRelayMessage, cleanupMessages).
THEOREM GivenOnce == RelaySpec => []DeliveredOnce
<1>1. RelayInv => DeliveredOnce
  <2> SUFFICES ASSUME RelayInv, NEW n \in Endpoint, NEW m \in Msg
               PROVE  received[n][m] <= 1 + forgets[n]
    BY DEF DeliveredOnce
  <2>1. received[n][m] <= forgets[n] + (IF m \in delivered[n] THEN 1 ELSE 0)
    BY DEF RelayInv, Counted, Given
  <2>2. received[n][m] \in Nat /\ forgets[n] \in Nat
    BY DEF RelayInv, RelayTypeOK
  <2> QED
    BY <2>1, <2>2
<1> QED
  BY <1>1, RelayInvHolds, PTL

-----------------------------------------------------------------------------
(* That a node broadcasts and is told an item once, for any nodes and items.*)
(* AnnouncedOnce alone is not inductive: a copy still in the air, or an    *)
(* addition not yet answered, could repeat what was done.  KeptOnce says that*)
(* who has not a block has not broadcast it; ToldOnce that the copies of a *)
(* message come from the one node that broadcast it, and that none is left *)
(* for who was given it.                                                   *)

\* The intervals of a node come from its start() calls, one at least while it runs.
Intervals ==
    \A n \in Node : /\ timers[n] + beginning[n] <= calls[n]
                    /\ integrating[n] => timers[n] > 0

\* A block or transaction is broadcast by who adds it, and is no message.
KeptOnce ==
    \A n \in Node, i \in Kept : /\ i \notin has[n] => announced[n][i] = 0
                                /\ announced[n][i] <= 1 /\ told[n][i] = 0

\* One node at most has broadcast a message, once, and who was given it has no
\* other copy to come.
ToldOnce ==
    /\ \A i \in Told, m, n \in Node : announced[m][i] > 0 /\ announced[n][i] > 0 => m = n
    /\ \A i \in Told, n \in Node :
          /\ announced[n][i] <= 1 /\ told[n][i] <= 1
          /\ told[n][i] > 0 => \E m \in Node : announced[m][i] > 0
    /\ \A e \in air : /\ announced[e.from][e.item] > 0
                      /\ e.item \in Told => told[e.to][e.item] = 0

IntegrationInv == IntegrationTypeOK /\ Intervals /\ KeptOnce /\ ToldOnce

Copy == [to : Node, from : Node, item : Item]

LEMMA Announcing ==
    ASSUME IntegrationTypeOK, NEW n \in Node, NEW i \in Item, Announce(n, i, air)
    PROVE  /\ announced' \in [Node -> [Item -> Nat]] /\ handlers[n] \in {0, 1}
           /\ announced'[n][i] = announced[n][i] + handlers[n]
           /\ \A m \in Node, j \in Item :
                 m # n \/ j # i => announced'[m][j] = announced[m][j]
           /\ air' \subseteq Copy
           /\ \A e \in air' : e \in air \/ (e.from = n /\ e.item = i /\ handlers[n] = 1)
<1>1. handlers[n] \in {0, 1} /\ announced \in [Node -> [Item -> Nat]] /\ air \subseteq Copy
  BY DEF IntegrationTypeOK, Copy
<1>2. announced' = [announced EXCEPT ![n] = [announced[n] EXCEPT ![i] = announced[n][i] + handlers[n]]]
  BY DEF Announce
<1>3. announced[n] \in [Item -> Nat] /\ announced[n][i] + handlers[n] \in Nat
  BY <1>1
<1>4. /\ announced' \in [Node -> [Item -> Nat]]
      /\ announced'[n][i] = announced[n][i] + handlers[n]
      /\ \A m \in Node, j \in Item : m # n \/ j # i => announced'[m][j] = announced[m][j]
  BY <1>1, <1>2, <1>3
<1>5. Copies(n, i) \subseteq Copy /\ \A e \in Copies(n, i) : e.from = n /\ e.item = i
  BY DEF Copies, Copy
<1>6. \A e \in air' : e \in air \/ (e \in Copies(n, i) /\ handlers[n] # 0)
  BY DEF Announce
<1>7. QED
  BY <1>1, <1>4, <1>5, <1>6

\* Of the variables of a copy that is handed over
LEMMA Receiving ==
    ASSUME IntegrationTypeOK, NEW e \in air, Receive(e)
    PROVE  /\ e \in Copy
           /\ adding' \in [Node -> SUBSET (Kept \X Node)]
           /\ told' \in [Node -> [Item -> Nat]]
           /\ missed' \subseteq Node \X Item
           /\ \A m \in Node, j \in Item :
                 \/ told'[m][j] = told[m][j]
                 \/ /\ m = e.to /\ j = e.item /\ j \in Told
                    /\ told'[m][j] = told[m][j] + 1
<1>1. e \in Copy /\ e.to \in Node /\ e.item \in Item /\ e.from \in Node
  BY DEF IntegrationTypeOK, Copy
<1>2. handlers[e.to] = IF integrating[e.to] THEN 1 ELSE 0
  BY <1>1 DEF IntegrationTypeOK
<1>3. adding' \in [Node -> SUBSET (Kept \X Node)]
  BY <1>1 DEF IntegrationTypeOK, Receive, WithAddition
<1>4. missed' \subseteq Node \X Item
  BY <1>1 DEF IntegrationTypeOK, Receive
<1>5. told \in [Node -> [Item -> Nat]]
  BY DEF IntegrationTypeOK
<1>6. CASE integrating[e.to] /\ e.item \in Told
  <2>1. told' = [told EXCEPT ![e.to] = [told[e.to] EXCEPT ![e.item] = told[e.to][e.item] + 1]]
    BY <1>2, <1>6 DEF Receive
  <2>2. QED
    BY <1>1, <1>3, <1>4, <1>5, <1>6, <2>1
<1>7. CASE ~(integrating[e.to] /\ e.item \in Told)
  <2>1. UNCHANGED told
    BY <1>7 DEF Receive
  <2>2. QED
    BY <1>1, <1>3, <1>4, <1>5, <2>1
<1>8. QED
  BY <1>6, <1>7

LEMMA IntegrationTypeInit == IntegrationInit => IntegrationTypeOK /\ Intervals
<1> SUFFICES ASSUME IntegrationInit PROVE IntegrationTypeOK /\ Intervals
  OBVIOUS
<1>1. 0 \in 0..MaxCalls
  BY IntegrationAssumption
<1>2. {beginning, calls, timers} \subseteq [Node -> 0..MaxCalls]
  BY <1>1 DEF IntegrationInit
<1>3. QED
  BY <1>2 DEF IntegrationInit, IntegrationTypeOK, Intervals

LEMMA Starting ==
    ASSUME IntegrationTypeOK, Intervals, NEW n \in Node,
           IntegrationStart(n) \/ StartGoesOn(n) \/ IntegrationStop(n)
    PROVE  IntegrationTypeOK' /\ Intervals'
<1>1. /\ MaxCalls \in Nat
      /\ \A m \in Node : /\ beginning[m] \in Nat /\ calls[m] \in Nat /\ timers[m] \in Nat
                         /\ calls[m] <= MaxCalls
  BY IntegrationAssumption DEF IntegrationTypeOK
<1>2. /\ beginning \in [Node -> 0..MaxCalls] /\ calls \in [Node -> 0..MaxCalls]
      /\ timers \in [Node -> 0..MaxCalls]
      /\ made \in [Node -> BOOLEAN] /\ integrating \in [Node -> BOOLEAN]
      /\ handlers = [m \in Node |-> IF integrating[m] THEN 1 ELSE 0]
  BY DEF IntegrationTypeOK
<1>3. \A m \in Node : /\ timers[m] + beginning[m] <= calls[m]
                      /\ integrating[m] => timers[m] > 0
  BY DEF Intervals
<1>4. UNCHANGED <<syncing, flowVars>>
  BY DEF IntegrationStart, StartGoesOn, IntegrationStop
<1>5. SUFFICES ASSUME NEW b \in 0..MaxCalls, NEW c \in 0..MaxCalls, NEW t \in 0..MaxCalls,
                      NEW r \in BOOLEAN, NEW k \in BOOLEAN,
                      beginning' = [beginning EXCEPT ![n] = b], calls' = [calls EXCEPT ![n] = c],
                      timers' = [timers EXCEPT ![n] = t], made' = [made EXCEPT ![n] = k],
                      integrating' = [integrating EXCEPT ![n] = r],
                      handlers' = [handlers EXCEPT ![n] = IF r THEN 1 ELSE 0],
                      t + b <= c, r => t > 0
               PROVE  IntegrationTypeOK' /\ Intervals'
  <2>1. calls[n] \in 0..MaxCalls /\ timers[n] \in 0..MaxCalls /\ beginning[n] \in 0..MaxCalls
    BY <1>2
  <2>2. /\ integrating[n] \in BOOLEAN /\ made[n] \in BOOLEAN
        /\ beginning = [beginning EXCEPT ![n] = beginning[n]]
        /\ calls = [calls EXCEPT ![n] = calls[n]] /\ timers = [timers EXCEPT ![n] = timers[n]]
        /\ made = [made EXCEPT ![n] = made[n]]
        /\ integrating = [integrating EXCEPT ![n] = integrating[n]]
    BY <1>2
  <2>3. handlers = [handlers EXCEPT ![n] = IF integrating[n] THEN 1 ELSE 0]
    BY <1>2
  <2>4. ASSUME Started(n)
        PROVE  /\ integrating' = [integrating EXCEPT ![n] = TRUE]
               /\ handlers' = [handlers EXCEPT ![n] = 1]
               /\ timers' = [timers EXCEPT ![n] = timers[n] + 1]
    BY <1>2, <2>4 DEF Started
  <2>5. CASE IntegrationStart(n)
    <3>1. /\ calls' = [calls EXCEPT ![n] = calls[n] + 1]
          /\ made' = [made EXCEPT ![n] = TRUE] /\ ~integrating[n]
          /\ \/ Started(n) /\ UNCHANGED beginning
             \/ /\ beginning' = [beginning EXCEPT ![n] = beginning[n] + 1]
                /\ UNCHANGED <<integrating, handlers, timers>>
      BY <2>5 DEF IntegrationStart
    <3>2. /\ calls[n] + 1 \in 0..MaxCalls
          /\ timers[n] + 1 \in 0..MaxCalls /\ timers[n] + 1 + beginning[n] <= calls[n] + 1
          /\ beginning[n] + 1 \in 0..MaxCalls /\ timers[n] + (beginning[n] + 1) <= calls[n] + 1
      BY <1>1, <1>3, <2>5 DEF IntegrationStart
    <3>3. timers[n] + 1 > 0
      BY <1>1
    <3>4. CASE Started(n) /\ UNCHANGED beginning
      BY <1>5, <2>1, <2>2, <2>4, <3>1, <3>2, <3>3, <3>4
    <3>5. CASE /\ beginning' = [beginning EXCEPT ![n] = beginning[n] + 1]
               /\ UNCHANGED <<integrating, handlers, timers>>
      BY <1>5, <2>1, <2>2, <2>3, <3>1, <3>2, <3>5
    <3>6. QED
      BY <3>1, <3>4, <3>5
  <2>6. CASE StartGoesOn(n)
    <3>1. /\ beginning' = [beginning EXCEPT ![n] = beginning[n] - 1]
          /\ Started(n) /\ UNCHANGED <<made, calls>>
      BY <2>6 DEF StartGoesOn
    <3>2. /\ beginning[n] - 1 \in 0..MaxCalls /\ timers[n] + 1 \in 0..MaxCalls
          /\ timers[n] + 1 + (beginning[n] - 1) <= calls[n] /\ timers[n] + 1 > 0
      BY <1>1, <1>3, <2>6 DEF StartGoesOn
    <3>3. /\ integrating' = [integrating EXCEPT ![n] = TRUE] /\ made' = [made EXCEPT ![n] = made[n]]
          /\ handlers' = [handlers EXCEPT ![n] = IF TRUE THEN 1 ELSE 0]
          /\ timers' = [timers EXCEPT ![n] = timers[n] + 1]
          /\ calls' = [calls EXCEPT ![n] = calls[n]]
      BY <2>2, <2>4, <3>1
    <3>4. QED
      BY <1>5, <2>1, <2>2, <3>1, <3>2, <3>3
  <2>7. CASE IntegrationStop(n)
    <3>1. /\ timers' = [timers EXCEPT ![n] = timers[n] - 1]
          /\ integrating' = [integrating EXCEPT ![n] = FALSE]
          /\ handlers' = [handlers EXCEPT ![n] = 0] /\ UNCHANGED <<made, beginning, calls>>
      BY <2>7 DEF IntegrationStop, OneTimerLess, NoListeners
    <3>2. timers[n] - 1 \in 0..MaxCalls /\ timers[n] - 1 + beginning[n] <= calls[n]
      BY <1>1, <1>3, <2>7 DEF IntegrationStop
    <3>3. QED
      BY <1>5, <2>1, <2>2, <3>1, <3>2
  <2>8. QED
    BY <2>5, <2>6, <2>7
<1>6. /\ beginning' \in [Node -> 0..MaxCalls] /\ calls' \in [Node -> 0..MaxCalls]
      /\ timers' \in [Node -> 0..MaxCalls]
      /\ made' \in [Node -> BOOLEAN] /\ integrating' \in [Node -> BOOLEAN]
  BY <1>2, <1>5
<1>7. handlers' = [m \in Node |-> IF integrating'[m] THEN 1 ELSE 0]
  BY <1>2, <1>5
<1>8. IntegrationTypeOK'
  BY <1>4, <1>6, <1>7 DEF IntegrationTypeOK, flowVars
<1>9. ASSUME NEW m \in Node
      PROVE  timers'[m] + beginning'[m] <= calls'[m] /\ (integrating'[m] => timers'[m] > 0)
  <2>1. CASE m = n
    BY <1>2, <1>5, <2>1
  <2>2. CASE m # n
    BY <1>2, <1>3, <1>5, <2>2
  <2>3. QED
    BY <2>1, <2>2
<1>10. QED
  BY <1>8, <1>9 DEF Intervals

\* An addition the store answers
LEMMA Answering ==
    ASSUME IntegrationTypeOK, NEW n \in Node, NEW a \in adding[n], Answered(n, a)
    PROVE  /\ a[1] \in Kept
           /\ adding' \in [Node -> SUBSET (Kept \X Node)] /\ missed' \subseteq Node \X Item
           /\ UNCHANGED <<runVars, syncing, told>>
           /\ \/ UNCHANGED <<announced, air, has>>
              \/ /\ a[1] \notin has[n] /\ has' = [has EXCEPT ![n] = has[n] \cup {a[1]}]
                 /\ Announce(n, a[1], air)
<1>1. a[1] \in Kept /\ a[1] \in Item
  BY DEF IntegrationTypeOK, Item
<1>2. /\ adding \in [Node -> SUBSET (Kept \X Node)] /\ missed \subseteq Node \X Item
      /\ has \in [Node -> SUBSET Kept]
  BY DEF IntegrationTypeOK
<1>3. adding' \in [Node -> SUBSET (Kept \X Node)]
  BY <1>2 DEF Answered
<1>4. missed' \subseteq Node \X Item
  BY <1>1, <1>2 DEF Answered
<1>5. UNCHANGED <<runVars, syncing, told>>
  BY DEF Answered
<1>6. CASE ~(Needs[a[1]] \subseteq has[n])
  <2>1. UNCHANGED <<has, air, announced>>
    BY <1>6 DEF Answered
  <2>2. QED
    BY <1>1, <1>3, <1>4, <1>5, <2>1
<1>7. CASE Needs[a[1]] \subseteq has[n]
  <2>1. has' = [has EXCEPT ![n] = has[n] \cup {a[1]}] /\ AnnounceIfAdded(n, a[1], air)
    BY <1>7 DEF Answered
  <2>2. CASE a[1] \in has[n]
    <3>1. UNCHANGED <<announced, air>>
      BY <2>1, <2>2 DEF AnnounceIfAdded
    <3>2. has[n] \cup {a[1]} = has[n]
      BY <2>2
    <3>3. UNCHANGED has
      BY <1>2, <2>1, <3>2
    <3>4. QED
      BY <1>1, <1>3, <1>4, <1>5, <3>1, <3>3
  <2>3. CASE a[1] \notin has[n]
    <3>1. Announce(n, a[1], air)
      BY <2>1, <2>3 DEF AnnounceIfAdded
    <3>2. QED
      BY <1>1, <1>3, <1>4, <1>5, <2>1, <2>3, <3>1
  <2>4. QED
    BY <2>2, <2>3
<1>8. QED
  BY <1>6, <1>7

\* A step of the flow keeps the types if what it changes is typed.
LEMMA Flowing ==
    ASSUME IntegrationTypeOK, Intervals, UNCHANGED runVars, syncing' \in [Node -> BOOLEAN],
           air' \subseteq Copy, adding' \in [Node -> SUBSET (Kept \X Node)],
           has' \in [Node -> SUBSET Kept], announced' \in [Node -> [Item -> Nat]],
           told' \in [Node -> [Item -> Nat]], missed' \subseteq Node \X Item
    PROVE  IntegrationTypeOK' /\ Intervals'
<1>1. IntegrationTypeOK'
  BY DEF IntegrationTypeOK, runVars, Copy
<1>2. Intervals'
  BY DEF Intervals, runVars
<1>3. QED
  BY <1>1, <1>2

LEMMA AddingTyped ==
    ASSUME IntegrationTypeOK, NEW n \in Node, NEW i \in Kept,
           has' = [has EXCEPT ![n] = has[n] \cup {i}]
    PROVE  has' \in [Node -> SUBSET Kept] /\ has'[n] = has[n] \cup {i}
           /\ \A m \in Node : m # n => has'[m] = has[m]
BY DEF IntegrationTypeOK

LEMMA IntegrationTypeStep ==
    IntegrationTypeOK /\ Intervals /\ [IntegrationNext]_integrationVars
      => IntegrationTypeOK' /\ Intervals'
<1> SUFFICES ASSUME IntegrationTypeOK, Intervals, [IntegrationNext]_integrationVars
             PROVE  IntegrationTypeOK' /\ Intervals'
  OBVIOUS
<1>1. /\ syncing \in [Node -> BOOLEAN] /\ air \subseteq Copy
      /\ adding \in [Node -> SUBSET (Kept \X Node)] /\ has \in [Node -> SUBSET Kept]
      /\ announced \in [Node -> [Item -> Nat]] /\ told \in [Node -> [Item -> Nat]]
      /\ missed \subseteq Node \X Item
  BY DEF IntegrationTypeOK, Copy
<1>2. ASSUME NEW n \in Node, IntegrationStart(n) \/ StartGoesOn(n) \/ IntegrationStop(n)
      PROVE  IntegrationTypeOK' /\ Intervals'
  BY <1>2, Starting
<1>3. ASSUME NEW n \in Node, NEW i \in Kept, AddOwn(n, i)
      PROVE  IntegrationTypeOK' /\ Intervals'
  <2>1. /\ has' = [has EXCEPT ![n] = has[n] \cup {i}] /\ Announce(n, i, air)
        /\ UNCHANGED <<runVars, syncing, adding, told, missed>>
    BY <1>3 DEF AddOwn
  <2>2. i \in Item
    BY DEF Item
  <2>3. announced' \in [Node -> [Item -> Nat]] /\ air' \subseteq Copy
    BY <2>1, <2>2, Announcing
  <2>4. has' \in [Node -> SUBSET Kept]
    BY <2>1, AddingTyped
  <2>5. QED
    BY <1>1, <2>1, <2>3, <2>4, Flowing
<1>4. ASSUME NEW n \in Node, NEW i \in Told, Report(n, i)
      PROVE  IntegrationTypeOK' /\ Intervals'
  <2>1. Announce(n, i, air) /\ UNCHANGED <<runVars, syncing, adding, has, told, missed>>
    BY <1>4 DEF Report
  <2>2. i \in Item
    BY DEF Item
  <2>3. announced' \in [Node -> [Item -> Nat]] /\ air' \subseteq Copy
    BY <2>1, <2>2, Announcing
  <2>4. QED
    BY <1>1, <2>1, <2>3, Flowing
<1>5. ASSUME NEW n \in Node, NEW a \in adding[n], Answered(n, a)
      PROVE  IntegrationTypeOK' /\ Intervals'
  <2>1. /\ a[1] \in Kept
        /\ adding' \in [Node -> SUBSET (Kept \X Node)] /\ missed' \subseteq Node \X Item
        /\ UNCHANGED <<runVars, syncing, told>>
        /\ \/ UNCHANGED <<announced, air, has>>
           \/ /\ a[1] \notin has[n] /\ has' = [has EXCEPT ![n] = has[n] \cup {a[1]}]
              /\ Announce(n, a[1], air)
    BY <1>5, Answering
  <2>2. CASE UNCHANGED <<announced, air, has>>
    BY <1>1, <2>1, <2>2, Flowing
  <2>3. CASE has' = [has EXCEPT ![n] = has[n] \cup {a[1]}] /\ Announce(n, a[1], air)
    <3>1. a[1] \in Item
      BY <2>1 DEF Item
    <3>2. announced' \in [Node -> [Item -> Nat]] /\ air' \subseteq Copy
      BY <2>3, <3>1, Announcing
    <3>3. has' \in [Node -> SUBSET Kept]
      BY <2>1, <2>3, AddingTyped
    <3>4. QED
      BY <1>1, <2>1, <3>2, <3>3, Flowing
  <2>4. QED
    BY <2>1, <2>2, <2>3
<1>6. ASSUME NEW n \in Node, CheckBlockSync(n) \/ SyncTimeout(n)
      PROVE  IntegrationTypeOK' /\ Intervals'
  <2>1. syncing' \in [Node -> BOOLEAN] /\ UNCHANGED <<runVars, flowVars>>
    BY <1>1, <1>6 DEF CheckBlockSync, SyncTimeout
  <2>2. QED
    BY <1>1, <2>1, Flowing DEF flowVars
<1>7. ASSUME NEW e \in air, Receive(e)
      PROVE  IntegrationTypeOK' /\ Intervals'
  <2>1. adding' \in [Node -> SUBSET (Kept \X Node)] /\ told' \in [Node -> [Item -> Nat]]
        /\ missed' \subseteq Node \X Item
    BY <1>7, Receiving
  <2>2. air' \subseteq Copy /\ UNCHANGED <<runVars, syncing, has, announced>>
    BY <1>1, <1>7 DEF Receive
  <2>3. QED
    BY <1>1, <2>1, <2>2, Flowing
<1>8. CASE UNCHANGED integrationVars
  BY <1>1, <1>8, Flowing DEF integrationVars, flowVars
<1>9. QED
  BY <1>2, <1>3, <1>4, <1>5, <1>6, <1>7, <1>8 DEF IntegrationNext

\* The types of the integration: the listeners of a node are one set or none,
\* and the intervals are never fewer than none.
THEOREM IntegrationTypeCorrect == IntegrationSpec => []IntegrationTypeOK
<1>1. IntegrationInit => IntegrationTypeOK /\ Intervals
  BY IntegrationTypeInit
<1>2. IntegrationTypeOK /\ Intervals /\ [IntegrationNext]_integrationVars
        => IntegrationTypeOK' /\ Intervals'
  BY IntegrationTypeStep
<1>3. QED
  BY <1>1, <1>2, PTL DEF IntegrationSpec

\* A node broadcasts what it adds to its store, in the step that adds it.
LEMMA AnnouncingKept ==
    ASSUME IntegrationTypeOK, KeptOnce, ToldOnce, NEW n \in Node, NEW i \in Kept,
           i \notin has[n], has' = [has EXCEPT ![n] = has[n] \cup {i}],
           Announce(n, i, air), UNCHANGED told
    PROVE  KeptOnce' /\ ToldOnce'
<1>1. /\ i \in Item /\ i \notin Told /\ \A j \in Told : j \in Item /\ j # i
      /\ \A j \in Kept : j \in Item
  BY IntegrationAssumption DEF Item
<1>2. /\ announced' \in [Node -> [Item -> Nat]] /\ handlers[n] \in {0, 1}
      /\ announced'[n][i] = announced[n][i] + handlers[n]
      /\ \A m \in Node, j \in Item : m # n \/ j # i => announced'[m][j] = announced[m][j]
      /\ air' \subseteq Copy
      /\ \A e \in air' : e \in air \/ (e.from = n /\ e.item = i /\ handlers[n] = 1)
  BY <1>1, Announcing
<1>3. announced[n][i] = 0
  BY DEF KeptOnce
<1>4. has'[n] = has[n] \cup {i} /\ \A m \in Node : m # n => has'[m] = has[m]
  BY AddingTyped
<1>5. ASSUME NEW m \in Node, NEW j \in Kept
      PROVE  /\ j \notin has'[m] => announced'[m][j] = 0
             /\ announced'[m][j] <= 1 /\ told'[m][j] = 0
  <2>1. CASE m = n /\ j = i
    BY <1>2, <1>3, <1>4, <2>1 DEF KeptOnce
  <2>2. CASE ~(m = n /\ j = i)
    <3>1. announced'[m][j] = announced[m][j]
      BY <1>1, <1>2, <2>2
    <3>2. j \notin has'[m] => j \notin has[m]
      BY <1>4
    <3>3. QED
      BY <3>1, <3>2 DEF KeptOnce
  <2>3. QED
    BY <2>1, <2>2
<1>6. \A j \in Told, m \in Node : announced'[m][j] = announced[m][j] /\ told'[m][j] = told[m][j]
  BY <1>1, <1>2
<1>7. ASSUME NEW e \in air'
      PROVE  /\ announced'[e.from][e.item] > 0
             /\ e.item \in Told => told'[e.to][e.item] = 0
  <2>1. e.from \in Node /\ e.item \in Item /\ announced \in [Node -> [Item -> Nat]]
    BY <1>2 DEF Copy, IntegrationTypeOK
  <2>2. CASE e \in air
    <3>1. announced[e.from][e.item] > 0 /\ (e.item \in Told => told[e.to][e.item] = 0)
      BY <2>2 DEF ToldOnce
    <3>2. announced'[e.from][e.item] = announced[e.from][e.item]
      BY <1>2, <1>3, <2>1, <3>1
    <3>3. QED
      BY <3>1, <3>2
  <2>3. CASE e.from = n /\ e.item = i /\ handlers[n] = 1
    BY <1>1, <1>2, <1>3, <2>3
  <2>4. QED
    BY <1>2, <2>2, <2>3
<1>8. KeptOnce'
  BY <1>5 DEF KeptOnce
<1>9. ToldOnce'
  <2>1. \A j \in Told, m, k \in Node : announced'[m][j] > 0 /\ announced'[k][j] > 0 => m = k
    BY <1>6 DEF ToldOnce
  <2>2. \A j \in Told, k \in Node :
           /\ announced'[k][j] <= 1 /\ told'[k][j] <= 1
           /\ told'[k][j] > 0 => \E m \in Node : announced'[m][j] > 0
    BY <1>6 DEF ToldOnce
  <2>3. QED
    BY <1>7, <2>1, <2>2 DEF ToldOnce
<1>10. QED
  BY <1>8, <1>9

\* The engine or the manager reports a message that nobody has.
LEMMA Reporting ==
    ASSUME IntegrationTypeOK, KeptOnce, ToldOnce, NEW n \in Node, NEW i \in Told, Report(n, i)
    PROVE  KeptOnce' /\ ToldOnce'
<1>1. Announce(n, i, air) /\ UNCHANGED <<has, told>> /\ \A m \in Node : announced[m][i] = 0
  BY DEF Report
<1>2. i \in Item /\ \A j \in Kept : j \in Item /\ j # i
  BY IntegrationAssumption DEF Item
<1>3. /\ announced' \in [Node -> [Item -> Nat]] /\ handlers[n] \in {0, 1}
      /\ announced'[n][i] = announced[n][i] + handlers[n]
      /\ \A m \in Node, j \in Item : m # n \/ j # i => announced'[m][j] = announced[m][j]
      /\ air' \subseteq Copy
      /\ \A e \in air' : e \in air \/ (e.from = n /\ e.item = i /\ handlers[n] = 1)
  BY <1>1, <1>2, Announcing
<1>4. KeptOnce'
  <2>1. \A m \in Node, j \in Kept : announced'[m][j] = announced[m][j]
    BY <1>2, <1>3
  <2>2. QED
    BY <1>1, <2>1 DEF KeptOnce
<1>5. told \in [Node -> [Item -> Nat]] /\ announced \in [Node -> [Item -> Nat]]
  BY DEF IntegrationTypeOK
<1>6. \A m \in Node : told[m][i] = 0
  <2>1. \A m \in Node : told[m][i] \in Nat /\ ~(told[m][i] > 0)
    BY <1>1, <1>2, <1>5 DEF ToldOnce
  <2>2. QED
    BY <2>1
<1>7. \A m \in Node : m # n => announced'[m][i] = 0
  BY <1>1, <1>2, <1>3
<1>8. announced'[n][i] <= 1
  BY <1>1, <1>3
<1>9. \A j \in Told, m \in Node : j # i => announced'[m][j] = announced[m][j]
  BY <1>3 DEF Item
<1>10. \A j \in Told, m, k \in Node : announced'[m][j] > 0 /\ announced'[k][j] > 0 => m = k
  <2>1. TAKE j \in Told, m, k \in Node
  <2>2. CASE j = i
    BY <1>7, <2>2
  <2>3. CASE j # i
    BY <1>9, <2>3 DEF ToldOnce
  <2>4. QED
    BY <2>2, <2>3
<1>11. \A j \in Told, k \in Node :
         /\ announced'[k][j] <= 1 /\ told'[k][j] <= 1
         /\ told'[k][j] > 0 => \E m \in Node : announced'[m][j] > 0
  <2>1. TAKE j \in Told, k \in Node
  <2>2. CASE j = i
    BY <1>1, <1>6, <1>7, <1>8, <2>2
  <2>3. CASE j # i
    BY <1>1, <1>9, <2>3 DEF ToldOnce
  <2>4. QED
    BY <2>2, <2>3
<1>12. ASSUME NEW e \in air'
       PROVE  /\ announced'[e.from][e.item] > 0
              /\ e.item \in Told => told'[e.to][e.item] = 0
  <2>1. e.from \in Node /\ e.item \in Item /\ e.to \in Node
    BY <1>3 DEF Copy
  <2>2. CASE e \in air
    <3>1. announced[e.from][e.item] > 0 /\ (e.item \in Told => told[e.to][e.item] = 0)
      BY <2>2 DEF ToldOnce
    <3>2. e.item # i
      BY <1>1, <2>1, <3>1
    <3>3. announced'[e.from][e.item] = announced[e.from][e.item]
      BY <1>3, <2>1, <3>2
    <3>4. QED
      BY <1>1, <3>1, <3>3
  <2>3. CASE e.from = n /\ e.item = i /\ handlers[n] = 1
    BY <1>1, <1>3, <1>6, <2>1, <2>3
  <2>4. QED
    BY <1>3, <2>2, <2>3
<1>13. QED
  BY <1>4, <1>10, <1>11, <1>12 DEF ToldOnce

\* A copy that is handed over is the only one of its message to that node.
LEMMA HandingOver ==
    ASSUME IntegrationTypeOK, KeptOnce, ToldOnce, NEW e \in air, Receive(e)
    PROVE  KeptOnce' /\ ToldOnce'
<1>1. /\ e \in Copy /\ told' \in [Node -> [Item -> Nat]]
      /\ \A m \in Node, j \in Item :
            \/ told'[m][j] = told[m][j]
            \/ /\ m = e.to /\ j = e.item /\ j \in Told
               /\ told'[m][j] = told[m][j] + 1
  BY Receiving
<1>2. air' = air \ {e} /\ UNCHANGED <<has, announced>>
  BY DEF Receive
<1>3. e.to \in Node /\ e.from \in Node /\ e.item \in Item
  BY <1>1 DEF Copy
<1>4. told \in [Node -> [Item -> Nat]] /\ announced \in [Node -> [Item -> Nat]]
      /\ air \subseteq Copy
  BY DEF IntegrationTypeOK, Copy
<1>5. KeptOnce'
  <2>1. \A m \in Node, j \in Kept : told'[m][j] = told[m][j]
    BY <1>1, IntegrationAssumption DEF Item
  <2>2. QED
    BY <1>2, <2>1 DEF KeptOnce
<1>6. announced[e.from][e.item] > 0 /\ (e.item \in Told => told[e.to][e.item] = 0)
  BY DEF ToldOnce
<1>7. ASSUME NEW j \in Told, NEW k \in Node
      PROVE  /\ told'[k][j] <= 1
             /\ told'[k][j] > 0 => \E m \in Node : announced[m][j] > 0
  <2>1. CASE told'[k][j] = told[k][j]
    BY <2>1 DEF ToldOnce
  <2>2. CASE k = e.to /\ j = e.item /\ told'[k][j] = told[k][j] + 1
    BY <1>3, <1>6, <2>2
  <2>3. QED
    BY <1>1, <2>1, <2>2 DEF Item
<1>8. ASSUME NEW d \in air'
      PROVE  /\ announced[d.from][d.item] > 0
             /\ d.item \in Told => told'[d.to][d.item] = 0
  <2>1. d \in air /\ d # e /\ d \in Copy
    BY <1>2, <1>4
  <2>2. /\ announced[d.from][d.item] > 0
        /\ d.item \in Told => told[d.to][d.item] = 0
    BY <2>1 DEF ToldOnce
  <2>3. d.to \in Node /\ d.from \in Node /\ d.item \in Item
    BY <2>1 DEF Copy
  <2>4. ~(d.item \in Told /\ d.to = e.to /\ d.item = e.item)
    <3>1. SUFFICES ASSUME d.item \in Told, d.to = e.to, d.item = e.item PROVE FALSE
      OBVIOUS
    <3>2. d.from = e.from
      BY <1>3, <1>6, <2>2, <2>3, <3>1 DEF ToldOnce
    <3>3. d = e
      BY <1>1, <2>1, <3>1, <3>2 DEF Copy
    <3>4. QED
      BY <2>1, <3>3
  <2>5. d.item \in Told => told'[d.to][d.item] = told[d.to][d.item]
    BY <1>1, <2>3, <2>4
  <2>6. QED
    BY <2>2, <2>5
<1>9. ToldOnce'
  BY <1>2, <1>7, <1>8 DEF ToldOnce
<1>10. QED
  BY <1>5, <1>9

LEMMA OnceStep ==
    IntegrationTypeOK /\ KeptOnce /\ ToldOnce /\ [IntegrationNext]_integrationVars
      => KeptOnce' /\ ToldOnce'
<1> SUFFICES ASSUME IntegrationTypeOK, KeptOnce, ToldOnce, [IntegrationNext]_integrationVars
             PROVE  KeptOnce' /\ ToldOnce'
  OBVIOUS
<1>1. ASSUME UNCHANGED <<has, announced, told, air>>
      PROVE  KeptOnce' /\ ToldOnce'
  BY <1>1 DEF KeptOnce, ToldOnce
<1>2. ASSUME NEW n \in Node, IntegrationStart(n) \/ StartGoesOn(n) \/ IntegrationStop(n)
      PROVE  KeptOnce' /\ ToldOnce'
  BY <1>1, <1>2 DEF IntegrationStart, StartGoesOn, IntegrationStop, flowVars
<1>3. ASSUME NEW n \in Node, NEW i \in Kept, AddOwn(n, i)
      PROVE  KeptOnce' /\ ToldOnce'
  <2>1. /\ i \notin has[n] /\ has' = [has EXCEPT ![n] = has[n] \cup {i}]
        /\ Announce(n, i, air) /\ UNCHANGED told
    BY <1>3 DEF AddOwn
  <2>2. QED
    BY <2>1, AnnouncingKept
<1>4. ASSUME NEW n \in Node, NEW i \in Told, Report(n, i)
      PROVE  KeptOnce' /\ ToldOnce'
  BY <1>4, Reporting
<1>5. ASSUME NEW n \in Node, NEW a \in adding[n], Answered(n, a)
      PROVE  KeptOnce' /\ ToldOnce'
  <2>1. /\ a[1] \in Kept
        /\ UNCHANGED told
        /\ \/ UNCHANGED <<announced, air, has>>
           \/ /\ a[1] \notin has[n] /\ has' = [has EXCEPT ![n] = has[n] \cup {a[1]}]
              /\ Announce(n, a[1], air)
    BY <1>5, Answering
  <2>2. CASE UNCHANGED <<announced, air, has>>
    BY <1>1, <2>1, <2>2
  <2>3. CASE /\ a[1] \notin has[n] /\ has' = [has EXCEPT ![n] = has[n] \cup {a[1]}]
             /\ Announce(n, a[1], air)
    BY <2>1, <2>3, AnnouncingKept
  <2>4. QED
    BY <2>1, <2>2, <2>3
<1>6. ASSUME NEW n \in Node, CheckBlockSync(n) \/ SyncTimeout(n)
      PROVE  KeptOnce' /\ ToldOnce'
  BY <1>1, <1>6 DEF CheckBlockSync, SyncTimeout, flowVars
<1>7. ASSUME NEW e \in air, Receive(e)
      PROVE  KeptOnce' /\ ToldOnce'
  BY <1>7, HandingOver
<1>8. CASE UNCHANGED integrationVars
  BY <1>1, <1>8 DEF integrationVars, flowVars
<1>9. QED
  BY <1>2, <1>3, <1>4, <1>5, <1>6, <1>7, <1>8 DEF IntegrationNext

\* A node broadcasts a block, a transaction or a message once and is told a
\* message once, over restarts, overlapping starts and any number of copies.
THEOREM BroadcastOnce == IntegrationSpec => []AnnouncedOnce
<1>1. IntegrationInit => IntegrationTypeOK /\ Intervals /\ KeptOnce /\ ToldOnce
  <2>1. ASSUME IntegrationInit PROVE KeptOnce /\ ToldOnce
    <3>1. \A n \in Node, i \in Item : announced[n][i] = 0 /\ told[n][i] = 0
      BY <2>1 DEF IntegrationInit
    <3>2. air = {}
      BY <2>1 DEF IntegrationInit
    <3>3. Kept \subseteq Item /\ Told \subseteq Item
      BY DEF Item
    <3>4. QED
      BY <3>1, <3>2, <3>3 DEF KeptOnce, ToldOnce
  <2>2. QED
    BY <2>1, IntegrationTypeInit
<1>2. IntegrationTypeOK /\ Intervals /\ KeptOnce /\ ToldOnce /\ [IntegrationNext]_integrationVars
        => IntegrationTypeOK' /\ Intervals' /\ KeptOnce' /\ ToldOnce'
  BY IntegrationTypeStep, OnceStep
<1>3. ASSUME KeptOnce, ToldOnce PROVE AnnouncedOnce
  <2>1. \A n \in Node, i \in Kept : announced[n][i] <= 1 /\ told[n][i] <= 1
    BY <1>3 DEF KeptOnce
  <2>2. \A n \in Node, i \in Told : announced[n][i] <= 1 /\ told[n][i] <= 1
    BY <1>3 DEF ToldOnce
  <2>3. QED
    BY <2>1, <2>2 DEF AnnouncedOnce, Item
<1>4. QED
  BY <1>1, <1>2, <1>3, PTL DEF IntegrationSpec

-----------------------------------------------------------------------------
(* Sequences of sequences in one *)

\* A natural number that is the least of a set of them.
LEMMA LeastOf ==
    ASSUME NEW T, T \subseteq Nat, T # {}
    PROVE  \E n \in T : \A k \in T : n <= k
<1> DEFINE R == {ss \in Nat \X Nat : ss[1] < ss[2]}
<1>1. IsWellFoundedOn(R, Nat)
  BY NatLessThanWellFounded DEF OpToRel
<1> HIDE DEF R
<1>2. PICK n \in T : \A k \in T : ~(<<k, n>> \in R)
  BY <1>1, WFMin
<1>3. \A k \in T : ~(k < n)
  BY <1>2 DEF R
<1> QED BY <1>2, <1>3

\* g gives the first i of n sequences in one.
Joins(g, s, n) == g = [i \in 1..n |-> IF i = 1 THEN s[i] ELSE g[i - 1] \o s[i]]

LEMMA JoinsExist ==
    ASSUME NEW n \in Nat, NEW s
    PROVE  \E g : Joins(g, s, n)
<1> DEFINE T == {k \in Nat : ~\E g : Joins(g, s, k)}
<1>1. T = {}
  <2> SUFFICES ASSUME T # {} PROVE FALSE
    OBVIOUS
  <2>1. PICK k \in T : \A l \in T : k <= l
    <3>1. T \subseteq Nat
      OBVIOUS
    <3> HIDE DEF T
    <3> QED BY <3>1, LeastOf
  <2>2. k \in Nat /\ ~\E g : Joins(g, s, k)
    OBVIOUS
  <2>3. k # 0
    <3> DEFINE none == [i \in 1..0 |-> 0]
    <3>1. Joins(none, s, 0)
      BY DEF Joins
    <3> HIDE DEF none
    <3> QED BY <2>2, <3>1
  <2>4. k - 1 \in Nat /\ k - 1 \notin T
    <3> HIDE DEF T
    <3>1. k - 1 \in Nat /\ ~(k <= k - 1)
      BY <2>2, <2>3
    <3> QED BY <2>1, <3>1
  <2>5. PICK g : Joins(g, s, k - 1)
    BY <2>4
  <2> DEFINE h == [i \in 1..k |-> IF i = k THEN IF k = 1 THEN s[k] ELSE g[k - 1] \o s[k]
                                  ELSE g[i]]
  <2> DEFINE F == [i \in 1..k |-> IF i = 1 THEN s[i] ELSE h[i - 1] \o s[i]]
  <2>6. \A i \in 1..k : h[i] = F[i]
    <3> SUFFICES ASSUME NEW i \in 1..k PROVE h[i] = F[i]
      OBVIOUS
    <3>1. CASE i = k
      <4>1. k # 1 => k - 1 \in 1..k /\ k - 1 # k
        BY <2>2, <2>3
      <4> QED BY <3>1, <4>1
    <3>2. CASE i # k
      <4>1. i \in 1..(k - 1) /\ (i # 1 => i - 1 \in 1..k /\ i - 1 # k)
        BY <2>2, <2>3, <3>2
      <4>2. g[i] = IF i = 1 THEN s[i] ELSE g[i - 1] \o s[i]
        BY <2>5, <4>1 DEF Joins
      <4> QED BY <3>2, <4>1, <4>2
    <3> QED BY <3>1, <3>2
  <2>7. h = F
    <3> HIDE DEF F
    <3>1. F = [i \in 1..k |-> F[i]]
      BY DEF F
    <3> QED BY <2>6, <3>1
  <2>8. Joins(h, s, k)
    BY <2>7 DEF Joins
  <2> HIDE DEF h
  <2> QED BY <2>2, <2>8
<1> QED BY <1>1

LEMMA FlattenIs ==
    ASSUME NEW n \in Nat \ {0}, NEW S, NEW s \in [1..n -> Seq(S)]
    PROVE  \E g : Joins(g, s, n) /\ FlattenSeq(s) = g[n]
<1> DEFINE Eq(g) == g = [i \in 1..Len(s) |-> IF i = 1 THEN s[i] ELSE g[i - 1] \o s[i]]
           f == CHOOSE g : Eq(g)
<1>1. s \in Seq(Seq(S)) /\ Len(s) = n
  OBVIOUS
<1>2. FlattenSeq(s) = f[Len(s)]
  BY <1>1 DEF FlattenSeq
<1>3. ASSUME NEW g PROVE Eq(g) <=> Joins(g, s, n)
  BY <1>1 DEF Joins
<1>4. \E g : Eq(g)
  <2>1. PICK g : Joins(g, s, n)
    BY JoinsExist
  <2> HIDE DEF Eq
  <2> QED BY <1>3, <2>1
<1>5. Eq(f)
  <2> HIDE DEF Eq
  <2> QED BY <1>4, Zenon
<1>6. Joins(f, s, n)
  <2> HIDE DEF Eq, f
  <2> QED BY <1>3, <1>5
<1> HIDE DEF f
<1> QED BY <1>1, <1>2, <1>6

LEMMA Associates ==
    ASSUME NEW S
    PROVE  \A a, b, c \in Seq(S) : (a \o b) \o c = a \o (b \o c)
BY ConcatAssociative

LEMMA WithEmpty ==
    ASSUME NEW S, NEW a \in Seq(S)
    PROVE  a \o <<>> = a
BY ConcatEmptySeq

\* What is joined is made of the same elements.
LEMMA JoinsIn ==
    ASSUME NEW n \in Nat, NEW S, NEW s \in [1..n -> Seq(S)], NEW g, Joins(g, s, n)
    PROVE  \A i \in 1..n : g[i] \in Seq(S)
<1> DEFINE T == {i \in 1..n : g[i] \notin Seq(S)}
<1> SUFFICES ASSUME T # {} PROVE FALSE
  OBVIOUS
<1>1. PICK k \in T : \A l \in T : k <= l
  <2>1. T \subseteq Nat
    OBVIOUS
  <2> HIDE DEF T
  <2> QED BY <2>1, LeastOf
<1>2. k \in 1..n /\ g[k] \notin Seq(S) /\ s[k] \in Seq(S)
  OBVIOUS
<1>3. g[k] = IF k = 1 THEN s[k] ELSE g[k - 1] \o s[k]
  BY <1>2 DEF Joins
<1>4. k # 1
  BY <1>2, <1>3
<1>5. g[k - 1] \in Seq(S)
  <2>1. k - 1 \in 1..n /\ ~(k <= k - 1)
    BY <1>2, <1>4
  <2>2. k - 1 \notin T
    <3> HIDE DEF T
    <3> QED BY <1>1, <2>1
  <2> QED BY <2>1, <2>2
<1>6. g[k - 1] \o s[k] \in Seq(S)
  BY <1>2, <1>5
<1> QED BY <1>2, <1>3, <1>4, <1>6

\* u is s with t behind the i-th sequence, after which there are only empty ones
Extended(n, S, s, i, t, u) ==
    /\ n \in Nat /\ i \in 1..n /\ t \in Seq(S)
    /\ s \in [1..n -> Seq(S)] /\ u \in [1..n -> Seq(S)]
    /\ \A j \in 1..n : j > i => s[j] = <<>>
    /\ u[i] = s[i] \o t
    /\ \A j \in 1..n : j # i => u[j] = s[j]

\* What is appended to the last sequence that is not empty comes last.
LEMMA FlattenAppend ==
    ASSUME NEW n, NEW S, NEW s, NEW i, NEW t, NEW u, Extended(n, S, s, i, t, u)
    PROVE  /\ FlattenSeq(s) \in Seq(S) /\ FlattenSeq(u) \in Seq(S)
           /\ FlattenSeq(u) = FlattenSeq(s) \o t
<1>0. /\ n \in Nat \ {0} /\ n \in 1..n /\ i \in 1..n /\ t \in Seq(S)
      /\ s \in [1..n -> Seq(S)] /\ u \in [1..n -> Seq(S)]
  BY DEF Extended
<1>9. /\ \A j \in 1..n : j > i => s[j] = <<>>
      /\ u[i] = s[i] \o t
      /\ \A j \in 1..n : j # i => u[j] = s[j]
  BY DEF Extended
<1>1. PICK g : Joins(g, s, n) /\ FlattenSeq(s) = g[n]
  BY <1>0, FlattenIs
<1>2. PICK h : Joins(h, u, n) /\ FlattenSeq(u) = h[n]
  BY <1>0, FlattenIs
<1>3. \A k \in 1..n : g[k] \in Seq(S) /\ h[k] \in Seq(S)
  BY <1>0, <1>1, <1>2, JoinsIn
<1>8. \A a, b, c \in Seq(S) : (a \o b) \o c = a \o (b \o c)
  <2> QED BY Associates
<1> DEFINE Good(k) == h[k] = IF k < i THEN g[k] ELSE g[k] \o t
           T == {k \in 1..n : ~Good(k)}
<1>7. ASSUME NEW k \in 1..n
      PROVE  /\ k < i => (Good(k) <=> h[k] = g[k])
             /\ k >= i => (Good(k) <=> h[k] = g[k] \o t)
  <2>1. k \in Int /\ i \in Int /\ (k >= i => ~(k < i))
    BY <1>0
  <2>2. ASSUME k < i PROVE Good(k) <=> h[k] = g[k]
    BY <2>2, Zenon
  <2>3. ASSUME ~(k < i) PROVE Good(k) <=> h[k] = g[k] \o t
    BY <2>3, Zenon
  <2> QED BY <2>1, <2>2, <2>3, Zenon
<1>4. T = {}
  <2> SUFFICES ASSUME T # {} PROVE FALSE
    OBVIOUS
  <2>1. PICK k \in T : \A l \in T : k <= l
    <3>1. T \subseteq Nat
      OBVIOUS
    <3> HIDE DEF T
    <3> QED BY <3>1, LeastOf
  <2>2. k \in 1..n /\ ~Good(k)
    OBVIOUS
  <2> HIDE DEF Good, T
  <2>9. /\ k \in Int /\ i \in Int
        /\ k < i => (Good(k) <=> h[k] = g[k])
        /\ k >= i => (Good(k) <=> h[k] = g[k] \o t)
    <3>1. k \in Int /\ i \in Int
      BY <1>0, <2>2
    <3> QED BY <1>7, <2>2, <3>1, Zenon
  <2>3. /\ g[k] = IF k = 1 THEN s[k] ELSE g[k - 1] \o s[k]
        /\ h[k] = IF k = 1 THEN u[k] ELSE h[k - 1] \o u[k]
    <3>1. g[k] = IF k = 1 THEN s[k] ELSE g[k - 1] \o s[k]
      BY <1>1, <2>2 DEF Joins
    <3>2. h[k] = IF k = 1 THEN u[k] ELSE h[k - 1] \o u[k]
      BY <1>2, <2>2 DEF Joins
    <3> QED BY <3>1, <3>2
  <2>4. k # 1 => k - 1 \in 1..n /\ Good(k - 1)
    <3> SUFFICES ASSUME k # 1 PROVE k - 1 \in 1..n /\ Good(k - 1)
      OBVIOUS
    <3>1. k - 1 \in 1..n /\ ~(k <= k - 1)
      BY <1>0, <2>2
    <3>2. k - 1 \notin T
      <4> QED BY <2>1, <3>1
    <3> QED BY <3>1, <3>2 DEF T
  <2>10. k # 1 => (k <= i => h[k - 1] = g[k - 1]) /\ (k > i => h[k - 1] = g[k - 1] \o t)
    <3> SUFFICES ASSUME k # 1
                 PROVE  (k <= i => h[k - 1] = g[k - 1]) /\ (k > i => h[k - 1] = g[k - 1] \o t)
      OBVIOUS
    <3> DEFINE l == k - 1
    <3>1. l \in 1..n /\ Good(l)
      BY <2>4
    <3>2. (k <= i => l < i) /\ (k > i => l >= i)
      BY <2>9
    <3> HIDE DEF l
    <3>3. (l < i => h[l] = g[l]) /\ (l >= i => h[l] = g[l] \o t)
      BY <1>7, <3>1, Zenon
    <3>4. (k <= i => h[l] = g[l]) /\ (k > i => h[l] = g[l] \o t)
      BY <3>2, <3>3, Zenon
    <3> QED BY <3>4 DEF l
  <2>5. s[k] \in Seq(S) /\ u[k] \in Seq(S)
    BY <1>0, <2>2
  <2>6. CASE k < i
    <3>1. u[k] = s[k]
      BY <1>9, <2>2, <2>6, <2>9
    <3>2. k # 1 => h[k - 1] = g[k - 1]
      BY <2>6, <2>9, <2>10
    <3>3. h[k] = g[k]
      BY <2>3, <3>1, <3>2
    <3> QED BY <2>2, <2>6, <2>9, <3>3
  <2>7. CASE k = i
    <3>1. CASE k = 1
      <4>1. h[k] = g[k] \o t
        BY <1>9, <2>3, <2>7, <3>1
      <4> QED BY <2>2, <2>7, <2>9, <4>1
    <3>2. CASE k # 1
      <4>1. h[k - 1] = g[k - 1] /\ g[k - 1] \in Seq(S)
        BY <1>3, <2>4, <2>7, <2>9, <2>10, <3>2
      <4>2. h[k] = g[k - 1] \o (s[k] \o t) /\ g[k] = g[k - 1] \o s[k]
        BY <1>9, <2>3, <2>7, <3>2, <4>1
      <4>3. h[k] = g[k] \o t
        <5>1. (g[k - 1] \o s[k]) \o t = g[k - 1] \o (s[k] \o t)
          <6> DEFINE a == g[k - 1]
                     b == s[k]
          <6>1. a \in Seq(S) /\ b \in Seq(S)
            BY <2>5, <4>1
          <6> HIDE DEF a, b
          <6>2. (a \o b) \o t = a \o (b \o t)
            BY <1>8, <6>1
          <6> QED BY <6>2 DEF a, b
        <5> QED BY <4>2, <5>1, Zenon
      <4> QED BY <2>2, <2>7, <2>9, <4>3
    <3> QED BY <3>1, <3>2
  <2>8. CASE k > i
    <3>1. k # 1 /\ s[k] = <<>> /\ u[k] = <<>>
      BY <1>0, <1>9, <2>2, <2>8
    <3>2. h[k - 1] = g[k - 1] \o t
      BY <2>4, <2>8, <2>9, <2>10, <3>1
    <3>3. g[k] = g[k - 1] \o <<>> /\ h[k] = h[k - 1] \o <<>>
      BY <2>3, <3>1
    <3>4. g[k] = g[k - 1] /\ h[k] = h[k - 1]
      BY <1>3, <2>4, <3>1, <3>3, WithEmpty
    <3>5. h[k] = g[k] \o t
      BY <3>2, <3>4
    <3> QED BY <2>2, <2>8, <2>9, <3>5
  <2> QED BY <2>6, <2>7, <2>8, <2>9
<1>5. Good(n)
  <2> HIDE DEF Good
  <2> QED BY <1>0, <1>4
<1>6. FlattenSeq(u) = FlattenSeq(s) \o t
  <2>1. h[n] = g[n] \o t
    <3> HIDE DEF Good
    <3> QED BY <1>0, <1>5, <1>7
  <2> QED BY <1>1, <1>2, <2>1
<1> QED BY <1>0, <1>1, <1>2, <1>3, <1>6
LEMMA FlattenNothing ==
    ASSUME NEW n \in Nat
    PROVE  FlattenSeq([i \in 1..n |-> <<>>]) = <<>>
<1> DEFINE s == [i \in 1..n |-> <<>>]
<1>1. CASE n = 0
  <2>1. s = <<>>
    BY <1>1
  <2>2. Len(s) = 0
    BY <2>1
  <2> QED BY <2>1, <2>2 DEF FlattenSeq
<1>2. CASE n # 0
  <2>1. s \in [1..n -> Seq({})]
    OBVIOUS
  <2> HIDE DEF s
  <2>2. PICK g : Joins(g, s, n) /\ FlattenSeq(s) = g[n]
    BY <1>2, <2>1, FlattenIs
  <2>3. g[n] \in Seq({})
    BY <1>2, <2>1, <2>2, JoinsIn
  <2>4. g[n] = <<>>
    BY <2>3
  <2> QED BY <2>2, <2>4 DEF s
<1> QED BY <1>1, <1>2

-----------------------------------------------------------------------------
(* Sockets *)

LEMMA PayloadIs ==
    ASSUME NEW ms \in Seq(Nat), NEW t \in Seq(Nat)
    PROVE  /\ Payload(ms) \in Seq(Nat) /\ ms \o t \in Seq(Nat)
           /\ ms # <<>> => Payload(ms \o t) = Payload(ms) \o t
<1>1. ms \o t \in Seq(Nat) /\ Len(ms \o t) = Len(ms) + Len(t)
      /\ \A k \in 1..(Len(ms) + Len(t)) :
            (ms \o t)[k] = IF k <= Len(ms) THEN ms[k] ELSE t[k - Len(ms)]
  BY ConcatProperties
<1>2. Payload(ms) \in Seq(Nat)
  BY DEF Payload
<1>3. ASSUME ms # <<>> PROVE Payload(ms \o t) = Payload(ms) \o t
  <2>1. Len(ms) \in Nat \ {0} /\ Len(t) \in Nat
    BY <1>3
  <2>2. ms \o t # <<>>
    BY <1>1, <2>1
  <2>3. Payload(ms) = Tail(ms) /\ Payload(ms \o t) = Tail(ms \o t)
    BY <1>3, <2>2 DEF Payload
  <2>4. Tail(ms \o t) = Tail(ms) \o t
    BY <1>1, <2>1
  <2> QED BY <2>3, <2>4
<1> QED BY <1>1, <1>2, <1>3

LEMMA FirstPayload ==
    ASSUME NEW q \in Seq(Nat)
    PROVE  /\ <<>> \o <<Handshake>> \o q \in Seq(Nat)
           /\ <<>> \o <<Handshake>> \o q # <<>>
           /\ Payload(<<>> \o <<Handshake>> \o q) = q
           /\ (<<>> \o <<Handshake>> \o q)[1] = Handshake
           /\ DOMAIN (<<>> \o <<Handshake>> \o q) = 1..(Len(q) + 1)
           /\ \A k \in 1..(Len(q) + 1) : k # 1 => (<<>> \o <<Handshake>> \o q)[k] = q[k - 1]
<1>1. <<>> \o <<Handshake>> = <<Handshake>>
  OBVIOUS
<1> DEFINE r == <<Handshake>> \o q
<1>2. r \in Seq(Nat) /\ Len(r) = Len(q) + 1 /\ r[1] = Handshake
      /\ \A k \in 1..(Len(q) + 1) : k # 1 => r[k] = q[k - 1]
  BY DEF Handshake
<1>3. r # <<>> /\ DOMAIN r = 1..(Len(q) + 1)
  BY <1>2
<1>4. Tail(r) = q
  OBVIOUS
<1>5. Payload(r) = q
  BY <1>3, <1>4 DEF Payload
<1> HIDE DEF r
<1> QED BY <1>1, <1>2, <1>3, <1>5 DEF r

Payloads(h) == [i \in Ws |-> Payload(h[i])]

\* l is h with t given to the i-th web socket, after which nobody got anything
Grown(h, l, i, t) ==
    /\ MaxConnects \in Nat /\ i \in Ws /\ t \in Seq(Nat)
    /\ h \in [Ws -> Seq(Nat)] /\ l \in [Ws -> Seq(Nat)]
    /\ \A j \in Ws : j > i => h[j] = <<>>
    /\ Payload(l[i]) = Payload(h[i]) \o t
    /\ \A j \in Ws : j # i => l[j] = h[j]

\* What the current web socket is given is added to what all were given.
LEMMA GivenMore ==
    ASSUME NEW h, NEW l, NEW i, NEW t, Grown(h, l, i, t)
    PROVE  /\ FlattenSeq(Payloads(h)) \in Seq(Nat) /\ FlattenSeq(Payloads(l)) \in Seq(Nat)
           /\ FlattenSeq(Payloads(l)) = FlattenSeq(Payloads(h)) \o t
<1>0. /\ MaxConnects \in Nat /\ i \in Ws /\ t \in Seq(Nat)
      /\ h \in [Ws -> Seq(Nat)] /\ l \in [Ws -> Seq(Nat)]
  BY DEF Grown
<1>7. /\ \A j \in Ws : j > i => h[j] = <<>>
      /\ Payload(l[i]) = Payload(h[i]) \o t
      /\ \A j \in Ws : j # i => l[j] = h[j]
  BY DEF Grown
<1> DEFINE n == MaxConnects
           s == Payloads(h)
           u == Payloads(l)
<1>1. s \in [1..n -> Seq(Nat)] /\ u \in [1..n -> Seq(Nat)]
  <2>1. \A j \in Ws : Payload(h[j]) \in Seq(Nat) /\ Payload(l[j]) \in Seq(Nat)
    BY <1>0, PayloadIs
  <2> QED BY <2>1 DEF Payloads, Ws
<1>2. \A j \in Ws : s[j] = Payload(h[j]) /\ u[j] = Payload(l[j])
  BY DEF Payloads
<1>3. \A j \in Ws : j > i => s[j] = <<>>
  BY <1>0, <1>2, <1>7 DEF Payload
<1>4. \A j \in Ws : j # i => u[j] = s[j]
  BY <1>2, <1>7
<1>5. u[i] = s[i] \o t
  BY <1>0, <1>2, <1>7
<1> HIDE DEF s, u
<1>6. Extended(n, Nat, s, i, t, u)
  BY <1>0, <1>1, <1>3, <1>4, <1>5 DEF Extended, Ws
<1> HIDE DEF n
<1> QED BY <1>6, FlattenAppend DEF s, u
LEMMA PayloadsIn ==
    ASSUME MaxConnects \in Nat, NEW h \in [Ws -> Seq(Nat)]
    PROVE  FlattenSeq(Payloads(h)) \in Seq(Nat)
<1>1. CASE MaxConnects = 0
  <2>1. Payloads(h) = <<>>
    BY <1>1 DEF Payloads, Ws
  <2>2. FlattenSeq(<<>>) = <<>>
    BY DEF FlattenSeq
  <2>3. <<>> \in Seq(Nat)
    OBVIOUS
  <2> QED BY <2>1, <2>2, <2>3, Zenon
<1>2. CASE MaxConnects # 0
  <2>1. Ws = 1..MaxConnects /\ MaxConnects \in Ws /\ MaxConnects \in Nat \ {0}
    BY <1>2 DEF Ws
  <2>2. Payloads(h) \in [1..MaxConnects -> Seq(Nat)]
    BY <2>1, PayloadIs DEF Payloads
  <2>3. PICK g : Joins(g, Payloads(h), MaxConnects) /\ FlattenSeq(Payloads(h)) = g[MaxConnects]
    BY <2>1, <2>2, FlattenIs
  <2> QED BY <2>1, <2>2, <2>3, JoinsIn
<1> QED BY <1>1, <1>2

LEMMA AppendLast ==
    ASSUME NEW f \in Seq(Nat), NEW q \in Seq(Nat), NEW m \in Nat
    PROVE  f \o Append(q, m) = Append(f \o q, m)
<1>1. Append(q, m) = q \o <<m>> /\ <<m>> \in Seq(Nat)
  OBVIOUS
<1>2. f \o q \in Seq(Nat)
  OBVIOUS
<1>3. Append(f \o q, m) = (f \o q) \o <<m>>
  BY <1>2
<1>4. f \o (q \o <<m>>) = (f \o q) \o <<m>>
  BY <1>1, Associates
<1> QED BY <1>1, <1>3, <1>4
LiveWs == {"connecting", "open", "failed", "closing"}

\* With one connection after the other, the web sockets were made in their
\* order, at most the newest of them is not closed, one that works is this.ws,
\* and what was given began with the handshake when it opened.
SocketInv ==
    /\ \A i, j \in Ws : i < j /\ wsState[i] \in LiveWs \cup {"unmade"} => wsState[j] = "unmade"
    /\ \A i \in Ws : wsState[i] \in {"connecting", "open"} => ws = i
    /\ socketState = "connected" => ws # 0 /\ wsState[ws] = "open" /\ messageQueue = <<>>
    /\ \A i \in Ws : wsState[i] \in {"unmade", "connecting"} => handed[i] = <<>>
    /\ \A i \in Ws : wsState[i] = "open" => handed[i] # <<>>

Begins(h) == \A i \in Ws : \A k \in DOMAIN h[i] : h[i][k] = Handshake <=> k = 1

Sent(h, q, k) == FlattenSeq(Payloads(h)) \o q = k

LEMMA OrderIs == HandedInOrder <=> Sent(handed, messageQueue, kept) /\ Begins(handed)
BY DEF HandedInOrder, Sent, Begins, Payloads

\* One web socket got more: the earlier ones keep their beginning.
LEMMA BeginsStays ==
    ASSUME NEW h, NEW l, NEW i \in Ws, Begins(h), \A j \in Ws : j # i => l[j] = h[j],
           \A k \in DOMAIN l[i] : l[i][k] = Handshake <=> k = 1
    PROVE  Begins(l)
BY DEF Begins

LEMMA SocketTypes ==
    ASSUME SocketTypeOK
    PROVE  /\ ws \in {0} \cup Ws /\ Ws \subseteq Nat \ {0} /\ MaxConnects \in Nat
           /\ handed \in [Ws -> Seq(Nat)] /\ messageQueue \in Seq(Nat) /\ kept \in Seq(Nat)
           /\ offered \in Nat
           /\ wsState \in [Ws -> {"unmade", "connecting", "open", "failed", "closing", "closed"}]
<1>1. Outgoing \cup {Handshake} = Nat /\ Outgoing \subseteq Nat
  BY DEF Outgoing, Handshake
<1>2. \A q \in Seq(Outgoing) : q \in Seq(Nat)
  BY <1>1
<1> QED BY <1>1, <1>2, SocketAssumption DEF SocketTypeOK, Ws

\* A message that is sent goes to the web socket that is open.
LEMMA SendKeeps ==
    ASSUME SocketTypeOK, SocketInv, HandedInOrder, Send
    PROVE  SocketInv' /\ HandedInOrder'
<1> DEFINE m == offered + 1
<1>0. /\ ws \in {0} \cup Ws /\ Ws \subseteq Nat \ {0} /\ MaxConnects \in Nat
      /\ handed \in [Ws -> Seq(Nat)] /\ messageQueue \in Seq(Nat) /\ kept \in Seq(Nat)
      /\ offered \in Nat
  BY SocketTypes
<1>1. m \in Nat /\ m # Handshake /\ <<m>> \in Seq(Nat)
  BY <1>0 DEF Handshake
<1>2. UNCHANGED <<socketState, ws, wsState>>
  BY DEF Send
<1>3. Sent(handed, messageQueue, kept) /\ Begins(handed)
  BY OrderIs
<1>4. CASE socketState = "connected"
  <2>1. ws \in Ws /\ wsState[ws] = "open" /\ messageQueue = <<>> /\ handed[ws] # <<>>
    BY <1>0, <1>4 DEF SocketInv
  <2>2. /\ handed' = [handed EXCEPT ![ws] = @ \o <<m>>]
        /\ kept' = Append(kept, m) /\ messageQueue' = messageQueue
    BY <1>0, <1>4, <2>1 DEF Send, Give, Open
  <2>3. handed[ws] \o <<m>> \in Seq(Nat) /\ Payload(handed[ws] \o <<m>>) = Payload(handed[ws]) \o <<m>>
    BY <1>0, <1>1, <2>1, PayloadIs
  <2>4. /\ handed' \in [Ws -> Seq(Nat)] /\ handed'[ws] = handed[ws] \o <<m>>
        /\ \A j \in Ws : j # ws => handed'[j] = handed[j]
    <3> HIDE DEF m
    <3> QED BY <1>0, <2>1, <2>2, <2>3
  <2>5. \A j \in Ws : j > ws => handed[j] = <<>>
    BY <1>0, <2>1 DEF SocketInv, LiveWs
  <2>6. /\ FlattenSeq(Payloads(handed)) \in Seq(Nat)
        /\ FlattenSeq(Payloads(handed')) = FlattenSeq(Payloads(handed)) \o <<m>>
    <3> DEFINE t == <<m>>
               l == handed'
    <3>1. /\ t \in Seq(Nat) /\ l \in [Ws -> Seq(Nat)]
          /\ Payload(l[ws]) = Payload(handed[ws]) \o t /\ \A j \in Ws : j # ws => l[j] = handed[j]
      BY <1>1, <2>3, <2>4
    <3> HIDE DEF t, l, m
    <3>2. /\ FlattenSeq(Payloads(handed)) \in Seq(Nat)
          /\ FlattenSeq(Payloads(l)) = FlattenSeq(Payloads(handed)) \o t
      <4>1. Grown(handed, l, ws, t)
        BY <1>0, <2>1, <2>5, <3>1 DEF Grown
      <4> QED BY <4>1, GivenMore
    <3> QED BY <3>2 DEF t, l
  <2>7. Sent(handed', messageQueue', kept')
    <3> DEFINE f == FlattenSeq(Payloads(handed))
               f1 == FlattenSeq(Payloads(handed'))
    <3>1. f \in Seq(Nat) /\ f1 = f \o <<m>>
      BY <2>6
    <3>2. f \o <<>> = kept
      BY <1>3, <2>1 DEF Sent
    <3> HIDE DEF f, f1, m
    <3>3. f1 \o <<>> = Append(kept, m)
      BY <1>1, <3>1, <3>2
    <3> QED BY <2>1, <2>2, <3>3 DEF Sent, f1
  <2>8. Begins(handed')
    <3>1. \A k \in DOMAIN handed'[ws] : handed'[ws][k] = Handshake <=> k = 1
      <4> DEFINE old == handed[ws]
      <4>1. old \in Seq(Nat) /\ old # <<>> /\ handed'[ws] = old \o <<m>>
        BY <1>0, <2>1, <2>4
      <4>2. \A k \in DOMAIN old : old[k] = Handshake <=> k = 1
        BY <1>3, <2>1 DEF Begins
      <4> HIDE DEF old, m
      <4>3. /\ DOMAIN old = 1..Len(old) /\ Len(old) \in Nat \ {0}
            /\ DOMAIN (old \o <<m>>) = 1..(Len(old) + 1)
            /\ \A k \in 1..Len(old) : (old \o <<m>>)[k] = old[k]
            /\ (old \o <<m>>)[Len(old) + 1] = m
        BY <1>1, <4>1
      <4> QED BY <1>1, <4>1, <4>2, <4>3
    <3> QED BY <1>3, <2>1, <2>4, <3>1, BeginsStays
  <2>9. SocketInv'
    <3>1. \A i \in Ws : wsState[i] = "open" => handed'[i] # <<>>
      <4>1. handed[ws] \o <<m>> # <<>>
        BY <1>0, <1>1, <2>1
      <4> QED BY <2>4, <4>1 DEF SocketInv
    <3>2. \A i \in Ws : wsState[i] \in {"unmade", "connecting"} => handed'[i] = <<>>
      BY <2>1, <2>4 DEF SocketInv
    <3> QED BY <1>2, <2>2, <3>1, <3>2 DEF SocketInv
  <2> QED BY <2>7, <2>8, <2>9, OrderIs DEF HandedInOrder, Sent, Begins, Payloads
<1>5. CASE socketState # "connected"
  <2>1. handed' = handed
    BY <1>5 DEF Send
  <2>2. \/ messageQueue' = messageQueue /\ kept' = kept
        \/ messageQueue' = Append(messageQueue, m) /\ kept' = Append(kept, m)
    BY <1>5 DEF Send
  <2>3. FlattenSeq(Payloads(handed)) \in Seq(Nat)
    BY <1>0, PayloadsIn
  <2>4. Sent(handed', messageQueue', kept')
    <3> DEFINE f == FlattenSeq(Payloads(handed))
    <3>1. f \in Seq(Nat) /\ f \o messageQueue = kept
      BY <1>3, <2>3 DEF Sent
    <3> HIDE DEF f, m
    <3>2. f \o Append(messageQueue, m) = Append(kept, m)
      BY <1>0, <1>1, <3>1, AppendLast
    <3>3. f \o messageQueue' = kept'
      BY <2>2, <3>1, <3>2
    <3> QED BY <2>1, <3>3 DEF Sent, f
  <2>5. SocketInv'
    BY <1>2, <1>5, <2>1 DEF SocketInv
  <2> QED BY <1>3, <2>1, <2>4, <2>5 DEF HandedInOrder, Sent, Begins, Payloads
<1> QED BY <1>4, <1>5
\* The handshake and the queue go to the web socket that opens.
LEMMA OpenedKeeps ==
    ASSUME SocketTypeOK, SocketInv, HandedInOrder, NEW i \in Ws, Opened(i)
    PROVE  SocketInv' /\ HandedInOrder'
<1> DEFINE first == <<>> \o <<Handshake>> \o messageQueue
           l == handed'
           q == messageQueue
<1>0. /\ ws \in {0} \cup Ws /\ Ws \subseteq Nat \ {0} /\ MaxConnects \in Nat
      /\ handed \in [Ws -> Seq(Nat)] /\ messageQueue \in Seq(Nat) /\ kept \in Seq(Nat)
      /\ offered \in Nat
      /\ wsState \in [Ws -> {"unmade", "connecting", "open", "failed", "closing", "closed"}]
  BY SocketTypes
<1>1. /\ wsState[i] = "connecting" /\ ws = i /\ handed[i] = <<>>
      /\ \A j \in Ws : j > i => wsState[j] = "unmade" /\ handed[j] = <<>>
  BY <1>0 DEF SocketInv, Opened, LiveWs
<1>2. /\ first \in Seq(Nat) /\ first # <<>> /\ Payload(first) = q
      /\ \A k \in DOMAIN first : first[k] = Handshake <=> k = 1
  <2>1. /\ first \in Seq(Nat) /\ first # <<>> /\ Payload(first) = q
        /\ first[1] = Handshake
        /\ DOMAIN first = 1..(Len(q) + 1)
        /\ \A k \in 1..(Len(q) + 1) : k # 1 => first[k] = q[k - 1]
    BY <1>0, FirstPayload
  <2>2. q \in Seq(Outgoing)
    BY DEF SocketTypeOK
  <2>3. \A k \in 1..Len(q) : q[k] # Handshake
    BY <2>2 DEF Outgoing
  <2> HIDE DEF first
  <2>4. ASSUME NEW k \in DOMAIN first, k # 1 PROVE first[k] # Handshake
    <3>1. k \in 1..(Len(q) + 1) /\ k - 1 \in 1..Len(q)
      BY <2>1, <2>2, <2>4
    <3> QED BY <2>1, <2>3, <2>4, <3>1
  <2> QED BY <2>1, <2>4
<1>3. handed' = [handed EXCEPT ![ws] = @ \o <<Handshake>> \o messageQueue]
  BY <1>1 DEF Opened
<1>4. /\ l \in [Ws -> Seq(Nat)] /\ l[i] = first
      /\ \A j \in Ws : j # i => l[j] = handed[j]
  <2>1. handed' = [handed EXCEPT ![i] = first]
    BY <1>1, <1>3
  <2> HIDE DEF first
  <2> QED BY <1>0, <1>2, <2>1
<1>5. /\ wsState' = [wsState EXCEPT ![i] = "open"] /\ socketState' = "connected"
      /\ messageQueue' = <<>> /\ ws' = ws /\ kept' = kept
  BY DEF Opened, Drained
<1>6. Sent(handed, q, kept) /\ Begins(handed)
  BY OrderIs
<1> HIDE DEF first
<1>7. Sent(l, messageQueue', kept')
  <2>1. Payload(handed[i]) = <<>>
    BY <1>1 DEF Payload
  <2>2. Payload(l[i]) = Payload(handed[i]) \o q
    BY <1>0, <1>2, <1>4, <2>1
  <2> HIDE DEF l
  <2>3. Grown(handed, l, i, q)
    BY <1>0, <1>1, <1>4, <2>2 DEF Grown
  <2> DEFINE f == FlattenSeq(Payloads(handed))
             f1 == FlattenSeq(Payloads(l))
  <2>4. f \in Seq(Nat) /\ f1 \in Seq(Nat) /\ f1 = f \o q
    BY <2>3, GivenMore
  <2>5. f \o q = kept
    BY <1>6 DEF Sent
  <2> HIDE DEF f, f1
  <2>6. f1 \o <<>> = kept
    BY <2>4, <2>5
  <2> QED BY <1>5, <2>6 DEF Sent, f1
<1>8. Begins(l)
  <2> HIDE DEF l
  <2> QED BY <1>2, <1>4, <1>6, BeginsStays
<1>9. SocketInv'
  <2>1. \A j, k \in Ws : j < k /\ wsState'[j] \in LiveWs \cup {"unmade"} => wsState'[k] = "unmade"
    <3> SUFFICES ASSUME NEW j \in Ws, NEW k \in Ws, j < k, wsState'[j] \in LiveWs \cup {"unmade"}
                 PROVE  wsState'[k] = "unmade"
      OBVIOUS
    <3>1. wsState[j] \in LiveWs \cup {"unmade"}
      BY <1>0, <1>1, <1>5 DEF LiveWs
    <3>2. wsState[k] = "unmade"
      BY <3>1 DEF SocketInv
    <3> QED BY <1>0, <1>1, <1>5, <3>2
  <2>2. \A j \in Ws : wsState'[j] \in {"connecting", "open"} => ws' = j
    BY <1>0, <1>1, <1>5 DEF SocketInv
  <2>3. ws' # 0 /\ wsState'[ws'] = "open" /\ messageQueue' = <<>>
    BY <1>0, <1>1, <1>5
  <2>4. \A j \in Ws : wsState'[j] \in {"unmade", "connecting"} => handed'[j] = <<>>
    BY <1>0, <1>4, <1>5 DEF SocketInv
  <2>5. \A j \in Ws : wsState'[j] = "open" => handed'[j] # <<>>
    BY <1>0, <1>2, <1>4, <1>5 DEF SocketInv
  <2> QED BY <2>1, <2>2, <2>3, <2>4, <2>5 DEF SocketInv
<1> QED BY <1>7, <1>8, <1>9 DEF HandedInOrder, Sent, Begins, Payloads

\* Steps that give nothing to anybody
LEMMA QuietStep ==
    ASSUME SocketTypeOK, SocketInv, HandedInOrder, UNCHANGED <<messageQueue, kept, handed>>,
           \A j, k \in Ws : j < k /\ wsState'[j] \in LiveWs \cup {"unmade"} => wsState'[k] = "unmade",
           \A j \in Ws : wsState'[j] \in {"connecting", "open"} => ws' = j,
           socketState' = "connected" => ws' # 0 /\ wsState'[ws'] = "open" /\ messageQueue = <<>>,
           \A j \in Ws : wsState'[j] \in {"unmade", "connecting"} =>
                wsState[j] \in {"unmade", "connecting"},
           \A j \in Ws : wsState'[j] = "open" => wsState[j] = "open"
    PROVE  SocketInv' /\ HandedInOrder'
<1>1. SocketInv'
  BY DEF SocketInv
<1>2. HandedInOrder'
  BY DEF HandedInOrder
<1> QED BY <1>1, <1>2

LEMMA ConnectKeeps ==
    ASSUME Patient, SocketTypeOK, SocketInv, HandedInOrder, Connect
    PROVE  SocketInv' /\ HandedInOrder'
<1> DEFINE unmade == {i \in Ws : wsState[i] = "unmade"}
           i == CHOOSE i \in unmade : \A j \in unmade : i <= j
<1>0. /\ ws \in {0} \cup Ws /\ Ws \subseteq Nat \ {0}
      /\ wsState \in [Ws -> {"unmade", "connecting", "open", "failed", "closing", "closed"}]
  BY SocketTypes
<1>1. i \in unmade /\ \A j \in unmade : i <= j
  <2>1. unmade \subseteq Nat /\ unmade # {}
    BY <1>0 DEF Connect
  <2> HIDE DEF unmade
  <2>2. \E k \in unmade : \A j \in unmade : k <= j
    BY <2>1, LeastOf
  <2> QED BY <2>2, Zenon
<1>2. /\ socketState' = "connecting" /\ ws' = i /\ wsState' = [wsState EXCEPT ![i] = "connecting"]
      /\ Over /\ UNCHANGED <<messageQueue, kept, handed>>
  BY DEF Connect
<1>3. i \in Ws /\ wsState[i] = "unmade" /\ \A j \in Ws : wsState[j] = "unmade" => i <= j
  BY <1>1
<1> HIDE DEF i, unmade
<1>4. /\ wsState'[i] = "connecting"
      /\ \A j \in Ws : j # i => wsState'[j] = wsState[j] /\ wsState[j] \in {"unmade", "closed"}
  BY <1>0, <1>2, <1>3 DEF Over
<1>5. \A j, k \in Ws : j < k /\ wsState'[j] \in LiveWs \cup {"unmade"} => wsState'[k] = "unmade"
  <2> SUFFICES ASSUME NEW j \in Ws, NEW k \in Ws, j < k, wsState'[j] \in LiveWs \cup {"unmade"}
               PROVE  wsState'[k] = "unmade"
    OBVIOUS
  <2>1. i <= j
    BY <1>0, <1>3, <1>4 DEF LiveWs
  <2>2. k # i
    BY <1>0, <1>3, <2>1
  <2>3. i < k
    BY <1>0, <1>3, <2>1
  <2>4. wsState[k] = "unmade"
    BY <1>3, <2>3 DEF SocketInv
  <2> QED BY <1>4, <2>2, <2>4
<1>6. \A j \in Ws : wsState'[j] \in {"connecting", "open"} => ws' = j
  BY <1>2, <1>4
<1>7. \A j \in Ws : wsState'[j] \in {"unmade", "connecting"} =>
                wsState[j] \in {"unmade", "connecting"}
  BY <1>3, <1>4
<1>8. \A j \in Ws : wsState'[j] = "open" => wsState[j] = "open"
  BY <1>4
<1> QED BY <1>2, <1>5, <1>6, <1>7, <1>8, QuietStep

\* A web socket fails, closes or is let go.
LEMMA EndKeeps ==
    ASSUME SocketTypeOK, SocketInv, HandedInOrder,
           \/ DisconnectSocket \/ ConnectTimeout
           \/ \E i \in Ws : Failed(i) \/ WsClosed(i)
    PROVE  SocketInv' /\ HandedInOrder'
<1>0. /\ ws \in {0} \cup Ws /\ Ws \subseteq Nat \ {0}
      /\ wsState \in [Ws -> {"unmade", "connecting", "open", "failed", "closing", "closed"}]
  BY SocketTypes
<1>1. ASSUME WsDropped, UNCHANGED <<messageQueue, kept, handed>>
      PROVE  SocketInv' /\ HandedInOrder'
  <2>1. ws' = 0 /\ socketState' = "disconnected"
    BY <1>1 DEF WsDropped
  <2>2. \A j \in Ws : \/ wsState'[j] = wsState[j] /\ wsState[j] \notin {"connecting", "open"}
                      \/ wsState[j] \in {"connecting", "open"} /\ wsState'[j] \in {"failed", "closing"}
    <3> SUFFICES ASSUME NEW j \in Ws
                 PROVE  \/ wsState'[j] = wsState[j] /\ wsState[j] \notin {"connecting", "open"}
                        \/ /\ wsState[j] \in {"connecting", "open"}
                           /\ wsState'[j] \in {"failed", "closing"}
      OBVIOUS
    <3>1. CASE j = ws
      BY <1>0, <1>1, <3>1 DEF WsDropped
    <3>2. CASE j # ws
      <4>1. wsState[j] \notin {"connecting", "open"}
        BY <3>2 DEF SocketInv
      <4> QED BY <1>0, <1>1, <3>2, <4>1 DEF WsDropped
    <3> QED BY <3>1, <3>2
  <2>3. \A j, k \in Ws : j < k /\ wsState'[j] \in LiveWs \cup {"unmade"} => wsState'[k] = "unmade"
    BY <1>0, <2>2 DEF SocketInv, LiveWs
  <2> QED BY <1>1, <2>1, <2>2, <2>3, QuietStep
<1>2. CASE DisconnectSocket
  BY <1>1, <1>2 DEF DisconnectSocket
<1>3. CASE ConnectTimeout
  <2>1. CASE socketState = "connecting"
    BY <1>1, <1>3, <2>1 DEF ConnectTimeout
  <2>2. CASE socketState # "connecting"
    <3>1. UNCHANGED <<socketState, ws, wsState, messageQueue, kept, handed>>
      BY <1>3, <2>2 DEF ConnectTimeout
    <3> QED BY <3>1 DEF SocketInv, HandedInOrder
  <2> QED BY <2>1, <2>2
<1>4. ASSUME NEW i \in Ws, Failed(i) \/ WsClosed(i)
      PROVE  SocketInv' /\ HandedInOrder'
  <2>1. PICK s \in {"failed", "closed"} :
          /\ wsState' = [wsState EXCEPT ![i] = s]
          /\ wsState[i] \in LiveWs /\ socketState' # "connected"
          /\ UNCHANGED <<ws, messageQueue, kept, handed>>
    BY <1>4 DEF Failed, WsClosed, LiveWs
  <2>2. \A j \in Ws : wsState'[j] = IF j = i THEN s ELSE wsState[j]
    BY <1>0, <2>1
  <2>3. \A j, k \in Ws : j < k /\ wsState'[j] \in LiveWs \cup {"unmade"} => wsState'[k] = "unmade"
    BY <1>0, <2>1, <2>2 DEF SocketInv, LiveWs
  <2>4. \A j \in Ws : wsState'[j] \in {"connecting", "open", "unmade"} => wsState'[j] = wsState[j]
    BY <2>2
  <2>5. \A j \in Ws : wsState'[j] \in {"connecting", "open"} => ws' = j
    BY <2>1, <2>4 DEF SocketInv
  <2> QED BY <2>1, <2>3, <2>4, <2>5, QuietStep
<1> QED BY <1>2, <1>3, <1>4


\* The type invariant in three parts: the socket, its messages, the server.
ClientTyped ==
    /\ socketState \in {"disconnected", "connecting", "connected", "error"}
    /\ ws \in {0} \cup Ws
    /\ wsState \in [Ws -> {"unmade", "connecting", "open", "failed", "closing", "closed"}]
    /\ connectTimer \in BOOLEAN /\ pingTimer \in BOOLEAN
Traffic ==
    /\ offered \in Nat /\ kept \in Seq(Outgoing) /\ messageQueue \in Seq(Outgoing)
    /\ handed \in [Ws -> Seq(Outgoing \cup {Handshake})]
    /\ Len(messageQueue) <= MaxQueueSize
ServerTyped ==
    /\ serverRunning \in BOOLEAN
    /\ server \in 0..MaxServers
    /\ serverState \in [1..MaxServers -> {"unmade", "binding", "listening", "closed"}]
    /\ sockets \subseteq 1..MaxServers

LEMMA SocketParts == SocketTypeOK <=> ClientTyped /\ Traffic /\ ServerTyped
BY DEF SocketTypeOK, ClientTyped, Traffic, ServerTyped

\* What a step of the socket does to the messages
LEMMA GivenTypes ==
    ASSUME SocketTypeOK, \/ Send
                         \/ \E i \in Ws : Opened(i)
                         \/ UNCHANGED <<messageQueue, offered, kept, handed>>
    PROVE  Traffic'
<1>0. /\ ws \in {0} \cup Ws /\ offered \in Nat /\ kept \in Seq(Outgoing)
      /\ messageQueue \in Seq(Outgoing) /\ Len(messageQueue) <= MaxQueueSize
      /\ handed \in [Ws -> Seq(Nat)] /\ MaxQueueSize \in Nat
      /\ Outgoing \cup {Handshake} = Nat /\ Outgoing \subseteq Nat
  <2>1. Outgoing \cup {Handshake} = Nat /\ Outgoing \subseteq Nat
    BY DEF Outgoing, Handshake
  <2> QED BY <2>1, SocketAssumption DEF SocketTypeOK
<1>1. CASE Send
  <2> DEFINE m == offered + 1
  <2>1. m \in Nat /\ m \in Outgoing
    BY <1>0 DEF Outgoing, Handshake
  <2>2. offered' = m
    BY <1>1 DEF Send
  <2>3. CASE socketState = "connected"
    <3>1. handed' = Give(handed, <<m>>) /\ kept' = Append(kept, m) /\ messageQueue' = messageQueue
      BY <1>1, <2>3 DEF Send
    <3> HIDE DEF m
    <3>2. kept' \in Seq(Outgoing)
      BY <1>0, <2>1, <3>1
    <3>3. handed' \in [Ws -> Seq(Nat)]
      <4>1. CASE Open(ws)
        <5>1. ws \in Ws
          BY <1>0, <4>1 DEF Open
        <5>2. handed[ws] \o <<m>> \in Seq(Nat)
          BY <1>0, <2>1, <5>1
        <5> QED BY <1>0, <3>1, <4>1, <5>1, <5>2 DEF Give
      <4>2. CASE ~Open(ws)
        BY <1>0, <3>1, <4>2 DEF Give
      <4> QED BY <4>1, <4>2
    <3> QED BY <1>0, <2>1, <2>2, <3>1, <3>2, <3>3 DEF Traffic
  <2>4. CASE socketState # "connected"
    <3>1. /\ handed' = handed
          /\ messageQueue' = IF Len(messageQueue) < MaxQueueSize
                             THEN Append(messageQueue, m) ELSE messageQueue
          /\ kept' = IF Len(messageQueue) < MaxQueueSize THEN Append(kept, m) ELSE kept
      BY <1>1, <2>4 DEF Send
    <3> HIDE DEF m
    <3>2. kept' \in Seq(Outgoing) /\ messageQueue' \in Seq(Outgoing) /\ Len(messageQueue') <= MaxQueueSize
      BY <1>0, <2>1, <3>1
    <3> QED BY <1>0, <2>1, <2>2, <3>1, <3>2 DEF Traffic
  <2> QED BY <2>3, <2>4
<1>2. ASSUME NEW i \in Ws, Opened(i) PROVE Traffic'
  <2>1. offered' = offered /\ kept' = kept /\ messageQueue' = <<>>
    BY <1>2 DEF Opened, Drained
  <2>2. handed' \in [Ws -> Seq(Nat)]
    <3>1. CASE ws = i \/ Open(ws)
      <4>1. ws \in Ws
        BY <1>0, <3>1 DEF Open
      <4>2. handed[ws] \o <<Handshake>> \o messageQueue \in Seq(Nat)
        <5>1. messageQueue \in Seq(Nat) /\ <<Handshake>> \in Seq(Nat) /\ handed[ws] \in Seq(Nat)
          BY <1>0, <4>1 DEF Handshake
        <5> QED BY <5>1
      <4>3. handed' = [handed EXCEPT ![ws] = handed[ws] \o <<Handshake>> \o messageQueue]
        BY <1>2, <3>1 DEF Opened
      <4> QED BY <1>0, <4>1, <4>2, <4>3
    <3>2. CASE ~(ws = i \/ Open(ws))
      BY <1>0, <1>2, <3>2 DEF Opened
    <3> QED BY <3>1, <3>2
  <2>3. <<>> \in Seq(Outgoing) /\ Len(<<>>) <= MaxQueueSize
    BY <1>0
  <2> QED BY <1>0, <2>1, <2>2, <2>3 DEF Traffic
<1>3. CASE UNCHANGED <<messageQueue, offered, kept, handed>>
  BY <1>0, <1>3 DEF Traffic
<1> QED BY <1>1, <1>2, <1>3

LEMMA DroppedTypes ==
    ASSUME ClientTyped, WsDropped, connectTimer' \in BOOLEAN
    PROVE  ClientTyped'
<1>1. CASE ws = 0
  BY <1>1 DEF ClientTyped, WsDropped
<1>2. CASE ws # 0
  <2>1. ws \in Ws
    BY <1>2 DEF ClientTyped
  <2> DEFINE s == CASE wsState[ws] = "connecting" -> "failed"
                    [] wsState[ws] = "open" -> "closing"
                    [] OTHER -> wsState[ws]
  <2>2. s \in {"unmade", "connecting", "open", "failed", "closing", "closed"}
    BY <2>1 DEF ClientTyped
  <2>3. wsState' = [wsState EXCEPT ![ws] = s]
    BY <1>2 DEF WsDropped
  <2> HIDE DEF s
  <2>4. wsState' \in [Ws -> {"unmade", "connecting", "open", "failed", "closing", "closed"}]
    BY <2>1, <2>2, <2>3 DEF ClientTyped
  <2> QED BY <2>4 DEF ClientTyped, WsDropped
<1> QED BY <1>1, <1>2

LEMMA ClientTypes ==
    ASSUME SocketTypeOK, SocketNext
    PROVE  ClientTyped' /\ Traffic'
<1>0. ClientTyped /\ Traffic /\ Ws \subseteq Nat
  BY SocketParts DEF Ws
<1>1. CASE Send
  <2>1. ClientTyped'
    BY <1>0, <1>1 DEF ClientTyped, Send
  <2> QED BY <1>1, <2>1, GivenTypes
<1>2. CASE Connect
  <2> DEFINE unmade == {i \in Ws : wsState[i] = "unmade"}
             i == CHOOSE i \in unmade : \A j \in unmade : i <= j
  <2>1. i \in Ws
    <3>1. unmade \subseteq Nat /\ unmade # {}
      BY <1>0, <1>2 DEF Connect
    <3>2. \E k \in unmade : \A j \in unmade : k <= j
      <4> HIDE DEF unmade
      <4> QED BY <3>1, LeastOf
    <3>3. i \in unmade
      <4> HIDE DEF unmade
      <4> QED BY <3>2, Zenon
    <3> HIDE DEF i
    <3> QED BY <3>3
  <2>2. /\ socketState' = "connecting" /\ ws' = i /\ wsState' = [wsState EXCEPT ![i] = "connecting"]
        /\ connectTimer' = TRUE /\ UNCHANGED <<pingTimer, messageQueue, offered, kept, handed>>
    BY <1>2 DEF Connect
  <2> HIDE DEF i, unmade
  <2>3. ClientTyped'
    BY <1>0, <2>1, <2>2 DEF ClientTyped
  <2> QED BY <2>2, <2>3, GivenTypes
<1>3. CASE DisconnectSocket
  <2>1. ClientTyped'
    <3>1. WsDropped /\ connectTimer' = connectTimer
      BY <1>3 DEF DisconnectSocket
    <3>2. connectTimer' \in BOOLEAN
      BY <1>0, <3>1 DEF ClientTyped
    <3> QED BY <1>0, <3>1, <3>2, DroppedTypes
  <2> QED BY <1>3, <2>1, GivenTypes DEF DisconnectSocket
<1>4. CASE ConnectTimeout
  <2>1. ClientTyped'
    <3>1. CASE socketState = "connecting"
      BY <1>0, <1>4, <3>1, DroppedTypes DEF ConnectTimeout
    <3>2. CASE socketState # "connecting"
      <4>1. connectTimer' = FALSE /\ UNCHANGED <<socketState, ws, wsState, pingTimer>>
        BY <1>4, <3>2 DEF ConnectTimeout
      <4> QED BY <1>0, <4>1 DEF ClientTyped
    <3> QED BY <3>1, <3>2
  <2> QED BY <1>4, <2>1, GivenTypes DEF ConnectTimeout
<1>5. ASSUME NEW i \in Ws, Opened(i) PROVE ClientTyped' /\ Traffic'
  <2>1. ClientTyped'
    BY <1>0, <1>5 DEF ClientTyped, Opened
  <2>2. Traffic'
    BY <1>5, GivenTypes
  <2> QED BY <2>1, <2>2
<1>6. ASSUME NEW i \in Ws, Failed(i) \/ WsClosed(i) PROVE ClientTyped' /\ Traffic'
  <2>1. ClientTyped'
    BY <1>0, <1>6 DEF ClientTyped, Failed, WsClosed
  <2>2. UNCHANGED <<messageQueue, offered, kept, handed>>
    BY <1>6 DEF Failed, WsClosed
  <2> QED BY <2>1, <2>2, GivenTypes
<1>7. CASE UNCHANGED clientVars
  <2>1. ClientTyped' /\ UNCHANGED <<messageQueue, offered, kept, handed>>
    BY <1>0, <1>7 DEF ClientTyped, clientVars
  <2> QED BY <2>1, GivenTypes
<1>8. CASE ServerStart \/ ServerStop \/ \E k \in 1..MaxServers : Listening(k) \/ PeerCalls(k) \/ PeerGone(k)
  BY <1>7, <1>8 DEF ServerStart, ServerStop, Listening, PeerCalls, PeerGone
<1> QED BY <1>1, <1>2, <1>3, <1>4, <1>5, <1>6, <1>8 DEF SocketNext

LEMMA ServerTypes ==
    ASSUME SocketTypeOK, SocketNext
    PROVE  ServerTyped'
<1>0. ServerTyped
  BY SocketParts
<1>1. CASE ServerStart
  <2> DEFINE unmade == {k \in 1..MaxServers : serverState[k] = "unmade"}
             i == CHOOSE k \in unmade : \A l \in unmade : k <= l
  <2>1. i \in 1..MaxServers
    <3>1. unmade \subseteq Nat /\ unmade # {}
      BY <1>1 DEF ServerStart
    <3>2. \E k \in unmade : \A j \in unmade : k <= j
      <4> HIDE DEF unmade
      <4> QED BY <3>1, LeastOf
    <3>3. i \in unmade
      <4> HIDE DEF unmade
      <4> QED BY <3>2, Zenon
    <3> HIDE DEF i
    <3> QED BY <3>3
  <2>2. /\ server' = i /\ serverState' = [serverState EXCEPT ![i] = "binding"]
        /\ UNCHANGED <<serverRunning, sockets>>
    BY <1>1 DEF ServerStart
  <2> HIDE DEF i, unmade
  <2> QED BY <1>0, <2>1, <2>2, SocketAssumption DEF ServerTyped
<1>2. CASE ServerStop
  <2>1. serverState' = IF server = 0 THEN serverState ELSE [serverState EXCEPT ![server] = "closed"]
    BY <1>2 DEF ServerStop, ServerClosed
  <2>2. server # 0 => server \in 1..MaxServers
    BY <1>0, SocketAssumption DEF ServerTyped
  <2>3. serverState' \in [1..MaxServers -> {"unmade", "binding", "listening", "closed"}]
    BY <1>0, <2>1, <2>2 DEF ServerTyped
  <2>4. server' \in 0..MaxServers /\ serverRunning' = FALSE /\ sockets' = {}
    BY <1>2, SocketAssumption DEF ServerStop
  <2> QED BY <2>3, <2>4 DEF ServerTyped
<1>3. ASSUME NEW k \in 1..MaxServers, Listening(k) \/ PeerCalls(k) \/ PeerGone(k) PROVE ServerTyped'
  <2>1. CASE Listening(k)
    <3>1. PICK s \in {"closed", "listening"} : serverState' = [serverState EXCEPT ![k] = s]
      BY <2>1 DEF Listening
    <3>2. serverState' \in [1..MaxServers -> {"unmade", "binding", "listening", "closed"}]
      BY <1>0, <3>1 DEF ServerTyped
    <3>3. serverRunning' \in BOOLEAN
      BY <1>0, <2>1 DEF Listening, ServerTyped
    <3> QED BY <1>0, <2>1, <3>2, <3>3 DEF ServerTyped, Listening
  <2>2. CASE PeerCalls(k) \/ PeerGone(k)
    BY <1>0, <2>2 DEF ServerTyped, PeerCalls, PeerGone
  <2> QED BY <1>3, <2>1, <2>2
<1>4. CASE UNCHANGED serverVars
  BY <1>0, <1>4 DEF ServerTyped, serverVars
<1>5. CASE \/ Send \/ Connect \/ DisconnectSocket \/ ConnectTimeout
           \/ \E i \in Ws : Opened(i) \/ Failed(i) \/ WsClosed(i)
  BY <1>4, <1>5 DEF Send, Connect, DisconnectSocket, ConnectTimeout, Opened, Failed, WsClosed
<1> QED BY <1>1, <1>2, <1>3, <1>5 DEF SocketNext

LEMMA SocketBegins == SocketInit => SocketTypeOK /\ SocketInv /\ HandedInOrder
<1> SUFFICES ASSUME SocketInit PROVE SocketTypeOK /\ SocketInv /\ HandedInOrder
  OBVIOUS
<1>0. MaxConnects \in Nat /\ MaxQueueSize \in Nat /\ MaxServers \in Nat
  BY SocketAssumption
<1>1. SocketTypeOK
  <2>1. ClientTyped
    BY DEF SocketInit, ClientTyped
  <2>2. Traffic
    BY <1>0 DEF SocketInit, Traffic
  <2>3. ServerTyped
    <3>1. server \in 0..MaxServers /\ serverRunning = FALSE /\ sockets = {}
      BY <1>0 DEF SocketInit
    <3>2. serverState \in [1..MaxServers -> {"unmade", "binding", "listening", "closed"}]
      BY DEF SocketInit
    <3> QED BY <3>1, <3>2 DEF ServerTyped
  <2> QED BY <2>1, <2>2, <2>3, SocketParts
<1>2. SocketInv
  BY DEF SocketInit, SocketInv
<1>3. \A i \in Ws : handed[i] = <<>>
  BY DEF SocketInit
<1>4. Begins(handed)
  BY <1>3 DEF Begins
<1>5. Sent(handed, messageQueue, kept)
  <2>1. Payloads(handed) = [i \in 1..MaxConnects |-> <<>>]
    BY <1>3 DEF Payloads, Payload, Ws
  <2>2. FlattenSeq(Payloads(handed)) = <<>>
    BY <1>0, <2>1, FlattenNothing
  <2>3. messageQueue = <<>> /\ kept = <<>>
    BY DEF SocketInit
  <2>4. <<>> \o <<>> = <<>>
    OBVIOUS
  <2> QED BY <2>2, <2>3, <2>4 DEF Sent
<1> QED BY <1>1, <1>2, <1>4, <1>5, OrderIs

\* The socket, its web sockets, its queue and the server's stay within their
\* types, and the queue within its limit, whoever calls and whatever closes.
THEOREM SocketTypeCorrect == SocketSpec => []SocketTypeOK
<1>1. SocketInit => SocketTypeOK
  BY SocketBegins
<1>2. SocketTypeOK /\ [SocketNext]_socketVars => SocketTypeOK'
  <2> SUFFICES ASSUME SocketTypeOK, [SocketNext]_socketVars PROVE SocketTypeOK'
    OBVIOUS
  <2>1. CASE SocketNext
    BY <2>1, ClientTypes, ServerTypes, SocketParts DEF SocketTypeOK, ClientTyped, Traffic, ServerTyped
  <2>2. CASE UNCHANGED socketVars
    BY <2>2 DEF SocketTypeOK, socketVars, clientVars, serverVars, Ws, Outgoing, Handshake
  <2> QED BY <2>1, <2>2
<1> QED BY <1>1, <1>2, PTL DEF SocketSpec

\* Over all connections, what send() sent or queued was given to web sockets
\* once, in order and after one handshake each, except for what still waits in
\* the queue: open, close, error, the timeout of connect() and disconnect() keep
\* it so when connect() is called after the older web sockets have closed.
THEOREM MessagesInOrder == ASSUME Patient PROVE SocketSpec => []HandedInOrder
<1> DEFINE Inv == SocketTypeOK /\ SocketInv /\ HandedInOrder
<1>1. SocketInit => Inv
  BY SocketBegins
<1>2. Inv /\ SocketTypeOK' /\ [SocketNext]_socketVars => Inv'
  <2> SUFFICES ASSUME SocketTypeOK, SocketInv, HandedInOrder, [SocketNext]_socketVars
               PROVE  SocketInv' /\ HandedInOrder'
    OBVIOUS
  <2>1. CASE Send
    BY <2>1, SendKeeps
  <2>2. CASE Connect
    BY <2>2, ConnectKeeps
  <2>3. CASE \/ DisconnectSocket \/ ConnectTimeout
             \/ \E i \in Ws : Failed(i) \/ WsClosed(i)
    BY <2>3, EndKeeps
  <2>4. ASSUME NEW i \in Ws, Opened(i) PROVE SocketInv' /\ HandedInOrder'
    BY <2>4, OpenedKeeps
  <2>5. CASE UNCHANGED clientVars
    BY <2>5 DEF SocketInv, HandedInOrder, clientVars
  <2>6. CASE ServerStart \/ ServerStop \/ \E k \in 1..MaxServers : Listening(k) \/ PeerCalls(k) \/ PeerGone(k)
    BY <2>5, <2>6 DEF ServerStart, ServerStop, Listening, PeerCalls, PeerGone
  <2>7. CASE UNCHANGED socketVars
    BY <2>5, <2>7 DEF socketVars
  <2> QED BY <2>1, <2>2, <2>3, <2>4, <2>6, <2>7 DEF SocketNext
<1>3. Inv => HandedInOrder
  OBVIOUS
<1>4. SocketSpec => []SocketTypeOK
  BY SocketTypeCorrect
<1> QED BY <1>1, <1>2, <1>3, <1>4, PTL DEF SocketSpec

-----------------------------------------------------------------------------
(* The book of addresses: an address is in it once, in its place.           *)

\* A sequence without one of its entries
LEMMA RemovedIs ==
    ASSUME NEW S, NEW b \in Seq(S), NEW i \in 1..Len(b)
    PROVE  /\ RemoveAt(b, i) \in Seq(S) /\ Len(RemoveAt(b, i)) = Len(b) - 1
           /\ \A k \in 1..(Len(b) - 1) : RemoveAt(b, i)[k] = IF k < i THEN b[k] ELSE b[k + 1]
<1> DEFINE s == SubSeq(b, 1, i - 1)
           t == SubSeq(b, i + 1, Len(b))
<1>0. Len(b) \in Nat /\ i \in Nat /\ 1 <= i /\ i <= Len(b)
  OBVIOUS
<1>1. s \in Seq(S) /\ Len(s) = i - 1 /\ \A k \in 1..(i - 1) : s[k] = b[k]
  BY <1>0, SubSeqProperties
<1>2. t \in Seq(S) /\ Len(t) = Len(b) - i /\ \A k \in 1..(Len(b) - i) : t[k] = b[k + i]
  <2>1. t \in Seq(S) /\ Len(t) = IF i + 1 <= Len(b) THEN Len(b) - (i + 1) + 1 ELSE 0
    BY <1>0, SubSeqProperties
  <2>2. \A k \in 1..(Len(b) - (i + 1) + 1) : t[k] = b[(i + 1) + k - 1]
    BY <1>0, SubSeqProperties
  <2> HIDE DEF t
  <2>3. Len(t) = Len(b) - i
    BY <1>0, <2>1
  <2>4. ASSUME NEW k \in 1..(Len(b) - i) PROVE t[k] = b[k + i]
    <3>1. k \in 1..(Len(b) - (i + 1) + 1) /\ (i + 1) + k - 1 = k + i
      BY <1>0
    <3> QED BY <2>2, <3>1
  <2> QED BY <2>1, <2>3, <2>4
<1>3. RemoveAt(b, i) = s \o t
  BY DEF RemoveAt
<1> HIDE DEF s, t
<1>4. s \o t \in Seq(S) /\ Len(s \o t) = Len(b) - 1
  <2>1. s \o t \in Seq(S) /\ Len(s \o t) = Len(s) + Len(t)
    BY <1>1, <1>2, ConcatProperties
  <2>2. Len(s) + Len(t) = Len(b) - 1
    BY <1>0, <1>1, <1>2
  <2> QED BY <2>1, <2>2
<1>5. ASSUME NEW k \in 1..(Len(b) - 1) PROVE (s \o t)[k] = IF k < i THEN b[k] ELSE b[k + 1]
  <2>1. (s \o t)[k] = IF k <= Len(s) THEN s[k] ELSE t[k - Len(s)]
    BY <1>0, <1>1, <1>2, ConcatProperties
  <2>2. CASE k < i
    BY <1>0, <1>1, <2>1, <2>2
  <2>3. CASE ~(k < i)
    <3>1. k - (i - 1) \in 1..(Len(b) - i) /\ k - (i - 1) + i = k + 1
      BY <1>0, <2>3
    <3>2. t[k - (i - 1)] = b[k + 1]
      BY <1>2, <3>1
    <3> QED BY <1>0, <1>1, <2>1, <2>3, <3>2
  <2> QED BY <2>2, <2>3
<1> QED BY <1>3, <1>4, <1>5

\* What is left when an entry goes are other entries, in their order.
LEMMA RemovedWhole ==
    ASSUME NEW b \in Seq(Stored), OneEach(b), NEW i \in 1..Len(b)
    PROVE  /\ RemoveAt(b, i) \in Seq(Stored) /\ OneEach(RemoveAt(b, i))
           /\ Len(RemoveAt(b, i)) = Len(b) - 1
           /\ In(RemoveAt(b, i)) \subseteq In(b) \ {b[i].address}
<1> DEFINE r == RemoveAt(b, i)
           Was(k) == IF k < i THEN k ELSE k + 1
<1>1. /\ r \in Seq(Stored) /\ Len(r) = Len(b) - 1
      /\ \A k \in 1..(Len(b) - 1) : r[k] = IF k < i THEN b[k] ELSE b[k + 1]
  BY RemovedIs
<1> HIDE DEF r
<1>0. Len(b) \in Nat /\ DOMAIN b = 1..Len(b) /\ DOMAIN r = 1..(Len(b) - 1) /\ i \in Nat
  BY <1>1
<1>2. ASSUME NEW k \in 1..(Len(b) - 1)
      PROVE  r[k] = b[Was(k)] /\ Was(k) \in 1..Len(b) /\ Was(k) # i
  <2>1. CASE k < i
    BY <1>0, <1>1, <2>1
  <2>2. CASE ~(k < i)
    BY <1>0, <1>1, <2>2
  <2> QED BY <2>1, <2>2
<1>3. \A k, l \in 1..(Len(b) - 1) : Was(k) = Was(l) => k = l
  BY <1>0
<1> HIDE DEF Was
<1>4. OneEach(r)
  BY <1>0, <1>2, <1>3 DEF OneEach
<1>5. In(r) \subseteq In(b) \ {b[i].address}
  BY <1>0, <1>2 DEF In, OneEach
<1> QED BY <1>1, <1>4, <1>5 DEF r

LEMMA WithoutIs ==
    ASSUME NEW b, Book(b), NEW a
    PROVE  Book(Without(b, a)) /\ a \notin In(Without(b, a))
<1>0. b \in Seq(Stored) /\ OneEach(b) /\ Len(b) <= BookLimit /\ Len(b) \in Nat /\ BookLimit \in Nat
      /\ DOMAIN b = 1..Len(b)
  BY AddressBookAssumption DEF Book
<1>1. CASE a \in In(b)
  <2> DEFINE i == PlaceOf(b, a)
  <2>1. i \in 1..Len(b) /\ b[i].address = a
    BY <1>0, <1>1 DEF PlaceOf, In
  <2>2. Without(b, a) = RemoveAt(b, i)
    BY <1>1 DEF Without
  <2> HIDE DEF i
  <2>3. /\ RemoveAt(b, i) \in Seq(Stored) /\ OneEach(RemoveAt(b, i))
        /\ Len(RemoveAt(b, i)) = Len(b) - 1
        /\ In(RemoveAt(b, i)) \subseteq In(b) \ {b[i].address}
    BY <1>0, <2>1, RemovedWhole, Zenon
  <2> QED BY <1>0, <2>1, <2>2, <2>3 DEF Book
<1>2. CASE a \notin In(b)
  BY <1>2 DEF Without
<1> QED BY <1>1, <1>2

\* Some entry is the worst of a book that has any.
LEMMA WorstIs ==
    ASSUME NEW b \in Seq(Stored), b # <<>>
    PROVE  Worst(b) \in 1..Len(b)
<1> DEFINE Score(i) == b[i].score
           Worse(i, j) == Score(i) < Score(j) \/ (Score(i) = Score(j) /\ i <= j)
           T == {n \in 1..Len(b) : ~\E i \in 1..n : \A j \in 1..n : Worse(i, j)}
<1>0. Len(b) \in Nat \ {0} /\ DOMAIN b = 1..Len(b) /\ \A i \in 1..Len(b) : Score(i) \in Int
  <2>1. Len(b) \in Nat \ {0} /\ DOMAIN b = 1..Len(b) /\ \A i \in 1..Len(b) : b[i] \in Stored
    OBVIOUS
  <2> QED BY <2>1 DEF Stored
<1>1. \A i \in DOMAIN b, j \in DOMAIN b :
         Worse(i, j) <=> b[i].score < b[j].score \/ (b[i].score = b[j].score /\ i <= j)
  OBVIOUS
<1> HIDE DEF Score
<1>2. T = {}
  <2> SUFFICES ASSUME T # {} PROVE FALSE
    OBVIOUS
  <2>1. PICK n \in T : \A k \in T : n <= k
    <3>1. T \subseteq Nat
      OBVIOUS
    <3> HIDE DEF T
    <3> QED BY <3>1, LeastOf
  <2>2. n \in 1..Len(b) /\ n \in Nat /\ ~\E i \in 1..n : \A j \in 1..n : Worse(i, j)
    OBVIOUS
  <2>3. n # 1
    <3> SUFFICES ASSUME n = 1 PROVE FALSE
      OBVIOUS
    <3>1. Score(1) \in Int
      BY <1>0
    <3>2. Worse(1, 1)
      BY <3>1
    <3>3. 1..n = {1}
      OBVIOUS
    <3> HIDE DEF Worse
    <3> QED BY <2>2, <3>2, <3>3
  <2>4. n - 1 \in 1..Len(b) /\ n - 1 \notin T
    <3> HIDE DEF T
    <3>1. n - 1 \in 1..Len(b) /\ ~(n <= n - 1)
      BY <1>0, <2>2, <2>3
    <3> QED BY <2>1, <3>1
  <2>5. PICK i \in 1..(n - 1) : \A j \in 1..(n - 1) : Worse(i, j)
    BY <2>4
  <2> HIDE DEF T
  <2>6. i \in Nat /\ i \in 1..Len(b) /\ i < n /\ i \in 1..n /\ Score(i) \in Int /\ Score(n) \in Int
    <3> HIDE DEF Worse
    <3>1. i \in Nat /\ i \in 1..Len(b) /\ i < n /\ i \in 1..n
      BY <1>0, <2>2
    <3> QED BY <1>0, <2>2, <3>1
  <2>7. \A j \in 1..n : j = n \/ j \in 1..(n - 1)
    BY <2>2
  <2>8. CASE Worse(i, n)
    <3> HIDE DEF Worse
    <3> QED BY <2>2, <2>5, <2>6, <2>7, <2>8
  <2>9. CASE ~Worse(i, n)
    <3>1. Score(n) < Score(i)
      BY <2>2, <2>6, <2>9
    <3>2. ASSUME NEW j \in 1..n PROVE Worse(n, j)
      <4>1. CASE j = n
        BY <2>6, <4>1
      <4>2. CASE j # n
        <5>1. j \in 1..(n - 1) /\ Score(j) \in Int
          BY <1>0, <2>2, <2>7, <4>2
        <5>2. Worse(i, j)
          BY <2>5, <5>1
        <5> QED BY <2>6, <3>1, <5>1, <5>2
      <4> QED BY <4>1, <4>2
    <3>3. n \in 1..n
      BY <2>2
    <3> HIDE DEF Worse
    <3> QED BY <2>2, <3>2, <3>3
  <2> HIDE DEF Worse
  <2> QED BY <2>8, <2>9
<1>3. \E i \in 1..Len(b) : \A j \in 1..Len(b) : Worse(i, j)
  <2>1. Len(b) \in 1..Len(b) /\ Len(b) \notin T
    <3> HIDE DEF T
    <3> QED BY <1>0, <1>2
  <2> HIDE DEF Worse
  <2> QED BY <2>1
<1> HIDE DEF Worse
<1>4. \E i \in DOMAIN b : \A j \in DOMAIN b :
         b[i].score < b[j].score \/ (b[i].score = b[j].score /\ i <= j)
  BY <1>0, <1>1, <1>3
<1> QED BY <1>0, <1>4 DEF Worst

\* An entry at the end, for an address that had none, and one too many goes.
LEMMA EnteredWhole ==
    ASSUME NEW b, Book(b), NEW e \in Stored
    PROVE  Book(Pruned(Append(Without(b, e.address), e)))
<1> DEFINE w == Without(b, e.address)
           l == Append(w, e)
<1>1. w \in Seq(Stored) /\ OneEach(w) /\ Len(w) <= BookLimit /\ Len(w) \in Nat
      /\ DOMAIN w = 1..Len(w) /\ e.address \notin In(w) /\ BookLimit \in Nat
  <2>1. Book(w) /\ e.address \notin In(w)
    BY WithoutIs
  <2> HIDE DEF w
  <2> QED BY <2>1, AddressBookAssumption DEF Book
<1> HIDE DEF w
<1>2. l \in Seq(Stored) /\ Len(l) = Len(w) + 1 /\ DOMAIN l = 1..(Len(w) + 1)
      /\ (\A k \in 1..Len(w) : l[k] = w[k]) /\ l[Len(w) + 1] = e /\ l # <<>>
  BY <1>1
<1>3. OneEach(l)
  BY <1>1, <1>2 DEF OneEach, In
<1> HIDE DEF l
<1>4. ASSUME Len(l) <= BookLimit PROVE Book(Pruned(l))
  BY <1>2, <1>3, <1>4 DEF Pruned, Book
<1>5. ASSUME ~(Len(l) <= BookLimit) PROVE Book(Pruned(l))
  <2>1. Worst(l) \in 1..Len(l)
    BY <1>2, WorstIs
  <2>2. /\ RemoveAt(l, Worst(l)) \in Seq(Stored) /\ OneEach(RemoveAt(l, Worst(l)))
        /\ Len(RemoveAt(l, Worst(l))) = Len(l) - 1
    BY <1>2, <1>3, <2>1, RemovedWhole
  <2> QED BY <1>1, <1>2, <1>5, <2>2 DEF Pruned, Book
<1>6. Book(Pruned(l))
  BY <1>4, <1>5
<1> QED BY <1>6 DEF l, w

\* A new entry for an address that had one
LEMMA ReplacedWhole ==
    ASSUME NEW b, Book(b), NEW a \in In(b), NEW e \in Stored, e.address = a
    PROVE  Book(Append(Without(b, a), e))
<1> DEFINE i == PlaceOf(b, a)
           w == RemoveAt(b, i)
           l == Append(w, e)
<1>0. b \in Seq(Stored) /\ OneEach(b) /\ Len(b) <= BookLimit /\ Len(b) \in Nat /\ BookLimit \in Nat
      /\ DOMAIN b = 1..Len(b)
  BY AddressBookAssumption DEF Book
<1>1. i \in 1..Len(b) /\ b[i].address = a /\ Without(b, a) = w
  BY <1>0 DEF PlaceOf, In, Without
<1> HIDE DEF i
<1>2. /\ w \in Seq(Stored) /\ OneEach(w) /\ Len(w) = Len(b) - 1
      /\ In(w) \subseteq In(b) \ {b[i].address}
  BY <1>0, <1>1, RemovedWhole, Zenon
<1> HIDE DEF w
<1>3. Len(w) \in Nat /\ DOMAIN w = 1..Len(w) /\ a \notin In(w) /\ Len(w) + 1 <= BookLimit
  BY <1>0, <1>1, <1>2
<1>4. l \in Seq(Stored) /\ Len(l) = Len(w) + 1 /\ DOMAIN l = 1..(Len(w) + 1)
      /\ (\A k \in 1..Len(w) : l[k] = w[k]) /\ l[Len(w) + 1] = e
  BY <1>2, <1>3
<1>5. OneEach(l)
  BY <1>2, <1>3, <1>4 DEF OneEach, In
<1> HIDE DEF l
<1>6. Book(l)
  BY <1>3, <1>4, <1>5 DEF Book
<1> QED BY <1>1, <1>6 DEF l

LEMMA ScoreIs ==
    ASSUME NEW b \in Seq(Stored), NEW a
    PROVE  ScoreOf(b, a) \in Int
<1>1. CASE a \in In(b)
  <2>1. PlaceOf(b, a) \in DOMAIN b
    BY <1>1 DEF PlaceOf, In
  <2>2. b[PlaceOf(b, a)] \in Stored
    BY <2>1
  <2>3. b[PlaceOf(b, a)].score \in Int
    BY <2>2 DEF Stored
  <2> QED BY <1>1, <2>3 DEF ScoreOf
<1>2. CASE a \notin In(b)
  BY <1>2 DEF ScoreOf
<1> QED BY <1>1, <1>2

LEMMA ScoredWhole ==
    ASSUME NEW b, Book(b), NEW a \in Address, NEW s \in Int
    PROVE  Book(Scored(b, a, s))
<1> DEFINE e == [address |-> a, old |-> FALSE, score |-> s]
<1>1. e \in Stored /\ e.address = a
  BY DEF Stored
<1> HIDE DEF e
<1>2. Book(Pruned(Append(Without(b, e.address), e)))
  BY <1>1, EnteredWhole
<1> QED BY <1>1, <1>2 DEF Scored, e

LEMMA SeenWhole ==
    ASSUME NEW b, Book(b), NEW a \in Address
    PROVE  Book(Seen(b, a))
<1> DEFINE e == [address |-> a, old |-> FALSE, score |-> ScoreOf(b, a)]
<1>1. e \in Stored /\ e.address = a
  BY ScoreIs DEF Stored, Book
<1> HIDE DEF e
<1>2. Book(Pruned(Append(Without(b, e.address), e)))
  BY <1>1, EnteredWhole
<1> QED BY <1>1, <1>2 DEF Seen, e

LEMMA TakenWhole ==
    ASSUME NEW b, Book(b), NEW list \in Seq(Address)
    PROVE  Book(Taken(b, list))
<1> DEFINE taken == CHOOSE f : f = [n \in 0..Len(list) |->
                                      IF n = 0 THEN b ELSE Scored(f[n - 1], list[n], 0)]
           Grows(f, n) == f = [k \in 0..n |-> IF k = 0 THEN b ELSE Scored(f[k - 1], list[k], 0)]
           T == {n \in 0..Len(list) : ~\E f : Grows(f, n) /\ \A k \in 0..n : Book(f[k])}
<1>0. Len(list) \in Nat /\ \A k \in 1..Len(list) : list[k] \in Address
  OBVIOUS
<1>1. T = {}
  <2> SUFFICES ASSUME T # {} PROVE FALSE
    OBVIOUS
  <2>1. PICK n \in T : \A k \in T : n <= k
    <3>1. T \subseteq Nat
      OBVIOUS
    <3> HIDE DEF T
    <3> QED BY <3>1, LeastOf
  <2>2. n \in 0..Len(list) /\ n \in Nat /\ ~\E f : Grows(f, n) /\ \A k \in 0..n : Book(f[k])
    OBVIOUS
  <2>3. n # 0
    <3> SUFFICES ASSUME n = 0 PROVE FALSE
      OBVIOUS
    <3> DEFINE f == [k \in 0..0 |-> b]
               F == [k \in 0..0 |-> IF k = 0 THEN b ELSE Scored(f[k - 1], list[k], 0)]
    <3>1. f = F
      <4>1. \A k \in 0..0 : f[k] = F[k]
        OBVIOUS
      <4> QED BY <4>1
    <3>2. Grows(f, 0)
      BY <3>1
    <3>3. \A k \in 0..0 : Book(f[k])
      OBVIOUS
    <3> HIDE DEF f, Grows
    <3> QED BY <2>2, <3>2, <3>3
  <2>4. n - 1 \in 0..Len(list) /\ n - 1 \notin T
    <3> HIDE DEF T
    <3>1. n - 1 \in 0..Len(list) /\ ~(n <= n - 1)
      BY <1>0, <2>2, <2>3
    <3> QED BY <2>1, <3>1
  <2>5. PICK g : Grows(g, n - 1) /\ \A k \in 0..(n - 1) : Book(g[k])
    BY <2>4
  <2> DEFINE f == [k \in 0..n |-> IF k = n THEN Scored(g[n - 1], list[n], 0) ELSE g[k]]
             F == [k \in 0..n |-> IF k = 0 THEN b ELSE Scored(f[k - 1], list[k], 0)]
  <2>6. ASSUME NEW k \in 0..n PROVE f[k] = F[k] /\ Book(f[k])
    <3>1. CASE k = n
      <4>1. n - 1 \in 0..n /\ n - 1 # n /\ n - 1 \in 0..(n - 1) /\ n \in 1..Len(list)
        BY <1>0, <2>2, <2>3
      <4>2. f[n - 1] = g[n - 1] /\ f[n] = Scored(g[n - 1], list[n], 0)
        BY <2>2, <4>1
      <4>3. Book(Scored(g[n - 1], list[n], 0))
        <5>1. Book(g[n - 1]) /\ list[n] \in Address /\ 0 \in Int
          BY <1>0, <2>5, <4>1
        <5> QED BY <5>1, ScoredWhole
      <4>4. F[n] = Scored(f[n - 1], list[n], 0)
        BY <2>2, <2>3
      <4> HIDE DEF f, F
      <4> QED BY <3>1, <4>2, <4>3, <4>4
    <3>2. CASE k # n
      <4>1. k \in 0..(n - 1) /\ (k # 0 => k - 1 \in 0..n /\ k - 1 # n)
        BY <2>2, <3>2
      <4>2. g[k] = IF k = 0 THEN b ELSE Scored(g[k - 1], list[k], 0)
        BY <2>5, <4>1
      <4>3. f[k] = g[k] /\ (k # 0 => f[k - 1] = g[k - 1])
        BY <3>2, <4>1
      <4>4. F[k] = IF k = 0 THEN b ELSE Scored(f[k - 1], list[k], 0)
        OBVIOUS
      <4> HIDE DEF f, F
      <4> QED BY <2>5, <4>1, <4>2, <4>3, <4>4
    <3> QED BY <3>1, <3>2
  <2>7. f = F
    <3> HIDE DEF F
    <3>1. F = [k \in 0..n |-> F[k]]
      BY DEF F
    <3> QED BY <2>6, <3>1
  <2>8. Grows(f, n)
    BY <2>7
  <2> HIDE DEF f, F, Grows
  <2> QED BY <2>2, <2>6, <2>8
<1>2. Len(list) \in 0..Len(list) /\ Len(list) \notin T
  <2> HIDE DEF T
  <2> QED BY <1>0, <1>1
<1>3. PICK f : Grows(f, Len(list)) /\ \A k \in 0..Len(list) : Book(f[k])
  BY <1>2
<1>4. Grows(taken, Len(list))
  BY <1>3
<1>5. taken = f
  <2> HIDE DEF taken
  <2> DEFINE U == {k \in 0..Len(list) : taken[k] # f[k]}
  <2>1. U = {}
    <3> SUFFICES ASSUME U # {} PROVE FALSE
      OBVIOUS
    <3>1. PICK k \in U : \A l \in U : k <= l
      <4>1. U \subseteq Nat
        OBVIOUS
      <4> HIDE DEF U
      <4> QED BY <4>1, LeastOf
    <3>2. k \in 0..Len(list) /\ k \in Nat /\ taken[k] # f[k]
      OBVIOUS
    <3>3. /\ taken[k] = IF k = 0 THEN b ELSE Scored(taken[k - 1], list[k], 0)
          /\ f[k] = IF k = 0 THEN b ELSE Scored(f[k - 1], list[k], 0)
      BY <1>3, <1>4, <3>2
    <3>4. k # 0
      BY <3>2, <3>3
    <3>5. k - 1 \in 0..Len(list) /\ k - 1 \notin U
      <4> HIDE DEF U
      <4>1. k - 1 \in 0..Len(list) /\ ~(k <= k - 1)
        BY <1>0, <3>2, <3>4
      <4> QED BY <3>1, <4>1
    <3>6. taken[k - 1] = f[k - 1]
      BY <3>5
    <3> QED BY <3>2, <3>3, <3>4, <3>6
  <2>2. \A k \in 0..Len(list) : taken[k] = f[k]
    BY <2>1
  <2>3. taken = [k \in 0..Len(list) |-> taken[k]] /\ f = [k \in 0..Len(list) |-> f[k]]
    BY <1>3, <1>4
  <2> QED BY <2>2, <2>3
<1>6. Taken(b, list) = taken[Len(list)]
  BY DEF Taken
<1> HIDE DEF taken
<1> QED BY <1>2, <1>3, <1>5, <1>6

LEMMA BookStep ==
    ASSUME BookTypeOK, BookNext
    PROVE  BookTypeOK'
<1>0. Book(book) /\ Book(file) /\ restarts \in Nat
  BY DEF BookTypeOK
<1>1. ASSUME NEW a \in Address, \/ PeerConnected(a) \/ PeerDisconnected(a) \/ RemoveAddress(a)
                                \/ \E delta \in Scores : UpdatePeerScore(a, delta)
      PROVE  Book(book') /\ UNCHANGED <<file, restarts>>
  <2>1. CASE PeerConnected(a)
    BY <1>0, <2>1, ScoredWhole DEF PeerConnected
  <2>2. CASE PeerDisconnected(a)
    BY <1>0, <2>2, SeenWhole DEF PeerDisconnected
  <2>3. CASE RemoveAddress(a)
    BY <1>0, <2>3, WithoutIs DEF RemoveAddress
  <2>4. ASSUME NEW delta \in Scores, UpdatePeerScore(a, delta)
        PROVE  Book(book') /\ UNCHANGED <<file, restarts>>
    <3> DEFINE s == ScoreOf(book, a) + delta
    <3>1. a \in In(book) /\ s \in Int
      BY <2>4, AddressBookAssumption DEF UpdatePeerScore
    <3>2. /\ book' = Append(Without(book, a), [address |-> a, old |-> FALSE, score |-> s])
          /\ UNCHANGED <<file, restarts>>
      BY <2>4 DEF UpdatePeerScore
    <3> HIDE DEF s
    <3> DEFINE e == [address |-> a, old |-> FALSE, score |-> s]
    <3>3. e \in Stored /\ e.address = a
      BY <3>1 DEF Stored
    <3> HIDE DEF e
    <3>4. Book(Append(Without(book, a), e))
      BY <1>0, <3>1, <3>3, ReplacedWhole
    <3> QED BY <3>2, <3>4 DEF e
  <2> QED BY <1>1, <2>1, <2>2, <2>3, <2>4
<1>2. ASSUME NEW list \in SeqOf(Address, MaxListed), NEW again \in BOOLEAN, ListReceived(list, again)
      PROVE  BookTypeOK'
  <2>1. list \in Seq(Address)
    BY AddressBookAssumption DEF SeqOf
  <2>2. Book(Taken(book, list)) /\ Book(Taken(Taken(book, list), list))
    BY <1>0, <2>1, TakenWhole
  <2>3. Book(book')
    BY <1>2, <2>2 DEF ListReceived
  <2>4. file' \in {file, book'} /\ restarts' = restarts
    BY <1>2 DEF ListReceived
  <2> QED BY <1>0, <2>3, <2>4 DEF BookTypeOK
<1>3. CASE SaveBook
  BY <1>0, <1>3 DEF SaveBook, BookTypeOK
<1>4. CASE TimeGoesBy
  <2>1. PICK i \in DOMAIN book :
          book' = [j \in DOMAIN book |-> [book[j] EXCEPT !.old = @ \/ j <= i]]
    BY <1>4 DEF TimeGoesBy
  <2>2. /\ book \in Seq(Stored) /\ DOMAIN book = 1..Len(book) /\ Len(book) \in Nat
        /\ OneEach(book) /\ Len(book) <= BookLimit
    BY <1>0 DEF Book
  <2>3. ASSUME NEW j \in DOMAIN book
        PROVE  book'[j] \in Stored /\ book'[j].address = book[j].address
    <3> DEFINE o == book[j].old \/ j <= i
    <3>1. book[j] \in Stored /\ o \in BOOLEAN
      BY <2>2
    <3>2. book'[j] = [book[j] EXCEPT !.old = o]
      BY <2>1
    <3> HIDE DEF o
    <3> QED BY <3>1, <3>2 DEF Stored
  <2>4. DOMAIN book' = 1..Len(book) /\ book' = [j \in 1..Len(book) |-> book'[j]]
    BY <2>1, <2>2
  <2>5. book' \in Seq(Stored) /\ Len(book') = Len(book)
    <3>1. book' \in [1..Len(book) -> Stored]
      BY <2>2, <2>3, <2>4
    <3> QED BY <2>2, <2>4, <3>1
  <2>6. OneEach(book')
    BY <2>2, <2>3, <2>4 DEF OneEach
  <2>7. Book(book')
    BY <2>2, <2>5, <2>6 DEF Book
  <2> QED BY <1>0, <1>4, <2>7 DEF BookTypeOK, TimeGoesBy
<1>5. CASE RestartNode
  <2>1. Book(<<>>)
    BY AddressBookAssumption DEF Book, OneEach
  <2> QED BY <1>0, <1>5, <2>1 DEF RestartNode, BookTypeOK
<1>6. ASSUME NEW a \in Address, \/ PeerConnected(a) \/ PeerDisconnected(a) \/ RemoveAddress(a)
                                \/ \E delta \in Scores : UpdatePeerScore(a, delta)
      PROVE  BookTypeOK'
  BY <1>0, <1>1, <1>6 DEF BookTypeOK
<1> QED BY <1>2, <1>3, <1>4, <1>5, <1>6 DEF BookNext

\* The book and what its file holds name no address twice and never more than
\* BookLimit, whatever lists arrive and whenever the process ends.
THEOREM BookTypeCorrect == BookSpec => []BookTypeOK
<1>1. BookInit => BookTypeOK
  BY AddressBookAssumption DEF BookInit, BookTypeOK, Book, OneEach
<1>2. BookTypeOK /\ [BookNext]_bookVars => BookTypeOK'
  <2> SUFFICES ASSUME BookTypeOK, [BookNext]_bookVars PROVE BookTypeOK'
    OBVIOUS
  <2>1. CASE BookNext
    BY <2>1, BookStep
  <2>2. CASE UNCHANGED bookVars
    BY <2>2 DEF BookTypeOK, bookVars
  <2> QED BY <2>1, <2>2
<1> QED BY <1>1, <1>2, PTL DEF BookSpec

-----------------------------------------------------------------------------
(* The search for seeds                                                     *)

\* A batch leaves what is not tried yet to later ones.
LEMMA BatchTypes ==
    ASSUME NEW rest \in SUBSET SeedAddress, Batch(rest)
    PROVE  /\ search' \in {"trying", "answered"} /\ seeds' \subseteq SeedAddress
           /\ trying' \in [SeedAddress -> {"no", "awaited", "reached", "failed"}]
<1>1. CASE rest = {}
  BY <1>1 DEF Batch, Untried
<1>2. CASE rest # {}
  BY <1>2 DEF Batch
<1> QED BY <1>1, <1>2

\* What the search for seeds finds are addresses, and a seed of the batch is
\* under way, reached or given up, whoever answers and in whatever order.
THEOREM SearchTypeCorrect == SearchSpec => []SearchTypeOK
<1>1. SearchInit => SearchTypeOK
  BY SearchAssumption DEF SearchInit, SearchTypeOK, Untried
<1>2. SearchTypeOK /\ [SearchNext]_searchVars => SearchTypeOK'
  <2> SUFFICES ASSUME SearchTypeOK, [SearchNext]_searchVars PROVE SearchTypeOK'
    OBVIOUS
  <2>1. ASSUME NEW as \in SUBSET SeedAddress, PeersWritten(as) PROVE SearchTypeOK'
    BY <2>1 DEF SearchTypeOK, PeersWritten
  <2>2. CASE Search
    <3>1. /\ searches' \in 0..MaxSearches /\ asked' \subseteq DnsSeed
      BY <2>2, SearchAssumption DEF SearchTypeOK, Search
    <3> QED BY <2>2, <3>1, SearchAssumption DEF SearchTypeOK, Search, Untried, fileVars
  <2>3. CASE TryFirst
    <3>1. /\ search' \in {"trying", "answered"} /\ seeds' \subseteq SeedAddress
          /\ trying' \in [SeedAddress -> {"no", "awaited", "reached", "failed"}]
      BY <2>3, BatchTypes DEF TryFirst, SearchTypeOK
    <3> QED BY <2>3, <3>1 DEF TryFirst, SearchTypeOK, fileVars
  <2>4. CASE BatchDone
    <3>1. /\ search' \in {"trying", "answered"} /\ seeds' \subseteq SeedAddress
          /\ trying' \in [SeedAddress -> {"no", "awaited", "reached", "failed"}]
      <4>1. CASE SeedsSuffice(reachable')
        BY <2>4, <4>1 DEF BatchDone, SearchTypeOK, Untried
      <4>2. CASE ~SeedsSuffice(reachable')
        <5>1. Batch(seeds) /\ seeds \in SUBSET SeedAddress
          BY <2>4, <4>2 DEF BatchDone, SearchTypeOK
        <5> QED BY <5>1, BatchTypes
      <4> QED BY <4>1, <4>2
    <3>2. reachable' \subseteq SeedAddress
      BY <2>4 DEF BatchDone, SearchTypeOK
    <3> QED BY <2>4, <3>1, <3>2 DEF BatchDone, SearchTypeOK, fileVars
  <2>5. ASSUME NEW d \in DnsSeed, NEW answer \in SUBSET SeedAddress, Resolved(d, answer)
        PROVE  SearchTypeOK'
    BY <2>5 DEF SearchTypeOK, Resolved, fileVars
  <2>6. ASSUME NEW a \in SeedAddress, NEW outcome \in {"reached", "failed"}, Tried(a, outcome)
        PROVE  SearchTypeOK'
    BY <2>6 DEF SearchTypeOK, Tried, fileVars
  <2>7. CASE UNCHANGED searchVars
    BY <2>7 DEF SearchTypeOK, searchVars, fileVars
  <2> QED BY <2>1, <2>2, <2>3, <2>4, <2>5, <2>6, <2>7 DEF SearchNext
<1> QED BY <1>1, <1>2, PTL DEF SearchSpec

-----------------------------------------------------------------------------
(* The parts side by side: a step of one is a step or a stutter of each.    *)

LEMMA PartsStep ==
    ASSUME [NetworkNext]_networkVars
    PROVE  /\ [Next]_vars /\ [RelayNext]_relayVars /\ [SocketNext]_socketVars
           /\ [IntegrationNext]_integrationVars /\ [ScoringNext]_scoringVars
           /\ [SearchNext]_searchVars /\ [BookNext]_bookVars
<1>1. CASE UNCHANGED networkVars
  BY <1>1, Zenon DEF networkVars
<1>2. CASE NetworkNext
  BY <1>2, Zenon DEF NetworkNext
<1> QED BY <1>1, <1>2

\* Every variable of the network layer's parts keeps its type when they run side
\* by side.
THEOREM NetworkTypeCorrect == NetworkSpec => []NetworkTypeOK
<1>1. NetworkInit => /\ Init /\ RelayInit /\ SocketInit /\ IntegrationInit /\ ScoringInit
                     /\ SearchInit /\ BookInit
  BY DEF NetworkInit
<1>2. [NetworkNext]_networkVars =>
        /\ [Next]_vars /\ [RelayNext]_relayVars /\ [SocketNext]_socketVars
        /\ [IntegrationNext]_integrationVars /\ [ScoringNext]_scoringVars
        /\ [SearchNext]_searchVars /\ [BookNext]_bookVars
  BY PartsStep
<1>3. /\ PeersTypeOK /\ RelayTypeOK /\ SocketTypeOK /\ IntegrationTypeOK
      /\ ScoringTypeOK /\ SearchTypeOK /\ BookTypeOK
      => NetworkTypeOK
  BY DEF NetworkTypeOK
<1>4. NetworkSpec => Spec /\ RelaySpec /\ SocketSpec /\ IntegrationSpec /\ ScoringSpec
                     /\ SearchSpec /\ BookSpec
  BY <1>1, <1>2, PTL DEF NetworkSpec, Spec, RelaySpec, SocketSpec, IntegrationSpec, ScoringSpec,
                         SearchSpec, BookSpec
<1> QED
  BY <1>3, <1>4, TypeCorrectness, RelayTypeCorrect, SocketTypeCorrect, IntegrationTypeCorrect,
     ScoringTypeCorrect, SearchTypeCorrect, BookTypeCorrect, PTL

=============================================================================
