------------------------------ MODULE MCNetwork ------------------------------
(***************************************************************************)
(* The network layer's parts side by side on small instances: the          *)
(* connection pool, the message relay, a socket and its server, the        *)
(* integration of two nodes, the scores of a peer, the search for seeds    *)
(* and the storage of addresses.  A behaviour belongs to one of them,      *)
(* "part"; the others stay as they began.                                  *)
(***************************************************************************)
EXTENDS Peers, MessageRelay, PeerSocket, Integration, PeerScoring, SeedSearch, AddressBook, TLC

CONSTANTS a1, a2, a3,      \* addresses
          r1, r2, cl, m1,  \* two relays, a client, and a message for it
          n1, n2,          \* the integrated nodes
          b1, b2, v1       \* a block, the one after it, and a vote

VARIABLE part

----------------------------------------------------------------------------
(* Instances *)

MCTarget == [m \in Msg |-> cl]

MCNeeds == (b1 :> {}) @@ (b2 :> {b1})

MCWeight ==
    [c \in Category |-> CASE c = "behavior" -> 700
                          [] c \in {"latency", "validator_status"} -> 200
                          [] c = "uptime" -> 300
                          [] OTHER -> 1]

MCLow == {-100, -50, -25}

MCScores == {-1, 0, 1}

----------------------------------------------------------------------------

networkVars == <<part, vars, relayVars, socketVars, integrationVars, scoringVars, searchVars,
                 bookVars>>

NetworkInit ==
    /\ part \in {"peers", "relay", "socket", "integration", "scoring", "search", "book"}
    /\ Init /\ RelayInit /\ SocketInit /\ IntegrationInit /\ ScoringInit /\ SearchInit /\ BookInit

NetworkNext ==
    /\ UNCHANGED part
    /\ \/ /\ part = "peers" /\ Next
          /\ UNCHANGED <<relayVars, socketVars, integrationVars, scoringVars, searchVars, bookVars>>
       \/ /\ part = "relay" /\ RelayNext
          /\ UNCHANGED <<vars, socketVars, integrationVars, scoringVars, searchVars, bookVars>>
       \/ /\ part = "socket" /\ SocketNext
          /\ UNCHANGED <<vars, relayVars, integrationVars, scoringVars, searchVars, bookVars>>
       \/ /\ part = "integration" /\ IntegrationNext
          /\ UNCHANGED <<vars, relayVars, socketVars, scoringVars, searchVars, bookVars>>
       \/ /\ part = "scoring" /\ ScoringNext
          /\ UNCHANGED <<vars, relayVars, socketVars, integrationVars, searchVars, bookVars>>
       \/ /\ part = "search" /\ SearchNext
          /\ UNCHANGED <<vars, relayVars, socketVars, integrationVars, scoringVars, bookVars>>
       \/ /\ part = "book" /\ BookNext
          /\ UNCHANGED <<vars, relayVars, socketVars, integrationVars, scoringVars, searchVars>>

\* The fairness of each part asks nothing of it while it stays as it began:
\* none of the steps it names can be taken there.
NetworkSpec ==
    /\ NetworkInit /\ [][NetworkNext]_networkVars
    /\ Fairness /\ RelayFairness /\ IntegrationFairness

\* Types: each part's variables keep to the values its code gives them.
NetworkTypeOK ==
    /\ PeersTypeOK /\ RelayTypeOK /\ SocketTypeOK /\ IntegrationTypeOK
    /\ ScoringTypeOK /\ SearchTypeOK /\ BookTypeOK
=============================================================================
