------------------------------ MODULE PeerSocket ------------------------------
(***************************************************************************)
(* The web sockets of a node (src/network/socket.js): the socket that      *)
(* calls a peer, and the server that peers call.                           *)
(*                                                                         *)
(* Every callback is one action.  The web sockets themselves are a         *)
(* library: one connects, opens or fails, and closes; one that fails or is *)
(* closed while it connects raises 'error' before 'close'.  The handlers   *)
(* of a web socket stay attached when this.ws has moved on.                *)
(***************************************************************************)
EXTENDS Integers, SequencesExt

CONSTANTS
    Patient,          \* TRUE when connect() waits until older web sockets have closed,
                      \* and start() of the server until the last one has been answered
    MaxQueueSize,
    MaxConnects, MaxSends, MaxServers   \* bounds of the model

ASSUME SocketAssumption ==
    /\ Patient \in BOOLEAN
    /\ {MaxQueueSize, MaxConnects, MaxSends, MaxServers} \subseteq Nat

Handshake == 0
Outgoing == Nat \ {Handshake}

Ws == 1..MaxConnects

VARIABLES
    socketState,    \* the state of the Socket
    ws,             \* this.ws, 0 for null
    wsState,        \* of every web socket made
    connectTimer,   \* the timeout of connect() is armed
    pingTimer,
    messageQueue,
    offered,        \* messages given to send() so far
    kept,           \* those it sent or queued, in order
    handed,         \* what every web socket was given
    server,       \* this.server of the SocketServer, 0 for null
    serverState,    \* of every server made
    serverRunning,  \* isRunning
    sockets         \* the server's sockets, by the server they came over

clientVars == <<socketState, ws, wsState, connectTimer, pingTimer, messageQueue, offered, kept,
                handed>>
serverVars == <<server, serverState, serverRunning, sockets>>
socketVars == <<clientVars, serverVars>>

SocketTypeOK ==
    /\ socketState \in {"disconnected", "connecting", "connected", "error"}
    /\ ws \in {0} \cup Ws
    /\ wsState \in [Ws -> {"unmade", "connecting", "open", "failed", "closing", "closed"}]
    /\ {connectTimer, pingTimer, serverRunning} \subseteq BOOLEAN
    /\ offered \in Nat /\ kept \in Seq(Outgoing) /\ messageQueue \in Seq(Outgoing)
    /\ handed \in [Ws -> Seq(Outgoing \cup {Handshake})]
    /\ Len(messageQueue) <= MaxQueueSize
    /\ server \in 0..MaxServers
    /\ serverState \in [1..MaxServers -> {"unmade", "binding", "listening", "closed"}]
    /\ sockets \subseteq 1..MaxServers

-----------------------------------------------------------------------------
(* Sending *)

Open(i) == i # 0 /\ wsState[i] = "open"

\* ws.send: what a web socket that is not open is given is gone
Give(given, ms) == IF Open(ws) THEN [given EXCEPT ![ws] = @ \o ms] ELSE given

Send ==
    LET m == offered + 1 IN
    /\ offered < MaxSends
    /\ offered' = m
    /\ IF socketState = "connected"
       THEN /\ handed' = Give(handed, <<m>>)
            /\ kept' = Append(kept, m)
            /\ UNCHANGED messageQueue
       ELSE /\ messageQueue' = IF Len(messageQueue) < MaxQueueSize
                               THEN Append(messageQueue, m) ELSE messageQueue
            /\ kept' = IF Len(messageQueue) < MaxQueueSize THEN Append(kept, m) ELSE kept
            /\ UNCHANGED handed
    /\ UNCHANGED <<socketState, ws, wsState, connectTimer, pingTimer, serverVars>>

\* Mutant: the queue is sent and stays.
QueueStays(q) == q

\* processMessageQueue leaves an empty queue
Drained(q) == <<>>

-----------------------------------------------------------------------------
(* Connecting and disconnecting *)

Over == \A i \in Ws : wsState[i] \in {"unmade", "closed"}

Connect ==
    LET unmade == {i \in Ws : wsState[i] = "unmade"}
        i == CHOOSE i \in unmade : \A j \in unmade : i <= j
    IN  /\ socketState \in {"disconnected", "error"} /\ unmade # {}
        /\ Patient => Over
        /\ socketState' = "connecting"
        /\ connectTimer' = TRUE
        /\ ws' = i
        /\ wsState' = [wsState EXCEPT ![i] = "connecting"]
        /\ UNCHANGED <<pingTimer, messageQueue, offered, kept, handed, serverVars>>

\* 'open': the handshake and the queue go to this.ws, whichever opened
Opened(i) ==
    /\ wsState[i] = "connecting"
    /\ wsState' = [wsState EXCEPT ![i] = "open"]
    /\ connectTimer' = FALSE
    /\ socketState' = "connected"
    /\ pingTimer' = TRUE
    /\ messageQueue' = Drained(messageQueue)
    /\ handed' = IF ws = i \/ Open(ws)
                 THEN [handed EXCEPT ![ws] = @ \o <<Handshake>> \o messageQueue] ELSE handed
    /\ UNCHANGED <<ws, offered, kept, serverVars>>

Failed(i) ==
    /\ wsState[i] = "connecting"
    /\ wsState' = [wsState EXCEPT ![i] = "failed"]
    /\ socketState' = "error"
    /\ UNCHANGED <<ws, connectTimer, pingTimer, messageQueue, offered, kept, handed,
                   serverVars>>

\* 'close' of any web socket, also of one that is no longer this.ws
WsClosed(i) ==
    /\ wsState[i] \in {"open", "failed", "closing"}
    /\ wsState' = [wsState EXCEPT ![i] = "closed"]
    /\ socketState' = "disconnected"
    /\ pingTimer' = FALSE
    /\ UNCHANGED <<ws, connectTimer, messageQueue, offered, kept, handed, serverVars>>

WsDropped ==
    /\ pingTimer' = FALSE
    /\ ws' = 0
    /\ wsState' = IF ws = 0 THEN wsState
                  ELSE [wsState EXCEPT ![ws] = CASE @ = "connecting" -> "failed"
                                                 [] @ = "open" -> "closing"
                                                 [] OTHER -> @]
    /\ socketState' = "disconnected"

DisconnectSocket ==
    /\ ws # 0 /\ WsDropped
    /\ UNCHANGED <<connectTimer, messageQueue, offered, kept, handed, serverVars>>

ConnectTimeout ==
    /\ connectTimer /\ connectTimer' = FALSE
    /\ IF socketState = "connecting" THEN WsDropped
       ELSE UNCHANGED <<socketState, ws, wsState, pingTimer>>
    /\ UNCHANGED <<messageQueue, offered, kept, handed, serverVars>>

-----------------------------------------------------------------------------
(* The server *)

ServerStart ==
    LET unmade == {k \in 1..MaxServers : serverState[k] = "unmade"}
        k == CHOOSE k \in unmade : \A l \in unmade : k <= l
    IN  /\ ~serverRunning /\ unmade # {}
        /\ Patient => "binding" \notin {serverState[l] : l \in 1..MaxServers}
        /\ server' = k
        /\ serverState' = [serverState EXCEPT ![k] = "binding"]
        /\ UNCHANGED <<serverRunning, sockets, clientVars>>

\* One server has the port.
Listening(k) ==
    /\ serverState[k] = "binding"
    /\ IF \E l \in 1..MaxServers : serverState[l] = "listening"
       THEN /\ serverState' = [serverState EXCEPT ![k] = "closed"]
            /\ UNCHANGED serverRunning
       ELSE /\ serverState' = [serverState EXCEPT ![k] = "listening"]
            /\ serverRunning' = TRUE
    /\ UNCHANGED <<server, sockets, clientVars>>

PeerCalls(k) ==
    /\ serverState[k] = "listening" /\ k \notin sockets
    /\ sockets' = sockets \cup {k}
    /\ UNCHANGED <<server, serverState, serverRunning, clientVars>>

PeerGone(k) ==
    /\ k \in sockets
    /\ sockets' = sockets \ {k}
    /\ UNCHANGED <<server, serverState, serverRunning, clientVars>>

ServerClosed(k) == IF k = 0 THEN serverState ELSE [serverState EXCEPT ![k] = "closed"]

ServerStop ==
    /\ serverRunning
    /\ sockets' = {}
    /\ serverState' = ServerClosed(server)
    /\ server' = 0
    /\ serverRunning' = FALSE
    /\ UNCHANGED clientVars

-----------------------------------------------------------------------------
SocketInit ==
    /\ socketState = "disconnected" /\ ws = 0
    /\ wsState = [i \in Ws |-> "unmade"]
    /\ connectTimer = FALSE /\ pingTimer = FALSE
    /\ messageQueue = <<>> /\ offered = 0 /\ kept = <<>>
    /\ handed = [i \in Ws |-> <<>>]
    /\ server = 0 /\ serverRunning = FALSE /\ sockets = {}
    /\ serverState = [k \in 1..MaxServers |-> "unmade"]

SocketNext ==
    \/ Send \/ Connect \/ DisconnectSocket \/ ConnectTimeout
    \/ \E i \in Ws : Opened(i) \/ Failed(i) \/ WsClosed(i)
    \/ ServerStart \/ ServerStop
    \/ \E k \in 1..MaxServers : Listening(k) \/ PeerCalls(k) \/ PeerGone(k)

SocketSpec == SocketInit /\ [][SocketNext]_socketVars

-----------------------------------------------------------------------------
(* Properties *)

\* what follows the handshake
Payload(ms) == IF ms = <<>> THEN <<>> ELSE Tail(ms)

\* Every message that was sent or queued goes out once and in order, over
\* whichever connection comes next, and each connection begins with the
\* handshake and has no other: when no web socket of an earlier connection is
\* left, whose handlers would work on this.ws.
HandedInOrder ==
    /\ FlattenSeq([i \in Ws |-> Payload(handed[i])]) \o messageQueue = kept
    /\ \A i \in Ws : \A k \in DOMAIN handed[i] : handed[i][k] = Handshake <=> k = 1

=============================================================================
