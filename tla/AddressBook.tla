----------------------------- MODULE AddressBook -----------------------------
(***************************************************************************)
(* The addresses a node remembers (src/network/peer_storage.js), filled by *)
(* the listeners of network.js and by the exchange of lists                *)
(* (src/network/peer_exchange.js).                                         *)
(*                                                                         *)
(* The storage is synchronous: a call is one action, and so is the writing *)
(* of its file, which a kill can cut off.  The time an address was last    *)
(* seen is its place in the book, the longest unseen one first, and        *)
(* whether it is too old to be given to others.                            *)
(***************************************************************************)
EXTENDS Integers, SequencesExt, FiniteSetsExt

CONSTANTS
    Address,
    BookLimit,          \* maxPeers of the storage
    Scores,            \* bound of the model: the scores an address gets
    MaxListed, MaxRestarts   \* bounds of the model

ASSUME AddressBookAssumption ==
    /\ {BookLimit, MaxListed, MaxRestarts} \subseteq Nat /\ Scores \subseteq Int

VARIABLES
    book,          \* peers of the storage
    file,          \* peers.dat; one cut off in the writing cannot be read, and is <<>>
    restarts

bookVars == <<book, file, restarts>>

Stored == [address : Address, score : Int, old : BOOLEAN]

In(b) == {b[i].address : i \in DOMAIN b}

\* An address has one entry.
OneEach(b) == \A i, j \in DOMAIN b : b[i].address = b[j].address => i = j

Book(b) == b \in Seq(Stored) /\ OneEach(b) /\ Len(b) <= BookLimit

BookTypeOK == Book(book) /\ Book(file) /\ restarts \in Nat

-----------------------------------------------------------------------------
(* The storage *)

PlaceOf(b, a) == CHOOSE i \in DOMAIN b : b[i].address = a
Without(b, a) == IF a \in In(b) THEN RemoveAt(b, PlaceOf(b, a)) ELSE b
ScoreOf(b, a) == IF a \in In(b) THEN b[PlaceOf(b, a)].score ELSE 0

\* The address with the lowest score goes; recency, at most 0.3 of a point,
\* decides between equal ones.
Worst(b) == CHOOSE i \in DOMAIN b :
               \A j \in DOMAIN b : b[i].score < b[j].score \/ (b[i].score = b[j].score /\ i <= j)

\* Mutant: an interval that never finds the book too long.
Unpruned(b) == b

\* prunePeers, which has one address to remove at most
Pruned(b) == IF Len(b) <= BookLimit THEN b ELSE RemoveAt(b, Worst(b))

\* addPeer without a score: an address that is there keeps its own.
Seen(b, a) ==
    Pruned(Append(Without(b, a), [address |-> a, old |-> FALSE, score |-> ScoreOf(b, a)]))

\* addPeer with a score replaces the score, whatever it was.
Scored(b, a, s) == Pruned(Append(Without(b, a), [address |-> a, old |-> FALSE, score |-> s]))

\* 'peer:connected' and 'peer:disconnected'
PeerConnected(a) ==
    /\ book' = Scored(book, a, 1)
    /\ UNCHANGED <<file, restarts>>

PeerDisconnected(a) ==
    /\ book' = Seen(book, a)
    /\ UNCHANGED <<file, restarts>>

\* updatePeerScore, of an address that is there
UpdatePeerScore(a, delta) ==
    /\ a \in In(book) /\ ScoreOf(book, a) + delta \in Scores
    /\ book' = Append(Without(book, a), [address |-> a, old |-> FALSE,
                                         score |-> ScoreOf(book, a) + delta])
    /\ UNCHANGED <<file, restarts>>

RemoveAddress(a) ==
    /\ a \in In(book)
    /\ book' = Without(book, a)
    /\ UNCHANGED <<file, restarts>>

\* The addresses of a list, one after the other
Taken(b, list) ==
    LET taken[n \in 0..Len(list)] == IF n = 0 THEN b ELSE Scored(taken[n - 1], list[n], 0)
    IN  taken[Len(list)]

\* A list of addresses: the manager puts them in the book, and the exchange,
\* when it was started, does so again and writes the file.
ListReceived(list, exchanging) ==
    /\ book' = IF exchanging THEN Taken(Taken(book, list), list) ELSE Taken(book, list)
    /\ file' = IF exchanging THEN book' ELSE file
    /\ UNCHANGED <<restarts>>

\* savePeers, of the interval and of stop()
SaveBook ==
    /\ file # book /\ file' = book
    /\ UNCHANGED <<book, restarts>>

TimeGoesBy ==
    /\ \E i \in DOMAIN book :
          /\ ~book[i].old
          /\ book' = [j \in DOMAIN book |-> [book[j] EXCEPT !.old = @ \/ j <= i]]
    /\ UNCHANGED <<file, restarts>>

\* The process ends, perhaps while it writes the file, and starts again:
\* loadPeers.
RestartNode ==
    /\ restarts < MaxRestarts /\ restarts' = restarts + 1
    /\ \E f \in {file, <<>>} : file' = f /\ book' = f

-----------------------------------------------------------------------------
BookInit == book = <<>> /\ file = <<>> /\ restarts = 0

BookNext ==
    \/ \E a \in Address :
          \/ PeerConnected(a) \/ PeerDisconnected(a) \/ RemoveAddress(a)
          \/ \E delta \in Scores : UpdatePeerScore(a, delta)
    \/ \E list \in SeqOf(Address, MaxListed), exchanging \in BOOLEAN : ListReceived(list, exchanging)
    \/ SaveBook \/ TimeGoesBy \/ RestartNode

BookSpec == BookInit /\ [][BookNext]_bookVars

=============================================================================
