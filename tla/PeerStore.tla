------------------------------ MODULE PeerStore ------------------------------
(***************************************************************************)
(* The store of peers with their reputations (src/network/peer_store.js).  *)
(*                                                                         *)
(* Loading and saving wait for the disk, and everything else of the store  *)
(* may be called meanwhile.  A file that is being written is torn: it      *)
(* cannot be read until the writing ends.                                  *)
(***************************************************************************)
EXTENDS Integers, FiniteSets

CONSTANTS
    StoredPeer,
    Reputations,       \* the reputations peers come with
    MaxStored,         \* maxPeers
    SavesApart,        \* TRUE when a save or a close() comes with no other save under way
    MaxSaves, MaxStoreKills   \* bounds of the model

ASSUME PeerStoreAssumption ==
    /\ Reputations \subseteq Int /\ SavesApart \in BOOLEAN
    /\ {MaxStored, MaxSaves, MaxStoreKills} \subseteq Nat

VARIABLES
    peers,         \* the peers of the store, with their reputations
    idle,          \* those not seen for maxInactivePeriod
    disk,          \* the file: "none", "torn" or "whole", and the peers in it
    opening,       \* what init() waits for
    saves,         \* saves under way: what they write and who waits for them
    saveTimer, pruneTimer,
    closing,       \* close() waits for its save, or has ended
    atClose,       \* the peers when close() was called
    put           \* saves so far, and kills

openVars == <<opening, saveTimer, pruneTimer, closing, atClose>>
peerStoreVars == <<peers, idle, disk, openVars, saves, put>>

Roster == UNION {[ps -> Reputations] : ps \in SUBSET StoredPeer}
NoPeers == [p \in {} |-> 0]

PeerStoreTypeOK ==
    /\ peers \in Roster /\ idle \subseteq StoredPeer
    /\ disk \in [state : {"none", "torn", "whole"}, peers : Roster]
    /\ opening \in {"closed", "access", "read", "save", "open"}
    /\ saves \subseteq [peers : Roster, for : {"init", "timer", "close"}, at : 1..MaxSaves]
    /\ {saveTimer, pruneTimer} \subseteq BOOLEAN
    /\ closing \in {"no", "saving", "done"} /\ atClose \in Roster
    /\ put \in [saves : 0..MaxSaves, kills : 0..MaxStoreKills]

-----------------------------------------------------------------------------
(* The file *)

\* save: the content is taken now and the file is emptied.
BeginSave(ps, for) ==
    /\ put.saves < MaxSaves
    /\ SavesApart => saves = {}
    /\ saves' = saves \cup {[peers |-> ps, for |-> for, at |-> put.saves + 1]}
    /\ put' = [put EXCEPT !.saves = @ + 1]
    /\ disk' = [state |-> "torn", peers |-> NoPeers]

TimerSave ==
    /\ saveTimer /\ BeginSave(peers, "timer")
    /\ UNCHANGED <<peers, idle, openVars>>

\* What a write leaves while another one is under way is torn.
Written(s) ==
    /\ saves' = saves \ {s}
    /\ disk' = [state |-> IF saves' = {} THEN "whole" ELSE "torn", peers |-> s.peers]

TimerSaved(s) ==
    /\ s.for = "timer" /\ Written(s)
    /\ UNCHANGED <<peers, idle, openVars, put>>

-----------------------------------------------------------------------------
(* Opening *)

\* init, of a store that is not open
InitStore ==
    /\ opening = "closed" /\ closing # "saving"
    /\ opening' = "access" /\ closing' = "no"
    /\ UNCHANGED <<peers, idle, disk, saves, saveTimer, pruneTimer, atClose, put>>

Accessed ==
    /\ opening = "access"
    /\ IF disk.state = "none"
       THEN opening' = "save" /\ BeginSave(peers, "init")
       ELSE opening' = "read" /\ UNCHANGED <<disk, saves, put>>
    /\ UNCHANGED <<peers, idle, saveTimer, pruneTimer, closing, atClose>>

\* init() starts the timers when the loading has ended, however it ended.
Opened == opening' = "open" /\ saveTimer' = TRUE /\ pruneTimer' = TRUE

FirstSaved(s) ==
    /\ s.for = "init" /\ Written(s) /\ Opened
    /\ UNCHANGED <<peers, idle, closing, atClose, put>>

\* A file that can be read replaces the peers; one that cannot leaves them.
ReadFile ==
    /\ opening = "read" /\ Opened
    /\ peers' = IF disk.state = "whole" THEN disk.peers ELSE peers
    /\ idle' = IF disk.state = "whole" THEN {} ELSE idle
    /\ UNCHANGED <<disk, saves, closing, atClose, put>>

-----------------------------------------------------------------------------
(* The peers *)

Dropped(ps, out) == [p \in DOMAIN ps \ out |-> ps[p]]

Worst(ps) == {p \in DOMAIN ps : \A q \in DOMAIN ps : ps[p] <= ps[q]}

With(ps, p, r) == [q \in DOMAIN ps \cup {p} |-> IF q = p THEN r ELSE ps[q]]

\* addPeer: a full store gives up one of its worst peers for a better one.
AddStored(p, r) ==
    /\ p \notin DOMAIN peers
    /\ \/ /\ Cardinality(DOMAIN peers) < MaxStored
          /\ peers' = With(peers, p, r) /\ idle' = idle \ {p}
       \/ /\ Cardinality(DOMAIN peers) >= MaxStored
          /\ \E worst \in Worst(peers) :
                /\ peers[worst] < r
                /\ peers' = With(Dropped(peers, {worst}), p, r) /\ idle' = idle \ {p, worst}
    /\ UNCHANGED <<disk, openVars, saves, put>>

UpdateStored(p, r) ==
    /\ p \in DOMAIN peers
    /\ peers' = [peers EXCEPT ![p] = r]
    /\ idle' = idle \ {p}
    /\ UNCHANGED <<disk, openVars, saves, put>>

RemoveStored(p) ==
    /\ p \in DOMAIN peers
    /\ peers' = Dropped(peers, {p})
    /\ idle' = idle \ {p}
    /\ UNCHANGED <<disk, openVars, saves, put>>

GrowIdle(p) ==
    /\ p \in DOMAIN peers \ idle
    /\ idle' = idle \cup {p}
    /\ UNCHANGED <<peers, disk, openVars, saves, put>>

PruneInactive ==
    /\ pruneTimer /\ idle # {}
    /\ peers' = Dropped(peers, idle) /\ idle' = {}
    /\ UNCHANGED <<disk, openVars, saves, put>>

-----------------------------------------------------------------------------
(* Closing and the end of the process *)

\* Mutant: the save timer is left running.
SavesGoOn == saveTimer

\* stopSaveTimer
NoSaves == FALSE

CloseStore ==
    /\ opening = "open" /\ closing = "no"
    /\ saveTimer' = NoSaves /\ pruneTimer' = FALSE
    /\ closing' = "saving" /\ atClose' = peers
    /\ BeginSave(peers, "close")
    /\ UNCHANGED <<peers, idle, opening>>

Closed(s) ==
    /\ s.for = "close" /\ Written(s)
    /\ peers' = NoPeers /\ idle' = {}
    /\ closing' = "done" /\ opening' = "closed"
    /\ UNCHANGED <<saveTimer, pruneTimer, atClose, put>>

\* The process ends and the next one starts with a store that is not open.
KillStore ==
    /\ put.kills < MaxStoreKills /\ put' = [put EXCEPT !.kills = @ + 1]
    /\ peers' = NoPeers /\ idle' = {} /\ saves' = {}
    /\ opening' = "closed" /\ closing' = "no"
    /\ saveTimer' = FALSE /\ pruneTimer' = FALSE
    /\ UNCHANGED <<disk, atClose>>

-----------------------------------------------------------------------------
PeerStoreInit ==
    /\ peers = NoPeers /\ idle = {} /\ saves = {}
    /\ disk = [state |-> "none", peers |-> NoPeers]
    /\ opening = "closed" /\ closing = "no" /\ atClose = NoPeers
    /\ saveTimer = FALSE /\ pruneTimer = FALSE
    /\ put = [saves |-> 0, kills |-> 0]

PeerStoreNext ==
    \/ InitStore \/ Accessed \/ ReadFile \/ TimerSave \/ PruneInactive \/ CloseStore \/ KillStore
    \/ \E s \in saves : FirstSaved(s) \/ TimerSaved(s) \/ Closed(s)
    \/ \E p \in StoredPeer :
          \/ RemoveStored(p) \/ GrowIdle(p)
          \/ \E r \in Reputations : AddStored(p, r) \/ UpdateStored(p, r)

PeerStoreSpec == PeerStoreInit /\ [][PeerStoreNext]_peerStoreVars

-----------------------------------------------------------------------------
(* Properties *)

\* A store that has closed leaves a whole file with the peers it had when
\* close() was called, when no other save was under way.
ClosedIsSaved == closing = "done" => disk = [state |-> "whole", peers |-> atClose]
=============================================================================
