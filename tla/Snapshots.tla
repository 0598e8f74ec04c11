------------------------------- MODULE Snapshots -------------------------------
(***************************************************************************)
(* The snapshot manager of the block store                                 *)
(* (src/storage/snapshot_manager.js).                                      *)
(*                                                                         *)
(* Its methods wait for the file system, so a call is a record that says   *)
(* how far it has come; nothing keeps two of them apart.  The index is one *)
(* file, truncated before it is written.  restoreFromSnapshot compares the *)
(* hash of a block with a field that getStats does not give, so it fails   *)
(* and changes nothing; the store emits no 'newBlock', so no snapshot is   *)
(* made by itself.                                                         *)
(***************************************************************************)
EXTENDS Integers, FiniteSets

CONSTANTS
    Creator,                    \* createSnapshot calls that may overlap
    SnapshotHeight,             \* the heights asked for
    MaxSnapshots,
    MaxSnapMade, MaxSnapKills   \* bounds of the model

ASSUME SnapshotAssumption ==
    /\ "user" \notin Creator
    /\ SnapshotHeight \subseteq Nat
    /\ MaxSnapshots \in Nat \ {0}
    /\ {MaxSnapMade, MaxSnapKills} \subseteq Nat

\* A snapshot, its hash and its file: the height and the time it was made
SnapshotId == [height : SnapshotHeight, timestamp : 1..MaxSnapMade]

User == "user"

SnapCaller == Creator \cup {User}

SnapIdle == [pc |-> "idle"]

VARIABLES
    snInitialized,  \* isInitialized
    snapshots,      \* the map
    snapIndex,      \* snapshot_index.json: whole or truncated
    snapFiles,      \* the files of snapshots
    call,           \* the calls under way: of creators, and deleteSnapshot of a user
    taken,          \* snapshots begun so far
    snapKills,
    cut             \* a kill came inside a call, or found an index behind the map

snapshotVars == <<snInitialized, snapshots, snapIndex, snapFiles, call, taken, snapKills, cut>>

Index(ids) == [whole |-> TRUE, ids |-> ids]

SnapshotTypeOK ==
    /\ snInitialized \in BOOLEAN /\ cut \in BOOLEAN
    /\ snapshots \subseteq SnapshotId /\ snapFiles \subseteq SnapshotId
    /\ snapIndex \in [whole : BOOLEAN, ids : SUBSET SnapshotId]
    /\ call \in [SnapCaller -> {SnapIdle}
          \cup [pc : {"read", "write", "list"}, id : SnapshotId]
          \cup [pc : {"save", "prune"}, doc : SUBSET SnapshotId, doomed : SUBSET SnapshotId]
          \cup [pc : {"unlink", "unlinked", "resave"}, id : SnapshotId,
                doc : SUBSET SnapshotId, doomed : SUBSET SnapshotId]]
    /\ taken \in 0..MaxSnapMade

Goes(c, r) == call' = [call EXCEPT ![c] = r]

-----------------------------------------------------------------------------
(* Making a snapshot *)

CreateSnapshot(c, h) ==
    /\ snInitialized /\ c \in Creator /\ call[c] = SnapIdle /\ taken < MaxSnapMade
    /\ taken' = taken + 1
    /\ Goes(c, [pc |-> "read", id |-> [height |-> h, timestamp |-> taken + 1]])
    /\ UNCHANGED <<snInitialized, snapshots, snapIndex, snapFiles, snapKills, cut>>

\* The block is read, which fails when there is none, and the state gathered.
Gathered(c) ==
    /\ call[c].pc = "read"
    /\ Goes(c, SnapIdle) \/ Goes(c, [call[c] EXCEPT !.pc = "write"])
    /\ UNCHANGED <<snInitialized, snapshots, snapIndex, snapFiles, taken, snapKills, cut>>

SnapshotWritten(c) ==
    /\ call[c].pc = "write"
    /\ snapFiles' = snapFiles \cup {call[c].id}
    /\ Goes(c, [call[c] EXCEPT !.pc = "list"])
    /\ UNCHANGED <<snInitialized, snapshots, snapIndex, taken, snapKills, cut>>

SnapshotListed(c) ==
    /\ call[c].pc = "list"
    /\ snapshots' = snapshots \cup {call[c].id}
    /\ snapIndex' = [whole |-> FALSE, ids |-> {}]
    /\ Goes(c, [pc |-> "save", doc |-> snapshots', doomed |-> {}])
    /\ UNCHANGED <<snInitialized, snapFiles, taken, snapKills, cut>>

\* getSnapshots sorts by height, and keeps the older of one height in front
Before(a, b) == a.height > b.height \/ (a.height = b.height /\ a.timestamp < b.timestamp)

Beyond == {s \in snapshots : Cardinality({t \in snapshots : Before(t, s)}) >= MaxSnapshots}

SnapshotSaved(c) ==
    /\ call[c].pc = "save"
    /\ snapIndex' = Index(call[c].doc)
    /\ Goes(c, [pc |-> "prune", doc |-> {}, doomed |-> Beyond])
    /\ UNCHANGED <<snInitialized, snapshots, snapFiles, taken, snapKills, cut>>

\* The next of toDelete; one that is gone from the map ends the call.
PruneSnapshot(c) ==
    LET todo == call[c].doomed
        s == CHOOSE x \in todo : \A y \in todo \ {x} : Before(x, y)
    IN  /\ call[c].pc = "prune"
        /\ Goes(c, IF todo = {} \/ s \notin snapshots THEN SnapIdle
                   ELSE [pc |-> "unlink", id |-> s, doc |-> {}, doomed |-> todo \ {s}])
        /\ UNCHANGED <<snInitialized, snapshots, snapIndex, snapFiles, taken, snapKills, cut>>

-----------------------------------------------------------------------------
(* Deleting one *)

DeleteSnapshot(s) ==
    /\ s \in snapshots /\ call[User] = SnapIdle
    /\ Goes(User, [pc |-> "unlink", id |-> s, doc |-> {}, doomed |-> {}])
    /\ UNCHANGED <<snInitialized, snapshots, snapIndex, snapFiles, taken, snapKills, cut>>

\* unlink; a file that is gone is an error, which ends the call and the pruning
SnapshotUnlinked(c) ==
    /\ call[c].pc = "unlink"
    /\ snapFiles' = snapFiles \ {call[c].id}
    /\ Goes(c, IF call[c].id \in snapFiles THEN [call[c] EXCEPT !.pc = "unlinked"] ELSE SnapIdle)
    /\ UNCHANGED <<snInitialized, snapshots, snapIndex, taken, snapKills, cut>>

\* Mutant: the snapshot stays in the map.
StaysListed(s) == snapshots

Without(s) == snapshots \ {s}

SnapshotDropped(c) ==
    /\ call[c].pc = "unlinked"
    /\ snapshots' = Without(call[c].id)
    /\ snapIndex' = [whole |-> FALSE, ids |-> {}]
    /\ Goes(c, [call[c] EXCEPT !.pc = "resave", !.doc = snapshots'])
    /\ UNCHANGED <<snInitialized, snapFiles, taken, snapKills, cut>>

SnapshotDeleted(c) ==
    /\ call[c].pc = "resave"
    /\ snapIndex' = Index(call[c].doc)
    /\ Goes(c, IF c = User THEN SnapIdle
               ELSE [pc |-> "prune", doc |-> {}, doomed |-> call[c].doomed])
    /\ UNCHANGED <<snInitialized, snapshots, snapFiles, taken, snapKills, cut>>

-----------------------------------------------------------------------------
(* The process *)

\* close saves the index, and does so for a manager that was not initialized too
SnapshotsClose ==
    /\ \A c \in SnapCaller : call[c] = SnapIdle
    /\ snapIndex' = Index(snapshots)
    /\ snInitialized' = FALSE
    /\ UNCHANGED <<snapshots, snapFiles, call, taken, snapKills, cut>>

SnapshotsKill ==
    /\ snapKills < MaxSnapKills
    /\ snapKills' = snapKills + 1
    /\ cut' = (cut \/ snapIndex # Index(snapshots) \/ \E c \in SnapCaller : call[c] # SnapIdle)
    /\ snInitialized' = FALSE
    /\ snapshots' = {}
    /\ call' = [c \in SnapCaller |-> SnapIdle]
    /\ UNCHANGED <<snapIndex, snapFiles, taken>>

\* An index that cannot be read leaves the map as it is: empty in a new process.
SnapshotsInitialize ==
    /\ ~snInitialized
    /\ snInitialized' = TRUE
    /\ snapshots' = IF snapIndex.whole THEN snapIndex.ids ELSE snapshots
    /\ UNCHANGED <<snapIndex, snapFiles, call, taken, snapKills, cut>>

SnapshotInit ==
    /\ snInitialized = FALSE /\ snapshots = {} /\ snapIndex = Index({}) /\ snapFiles = {}
    /\ call = [c \in SnapCaller |-> SnapIdle]
    /\ taken = 0 /\ snapKills = 0 /\ cut = FALSE

SnapshotNext ==
    \/ \E c \in Creator, h \in SnapshotHeight : CreateSnapshot(c, h)
    \/ \E c \in SnapCaller :
          \/ Gathered(c) \/ SnapshotWritten(c) \/ SnapshotListed(c) \/ SnapshotSaved(c)
          \/ PruneSnapshot(c) \/ SnapshotUnlinked(c) \/ SnapshotDropped(c) \/ SnapshotDeleted(c)
    \/ \E s \in SnapshotId : DeleteSnapshot(s)
    \/ SnapshotsClose \/ SnapshotsKill \/ SnapshotsInitialize

SnapshotSpec == SnapshotInit /\ [][SnapshotNext]_snapshotVars

-----------------------------------------------------------------------------
(* Properties *)

\* No snapshot is offered whose file is gone: creations, prunings and deletions
\* that overlap agree on which of them took a file away and drops it from the
\* map.  Only a process that ended inside a call may leave one behind, or one
\* that ended after two savings of the index had come in the wrong order.
ListedHasFile ==
    \A s \in snapshots \ snapFiles :
        cut \/ \E c \in SnapCaller : call[c] # SnapIdle /\ call[c].pc \in {"unlink", "unlinked"}
                                     /\ call[c].id = s
=============================================================================
