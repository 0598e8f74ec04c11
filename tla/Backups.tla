-------------------------------- MODULE Backups --------------------------------
(***************************************************************************)
(* The backup manager of the block store (src/storage/backup_manager.js).  *)
(*                                                                         *)
(* Its methods wait for the file system, so a call is a record that says   *)
(* how far it has come.  A backup is named by the time it was made.  The   *)
(* index is one file, truncated before it is written.  createArchive puts  *)
(* no file of the node into an archive and extractArchive takes none out   *)
(* of it, so an archive is there or is not, and a restore that succeeds    *)
(* leaves the files of the node as they are.                               *)
(***************************************************************************)
EXTENDS Integers, FiniteSets, FiniteSetsExt

CONSTANTS
    MaxBackups,
    BackupOnClose,
    DeletesApart,           \* TRUE when deleteBackup is called only by pruning or when nothing
                            \* else is under way
    MaxMade, MaxBackupKills \* bounds of the model

ASSUME BackupAssumption ==
    /\ MaxBackups \in Nat \ {0}
    /\ {BackupOnClose, DeletesApart} \subseteq BOOLEAN
    /\ {MaxMade, MaxBackupKills} \subseteq Nat

BackupId == 1..MaxMade

\* The index file: the ids it lists, or truncated and not written.  A file that
\* is not there reads as an empty one.
Doc(ids) == [whole |-> TRUE, ids |-> ids]

TornDoc == [whole |-> FALSE, ids |-> {}]

Idle == [pc |-> "idle"]

VARIABLES
    bkInitialized,      \* isInitialized
    bkTimer,            \* backupTimer is set
    backupInProgress,
    backups,            \* the map, as a set of ids
    backupIndex,        \* backup_index.json
    archives,           \* the archives in backupDir
    tempDirs,           \* the temp_ directories in it
    creating,           \* the createBackup call under way
    deleting,           \* the deleteBackup calls: of pruning, and of a user
    restoring,          \* the restoreFromBackup call
    bkClosing,          \* how far close() has come
    made,               \* backups begun so far
    unmade,             \* backups a user deleted, and those whose deletion a kill cut off
    bkKills

callVars == <<creating, deleting, restoring, bkClosing>>
diskVars == <<backupIndex, archives, tempDirs>>
backupVars == <<bkInitialized, bkTimer, backupInProgress, backups, diskVars, callVars, made,
                unmade, bkKills>>

Deleter == {"prune", "user"}

BackupTypeOK ==
    /\ {bkInitialized, bkTimer, backupInProgress} \subseteq BOOLEAN
    /\ backups \subseteq BackupId /\ archives \subseteq BackupId /\ tempDirs \subseteq BackupId
    /\ backupIndex \in [whole : BOOLEAN, ids : SUBSET BackupId]
    /\ creating \in {Idle} \cup [pc : {"copy", "archive", "list", "save", "prune", "clean"},
                                 id : BackupId, doc : SUBSET BackupId, doomed : SUBSET BackupId]
    /\ deleting \in [Deleter -> {Idle} \cup [pc : {"unlink", "save"}, id : BackupId,
                                             doc : SUBSET BackupId]]
    /\ restoring \in {Idle} \cup [pc : {"extract", "backup", "copy"}, id : BackupId]
    /\ bkClosing \in {"no", "backup", "done"}
    /\ made \in 0..MaxMade /\ unmade \subseteq BackupId

-----------------------------------------------------------------------------
(* Making a backup *)

\* What a run keeps apart from the deletions of a user
Apart == DeletesApart => deleting["user"] = Idle

CanBegin == bkInitialized /\ ~backupInProgress /\ made < MaxMade

Begin ==
    /\ backupInProgress' = TRUE
    /\ made' = made + 1
    /\ tempDirs' = tempDirs \cup {made + 1}
    /\ creating' = [pc |-> "copy", id |-> made + 1, doc |-> {}, doomed |-> {}]

\* createBackup, called by the interval or by a user
CreateBackup ==
    /\ Apart /\ CanBegin /\ Begin
    /\ UNCHANGED <<bkInitialized, bkTimer, backups, backupIndex, archives, deleting, restoring,
                   bkClosing, unmade, bkKills>>

Step(pc) == creating' = [creating EXCEPT !.pc = pc]

\* The files of the node are copied one by one while it runs; one that is gone
\* by then makes the backup fail.
Copied ==
    /\ creating.pc = "copy"
    /\ Step("archive") \/ Step("clean")
    /\ UNCHANGED <<bkInitialized, bkTimer, backupInProgress, backups, diskVars, deleting,
                   restoring, bkClosing, made, unmade, bkKills>>

Archived ==
    /\ creating.pc = "archive"
    /\ archives' = archives \cup {creating.id}
    /\ Step("list")
    /\ UNCHANGED <<bkInitialized, bkTimer, backupInProgress, backups, backupIndex, tempDirs,
                   deleting, restoring, bkClosing, made, unmade, bkKills>>

Listed ==
    /\ creating.pc = "list"
    /\ backups' = backups \cup {creating.id}
    /\ creating' = [creating EXCEPT !.pc = "save", !.doc = backups']
    /\ backupIndex' = TornDoc
    /\ UNCHANGED <<bkInitialized, bkTimer, backupInProgress, archives, tempDirs, deleting,
                   restoring, bkClosing, made, unmade, bkKills>>

\* Backups beyond the newest MaxBackups
Surplus(ids) == {b \in ids : Cardinality({c \in ids : c > b}) >= MaxBackups}

\* saveBackupIndex is done; pruneOldBackups looks at the map as it is now
Saved ==
    /\ creating.pc = "save"
    /\ backupIndex' = Doc(creating.doc)
    /\ creating' = [creating EXCEPT !.pc = "prune", !.doomed = Surplus(backups)]
    /\ UNCHANGED <<bkInitialized, bkTimer, backupInProgress, backups, archives, tempDirs,
                   deleting, restoring, bkClosing, made, unmade, bkKills>>

\* The next one to prune; one that a user has deleted meanwhile ends the call
\* with an error although its backup was made.
PruneNext ==
    LET b == Max(creating.doomed) IN
    /\ creating.pc = "prune" /\ deleting["prune"] = Idle
    /\ IF creating.doomed = {} \/ b \notin backups
       THEN Step("clean") /\ UNCHANGED deleting
       ELSE /\ deleting' = [deleting EXCEPT !["prune"] =
                              [pc |-> "unlink", id |-> b, doc |-> {}]]
            /\ creating' = [creating EXCEPT !.doomed = @ \ {b}]
    /\ UNCHANGED <<bkInitialized, bkTimer, backupInProgress, backups, diskVars, restoring,
                   bkClosing, made, unmade, bkKills>>

\* The two finally clauses, and what waits for the call: a restore, which fails
\* with it, and close()
Finished(ok) ==
    /\ creating.pc = "clean"
    /\ tempDirs' = tempDirs \ {creating.id}
    /\ creating' = Idle
    /\ backupInProgress' = FALSE
    /\ restoring' = IF restoring.pc # "backup" THEN restoring
                    ELSE IF ok THEN [restoring EXCEPT !.pc = "copy"] ELSE Idle
    /\ bkClosing' = IF bkClosing = "backup" THEN "done" ELSE bkClosing
    /\ bkInitialized' = (bkInitialized /\ bkClosing # "backup")
    /\ UNCHANGED <<bkTimer, backups, backupIndex, archives, deleting, made, unmade, bkKills>>

BackupFinished == Finished(creating.id \in backups) \/ Finished(FALSE)

-----------------------------------------------------------------------------
(* Deleting one *)

Still == creating = Idle /\ restoring = Idle /\ bkClosing # "backup"

DeleteBackup(b) ==
    /\ bkInitialized /\ b \in backups /\ deleting["user"] = Idle
    /\ DeletesApart => Still
    /\ deleting' = [deleting EXCEPT !["user"] = [pc |-> "unlink", id |-> b, doc |-> {}]]
    /\ unmade' = unmade \cup {b}
    /\ UNCHANGED <<bkInitialized, bkTimer, backupInProgress, backups, diskVars, creating,
                   restoring, bkClosing, made, bkKills>>

\* Mutant: the map keeps the backup when the index is saved.
KeptInMap(b) == backups

LeftOver(b) == backups \ {b}

\* unlink; an archive that is gone is no error
Unlinked(d) ==
    LET b == deleting[d].id IN
    /\ deleting[d].pc = "unlink"
    /\ archives' = archives \ {b}
    /\ backups' = LeftOver(b)
    /\ backupIndex' = TornDoc
    /\ deleting' = [deleting EXCEPT ![d] = [pc |-> "save", id |-> b, doc |-> backups']]
    /\ UNCHANGED <<bkInitialized, bkTimer, backupInProgress, tempDirs, creating, restoring,
                   bkClosing, made, unmade, bkKills>>

Deleted(d) ==
    /\ deleting[d].pc = "save"
    /\ backupIndex' = Doc(deleting[d].doc)
    /\ deleting' = [deleting EXCEPT ![d] = Idle]
    /\ UNCHANGED <<bkInitialized, bkTimer, backupInProgress, backups, archives, tempDirs,
                   creating, restoring, bkClosing, made, unmade, bkKills>>

-----------------------------------------------------------------------------
(* Restoring *)

\* restoreFromBackup; the block store is closed when it begins
RestoreBackup(b) ==
    /\ bkInitialized /\ b \in backups /\ restoring = Idle
    /\ Apart
    /\ restoring' = [pc |-> "extract", id |-> b]
    /\ UNCHANGED <<bkInitialized, bkTimer, backupInProgress, backups, diskVars, creating,
                   deleting, bkClosing, made, unmade, bkKills>>

\* createBackupFirst: a backup under way makes the restore fail
RestoreExtracted(first) ==
    /\ restoring.pc = "extract"
    /\ IF first /\ CanBegin
       THEN /\ Begin
            /\ restoring' = [restoring EXCEPT !.pc = "backup"]
       ELSE /\ restoring' = IF first THEN Idle ELSE [restoring EXCEPT !.pc = "copy"]
            /\ UNCHANGED <<backupInProgress, made, tempDirs, creating>>
    /\ UNCHANGED <<bkInitialized, bkTimer, backups, backupIndex, archives, deleting, bkClosing,
                   unmade, bkKills>>

\* restoreBlockchainFiles finds no file to copy
Restored ==
    /\ restoring.pc = "copy"
    /\ restoring' = Idle
    /\ UNCHANGED <<bkInitialized, bkTimer, backupInProgress, backups, diskVars, creating,
                   deleting, bkClosing, made, unmade, bkKills>>

-----------------------------------------------------------------------------
(* The process *)

BackupsClose ==
    /\ bkInitialized /\ bkClosing = "no" /\ Apart
    /\ bkTimer' = FALSE
    /\ IF BackupOnClose /\ CanBegin
       THEN Begin /\ bkClosing' = "backup" /\ UNCHANGED bkInitialized
       ELSE /\ bkClosing' = "done" /\ bkInitialized' = FALSE
            /\ UNCHANGED <<backupInProgress, made, tempDirs, creating>>
    /\ UNCHANGED <<backups, backupIndex, archives, deleting, restoring, unmade, bkKills>>

\* The process is killed; what is on disk stays.
BackupsKill ==
    /\ bkKills < MaxBackupKills
    /\ bkKills' = bkKills + 1
    /\ unmade' = unmade \cup {deleting[d].id : d \in {e \in Deleter : deleting[e] # Idle}}
    /\ bkInitialized' = FALSE /\ bkTimer' = FALSE /\ backupInProgress' = FALSE
    /\ backups' = {}
    /\ creating' = Idle /\ restoring' = Idle /\ bkClosing' = "no"
    /\ deleting' = [d \in Deleter |-> Idle]
    /\ UNCHANGED <<diskVars, made>>

\* initialize in a new process: an index that cannot be read is an empty one
BackupsInitialize ==
    /\ ~bkInitialized /\ bkClosing = "no"
    /\ bkInitialized' = TRUE /\ bkTimer' = TRUE
    /\ backups' = backupIndex.ids
    /\ UNCHANGED <<backupInProgress, diskVars, callVars, made, unmade, bkKills>>

BackupInit ==
    /\ bkInitialized = FALSE /\ bkTimer = FALSE /\ backupInProgress = FALSE
    /\ backups = {} /\ backupIndex = Doc({}) /\ archives = {} /\ tempDirs = {}
    /\ creating = Idle /\ restoring = Idle /\ bkClosing = "no"
    /\ deleting = [d \in Deleter |-> Idle]
    /\ made = 0 /\ unmade = {} /\ bkKills = 0

BackupNext ==
    \/ CreateBackup \/ Copied \/ Archived \/ Listed \/ Saved \/ PruneNext \/ BackupFinished
    \/ \E b \in BackupId : DeleteBackup(b) \/ RestoreBackup(b)
    \/ \E d \in Deleter : Unlinked(d) \/ Deleted(d)
    \/ \E first \in BOOLEAN : RestoreExtracted(first)
    \/ Restored \/ BackupsClose \/ BackupsKill \/ BackupsInitialize

BackupSpec == BackupInit /\ [][BackupNext]_backupVars

-----------------------------------------------------------------------------
(* Properties *)

\* The index never promises a backup whose archive is gone, whatever the order
\* of archives, map and index in making, pruning and restarting: only one that
\* is being deleted, or whose deletion ended with the process, may be so.
IndexedIsThere ==
    \A b \in backupIndex.ids \ archives :
        b \in unmade \/ \E d \in Deleter : deleting[d] # Idle /\ deleting[d].id = b

=============================================================================
