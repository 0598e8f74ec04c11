---------------------------- MODULE Checkpoints ----------------------------
(***************************************************************************)
(* The checkpoint manager (src/storage/checkpoint_manager.js): what it     *)
(* holds, the height of the latest, and one file for each checkpoint.      *)
(* Nothing keeps its operations apart: a pruning deletes what it chose     *)
(* before other checkpoints were made, saved, imported or loaded.          *)
(*                                                                         *)
(* A checkpoint is its height and its time of creation, which also name    *)
(* its file; no two are created in the same millisecond.  Verifying a      *)
(* checkpoint and restoring the store from one change nothing here.        *)
(***************************************************************************)
EXTENDS Integers, FiniteSets

CONSTANTS
    CkCaller,         \* callers that wait for an operation of the manager
    CkHeight,         \* heights of checkpoints
    ForeignHeight,    \* those of another node's checkpoints, which are imported
    MaxCheckpoints,   \* options.maxCheckpoints
    Signs, Verifies,  \* whether privateKey and publicKey are given
    MaxCkMade, MaxCkKills   \* bounds of the model

ASSUME CheckpointsAssumption ==
    /\ CkHeight \subseteq Nat /\ ForeignHeight \subseteq CkHeight /\ MaxCheckpoints \in Nat \ {0}
    /\ {Signs, Verifies} \subseteq BOOLEAN
    /\ {MaxCkMade, MaxCkKills} \subseteq Nat

\* Another node's checkpoints: made at -1 and signed, or made at -2 and not
Foreign == [height : ForeignHeight, id : {-1, -2}]
Checkpoint == [height : CkHeight, id : 1..MaxCkMade] \cup Foreign
NoCk == [height |-> -1, id |-> 0]

VARIABLES
    ckReady,     \* isInitialized
    held,        \* checkpoints: at most one of a height
    ckLast,      \* lastCheckpointHeight
    ckFiles,     \* the checkpoints with a whole file
    ckCall,      \* what each caller waits for
    exported,    \* the file of exportCheckpoints
    unwritten,   \* held checkpoints whose write failed
    ckMade, ckKills

checkpointVars == <<ckReady, held, ckLast, ckFiles, ckCall, exported, unwritten, ckMade, ckKills>>

Phase == {"idle", "load", "create", "write", "unlink", "save", "import"}
IdleCk == [pc |-> "idle", ck |-> NoCk, rest |-> {}]

CheckpointsTypeOK ==
    /\ ckReady \in BOOLEAN /\ ckLast \in CkHeight \cup {0}
    /\ held \subseteq Checkpoint /\ ckFiles \subseteq Checkpoint
    /\ exported \subseteq Checkpoint /\ unwritten \subseteq Checkpoint
    /\ ckCall \in [CkCaller -> [pc : Phase, rest : SUBSET Checkpoint,
                                ck : Checkpoint \cup [height : CkHeight \cup {-1}, id : {0}]]]
    /\ ckMade \in 0..MaxCkMade /\ ckKills \in 0..MaxCkKills

-----------------------------------------------------------------------------
(* Helpers *)

\* verifyCheckpointSignature, where there is a key to verify with
Signed(r) == r.id = -1 \/ (r.id > 0 /\ Signs)
Accepted(r) == Verifies => Signed(r)

\* checkpoints.set, and lastCheckpointHeight
HeldWith(r) == {s \in held : s.height # r.height} \cup {r}
Hold(r) ==
    /\ held' = HeldWith(r)
    /\ ckLast' = IF r.height > ckLast THEN r.height ELSE ckLast

Waiting(c, pc) == ckCall[c].pc = pc
CkGoes(c, pc, ck, rest) == ckCall' = [ckCall EXCEPT ![c] = [pc |-> pc, ck |-> ck, rest |-> rest]]
Ends(c) == ckCall' = [ckCall EXCEPT ![c] = IdleCk]

Highest(r, S) == r \in S /\ \A s \in S : s.height <= r.height
Lowest(r, S) == r \in S /\ \A s \in S : r.height <= s.height

\* Mutant: checkpoints are sorted the other way round.
CkSurplusHigh(H) == {r \in H : Cardinality({s \in H : s.height < r.height}) >= MaxCheckpoints}

\* All but the maxCheckpoints highest
CkSurplus(H) == {r \in H : Cardinality({s \in H : s.height > r.height}) >= MaxCheckpoints}

\* The next of toDelete leaves the map H, and its file is unlinked.
UnlinkNext(c, H, rest) ==
    IF rest = {} THEN held' = H /\ Ends(c)
    ELSE \E r \in rest :
            /\ Highest(r, rest)
            /\ held' = {s \in H : s.height # r.height}
            /\ CkGoes(c, "unlink", r, rest \ {r})

-----------------------------------------------------------------------------
(* initialize: the files are read one after the other. *)

BeginLoad(c) ==
    /\ Waiting(c, "idle")
    /\ CkGoes(c, "load", NoCk, ckFiles)
    /\ UNCHANGED <<ckReady, held, ckLast, ckFiles, exported, unwritten, ckMade, ckKills>>

\* A file that is no longer there, or not whole, or not signed is left out.
LoadFile(c) == \E r \in ckCall[c].rest :
    /\ Waiting(c, "load")
    /\ CkGoes(c, "load", NoCk, ckCall[c].rest \ {r})
    /\ IF r \in ckFiles /\ Accepted(r) THEN Hold(r) ELSE UNCHANGED <<held, ckLast>>
    /\ UNCHANGED <<ckReady, ckFiles, exported, unwritten, ckMade, ckKills>>

Loaded(c) ==
    /\ Waiting(c, "load") /\ ckCall[c].rest = {}
    /\ Ends(c) /\ ckReady' = TRUE
    /\ UNCHANGED <<held, ckLast, ckFiles, exported, unwritten, ckMade, ckKills>>

-----------------------------------------------------------------------------
(* createCheckpoint and pruneOldCheckpoints *)

Create(c, h) ==
    /\ Waiting(c, "idle") /\ ckReady
    /\ CkGoes(c, "create", [height |-> h, id |-> 0], {})
    /\ UNCHANGED <<ckReady, held, ckLast, ckFiles, exported, unwritten, ckMade, ckKills>>

Made(h) == [height |-> h, id |-> ckMade + 1]
Makes == ckMade < MaxCkMade /\ ckMade' = ckMade + 1

BlockFound(c) ==
    /\ Waiting(c, "create") /\ Makes
    /\ CkGoes(c, "write", Made(ckCall[c].ck.height), {})
    /\ UNCHANGED <<ckReady, held, ckLast, ckFiles, exported, unwritten, ckKills>>

\* It is held, and the surplus chosen, once its file is there.
Created(c) ==
    LET r == ckCall[c].ck
    IN  /\ Waiting(c, "write")
        /\ ckFiles' = ckFiles \cup {r}
        /\ ckLast' = IF r.height > ckLast THEN r.height ELSE ckLast
        /\ UnlinkNext(c, HeldWith(r), CkSurplus(HeldWith(r)))
        /\ UNCHANGED <<ckReady, exported, unwritten, ckMade, ckKills>>

\* There is no such block, or its checkpoint cannot be written.
CreateFails(c) ==
    /\ Waiting(c, "create") \/ Waiting(c, "write")
    /\ Ends(c)
    /\ UNCHANGED <<ckReady, held, ckLast, ckFiles, exported, unwritten, ckMade, ckKills>>

PruneCk(c) ==
    /\ Waiting(c, "idle") /\ CkSurplus(held) # {}
    /\ UnlinkNext(c, held, CkSurplus(held))
    /\ UNCHANGED <<ckReady, ckLast, ckFiles, exported, unwritten, ckMade, ckKills>>

\* An unlink that fails is ignored.
CkUnlinked(c) ==
    /\ Waiting(c, "unlink")
    /\ ckFiles' \in {ckFiles, ckFiles \ {ckCall[c].ck}}
    /\ UnlinkNext(c, held, ckCall[c].rest)
    /\ UNCHANGED <<ckReady, ckLast, exported, unwritten, ckMade, ckKills>>

-----------------------------------------------------------------------------
(* saveCheckpoint, exportCheckpoints and importCheckpoints *)

\* It is held first; its file is then truncated and written.
Writes(c, pc, r, rest) ==
    /\ Hold(r)
    /\ ckFiles' = ckFiles \ {r}
    /\ CkGoes(c, pc, r, rest)

\* A checkpoint of the caller's, or one that is held
Save(c) ==
    /\ Waiting(c, "idle")
    /\ \/ \E h \in CkHeight : Makes /\ Writes(c, "save", Made(h), {})
       \/ \E r \in held : ckMade' = ckMade /\ Writes(c, "save", r, {})
    /\ UNCHANGED <<ckReady, exported, unwritten, ckKills>>

CkSaved(c) ==
    /\ Waiting(c, "save") \/ (Waiting(c, "import") /\ ckCall[c].rest = {})
    /\ ckFiles' = ckFiles \cup {ckCall[c].ck}
    /\ Ends(c)
    /\ UNCHANGED <<ckReady, held, ckLast, exported, unwritten, ckMade, ckKills>>

WriteFails(c) ==
    /\ Waiting(c, "save") \/ Waiting(c, "import")
    /\ unwritten' = unwritten \cup {ckCall[c].ck}
    /\ Ends(c)
    /\ UNCHANGED <<ckReady, held, ckLast, ckFiles, exported, ckMade, ckKills>>

Export(c) ==
    /\ Waiting(c, "idle")
    /\ exported' = held
    /\ UNCHANGED <<ckReady, held, ckLast, ckFiles, ckCall, unwritten, ckMade, ckKills>>

\* The signed ones of what was exported here, or of another node's one
Import(c) == \E list \in {exported} \cup {{r} : r \in Foreign} : \E r \in list :
    /\ Waiting(c, "idle")
    /\ Lowest(r, {s \in list : Accepted(s)})
    /\ Writes(c, "import", r, {s \in list : Accepted(s)} \ {r})
    /\ UNCHANGED <<ckReady, exported, unwritten, ckMade, ckKills>>

ImportNext(c) == \E r \in ckCall[c].rest :
    /\ Waiting(c, "import") /\ Lowest(r, ckCall[c].rest)
    /\ Hold(r)
    /\ ckFiles' = (ckFiles \cup {ckCall[c].ck}) \ {r}
    /\ CkGoes(c, "import", r, ckCall[c].rest \ {r})
    /\ UNCHANGED <<ckReady, exported, unwritten, ckMade, ckKills>>

Close ==
    /\ ckReady /\ ckReady' = FALSE
    /\ UNCHANGED <<held, ckLast, ckFiles, ckCall, exported, unwritten, ckMade, ckKills>>

\* The process ends: what is being written is not whole.
CkKill ==
    /\ ckKills < MaxCkKills /\ ckKills' = ckKills + 1
    /\ ckReady' = FALSE /\ held' = {} /\ ckLast' = 0 /\ unwritten' = {}
    /\ ckCall' = [c \in CkCaller |-> IdleCk]
    /\ UNCHANGED <<ckFiles, exported, ckMade>>

-----------------------------------------------------------------------------

CheckpointsInit ==
    /\ ckReady = FALSE /\ held = {} /\ ckLast = 0 /\ ckFiles = {}
    /\ ckCall = [c \in CkCaller |-> IdleCk]
    /\ exported = {} /\ unwritten = {} /\ ckMade = 0 /\ ckKills = 0

CheckpointsNext ==
    \/ \E c \in CkCaller :
        \/ BeginLoad(c) \/ LoadFile(c) \/ Loaded(c)
        \/ BlockFound(c) \/ Created(c) \/ CreateFails(c) \/ PruneCk(c) \/ CkUnlinked(c)
        \/ Save(c) \/ CkSaved(c) \/ WriteFails(c) \/ Export(c) \/ Import(c) \/ ImportNext(c)
        \/ \E h \in CkHeight : Create(c, h)
    \/ Close \/ CkKill

CheckpointsSpec == CheckpointsInit /\ [][CheckpointsNext]_checkpointVars

-----------------------------------------------------------------------------
(* Properties *)

Writing(r) == \E c \in CkCaller : ckCall[c].pc \in {"save", "import"} /\ ckCall[c].ck = r

\* getLatestCheckpoint has the highest checkpoint to give whenever there is any,
\* and a restart will find it in its file, but while the file is being written or
\* when that failed: whatever else is pruned, made, imported or loaded meanwhile.
LatestIsThere == held # {} => \E r \in held :
    /\ r.height = ckLast /\ Highest(r, held)
    /\ r \in ckFiles \cup unwritten \/ Writing(r)

=============================================================================
