----------------------------- MODULE BlockStore -----------------------------
(***************************************************************************)
(* The block store of a node (src/storage/blockchain_store.js) with the    *)
(* checkpoints it keeps through src/storage/checkpoint_manager.js, as      *)
(* src/index.js runs it: the files survive the process, the maps do not.   *)
(*                                                                         *)
(* The methods are asynchronous, so what runs between two awaits is one    *)
(* action, and operations on files are actions of their own.  Both files   *)
(* are opened for appending: a write goes to the end of its file whatever  *)
(* position it names.  Every block takes one unit of blocks.dat, so that a *)
(* wrong position reads another block; index.dat is a sequence of JSON     *)
(* documents, readable when it holds at most one.                          *)
(***************************************************************************)
EXTENDS Integers, Sequences, FiniteSets

CONSTANTS
    Fork,                \* tells blocks of one height apart
    Genesis,             \* the fork of the genesis block
    Caller,              \* the addBlock calls that may overlap
    CheckpointInterval,
    ErrorListener,       \* TRUE when somebody listens to 'error' events
    Apart,               \* of "close", "restore" and "write" those that overlap no
                         \* other call, or no other write
    Env,                 \* what a run considers: "close", "crash", "restore"
    NoBlock,
    MaxHeight, MaxBlocks \* bounds: heights offered, blocks ever written

ASSUME ForkAssumption == Genesis \in Fork
ASSUME ListenerAssumption == ErrorListener \in BOOLEAN
ASSUME IntervalAssumption == CheckpointInterval \in Nat \ {0}
ASSUME BoundAssumption == MaxHeight \in Nat /\ MaxBlocks \in Nat

Block == [height : Nat, fork : Fork]

ASSUME NoBlockAssumption == NoBlock \notin Block

VARIABLES
    up,          \* the process is alive
    isOpen,
    index,       \* blockIndex: height to position
    hashIndex,   \* blockHashIndex: block, standing for its hash, to height
    height,      \* currentHeight
    tip,         \* currentBlockHash
    filePosition,
    checkpoints, \* the manager's map: height to block
    lastHeight,  \* the manager's lastCheckpointHeight
    lastCheckpoint, \* the store's lastCheckpointHeight and lastCheckpointHash
    add,         \* the addBlock calls under way
    sync,        \* the sync() calls under way: of the timer and of close()
    closing,     \* how far close() has come
    restore,     \* the restoreFromCheckpoint call under way
    blocksFile, indexFile, checkpointFiles   \* on disk

chainVars == <<index, hashIndex, height, tip, filePosition>>
checkpointVars == <<checkpoints, lastHeight, lastCheckpoint>>
memory == <<isOpen, chainVars, checkpointVars>>
calls == <<add, sync, closing, restore>>
files == <<blocksFile, indexFile, checkpointFiles>>
vars == <<up, memory, calls, files>>

Empty == [h \in {} |-> 0]

Put(f, k, v) == [x \in DOMAIN f \cup {k} |-> IF x = k THEN v ELSE f[x]]

Drop(f, k) == [x \in DOMAIN f \ {k} |-> f[x]]

-----------------------------------------------------------------------------
(* Calls under way *)

NoAdd == [pc |-> "idle"]

NoSync == [pc |-> "idle"]

NoRestore == [pc |-> "idle"]

SyncCaller == {"timer", "close"}

NothingAdded == \A c \in Caller : add[c] = NoAdd

Writing == \E c \in Caller : add[c].pc \in {"writing", "written"}

\* What a run keeps apart from closing and restoring.
Undisturbed ==
    /\ "close" \in Apart => closing = "no"
    /\ "restore" \in Apart => restore = NoRestore

BlocksFileOpen == closing \in {"no", "sync"}

IndexFileOpen == closing # "index"

BlockAt(position) ==
    IF BlocksFileOpen /\ position < Len(blocksFile) THEN blocksFile[position + 1] ELSE NoBlock

\* getBlockByHeight
Read(h) == IF h \in DOMAIN index /\ h <= height THEN BlockAt(index[h]) ELSE NoBlock

Die ==
    /\ up' = FALSE
    /\ isOpen' = FALSE
    /\ UNCHANGED <<chainVars, checkpointVars, calls>>

-----------------------------------------------------------------------------
(* Adding a block *)

\* Mutant: a block above the next height is taken as well.
TakesLater(b) == b.height > height

Takes(b) == b.height = height + 1

\* addBlock up to its first await
AddBlock(c, b) ==
    /\ up /\ isOpen /\ add[c] = NoAdd
    /\ Undisturbed /\ ("write" \in Apart => ~Writing)
    /\ IF Takes(b) /\ BlocksFileOpen
       THEN /\ add' = [add EXCEPT ![c] =
                         [pc |-> "writing", block |-> b, position |-> filePosition]]
            /\ UNCHANGED <<up, memory, sync, closing, restore, files>>
       ELSE /\ ~ErrorListener
            /\ Die /\ UNCHANGED files

\* The block arrives at the end of the file.
BlockWritten(c) ==
    /\ up /\ add[c].pc = "writing"
    /\ Len(blocksFile) < MaxBlocks
    /\ blocksFile' = Append(blocksFile, add[c].block)
    /\ add' = [add EXCEPT ![c].pc = "written"]
    /\ UNCHANGED <<up, memory, sync, closing, restore, indexFile, checkpointFiles>>

\* Mutant: the position is the one of the next block.
PositionAfter(c) == add[c].position + 1

PositionOf(c) == add[c].position

\* addBlock after the write; a checkpoint that is due reads the block first
BlockAdded(c) ==
    LET b == add[c].block
        due == b.height % CheckpointInterval = 0
    IN
    /\ up /\ add[c].pc = "written"
    /\ index' = Put(index, b.height, PositionOf(c))
    /\ hashIndex' = Put(hashIndex, b, b.height)
    /\ filePosition' = filePosition + 1
    /\ height' = b.height
    /\ tip' = b
    /\ add' = [add EXCEPT ![c] = IF due
                                 THEN [pc |-> "reading", block |-> BlockAt(PositionOf(c))]
                                 ELSE NoAdd]
    /\ UNCHANGED <<up, isOpen, checkpointVars, sync, closing, restore, files>>

\* createCheckpoint after its await: the height is read anew, the block is not
CheckpointTaken(c) ==
    /\ up /\ add[c].pc = "reading"
    /\ IF add[c].block = NoBlock
       THEN /\ add' = [add EXCEPT ![c] = NoAdd]
            /\ UNCHANGED <<memory, sync, closing, restore>>
            /\ up' = ErrorListener
       ELSE /\ checkpoints' = Put(checkpoints, height, add[c].block)
            /\ lastHeight' = IF height > lastHeight THEN height ELSE lastHeight
            /\ add' = [add EXCEPT ![c] = [pc |-> "saving", block |-> add[c].block,
                                          height |-> height]]
            /\ UNCHANGED <<up, isOpen, chainVars, lastCheckpoint, sync, closing, restore>>
    /\ UNCHANGED files

CheckpointSaved(c) ==
    LET ck == [height |-> add[c].height, block |-> add[c].block] IN
    /\ up /\ add[c].pc = "saving"
    /\ checkpointFiles' = checkpointFiles \cup {ck}
    /\ lastCheckpoint' = ck
    /\ add' = [add EXCEPT ![c] = NoAdd]
    /\ UNCHANGED <<up, isOpen, chainVars, checkpoints, lastHeight, sync, closing, restore,
                   blocksFile, indexFile>>

-----------------------------------------------------------------------------
(* Writing the index *)

\* Mutant: the height of the snapshot is one behind its maps.
LaggingSnapshot ==
    [index |-> index, hashIndex |-> hashIndex, height |-> height - 1, tip |-> tip,
     filePosition |-> filePosition, lastCheckpoint |-> lastCheckpoint]

Snapshot ==
    [index |-> index, hashIndex |-> hashIndex, height |-> height, tip |-> tip,
     filePosition |-> filePosition, lastCheckpoint |-> lastCheckpoint]

\* A document that a crash cut off.
Torn == [torn |-> TRUE]

StartSync(s) == sync' = [sync EXCEPT ![s] = [pc |-> "truncate", doc |-> Snapshot]]

\* the interval of initialize(); it runs until close() has synced
TimerSync ==
    /\ up /\ isOpen /\ closing \in {"no", "sync"}
    /\ sync["timer"] = NoSync
    /\ Undisturbed
    /\ StartSync("timer")
    /\ UNCHANGED <<up, memory, add, closing, restore, files>>

\* The truncated file is written next, unless its handle is being closed.
Truncated(s) ==
    /\ up /\ sync[s].pc = "truncate"
    /\ indexFile' = <<>>
    /\ sync' = [sync EXCEPT ![s] = IF IndexFileOpen THEN [@ EXCEPT !.pc = "write"] ELSE NoSync]
    /\ UNCHANGED <<up, memory, add, closing, restore, blocksFile, checkpointFiles>>

IndexWritten(s) ==
    /\ up /\ sync[s].pc = "write"
    /\ indexFile' = Append(indexFile, sync[s].doc)
    /\ sync' = [sync EXCEPT ![s] = NoSync]
    /\ UNCHANGED <<up, memory, add, closing, restore, blocksFile, checkpointFiles>>

-----------------------------------------------------------------------------
(* Closing *)

Close ==
    /\ up /\ isOpen /\ "close" \in Env /\ closing = "no"
    /\ "close" \in Apart => NothingAdded /\ restore = NoRestore /\ sync["timer"] = NoSync
    /\ Undisturbed
    /\ closing' = "sync"
    /\ StartSync("close")
    /\ UNCHANGED <<up, memory, add, restore, files>>

CloseBlocksFile ==
    /\ up /\ closing = "sync" /\ sync["close"] = NoSync
    /\ closing' = "blocks"
    /\ UNCHANGED <<up, memory, add, sync, restore, files>>

\* A handle is closed after the operations pending on it.
CloseIndexFile ==
    /\ up /\ closing = "blocks"
    /\ \A c \in Caller : add[c].pc # "writing"
    /\ closing' = "index"
    /\ UNCHANGED <<up, memory, add, sync, restore, files>>

\* The process exits once the store is closed.
Closed ==
    /\ up /\ closing = "index"
    /\ \A s \in SyncCaller : sync[s] = NoSync
    /\ Die /\ UNCHANGED files

\* The process is killed.  What it handed to the file system remains, and a
\* document may be cut off.
Kill ==
    /\ up /\ "crash" \in Env
    /\ Die
    /\ \/ UNCHANGED files
       \/ /\ \E s \in SyncCaller : sync[s].pc = "write"
          /\ indexFile' = Append(indexFile, Torn)
          /\ UNCHANGED <<blocksFile, checkpointFiles>>

-----------------------------------------------------------------------------
(* Starting *)

NoCheckpoint == [height |-> 0, block |-> NoBlock]

Unwritten ==
    [index |-> Empty, hashIndex |-> Empty, height |-> -1, tip |-> NoBlock,
     filePosition |-> 0, lastCheckpoint |-> NoCheckpoint]

Readable == indexFile = <<>> \/ (Len(indexFile) = 1 /\ indexFile[1] # Torn)

\* the checkpoints read from the directory: of several files for one height,
\* the one listed last
Loaded ==
    LET heights == {ck.height : ck \in checkpointFiles} IN
    {f \in [heights -> {ck.block : ck \in checkpointFiles}] :
        \A h \in heights : [height |-> h, block |-> f[h]] \in checkpointFiles}

\* the highest of the heights, 0 when there is none
Highest(heights) == {h \in heights \cup {0} : \A g \in heights : g <= h}

(***************************************************************************)
(* initialize(), on an index that can be read; otherwise the node exits.   *)
(* The latest checkpoint of the manager replaces the one of the index.     *)
(***************************************************************************)
Initialize ==
    /\ ~up /\ Readable
    /\ LET doc == IF indexFile = <<>> THEN Unwritten ELSE indexFile[1] IN
       /\ index' = doc.index /\ hashIndex' = doc.hashIndex
       /\ height' = doc.height /\ tip' = doc.tip /\ filePosition' = doc.filePosition
       /\ checkpoints' \in Loaded
       /\ lastHeight' \in Highest(DOMAIN checkpoints')
       /\ lastCheckpoint' = IF lastHeight' = 0 THEN doc.lastCheckpoint
                            ELSE [height |-> lastHeight', block |-> checkpoints'[lastHeight']]
    /\ up' = TRUE /\ isOpen' = TRUE
    /\ add' = [c \in Caller |-> NoAdd]
    /\ sync' = [s \in SyncCaller |-> NoSync]
    /\ closing' = "no" /\ restore' = NoRestore
    /\ UNCHANGED files

-----------------------------------------------------------------------------
(* Restoring a checkpoint *)

\* verifyCheckpoint, and the store again: the checkpoint's block is the one that
\* is read at its height.
Verified(h) == Read(h) # NoBlock /\ Read(h) = checkpoints[h]

Restore(h) ==
    /\ up /\ isOpen /\ "restore" \in Env /\ restore = NoRestore
    /\ "restore" \in Apart => /\ NothingAdded /\ closing = "no"
                             /\ \A s \in SyncCaller : sync[s] = NoSync
    /\ Undisturbed
    /\ h \in DOMAIN checkpoints
    /\ Verified(h)
    /\ restore' = [pc |-> "reverting", to |-> h, block |-> checkpoints[h], at |-> height]
    /\ UNCHANGED <<up, memory, add, sync, closing, files>>

FirstKept == restore.to + 1

\* one turn of the loop; a block that cannot be read stays in the index
Revert ==
    LET b == Read(restore.at) IN
    /\ up /\ restore # NoRestore /\ restore.at >= FirstKept
    /\ restore' = [restore EXCEPT !.at = @ - 1]
    /\ IF b = NoBlock THEN UNCHANGED <<index, hashIndex>>
       ELSE /\ hashIndex' = Drop(hashIndex, b)
            /\ index' = Drop(index, restore.at)
    /\ UNCHANGED <<up, isOpen, height, tip, filePosition, checkpointVars, add, sync, closing,
                   files>>

Restored ==
    LET h == restore.to IN
    /\ up /\ restore # NoRestore /\ restore.at < FirstKept
    /\ height' = h
    /\ tip' = restore.block
    /\ filePosition' = IF h \in DOMAIN index THEN index[h] + 1 ELSE filePosition
    /\ lastCheckpoint' = [height |-> h, block |-> restore.block]
    /\ restore' = NoRestore
    /\ UNCHANGED <<up, isOpen, index, hashIndex, checkpoints, lastHeight, add, sync, closing,
                   files>>

-----------------------------------------------------------------------------
(* The specification *)

Init ==
    /\ up = FALSE /\ isOpen = FALSE
    /\ index = Empty /\ hashIndex = Empty /\ height = -1 /\ tip = NoBlock
    /\ filePosition = 0
    /\ checkpoints = Empty /\ lastHeight = 0
    /\ lastCheckpoint = NoCheckpoint
    /\ add = [c \in Caller |-> NoAdd]
    /\ sync = [s \in SyncCaller |-> NoSync]
    /\ closing = "no" /\ restore = NoRestore
    /\ blocksFile = <<>> /\ indexFile = <<>> /\ checkpointFiles = {}

\* What may be offered: the genesis block to an empty store, by the node as it
\* starts, and then any block of a height near the tip.
Offered ==
    IF height = -1
    THEN IF NothingAdded THEN {[height |-> 0, fork |-> Genesis]} ELSE {}
    ELSE {b \in [height : height..height + 2, fork : Fork] : b.height \in 1..MaxHeight}

AddStep(c) ==
    \/ \E b \in Offered : AddBlock(c, b)
    \/ BlockWritten(c)
    \/ BlockAdded(c)
    \/ CheckpointTaken(c)
    \/ CheckpointSaved(c)

SyncStep(s) ==
    \/ Truncated(s)
    \/ IndexWritten(s)

CloseStep ==
    \/ Close
    \/ CloseBlocksFile
    \/ CloseIndexFile
    \/ Closed

RestoreStep ==
    \/ \E h \in DOMAIN checkpoints : Restore(h)
    \/ Revert
    \/ Restored

Next ==
    \/ \E c \in Caller : AddStep(c)
    \/ TimerSync
    \/ \E s \in SyncCaller : SyncStep(s)
    \/ CloseStep
    \/ RestoreStep
    \/ Kill
    \/ Initialize

Spec == Init /\ [][Next]_vars

\* The sync timer fires, file operations end, and a node is started again.
Fairness ==
    /\ WF_vars(TimerSync)
    /\ \A s \in SyncCaller : WF_vars(SyncStep(s))
    /\ \A c \in Caller : WF_vars(BlockWritten(c) \/ BlockAdded(c))

FairSpec == Spec /\ Fairness

-----------------------------------------------------------------------------
(* Properties *)

AddRecord ==
    {NoAdd} \cup [pc : {"writing", "written"}, block : Block, position : Nat]
            \cup [pc : {"reading"}, block : Block \cup {NoBlock}]
            \cup [pc : {"saving"}, block : Block, height : Int]

CheckpointRecord == [height : Int, block : Block \cup {NoBlock}]

\* Every variable holds a value of its kind.
TypeOK ==
    /\ up \in BOOLEAN /\ isOpen \in BOOLEAN
    /\ DOMAIN index \subseteq Nat /\ \A h \in DOMAIN index : index[h] \in Nat
    /\ DOMAIN hashIndex \subseteq Block /\ \A b \in DOMAIN hashIndex : hashIndex[b] \in Nat
    /\ height \in Int /\ height >= -1 /\ tip \in Block \cup {NoBlock}
    /\ filePosition \in Nat
    /\ lastHeight \in Int /\ lastCheckpoint \in CheckpointRecord
    /\ add \in [Caller -> AddRecord]
    /\ closing \in {"no", "sync", "blocks", "index"}
    /\ blocksFile \in Seq(Block)
    /\ checkpointFiles \subseteq CheckpointRecord

\* However calls, syncs, crashes and restores follow each other, no height up
\* to the current one is missing from the index of a store that is not just
\* being restored.
NoHoles == up /\ restore = NoRestore => 0..height \subseteq DOMAIN index

\* Every height up to the current one reads back a block that was added at
\* that height, after any number of refused blocks, checkpoints, syncs,
\* closings and starts.
ReadsBack ==
    up /\ BlocksFileOpen =>
        \A h \in 0..height : Read(h) \in DOMAIN hashIndex /\ hashIndex[Read(h)] = h

\* The chain that the index and the block file stand for.
Stored ==
    [n \in 1..height + 1 |->
        LET position == index[n - 1] IN
        IF position < Len(blocksFile) THEN blocksFile[position + 1] ELSE NoBlock]

StoredChain == INSTANCE Chain WITH chain <- Stored

\* The store implements Chain: it only ever appends the block of the next
\* height, and closing and starting it again changes nothing.
ImplementsChain == StoredChain!Spec

\* What was added reaches the index file, or the process ends first.
IndexedOnDisk ==
    \A n \in 1..MaxHeight :
        up /\ height >= n ~>
            \/ ~up \/ closing # "no" \/ height < n
            \/ Len(indexFile) = 1 /\ indexFile[1].height >= n

=============================================================================
