-------------------------- MODULE BlockStoreProofs --------------------------
(***************************************************************************)
(* The types of the block store, that its index has no holes, and that the *)
(* store implements Chain.                                                 *)
(* NoHoles alone is not inductive: a height comes back from a block that   *)
(* was checked before its write, from the document of a sync and from the  *)
(* index file, and goes down in a restore, so the invariant follows the    *)
(* heights to all these places.                                            *)
(***************************************************************************)
EXTENDS BlockStore, TLAPS

-----------------------------------------------------------------------------
(* Partial functions *)

Partial(S, T) == UNION {[D -> T] : D \in SUBSET S}

\* Adding an entry to a map adds its key to the domain and no other.
LEMMA PutPartial ==
    ASSUME NEW S, NEW T, NEW f \in Partial(S, T), NEW k \in S, NEW v \in T
    PROVE  /\ Put(f, k, v) \in Partial(S, T)
           /\ DOMAIN Put(f, k, v) = DOMAIN f \cup {k}
<1>1. PICK D \in SUBSET S : f \in [D -> T]
  BY DEF Partial
<1>2. Put(f, k, v) \in [D \cup {k} -> T]
  BY <1>1 DEF Put
<1>3. D \cup {k} \in SUBSET S
  OBVIOUS
<1> QED
  BY <1>1, <1>2, <1>3 DEF Partial, Put

\* Deleting an entry removes its key from the domain and no other.
LEMMA DropPartial ==
    ASSUME NEW S, NEW T, NEW f \in Partial(S, T), NEW k
    PROVE  /\ Drop(f, k) \in Partial(S, T)
           /\ DOMAIN Drop(f, k) = DOMAIN f \ {k}
<1>1. PICK D \in SUBSET S : f \in [D -> T]
  BY DEF Partial
<1>2. Drop(f, k) \in [D \ {k} -> T]
  BY <1>1 DEF Drop
<1>3. D \ {k} \in SUBSET S
  OBVIOUS
<1> QED
  BY <1>1, <1>2, <1>3 DEF Partial, Drop

\* The empty map is a partial function between any two sets.
LEMMA EmptyPartial ==
    ASSUME NEW S, NEW T
    PROVE  Empty \in Partial(S, T) /\ DOMAIN Empty = {}
<1>1. Empty \in [{} -> T]
  BY DEF Empty
<1>2. {} \in SUBSET S
  OBVIOUS
<1> QED
  BY <1>1, <1>2 DEF Partial, Empty

\* A partial function has its keys in the one set, its values in the other.
LEMMA PartialElements ==
    ASSUME NEW S, NEW T, NEW f \in Partial(S, T)
    PROVE  DOMAIN f \subseteq S /\ \A k \in DOMAIN f : f[k] \in T
  BY DEF Partial

-----------------------------------------------------------------------------
(* Types *)

Height == Nat \cup {-1}

Tip == Block \cup {NoBlock}

Doc == [index : Partial(Nat, Nat), hashIndex : Partial(Block, Nat), height : Height,
        tip : Tip, filePosition : Nat, lastCheckpoint : CheckpointRecord]

SyncRecord == {NoSync} \cup [pc : {"truncate", "write"}, doc : Doc]

RestoreRecord ==
    {NoRestore} \cup [pc : {"reverting"}, to : Nat, block : Block, at : Int]

TypeInv ==
    /\ up \in BOOLEAN /\ isOpen \in BOOLEAN
    /\ index \in Partial(Nat, Nat)
    /\ hashIndex \in Partial(Block, Nat)
    /\ height \in Height
    /\ tip \in Tip
    /\ filePosition \in Nat
    /\ checkpoints \in Partial(Int, Block)
    /\ lastHeight \in Int
    /\ lastCheckpoint \in CheckpointRecord
    /\ add \in [Caller -> AddRecord]
    /\ sync \in [SyncCaller -> SyncRecord]
    /\ closing \in {"no", "sync", "blocks", "index"}
    /\ restore \in RestoreRecord
    /\ blocksFile \in Seq(Block)
    /\ indexFile \in Seq(Doc \cup {Torn})
    /\ checkpointFiles \subseteq [height : Int, block : Block]

\* What is read at a position is a block or nothing.
LEMMA BlockAtType ==
    ASSUME TypeInv, NEW p \in Nat
    PROVE  BlockAt(p) \in Tip
  BY DEF TypeInv, BlockAt, Tip

\* What is read at a height is a block or nothing.
LEMMA ReadType ==
    ASSUME TypeInv, NEW h
    PROVE  Read(h) \in Tip
<1>1. CASE h \in DOMAIN index /\ h <= height
  <2>1. index[h] \in Nat
    BY <1>1, PartialElements DEF TypeInv
  <2> QED
    BY <1>1, <2>1, BlockAtType DEF Read
<1>2. CASE ~(h \in DOMAIN index /\ h <= height)
  BY <1>2 DEF Read, Tip
<1> QED
  BY <1>1, <1>2

\* A snapshot of the maps is a document.
LEMMA SnapshotType ==
    ASSUME TypeInv
    PROVE  Snapshot \in Doc
  BY DEF TypeInv, Snapshot, Doc

\* The document a store without an index file starts from.
LEMMA UnwrittenType ==
    ASSUME TypeInv
    PROVE  Unwritten \in Doc
<1>1. Empty \in Partial(Nat, Nat) /\ Empty \in Partial(Block, Nat)
  BY EmptyPartial
<1> QED
  BY <1>1 DEF Unwritten, NoCheckpoint, Doc, Height, Tip, CheckpointRecord

\* Checkpoints read from their files are a map from heights to blocks.
LEMMA LoadedType ==
    ASSUME TypeInv, NEW f \in Loaded
    PROVE  f \in Partial(Int, Block)
<1>1. f \in [{ck.height : ck \in checkpointFiles} -> {ck.block : ck \in checkpointFiles}]
  BY DEF Loaded
<1>2. {ck.height : ck \in checkpointFiles} \in SUBSET Int
  BY DEF TypeInv
<1>3. {ck.block : ck \in checkpointFiles} \subseteq Block
  BY DEF TypeInv
<1>4. f \in [{ck.height : ck \in checkpointFiles} -> Block]
  BY <1>1, <1>3
<1> QED
  BY <1>2, <1>4 DEF Partial

-----------------------------------------------------------------------------
(* Type correctness *)

\* The blocks offered are blocks.
LEMMA OfferedType ==
    ASSUME TypeInv, NEW b \in Offered
    PROVE  b \in Block
<1>1. CASE height = -1
  BY <1>1, ForkAssumption DEF Offered, Block
<1>2. CASE height # -1
  BY <1>2 DEF Offered, Block, TypeInv, Height
<1> QED
  BY <1>1, <1>2

LEMMA TypeInit == Init => TypeInv
<1> SUFFICES ASSUME Init PROVE TypeInv
  OBVIOUS
<1>1. /\ index \in Partial(Nat, Nat) /\ hashIndex \in Partial(Block, Nat)
      /\ checkpoints \in Partial(Int, Block)
  BY EmptyPartial DEF Init
<1>2. add \in [Caller -> AddRecord]
  BY DEF Init, AddRecord
<1>3. sync \in [SyncCaller -> SyncRecord]
  BY DEF Init, SyncRecord
<1>4. lastCheckpoint \in CheckpointRecord
  BY DEF Init, NoCheckpoint, CheckpointRecord
<1>5. blocksFile \in Seq(Block) /\ indexFile \in Seq(Doc \cup {Torn})
  BY DEF Init
<1>6. height \in Height /\ tip \in Tip /\ restore \in RestoreRecord
  BY DEF Init, Height, Tip, RestoreRecord
<1>7. up \in BOOLEAN /\ isOpen \in BOOLEAN
  BY DEF Init
<1>8. filePosition \in Nat /\ lastHeight \in Int /\ closing \in {"no", "sync", "blocks", "index"}
  BY DEF Init
<1>9. checkpointFiles \subseteq [height : Int, block : Block]
  BY DEF Init
<1> QED
  BY <1>1, <1>2, <1>3, <1>4, <1>5, <1>6, <1>7, <1>8, <1>9 DEF TypeInv

LEMMA TypeStep == TypeInv /\ [Next]_vars => TypeInv'
<1> SUFFICES ASSUME TypeInv, [Next]_vars PROVE TypeInv'
  OBVIOUS
<1> USE DEF memory, chainVars, checkpointVars, calls, files
<1>1. ASSUME NEW c \in Caller, NEW b \in Offered, AddBlock(c, b) PROVE TypeInv'
  <2>1. b \in Block
    BY OfferedType
  <2>2. add' \in [Caller -> AddRecord]
    <3>1. [pc |-> "writing", block |-> b, position |-> filePosition] \in AddRecord
      BY <2>1 DEF TypeInv, AddRecord
    <3> QED
      BY <1>1, <3>1 DEF AddBlock, TypeInv, Die
  <2> QED
    BY <1>1, <2>2 DEF AddBlock, TypeInv, Die
<1>2. ASSUME NEW c \in Caller, BlockWritten(c) PROVE TypeInv'
  <2>1. /\ add[c].pc = "writing" /\ add[c] \in AddRecord
        /\ add' = [add EXCEPT ![c].pc = "written"]
    BY <1>2 DEF BlockWritten, TypeInv
  <2>2. add[c] \in [pc : {"writing", "written"}, block : Block, position : Nat]
    BY <2>1 DEF AddRecord, NoAdd
  <2>3. [add[c] EXCEPT !.pc = "written"] \in AddRecord
    BY <2>2 DEF AddRecord
  <2>4. add' \in [Caller -> AddRecord]
    BY <2>1, <2>3 DEF TypeInv
  <2>5. blocksFile' \in Seq(Block)
    BY <1>2, <2>2 DEF BlockWritten, TypeInv
  <2> QED
    BY <1>2, <2>4, <2>5 DEF BlockWritten, TypeInv
<1>3. ASSUME NEW c \in Caller, BlockAdded(c) PROVE TypeInv'
  <2>1. add[c].pc = "written" /\ add[c] \in AddRecord
    BY <1>3 DEF BlockAdded, TypeInv
  <2>2. /\ add[c].block \in Block /\ add[c].block.height \in Nat
        /\ add[c].position \in Nat
    BY <2>1 DEF AddRecord, NoAdd, Block
  <2>3. BlockAt(PositionOf(c)) \in Tip
    BY <2>2, BlockAtType DEF PositionOf
  <2>4. add' \in [Caller -> AddRecord]
    BY <1>3, <2>3 DEF BlockAdded, TypeInv, AddRecord, Tip
  <2>5. index' \in Partial(Nat, Nat)
    BY <1>3, <2>2, PutPartial DEF BlockAdded, TypeInv, PositionOf
  <2>6. hashIndex' \in Partial(Block, Nat)
    BY <1>3, <2>2, PutPartial DEF BlockAdded, TypeInv
  <2> QED
    BY <1>3, <2>2, <2>4, <2>5, <2>6 DEF BlockAdded, TypeInv, Height, Tip
<1>4. ASSUME NEW c \in Caller, CheckpointTaken(c) PROVE TypeInv'
  <2>1. CASE add[c].block = NoBlock
    <3>1. add' \in [Caller -> AddRecord]
      BY <1>4, <2>1 DEF CheckpointTaken, TypeInv, AddRecord
    <3>2. up' \in BOOLEAN
      BY <1>4, <2>1, ListenerAssumption DEF CheckpointTaken
    <3> QED
      BY <1>4, <2>1, <3>1, <3>2 DEF CheckpointTaken, TypeInv
  <2>2. CASE add[c].block # NoBlock
    <3>1. add[c].pc = "reading" /\ add[c] \in AddRecord
      BY <1>4 DEF CheckpointTaken, TypeInv
    <3>2. add[c].block \in Block /\ height \in Int
      BY <2>2, <3>1 DEF AddRecord, NoAdd, TypeInv, Height
    <3>3. add' \in [Caller -> AddRecord]
      BY <1>4, <2>2, <3>2 DEF CheckpointTaken, TypeInv, AddRecord
    <3>4. checkpoints' \in Partial(Int, Block)
      <4>1. checkpoints \in Partial(Int, Block)
        BY DEF TypeInv
      <4>2. Put(checkpoints, height, add[c].block) \in Partial(Int, Block)
        BY <3>2, <4>1, PutPartial
      <4> QED
        BY <1>4, <2>2, <4>2 DEF CheckpointTaken
    <3>5. lastHeight' \in Int
      BY <1>4, <2>2, <3>2 DEF CheckpointTaken, TypeInv
    <3> QED
      BY <1>4, <2>2, <3>3, <3>4, <3>5 DEF CheckpointTaken, TypeInv
  <2> QED
    BY <2>1, <2>2
<1>5. ASSUME NEW c \in Caller, CheckpointSaved(c) PROVE TypeInv'
  <2>1. add[c].pc = "saving" /\ add[c] \in AddRecord
    BY <1>5 DEF CheckpointSaved, TypeInv
  <2>2. add[c].block \in Block /\ add[c].height \in Int
    BY <2>1 DEF AddRecord, NoAdd
  <2>3. add' \in [Caller -> AddRecord]
    BY <1>5 DEF CheckpointSaved, TypeInv, AddRecord
  <2> QED
    BY <1>5, <2>2, <2>3 DEF CheckpointSaved, TypeInv, CheckpointRecord
<1>6. ASSUME NEW s \in SyncCaller, StartSync(s) PROVE sync' \in [SyncCaller -> SyncRecord]
  BY <1>6, SnapshotType DEF StartSync, TypeInv, SyncRecord
<1>7. CASE TimerSync
  BY <1>6, <1>7 DEF TimerSync, TypeInv, SyncCaller
<1>8. ASSUME NEW s \in SyncCaller, Truncated(s) PROVE TypeInv'
  <2>1. sync[s].pc = "truncate" /\ sync[s] \in SyncRecord
    BY <1>8 DEF Truncated, TypeInv
  <2>2. sync[s] \in [pc : {"truncate", "write"}, doc : Doc]
    BY <2>1 DEF SyncRecord, NoSync
  <2>3. [sync[s] EXCEPT !.pc = "write"] \in SyncRecord /\ NoSync \in SyncRecord
    BY <2>2 DEF SyncRecord
  <2>4. sync' \in [SyncCaller -> SyncRecord]
    BY <1>8, <2>3 DEF Truncated, TypeInv
  <2> QED
    BY <1>8, <2>4 DEF Truncated, TypeInv
<1>9. ASSUME NEW s \in SyncCaller, IndexWritten(s) PROVE TypeInv'
  <2>1. sync[s].pc = "write" /\ sync[s] \in SyncRecord
    BY <1>9 DEF IndexWritten, TypeInv
  <2>2. sync[s].doc \in Doc
    BY <2>1 DEF SyncRecord, NoSync
  <2>3. sync' \in [SyncCaller -> SyncRecord]
    BY <1>9 DEF IndexWritten, TypeInv, SyncRecord
  <2>4. indexFile' \in Seq(Doc \cup {Torn})
    BY <1>9, <2>2 DEF IndexWritten, TypeInv
  <2> QED
    BY <1>9, <2>3, <2>4 DEF IndexWritten, TypeInv
<1>10. CASE CloseStep
  <2>1. CASE Close
    BY <1>6, <2>1 DEF Close, TypeInv, SyncCaller
  <2>2. CASE CloseBlocksFile
    BY <2>2 DEF CloseBlocksFile, TypeInv
  <2>3. CASE CloseIndexFile
    BY <2>3 DEF CloseIndexFile, TypeInv
  <2>4. CASE Closed
    BY <2>4 DEF Closed, TypeInv, Die
  <2> QED
    BY <1>10, <2>1, <2>2, <2>3, <2>4 DEF CloseStep
<1>11. ASSUME NEW h \in DOMAIN checkpoints, Restore(h) PROVE TypeInv'
  <2>1. checkpoints[h] \in Block
    BY PartialElements DEF TypeInv
  <2>2. h \in Nat
    BY <1>11, PartialElements DEF Restore, Verified, Read, TypeInv
  <2>3. restore' \in RestoreRecord
    BY <1>11, <2>1, <2>2 DEF Restore, RestoreRecord, TypeInv, Height
  <2> QED
    BY <1>11, <2>3 DEF Restore, TypeInv
<1>12. CASE Revert
  <2>1. restore \in [pc : {"reverting"}, to : Nat, block : Block, at : Int]
    BY <1>12 DEF Revert, TypeInv, RestoreRecord
  <2>2. restore' \in RestoreRecord
    BY <1>12, <2>1 DEF Revert, RestoreRecord
  <2>3. index' \in Partial(Nat, Nat) /\ hashIndex' \in Partial(Block, Nat)
    <3>1. /\ Drop(hashIndex, Read(restore.at)) \in Partial(Block, Nat)
          /\ Drop(index, restore.at) \in Partial(Nat, Nat)
      BY DropPartial DEF TypeInv
    <3>2. (index' = index /\ hashIndex' = hashIndex)
            \/ (/\ hashIndex' = Drop(hashIndex, Read(restore.at))
                /\ index' = Drop(index, restore.at))
      BY <1>12 DEF Revert
    <3> QED
      BY <3>1, <3>2 DEF TypeInv
  <2> QED
    BY <1>12, <2>2, <2>3 DEF Revert, TypeInv
<1>13. CASE Restored
  <2>1. restore \in [pc : {"reverting"}, to : Nat, block : Block, at : Int]
    BY <1>13 DEF Restored, TypeInv, RestoreRecord
  <2>2. filePosition' \in Nat
    BY <1>13, PartialElements DEF Restored, TypeInv
  <2> QED
    BY <1>13, <2>1, <2>2 DEF Restored, TypeInv, Height, Tip, CheckpointRecord, RestoreRecord
<1>14. CASE Kill
  <2>1. indexFile' \in Seq(Doc \cup {Torn})
    BY <1>14 DEF Kill, TypeInv
  <2> QED
    BY <1>14, <2>1 DEF Kill, Die, TypeInv
<1>15. CASE Initialize
  <2> DEFINE doc == IF indexFile = <<>> THEN Unwritten ELSE indexFile[1]
  <2>1. doc \in Doc
    BY <1>15, UnwrittenType DEF Initialize, Readable, TypeInv
  <2>2. /\ index' = doc.index /\ hashIndex' = doc.hashIndex
        /\ height' = doc.height /\ tip' = doc.tip /\ filePosition' = doc.filePosition
    BY <1>15 DEF Initialize
  <2>3. checkpoints' \in Partial(Int, Block)
    BY <1>15, LoadedType DEF Initialize
  <2>4. lastHeight' \in Int /\ (lastHeight' # 0 => lastHeight' \in DOMAIN checkpoints')
    BY <1>15, <2>3, PartialElements DEF Initialize, Highest
  <2>5. lastCheckpoint' \in CheckpointRecord
    <3>1. CASE lastHeight' = 0
      BY <1>15, <2>1, <3>1 DEF Initialize, Doc
    <3>2. CASE lastHeight' # 0
      <4>1. checkpoints'[lastHeight'] \in Block
        BY <2>3, <2>4, <3>2, PartialElements
      <4>2. lastCheckpoint' = [height |-> lastHeight', block |-> checkpoints'[lastHeight']]
        BY <1>15, <3>2 DEF Initialize
      <4> QED
        BY <2>4, <4>1, <4>2 DEF CheckpointRecord
    <3> QED
      BY <3>1, <3>2
  <2>6. add' \in [Caller -> AddRecord] /\ sync' \in [SyncCaller -> SyncRecord]
    BY <1>15 DEF Initialize, AddRecord, SyncRecord
  <2>7. /\ index' \in Partial(Nat, Nat) /\ hashIndex' \in Partial(Block, Nat)
        /\ height' \in Height /\ tip' \in Tip /\ filePosition' \in Nat
    BY <2>1, <2>2 DEF Doc
  <2> QED
    BY <1>15, <2>3, <2>4, <2>5, <2>6, <2>7 DEF Initialize, TypeInv, RestoreRecord
<1>16. CASE UNCHANGED vars
  BY <1>16 DEF vars, TypeInv
<1> QED
  BY <1>1, <1>2, <1>3, <1>4, <1>5, <1>7, <1>8, <1>9, <1>10, <1>11, <1>12, <1>13, <1>14,
     <1>15, <1>16 DEF Next, AddStep, SyncStep, RestoreStep

\* Every variable of the store keeps its type in every reachable state.
THEOREM TypeCorrectness == Spec => []TypeOK
<1>1. TypeInv => TypeOK
  <2> SUFFICES ASSUME TypeInv PROVE TypeOK
    OBVIOUS
  <2>1. /\ DOMAIN index \subseteq Nat /\ \A h \in DOMAIN index : index[h] \in Nat
        /\ DOMAIN hashIndex \subseteq Block /\ \A b \in DOMAIN hashIndex : hashIndex[b] \in Nat
    BY PartialElements DEF TypeInv
  <2> QED
    BY <2>1 DEF TypeInv, TypeOK, Height, Tip, CheckpointRecord
<1> QED
  BY <1>1, TypeInit, TypeStep, PTL DEF Spec

-----------------------------------------------------------------------------
(* The index has no holes *)

IndexComplete == restore = NoRestore => 0..height \subseteq DOMAIN index

\* A block was taken when every height below it was in the index.
AddsFollow ==
    \A c \in Caller :
        add[c].pc \in {"writing", "written"} =>
            0..(add[c].block.height - 1) \subseteq DOMAIN index

SyncsWhole ==
    \A s \in SyncCaller :
        sync[s] # NoSync => 0..sync[s].doc.height \subseteq DOMAIN sync[s].doc.index

FileWhole ==
    \A i \in 1..Len(indexFile) :
        indexFile[i] # Torn => 0..indexFile[i].height \subseteq DOMAIN indexFile[i].index

\* A restore that overlaps nothing removes only heights above its target.
RestoreAlone ==
    restore # NoRestore =>
        /\ 0..restore.to \subseteq DOMAIN index
        /\ NothingAdded
        /\ \A s \in SyncCaller : sync[s] = NoSync

HoleInv == IndexComplete /\ AddsFollow /\ SyncsWhole /\ FileWhole /\ RestoreAlone

LEMMA HoleInit == Init => HoleInv
<1> SUFFICES ASSUME Init PROVE HoleInv
  OBVIOUS
<1>1. IndexComplete
  BY DEF Init, IndexComplete
<1>2. AddsFollow
  BY DEF Init, AddsFollow, NoAdd
<1>3. SyncsWhole
  BY DEF Init, SyncsWhole
<1>4. FileWhole
  BY DEF Init, FileWhole
<1>5. RestoreAlone
  BY DEF Init, RestoreAlone
<1> QED
  BY <1>1, <1>2, <1>3, <1>4, <1>5 DEF HoleInv

\* A step that leaves the index, the height and the restore alone keeps what
\* is said of them, whatever it does to the process.
LEMMA HoleFrame ==
    ASSUME HoleInv, UNCHANGED <<index, height, add, sync, restore, indexFile>>
    PROVE  HoleInv'
  BY DEF HoleInv, IndexComplete, AddsFollow, SyncsWhole, FileWhole, RestoreAlone, NothingAdded

\* A snapshot that is taken while nothing is restored has no holes.
LEMMA HoleSnapshot ==
    ASSUME HoleInv, TypeInv, restore = NoRestore, NEW s \in SyncCaller, StartSync(s),
           UNCHANGED <<index, height, add, restore, indexFile>>
    PROVE  HoleInv'
<1>1. IndexComplete' /\ AddsFollow' /\ FileWhole' /\ RestoreAlone'
  BY DEF HoleInv, IndexComplete, AddsFollow, FileWhole, RestoreAlone
<1>2. 0..Snapshot.height \subseteq DOMAIN Snapshot.index
  BY DEF HoleInv, IndexComplete, Snapshot
<1>3. SyncsWhole'
  BY <1>2 DEF HoleInv, SyncsWhole, StartSync, TypeInv
<1> QED
  BY <1>1, <1>3 DEF HoleInv

LEMMA HoleStep ==
    ASSUME "restore" \in Apart
    PROVE  HoleInv /\ TypeInv /\ [Next]_vars => HoleInv'
<1> SUFFICES ASSUME HoleInv, TypeInv, [Next]_vars PROVE HoleInv'
  OBVIOUS
<1> USE DEF memory, chainVars, checkpointVars, calls, files
<1>1. ASSUME NEW c \in Caller, NEW b \in Offered, AddBlock(c, b) PROVE HoleInv'
  <2>1. restore = NoRestore
    BY <1>1 DEF AddBlock, Undisturbed
  <2>2. CASE Takes(b) /\ BlocksFileOpen
    <3>1. b \in Block /\ b.height = height + 1 /\ 0..height \subseteq DOMAIN index
      BY <2>1, <2>2, OfferedType DEF Takes, HoleInv, IndexComplete
    <3>2. /\ UNCHANGED <<index, height, sync, restore, indexFile>>
          /\ add' = [add EXCEPT ![c] =
                       [pc |-> "writing", block |-> b, position |-> filePosition]]
      BY <1>1, <2>2 DEF AddBlock
    <3>3. AddsFollow'
      BY <3>1, <3>2 DEF AddsFollow, HoleInv, TypeInv, Height
    <3> QED
      BY <2>1, <3>2, <3>3 DEF HoleInv, IndexComplete, SyncsWhole, FileWhole, RestoreAlone
  <2>3. CASE ~(Takes(b) /\ BlocksFileOpen)
    BY <1>1, <2>3, HoleFrame DEF AddBlock, Die
  <2> QED
    BY <2>2, <2>3
<1>2. ASSUME NEW c \in Caller, BlockWritten(c) PROVE HoleInv'
  <2>1. /\ UNCHANGED <<index, height, sync, restore, indexFile>>
        /\ add[c].pc = "writing" /\ add' = [add EXCEPT ![c].pc = "written"]
    BY <1>2 DEF BlockWritten
  <2>2. restore = NoRestore
    BY <2>1 DEF HoleInv, RestoreAlone, NothingAdded, NoAdd
  <2>3. AddsFollow'
    <3>1. \A d \in Caller : add'[d].pc \in {"writing", "written"} =>
                              /\ add[d].pc \in {"writing", "written"}
                              /\ add'[d].block = add[d].block
      BY <2>1 DEF TypeInv, AddRecord, NoAdd
    <3> QED
      BY <2>1, <3>1 DEF HoleInv, AddsFollow
  <2> QED
    BY <2>1, <2>2, <2>3 DEF HoleInv, IndexComplete, SyncsWhole, FileWhole, RestoreAlone
<1>3. ASSUME NEW c \in Caller, BlockAdded(c) PROVE HoleInv'
  <2>1. /\ add[c].pc = "written" /\ add[c] \in AddRecord
        /\ UNCHANGED <<sync, restore, indexFile>>
        /\ index' = Put(index, add[c].block.height, PositionOf(c))
        /\ height' = add[c].block.height
    BY <1>3 DEF BlockAdded, TypeInv
  <2>2. restore = NoRestore
    BY <2>1 DEF HoleInv, RestoreAlone, NothingAdded, NoAdd
  <2>3. add[c].block.height \in Nat /\ PositionOf(c) \in Nat
    BY <2>1 DEF AddRecord, NoAdd, Block, PositionOf
  <2>4. DOMAIN index' = DOMAIN index \cup {add[c].block.height}
    BY <2>1 DEF Put
  <2>5. 0..(add[c].block.height - 1) \subseteq DOMAIN index
    BY <2>1 DEF HoleInv, AddsFollow
  <2>6. 0..height' \subseteq DOMAIN index'
    BY <2>1, <2>3, <2>4, <2>5
  <2>7. \A d \in Caller : add'[d].pc \in {"writing", "written"} => add'[d] = add[d]
    BY <1>3 DEF BlockAdded, TypeInv, NoAdd
  <2>8. AddsFollow'
    BY <2>4, <2>7 DEF HoleInv, AddsFollow
  <2> QED
    BY <2>1, <2>2, <2>6, <2>8 DEF HoleInv, IndexComplete, SyncsWhole, FileWhole, RestoreAlone
<1>4. ASSUME NEW c \in Caller, CheckpointTaken(c) \/ CheckpointSaved(c) PROVE HoleInv'
  <2>1. /\ UNCHANGED <<index, height, sync, restore, indexFile>>
        /\ add[c].pc \in {"reading", "saving"}
    BY <1>4 DEF CheckpointTaken, CheckpointSaved
  <2>2. \A d \in Caller : add'[d].pc \in {"writing", "written"} => add'[d] = add[d]
    BY <1>4 DEF CheckpointTaken, CheckpointSaved, TypeInv, NoAdd
  <2>3. restore = NoRestore
    BY <2>1 DEF HoleInv, RestoreAlone, NothingAdded, NoAdd
  <2>4. AddsFollow'
    BY <2>1, <2>2 DEF HoleInv, AddsFollow
  <2> QED
    BY <2>1, <2>3, <2>4 DEF HoleInv, IndexComplete, SyncsWhole, FileWhole, RestoreAlone
<1>5. CASE TimerSync
  BY <1>5, HoleSnapshot DEF TimerSync, Undisturbed, SyncCaller
<1>6. ASSUME NEW s \in SyncCaller, Truncated(s) PROVE HoleInv'
  <2>1. /\ UNCHANGED <<index, height, add, restore>> /\ indexFile' = <<>>
        /\ sync[s] # NoSync
        /\ sync' = [sync EXCEPT ![s] = IF IndexFileOpen THEN [@ EXCEPT !.pc = "write"]
                                       ELSE NoSync]
    BY <1>6 DEF Truncated, NoSync
  <2>2. restore = NoRestore
    BY <2>1 DEF HoleInv, RestoreAlone
  <2>3. \A t \in SyncCaller : sync'[t] # NoSync =>
                                sync[t] # NoSync /\ sync'[t].doc = sync[t].doc
    BY <2>1 DEF TypeInv, SyncRecord
  <2>4. SyncsWhole'
    BY <2>3 DEF HoleInv, SyncsWhole
  <2> QED
    BY <2>1, <2>2, <2>4 DEF HoleInv, IndexComplete, AddsFollow, FileWhole, RestoreAlone
<1>7. ASSUME NEW s \in SyncCaller, IndexWritten(s) PROVE HoleInv'
  <2>1. /\ UNCHANGED <<index, height, add, restore>>
        /\ sync[s] # NoSync /\ sync[s] \in SyncRecord
        /\ sync' = [sync EXCEPT ![s] = NoSync]
        /\ indexFile' = Append(indexFile, sync[s].doc)
    BY <1>7 DEF IndexWritten, NoSync, TypeInv
  <2>2. restore = NoRestore
    BY <2>1 DEF HoleInv, RestoreAlone
  <2>3. FileWhole'
    BY <2>1 DEF HoleInv, FileWhole, SyncsWhole, SyncRecord, TypeInv
  <2>4. SyncsWhole'
    BY <2>1 DEF HoleInv, SyncsWhole, TypeInv
  <2> QED
    BY <2>1, <2>2, <2>3, <2>4 DEF HoleInv, IndexComplete, AddsFollow, RestoreAlone
<1>8. CASE CloseStep
  <2>1. CASE Close
    BY <2>1, HoleSnapshot DEF Close, Undisturbed, SyncCaller
  <2>2. CASE CloseBlocksFile \/ CloseIndexFile \/ Closed
    BY <2>2, HoleFrame DEF CloseBlocksFile, CloseIndexFile, Closed, Die
  <2> QED
    BY <1>8, <2>1, <2>2 DEF CloseStep
<1>9. ASSUME NEW h \in DOMAIN checkpoints, Restore(h) PROVE HoleInv'
  <2>1. /\ UNCHANGED <<index, height, add, sync, indexFile>>
        /\ restore = NoRestore /\ restore'.to = h
        /\ NothingAdded /\ \A s \in SyncCaller : sync[s] = NoSync
        /\ h \in DOMAIN index /\ h <= height
    BY <1>9 DEF Restore, Verified, Read
  <2>2. h \in Nat
    <3>1. index \in Partial(Nat, Nat)
      BY DEF TypeInv
    <3> QED
      BY <2>1, <3>1, PartialElements
  <2>3. 0..h \subseteq DOMAIN index
    BY <2>1, <2>2 DEF HoleInv, IndexComplete, TypeInv, Height
  <2>4. restore' # NoRestore
    BY <1>9 DEF Restore, NoRestore
  <2> QED
    BY <2>1, <2>3, <2>4
    DEF HoleInv, IndexComplete, AddsFollow, SyncsWhole, FileWhole, RestoreAlone, NothingAdded
<1>10. CASE Revert
  <2>1. restore \in [pc : {"reverting"}, to : Nat, block : Block, at : Int]
    BY <1>10 DEF Revert, TypeInv, RestoreRecord
  <2>2. /\ restore # NoRestore /\ restore.at >= restore.to + 1
        /\ restore' = [restore EXCEPT !.at = @ - 1]
        /\ index' = index \/ index' = Drop(index, restore.at)
        /\ UNCHANGED <<height, add, sync, indexFile>>
    BY <1>10 DEF Revert, FirstKept
  <2>3. restore' # NoRestore /\ restore'.to = restore.to
    BY <2>1, <2>2 DEF NoRestore
  <2>4. 0..restore.to \subseteq DOMAIN index'
    <3>1. DOMAIN Drop(index, restore.at) = DOMAIN index \ {restore.at}
      BY DEF Drop
    <3>2. restore.at \notin 0..restore.to /\ 0..restore.to \subseteq DOMAIN index
      BY <2>1, <2>2 DEF HoleInv, RestoreAlone
    <3> QED
      BY <2>2, <3>1, <3>2
  <2>5. NothingAdded /\ \A s \in SyncCaller : sync[s] = NoSync
    BY <2>2 DEF HoleInv, RestoreAlone
  <2>6. AddsFollow'
    BY <2>2, <2>5 DEF AddsFollow, NothingAdded, NoAdd
  <2> QED
    BY <2>2, <2>3, <2>4, <2>5, <2>6
    DEF HoleInv, IndexComplete, SyncsWhole, FileWhole, RestoreAlone, NothingAdded
<1>11. CASE Restored
  <2>1. /\ restore # NoRestore /\ restore' = NoRestore /\ height' = restore.to
        /\ UNCHANGED <<index, add, sync, indexFile>>
    BY <1>11 DEF Restored
  <2> QED
    BY <2>1 DEF HoleInv, IndexComplete, AddsFollow, SyncsWhole, FileWhole, RestoreAlone
<1>12. CASE Kill
  <2>1. UNCHANGED <<index, height, add, sync, restore>>
    BY <1>12 DEF Kill, Die
  <2>2. FileWhole'
    <3>1. CASE indexFile' = indexFile
      BY <3>1 DEF HoleInv, FileWhole
    <3>2. CASE indexFile' = Append(indexFile, Torn)
      <4>1. indexFile \in Seq(Doc \cup {Torn})
        BY DEF TypeInv
      <4>2. \A i \in 1..Len(indexFile') :
                indexFile'[i] = Torn \/ (i \in 1..Len(indexFile) /\ indexFile'[i] = indexFile[i])
        BY <3>2, <4>1
      <4> QED
        BY <4>2 DEF HoleInv, FileWhole, Torn
    <3> QED
      BY <1>12, <3>1, <3>2 DEF Kill
  <2> QED
    BY <2>1, <2>2 DEF HoleInv, IndexComplete, AddsFollow, SyncsWhole, RestoreAlone, NothingAdded
<1>13. CASE Initialize
  <2>1. /\ add' = [c \in Caller |-> NoAdd] /\ sync' = [s \in SyncCaller |-> NoSync]
        /\ restore' = NoRestore /\ indexFile' = indexFile
    BY <1>13 DEF Initialize
  <2>2. 0..height' \subseteq DOMAIN index'
    <3>1. CASE indexFile = <<>>
      <4>1. height' = -1
        BY <1>13, <3>1 DEF Initialize, Unwritten
      <4> QED
        BY <4>1
    <3>2. CASE indexFile # <<>>
      <4>1. Len(indexFile) = 1 /\ indexFile[1] # Torn
        BY <1>13, <3>2 DEF Initialize, Readable
      <4>2. height' = indexFile[1].height /\ index' = indexFile[1].index
        BY <1>13, <3>2 DEF Initialize
      <4> QED
        BY <4>1, <4>2 DEF HoleInv, FileWhole
    <3> QED
      BY <3>1, <3>2
  <2>3. AddsFollow'
    BY <2>1 DEF AddsFollow, NoAdd
  <2> QED
    BY <2>1, <2>2, <2>3 DEF HoleInv, IndexComplete, SyncsWhole, FileWhole, RestoreAlone
<1>14. CASE UNCHANGED vars
  BY <1>14, HoleFrame DEF vars
<1> QED
  BY <1>1, <1>2, <1>3, <1>4, <1>5, <1>6, <1>7, <1>8, <1>9, <1>10, <1>11, <1>12, <1>13, <1>14
  DEF Next, AddStep, SyncStep, RestoreStep

\* If restoring overlaps no other call, no height up to the current one is
\* ever missing from the index: for any overlapping of addBlock calls, syncs
\* and closings, and for kills at any point.
THEOREM IndexHasNoHoles ==
    ASSUME "restore" \in Apart
    PROVE  Spec => []NoHoles
<1>1. HoleInv => NoHoles
  BY DEF HoleInv, IndexComplete, NoHoles
<1>2. TypeInv /\ HoleInv /\ [Next]_vars => (TypeInv /\ HoleInv)'
  BY TypeStep, HoleStep
<1>3. Init => TypeInv /\ HoleInv
  BY TypeInit, HoleInit
<1> QED
  BY <1>1, <1>2, <1>3, PTL DEF Spec

-----------------------------------------------------------------------------
(* The store implements Chain (a refinement).  What is stored depends on the*)
(* block file as well, which a write reaches before its index entry, and what*)
(* a start brings back on what close() wrote, so the invariant follows a block*)
(* to the end of its file and a document to the index file.                *)

Writes(c) == add[c].pc \in {"writing", "written"}

\* Every height up to the current one has its place in the block file.
Placed ==
    /\ 0..height \subseteq DOMAIN index
    /\ \A h \in 0..height : index[h] < Len(blocksFile)

\* One block at a time is written, at the position that was taken for it.
WrittenInPlace ==
    /\ \A c, d \in Caller : Writes(c) /\ Writes(d) => c = d
    /\ (\A c \in Caller : ~Writes(c)) => filePosition = Len(blocksFile)
    /\ \A c \in Caller : Writes(c) =>
          /\ add[c].block.height = height + 1 /\ add[c].position = filePosition
          /\ add[c].pc = "writing" => Len(blocksFile) = filePosition
          /\ add[c].pc = "written" => /\ Len(blocksFile) = filePosition + 1
                                      /\ blocksFile[filePosition + 1] = add[c].block

\* A document that brings back what the memory holds
Matches(doc) == doc.index = index /\ doc.height = height /\ doc.filePosition = filePosition

\* A start would find what the memory holds.
Saved ==
    \/ indexFile = <<>> /\ index = Empty /\ height = -1 /\ filePosition = 0
    \/ Len(indexFile) = 1 /\ Matches(indexFile[1])

\* What is left to do before a start would find it.
ClosingSaves ==
    /\ closing # "no" => NothingAdded /\ sync["timer"] = NoSync
    /\ closing = "sync" =>
          \/ sync["close"] = NoSync /\ Saved
          \/ sync["close"].pc = "truncate" /\ Matches(sync["close"].doc)
          \/ sync["close"].pc = "write" /\ Matches(sync["close"].doc) /\ indexFile = <<>>
    /\ closing \in {"blocks", "index"} => sync["close"] = NoSync /\ Saved
    /\ ~up => NothingAdded /\ Saved

ChainInv == restore = NoRestore /\ Placed /\ WrittenInPlace /\ ClosingSaves

\* What the runs of ImplementsChain say of their callers: nobody closes the
\* store beside another call, writes are not overlapped, errors are listened to,
\* and the process is neither killed nor asked to restore.
Undamaged ==
    /\ {"close", "write"} \subseteq Apart /\ ErrorListener
    /\ "crash" \notin Env /\ "restore" \notin Env

\* The chain that is stored, block by block
LEMMA StoredBlocks ==
    ASSUME TypeInv, Placed
    PROVE  /\ Stored \in Seq(Tip) /\ Len(Stored) = height + 1
           /\ \A n \in 1..height + 1 : /\ index[n - 1] \in Nat
                                       /\ Stored[n] = blocksFile[index[n - 1] + 1]
<1>1. height + 1 \in Nat /\ height \in Int /\ blocksFile \in Seq(Block)
  BY DEF TypeInv, Height
<1>2. ASSUME NEW n \in 1..height + 1
      PROVE  /\ index[n - 1] \in Nat /\ index[n - 1] < Len(blocksFile)
             /\ blocksFile[index[n - 1] + 1] \in Tip
  <2>1. n - 1 \in 0..height
    BY <1>1
  <2>2. index[n - 1] < Len(blocksFile) /\ n - 1 \in DOMAIN index
    BY <2>1 DEF Placed
  <2>3. index[n - 1] \in Nat
    BY <2>2, PartialElements DEF TypeInv
  <2>4. QED
    BY <1>1, <2>2, <2>3 DEF Tip
<1>3. Stored = [n \in 1..height + 1 |-> blocksFile[index[n - 1] + 1]]
  BY <1>2 DEF Stored
<1>4. Stored \in [1..height + 1 -> Tip]
  BY <1>2, <1>3
<1>5. QED
  BY <1>1, <1>2, <1>3, <1>4

LEMMA ChainFrame ==
    ASSUME ChainInv, UNCHANGED <<index, height, filePosition, blocksFile, add>>
    PROVE  Placed' /\ WrittenInPlace' /\ UNCHANGED Stored
  BY DEF ChainInv, Placed, WrittenInPlace, Writes, Stored

\* While the store is not being closed there is nothing to say of its closing.
LEMMA NotClosing ==
    ASSUME up', closing' = "no"
    PROVE  ClosingSaves'
  BY DEF ClosingSaves

LEMMA Taking ==
    ASSUME Undamaged, TypeInv, ChainInv, NEW c \in Caller, NEW b \in Offered, AddBlock(c, b)
    PROVE  ChainInv' /\ UNCHANGED Stored
<1>1. /\ Takes(b) /\ ~Writing /\ closing = "no" /\ up
      /\ add' = [add EXCEPT ![c] = [pc |-> "writing", block |-> b, position |-> filePosition]]
      /\ UNCHANGED <<up, index, height, filePosition, blocksFile, closing, restore>>
  BY DEF AddBlock, Undisturbed, Undamaged, memory, chainVars, files
<1>2. add \in [Caller -> AddRecord] /\ \A d \in Caller : ~Writes(d)
  BY <1>1 DEF TypeInv, Writing, Writes
<1>3. filePosition = Len(blocksFile)
  BY <1>2 DEF ChainInv, WrittenInPlace
<1>4. \A d \in Caller : Writes(d)' => d = c
  BY <1>1, <1>2 DEF Writes
<1>5. add'[c] = [pc |-> "writing", block |-> b, position |-> filePosition]
  BY <1>1, <1>2
<1>6. WrittenInPlace'
  BY <1>1, <1>3, <1>4, <1>5 DEF WrittenInPlace, Writes, Takes
<1>7. Placed' /\ UNCHANGED Stored
  BY <1>1 DEF ChainInv, Placed, Stored
<1>8. QED
  BY <1>1, <1>6, <1>7, NotClosing DEF ChainInv

LEMMA Arriving ==
    ASSUME TypeInv, ChainInv, NEW c \in Caller, BlockWritten(c)
    PROVE  ChainInv' /\ UNCHANGED Stored
<1>1. /\ up /\ add[c].pc = "writing" /\ blocksFile' = Append(blocksFile, add[c].block)
      /\ add' = [add EXCEPT ![c].pc = "written"]
      /\ UNCHANGED <<up, index, height, filePosition, closing, restore>>
  BY DEF BlockWritten, memory, chainVars
<1>2. /\ add \in [Caller -> AddRecord] /\ blocksFile \in Seq(Block)
      /\ filePosition \in Nat /\ height \in Int /\ height + 1 \in Nat
  BY DEF TypeInv, Height
<1>3. closing = "no"
  BY <1>1, <1>2 DEF ChainInv, ClosingSaves, NothingAdded, NoAdd
<1>4. /\ add[c].block.height = height + 1 /\ add[c].position = filePosition
      /\ Len(blocksFile) = filePosition /\ add[c].block \in Block
  BY <1>1, <1>2 DEF ChainInv, WrittenInPlace, Writes, AddRecord, NoAdd
<1>5. /\ Len(blocksFile') = filePosition + 1 /\ blocksFile'[filePosition + 1] = add[c].block
      /\ \A i \in 1..filePosition : blocksFile'[i] = blocksFile[i]
  BY <1>1, <1>2, <1>4
<1>6. /\ add'[c].pc = "written" /\ add'[c].block = add[c].block
      /\ add'[c].position = add[c].position
      /\ \A d \in Caller : d # c => add'[d] = add[d]
  BY <1>1, <1>2 DEF AddRecord, NoAdd
<1>7. \A d \in Caller : Writes(d)' => d = c
  BY <1>1, <1>6 DEF ChainInv, WrittenInPlace, Writes
<1>8. WrittenInPlace'
  BY <1>1, <1>4, <1>5, <1>6, <1>7 DEF WrittenInPlace, Writes
<1>9. Placed'
  BY <1>1, <1>2, <1>4, <1>5, PartialElements DEF TypeInv, ChainInv, Placed
<1>10. UNCHANGED Stored
  <2>1. Stored = [n \in 1..height + 1 |-> blocksFile[index[n - 1] + 1]]
    BY StoredBlocks, <1>2 DEF ChainInv, Stored
  <2>2. ASSUME NEW n \in 1..height + 1
        PROVE  /\ index[n - 1] < Len(blocksFile')
               /\ blocksFile'[index[n - 1] + 1] = blocksFile[index[n - 1] + 1]
    <3>1. n - 1 \in 0..height /\ index[n - 1] \in Nat
      <4>1. n - 1 \in 0..height
        BY <1>2
      <4>2. Placed
        BY DEF ChainInv
      <4>3. \A k \in 1..height + 1 : index[k - 1] \in Nat
        BY <4>2, StoredBlocks
      <4>4. QED
        BY <4>1, <4>3
    <3>2. index[n - 1] < filePosition
      BY <1>4, <3>1 DEF ChainInv, Placed
    <3>3. index[n - 1] < filePosition + 1 /\ index[n - 1] + 1 \in 1..filePosition
      BY <1>2, <3>1, <3>2
    <3>4. QED
      BY <1>5, <3>3
  <2>3. Stored' = [n \in 1..height + 1 |->
                    IF index[n - 1] < Len(blocksFile') THEN blocksFile'[index[n - 1] + 1]
                    ELSE NoBlock]
    BY <1>1 DEF Stored
  <2>4. Stored' = [n \in 1..height + 1 |-> blocksFile[index[n - 1] + 1]]
    BY <2>2, <2>3
  <2>5. QED
    BY <2>1, <2>4
<1>11. QED
  BY <1>1, <1>3, <1>8, <1>9, <1>10, NotClosing DEF ChainInv

LEMMA Adding ==
    ASSUME TypeInv, TypeInv', ChainInv, NEW c \in Caller, BlockAdded(c)
    PROVE  ChainInv' /\ StoredChain!Extend
<1> DEFINE b == add[c].block
<1>1. /\ up /\ add[c].pc = "written"
      /\ index' = Put(index, b.height, add[c].position)
      /\ filePosition' = filePosition + 1 /\ height' = b.height
      /\ UNCHANGED <<up, blocksFile, closing, restore>>
      /\ \/ add' = [add EXCEPT ![c] = NoAdd]
         \/ \E r \in Tip : add' = [add EXCEPT ![c] = [pc |-> "reading", block |-> r]]
  <2>1. BlockAt(PositionOf(c)) \in Tip
    BY BlockAtType DEF BlockAdded, PositionOf, TypeInv, AddRecord, NoAdd
  <2>2. QED
    BY <2>1 DEF BlockAdded, PositionOf, files
<1>2. /\ add \in [Caller -> AddRecord] /\ blocksFile \in Seq(Block)
      /\ filePosition \in Nat /\ height \in Int /\ height + 1 \in Nat
  BY DEF TypeInv, Height
<1>3. closing = "no"
  BY <1>1, <1>2 DEF ChainInv, ClosingSaves, NothingAdded, NoAdd
<1>4. /\ b.height = height + 1 /\ add[c].position = filePosition
      /\ Len(blocksFile) = filePosition + 1 /\ b \in Block
      /\ blocksFile[filePosition + 1] = b
  BY <1>1, <1>2 DEF ChainInv, WrittenInPlace, Writes, AddRecord, NoAdd
<1>5. ~(Writes(c)') /\ \A d \in Caller : d # c => add'[d] = add[d]
  BY <1>1, <1>2 DEF Writes, NoAdd
<1>6. \A d \in Caller : ~(Writes(d)')
  BY <1>1, <1>5 DEF ChainInv, WrittenInPlace, Writes
<1> HIDE DEF b
<1>7. WrittenInPlace'
  BY <1>1, <1>4, <1>6 DEF WrittenInPlace
<1>8. /\ DOMAIN index' = DOMAIN index \cup {height + 1} /\ index'[height + 1] = filePosition
      /\ \A h \in DOMAIN index : h # height + 1 => index'[h] = index[h]
  BY <1>1, <1>4 DEF Put
<1>9. 0..height \subseteq DOMAIN index /\ \A h \in 0..height : index[h] < Len(blocksFile)
  BY DEF ChainInv, Placed
<1>10. \A h \in 0..height + 1 : h = height + 1 \/ h \in 0..height
  BY <1>2
<1>11. \A h \in 0..height : h # height + 1
  BY <1>2
<1>12. Placed'
  BY <1>1, <1>2, <1>4, <1>8, <1>9, <1>10, <1>11 DEF Placed
<1>13. /\ Len(Stored) = height + 1 /\ Stored \in Seq(Tip)
       /\ \A n \in 1..height + 1 : Stored[n] = blocksFile[index[n - 1] + 1]
  BY StoredBlocks DEF ChainInv
<1>14. /\ Len(Stored') = height + 2 /\ Stored' \in Seq(Tip)
       /\ \A n \in 1..height + 2 : Stored'[n] = blocksFile[index'[n - 1] + 1]
  <2>1. (Stored \in Seq(Tip) /\ Len(Stored) = height + 1
         /\ \A n \in 1..height + 1 : /\ index[n - 1] \in Nat
                                     /\ Stored[n] = blocksFile[index[n - 1] + 1])'
    BY <1>12, StoredBlocks, PTL
  <2>2. height' + 1 = height + 2 /\ UNCHANGED blocksFile
    BY <1>1, <1>2, <1>4
  <2>3. QED
    BY <2>1, <2>2
<1>15. \A n \in 1..height + 1 : Stored'[n] = Stored[n]
  <2>1. TAKE n \in 1..height + 1
  <2>2. n - 1 \in 0..height /\ n \in 1..height + 2
    BY <1>2
  <2>3. index'[n - 1] = index[n - 1]
    BY <1>8, <1>9, <1>11, <2>2
  <2>4. QED
    BY <1>13, <1>14, <2>2, <2>3
<1>16. SubSeq(Stored', 1, height + 1) = Stored
  BY <1>2, <1>13, <1>14, <1>15
<1>17. Stored'[height + 2] = b
  <2> DEFINE n == height + 2
  <2>1. n \in 1..height + 2 /\ n - 1 = height + 1
    BY <1>2
  <2> HIDE DEF n
  <2>2. Stored'[n] = blocksFile[index'[n - 1] + 1]
    BY <1>14, <2>1, Zenon
  <2>3. Stored'[n] = blocksFile[filePosition + 1]
    BY <1>8, <2>1, <2>2
  <2>4. Stored'[n] = b
    BY <1>4, <2>3
  <2>5. QED
    BY <2>4 DEF n
<1>18. StoredChain!Extend
  BY <1>2, <1>4, <1>13, <1>14, <1>16, <1>17 DEF StoredChain!Extend
<1>19. QED
  BY <1>1, <1>3, <1>7, <1>12, <1>18, NotClosing DEF ChainInv

\* A checkpoint is taken beside the chain.
LEMMA Checkpointing ==
    ASSUME Undamaged, TypeInv, ChainInv, NEW c \in Caller, CheckpointTaken(c) \/ CheckpointSaved(c)
    PROVE  ChainInv' /\ UNCHANGED Stored
<1>1. /\ up /\ up' /\ add[c].pc \in {"reading", "saving"}
      /\ UNCHANGED <<index, height, filePosition, blocksFile, closing, restore>>
  <2>1. CASE CheckpointTaken(c)
    <3>1. up /\ (up' = ErrorListener \/ up' = up)
      BY <2>1 DEF CheckpointTaken
    <3>2. up'
      BY <3>1, ListenerAssumption DEF Undamaged, TypeInv
    <3>3. QED
      BY <2>1, <3>1, <3>2 DEF CheckpointTaken, memory, chainVars, files
  <2>2. CASE CheckpointSaved(c)
    BY <2>2 DEF CheckpointSaved, chainVars
  <2>3. QED
    BY <2>1, <2>2
<1>2. \E r \in AddRecord : r.pc \notin {"writing", "written"} /\ add' = [add EXCEPT ![c] = r]
  <2>1. NoAdd \in AddRecord /\ NoAdd.pc \notin {"writing", "written"}
    BY DEF AddRecord, NoAdd
  <2>2. CASE add' = [add EXCEPT ![c] = NoAdd]
    BY <2>1, <2>2
  <2>3. CASE add' # [add EXCEPT ![c] = NoAdd]
    <3>1. /\ add[c].block # NoBlock /\ add[c].pc = "reading" /\ add[c] \in AddRecord
          /\ add' = [add EXCEPT ![c] = [pc |-> "saving", block |-> add[c].block,
                                        height |-> height]]
      BY <2>3 DEF CheckpointTaken, CheckpointSaved, TypeInv
    <3>2. add[c].block \in Block /\ height \in Int
      BY <3>1 DEF AddRecord, NoAdd, TypeInv, Height
    <3>3. [pc |-> "saving", block |-> add[c].block, height |-> height] \in AddRecord
      BY <3>2 DEF AddRecord
    <3>4. QED
      BY <3>1, <3>3
  <2>4. QED
    BY <2>2, <2>3
<1>3. add \in [Caller -> AddRecord]
  BY DEF TypeInv
<1>4. closing = "no"
  BY <1>1, <1>3 DEF ChainInv, ClosingSaves, NothingAdded, NoAdd
<1>5. ~(Writes(c)') /\ ~Writes(c) /\ \A d \in Caller : d # c => add'[d] = add[d]
  BY <1>1, <1>2, <1>3 DEF Writes
<1>6. \A d \in Caller : (Writes(d)' <=> Writes(d)) /\ (Writes(d) => add'[d] = add[d])
  BY <1>5 DEF Writes
<1>7. WrittenInPlace'
  BY <1>1, <1>6 DEF ChainInv, WrittenInPlace
<1>8. Placed' /\ UNCHANGED Stored
  BY <1>1 DEF ChainInv, Placed, Stored
<1>9. QED
  BY <1>1, <1>4, <1>7, <1>8, NotClosing DEF ChainInv

\* The index is written, by the timer or for close().
LEMMA Syncing ==
    ASSUME TypeInv, ChainInv, NEW s \in SyncCaller, SyncStep(s)
    PROVE  ChainInv' /\ UNCHANGED Stored
<1>1. /\ up /\ sync[s].pc \in {"truncate", "write"}
      /\ UNCHANGED <<up, index, height, filePosition, blocksFile, add, closing, restore>>
  BY DEF SyncStep, Truncated, IndexWritten, memory, chainVars
<1>2. sync \in [SyncCaller -> SyncRecord] /\ indexFile \in Seq(Doc \cup {Torn})
  BY DEF TypeInv
<1>3. Placed' /\ WrittenInPlace' /\ UNCHANGED Stored
  BY <1>1, ChainFrame
<1>4. CASE closing = "no"
  BY <1>1, <1>3, <1>4, NotClosing DEF ChainInv
<1>5. CASE closing # "no"
  <2>1. /\ NothingAdded /\ sync["timer"] = NoSync /\ s = "close"
    BY <1>1, <1>5 DEF ChainInv, ClosingSaves, NoSync, SyncCaller
  <2>2. closing = "sync" /\ Matches(sync["close"].doc)
    BY <1>1, <1>5, <2>1 DEF ChainInv, ClosingSaves, NoSync, TypeInv
  <2>3. CASE Truncated(s)
    <3>1. /\ indexFile' = <<>> /\ sync["close"].pc = "truncate"
          /\ sync' = [sync EXCEPT !["close"] = [sync["close"] EXCEPT !.pc = "write"]]
      BY <2>1, <2>2, <2>3 DEF Truncated, IndexFileOpen
    <3>2. sync["close"] \in [pc : {"truncate", "write"}, doc : Doc]
      BY <1>2, <3>1 DEF SyncRecord, NoSync, SyncCaller
    <3>3. /\ sync'["close"].pc = "write" /\ sync'["close"].doc = sync["close"].doc
          /\ sync'["timer"] = NoSync
      BY <1>2, <2>1, <3>1, <3>2 DEF SyncCaller
    <3>4. ClosingSaves'
      BY <1>1, <2>1, <2>2, <3>1, <3>3 DEF ClosingSaves, Matches, NothingAdded
    <3>5. QED
      BY <1>1, <1>3, <3>4 DEF ChainInv
  <2>4. CASE IndexWritten(s)
    <3>1. /\ indexFile' = Append(indexFile, sync["close"].doc) /\ sync["close"].pc = "write"
          /\ sync' = [sync EXCEPT !["close"] = NoSync]
      BY <2>1, <2>4 DEF IndexWritten
    <3>2. indexFile = <<>>
      BY <2>2, <3>1 DEF ChainInv, ClosingSaves, NoSync
    <3>3. Len(indexFile') = 1 /\ indexFile'[1] = sync["close"].doc
      BY <3>1, <3>2
    <3>4. Saved'
      BY <1>1, <2>2, <3>3 DEF Saved, Matches
    <3>5. sync'["close"] = NoSync /\ sync'["timer"] = NoSync
      BY <1>2, <2>1, <3>1 DEF SyncCaller
    <3>6. ClosingSaves'
      BY <1>1, <2>1, <2>2, <3>4, <3>5 DEF ClosingSaves, NothingAdded
    <3>7. QED
      BY <1>1, <1>3, <3>6 DEF ChainInv
  <2>5. QED
    BY <2>3, <2>4 DEF SyncStep
<1>6. QED
  BY <1>4, <1>5

LEMMA Shutting ==
    ASSUME Undamaged, TypeInv, ChainInv, CloseStep
    PROVE  ChainInv' /\ UNCHANGED Stored
<1>1. UNCHANGED <<index, height, filePosition, blocksFile, add, restore>>
  BY DEF CloseStep, Close, CloseBlocksFile, CloseIndexFile, Closed, Die, memory, chainVars, files,
         calls
<1>2. Placed' /\ WrittenInPlace' /\ UNCHANGED Stored
  BY <1>1, ChainFrame
<1>3. sync \in [SyncCaller -> SyncRecord]
  BY DEF TypeInv
<1>4. CASE Close
  <2>1. /\ up' /\ NothingAdded /\ sync["timer"] = NoSync /\ closing' = "sync"
        /\ sync' = [sync EXCEPT !["close"] = [pc |-> "truncate", doc |-> Snapshot]]
    BY <1>4 DEF Close, StartSync, Undamaged
  <2>2. sync'["timer"] = NoSync /\ sync'["close"] = [pc |-> "truncate", doc |-> Snapshot]
    BY <1>3, <2>1 DEF SyncCaller
  <2>3. Snapshot.index = index /\ Snapshot.height = height /\ Snapshot.filePosition = filePosition
    BY DEF Snapshot
  <2>4. sync'["close"].pc = "truncate" /\ Matches(sync["close"].doc)'
    BY <1>1, <2>2, <2>3 DEF Matches
  <2>5. ClosingSaves'
    BY <1>1, <2>1, <2>2, <2>4 DEF ClosingSaves, NothingAdded
  <2>6. QED
    BY <1>1, <1>2, <2>5 DEF ChainInv
<1>5. CASE CloseBlocksFile \/ CloseIndexFile
  <2>1. /\ up' /\ UNCHANGED <<sync, indexFile>> /\ closing' \in {"blocks", "index"}
        /\ closing # "no" /\ sync["close"] = NoSync /\ Saved
    BY <1>5 DEF CloseBlocksFile, CloseIndexFile, files, ChainInv, ClosingSaves, NoSync
  <2>2. ClosingSaves'
    BY <1>1, <2>1 DEF ChainInv, ClosingSaves, NothingAdded, Saved, Matches
  <2>3. QED
    BY <1>1, <1>2, <2>2 DEF ChainInv
<1>6. CASE Closed
  <2>1. UNCHANGED <<sync, indexFile, closing>> /\ closing = "index"
    BY <1>6 DEF Closed, Die, calls, files
  <2>2. sync["close"] = NoSync /\ Saved /\ NothingAdded /\ sync["timer"] = NoSync
    BY <2>1 DEF ChainInv, ClosingSaves
  <2>3. ClosingSaves'
    BY <1>1, <2>1, <2>2 DEF ClosingSaves, NothingAdded, Saved, Matches
  <2>4. QED
    BY <1>1, <1>2, <2>3 DEF ChainInv
<1>7. QED
  BY <1>4, <1>5, <1>6 DEF CloseStep

\* The store comes back with the chain it was closed with.
LEMMA Reopening ==
    ASSUME TypeInv, ChainInv, Initialize
    PROVE  ChainInv' /\ UNCHANGED Stored
<1> DEFINE doc == IF indexFile = <<>> THEN Unwritten ELSE indexFile[1]
<1>1. /\ index' = doc.index /\ height' = doc.height /\ filePosition' = doc.filePosition
      /\ up' /\ closing' = "no" /\ restore' = NoRestore /\ UNCHANGED blocksFile
      /\ add' = [c \in Caller |-> NoAdd] /\ ~up
  BY DEF Initialize, files
<1>2. Saved /\ NothingAdded
  BY <1>1 DEF ChainInv, ClosingSaves
<1>3. doc.index = index /\ doc.height = height /\ doc.filePosition = filePosition
  <2>1. CASE indexFile = <<>>
    BY <1>2, <2>1 DEF Saved, Unwritten
  <2>2. CASE indexFile # <<>>
    BY <1>2, <2>2 DEF Saved, Matches
  <2>3. QED
    BY <2>1, <2>2
<1> HIDE DEF doc
<1>4. UNCHANGED <<index, height, filePosition, blocksFile>>
  BY <1>1, <1>3
<1>5. \A c \in Caller : ~Writes(c) /\ ~(Writes(c)')
  BY <1>1, <1>2 DEF Writes, NothingAdded, NoAdd
<1>6. WrittenInPlace'
  BY <1>4, <1>5 DEF ChainInv, WrittenInPlace
<1>7. Placed' /\ UNCHANGED Stored
  BY <1>4 DEF ChainInv, Placed, Stored
<1>8. QED
  BY <1>1, <1>6, <1>7, NotClosing DEF ChainInv

LEMMA ChainInit == Init => ChainInv /\ StoredChain!Init
<1> SUFFICES ASSUME Init PROVE ChainInv /\ StoredChain!Init
  OBVIOUS
<1>1. /\ height = -1 /\ index = Empty /\ filePosition = 0 /\ blocksFile = <<>> /\ indexFile = <<>>
      /\ add = [c \in Caller |-> NoAdd] /\ sync = [s \in SyncCaller |-> NoSync]
      /\ closing = "no" /\ restore = NoRestore
  BY DEF Init
<1>2. 0..height = {} /\ 1..height + 1 = {}
  BY <1>1
<1>3. Placed
  BY <1>2 DEF Placed
<1>4. \A c \in Caller : ~Writes(c)
  BY <1>1 DEF Writes, NoAdd
<1>5. WrittenInPlace
  BY <1>1, <1>4 DEF WrittenInPlace
<1>6. NothingAdded /\ Saved
  BY <1>1 DEF NothingAdded, Saved
<1>7. ClosingSaves
  BY <1>1, <1>6 DEF ClosingSaves
<1>8. Stored = <<>>
  BY <1>2 DEF Stored
<1>9. QED
  BY <1>1, <1>3, <1>5, <1>7, <1>8 DEF ChainInv, StoredChain!Init

\* Every step of the store extends the chain or leaves it alone.
LEMMA ChainStep ==
    ASSUME Undamaged
    PROVE  TypeInv /\ ChainInv /\ [Next]_vars
             => ChainInv' /\ [StoredChain!Extend]_Stored
<1> SUFFICES ASSUME TypeInv, ChainInv, [Next]_vars
             PROVE  ChainInv' /\ [StoredChain!Extend]_Stored
  OBVIOUS
<1>1. TypeInv'
  BY TypeStep
<1>2. ASSUME NEW c \in Caller, NEW b \in Offered, AddBlock(c, b)
      PROVE  ChainInv' /\ [StoredChain!Extend]_Stored
  BY <1>2, Taking
<1>3. ASSUME NEW c \in Caller, BlockWritten(c)
      PROVE  ChainInv' /\ [StoredChain!Extend]_Stored
  BY <1>3, Arriving
<1>4. ASSUME NEW c \in Caller, BlockAdded(c)
      PROVE  ChainInv' /\ [StoredChain!Extend]_Stored
  BY <1>1, <1>4, Adding
<1>5. ASSUME NEW c \in Caller, CheckpointTaken(c) \/ CheckpointSaved(c)
      PROVE  ChainInv' /\ [StoredChain!Extend]_Stored
  BY <1>5, Checkpointing
<1>6. CASE TimerSync
  <2>1. /\ up' /\ closing' = "no"
        /\ UNCHANGED <<index, height, filePosition, blocksFile, add, restore>>
    BY <1>6 DEF TimerSync, Undisturbed, Undamaged, memory, chainVars, files
  <2>2. QED
    BY <2>1, ChainFrame, NotClosing DEF ChainInv
<1>7. ASSUME NEW s \in SyncCaller, SyncStep(s)
      PROVE  ChainInv' /\ [StoredChain!Extend]_Stored
  BY <1>7, Syncing
<1>8. CASE CloseStep
  BY <1>8, Shutting
<1>9. CASE RestoreStep
  BY <1>9 DEF RestoreStep, Restore, Revert, Restored, ChainInv, Undamaged
<1>10. CASE Kill
  BY <1>10 DEF Kill, Undamaged
<1>11. CASE Initialize
  BY <1>11, Reopening
<1>12. CASE UNCHANGED vars
  <2>1. UNCHANGED <<up, index, height, filePosition, blocksFile, add, sync, closing, restore,
                    indexFile>>
    BY <1>12 DEF vars, memory, chainVars, calls, files
  <2>2. ClosingSaves'
    BY <2>1 DEF ChainInv, ClosingSaves, NothingAdded, Saved, Matches
  <2>3. QED
    BY <2>1, <2>2, ChainFrame DEF ChainInv
<1>13. QED
  BY <1>2, <1>3, <1>4, <1>5, <1>6, <1>7, <1>8, <1>9, <1>10, <1>11, <1>12 DEF Next, AddStep

\* The store implements Chain: whatever calls, syncs, checkpoints, closings and
\* starts do, the chain that the index and the block file stand for grows by
\* one block of the next height at a time and never changes what it has.
THEOREM StoreImplementsChain ==
    ASSUME Undamaged
    PROVE  Spec => ImplementsChain
<1>1. Init => TypeInv /\ ChainInv /\ StoredChain!Init
  BY TypeInit, ChainInit
<1>2. TypeInv /\ ChainInv /\ [Next]_vars
        => TypeInv' /\ ChainInv' /\ [StoredChain!Extend]_Stored
  BY TypeStep, ChainStep
<1>3. QED
  BY <1>1, <1>2, PTL DEF Spec, ImplementsChain, StoredChain!Spec

=============================================================================
