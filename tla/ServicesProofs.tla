--------------------------- MODULE ServicesProofs ---------------------------
(***************************************************************************)
(* What the services around the node promise of what they keep on disk,    *)
(* for any number of calls, kills and things kept: the snapshot manager    *)
(* offers no snapshot without its file, the backup manager promises no     *)
(* backup without its archive, a peer store that has closed is saved, and  *)
(* the checkpoint manager has its latest checkpoint.                       *)
(*                                                                         *)
(* First the snapshots.  Inductive is that a listed one whose file is gone *)
(* is one that a call has just unlinked and is about to drop (CoveredBy).  *)
(* It needs that the snapshots being made are new (New), so that nothing   *)
(* unlinks them, and that what a new start reads from the index is covered *)
(* too (Reload).                                                           *)
(***************************************************************************)
EXTENDS MCServices, FiniteSetTheorems, WellFoundedInduction, TLAPS

Making == {"read", "write", "list"}

CoveredBy(S, files, calls) ==
    \A s \in S \ files : \E c \in SnapCaller : calls[c].pc = "unlinked" /\ calls[c].id = s

Taken == {s \in SnapshotId : s.timestamp <= taken}

Old ==
    /\ snapshots \subseteq Taken /\ snapIndex.ids \subseteq Taken
    /\ \A c \in SnapCaller :
          /\ call[c].pc \in Making \cup {"unlink", "unlinked"} => call[c].id \in Taken
          /\ call[c].pc \in {"save", "resave"} => call[c].doc \subseteq Taken

New ==
    \A c \in SnapCaller : call[c].pc \in Making =>
        /\ call[c].id \notin snapshots
        /\ call[c].pc = "list" => call[c].id \in snapFiles
        /\ \A d \in SnapCaller \ {c} :
              call[d].pc \in Making \cup {"unlink"} => call[d].id # call[c].id

Reload ==
    /\ call[User].pc \in {"idle", "unlink", "unlinked", "resave"}
    /\ ~snInitialized =>
          /\ \A c \in Creator : call[c].pc = "idle"
          /\ ~cut => /\ CoveredBy(snapIndex.ids, snapFiles, call)
                     /\ call[User].pc = "resave" => CoveredBy(call[User].doc, snapFiles, call)

SnapInv ==
    /\ SnapshotTypeOK /\ Old /\ New /\ Reload
    /\ ~cut => CoveredBy(snapshots, snapFiles, call)

-----------------------------------------------------------------------------
(* Calls *)

MakingCall == [pc : {"read", "write", "list"}, id : SnapshotId]
PruneCall == [pc : {"save", "prune"}, doc : SUBSET SnapshotId, doomed : SUBSET SnapshotId]
DeleteCall == [pc : {"unlink", "unlinked", "resave"}, id : SnapshotId,
               doc : SUBSET SnapshotId, doomed : SUBSET SnapshotId]
CallRecord == {SnapIdle} \cup MakingCall \cup PruneCall \cup DeleteCall

\* What a call holds follows from how far it has come.
LEMMA CallKinds ==
    ASSUME SnapshotTypeOK, NEW c \in SnapCaller
    PROVE  /\ call \in [SnapCaller -> CallRecord]
           /\ call[c].pc = "idle" <=> call[c] = SnapIdle
           /\ call[c].pc \in Making => call[c] \in MakingCall
           /\ call[c].pc \in {"save", "prune"} => call[c] \in PruneCall
           /\ call[c].pc \in {"unlink", "unlinked", "resave"} => call[c] \in DeleteCall
<1>1. call \in [SnapCaller -> CallRecord]
  BY DEF SnapshotTypeOK, CallRecord, MakingCall, PruneCall, DeleteCall
<1>2. \/ call[c] = SnapIdle \/ call[c] \in MakingCall \/ call[c] \in PruneCall
      \/ call[c] \in DeleteCall
  BY <1>1 DEF CallRecord
<1>3. /\ call[c] = SnapIdle => call[c].pc = "idle"
      /\ call[c] \in MakingCall => call[c].pc \in {"read", "write", "list"}
      /\ call[c] \in PruneCall => call[c].pc \in {"save", "prune"}
      /\ call[c] \in DeleteCall => call[c].pc \in {"unlink", "unlinked", "resave"}
  BY DEF SnapIdle, MakingCall, PruneCall, DeleteCall
<1> QED
  BY <1>1, <1>2, <1>3 DEF Making

\* A cover lasts while files stay and no call that has unlinked goes on.
LEMMA CoverLasts ==
    ASSUME NEW S, NEW files, NEW files2, NEW calls, NEW calls2, CoveredBy(S, files, calls),
           files \subseteq files2,
           \A c \in SnapCaller : calls[c].pc = "unlinked" =>
               calls2[c].pc = "unlinked" /\ calls2[c].id = calls[c].id
    PROVE  CoveredBy(S, files2, calls2)
BY DEF CoveredBy

LEMMA CallGoes ==
    ASSUME SnapshotTypeOK, NEW c \in SnapCaller, NEW r \in CallRecord, Goes(c, r)
    PROVE  /\ call' \in [SnapCaller -> CallRecord] /\ call'[c] = r
           /\ \A d \in SnapCaller \ {c} : call'[d] = call[d]
BY CallKinds DEF Goes

-----------------------------------------------------------------------------
(* The steps *)

LEMMA InitSnap == ASSUME SnapshotInit PROVE SnapInv
<1>1. SnapIdle \in CallRecord /\ SnapIdle.pc = "idle"
  BY DEF SnapIdle, CallRecord
<1>2. call \in [SnapCaller -> CallRecord] /\ \A c \in SnapCaller : call[c].pc = "idle"
  BY <1>1 DEF SnapshotInit
<1>3. 0 \in 0..MaxSnapMade /\ Index({}) \in [whole : BOOLEAN, ids : SUBSET SnapshotId]
  BY SnapshotAssumption DEF Index
<1>4. SnapshotTypeOK
  BY <1>2, <1>3
  DEF SnapshotInit, SnapshotTypeOK, CallRecord, MakingCall, PruneCall, DeleteCall
<1>5. User \in SnapCaller /\ Creator \subseteq SnapCaller
  BY DEF SnapCaller
<1>6. Old /\ New
  BY <1>2 DEF SnapshotInit, Old, New, Index, Making
<1>7. \A calls : CoveredBy({}, {}, calls)
  BY DEF CoveredBy
<1>8. Reload
  BY <1>2, <1>5, <1>7 DEF SnapshotInit, Reload, Index
<1> QED
  BY <1>4, <1>6, <1>7, <1>8 DEF SnapshotInit, SnapInv

LEMMA CreateStep ==
    ASSUME SnapInv, NEW c \in Creator, NEW h \in SnapshotHeight, CreateSnapshot(c, h)
    PROVE  SnapInv'
<1> DEFINE id == [height |-> h, timestamp |-> taken + 1]
           r == [pc |-> "read", id |-> id]
<1>1. /\ snInitialized /\ c \in SnapCaller /\ c # User /\ call[c].pc = "idle"
      /\ taken \in Nat /\ taken' = taken + 1 /\ taken' \in 0..MaxSnapMade
      /\ UNCHANGED <<snInitialized, snapshots, snapIndex, snapFiles, snapKills, cut>>
  BY SnapshotAssumption
  DEF CreateSnapshot, SnapInv, SnapshotTypeOK, SnapCaller, User, SnapIdle
<1>2. id \in SnapshotId /\ id.timestamp = taken + 1
  BY <1>1 DEF SnapshotId
<1>3. r \in CallRecord /\ r.pc = "read" /\ r.id = id
  BY <1>2 DEF CallRecord, MakingCall
<1>4. /\ call' \in [SnapCaller -> CallRecord] /\ call'[c] = r
      /\ \A d \in SnapCaller \ {c} : call'[d] = call[d]
  BY <1>1, <1>3, CallGoes DEF CreateSnapshot, SnapInv
<1>5. Taken \subseteq Taken' /\ id \notin Taken /\ id \in Taken'
  BY <1>1, <1>2 DEF Taken, SnapshotId
<1> HIDE DEF id, r
<1>6. SnapshotTypeOK'
  BY <1>1, <1>4 DEF SnapInv, SnapshotTypeOK, CallRecord, MakingCall, PruneCall, DeleteCall
<1>7. Old'
  BY <1>1, <1>3, <1>4, <1>5 DEF SnapInv, Old, Making
<1>8. New'
  BY <1>1, <1>3, <1>4, <1>5 DEF SnapInv, New, Old, Making
<1>9. Reload'
  BY <1>1, <1>4 DEF SnapInv, Reload, SnapCaller
<1>10. ~cut' => CoveredBy(snapshots', snapFiles', call')
  BY <1>1, <1>4, CoverLasts DEF SnapInv
<1> QED
  BY <1>6, <1>7, <1>8, <1>9, <1>10 DEF SnapInv

\* A call goes on within the making or the pruning of a snapshot, and nothing of
\* the manager changes but the files, which it may add to, and the index.
LEMMA MakingStep ==
    ASSUME SnapInv, NEW c \in SnapCaller, NEW r \in CallRecord, Goes(c, r),
           call[c].pc \in {"read", "write", "save", "prune"},
           r.pc \in {"idle", "write", "list", "prune", "unlink"},
           r.pc \in Making => call[c].pc \in Making /\ r.id = call[c].id,
           r.pc = "list" => r.id \in snapFiles',
           r.pc = "unlink" => r.id \in snapshots,
           snapFiles \subseteq snapFiles', snapFiles' \subseteq SnapshotId,
           snapIndex' \in [whole : BOOLEAN, ids : SUBSET SnapshotId], snapIndex'.ids \subseteq Taken,
           UNCHANGED <<snInitialized, snapshots, taken, snapKills, cut>>
    PROVE  SnapInv'
<1>1. /\ call' \in [SnapCaller -> CallRecord] /\ call'[c] = r
      /\ \A d \in SnapCaller \ {c} : call'[d] = call[d]
  BY CallGoes DEF SnapInv
<1>2. snInitialized /\ c # User
  BY DEF SnapInv, Reload, SnapCaller
<1>3. SnapshotTypeOK'
  BY <1>1 DEF SnapInv, SnapshotTypeOK, CallRecord, MakingCall, PruneCall, DeleteCall
<1>4. Taken' = Taken
  BY DEF Taken
<1>5. Old'
  BY <1>1, <1>4 DEF SnapInv, Old, Making
<1>6. New'
  <2> SUFFICES ASSUME NEW d \in SnapCaller, call'[d].pc \in Making
               PROVE  /\ call'[d].id \notin snapshots
                      /\ call'[d].pc = "list" => call'[d].id \in snapFiles'
                      /\ \A e \in SnapCaller \ {d} :
                            call'[e].pc \in Making \cup {"unlink"} => call'[e].id # call'[d].id
    BY DEF New
  <2>1. call[d].pc \in Making /\ call'[d].id = call[d].id /\ call[d].id \notin snapshots
    BY <1>1 DEF SnapInv, New
  <2>2. call'[d].pc = "list" => call'[d].id \in snapFiles'
    BY <1>1, <2>1 DEF SnapInv, New
  <2>3. ASSUME NEW e \in SnapCaller \ {d}, call'[e].pc \in Making \cup {"unlink"}
        PROVE  call'[e].id # call'[d].id
    <3>1. CASE call'[e].pc = "unlink" /\ e = c
      BY <1>1, <2>1, <3>1
    <3>2. CASE ~(call'[e].pc = "unlink" /\ e = c)
      <4>1. call[e].pc \in Making \cup {"unlink"} /\ call'[e].id = call[e].id
        BY <1>1, <2>3, <3>2
      <4> QED
        BY <2>1, <4>1 DEF SnapInv, New
    <3> QED
      BY <3>1, <3>2
  <2> QED
    BY <2>1, <2>2, <2>3
<1>7. Reload'
  BY <1>1, <1>2 DEF SnapInv, Reload, SnapCaller
<1>8. ~cut' => CoveredBy(snapshots', snapFiles', call')
  BY <1>1, CoverLasts DEF SnapInv
<1> QED
  BY <1>3, <1>5, <1>6, <1>7, <1>8 DEF SnapInv

\* A snapshot whose file is there is listed.
LEMMA ListStep == ASSUME SnapInv, NEW c \in SnapCaller, SnapshotListed(c) PROVE SnapInv'
<1> DEFINE id == call[c].id
           r == [pc |-> "save", doc |-> snapshots', doomed |-> {}]
<1>1. /\ call[c].pc = "list" /\ snapshots' = snapshots \cup {id}
      /\ snapIndex' = [whole |-> FALSE, ids |-> {}]
      /\ UNCHANGED <<snInitialized, snapFiles, taken, snapKills, cut>>
  BY DEF SnapshotListed
<1>2. id \in SnapshotId /\ id \in Taken /\ id \in snapFiles /\ snapshots \subseteq SnapshotId
  BY <1>1, CallKinds DEF SnapInv, Old, New, Making, MakingCall, SnapshotTypeOK
<1>3. snapshots' \subseteq SnapshotId
  BY <1>1, <1>2
<1>4. r \in CallRecord /\ r.pc = "save" /\ r.doc = snapshots'
  BY <1>3 DEF CallRecord, PruneCall
<1>5. /\ call' \in [SnapCaller -> CallRecord] /\ call'[c] = r
      /\ \A d \in SnapCaller \ {c} : call'[d] = call[d]
  BY <1>4, CallGoes DEF SnapshotListed, SnapInv
<1>6. Taken' = Taken /\ snInitialized /\ c # User
  BY <1>1 DEF Taken, SnapInv, Reload, SnapCaller
<1> HIDE DEF id, r
<1>7. SnapshotTypeOK'
  BY <1>1, <1>3, <1>5 DEF SnapInv, SnapshotTypeOK, CallRecord, MakingCall, PruneCall, DeleteCall
<1>8. Old'
  BY <1>1, <1>2, <1>4, <1>5, <1>6 DEF SnapInv, Old, Making
<1>9. \A d \in SnapCaller \ {c} : call[d].pc \in Making => call[d].id # id
  BY <1>1 DEF SnapInv, New, Making, id
<1>10. New'
  BY <1>1, <1>4, <1>5, <1>9 DEF SnapInv, New, Making
<1>11. Reload'
  BY <1>1, <1>5, <1>6 DEF SnapInv, Reload, SnapCaller
<1>12. ~cut' => CoveredBy(snapshots', snapFiles', call')
  <2>1. ~cut => CoveredBy(snapshots, snapFiles', call')
    BY <1>1, <1>5, CoverLasts DEF SnapInv
  <2> QED
    BY <1>1, <1>2, <2>1 DEF CoveredBy
<1> QED
  BY <1>7, <1>8, <1>10, <1>11, <1>12 DEF SnapInv

LEMMA MakingSteps ==
    ASSUME SnapInv, NEW c \in SnapCaller,
           Gathered(c) \/ SnapshotWritten(c) \/ SnapshotSaved(c) \/ PruneSnapshot(c)
    PROVE  SnapInv'
<1>1. /\ snapFiles \subseteq SnapshotId /\ snapshots \subseteq SnapshotId
      /\ snapIndex \in [whole : BOOLEAN, ids : SUBSET SnapshotId] /\ snapIndex.ids \subseteq Taken
      /\ SnapIdle \in CallRecord /\ SnapIdle.pc = "idle"
  BY DEF SnapInv, SnapshotTypeOK, Old, CallRecord, SnapIdle
<1>2. CASE Gathered(c)
  <2>1. call[c].pc = "read" /\ call[c] \in MakingCall
    BY <1>2, CallKinds DEF Gathered, SnapInv, Making
  <2> DEFINE r == [call[c] EXCEPT !.pc = "write"]
  <2>2. r \in MakingCall /\ r.pc = "write" /\ r.id = call[c].id
    BY <2>1 DEF MakingCall
  <2>3. r \in CallRecord
    BY <2>2 DEF CallRecord
  <2>4. Goes(c, SnapIdle) \/ Goes(c, r)
    BY <1>2 DEF Gathered
  <2>5. UNCHANGED <<snInitialized, snapshots, snapIndex, snapFiles, taken, snapKills, cut>>
    BY <1>2 DEF Gathered
  <2> HIDE DEF r
  <2>6. CASE Goes(c, SnapIdle)
    BY <1>1, <2>1, <2>5, <2>6, MakingStep DEF Making
  <2>7. CASE Goes(c, r)
    BY <1>1, <2>1, <2>2, <2>3, <2>5, <2>7, MakingStep DEF Making
  <2> QED
    BY <2>4, <2>6, <2>7
<1>3. CASE SnapshotWritten(c)
  <2>1. call[c].pc = "write" /\ call[c] \in MakingCall
    BY <1>3, CallKinds DEF SnapshotWritten, SnapInv, Making
  <2> DEFINE r == [call[c] EXCEPT !.pc = "list"]
  <2>2. r \in MakingCall /\ r.pc = "list" /\ r.id = call[c].id /\ r.id \in SnapshotId
    BY <2>1 DEF MakingCall
  <2>3. r \in CallRecord
    BY <2>2 DEF CallRecord
  <2>4. /\ Goes(c, r) /\ snapFiles' = snapFiles \cup {call[c].id}
        /\ UNCHANGED <<snInitialized, snapshots, snapIndex, taken, snapKills, cut>>
    BY <1>3 DEF SnapshotWritten
  <2> HIDE DEF r
  <2>5. snapFiles' \subseteq SnapshotId /\ r.id \in snapFiles'
    BY <1>1, <2>2, <2>4
  <2> QED
    BY <1>1, <2>1, <2>2, <2>3, <2>4, <2>5, MakingStep DEF Making
<1>4. CASE SnapshotSaved(c)
  <2>1. call[c].pc = "save" /\ call[c].doc \in SUBSET SnapshotId /\ call[c].doc \subseteq Taken
    BY <1>4, CallKinds DEF SnapshotSaved, SnapInv, Old, PruneCall
  <2> DEFINE r == [pc |-> "prune", doc |-> {}, doomed |-> Beyond]
  <2>2. r \in CallRecord /\ r.pc = "prune"
    BY <1>1 DEF CallRecord, PruneCall, Beyond
  <2>3. /\ Goes(c, r) /\ snapIndex' = [whole |-> TRUE, ids |-> call[c].doc]
        /\ UNCHANGED <<snInitialized, snapshots, snapFiles, taken, snapKills, cut>>
    BY <1>4 DEF SnapshotSaved, Index
  <2> HIDE DEF r
  <2>4. snapIndex' \in [whole : BOOLEAN, ids : SUBSET SnapshotId] /\ snapIndex'.ids \subseteq Taken
    BY <2>1, <2>3
  <2> QED
    BY <1>1, <2>1, <2>2, <2>3, <2>4, MakingStep DEF Making
<1>5. CASE PruneSnapshot(c)
  <2> DEFINE todo == call[c].doomed
             s == CHOOSE x \in todo : \A y \in todo \ {x} : Before(x, y)
             r == [pc |-> "unlink", id |-> s, doc |-> {}, doomed |-> todo \ {s}]
  <2>1. /\ call[c].pc = "prune"
        /\ Goes(c, IF todo = {} \/ s \notin snapshots THEN SnapIdle ELSE r)
        /\ UNCHANGED <<snInitialized, snapshots, snapIndex, snapFiles, taken, snapKills, cut>>
    BY <1>5 DEF PruneSnapshot
  <2>2. todo \subseteq SnapshotId
    BY <2>1, CallKinds DEF SnapInv, PruneCall
  <2> HIDE DEF todo, s
  <2>3. CASE todo = {} \/ s \notin snapshots
    <3>1. Goes(c, SnapIdle)
      BY <2>1, <2>3
    <3> QED
      BY <1>1, <2>1, <3>1, MakingStep DEF Making
  <2>4. CASE ~(todo = {} \/ s \notin snapshots)
    <3>1. Goes(c, r) /\ s \in snapshots
      BY <2>1, <2>4
    <3>2. r \in DeleteCall /\ r.pc = "unlink" /\ r.id = s
      BY <1>1, <2>2, <3>1 DEF DeleteCall
    <3>3. r \in CallRecord
      BY <3>2 DEF CallRecord
    <3> HIDE DEF r
    <3> QED
      BY <1>1, <2>1, <3>1, <3>2, <3>3, MakingStep DEF Making
  <2> QED
    BY <2>3, <2>4
<1> QED
  BY <1>2, <1>3, <1>4, <1>5

\* Deleting a snapshot that is listed, and dropping it once its file is gone
LEMMA DeletingSteps ==
    ASSUME SnapInv, NEW c \in SnapCaller, call[c].pc \in {"unlink", "unlinked", "resave"},
           NEW r \in CallRecord, Goes(c, r),
           r.pc \in {"idle", "unlinked", "resave", "prune"},
           r.pc = "prune" => c # User,
           r.pc = "unlinked" => call[c].pc = "unlink",
           r.pc \in {"unlinked", "resave"} => r.id = call[c].id,
           r.pc = "resave" => r.doc = snapshots',
           snapFiles' \subseteq SnapshotId, snapshots' \subseteq snapshots,
           snapIndex' \in [whole : BOOLEAN, ids : SUBSET SnapshotId], snapIndex'.ids \subseteq Taken,
           call[c].pc # "unlink" => snapFiles' = snapFiles,
           call[c].pc = "unlink" =>
               /\ snapFiles' = snapFiles \ {call[c].id}
               /\ call[c].id \in snapFiles => r.pc = "unlinked"
               /\ snapIndex' = snapIndex,
           call[c].pc = "unlinked" =>
               call[c].id \notin snapshots' /\ snapIndex'.ids = {} /\ r.pc = "resave",
           call[c].pc = "resave" => snapIndex'.ids = call[c].doc,
           r.pc = "resave" => call[c].pc = "unlinked",
           UNCHANGED <<snInitialized, taken, snapKills, cut>>
    PROVE  SnapInv'
<1>1. /\ call' \in [SnapCaller -> CallRecord] /\ call'[c] = r
      /\ \A d \in SnapCaller \ {c} : call'[d] = call[d]
  BY CallGoes DEF SnapInv
<1>2. /\ snapshots \subseteq SnapshotId /\ snapshots \subseteq Taken /\ Taken' = Taken
      /\ User \in SnapCaller /\ \A d \in SnapCaller : d # User => d \in Creator
  BY DEF SnapInv, SnapshotTypeOK, Old, Taken, SnapCaller
<1>3. SnapshotTypeOK'
  BY <1>1, <1>2 DEF SnapInv, SnapshotTypeOK, CallRecord, MakingCall, PruneCall, DeleteCall
<1>4. Old'
  <2>1. call[c].pc \in {"unlink", "unlinked"} => call[c].id \in Taken
    BY DEF SnapInv, Old
  <2>2. r.pc \in {"unlinked", "resave"} => call[c].pc \in {"unlink", "unlinked"}
    OBVIOUS
  <2> QED
    BY <1>1, <1>2, <2>1, <2>2 DEF SnapInv, Old, Making
<1>5. New'
  <2> SUFFICES ASSUME NEW d \in SnapCaller, call'[d].pc \in Making
               PROVE  /\ call'[d].id \notin snapshots'
                      /\ call'[d].pc = "list" => call'[d].id \in snapFiles'
                      /\ \A e \in SnapCaller \ {d} :
                            call'[e].pc \in Making \cup {"unlink"} => call'[e].id # call'[d].id
    BY DEF New
  <2>1. d # c /\ call'[d] = call[d]
    BY <1>1 DEF Making
  <2>2. /\ call[d].id \notin snapshots /\ (call[d].pc = "list" => call[d].id \in snapFiles)
        /\ \A e \in SnapCaller \ {d} :
              call[e].pc \in Making \cup {"unlink"} => call[e].id # call[d].id
    BY <2>1 DEF SnapInv, New
  <2>3. call[c].pc = "unlink" => call[c].id # call[d].id
    BY <2>1, <2>2
  <2>4. \A e \in SnapCaller \ {d} :
           call'[e].pc \in Making \cup {"unlink"} => call'[e].id # call'[d].id
    BY <1>1, <2>1, <2>2 DEF Making
  <2> QED
    BY <2>1, <2>2, <2>3, <2>4
<1>6. ASSUME NEW S, CoveredBy(S, snapFiles, call), call[c].pc = "unlinked" => call[c].id \notin S
      PROVE  CoveredBy(S, snapFiles', call')
  <2> SUFFICES ASSUME NEW s \in S \ snapFiles'
               PROVE  \E d \in SnapCaller : call'[d].pc = "unlinked" /\ call'[d].id = s
    BY DEF CoveredBy
  <2>1. CASE s \in snapFiles
    <3>1. call[c].pc = "unlink" /\ s = call[c].id /\ r.pc = "unlinked" /\ r.id = s
      BY <2>1
    <3> QED
      BY <1>1, <3>1
  <2>2. CASE s \notin snapFiles
    <3>1. PICK d \in SnapCaller : call[d].pc = "unlinked" /\ call[d].id = s
      BY <1>6, <2>2 DEF CoveredBy
    <3>2. d # c
      BY <1>6, <3>1
    <3> QED
      BY <1>1, <3>1, <3>2
  <2> QED
    BY <2>1, <2>2
<1>7. ~cut' => CoveredBy(snapshots', snapFiles', call')
  <2> SUFFICES ASSUME ~cut PROVE CoveredBy(snapshots', snapFiles', call')
    OBVIOUS
  <2>1. CoveredBy(snapshots', snapFiles, call)
    BY DEF SnapInv, CoveredBy
  <2> QED
    BY <1>6, <2>1
<1>8. Reload'
  <2>1. call'[User].pc \in {"idle", "unlink", "unlinked", "resave"}
    BY <1>1, <1>2 DEF SnapInv, Reload
  <2>2. ASSUME ~snInitialized
        PROVE  /\ \A d \in Creator : call'[d].pc = "idle"
               /\ ~cut => /\ CoveredBy(snapIndex'.ids, snapFiles', call')
                          /\ call'[User].pc = "resave" =>
                                CoveredBy(call'[User].doc, snapFiles', call')
    <3>1. c = User /\ \A d \in Creator : call[d].pc = "idle"
      BY <1>2, <2>2 DEF SnapInv, Reload
    <3>2. \A d \in Creator : call'[d].pc = "idle"
      BY <1>1, <3>1, SnapshotAssumption DEF SnapCaller, User
    <3> SUFFICES ASSUME ~cut
                 PROVE  /\ CoveredBy(snapIndex'.ids, snapFiles', call')
                        /\ call'[User].pc = "resave" =>
                              CoveredBy(call'[User].doc, snapFiles', call')
      BY <3>2
    <3>3. CoveredBy(snapIndex.ids, snapFiles, call)
      BY <2>2 DEF SnapInv, Reload
    <3>4. CASE call[c].pc = "unlink"
      BY <1>1, <1>6, <3>1, <3>3, <3>4
    <3>5. CASE call[c].pc = "unlinked"
      <4>1. snapIndex'.ids = {} /\ call'[User].doc = snapshots'
        BY <1>1, <3>1, <3>5
      <4> QED
        BY <1>7, <4>1 DEF CoveredBy
    <3>6. CASE call[c].pc = "resave"
      <4>1. CoveredBy(call[c].doc, snapFiles, call) /\ r.pc # "resave"
        BY <2>2, <3>1, <3>6 DEF SnapInv, Reload
      <4>2. CoveredBy(call[c].doc, snapFiles', call')
        BY <1>6, <3>6, <4>1
      <4> QED
        BY <1>1, <3>1, <3>6, <4>1, <4>2
    <3> QED
      BY <3>4, <3>5, <3>6
  <2> QED
    BY <2>1, <2>2 DEF Reload
<1> QED
  BY <1>3, <1>4, <1>5, <1>7, <1>8 DEF SnapInv

LEMMA DeletionSteps ==
    ASSUME SnapInv, NEW c \in SnapCaller,
           SnapshotUnlinked(c) \/ SnapshotDropped(c) \/ SnapshotDeleted(c)
    PROVE  SnapInv'
<1>1. /\ snapFiles \subseteq SnapshotId /\ snapshots \subseteq SnapshotId
      /\ snapshots \subseteq Taken
      /\ snapIndex \in [whole : BOOLEAN, ids : SUBSET SnapshotId] /\ snapIndex.ids \subseteq Taken
      /\ SnapIdle \in CallRecord /\ SnapIdle.pc = "idle"
  BY DEF SnapInv, SnapshotTypeOK, Old, CallRecord, SnapIdle
<1>2. CASE SnapshotUnlinked(c)
  <2>1. call[c].pc = "unlink" /\ call[c] \in DeleteCall
    BY <1>2, CallKinds DEF SnapshotUnlinked, SnapInv
  <2> DEFINE w == [call[c] EXCEPT !.pc = "unlinked"]
             r == IF call[c].id \in snapFiles THEN w ELSE SnapIdle
  <2>2. w \in DeleteCall /\ w.pc = "unlinked" /\ w.id = call[c].id
    BY <2>1 DEF DeleteCall
  <2>3. w \in CallRecord
    BY <2>2 DEF CallRecord
  <2>4. /\ Goes(c, r) /\ snapFiles' = snapFiles \ {call[c].id}
        /\ UNCHANGED <<snInitialized, snapshots, snapIndex, taken, snapKills, cut>>
    BY <1>2 DEF SnapshotUnlinked
  <2> HIDE DEF w
  <2>5. /\ r \in CallRecord /\ r.pc \in {"idle", "unlinked"}
        /\ r.pc = "unlinked" => r.id = call[c].id
        /\ call[c].id \in snapFiles => r.pc = "unlinked"
    BY <1>1, <2>2, <2>3
  <2> HIDE DEF r
  <2> QED
    BY <1>1, <2>1, <2>4, <2>5, DeletingSteps
<1>3. CASE SnapshotDropped(c)
  <2>1. call[c].pc = "unlinked" /\ call[c] \in DeleteCall
    BY <1>3, CallKinds DEF SnapshotDropped, SnapInv
  <2> DEFINE r == [call[c] EXCEPT !.pc = "resave", !.doc = snapshots']
  <2>2. /\ snapshots' = snapshots \ {call[c].id} /\ snapIndex' = [whole |-> FALSE, ids |-> {}]
        /\ Goes(c, r) /\ UNCHANGED <<snInitialized, snapFiles, taken, snapKills, cut>>
    BY <1>3 DEF SnapshotDropped, Without
  <2>3. snapshots' \subseteq SnapshotId
    BY <1>1, <2>2
  <2>4. r \in DeleteCall /\ r.pc = "resave" /\ r.id = call[c].id /\ r.doc = snapshots'
    BY <2>1, <2>3 DEF DeleteCall
  <2>5. r \in CallRecord
    BY <2>4 DEF CallRecord
  <2>6. /\ snapIndex' \in [whole : BOOLEAN, ids : SUBSET SnapshotId] /\ snapIndex'.ids = {}
        /\ snapshots' \subseteq snapshots /\ call[c].id \notin snapshots'
    BY <2>2
  <2> HIDE DEF r
  <2> QED
    BY <1>1, <2>1, <2>2, <2>4, <2>5, <2>6, DeletingSteps
<1>4. CASE SnapshotDeleted(c)
  <2>1. /\ call[c].pc = "resave" /\ call[c] \in DeleteCall /\ call[c].doc \subseteq Taken
    BY <1>4, CallKinds DEF SnapshotDeleted, SnapInv, Old
  <2> DEFINE w == [pc |-> "prune", doc |-> {}, doomed |-> call[c].doomed]
             r == IF c = User THEN SnapIdle ELSE w
  <2>2. w \in PruneCall /\ w.pc = "prune"
    BY <2>1 DEF DeleteCall, PruneCall
  <2>3. w \in CallRecord
    BY <2>2 DEF CallRecord
  <2>4. /\ Goes(c, r) /\ snapIndex' = [whole |-> TRUE, ids |-> call[c].doc]
        /\ UNCHANGED <<snInitialized, snapshots, snapFiles, taken, snapKills, cut>>
    BY <1>4 DEF SnapshotDeleted, Index
  <2> HIDE DEF w
  <2>5. /\ r \in CallRecord /\ r.pc \in {"idle", "prune"} /\ (r.pc = "prune" => c # User)
    BY <1>1, <2>2, <2>3
  <2>6. /\ snapIndex' \in [whole : BOOLEAN, ids : SUBSET SnapshotId]
        /\ snapIndex'.ids = call[c].doc /\ snapIndex'.ids \subseteq Taken
    BY <2>1, <2>4 DEF DeleteCall
  <2> HIDE DEF r
  <2> QED
    BY <1>1, <2>1, <2>4, <2>5, <2>6, DeletingSteps
<1> QED
  BY <1>2, <1>3, <1>4

LEMMA DeleteStep ==
    ASSUME SnapInv, NEW s \in SnapshotId, DeleteSnapshot(s)
    PROVE  SnapInv'
<1> DEFINE r == [pc |-> "unlink", id |-> s, doc |-> {}, doomed |-> {}]
<1>1. /\ s \in snapshots /\ call[User].pc = "idle" /\ Goes(User, r)
      /\ UNCHANGED <<snInitialized, snapshots, snapIndex, snapFiles, taken, snapKills, cut>>
  BY DEF DeleteSnapshot, SnapIdle
<1>2. /\ User \in SnapCaller /\ User \notin Creator /\ Creator \subseteq SnapCaller
      /\ s \in Taken /\ Taken' = Taken
  BY <1>1, SnapshotAssumption DEF SnapCaller, User, SnapInv, Old, Taken
<1>3. r \in CallRecord /\ r.pc = "unlink" /\ r.id = s
  BY DEF CallRecord, DeleteCall
<1>4. /\ call' \in [SnapCaller -> CallRecord] /\ call'[User] = r
      /\ \A d \in SnapCaller \ {User} : call'[d] = call[d]
  BY <1>1, <1>2, <1>3, CallGoes DEF SnapInv
<1> HIDE DEF r
<1>5. SnapshotTypeOK'
  BY <1>1, <1>4 DEF SnapInv, SnapshotTypeOK, CallRecord, MakingCall, PruneCall, DeleteCall
<1>6. Old'
  BY <1>1, <1>2, <1>3, <1>4 DEF SnapInv, Old, Making
<1>7. New'
  BY <1>1, <1>3, <1>4 DEF SnapInv, New, Making
<1>8. ASSUME NEW S, CoveredBy(S, snapFiles, call) PROVE CoveredBy(S, snapFiles, call')
  BY <1>1, <1>4, <1>8, CoverLasts
<1>9. Reload'
  <2>1. \A d \in Creator : call'[d] = call[d]
    BY <1>2, <1>4
  <2> QED
    BY <1>1, <1>3, <1>4, <1>8, <2>1 DEF SnapInv, Reload
<1>10. ~cut' => CoveredBy(snapshots', snapFiles', call')
  BY <1>1, <1>8 DEF SnapInv
<1> QED
  BY <1>5, <1>6, <1>7, <1>9, <1>10 DEF SnapInv

-----------------------------------------------------------------------------
(* Closing, killing and starting *)

\* An index written whole has its type, whatever it lists.
LEMMA WholeIndex ==
    ASSUME NEW S \in SUBSET SnapshotId, NEW i, i = [whole |-> TRUE, ids |-> S]
    PROVE  i \in [whole : BOOLEAN, ids : SUBSET SnapshotId] /\ i.ids = S
OBVIOUS

LEMMA CloseStep == ASSUME SnapInv, SnapshotsClose PROVE SnapInv'
<1>1. /\ \A c \in SnapCaller : call[c].pc = "idle"
      /\ snapIndex' = [whole |-> TRUE, ids |-> snapshots] /\ snInitialized' = FALSE
      /\ UNCHANGED <<snapshots, snapFiles, call, taken, snapKills, cut>>
  BY DEF SnapshotsClose, SnapIdle, Index
<1>2. /\ User \in SnapCaller /\ Creator \subseteq SnapCaller /\ Taken' = Taken
      /\ snapshots \subseteq SnapshotId /\ snapshots \subseteq Taken
  BY <1>1 DEF SnapCaller, Taken, SnapInv, Old, SnapshotTypeOK
<1>3. /\ snapIndex' \in [whole : BOOLEAN, ids : SUBSET SnapshotId] /\ snInitialized' \in BOOLEAN
      /\ snapIndex'.ids = snapshots
  BY <1>1, <1>2, WholeIndex
<1>4. SnapshotTypeOK'
  BY <1>1, <1>3 DEF SnapInv, SnapshotTypeOK
<1>5. Old' /\ New'
  BY <1>1, <1>2, <1>3 DEF SnapInv, Old, New, Making
<1>6. Reload'
  BY <1>1, <1>2, <1>3 DEF SnapInv, Reload
<1> QED
  BY <1>1, <1>4, <1>5, <1>6 DEF SnapInv

LEMMA KillStep == ASSUME SnapInv, SnapshotsKill PROVE SnapInv'
<1>1. /\ call' = [c \in SnapCaller |-> SnapIdle] /\ snapshots' = {} /\ snInitialized' = FALSE
      /\ cut' = (cut \/ snapIndex # Index(snapshots) \/ \E c \in SnapCaller : call[c] # SnapIdle)
      /\ UNCHANGED <<snapIndex, snapFiles, taken>>
  BY DEF SnapshotsKill
<1>2. SnapIdle \in CallRecord /\ SnapIdle.pc = "idle"
  BY DEF SnapIdle, CallRecord
<1>3. /\ call' \in [SnapCaller -> CallRecord] /\ \A c \in SnapCaller : call'[c].pc = "idle"
      /\ User \in SnapCaller /\ Creator \subseteq SnapCaller /\ Taken' = Taken
  BY <1>1, <1>2 DEF SnapCaller, Taken
<1>4. cut' \in BOOLEAN
  BY <1>1, Zenon
<1>5. SnapshotTypeOK'
  BY <1>1, <1>3, <1>4 DEF SnapInv, SnapshotTypeOK, CallRecord, MakingCall, PruneCall, DeleteCall
<1>6. Old' /\ New'
  BY <1>1, <1>3 DEF SnapInv, Old, New, Making
<1>7. ~cut' => CoveredBy(snapIndex.ids, snapFiles, call')
  <2> SUFFICES ASSUME ~cut' PROVE CoveredBy(snapIndex.ids, snapFiles, call')
    OBVIOUS
  <2>1. ~cut /\ snapIndex = Index(snapshots) /\ \A c \in SnapCaller : call[c] = SnapIdle
    BY <1>1, Zenon
  <2>2. CoveredBy(snapshots, snapFiles, call) /\ \A c \in SnapCaller : call[c].pc = "idle"
    BY <1>2, <2>1 DEF SnapInv
  <2>3. snapIndex.ids = snapshots
    BY <2>1 DEF Index
  <2> QED
    BY <2>2, <2>3 DEF CoveredBy
<1>8. Reload'
  BY <1>1, <1>3, <1>7 DEF Reload
<1>9. CoveredBy(snapshots', snapFiles', call')
  BY <1>1 DEF CoveredBy
<1> QED
  BY <1>5, <1>6, <1>8, <1>9 DEF SnapInv

LEMMA StartStep == ASSUME SnapInv, SnapshotsInitialize PROVE SnapInv'
<1>1. /\ ~snInitialized /\ snInitialized' = TRUE
      /\ snapshots' = IF snapIndex.whole THEN snapIndex.ids ELSE snapshots
      /\ UNCHANGED <<snapIndex, snapFiles, call, taken, snapKills, cut>>
  BY DEF SnapshotsInitialize
<1>2. /\ snapshots' = snapIndex.ids \/ snapshots' = snapshots
      /\ Taken' = Taken
  BY <1>1 DEF Taken
<1>3. SnapshotTypeOK'
  BY <1>1, <1>2 DEF SnapInv, SnapshotTypeOK
<1>4. Old'
  BY <1>1, <1>2 DEF SnapInv, Old
<1>5. \A c \in SnapCaller : call[c].pc \notin Making
  BY <1>1 DEF SnapInv, Reload, SnapCaller, Making
<1>6. New'
  BY <1>1, <1>5 DEF New
<1>7. Reload'
  BY <1>1 DEF SnapInv, Reload
<1>8. ~cut' => CoveredBy(snapshots', snapFiles', call')
  BY <1>1, <1>2 DEF SnapInv, Reload
<1> QED
  BY <1>3, <1>4, <1>6, <1>7, <1>8 DEF SnapInv

LEMMA SnapInvHolds == SnapshotSpec => []SnapInv
<1>1. ASSUME SnapInv, [SnapshotNext]_snapshotVars PROVE SnapInv'
  <2>1. CASE UNCHANGED snapshotVars
    BY <1>1, <2>1
    DEF snapshotVars, SnapInv, SnapshotTypeOK, Old, New, Reload, Taken
  <2> QED
    BY <1>1, <2>1, CreateStep, MakingSteps, ListStep, DeletionSteps, DeleteStep, CloseStep,
       KillStep, StartStep DEF SnapshotNext
<1> QED
  BY <1>1, InitSnap, PTL DEF SnapshotSpec

-----------------------------------------------------------------------------
(* The theorem *)

\* No listed snapshot is without its file, but while the call that unlinked it
\* has still to drop it or after a kill that came inside a call, for any number
\* of creations that overlap and prune with one another and with the deletions
\* of a user (createSnapshot, pruneOldSnapshots, deleteSnapshot).
THEOREM SnapshotsHaveFiles == SnapshotSpec => []ListedHasFile
<1>1. SnapInv => ListedHasFile
  <2> SUFFICES ASSUME SnapInv, ~cut, NEW s \in snapshots \ snapFiles
               PROVE  \E c \in SnapCaller : call[c] # SnapIdle /\ call[c].pc \in {"unlink", "unlinked"}
                                           /\ call[c].id = s
    BY DEF ListedHasFile
  <2>1. PICK c \in SnapCaller : call[c].pc = "unlinked" /\ call[c].id = s
    BY DEF SnapInv, CoveredBy
  <2> QED
    BY <2>1 DEF SnapIdle
<1> QED
  BY <1>1, SnapInvHolds, PTL

-----------------------------------------------------------------------------
(* The backup manager.  The argument: beside a deletion nothing runs that  *)
(* could write an older index or put the backup back into the map, so that a*)
(* set of backups stays accounted for (Accounted) wherever it is copied to.*)

\* The archives of ids are there, or their deletion is known of.
Accounted(ids) ==
    \A b \in ids \ archives :
        b \in unmade \/ \E d \in Deleter : deleting[d] # Idle /\ deleting[d].id = b

\* Who runs beside whom
BackupCalls ==
    /\ creating # Idle => backupInProgress
    /\ deleting["prune"] # Idle => creating.pc = "prune"
    /\ deleting["user"] # Idle => Still
    /\ ~bkInitialized /\ bkClosing = "no" =>
          creating = Idle /\ \A d \in Deleter : deleting[d] = Idle

BackupInv ==
    /\ BackupTypeOK /\ BackupCalls
    /\ creating.pc = "list" => creating.id \in archives
    /\ Accounted(backupIndex.ids) /\ Accounted(backups)
    /\ creating.pc = "save" => Accounted(creating.doc)
    /\ \A d \in Deleter : deleting[d].pc = "save" =>
          /\ Accounted(deleting[d].doc)
          /\ deleting[d].id \notin deleting[d].doc \cup backups

-----------------------------------------------------------------------------
(* Types of the backup manager *)

CreateRecord == [pc : {"copy", "archive", "list", "save", "prune", "clean"},
                 id : BackupId, doc : SUBSET BackupId, doomed : SUBSET BackupId]
DeleteRecord == [pc : {"unlink", "save"}, id : BackupId, doc : SUBSET BackupId]
RestoreRecord == [pc : {"extract", "backup", "copy"}, id : BackupId]

\* What a call holds follows from how far it has come.
LEMMA BackupKinds ==
    ASSUME BackupTypeOK
    PROVE  /\ creating \in {Idle} \cup CreateRecord
           /\ creating.pc # "idle" => creating \in CreateRecord
           /\ creating.pc = "idle" => creating = Idle
           /\ deleting \in [Deleter -> {Idle} \cup DeleteRecord]
           /\ \A d \in Deleter : /\ deleting[d].pc # "idle" => deleting[d] \in DeleteRecord
                                 /\ deleting[d].pc = "idle" => deleting[d] = Idle
           /\ restoring \in {Idle} \cup RestoreRecord
           /\ restoring.pc # "idle" => restoring \in RestoreRecord
  BY DEF BackupTypeOK, CreateRecord, DeleteRecord, RestoreRecord, Idle

LEMMA BackupTypeInit == BackupInit => BackupTypeOK
<1> SUFFICES ASSUME BackupInit PROVE BackupTypeOK
  OBVIOUS
<1>1. 0 \in 0..MaxMade
  BY BackupAssumption
<1>2. made \in 0..MaxMade
  BY <1>1 DEF BackupInit
<1>3. QED
  BY <1>2 DEF BackupInit, BackupTypeOK, Doc, Idle

LEMMA NewBackup ==
    ASSUME BackupTypeOK, CanBegin, Begin
    PROVE  /\ made' \in 0..MaxMade /\ tempDirs' \subseteq BackupId
           /\ creating' \in CreateRecord /\ creating'.pc = "copy"
           /\ backupInProgress' = TRUE /\ backupInProgress = FALSE
<1>1. made \in 0..MaxMade /\ made < MaxMade /\ MaxMade \in Nat
  BY BackupAssumption DEF BackupTypeOK, CanBegin
<1>2. made + 1 \in BackupId /\ made + 1 \in 0..MaxMade
  BY <1>1 DEF BackupId
<1>3. QED
  BY <1>2 DEF BackupTypeOK, CanBegin, Begin, CreateRecord

LEMMA BackupTypeStep ==
    ASSUME BackupTypeOK, [BackupNext]_backupVars
    PROVE  BackupTypeOK'
<1> USE DEF BackupTypeOK
<1>1. CASE UNCHANGED backupVars
  BY <1>1 DEF backupVars, diskVars, callVars
<1>2. CASE CreateBackup
  BY <1>2, NewBackup DEF CreateBackup, CreateRecord
<1>3. CASE Copied \/ Archived
  <2>1. creating \in CreateRecord
    BY <1>3, BackupKinds DEF Copied, Archived
  <2>2. creating' \in CreateRecord
    BY <1>3, <2>1 DEF Copied, Archived, Step, CreateRecord
  <2>3. QED
    BY <1>3, <2>1, <2>2 DEF Copied, Archived, CreateRecord, diskVars
<1>17. CASE Saved
  <2>1. creating \in CreateRecord
    BY <1>17, BackupKinds DEF Saved
  <2>2. Surplus(backups) \subseteq BackupId
    BY DEF Surplus
  <2>3. creating' \in CreateRecord
    BY <1>17, <2>1, <2>2 DEF Saved, CreateRecord
  <2>4. backupIndex' \in [whole : BOOLEAN, ids : SUBSET BackupId]
    BY <1>17, <2>1 DEF Saved, Doc, CreateRecord
  <2>5. QED
    BY <1>17, <2>3, <2>4 DEF Saved, CreateRecord
<1>4. CASE Listed
  <2>1. creating \in CreateRecord
    BY <1>4, BackupKinds DEF Listed
  <2>2. backups' \subseteq BackupId
    BY <1>4, <2>1 DEF Listed, CreateRecord
  <2>3. creating' \in CreateRecord
    BY <1>4, <2>1, <2>2 DEF Listed, CreateRecord
  <2>4. QED
    BY <1>4, <2>2, <2>3 DEF Listed, CreateRecord, TornDoc
<1>5. CASE PruneNext
  <2>1. creating \in CreateRecord /\ creating' \in CreateRecord
    BY <1>5, BackupKinds DEF PruneNext, Step, CreateRecord
  <2>2. deleting' \in [Deleter -> {Idle} \cup DeleteRecord]
    BY <1>5, BackupKinds DEF PruneNext, DeleteRecord
  <2>3. QED
    BY <1>5, <2>1, <2>2 DEF PruneNext, CreateRecord, DeleteRecord, diskVars
<1>6. CASE BackupFinished
  <2>1. restoring' \in {Idle} \cup RestoreRecord
    BY <1>6, BackupKinds DEF BackupFinished, Finished, RestoreRecord
  <2>2. bkInitialized' \in BOOLEAN /\ bkClosing' \in {"no", "backup", "done"}
    BY <1>6 DEF BackupFinished, Finished
  <2>3. tempDirs' \subseteq BackupId
    BY <1>6 DEF BackupFinished, Finished
  <2>4. QED
    BY <1>6, <2>1, <2>2, <2>3 DEF BackupFinished, Finished, RestoreRecord
<1>7. ASSUME NEW b \in BackupId, DeleteBackup(b) PROVE BackupTypeOK'
  BY <1>7 DEF DeleteBackup, diskVars
<1>8. ASSUME NEW b \in BackupId, RestoreBackup(b) PROVE BackupTypeOK'
  BY <1>8 DEF RestoreBackup, diskVars
<1>9. ASSUME NEW d \in Deleter, Unlinked(d) PROVE BackupTypeOK'
  <2>1. deleting[d] \in DeleteRecord
    BY <1>9, BackupKinds DEF Unlinked
  <2>2. backups' \subseteq BackupId /\ archives' \subseteq BackupId
    BY <1>9 DEF Unlinked, LeftOver
  <2>3. deleting' \in [Deleter -> {Idle} \cup DeleteRecord]
    BY <1>9, <2>1, <2>2, BackupKinds DEF Unlinked, DeleteRecord
  <2>4. QED
    BY <1>9, <2>2, <2>3 DEF Unlinked, TornDoc, DeleteRecord
<1>10. ASSUME NEW d \in Deleter, Deleted(d) PROVE BackupTypeOK'
  <2>1. deleting[d] \in DeleteRecord
    BY <1>10, BackupKinds DEF Deleted
  <2>2. QED
    BY <1>10, <2>1 DEF Deleted, Doc, DeleteRecord
<1>11. ASSUME NEW first \in BOOLEAN, RestoreExtracted(first) PROVE BackupTypeOK'
  <2>1. restoring' \in {Idle} \cup RestoreRecord
    BY <1>11, BackupKinds DEF RestoreExtracted, RestoreRecord
  <2>2. CASE first /\ CanBegin
    BY <1>11, <2>1, <2>2, NewBackup DEF RestoreExtracted, CreateRecord, RestoreRecord
  <2>3. CASE ~(first /\ CanBegin)
    BY <1>11, <2>1, <2>3 DEF RestoreExtracted, RestoreRecord
  <2>4. QED
    BY <2>2, <2>3
<1>12. CASE Restored
  BY <1>12 DEF Restored, diskVars
<1>13. CASE BackupsClose
  <2>1. CASE BackupOnClose /\ CanBegin
    BY <1>13, <2>1, NewBackup DEF BackupsClose, CreateRecord
  <2>2. CASE ~(BackupOnClose /\ CanBegin)
    BY <1>13, <2>2 DEF BackupsClose
  <2>3. QED
    BY <2>1, <2>2
<1>14. CASE BackupsKill
  <2>1. ASSUME NEW d \in Deleter, deleting[d] # Idle
        PROVE  deleting[d].id \in BackupId
    BY <2>1, BackupKinds DEF DeleteRecord
  <2>2. unmade' \subseteq BackupId
    BY <1>14, <2>1 DEF BackupsKill
  <2>3. QED
    BY <1>14, <2>2 DEF BackupsKill, diskVars
<1>15. CASE BackupsInitialize
  BY <1>15 DEF BackupsInitialize, diskVars, callVars
<1>16. QED
  BY <1>1, <1>2, <1>3, <1>4, <1>5, <1>6, <1>7, <1>8, <1>9, <1>10, <1>11, <1>12, <1>13, <1>14,
     <1>15, <1>17 DEF BackupNext

-----------------------------------------------------------------------------
(* What runs beside a deletion *)

LEMMA BackupCallsStep ==
    ASSUME DeletesApart, BackupTypeOK, BackupCalls, [BackupNext]_backupVars
    PROVE  BackupCalls'
<1> USE DEF BackupCalls, Deleter
<1>1. CASE UNCHANGED backupVars
  BY <1>1 DEF backupVars, callVars, Still
<1>2. CASE CreateBackup
  <2>1. creating = Idle /\ deleting["user"] = Idle /\ deleting["prune"] = Idle
    BY <1>2 DEF CreateBackup, Apart, CanBegin, Idle
  <2>2. creating' # Idle /\ backupInProgress'
    BY <1>2, NewBackup DEF CreateBackup, Idle
  <2>3. QED
    BY <1>2, <2>1, <2>2 DEF CreateBackup, CanBegin
<1>3. CASE Copied \/ Archived \/ Listed \/ Saved
  <2>1. creating # Idle /\ creating.pc # "prune"
    BY <1>3 DEF Copied, Archived, Listed, Saved, Idle
  <2>2. deleting["user"] = Idle /\ deleting["prune"] = Idle
    BY <2>1 DEF Still
  <2>3. UNCHANGED <<deleting, backupInProgress, bkInitialized, bkClosing>>
    BY <1>3 DEF Copied, Archived, Listed, Saved
  <2>4. QED
    BY <2>1, <2>2, <2>3
<1>4. CASE PruneNext
  <2>1. creating # Idle /\ creating.pc = "prune" /\ deleting["prune"] = Idle
    BY <1>4 DEF PruneNext, Idle
  <2>2. creating \in CreateRecord /\ deleting \in [Deleter -> {Idle} \cup DeleteRecord]
    BY <2>1, BackupKinds
  <2>3. deleting' = deleting \/ creating'.pc = "prune"
    BY <1>4, <2>2 DEF PruneNext, CreateRecord
  <2>4. deleting'["user"] = Idle
    BY <1>4, <2>1, <2>2 DEF PruneNext, Still
  <2>5. UNCHANGED <<backupInProgress, bkInitialized, bkClosing>>
    BY <1>4 DEF PruneNext
  <2>6. QED
    BY <2>1, <2>3, <2>4, <2>5
<1>5. CASE BackupFinished
  <2>1. creating # Idle /\ creating.pc # "prune" /\ creating' = Idle
    BY <1>5 DEF BackupFinished, Finished, Idle
  <2>2. deleting["user"] = Idle /\ deleting["prune"] = Idle /\ UNCHANGED deleting
    BY <1>5, <2>1 DEF BackupFinished, Finished, Still
  <2>3. QED
    BY <2>1, <2>2
<1>6. ASSUME NEW b \in BackupId, DeleteBackup(b) PROVE BackupCalls'
  <2>1. Still /\ deleting'["prune"] = deleting["prune"] /\ bkInitialized'
    BY <1>6 DEF DeleteBackup, BackupTypeOK
  <2>2. UNCHANGED <<creating, restoring, bkClosing, backupInProgress>> /\ Still'
    BY <1>6, <2>1 DEF DeleteBackup, Still
  <2>3. QED
    BY <2>1, <2>2
<1>7. ASSUME NEW b \in BackupId, RestoreBackup(b) PROVE BackupCalls'
  BY <1>7 DEF RestoreBackup, Apart, Still
<1>8. ASSUME NEW d \in Deleter, Unlinked(d) \/ Deleted(d) PROVE BackupCalls'
  <2>1. deleting[d] # Idle /\ \A e \in Deleter : deleting[e] = Idle => deleting'[e] = Idle
    BY <1>8 DEF Unlinked, Deleted, Idle, BackupTypeOK
  <2>2. UNCHANGED <<creating, restoring, bkClosing, backupInProgress, bkInitialized>>
    BY <1>8 DEF Unlinked, Deleted
  <2>3. Still => Still'
    BY <2>2 DEF Still
  <2>4. QED
    BY <2>1, <2>2, <2>3
<1>9. ASSUME NEW first \in BOOLEAN, RestoreExtracted(first) PROVE BackupCalls'
  <2>1. restoring # Idle /\ UNCHANGED <<deleting, bkInitialized, bkClosing>>
    BY <1>9 DEF RestoreExtracted, Idle
  <2>2. deleting["user"] = Idle
    BY <2>1 DEF Still
  <2>3. CASE CanBegin /\ Begin
    <3>1. creating = Idle /\ deleting["prune"] = Idle /\ bkInitialized
      BY <2>3 DEF CanBegin, Idle
    <3>2. creating' # Idle /\ backupInProgress'
      BY <2>3, NewBackup DEF Idle
    <3>3. QED
      BY <2>1, <2>2, <3>1, <3>2
  <2>4. CASE UNCHANGED <<backupInProgress, creating>>
    BY <2>1, <2>2, <2>4
  <2>5. QED
    BY <1>9, <2>3, <2>4 DEF RestoreExtracted
<1>10. CASE Restored
  <2>1. restoring # Idle /\ UNCHANGED <<deleting, creating, bkInitialized, bkClosing, backupInProgress>>
    BY <1>10 DEF Restored, Idle
  <2>2. QED
    BY <2>1 DEF Still
<1>11. CASE BackupsClose
  <2>1. deleting["user"] = Idle /\ UNCHANGED deleting /\ bkInitialized
    BY <1>11 DEF BackupsClose, Apart
  <2>2. CASE BackupOnClose /\ CanBegin
    <3>1. Begin /\ creating = Idle /\ deleting["prune"] = Idle /\ UNCHANGED bkInitialized
      BY <1>11, <2>2 DEF BackupsClose, CanBegin, Idle
    <3>2. creating' # Idle /\ backupInProgress'
      BY <2>2, <3>1, NewBackup DEF Idle
    <3>3. QED
      BY <2>1, <3>1, <3>2
  <2>3. CASE ~(BackupOnClose /\ CanBegin)
    BY <1>11, <2>1, <2>3 DEF BackupsClose
  <2>4. QED
    BY <2>2, <2>3
<1>12. CASE BackupsKill
  BY <1>12 DEF BackupsKill
<1>13. CASE BackupsInitialize
  BY <1>13 DEF BackupsInitialize, callVars
<1>14. QED
  BY <1>1, <1>2, <1>3, <1>4, <1>5, <1>6, <1>7, <1>8, <1>9, <1>10, <1>11, <1>12, <1>13
     DEF BackupNext

-----------------------------------------------------------------------------
(* What the index promises *)

\* A set of backups stays accounted for while no archive goes and no deletion ends.
LEMMA AccountedLasts ==
    ASSUME NEW ids, Accounted(ids), archives \subseteq archives', unmade \subseteq unmade',
           \A d \in Deleter : deleting[d] # Idle =>
              \/ deleting'[d] # Idle /\ deleting'[d].id = deleting[d].id
              \/ deleting[d].id \in unmade'
    PROVE  \A b \in ids \ archives' :
              b \in unmade' \/ \E d \in Deleter : deleting'[d] # Idle /\ deleting'[d].id = b
  BY DEF Accounted

\* The same of every set that BackupInv says it of
LEMMA NothingLost ==
    ASSUME BackupInv, archives \subseteq archives', unmade \subseteq unmade',
           \A d \in Deleter : deleting[d] # Idle =>
              \/ deleting'[d] # Idle /\ deleting'[d].id = deleting[d].id
              \/ deleting[d].id \in unmade',
           backupIndex'.ids \in {{}, backupIndex.ids},
           backups' \in {{}, backups, backupIndex.ids} \/ \E b : backups' = backups \cup {b} /\ b \in archives,
           creating'.pc = "save" => creating'.doc = backups' \/ creating' = creating,
           creating'.pc = "list" => creating'.id \in archives',
           \A d \in Deleter : deleting'[d].pc = "save" =>
              deleting'[d] = deleting[d] /\ backups' \subseteq backups,
           BackupTypeOK', BackupCalls'
    PROVE  BackupInv'
<1>1. Accounted(backupIndex.ids)'
  <2>1. \/ backupIndex'.ids = {}
        \/ backupIndex'.ids = backupIndex.ids
    OBVIOUS
  <2>2. QED
    BY <2>1, AccountedLasts DEF BackupInv, Accounted
<1>2. Accounted(backups)'
  <2>1. CASE backups' = {}
    BY <2>1 DEF Accounted
  <2>2. CASE backups' = backups
    BY <2>2, AccountedLasts DEF BackupInv, Accounted
  <2>3. CASE backups' = backupIndex.ids
    BY <2>3, AccountedLasts DEF BackupInv, Accounted
  <2>4. ASSUME NEW b \in archives, backups' = backups \cup {b}
        PROVE  Accounted(backups)'
    <3>1. \A c \in backups \ archives' :
            c \in unmade' \/ \E d \in Deleter : deleting'[d] # Idle /\ deleting'[d].id = c
      BY AccountedLasts DEF BackupInv
    <3>2. QED
      BY <2>4, <3>1 DEF Accounted
  <2>5. QED
    BY <2>1, <2>2, <2>3, <2>4
<1>3. creating'.pc = "save" => Accounted(creating.doc)'
  <2>1. ASSUME creating'.pc = "save", creating' = creating
        PROVE  Accounted(creating.doc)'
    BY <2>1, AccountedLasts DEF BackupInv, Accounted
  <2>2. QED
    BY <1>2, <2>1 DEF Accounted
<1>4. ASSUME NEW d \in Deleter, deleting'[d].pc = "save"
      PROVE  /\ Accounted(deleting[d].doc)'
             /\ deleting'[d].id \notin deleting'[d].doc \cup backups'
  <2>1. deleting'[d] = deleting[d] /\ backups' \subseteq backups
    BY <1>4
  <2>2. Accounted(deleting[d].doc) /\ deleting[d].id \notin deleting[d].doc \cup backups
    BY <1>4, <2>1 DEF BackupInv
  <2>3. Accounted(deleting[d].doc)'
    BY <2>1, <2>2, AccountedLasts DEF Accounted
  <2>4. QED
    BY <2>1, <2>2, <2>3
<1>5. QED
  BY <1>1, <1>2, <1>3, <1>4 DEF BackupInv

LEMMA BackupInvInit == BackupInit => BackupInv
<1> SUFFICES ASSUME BackupInit PROVE BackupInv
  OBVIOUS
<1>1. BackupTypeOK
  BY BackupTypeInit
<1>2. BackupCalls
  BY DEF BackupInit, BackupCalls, Deleter, Idle
<1>3. /\ Accounted(backupIndex.ids) /\ Accounted(backups)
      /\ creating.pc = "idle" /\ \A d \in Deleter : deleting[d].pc = "idle"
  BY DEF BackupInit, Accounted, Doc, Idle
<1>4. QED
  BY <1>1, <1>2, <1>3 DEF BackupInv

LEMMA BackupInvStep ==
    ASSUME DeletesApart, BackupInv, [BackupNext]_backupVars
    PROVE  BackupInv'
<1>1. BackupTypeOK' /\ BackupCalls' /\ BackupTypeOK /\ BackupCalls
  BY BackupTypeStep, BackupCallsStep DEF BackupInv
<1>2. CASE \/ UNCHANGED backupVars \/ Copied \/ PruneNext \/ BackupFinished \/ Restored
           \/ \E b \in BackupId : DeleteBackup(b) \/ RestoreBackup(b)
  <2>1. UNCHANGED <<archives, backups, backupIndex>> /\ unmade \subseteq unmade'
    BY <1>2 DEF backupVars, diskVars, Copied, PruneNext, BackupFinished, Finished, Restored,
                DeleteBackup, RestoreBackup
  <2>2. \A d \in Deleter : /\ deleting[d] # Idle => deleting'[d] = deleting[d]
                           /\ deleting'[d].pc = "save" => deleting'[d] = deleting[d]
    BY <1>1, <1>2 DEF backupVars, callVars, Copied, PruneNext, BackupFinished, Finished, Restored,
                DeleteBackup, RestoreBackup, BackupTypeOK
  <2>3. creating'.pc \in {"save", "list"} => creating' = creating
    <3>1. CASE Copied \/ PruneNext
      <4>1. creating \in CreateRecord
        BY <1>1, <3>1, BackupKinds DEF Copied, PruneNext
      <4>2. QED
        BY <3>1, <4>1 DEF Copied, PruneNext, Step, CreateRecord
    <3>2. QED
      BY <1>2, <3>1 DEF backupVars, callVars, BackupFinished, Finished, Restored, DeleteBackup,
                        RestoreBackup, Idle
  <2>4. QED
    BY <1>1, <2>1, <2>2, <2>3, NothingLost DEF BackupInv
<1>3. CASE \/ CreateBackup \/ BackupsClose
           \/ \E first \in BOOLEAN : RestoreExtracted(first)
  <2>1. UNCHANGED <<archives, backups, backupIndex, deleting, unmade>>
    BY <1>3 DEF CreateBackup, BackupsClose, RestoreExtracted
  <2>2. \/ creating' = creating
        \/ CanBegin /\ Begin
    <3>1. CASE CreateBackup
      BY <3>1 DEF CreateBackup
    <3>2. CASE BackupsClose
      <4>1. CASE BackupOnClose /\ CanBegin
        BY <3>2, <4>1 DEF BackupsClose
      <4>2. CASE ~(BackupOnClose /\ CanBegin)
        BY <3>2, <4>2, Zenon DEF BackupsClose
      <4>3. QED
        BY <4>1, <4>2
    <3>3. CASE \E first \in BOOLEAN : RestoreExtracted(first)
      BY <3>3 DEF RestoreExtracted
    <3>4. QED
      BY <1>3, <3>1, <3>2, <3>3
  <2>3. creating' = creating \/ creating'.pc = "copy"
    BY <1>1, <2>2, NewBackup
  <2>4. QED
    BY <1>1, <2>1, <2>3, NothingLost DEF BackupInv
<1>4. CASE Archived
  <2>1. creating \in CreateRecord
    BY <1>1, <1>4, BackupKinds DEF Archived
  <2>2. creating'.pc = "list" /\ creating'.id \in archives' /\ archives \subseteq archives'
    BY <1>4, <2>1 DEF Archived, Step, CreateRecord
  <2>3. UNCHANGED <<backups, backupIndex, deleting, unmade>>
    BY <1>4 DEF Archived
  <2>4. QED
    BY <1>1, <2>2, <2>3, NothingLost
<1>5. CASE Listed
  <2>1. creating \in CreateRecord /\ creating.id \in archives /\ creating.pc = "list"
    BY <1>1, <1>5, BackupKinds DEF Listed, BackupInv
  <2>2. creating'.pc = "save" /\ creating'.doc = backups' /\ backups' = backups \cup {creating.id}
    BY <1>5, <2>1 DEF Listed, CreateRecord
  <2>3. UNCHANGED <<archives, deleting, unmade>> /\ backupIndex'.ids = {}
    BY <1>5 DEF Listed, TornDoc
  <2>4. \A d \in Deleter : deleting[d] = Idle
    BY <1>1, <2>1 DEF BackupCalls, Deleter, Still, Idle
  <2>5. QED
    BY <1>1, <2>1, <2>2, <2>3, <2>4, NothingLost DEF Idle
<1>6. CASE Saved
  <2>1. creating \in CreateRecord /\ Accounted(creating.doc)
    BY <1>1, <1>6, BackupKinds DEF Saved, BackupInv
  <2>2. creating'.pc = "prune" /\ backupIndex'.ids = creating.doc
    BY <1>6, <2>1 DEF Saved, Doc, CreateRecord
  <2>3. UNCHANGED <<archives, backups, deleting, unmade>>
    BY <1>6 DEF Saved
  <2>4. Accounted(backupIndex.ids)' /\ Accounted(backups)'
    BY <2>1, <2>2, <2>3 DEF BackupInv, Accounted
  <2>5. \A d \in Deleter : deleting[d] = Idle
    BY <1>1, <1>6 DEF Saved, BackupCalls, Deleter, Still, Idle
  <2>6. \A d \in Deleter : deleting'[d].pc = "idle"
    BY <2>3, <2>5 DEF Idle
  <2>7. QED
    BY <1>1, <2>2, <2>4, <2>6 DEF BackupInv
<1>7. ASSUME NEW d \in Deleter, Unlinked(d) PROVE BackupInv'
  <2> DEFINE b == deleting[d].id
  <2>1. deleting[d] \in DeleteRecord /\ deleting[d] # Idle
    BY <1>1, <1>7, BackupKinds DEF Unlinked, Idle
  <2>2. /\ archives' = archives \ {b} /\ backups' = backups \ {b} /\ backupIndex'.ids = {}
        /\ UNCHANGED <<creating, unmade>>
    BY <1>7 DEF Unlinked, LeftOver, TornDoc
  <2>3. /\ deleting'[d] = [pc |-> "save", id |-> b, doc |-> backups']
        /\ \A e \in Deleter : e # d => deleting'[e] = deleting[e]
    BY <1>1, <1>7 DEF Unlinked, BackupTypeOK
  <2>4. deleting'[d] # Idle /\ deleting'[d].id = b /\ deleting'[d].pc = "save"
        /\ deleting'[d].doc = backups'
    BY <2>3 DEF Idle
  <2>5. \A e \in Deleter : e # d => deleting[e] = Idle
    BY <1>1, <2>1 DEF BackupCalls, Deleter, Still, Idle
  <2>6. Accounted(backups)'
    <3>1. ASSUME NEW c \in backups' \ archives'
          PROVE  c \in unmade' \/ \E e \in Deleter : deleting'[e] # Idle /\ deleting'[e].id = c
      <4>1. c \in backups \ archives
        BY <2>2, <3>1
      <4>2. c \in unmade \/ \E e \in Deleter : deleting[e] # Idle /\ deleting[e].id = c
        BY <4>1 DEF BackupInv, Accounted
      <4>3. QED
        BY <2>2, <2>4, <2>5, <4>2
    <3>2. QED
      BY <3>1 DEF Accounted
  <2>7. creating'.pc \notin {"list", "save"}
    BY <1>1, <2>1, <2>2 DEF BackupCalls, Deleter, Still, Idle
  <2>8. Accounted(backupIndex.ids)'
    BY <2>2 DEF Accounted
  <2>9. \A e \in Deleter : deleting'[e].pc = "save" =>
          Accounted(deleting[e].doc)' /\ deleting'[e].id \notin deleting'[e].doc \cup backups'
    <3>1. \A e \in Deleter : e # d => deleting'[e].pc = "idle"
      BY <2>3, <2>5 DEF Idle
    <3>2. Accounted(deleting[d].doc)'
      BY <2>4, <2>6 DEF Accounted
    <3>3. b \notin backups'
      BY <2>2
    <3>4. QED
      BY <2>4, <3>1, <3>2, <3>3
  <2>10. QED
    BY <1>1, <2>6, <2>7, <2>8, <2>9 DEF BackupInv
<1>8. ASSUME NEW d \in Deleter, Deleted(d) PROVE BackupInv'
  <2> DEFINE b == deleting[d].id
  <2>1. /\ deleting[d] \in DeleteRecord /\ deleting[d] # Idle /\ deleting[d].pc = "save"
        /\ Accounted(deleting[d].doc) /\ b \notin deleting[d].doc \cup backups
    BY <1>1, <1>8, BackupKinds DEF Deleted, Idle, BackupInv
  <2>2. /\ backupIndex'.ids = deleting[d].doc
        /\ UNCHANGED <<archives, backups, creating, unmade>>
    BY <1>8 DEF Deleted, Doc
  <2>3. \A e \in Deleter : e # d => deleting[e] = Idle
    BY <1>1, <2>1 DEF BackupCalls, Deleter, Still, Idle
  <2>4. \A e \in Deleter : deleting'[e] = Idle
    BY <1>1, <1>8, <2>3 DEF Deleted, BackupTypeOK
  <2>5. ASSUME NEW ids, Accounted(ids), b \notin ids
        PROVE  \A c \in ids \ archives' : c \in unmade'
    BY <2>2, <2>3, <2>5 DEF Accounted
  <2>6. Accounted(backupIndex.ids)' /\ Accounted(backups)'
    BY <2>1, <2>2, <2>5 DEF Accounted, BackupInv
  <2>7. creating'.pc \notin {"list", "save"}
    BY <1>1, <2>1, <2>2 DEF BackupCalls, Deleter, Still, Idle
  <2>8. \A e \in Deleter : deleting'[e].pc = "idle"
    BY <2>4 DEF Idle
  <2>9. QED
    BY <1>1, <2>6, <2>7, <2>8 DEF BackupInv
<1>9. CASE BackupsKill
  <2>1. /\ UNCHANGED <<archives, backupIndex>> /\ backups' = {} /\ creating' = Idle
        /\ unmade \subseteq unmade'
        /\ \A d \in Deleter : /\ deleting'[d] = Idle
                              /\ deleting[d] # Idle => deleting[d].id \in unmade'
    BY <1>9 DEF BackupsKill, diskVars
  <2>2. creating'.pc = "idle" /\ \A d \in Deleter : deleting'[d].pc = "idle"
    BY <2>1 DEF Idle
  <2>3. QED
    BY <1>1, <2>1, <2>2, NothingLost
<1>10. CASE BackupsInitialize
  <2>1. UNCHANGED <<archives, backupIndex, deleting, creating, unmade>> /\ backups' = backupIndex.ids
    BY <1>10 DEF BackupsInitialize, diskVars, callVars
  <2>2. creating = Idle /\ \A d \in Deleter : deleting[d] = Idle
    BY <1>1, <1>10 DEF BackupsInitialize, BackupCalls
  <2>3. creating'.pc = "idle" /\ \A d \in Deleter : deleting'[d].pc = "idle"
    BY <2>1, <2>2 DEF Idle
  <2>4. QED
    BY <1>1, <2>1, <2>3, NothingLost
<1>11. QED
  BY <1>2, <1>3, <1>4, <1>5, <1>6, <1>7, <1>8, <1>9, <1>10 DEF BackupNext

\* The backup manager: every variable holds a value of its kind, whoever deletes.
THEOREM BackupTypeCorrect == BackupSpec => []BackupTypeOK
<1>1. BackupTypeOK /\ [BackupNext]_backupVars => BackupTypeOK'
  BY BackupTypeStep
<1>2. QED
  BY <1>1, BackupTypeInit, PTL DEF BackupSpec

\* When nobody deletes a backup while another call is under way, the index never
\* promises a backup whose archive is gone, for any number of backups made, kept
\* and pruned, kills and new starts: only one that is being deleted, or whose
\* deletion ended with the process, may be so.
THEOREM BackupsHaveArchives ==
    ASSUME DeletesApart
    PROVE  BackupSpec => []IndexedIsThere
<1>1. BackupInv => IndexedIsThere
  BY DEF BackupInv, Accounted, IndexedIsThere
<1>2. BackupInv /\ [BackupNext]_backupVars => BackupInv'
  BY BackupInvStep
<1>3. QED
  BY <1>1, <1>2, BackupInvInit, PTL DEF BackupSpec

-----------------------------------------------------------------------------
(* The peer store.  The argument: with saves apart the one that is under way*)
(* while close() waits is its own, and nothing writes the file after it.   *)

\* With saves apart one is under way at most, for the one who waits for it; while
\* close() waits, the save is its own, and once it has ended nothing writes.
StoreInv ==
    /\ \A s, t \in saves : s = t
    /\ \A s \in saves : s.for = "init" => opening = "save"
    /\ \A s \in saves : s.for = "close" => closing = "saving"
    /\ closing \in {"saving", "done"} => ~saveTimer
    /\ closing = "saving" =>
          /\ opening = "open"
          /\ \A s \in saves : s.for = "close" /\ s.peers = atClose
    /\ closing = "done" => opening = "closed" /\ saves = {}
    /\ ClosedIsSaved

LEMMA RosterIs ==
    /\ \A ps : ps \in Roster <=> \E S \in SUBSET StoredPeer : ps \in [S -> Reputations]
    /\ NoPeers \in Roster
    /\ \A ps \in Roster : /\ DOMAIN ps \subseteq StoredPeer
                          /\ ps \in [DOMAIN ps -> Reputations]
<1>1. \A ps : ps \in Roster <=> \E S \in SUBSET StoredPeer : ps \in [S -> Reputations]
  BY DEF Roster
<1>2. NoPeers \in [{} -> Reputations]
  BY DEF NoPeers
<1>3. QED
  BY <1>1, <1>2

LEMMA FewerOrMore ==
    ASSUME NEW ps \in Roster
    PROVE  /\ \A out : Dropped(ps, out) \in Roster
           /\ \A p \in StoredPeer, r \in Reputations : With(ps, p, r) \in Roster
           /\ \A p \in DOMAIN ps, r \in Reputations : [ps EXCEPT ![p] = r] \in Roster
<1>1. DOMAIN ps \subseteq StoredPeer /\ ps \in [DOMAIN ps -> Reputations]
  BY RosterIs
<1>2. \A out : Dropped(ps, out) \in [DOMAIN ps \ out -> Reputations]
  BY <1>1 DEF Dropped
<1>3. \A p \in StoredPeer, r \in Reputations : With(ps, p, r) \in [DOMAIN ps \cup {p} -> Reputations]
  BY <1>1 DEF With
<1>4. \A p \in DOMAIN ps, r \in Reputations : [ps EXCEPT ![p] = r] \in [DOMAIN ps -> Reputations]
  BY <1>1
<1>5. \A out : Dropped(ps, out) \in Roster
  BY <1>1, <1>2, RosterIs
<1>6. \A p \in StoredPeer, r \in Reputations : With(ps, p, r) \in Roster
  <2> TAKE p \in StoredPeer, r \in Reputations
  <2>1. DOMAIN ps \cup {p} \in SUBSET StoredPeer
    BY <1>1
  <2>2. QED
    BY <1>3, <2>1, RosterIs
<1>7. \A p \in DOMAIN ps, r \in Reputations : [ps EXCEPT ![p] = r] \in Roster
  BY <1>1, <1>4, RosterIs
<1>8. QED
  BY <1>5, <1>6, <1>7

SaveOfPeers == [peers : Roster, for : {"init", "timer", "close"}, at : 1..MaxSaves]

LEMMA SaveBegun ==
    ASSUME PeerStoreTypeOK, NEW ps \in Roster, NEW for \in {"init", "timer", "close"},
           BeginSave(ps, for)
    PROVE  /\ saves' \subseteq SaveOfPeers
           /\ put' \in [saves : 0..MaxSaves, kills : 0..MaxStoreKills]
           /\ disk' \in [state : {"none", "torn", "whole"}, peers : Roster]
<1>1. put.saves \in 0..MaxSaves /\ put.saves < MaxSaves /\ MaxSaves \in Nat
  BY PeerStoreAssumption DEF PeerStoreTypeOK, BeginSave
<1>2. put.saves + 1 \in 1..MaxSaves /\ put.saves + 1 \in 0..MaxSaves
  BY <1>1
<1>3. [peers |-> ps, for |-> for, at |-> put.saves + 1] \in SaveOfPeers
  BY <1>2 DEF SaveOfPeers
<1>4. saves' \subseteq SaveOfPeers
  BY <1>3 DEF BeginSave, PeerStoreTypeOK, SaveOfPeers
<1>5. put' \in [saves : 0..MaxSaves, kills : 0..MaxStoreKills]
  BY <1>2 DEF BeginSave, PeerStoreTypeOK
<1>6. disk' \in [state : {"none", "torn", "whole"}, peers : Roster]
  BY RosterIs DEF BeginSave
<1>7. QED
  BY <1>4, <1>5, <1>6

LEMMA SaveWritten ==
    ASSUME PeerStoreTypeOK, NEW s \in saves, Written(s)
    PROVE  /\ saves' \subseteq SaveOfPeers
           /\ disk' \in [state : {"none", "torn", "whole"}, peers : Roster]
  BY DEF PeerStoreTypeOK, Written, SaveOfPeers

LEMMA PeerStoreTypeInit == PeerStoreInit => PeerStoreTypeOK
<1> SUFFICES ASSUME PeerStoreInit PROVE PeerStoreTypeOK
  OBVIOUS
<1>1. 0 \in 0..MaxSaves /\ 0 \in 0..MaxStoreKills
  BY PeerStoreAssumption
<1>2. put \in [saves : 0..MaxSaves, kills : 0..MaxStoreKills]
  BY <1>1 DEF PeerStoreInit
<1>3. QED
  BY <1>2, RosterIs DEF PeerStoreInit, PeerStoreTypeOK

LEMMA PeerStoreTypeStep ==
    ASSUME PeerStoreTypeOK, [PeerStoreNext]_peerStoreVars
    PROVE  PeerStoreTypeOK'
<1> USE DEF PeerStoreTypeOK, openVars
<1>1. CASE UNCHANGED peerStoreVars \/ InitStore
  BY <1>1 DEF peerStoreVars, InitStore
<1>2. CASE Accessed
  <2>1. CASE BeginSave(peers, "init")
    BY <1>2, <2>1, SaveBegun DEF Accessed, SaveOfPeers
  <2>2. CASE UNCHANGED <<disk, saves, put>>
    BY <1>2, <2>2 DEF Accessed
  <2>3. QED
    BY <1>2, <2>1, <2>2 DEF Accessed
<1>3. CASE ReadFile
  BY <1>3 DEF ReadFile, Opened
<1>4. CASE TimerSave
  BY <1>4, SaveBegun DEF TimerSave, SaveOfPeers
<1>5. CASE CloseStore
  <2>1. BeginSave(peers, "close")
    BY <1>5 DEF CloseStore
  <2>2. QED
    BY <1>5, <2>1, SaveBegun DEF CloseStore, NoSaves, SaveOfPeers
<1>6. CASE KillStore
  <2>1. put' \in [saves : 0..MaxSaves, kills : 0..MaxStoreKills]
    <3>1. put.kills + 1 \in 0..MaxStoreKills
      BY <1>6, PeerStoreAssumption DEF KillStore
    <3>2. QED
      BY <1>6, <3>1 DEF KillStore
  <2>2. QED
    BY <1>6, <2>1, RosterIs DEF KillStore
<1>7. ASSUME NEW s \in saves, FirstSaved(s) \/ TimerSaved(s) \/ Closed(s)
      PROVE  PeerStoreTypeOK'
  <2>1. Written(s)
    BY <1>7 DEF FirstSaved, TimerSaved, Closed
  <2>2. saves' \subseteq SaveOfPeers /\ disk' \in [state : {"none", "torn", "whole"}, peers : Roster]
    BY <2>1, SaveWritten
  <2>3. CASE FirstSaved(s)
    BY <2>2, <2>3 DEF FirstSaved, Opened, SaveOfPeers
  <2>4. CASE TimerSaved(s)
    BY <2>2, <2>4 DEF TimerSaved, SaveOfPeers
  <2>5. CASE Closed(s)
    BY <2>2, <2>5, RosterIs DEF Closed, SaveOfPeers
  <2>6. QED
    BY <1>7, <2>3, <2>4, <2>5
<1>8. ASSUME NEW p \in StoredPeer, NEW r \in Reputations, AddStored(p, r) \/ UpdateStored(p, r)
      PROVE  PeerStoreTypeOK'
  <2>1. peers' \in Roster
    <3>1. \A out : With(Dropped(peers, out), p, r) \in Roster
      <4> TAKE out
      <4>1. Dropped(peers, out) \in Roster
        BY FewerOrMore
      <4> QED
        BY <4>1, FewerOrMore
    <3>2. CASE AddStored(p, r)
      <4>1. With(peers, p, r) \in Roster
        BY FewerOrMore
      <4>2. QED
        BY <3>1, <3>2, <4>1 DEF AddStored
    <3>3. CASE UpdateStored(p, r)
      <4>1. p \in DOMAIN peers /\ peers' = [peers EXCEPT ![p] = r]
        BY <3>3 DEF UpdateStored
      <4>2. QED
        BY <4>1, FewerOrMore
    <3>4. QED
      BY <1>8, <3>2, <3>3
  <2>2. QED
    BY <1>8, <2>1 DEF AddStored, UpdateStored
<1>9. ASSUME NEW p \in StoredPeer, RemoveStored(p) \/ GrowIdle(p)
      PROVE  PeerStoreTypeOK'
  BY <1>9, FewerOrMore DEF RemoveStored, GrowIdle
<1>10. CASE PruneInactive
  BY <1>10, FewerOrMore DEF PruneInactive
<1>11. QED
  BY <1>1, <1>2, <1>3, <1>4, <1>5, <1>6, <1>7, <1>8, <1>9, <1>10 DEF PeerStoreNext

LEMMA StoreInvStep ==
    ASSUME SavesApart, StoreInv, [PeerStoreNext]_peerStoreVars
    PROVE  StoreInv'
<1> USE DEF StoreInv, ClosedIsSaved, openVars
\* A save that begins is the only one.
<1>1. ASSUME NEW ps, NEW for, BeginSave(ps, for)
      PROVE  saves = {} /\ \A s \in saves' : s.for = for /\ s.peers = ps
                        /\ \A t \in saves' : s = t
  BY <1>1 DEF BeginSave
\* A save that ends leaves none.
<1>2. ASSUME NEW s \in saves, Written(s)
      PROVE  saves' = {} /\ disk' = [state |-> "whole", peers |-> s.peers]
  BY <1>2 DEF Written
<1>3. CASE UNCHANGED peerStoreVars \/ InitStore \/ ReadFile
  BY <1>3 DEF peerStoreVars, InitStore, ReadFile, Opened
<1>4. CASE Accessed
  <2>1. CASE BeginSave(peers, "init") /\ opening' = "save"
    BY <1>1, <1>4, <2>1 DEF Accessed
  <2>2. CASE opening' = "read" /\ UNCHANGED <<disk, saves, put>>
    BY <1>4, <2>2 DEF Accessed
  <2>3. QED
    BY <1>4, <2>1, <2>2 DEF Accessed
<1>5. CASE TimerSave
  BY <1>1, <1>5 DEF TimerSave
<1>6. CASE CloseStore
  <2>1. /\ saves = {} /\ \A s \in saves' : s.for = "close" /\ s.peers = peers
        /\ \A s, t \in saves' : s = t
    BY <1>1, <1>6 DEF CloseStore
  <2>2. QED
    BY <1>6, <2>1 DEF CloseStore, NoSaves
<1>7. CASE KillStore
  BY <1>7 DEF KillStore
<1>8. ASSUME NEW s \in saves, FirstSaved(s) \/ TimerSaved(s) \/ Closed(s)
      PROVE  StoreInv'
  <2>1. saves' = {} /\ disk' = [state |-> "whole", peers |-> s.peers]
    BY <1>2, <1>8 DEF FirstSaved, TimerSaved, Closed
  <2>2. CASE FirstSaved(s)
    BY <2>1, <2>2 DEF FirstSaved, Opened
  <2>3. CASE TimerSaved(s)
    BY <2>1, <2>3 DEF TimerSaved
  <2>4. CASE Closed(s)
    BY <2>1, <2>4 DEF Closed
  <2>5. QED
    BY <1>8, <2>2, <2>3, <2>4
<1>9. ASSUME \/ PruneInactive
             \/ \E p \in StoredPeer :
                   \/ RemoveStored(p) \/ GrowIdle(p)
                   \/ \E r \in Reputations : AddStored(p, r) \/ UpdateStored(p, r)
      PROVE  UNCHANGED <<disk, saves, opening, saveTimer, closing, atClose>>
  BY <1>9 DEF PruneInactive, RemoveStored, GrowIdle, AddStored, UpdateStored
<1>10. CASE UNCHANGED <<disk, saves, opening, saveTimer, closing, atClose>>
  BY <1>10
<1>11. QED
  BY <1>3, <1>4, <1>5, <1>6, <1>7, <1>8, <1>9, <1>10 DEF PeerStoreNext

\* The peer store: every variable holds a value of its kind, saves overlapping or not.
THEOREM PeerStoreTypeCorrect == PeerStoreSpec => []PeerStoreTypeOK
<1>1. PeerStoreTypeOK /\ [PeerStoreNext]_peerStoreVars => PeerStoreTypeOK'
  BY PeerStoreTypeStep
<1>2. QED
  BY <1>1, PeerStoreTypeInit, PTL DEF PeerStoreSpec

\* When no save comes while another is under way, a store that has closed leaves
\* a whole file with the peers it had when close() was called, whatever was added,
\* dropped or pruned while it wrote.
THEOREM ClosedStoresAreSaved == ASSUME SavesApart PROVE PeerStoreSpec => []ClosedIsSaved
<1>1. PeerStoreInit => StoreInv
  BY DEF PeerStoreInit, StoreInv, ClosedIsSaved
<1>2. StoreInv /\ [PeerStoreNext]_peerStoreVars => StoreInv'
  BY StoreInvStep
<1>3. StoreInv => ClosedIsSaved
  BY DEF StoreInv
<1>4. QED
  BY <1>1, <1>2, <1>3, PTL DEF PeerStoreSpec

-----------------------------------------------------------------------------
(* The explorer.  The argument: a cached answer knows no less than the last*)
(* one given, and a query that waits has taken no less either (Fresh).     *)

\* The most an answer for a key can know now
Best(k) ==
    IF k \in BlockKey THEN NextKnown(k[2])
    ELSE IF k \in TxKey THEN IF k[2] \in mined THEN 2 ELSE IF k[2] \in pooled THEN 1 ELSE -1
    ELSE height

\* What a query has taken before it waits
Fresh(q) ==
    /\ q.key \in BlockKey => q.at = q.key[2]
    /\ q.key \in TxKey => q.at = 0
    /\ q.key \in StateKey =>
          q.at >= answered[q.key] /\ q.at <= height /\ cached[q.key] = -1
    /\ q.key = LatestKey =>
          q.top >= answered[q.key] /\ q.top <= height /\ cached[q.key] = -1

Alone(q, r) == q.key = r.key /\ q.key \in StateKey \cup {LatestKey} => q = r

\* A cached answer knows no less than the last one given, and neither more than
\* there is to know.
Item(k) ==
    /\ answered[k] <= Best(k) /\ cached[k] <= Best(k)
    /\ cached[k] # -1 => cached[k] >= answered[k]

\* Of every item one timer at most is armed.
Armed == armed = [k \in Key |-> IF k \in timed THEN 1 ELSE 0]

ExplorerInv ==
    /\ ExplorerTypeOK /\ Armed
    /\ pooled \cap mined = {}
    /\ \A k \in Key : Item(k)
    /\ \A q \in asked : Fresh(q)
    /\ \A q, r \in asked : Alone(q, r)

-----------------------------------------------------------------------------
(* Keys and queries *)

\* Questions of different kinds have different keys.
LEMMA Keys ==
    /\ \A k \in BlockKey : /\ k[2] \in Height /\ k \in Key
                           /\ k \notin TxKey \cup StateKey \cup {LatestKey}
    /\ \A k \in TxKey : k[2] \in Tx /\ k \in Key /\ k \notin StateKey \cup {LatestKey}
    /\ \A k \in StateKey : k \in Key /\ k # LatestKey
    /\ LatestKey \in Key
    /\ \A h \in Height : <<"height", h>> \in BlockKey
  BY DEF Key, BlockKey, TxKey, StateKey, LatestKey

LEMMA ExplorerBounds ==
    /\ MaxHeight \in Nat /\ MaxAsked \in Nat /\ PageSize \in Nat \ {0}
    /\ 0 \in Height /\ 0 \in 0..MaxAsked /\ {-1, 0, 1, 2} \subseteq -1..MaxHeight + 2
    /\ \A h \in Height : h \in Int /\ h >= 0 /\ h <= MaxHeight /\ h \in -1..MaxHeight
                         /\ h \in -1..MaxHeight + 2
    /\ \A h : h \in Int /\ h >= 0 /\ h <= MaxHeight => h \in Height
    /\ \A v \in -1..MaxHeight + 2 : v \in Int /\ v >= -1
    /\ \A v \in -1..MaxHeight : v \in Int /\ v >= -1 /\ v <= MaxHeight
<1>1. MaxHeight \in Nat /\ MaxAsked \in Nat /\ PageSize \in Nat \ {0}
  BY ExplorerAssumption
<1>2. QED
  BY <1>1 DEF Height

LEMMA Known ==
    ASSUME ExplorerTypeOK, NEW h \in Int
    PROVE  NextKnown(h) \in {0, 1} /\ NextKnown(h) \in Int
  BY DEF NextKnown

LEMMA AwaitingRow ==
    ASSUME ExplorerTypeOK, NEW k \in Key, NEW at \in -1..MaxHeight, Asked(k), Waits(k, at)
    PROVE  /\ asked' \subseteq Query /\ questions' \in 0..MaxAsked
           /\ \A r \in asked' \ asked : r.key = k /\ r.at = at /\ r.top = height
           /\ \A r \in asked' : r \in asked \/ (r.key = k /\ r.at = at /\ r.top = height)
           /\ \A r, t \in asked' \ asked : r = t
<1>1. questions \in Nat /\ questions < MaxAsked /\ MaxAsked \in Nat
  BY ExplorerBounds DEF ExplorerTypeOK, Asked
<1>2. questions + 1 \in 1..MaxAsked /\ questions + 1 \in 0..MaxAsked
  BY <1>1
<1>3. height \in Height
  BY DEF ExplorerTypeOK
<1>4. [key |-> k, at |-> at, top |-> height, id |-> questions + 1] \in Query
  BY <1>2, <1>3 DEF Query
<1>5. asked' \subseteq Query
  BY <1>4 DEF Waits, ExplorerTypeOK
<1>6. questions' \in 0..MaxAsked
  BY <1>2 DEF Asked
<1>7. QED
  BY <1>5, <1>6 DEF Waits

LEMMA Putting ==
    ASSUME ExplorerTypeOK, Armed, NEW k \in Key, NEW v \in -1..MaxHeight + 2, MaxAsked >= 1,
           Put(k, v)
    PROVE  /\ cached' \in [Key -> -1..MaxHeight + 2] /\ armed' \in [Key -> 0..MaxAsked]
           /\ timed' \subseteq Key /\ Armed'
           /\ cached'[k] = v /\ \A j \in Key \ {k} : cached'[j] = cached[j]
<1>1. cached' \in [Key -> -1..MaxHeight + 2] /\ timed' \subseteq Key
      /\ cached'[k] = v /\ \A j \in Key \ {k} : cached'[j] = cached[j]
  BY DEF ExplorerTypeOK, Put
<1>2. armed' = [j \in Key |-> IF j \in timed' THEN 1 ELSE 0]
  BY DEF ExplorerTypeOK, Put, Armed, ArmedAnew
<1>3. MaxAsked \in Nat
  BY ExplorerBounds
<1>4. armed' \in [Key -> 0..MaxAsked]
  BY <1>2, <1>3
<1>5. QED
  BY <1>1, <1>2, <1>4 DEF Armed

LEMMA Asking ==
    ASSUME ExplorerTypeOK
    PROVE  /\ \A q \in asked : /\ q \in Query /\ q.key \in Key /\ MaxAsked >= 1
                               /\ q.at \in -1..MaxHeight /\ q.top \in Height
           /\ questions < MaxAsked => MaxAsked >= 1
<1>1. \A q \in asked : /\ q \in Query /\ q.key \in Key /\ q.id \in 1..MaxAsked
                       /\ q.at \in -1..MaxHeight /\ q.top \in Height
  BY DEF ExplorerTypeOK, Query
<1>2. MaxAsked \in Nat /\ questions \in 0..MaxAsked
  BY ExplorerBounds DEF ExplorerTypeOK
<1>3. QED
  BY <1>1, <1>2

-----------------------------------------------------------------------------
(* Types *)

TypedCache ==
    /\ cached \in [Key -> -1..MaxHeight + 2] /\ answered \in [Key -> -1..MaxHeight + 2]
    /\ timed \subseteq Key /\ armed \in [Key -> 0..MaxAsked] /\ Armed

LEMMA ExplorerTypeInit == ExplorerInit => ExplorerTypeOK /\ Armed
<1> SUFFICES ASSUME ExplorerInit PROVE ExplorerTypeOK /\ Armed
  OBVIOUS
<1>1. height \in Height /\ questions \in 0..MaxAsked /\ -1 \in -1..MaxHeight + 2 /\ 0 \in 0..MaxAsked
  BY ExplorerBounds DEF ExplorerInit
<1>2. QED
  BY <1>1 DEF ExplorerInit, ExplorerTypeOK, Armed

LEMMA ExplorerTypeStep ==
    ASSUME ExplorerTypeOK, Armed, [ExplorerNext]_explorerVars
    PROVE  ExplorerTypeOK' /\ Armed'
<1>1. CASE UNCHANGED explorerVars \/ StartExplorer
  BY <1>1 DEF explorerVars, chainVars, cacheVars, StartExplorer, ExplorerTypeOK, Armed
<1>2. CASE StopExplorer
  <2>1. armed' = [k \in Key |-> 0]
    BY <1>2 DEF StopExplorer, Armed
  <2>2. TypedCache'
    BY <1>2, <2>1, ExplorerBounds DEF StopExplorer, TypedCache, ExplorerTypeOK, Armed
  <2>3. QED
    BY <1>2, <2>2 DEF StopExplorer, TypedCache, ExplorerTypeOK, chainVars
<1>3. ASSUME NEW k \in Key, FromCache(k) PROVE ExplorerTypeOK' /\ Armed'
  <2>1. questions' \in 0..MaxAsked
    BY <1>3, ExplorerBounds DEF FromCache, Asked, ExplorerTypeOK
  <2>2. answered' \in [Key -> -1..MaxHeight + 2]
    BY <1>3 DEF FromCache, Answer, ExplorerTypeOK
  <2>3. QED
    BY <1>3, <2>1, <2>2 DEF FromCache, Asked, ExplorerTypeOK, chainVars, cacheVars, Armed
<1>4. ASSUME NEW k \in Key, Expire(k) PROVE ExplorerTypeOK' /\ Armed'
  <2>1. armed' = [j \in Key |-> IF j \in timed' THEN 1 ELSE 0]
    BY <1>4 DEF Expire, Armed
  <2>2. MaxAsked \in Nat /\ MaxAsked >= 1
    BY <1>4, ExplorerBounds DEF Expire, ExplorerTypeOK
  <2>3. armed' \in [Key -> 0..MaxAsked]
    BY <2>1, <2>2
  <2>4. cached' \in [Key -> -1..MaxHeight + 2] /\ timed' \subseteq Key
    BY <1>4, ExplorerBounds DEF Expire, ExplorerTypeOK
  <2>5. QED
    BY <1>4, <2>1, <2>3, <2>4 DEF Expire, ExplorerTypeOK, chainVars, Armed
<1>5. ASSUME NEW k \in Key, NEW at \in -1..MaxHeight, Asked(k), Waits(k, at),
             UNCHANGED <<cacheVars, answered>>
      PROVE  ExplorerTypeOK' /\ Armed'
  <2>1. asked' \subseteq Query /\ questions' \in 0..MaxAsked
    BY <1>5, AwaitingRow
  <2>2. QED
    BY <1>5, <2>1 DEF Asked, ExplorerTypeOK, chainVars, cacheVars, Armed
<1>6. ASSUME NEW k \in BlockKey, AskBlock(k) PROVE ExplorerTypeOK' /\ Armed'
  <2>1. k[2] \in -1..MaxHeight /\ k \in Key
    BY Keys, ExplorerBounds
  <2>2. QED
    BY <1>5, <1>6, <2>1 DEF AskBlock
\* A question that is answered at once, or one whose answer comes
<1>7. ASSUME NEW k \in Key, NEW v \in -1..MaxHeight + 2, Put(k, v), Answer(k, v),
             MaxAsked >= 1, asked' \subseteq asked, questions' \in 0..MaxAsked,
             UNCHANGED <<chainVars, exploring>>
      PROVE  ExplorerTypeOK' /\ Armed'
  <2>1. TypedCache'
    <3>1. answered' \in [Key -> -1..MaxHeight + 2]
      BY <1>7 DEF Answer, ExplorerTypeOK
    <3>2. QED
      BY <1>7, <3>1, Putting DEF TypedCache
  <2>2. QED
    BY <1>7, <2>1 DEF TypedCache, ExplorerTypeOK, chainVars
<1>8. ASSUME NEW k \in TxKey, AskTransaction(k) PROVE ExplorerTypeOK' /\ Armed'
  <2>1. 0 \in -1..MaxHeight /\ 1 \in -1..MaxHeight + 2 /\ k \in Key
    BY Keys, ExplorerBounds
  <2>2. CASE k[2] \in pooled
    <3>1. MaxAsked >= 1 /\ questions' \in 0..MaxAsked
      BY <1>8, Asking, ExplorerBounds DEF AskTransaction, Asked, ExplorerTypeOK
    <3>2. QED
      BY <1>7, <1>8, <2>1, <2>2, <3>1 DEF AskTransaction, PendingNow, Asked
  <2>3. CASE k[2] \notin pooled
    BY <1>5, <1>8, <2>1, <2>3 DEF AskTransaction
  <2>4. QED
    BY <2>2, <2>3
<1>9. CASE AskLatest \/ \E k \in StateKey : AskState(k)
  <2>1. height \in -1..MaxHeight
    BY ExplorerBounds DEF ExplorerTypeOK
  <2>2. CASE AskLatest
    BY <1>5, <2>1, <2>2, Keys DEF AskLatest
  <2>3. ASSUME NEW k \in StateKey, AskState(k) PROVE ExplorerTypeOK' /\ Armed'
    BY <1>5, <2>1, <2>3, Keys DEF AskState
  <2>4. QED
    BY <1>9, <2>2, <2>3
<1>10. ASSUME NEW q \in asked, BlockRead(q) \/ TransactionRead(q) \/ ListDone(q) \/ StateAnswered(q)
       PROVE  ExplorerTypeOK' /\ Armed'
  <2>1. /\ q.key \in Key /\ q.at \in -1..MaxHeight /\ q.top \in -1..MaxHeight + 2 /\ MaxAsked >= 1
        /\ q.at \in -1..MaxHeight + 2 /\ NextKnown(q.at) \in -1..MaxHeight + 2
        /\ 1 \in -1..MaxHeight + 2 /\ 2 \in -1..MaxHeight + 2
    BY Asking, ExplorerBounds, Known
  <2>2. asked' \subseteq asked /\ questions' \in 0..MaxAsked /\ UNCHANGED <<chainVars, exploring, questions>>
    BY <1>10 DEF BlockRead, TransactionRead, ListDone, StateAnswered, ExplorerTypeOK
  <2>3. CASE UNCHANGED <<cacheVars, answered>>
    BY <2>2, <2>3 DEF ExplorerTypeOK, chainVars, cacheVars, Armed
  <2>4. CASE \E v \in -1..MaxHeight + 2 : Put(q.key, v) /\ Answer(q.key, v)
    BY <1>7, <2>1, <2>2, <2>4
  <2>5. \/ UNCHANGED <<cacheVars, answered>>
        \/ \E v \in -1..MaxHeight + 2 : Put(q.key, v) /\ Answer(q.key, v)
    <3>1. CASE BlockRead(q)
      BY <2>1, <3>1 DEF BlockRead
    <3>2. CASE TransactionRead(q)
      BY <2>1, <3>2 DEF TransactionRead
    <3>3. CASE ListDone(q)
      BY <2>1, <3>3 DEF ListDone
    <3>4. CASE StateAnswered(q)
      BY <2>1, <3>4 DEF StateAnswered
    <3>5. QED
      BY <1>10, <3>1, <3>2, <3>3, <3>4
  <2>6. QED
    BY <2>3, <2>4, <2>5
<1>11. ASSUME NEW q \in asked, ListRead(q) PROVE ExplorerTypeOK' /\ Armed'
  <2>1. /\ q \in Query /\ MaxAsked >= 1 /\ q.at \in Height /\ NextKnown(q.at) \in -1..MaxHeight + 2
        /\ q.at \in Int /\ q.at >= 0 /\ q.at <= MaxHeight
    BY <1>11, Asking, ExplorerBounds, Known DEF ListRead
  <2>2. <<"height", q.at>> \in Key
    BY <2>1, Keys
  <2>3. (IF Last(q) THEN -1 ELSE q.at - 1) \in -1..MaxHeight
    BY <2>1, ExplorerBounds
  <2>4. asked' \subseteq Query
    BY <1>11, <2>1, <2>3 DEF ListRead, ExplorerTypeOK, Query
  <2>5. TypedCache'
    <3>1. CASE UNCHANGED cacheVars
      BY <1>11, <3>1 DEF ListRead, TypedCache, cacheVars, ExplorerTypeOK, Armed
    <3>2. CASE Put(<<"height", q.at>>, NextKnown(q.at))
      BY <1>11, <2>1, <2>2, <3>2, Putting DEF ListRead, TypedCache, ExplorerTypeOK
    <3>3. QED
      BY <1>11, <3>1, <3>2 DEF ListRead
  <2>6. QED
    BY <1>11, <2>4, <2>5 DEF ListRead, TypedCache, ExplorerTypeOK, chainVars
<1>12. ASSUME NEW t \in Tx, Submitted(t) PROVE ExplorerTypeOK' /\ Armed'
  BY <1>12 DEF Submitted, Node, cacheVars, ExplorerTypeOK, Armed
<1>13. ASSUME NEW ts \in SUBSET pooled, BlockAdded(ts) PROVE ExplorerTypeOK' /\ Armed'
  <2>1. height' \in Height
    BY <1>13, ExplorerBounds DEF BlockAdded, ExplorerTypeOK
  <2>2. QED
    BY <1>13, <2>1 DEF BlockAdded, Node, cacheVars, ExplorerTypeOK, Armed
<1>14. QED
  BY <1>1, <1>2, <1>3, <1>4, <1>6, <1>8, <1>9, <1>10, <1>11, <1>12, <1>13 DEF ExplorerNext

-----------------------------------------------------------------------------
(* What an answer can know grows with the chain *)

Chained == pooled \cap mined = {}

LEMMA BestIs ==
    ASSUME ExplorerTypeOK, NEW k \in Key
    PROVE  /\ Best(k) \in Int /\ Best(k) >= -1
           /\ k \in BlockKey => Best(k) = NextKnown(k[2])
           /\ k \in TxKey =>
                 Best(k) = IF k[2] \in mined THEN 2 ELSE IF k[2] \in pooled THEN 1 ELSE -1
           /\ k \in StateKey \cup {LatestKey} => Best(k) = height
<1>1. height \in Int /\ height >= 0
  BY ExplorerBounds DEF ExplorerTypeOK
<1>2. k \in BlockKey => NextKnown(k[2]) \in Int /\ NextKnown(k[2]) >= -1
  BY <1>1 DEF NextKnown
<1>3. QED
  BY <1>1, <1>2, Keys DEF Best

LEMMA BestGrows ==
    ASSUME ExplorerTypeOK, Chained, [ExplorerNext]_explorerVars
    PROVE  /\ Chained' /\ height' >= height
           /\ \A k \in Key : Best(k)' \in Int /\ Best(k)' >= -1 /\ Best(k)' >= Best(k)
<1>1. CASE UNCHANGED chainVars
  <2>1. \A k : Best(k)' = Best(k)
    BY <1>1 DEF chainVars, Best, NextKnown
  <2>2. height \in Int
    BY ExplorerBounds DEF ExplorerTypeOK
  <2>3. QED
    BY <1>1, <2>1, <2>2, BestIs DEF chainVars, Chained
<1>2. ASSUME NEW t \in Tx, Submitted(t)
      PROVE  Chained' /\ UNCHANGED <<height, mined>> /\ pooled \subseteq pooled'
  BY <1>2 DEF Submitted, Chained
<1>3. ASSUME NEW ts \in SUBSET pooled, BlockAdded(ts)
      PROVE  /\ Chained' /\ height' = height + 1 /\ mined \subseteq mined'
             /\ pooled \subseteq pooled' \cup mined'
  BY <1>3 DEF BlockAdded, Chained
<1>4. ASSUME Chained', height' \in {height, height + 1}, mined \subseteq mined',
             pooled \subseteq pooled' \cup mined'
      PROVE  /\ height' >= height
             /\ \A k \in Key : Best(k)' \in Int /\ Best(k)' >= -1 /\ Best(k)' >= Best(k)
  <2>1. height \in Int /\ height >= 0
    BY ExplorerBounds DEF ExplorerTypeOK
  <2>2. ASSUME NEW k \in Key
        PROVE  Best(k)' \in Int /\ Best(k)' >= -1 /\ Best(k)' >= Best(k)
    <3>1. CASE k \in BlockKey
      <4>1. k[2] \in Int
        BY <3>1, Keys, ExplorerBounds
      <4>2. NextKnown(k[2])' \in {0, 1} /\ NextKnown(k[2])' >= NextKnown(k[2])
        BY <1>4, <2>1, <4>1 DEF NextKnown
      <4>3. QED
        BY <3>1, <4>2 DEF Best
    <3>2. CASE k \in TxKey
      BY <1>4, <3>2, Keys DEF Best
    <3>3. CASE k \notin BlockKey \cup TxKey
      BY <1>4, <2>1, <3>3 DEF Best
    <3>4. QED
      BY <3>1, <3>2, <3>3
  <2>3. QED
    BY <1>4, <2>1, <2>2
<1>5. UNCHANGED chainVars \/ (\E t \in Tx : Submitted(t)) \/ (\E ts \in SUBSET pooled : BlockAdded(ts))
  BY DEF ExplorerNext, explorerVars, StartExplorer, StopExplorer, AskLatest, FromCache, Expire,
         AskBlock, AskTransaction, AskState, Asked, BlockRead, TransactionRead, ListRead, ListDone,
         StateAnswered
<1>6. QED
  BY <1>1, <1>2, <1>3, <1>4, <1>5

-----------------------------------------------------------------------------
(* Items and queries across a step *)

Grows(k) == Best(k) \in Int /\ Best(k)' \in Int /\ Best(k) >= -1 /\ Best(k)' >= Best(k)

LEMMA ItemKept ==
    ASSUME ExplorerTypeOK, NEW k \in Key, Item(k), Grows(k), cached'[k] \in {cached[k], -1},
           \/ answered'[k] = answered[k]
           \/ answered'[k] = cached[k] /\ cached'[k] = cached[k] /\ cached[k] # -1
    PROVE  Item(k)' /\ answered'[k] >= answered[k]
<1>1. answered[k] \in Int /\ cached[k] \in Int
  BY ExplorerBounds DEF ExplorerTypeOK
<1>2. QED
  BY <1>1 DEF Item, Grows

LEMMA ItemPut ==
    ASSUME ExplorerTypeOK, NEW k \in Key, Item(k), Grows(k), NEW v \in Int, cached'[k] = v,
           answered'[k] \in {v, answered[k]}, v >= answered[k], v <= Best(k)'
    PROVE  Item(k)' /\ answered'[k] >= answered[k]
<1>1. answered[k] \in Int
  BY ExplorerBounds DEF ExplorerTypeOK
<1>2. QED
  BY <1>1 DEF Item, Grows

LEMMA FreshKept ==
    ASSUME ExplorerTypeOK, NEW q \in Query, Fresh(q), height' \in Int, height' >= height,
           q.key \in StateKey \cup {LatestKey} =>
              answered'[q.key] = answered[q.key] /\ cached'[q.key] = -1
    PROVE  Fresh(q)'
<1>1. q.at \in Int /\ q.top \in Int /\ height \in Int
  BY ExplorerBounds DEF ExplorerTypeOK, Query
<1>2. QED
  BY <1>1 DEF Fresh

\* A step after which no query has come
LEMMA FewerQueries ==
    ASSUME ExplorerInv, ExplorerTypeOK', height' >= height, asked' \subseteq asked,
           \A q \in asked' : q.key \in StateKey \cup {LatestKey} =>
              answered'[q.key] = answered[q.key] /\ cached'[q.key] = -1
    PROVE  /\ \A q \in asked' : Fresh(q)'
           /\ \A q, r \in asked' : Alone(q, r)'
<1>1. height' \in Int
  BY ExplorerBounds DEF ExplorerTypeOK
<1>2. \A q \in asked' : q \in Query /\ Fresh(q)
  BY DEF ExplorerInv, ExplorerTypeOK
<1>3. \A q \in asked' : Fresh(q)'
  BY <1>1, <1>2, FreshKept DEF ExplorerInv
<1>4. QED
  BY <1>3 DEF ExplorerInv, Alone

\* The answer to q: what is put is no less than what was answered, and no other
\* query waits for the same list or state.
LEMMA Given ==
    ASSUME ExplorerInv, ExplorerTypeOK', \A k \in Key : Grows(k), height' >= height,
           NEW q \in asked, NEW v \in Int, Put(q.key, v), Answer(q.key, v),
           v >= answered[q.key], v <= Best(q.key)', asked' = asked \ {q}
    PROVE  /\ \A k \in Key : Item(k)' /\ answered'[k] >= answered[k]
           /\ \A r \in asked' : Fresh(r)'
           /\ \A r, t \in asked' : Alone(r, t)'
<1>1. q.key \in Key
  BY Asking DEF ExplorerInv
<1>2. /\ cached'[q.key] = v /\ answered'[q.key] = v
      /\ \A k \in Key \ {q.key} : cached'[k] = cached[k] /\ answered'[k] = answered[k]
  BY <1>1 DEF Put, Answer, ExplorerInv, ExplorerTypeOK
<1>3. ASSUME NEW k \in Key
      PROVE  Item(k)' /\ answered'[k] >= answered[k]
  <2>1. CASE k = q.key
    BY <1>2, <2>1, ItemPut DEF ExplorerInv
  <2>2. CASE k # q.key
    BY <1>2, <2>2, ItemKept DEF ExplorerInv
  <2>3. QED
    BY <2>1, <2>2
<1>4. ASSUME NEW r \in asked', r.key \in StateKey \cup {LatestKey}
      PROVE  answered'[r.key] = answered[r.key] /\ cached'[r.key] = -1
  <2>1. r # q /\ r \in asked /\ Alone(q, r)
    BY DEF ExplorerInv
  <2>2. r.key # q.key
    BY <1>4, <2>1 DEF Alone
  <2>3. r.key \in Key /\ cached[r.key] = -1
    BY <1>4, <2>1, Asking, Keys DEF ExplorerInv, Fresh
  <2>4. QED
    BY <1>2, <2>2, <2>3
<1>5. QED
  BY <1>3, <1>4, FewerQueries

\* A query begins, and has taken no less than what was answered.
LEMMA Begun ==
    ASSUME ExplorerInv, ExplorerTypeOK', \A k \in Key : Grows(k),
           NEW k \in Key, NEW at \in -1..MaxHeight, Asked(k), Waits(k, at), cached[k] = -1,
           UNCHANGED <<cacheVars, answered>>,
           k \in BlockKey => at = k[2],
           k \in TxKey => at = 0,
           k \in StateKey => at = height,
           k \in StateKey \cup {LatestKey} => \A q \in asked : q.key # k
    PROVE  /\ \A j \in Key : Item(j)' /\ answered'[j] >= answered[j]
           /\ \A r \in asked' : Fresh(r)'
           /\ \A r, t \in asked' : Alone(r, t)'
<1>1. UNCHANGED <<cached, answered, height>>
  BY DEF cacheVars, Asked, chainVars
<1>2. /\ \A r \in asked' : r \in asked \/ (r.key = k /\ r.at = at /\ r.top = height)
      /\ \A r, t \in asked' \ asked : r = t
  BY AwaitingRow DEF ExplorerInv
<1>3. ASSUME NEW j \in Key PROVE Item(j)' /\ answered'[j] >= answered[j]
  BY <1>1, ItemKept DEF ExplorerInv
<1>4. height \in Int /\ answered[k] \in Int /\ (k \in StateKey \cup {LatestKey} => answered[k] <= height)
  BY ExplorerBounds, BestIs DEF ExplorerInv, ExplorerTypeOK, Item
<1>5. ASSUME NEW r \in asked' PROVE Fresh(r)'
  <2>1. CASE r \in asked
    BY <1>1, <2>1 DEF ExplorerInv, Fresh
  <2>2. CASE r.key = k /\ r.at = at /\ r.top = height
    BY <1>1, <1>4, <2>2 DEF Fresh
  <2>3. QED
    BY <1>2, <2>1, <2>2
<1>6. ASSUME NEW r \in asked', NEW t \in asked' PROVE Alone(r, t)'
  <2>1. CASE r \in asked /\ t \in asked
    BY <2>1 DEF ExplorerInv, Alone
  <2>2. CASE r \notin asked /\ t \notin asked
    BY <1>2, <2>2 DEF Alone
  <2>3. CASE r \in asked /\ t \notin asked
    BY <1>2, <2>3 DEF Alone
  <2>4. CASE r \notin asked /\ t \in asked
    BY <1>2, <2>4 DEF Alone
  <2>5. QED
    BY <2>1, <2>2, <2>3, <2>4
<1>7. QED
  BY <1>3, <1>5, <1>6

LEMMA ExplorerInvInit == ExplorerInit => ExplorerInv
<1> SUFFICES ASSUME ExplorerInit PROVE ExplorerInv
  OBVIOUS
<1>1. ExplorerTypeOK /\ Armed
  BY ExplorerTypeInit
<1>2. \A k \in Key : Item(k)
  BY <1>1, BestIs DEF ExplorerInit, Item
<1>3. QED
  BY <1>1, <1>2 DEF ExplorerInit, ExplorerInv

LEMMA ExplorerInvStep ==
    ASSUME QueriesApart, ExplorerInv, [ExplorerNext]_explorerVars
    PROVE  ExplorerInv' /\ \A k \in Key : answered'[k] >= answered[k]
<1> DEFINE Goal == /\ \A k \in Key : Item(k)' /\ answered'[k] >= answered[k]
                   /\ \A r \in asked' : Fresh(r)'
                   /\ \A r, t \in asked' : Alone(r, t)'
<1>1. /\ ExplorerTypeOK /\ Armed /\ Chained /\ \A k \in Key : Item(k)
      /\ ExplorerTypeOK' /\ Armed' /\ Chained' /\ height' >= height
      /\ \A k \in Key : Grows(k)
  BY ExplorerTypeStep, BestGrows, BestIs DEF ExplorerInv, Chained, Grows
<1>2. SUFFICES Goal
  BY <1>1 DEF ExplorerInv, Chained
<1> HIDE DEF Goal
\* Nothing is answered, and nothing is cached.
<1>3. ASSUME asked' \subseteq asked, UNCHANGED answered,
             \A k \in Key : cached'[k] \in {cached[k], -1}
      PROVE  Goal
  <2>1. \A q \in asked' : q.key \in StateKey \cup {LatestKey} =>
          answered'[q.key] = answered[q.key] /\ cached'[q.key] = -1
    BY <1>3, Keys DEF ExplorerInv, Fresh
  <2>2. \A k \in Key : Item(k)' /\ answered'[k] >= answered[k]
    BY <1>1, <1>3, ItemKept
  <2>3. QED
    BY <1>1, <1>3, <2>1, <2>2, FewerQueries DEF Goal
<1>4. CASE UNCHANGED explorerVars \/ StartExplorer \/ StopExplorer \/ \E k \in Key : Expire(k)
  BY <1>1, <1>3, <1>4 DEF explorerVars, cacheVars, StartExplorer, StopExplorer, Expire, ExplorerTypeOK
<1>5. CASE (\E t \in Tx : Submitted(t)) \/ \E ts \in SUBSET pooled : BlockAdded(ts)
  BY <1>3, <1>5 DEF Submitted, BlockAdded, Node, cacheVars
<1>6. ASSUME NEW k \in Key, FromCache(k) PROVE Goal
  <2>1. cached[k] # -1 /\ UNCHANGED <<cached, asked>> /\ answered' = [answered EXCEPT ![k] = cached[k]]
    BY <1>6 DEF FromCache, cacheVars, Answer
  <2>2. ASSUME NEW j \in Key PROVE Item(j)' /\ answered'[j] >= answered[j]
    <3>1. answered'[j] = IF j = k THEN cached[k] ELSE answered[j]
      BY <1>1, <2>1 DEF ExplorerTypeOK
    <3>2. QED
      BY <1>1, <2>1, <3>1, ItemKept
  <2>3. ASSUME NEW q \in asked', q.key \in StateKey \cup {LatestKey}
        PROVE  answered'[q.key] = answered[q.key] /\ cached'[q.key] = -1
    <3>1. cached[q.key] = -1 /\ q.key \in Key
      BY <2>1, <2>3, Keys DEF ExplorerInv, Fresh
    <3>2. QED
      BY <1>1, <2>1, <3>1 DEF ExplorerTypeOK
  <2>4. QED
    BY <1>1, <2>1, <2>2, <2>3, FewerQueries DEF Goal
<1>7. ASSUME NEW k \in BlockKey, AskBlock(k) PROVE Goal
  <2>1. k \in Key /\ k[2] \in -1..MaxHeight /\ k \notin TxKey \cup StateKey \cup {LatestKey}
    BY Keys, ExplorerBounds
  <2>2. QED
    BY <1>1, <1>7, <2>1, Begun DEF AskBlock, Goal
<1>8. ASSUME NEW k \in TxKey, AskTransaction(k) PROVE Goal
  <2>1. k \in Key /\ k[2] \in Tx /\ k \notin BlockKey \cup StateKey \cup {LatestKey} /\ 0 \in -1..MaxHeight
    BY Keys, ExplorerBounds
  <2>2. CASE k[2] \notin pooled
    BY <1>1, <1>8, <2>1, <2>2, Begun DEF AskTransaction, Goal
  <2>3. CASE k[2] \in pooled
    <3>1. Put(k, 1) /\ Answer(k, 1) /\ UNCHANGED <<asked, chainVars>>
      BY <1>8, <2>3 DEF AskTransaction, PendingNow, Asked
    <3>2. Best(k) = 1
      BY <1>1, <2>1, <2>3, BestIs DEF Chained
    <3>3. answered[k] <= 1 /\ answered[k] \in Int /\ 1 <= Best(k)'
      BY <1>1, <2>1, <3>2, ExplorerBounds DEF Item, ExplorerTypeOK, Grows
    <3>4. /\ cached'[k] = 1 /\ answered'[k] = 1
          /\ \A j \in Key \ {k} : cached'[j] = cached[j] /\ answered'[j] = answered[j]
      BY <1>1, <2>1, <3>1 DEF Put, Answer, ExplorerTypeOK
    <3>5. ASSUME NEW j \in Key PROVE Item(j)' /\ answered'[j] >= answered[j]
      <4>1. CASE j = k
        BY <1>1, <3>3, <3>4, <4>1, ItemPut
      <4>2. CASE j # k
        BY <1>1, <3>4, <4>2, ItemKept
      <4>3. QED
        BY <4>1, <4>2
    <3>6. ASSUME NEW q \in asked', q.key \in StateKey \cup {LatestKey}
          PROVE  answered'[q.key] = answered[q.key] /\ cached'[q.key] = -1
      <4>1. q \in asked /\ q.key \in Key /\ q.key # k /\ cached[q.key] = -1
        BY <2>1, <3>1, <3>6, Keys DEF ExplorerInv, Fresh
      <4>2. QED
        BY <3>4, <4>1
    <3>7. QED
      BY <1>1, <3>1, <3>5, <3>6, FewerQueries DEF Goal
  <2>4. QED
    BY <2>2, <2>3
<1>9. ASSUME NEW k \in StateKey \cup {LatestKey}, Asked(k), Waits(k, height), cached[k] = -1,
             NoOther(k), UNCHANGED <<cacheVars, answered>>
      PROVE  Goal
  <2>1. k \in Key /\ height \in -1..MaxHeight /\ k \notin BlockKey \cup TxKey
    BY <1>1, Keys, ExplorerBounds DEF ExplorerTypeOK
  <2>2. \A q \in asked : q.key # k
    BY <1>9 DEF NoOther
  <2>3. QED
    BY <1>1, <1>9, <2>1, <2>2, Begun DEF Goal
<1>10. CASE AskLatest \/ \E k \in StateKey : AskState(k)
  BY <1>9, <1>10 DEF AskLatest, AskState
<1>11. ASSUME NEW q \in asked, BlockRead(q) PROVE Goal
  <2>1. q.key \in BlockKey /\ q.key \in Key /\ q.at = q.key[2] /\ UNCHANGED chainVars
    BY <1>11, Keys DEF BlockRead, ExplorerInv, Fresh
  <2>2. CASE q.at <= height
    <3>1. Put(q.key, NextKnown(q.at)) /\ Answer(q.key, NextKnown(q.at)) /\ asked' = asked \ {q}
      BY <1>11, <2>2 DEF BlockRead
    <3>2. /\ NextKnown(q.at) = Best(q.key) /\ Best(q.key) \in Int
          /\ answered[q.key] <= Best(q.key) /\ Best(q.key)' >= Best(q.key)
          /\ answered[q.key] \in Int /\ Best(q.key)' \in Int
      BY <1>1, <2>1, BestIs, ExplorerBounds DEF Item, Grows, ExplorerTypeOK
    <3>3. NextKnown(q.at) \in Int /\ NextKnown(q.at) >= answered[q.key]
          /\ NextKnown(q.at) <= Best(q.key)'
      BY <3>2
    <3>4. QED
      BY <1>1, <3>1, <3>3, Given DEF Goal
  <2>3. CASE ~(q.at <= height)
    BY <1>3, <1>11, <2>3 DEF BlockRead, cacheVars
  <2>4. QED
    BY <2>2, <2>3
<1>12. ASSUME NEW q \in asked, TransactionRead(q) PROVE Goal
  <2>1. q.key \in TxKey /\ q.key \in Key /\ q.at = 0 /\ UNCHANGED chainVars
    BY <1>12, Keys DEF TransactionRead, ExplorerInv, Fresh
  <2>2. CASE q.key[2] \in mined
    <3>1. Put(q.key, 2) /\ Answer(q.key, 2) /\ asked' = asked \ {q}
      BY <1>12, <2>1, <2>2 DEF TransactionRead
    <3>2. 2 >= answered[q.key] /\ 2 <= Best(q.key)'
      BY <1>1, <2>1, <2>2, BestIs, ExplorerBounds DEF Item, Grows, ExplorerTypeOK
    <3>3. QED
      BY <1>1, <3>1, <3>2, Given DEF Goal
  <2>3. CASE q.key[2] \notin mined
    BY <1>3, <1>12, <2>1, <2>3 DEF TransactionRead, cacheVars
  <2>4. QED
    BY <2>2, <2>3
<1>13. ASSUME NEW q \in asked, NEW v, Put(q.key, v), Answer(q.key, v), asked' = asked \ {q},
              q.key \in StateKey \cup {LatestKey}, v \in Int, v >= answered[q.key], v <= height,
              UNCHANGED chainVars
       PROVE  Goal
  <2>1. q.key \in Key
    BY <1>13, Keys
  <2>2. v <= Best(q.key)'
    <3>1. Best(q.key) = height /\ height \in Int /\ Best(q.key)' \in Int /\ Best(q.key)' >= Best(q.key)
      BY <1>1, <1>13, <2>1, BestIs, ExplorerBounds DEF Grows, ExplorerTypeOK
    <3>2. QED
      BY <1>13, <3>1
  <2>3. QED
    BY <1>1, <1>13, <2>2, Given DEF Goal
<1>14. ASSUME NEW q \in asked, ListDone(q) \/ StateAnswered(q) PROVE Goal
  <2>1. q.top \in Int /\ q.at \in Int
    BY <1>1, Asking, ExplorerBounds
  <2>2. Fresh(q)
    BY DEF ExplorerInv
  <2>3. CASE ListDone(q)
    BY <1>13, <2>1, <2>2, <2>3 DEF ListDone, Fresh
  <2>4. CASE StateAnswered(q)
    BY <1>13, <2>1, <2>2, <2>4 DEF StateAnswered, Fresh
  <2>5. QED
    BY <1>14, <2>3, <2>4
<1>15. ASSUME NEW q \in asked, ListRead(q) PROVE Goal
  <2> DEFINE k == <<"height", q.at>>
             next == [q EXCEPT !.at = IF Last(q) THEN -1 ELSE @ - 1]
  <2>1. /\ q \in Query /\ q.key = LatestKey /\ q.at \in Height /\ asked' = (asked \ {q}) \cup {next}
        /\ UNCHANGED <<chainVars, answered>>
    BY <1>1, <1>15, Asking, ExplorerBounds DEF ListRead
  <2>2. /\ k \in BlockKey /\ k \in Key /\ k \notin StateKey \cup {LatestKey} /\ k[2] = q.at
        /\ next.key = LatestKey /\ next.top = q.top
    BY <2>1, Keys DEF Query
  <2>3. NextKnown(q.at) = Best(k)
    BY <1>1, <2>2, BestIs
  <2> HIDE DEF k, next
  <2>4. \/ UNCHANGED cached
        \/ cached' = [cached EXCEPT ![k] = Best(k)]
    BY <1>15, <2>3 DEF ListRead, Put, cacheVars, k
  <2>5. ASSUME NEW j \in Key PROVE Item(j)' /\ answered'[j] >= answered[j]
    <3>1. CASE cached'[j] = cached[j]
      BY <1>1, <2>1, <3>1, ItemKept
    <3>2. CASE j = k /\ cached'[j] = Best(j)
      <4>1. /\ Best(j) \in Int /\ Best(j)' \in Int /\ Best(j)' >= Best(j)
            /\ answered[j] <= Best(j) /\ answered[j] \in Int
        BY <1>1, ExplorerBounds DEF Grows, Item, ExplorerTypeOK
      <4>2. Best(j) >= answered[j] /\ Best(j) <= Best(j)'
        BY <4>1
      <4>3. QED
        BY <1>1, <2>1, <3>2, <4>1, <4>2, ItemPut
    <3>3. QED
      BY <1>1, <2>4, <3>1, <3>2 DEF ExplorerTypeOK
  <2>6. ASSUME NEW j \in StateKey \cup {LatestKey}
        PROVE  answered'[j] = answered[j] /\ cached'[j] = cached[j]
    BY <1>1, <2>1, <2>2, <2>4, Keys DEF ExplorerTypeOK
  <2>7. UNCHANGED height
    BY <2>1 DEF chainVars
  <2>8. ASSUME NEW r \in asked' PROVE Fresh(r)'
    <3>1. CASE r \in asked
      BY <2>6, <2>7, <3>1 DEF ExplorerInv, Fresh
    <3>2. CASE r = next
      <4>1. r.key = LatestKey /\ r.top = q.top
        BY <2>2, <3>2
      <4>2. q.top >= answered[LatestKey] /\ q.top <= height /\ cached[LatestKey] = -1
        BY <2>1 DEF ExplorerInv, Fresh
      <4>3. LatestKey \notin BlockKey \cup TxKey \cup StateKey
        BY Keys
      <4>4. QED
        BY <2>6, <2>7, <4>1, <4>2, <4>3 DEF Fresh
    <3>3. QED
      BY <2>1, <3>1, <3>2
  <2>9. ASSUME NEW r \in asked', NEW t \in asked' PROVE Alone(r, t)'
    <3>1. \A s \in asked : s # q => s.key # LatestKey
      BY <2>1 DEF ExplorerInv, Alone
    <3>2. \A s \in asked' : s = next \/ (s \in asked /\ s.key # LatestKey)
      BY <2>1, <3>1
    <3>3. CASE r \in asked /\ t \in asked
      BY <3>3 DEF ExplorerInv, Alone
    <3>4. QED
      BY <2>2, <3>2, <3>3 DEF Alone
  <2>10. QED
    BY <2>5, <2>8, <2>9 DEF Goal
<1>16. QED
  BY <1>4, <1>5, <1>6, <1>7, <1>8, <1>10, <1>11, <1>12, <1>14, <1>15 DEF ExplorerNext

\* The explorer: every variable holds a value of its kind; of every item at most
\* one expiry timer is armed, whatever is asked, expires or is cleared.
THEOREM ExplorerTypeCorrect == ExplorerSpec => [](ExplorerTypeOK /\ Armed)
<1>1. ExplorerTypeOK /\ Armed /\ [ExplorerNext]_explorerVars => (ExplorerTypeOK /\ Armed)'
  BY ExplorerTypeStep
<1>2. QED
  BY <1>1, ExplorerTypeInit, PTL DEF ExplorerSpec

\* When no two answers to one question are put together at once, what one answer
\* has shown no later answer to that question takes back, for any chain, any
\* number of queries and any order in which the store answers them.
THEOREM NoAnswerGoesBack == ASSUME QueriesApart PROVE ExplorerSpec => AnswersMoveOn
<1>1. ExplorerInv /\ [ExplorerNext]_explorerVars => ExplorerInv'
  BY ExplorerInvStep
<1>2. ExplorerInv /\ [ExplorerNext]_explorerVars => [\A k \in Key : answered'[k] >= answered[k]]_explorerVars
  BY ExplorerInvStep
<1>3. QED
  BY <1>1, <1>2, ExplorerInvInit, PTL DEF ExplorerSpec, AnswersMoveOn

-----------------------------------------------------------------------------
(* The monitoring service credits what its history shows                   *)

\* How often a validator is in a history
Times(seq, v) == Cardinality({i \in DOMAIN seq : seq[i] = v})

Credits(m) ==
    \A v \in Proposer : Times(m.selectionHistory, v) > 0 =>
        /\ v \in DOMAIN m.proposedBlocks
        /\ m.proposedBlocks[v] >= Times(m.selectionHistory, v)

Metrics ==
    [blockCount : Nat, height : Nat, lastBlock : Nat, epoch : Nat,
     selectionHistory : {s \in Seq(Proposer) : Len(s) <= HistorySize},
     proposedBlocks : UNION {[P -> Nat] : P \in SUBSET Proposer},
     peerCount : Nat, pending : Nat]

Credited == {m \in Metrics : Credits(m)}

Samples == 0..SamplesKept

Thing == {"metrics", "histograms", "blockTimes", "alerts"}

MonitorInv ==
    /\ metrics \in Credited
    /\ blockTimes \in Samples /\ samples \in Samples
    /\ alerts \in SUBSET {"low"} /\ lowPeers \in LowPeers
    /\ running \in BOOLEAN /\ timers \in BOOLEAN /\ listeners \in Nat
    /\ saved \in [metrics : SUBSET Credited, histograms : SUBSET Samples,
                  blockTimes : SUBSET Samples, alerts : SUBSET SUBSET {"low"}]
    /\ \/ loading = NoLoad
       \/ loading \in [key : {"metrics"}, got : SUBSET Credited]
       \/ loading \in [key : {"histograms", "blockTimes"}, got : SUBSET Samples]
       \/ loading \in [key : {"alerts"}, got : SUBSET SUBSET {"low"}]
    /\ saving \in [{"timer", "stop"} -> Thing \cup {"idle"}]
    /\ collecting.height \in Nat
    /\ stored \in Nat /\ outside \in [peers : Nat, pending : Nat]

LEMMA Least ==
    ASSUME NEW T, T \subseteq Nat, T # {}
    PROVE  \E n \in T : \A k \in T : n <= k
<1> DEFINE R == {ss \in Nat \X Nat : ss[1] < ss[2]}
<1>1. IsWellFoundedOn(R, Nat)
  BY NatLessThanWellFounded DEF OpToRel
<1> HIDE DEF R
<1>2. PICK n \in T : \A k \in T : ~(<<k, n>> \in R)
  BY <1>1, WFMin
<1>3. \A k \in T : ~(k < n)
  BY <1>2 DEF R
<1>4. QED
  BY <1>2, <1>3

LEMMA HandledByIs ==
    ASSUME NEW calls \in Nat, NEW m, NEW h, NEW v, NEW S, m \in S,
           \A p \in S : Handled(p, h, v) \in S
    PROVE  HandledBy(calls, m, h, v) \in S
<1> DEFINE Eq(g, n) == g = [i \in 0..n |-> IF i = 0 THEN m ELSE Handled(g[i - 1], h, v)]
           After == CHOOSE g : Eq(g, calls)
           T == {n \in 0..calls : ~\E g : Eq(g, n)}
           U == {n \in 0..calls : After[n] \notin S}
<1>1. HandledBy(calls, m, h, v) = After[calls]
  BY DEF HandledBy
<1>2. T = {}
  <2> SUFFICES ASSUME T # {} PROVE FALSE
    OBVIOUS
  <2>0. T \subseteq Nat
    OBVIOUS
  <2>1. PICK n \in T : \A k \in T : n <= k
    <3> HIDE DEF T
    <3>1. QED
      BY <2>0, Least
  <2>2. n # 0
    <3>1. Eq([i \in 0..0 |-> m], 0)
      OBVIOUS
    <3>2. QED
      BY <2>1, <3>1
  <2>3. n - 1 \in 0..calls /\ n - 1 \notin T
    BY <2>1, <2>2
  <2>4. PICK g : Eq(g, n - 1)
    BY <2>3
  <2> DEFINE f == [i \in 0..n |-> IF i = n THEN Handled(g[n - 1], h, v) ELSE g[i]]
             F == [i \in 0..n |-> IF i = 0 THEN m ELSE Handled(f[i - 1], h, v)]
  <2>5. Eq(f, n)
    <3>0. n \in Nat
      BY <2>0
    <3>1. ASSUME NEW i \in 0..n PROVE f[i] = F[i]
      <4>1. CASE i = n
        <5>1. n - 1 \in 0..n /\ n - 1 # n /\ n # 0
          BY <3>0, <2>2
        <5> QED BY <4>1, <5>1
      <4>2. CASE i # n
        <5>1. i \in 0..(n - 1) /\ (i # 0 => i - 1 \in 0..n /\ i - 1 # n)
          BY <3>0, <4>2
        <5>2. g[i] = IF i = 0 THEN m ELSE Handled(g[i - 1], h, v)
          BY <2>4, <5>1
        <5> QED BY <4>2, <5>1, <5>2
      <4> QED BY <4>1, <4>2
    <3>2. f = F
      <4> HIDE DEF F
      <4>1. F = [i \in 0..n |-> F[i]]
        BY DEF F
      <4> QED BY <3>1, <4>1
    <3> QED BY <3>2
  <2> HIDE DEF f, F
  <2>6. QED
    BY <2>1, <2>5
<1>3. Eq(After, calls)
  <2>1. calls \in 0..calls /\ calls \notin T
    <3> HIDE DEF T
    <3> QED BY <1>2
  <2> HIDE DEF Eq
  <2>2. \E g : Eq(g, calls)
    BY <2>1
  <2>3. QED
    BY <2>2, Zenon
<1>4. U = {}
  <2> SUFFICES ASSUME U # {} PROVE FALSE
    OBVIOUS
  <2>0. U \subseteq Nat
    OBVIOUS
  <2>1. PICK n \in U : \A k \in U : n <= k
    <3> HIDE DEF U
    <3>1. QED
      BY <2>0, Least
  <2>2. CASE n = 0
    BY <1>3, <2>1, <2>2
  <2>3. CASE n # 0
    <3>1. n - 1 \in 0..calls /\ n - 1 \notin U
      BY <2>1, <2>3
    <3>2. After[n] = Handled(After[n - 1], h, v)
      BY <1>3, <2>1, <2>3
    <3>3. QED
      BY <2>1, <3>1, <3>2
  <2>4. QED
    BY <2>2, <2>3
<1>5. QED
  BY <1>1, <1>4

LEMMA TimesFinite ==
    ASSUME NEW S, NEW seq \in Seq(S), NEW v
    PROVE  /\ IsFiniteSet({i \in DOMAIN seq : seq[i] = v})
           /\ Times(seq, v) \in Nat
<1>1. DOMAIN seq = 1..Len(seq) /\ Len(seq) \in Nat
  OBVIOUS
<1>2. IsFiniteSet(1..Len(seq))
  BY <1>1, FS_Interval
<1>3. {i \in DOMAIN seq : seq[i] = v} \in SUBSET (1..Len(seq))
  BY <1>1
<1>4. IsFiniteSet({i \in DOMAIN seq : seq[i] = v})
  BY <1>2, <1>3, FS_Subset
<1>5. QED
  BY <1>4, FS_CardinalityType DEF Times

\* Append counts one more.
LEMMA TimesAppend ==
    ASSUME NEW S, NEW seq \in Seq(S), NEW v \in S, NEW u
    PROVE  Times(Append(seq, v), u) = Times(seq, u) + IF u = v THEN 1 ELSE 0
<1> DEFINE n == Len(seq)
           Places(s) == {i \in DOMAIN s : s[i] = u}
<1>1. /\ n \in Nat /\ DOMAIN seq = 1..n /\ DOMAIN Append(seq, v) = 1..(n + 1)
      /\ \A i \in 1..n : Append(seq, v)[i] = seq[i]
      /\ Append(seq, v)[n + 1] = v
  OBVIOUS
<1>2. IsFiniteSet(Places(seq)) /\ n + 1 \notin Places(seq) /\ Times(seq, u) = Cardinality(Places(seq))
  <2>1. IsFiniteSet(Places(seq))
    BY TimesFinite
  <2>2. n + 1 \notin Places(seq)
    BY <1>1
  <2>3. QED
    BY <2>1, <2>2 DEF Times
<1>3. Times(Append(seq, v), u) = Cardinality(Places(Append(seq, v)))
  BY DEF Times
<1>4. Times(seq, u) \in Nat
  BY TimesFinite
<1>5. CASE u = v
  <2>1. Places(Append(seq, v)) = Places(seq) \cup {n + 1}
    BY <1>1, <1>5
  <2> HIDE DEF Places, n
  <2>2. QED
    BY <1>2, <1>3, <1>5, <2>1, FS_AddElement
<1>6. CASE u # v
  <2>1. Places(Append(seq, v)) = Places(seq)
    BY <1>1, <1>6
  <2> HIDE DEF Places, n
  <2>2. QED
    BY <1>2, <1>3, <1>4, <1>6, <2>1
<1>7. QED
  BY <1>5, <1>6

\* Tail counts none more.
LEMMA TimesTail ==
    ASSUME NEW S, NEW seq \in Seq(S), seq # <<>>, NEW u
    PROVE  Times(Tail(seq), u) <= Times(seq, u)
<1> DEFINE n == Len(seq)
           Places(s) == {i \in DOMAIN s : s[i] = u}
           f == [i \in Places(Tail(seq)) |-> i + 1]
<1>1. /\ n \in Nat /\ n > 0 /\ DOMAIN seq = 1..n /\ DOMAIN Tail(seq) = 1..(n - 1)
      /\ \A i \in 1..(n - 1) : Tail(seq)[i] = seq[i + 1]
  OBVIOUS
<1>2. IsFiniteSet(Places(seq)) /\ Times(seq, u) = Cardinality(Places(seq))
      /\ Times(Tail(seq), u) = Cardinality(Places(Tail(seq)))
  BY TimesFinite DEF Times
<1>3. f \in Injection(Places(Tail(seq)), Places(seq))
  <2>1. \A i \in Places(Tail(seq)) : i \in Nat /\ i + 1 \in Places(seq)
    BY <1>1
  <2>2. f \in [Places(Tail(seq)) -> Places(seq)]
    BY <2>1
  <2>3. \A i, j \in Places(Tail(seq)) : f[i] = f[j] => i = j
    BY <2>1
  <2> HIDE DEF f, Places
  <2>4. QED
    BY <2>2, <2>3 DEF Injection, IsInjective
<1> HIDE DEF f, Places
<1>4. QED
  BY <1>2, <1>3, FS_Injection

LEMMA TimesKeep ==
    ASSUME NEW S, NEW seq \in Seq(S), NEW n \in Nat, NEW u
    PROVE  Times(Keep(seq, n), u) <= Times(seq, u) /\ Keep(seq, n) \in Seq(S)
<1>1. Times(seq, u) \in Nat
  BY TimesFinite
<1>2. CASE Len(seq) > n
  <2>1. seq # <<>> /\ Tail(seq) \in Seq(S)
    BY <1>2
  <2>2. QED
    BY <1>2, <2>1, TimesTail DEF Keep
<1>3. CASE ~(Len(seq) > n)
  BY <1>1, <1>3 DEF Keep
<1>4. QED
  BY <1>2, <1>3

\* One call of handleNewBlock credits the validator it puts into the history.
LEMMA HandledCredits ==
    ASSUME NEW m \in Credited, NEW h \in Nat, NEW v \in Proposer
    PROVE  Handled(m, h, v) \in Credited
<1> DEFINE history == m.selectionHistory
           counted == DOMAIN m.proposedBlocks
           history2 == Keep(Append(history, v), HistorySize)
           credit == [u \in counted \cup {v} |->
                        (IF u \in counted THEN m.proposedBlocks[u] ELSE 0) + (IF u = v THEN 1 ELSE 0)]
           m2 == Handled(m, h, v)
<1>1. /\ m \in Metrics /\ history \in Seq(Proposer) /\ Len(history) <= HistorySize /\ Credits(m)
      /\ m.blockCount \in Nat
  BY DEF Credited, Metrics
<1>2. PICK P \in SUBSET Proposer : m.proposedBlocks \in [P -> Nat]
  BY <1>1 DEF Metrics
<1>3. HistorySize \in Nat \ {0} /\ HalvingEvery \in Nat \ {0}
  BY MonitoringAssumption
<1>4. h \div HalvingEvery \in Nat
  BY <1>3
<1>5. /\ history2 \in Seq(Proposer) /\ Len(history2) <= HistorySize
  <2>1. Append(history, v) \in Seq(Proposer) /\ Len(Append(history, v)) = Len(history) + 1
        /\ Len(history) \in Nat
    BY <1>1
  <2>2. CASE Len(Append(history, v)) > HistorySize
    BY <1>1, <1>3, <2>1, <2>2 DEF Keep
  <2>3. CASE ~(Len(Append(history, v)) > HistorySize)
    BY <1>1, <1>3, <2>1, <2>3 DEF Keep
  <2>4. QED
    BY <2>2, <2>3
<1>6. credit \in [P \cup {v} -> Nat] /\ P \cup {v} \in SUBSET Proposer /\ counted = P
  BY <1>2
<1>7. /\ m2 = [m EXCEPT !.height = h, !.lastBlock = h, !.blockCount = @ + 1,
                        !.epoch = h \div HalvingEvery, !.selectionHistory = history2,
                        !.proposedBlocks = credit]
  BY <1>1 DEF Handled, Selected, Metrics
<1> HIDE DEF history2, credit, m2
<1>8. m2 \in Metrics /\ m2.selectionHistory = history2 /\ m2.proposedBlocks = credit
  <2>1. credit \in UNION {[Q -> Nat] : Q \in SUBSET Proposer}
    BY <1>6
  <2>2. history2 \in {s \in Seq(Proposer) : Len(s) <= HistorySize}
    BY <1>5
  <2> DEFINE H == {s \in Seq(Proposer) : Len(s) <= HistorySize}
             B == UNION {[Q -> Nat] : Q \in SUBSET Proposer}
             R == [blockCount : Nat, height : Nat, lastBlock : Nat, epoch : Nat,
                   selectionHistory : H, proposedBlocks : B, peerCount : Nat, pending : Nat]
  <2>3. m \in R /\ R = Metrics /\ history2 \in H /\ credit \in B
    BY <1>1, <2>1, <2>2 DEF Metrics
  <2> HIDE DEF H, B
  <2>4. m.blockCount + 1 \in Nat
    BY <1>1
  <2>5. m2 \in R /\ m2.selectionHistory = history2 /\ m2.proposedBlocks = credit
    BY <1>4, <1>7, <2>3, <2>4
  <2>6. QED
    BY <2>3, <2>5
<1>9. ASSUME NEW u \in Proposer, Times(history2, u) > 0
      PROVE  u \in DOMAIN credit /\ credit[u] >= Times(history2, u)
  <2>1. Times(history2, u) <= Times(Append(history, v), u)
    <3>1. Append(history, v) \in Seq(Proposer)
      BY <1>1
    <3>2. QED
      BY <1>3, <3>1, TimesKeep DEF history2
  <2>2. Times(Append(history, v), u) = Times(history, u) + IF u = v THEN 1 ELSE 0
    BY <1>1, TimesAppend
  <2>3. Times(history, u) \in Nat /\ Times(history2, u) \in Nat
    BY <1>1, <1>5, TimesFinite
  <2>4. Times(history, u) > 0 => u \in counted /\ m.proposedBlocks[u] >= Times(history, u)
    BY <1>1 DEF Credits
  <2>5. u = v \/ Times(history, u) > 0
    BY <1>9, <2>1, <2>2, <2>3
  <2>6. u \in P \cup {v} /\ u \in DOMAIN credit
    BY <1>6, <2>4, <2>5
  <2>7. credit[u] = (IF u \in P THEN m.proposedBlocks[u] ELSE 0) + (IF u = v THEN 1 ELSE 0)
    BY <1>6, <2>6 DEF credit
  <2>8. u \in P => m.proposedBlocks[u] \in Nat
    BY <1>2
  <2>9. CASE u \in P
    <3>1. m.proposedBlocks[u] >= Times(history, u)
      BY <1>6, <2>3, <2>4, <2>8, <2>9
    <3>2. QED
      BY <2>1, <2>2, <2>3, <2>6, <2>7, <2>8, <2>9, <3>1
  <2>10. CASE u \notin P
    <3>1. Times(history, u) = 0
      BY <1>6, <2>3, <2>4, <2>10
    <3>2. QED
      BY <2>1, <2>2, <2>3, <2>5, <2>6, <2>7, <2>10, <3>1
  <2>11. QED
    BY <2>9, <2>10
<1>10. Credits(m2)
  BY <1>8, <1>9 DEF Credits
<1>11. QED
  BY <1>8, <1>10 DEF Credited, m2

\* The gauges are no part of what is credited.
LEMMA GaugesCredited ==
    ASSUME NEW m \in Credited, NEW m2 \in Metrics, m2.selectionHistory = m.selectionHistory,
           m2.proposedBlocks = m.proposedBlocks
    PROVE  m2 \in Credited
BY DEF Credited, Credits

LEMMA GaugeCredited ==
    ASSUME NEW m \in Credited, NEW n \in Nat, NEW m2,
           \/ m2 = [m EXCEPT !.peerCount = n]
           \/ m2 = [m EXCEPT !.pending = n]
           \/ m2 = [m EXCEPT !.height = n]
    PROVE  m2 \in Credited
<1> DEFINE H == {s \in Seq(Proposer) : Len(s) <= HistorySize}
           B == UNION {[Q -> Nat] : Q \in SUBSET Proposer}
           R == [blockCount : Nat, height : Nat, lastBlock : Nat, epoch : Nat,
                 selectionHistory : H, proposedBlocks : B, peerCount : Nat, pending : Nat]
<1>1. m \in R /\ R = Metrics
  BY DEF Credited, Metrics
<1> HIDE DEF H, B
<1>2. m2 \in R /\ m2.selectionHistory = m.selectionHistory /\ m2.proposedBlocks = m.proposedBlocks
  BY <1>1
<1> HIDE DEF R
<1>3. QED
  BY <1>1, <1>2, GaugesCredited

\* What was loaded brings its counts with its history.
LEMMA MergedCredited ==
    ASSUME NEW m \in Credited, NEW loaded \in Credited
    PROVE  Merged(m, loaded) \in Credited
<1> DEFINE H == {s \in Seq(Proposer) : Len(s) <= HistorySize}
           B == UNION {[Q -> Nat] : Q \in SUBSET Proposer}
           R == [blockCount : Nat, height : Nat, lastBlock : Nat, epoch : Nat,
                 selectionHistory : H, proposedBlocks : B, peerCount : Nat, pending : Nat]
           kept == DOMAIN m.proposedBlocks
           other == DOMAIN loaded.proposedBlocks
           credit == [v \in kept \cup other |->
                        IF v \in other THEN loaded.proposedBlocks[v] ELSE m.proposedBlocks[v]]
           m2 == [loaded EXCEPT !.proposedBlocks = credit]
<1>1. m \in R /\ loaded \in R /\ Credits(loaded) /\ R = Metrics
  BY DEF Credited, Metrics
<1>2. PICK P \in SUBSET Proposer : m.proposedBlocks \in [P -> Nat]
  BY <1>1
<1>3. PICK Q \in SUBSET Proposer : loaded.proposedBlocks \in [Q -> Nat]
  BY <1>1
<1>4. credit \in [P \cup Q -> Nat] /\ P \cup Q \in SUBSET Proposer /\ kept = P /\ other = Q
  BY <1>2, <1>3
<1>5. credit \in B /\ \A v \in other : v \in DOMAIN credit /\ credit[v] = loaded.proposedBlocks[v]
  BY <1>3, <1>4
<1>6. Merged(m, loaded) = m2
  BY <1>1 DEF Merged
<1> HIDE DEF credit, H, B
<1>7. /\ m2 \in R /\ m2.selectionHistory = loaded.selectionHistory /\ m2.proposedBlocks = credit
  BY <1>1, <1>5
<1> HIDE DEF m2, R
<1>8. Credits(m2)
  BY <1>1, <1>5, <1>7 DEF Credits
<1>9. QED
  BY <1>1, <1>6, <1>7, <1>8 DEF Credited

LEMMA EmptyCredited == EmptyMetrics \in Credited
<1>1. <<>> \in {s \in Seq(Proposer) : Len(s) <= HistorySize}
  BY MonitoringAssumption
<1>2. [v \in {} |-> 0] \in [{} -> Nat] /\ {} \in SUBSET Proposer
  OBVIOUS
<1>3. [v \in {} |-> 0] \in UNION {[Q -> Nat] : Q \in SUBSET Proposer}
  BY <1>2
<1>4. EmptyMetrics \in Metrics
  BY <1>1, <1>3 DEF EmptyMetrics, Metrics
<1>5. \A v : Times(<<>>, v) = 0
  <2>1. \A v : {i \in DOMAIN <<>> : <<>>[i] = v} = {}
    OBVIOUS
  <2>2. QED
    BY <2>1, FS_EmptySet DEF Times
<1>6. Credits(EmptyMetrics)
  BY <1>5 DEF Credits, EmptyMetrics
<1>7. QED
  BY <1>4, <1>6 DEF Credited

LEMMA MonitorInit == MonitoringInit => MonitorInv
<1> SUFFICES ASSUME MonitoringInit PROVE MonitorInv
  OBVIOUS
<1>1. metrics \in Credited
  BY EmptyCredited DEF MonitoringInit
<1>2. /\ lowPeers \in LowPeers /\ blockTimes \in Samples /\ samples \in Samples
  BY MonitoringAssumption DEF MonitoringInit, Samples
<1>3. /\ saved \in [metrics : SUBSET Credited, histograms : SUBSET Samples,
                    blockTimes : SUBSET Samples, alerts : SUBSET SUBSET {"low"}]
      /\ outside \in [peers : Nat, pending : Nat]
      /\ saving \in [{"timer", "stop"} -> Thing \cup {"idle"}]
  BY DEF MonitoringInit, Unset, NotSaving
<1>4. QED
  BY <1>1, <1>2, <1>3 DEF MonitoringInit, MonitorInv, NotCollecting

\* One write, of what is in memory
LEMMA PersistKeeps ==
    ASSUME MonitorInv, NEW key \in Thing
    PROVE  /\ [saved EXCEPT ![key] = InMemory[key]] \in
                  [metrics : SUBSET Credited, histograms : SUBSET Samples,
                   blockTimes : SUBSET Samples, alerts : SUBSET SUBSET {"low"}]
           /\ NextKey(key) \in Thing \cup {"idle"}
<1>1. /\ saved \in [metrics : SUBSET Credited, histograms : SUBSET Samples,
                    blockTimes : SUBSET Samples, alerts : SUBSET SUBSET {"low"}]
      /\ {metrics} \subseteq Credited /\ {samples} \subseteq Samples
      /\ {blockTimes} \subseteq Samples /\ {alerts} \subseteq SUBSET {"low"}
  BY DEF MonitorInv
<1>2. NextKey(key) \in Thing \cup {"idle"}
  BY DEF NextKey, Thing
<1>3. CASE key = "metrics"
  BY <1>1, <1>2, <1>3 DEF InMemory
<1>4. CASE key = "histograms"
  BY <1>1, <1>2, <1>4 DEF InMemory
<1>5. CASE key = "blockTimes"
  BY <1>1, <1>2, <1>5 DEF InMemory
<1>6. CASE key = "alerts"
  BY <1>1, <1>2, <1>6 DEF InMemory
<1>7. QED
  BY <1>3, <1>4, <1>5, <1>6 DEF Thing

\* The request for a key
LEMMA Requested ==
    ASSUME MonitorInv, NEW key \in Thing
    PROVE  LET l == [key |-> key, got |-> saved[key]] IN
           \/ l \in [key : {"metrics"}, got : SUBSET Credited]
           \/ l \in [key : {"histograms", "blockTimes"}, got : SUBSET Samples]
           \/ l \in [key : {"alerts"}, got : SUBSET SUBSET {"low"}]
<1>1. saved \in [metrics : SUBSET Credited, histograms : SUBSET Samples,
                 blockTimes : SUBSET Samples, alerts : SUBSET SUBSET {"low"}]
  BY DEF MonitorInv
<1>2. CASE key = "metrics"
  BY <1>1, <1>2
<1>3. CASE key = "histograms"
  BY <1>1, <1>3
<1>4. CASE key = "blockTimes"
  BY <1>1, <1>4
<1>5. CASE key = "alerts"
  BY <1>1, <1>5
<1>6. QED
  BY <1>2, <1>3, <1>4, <1>5 DEF Thing

LEMMA LoadKeeps == ASSUME MonitorInv, Load PROVE MonitorInv'
<1> DEFINE key == loading.key
           got(k, now) == IF key = k /\ loading.got # Unset THEN Held(loading.got) ELSE now
<1>1. PICK ok \in BOOLEAN :
        /\ metrics' = IF ok /\ key = "metrics" /\ loading.got # Unset
                      THEN Merged(metrics, Held(loading.got)) ELSE metrics
        /\ samples' = IF ok THEN got("histograms", samples) ELSE samples
        /\ blockTimes' = IF ok THEN got("blockTimes", blockTimes) ELSE blockTimes
        /\ alerts' = IF ok THEN got("alerts", alerts) ELSE alerts
        /\ LET next == IF ok THEN NextKey(key) ELSE "idle" IN
            IF next = "idle"
            THEN /\ loading' = NoLoad
                 /\ running' = TRUE /\ timers' = TRUE
                 /\ listeners' = listeners + 1
            ELSE /\ loading' = [key |-> next, got |-> saved[next]]
                 /\ UNCHANGED <<running, timers, listeners>>
  BY DEF Load
<1>2. /\ key # "idle" /\ UNCHANGED <<lowPeers, saving, collecting, saved, stored, outside>>
  BY DEF Load, world
<1>3. loading.got # Unset => Held(loading.got) \in loading.got
  BY Zenon DEF Held, Unset
<1>4. /\ key \in Thing
      /\ key = "metrics" => loading.got \subseteq Credited
      /\ key \in {"histograms", "blockTimes"} => loading.got \subseteq Samples
      /\ key = "alerts" => loading.got \subseteq SUBSET {"low"}
  BY <1>2 DEF MonitorInv, NoLoad, Thing
<1>5. metrics' \in Credited
  BY <1>1, <1>3, <1>4, MergedCredited DEF MonitorInv
<1>6. samples' \in Samples /\ blockTimes' \in Samples
  BY <1>1, <1>3, <1>4 DEF MonitorInv
<1>7. alerts' \in SUBSET {"low"}
  BY <1>1, <1>3, <1>4 DEF MonitorInv
<1>8. running' \in BOOLEAN /\ timers' \in BOOLEAN /\ listeners' \in Nat
  <2>1. \/ running' = TRUE /\ timers' = TRUE /\ listeners' = listeners + 1
        \/ running' = running /\ timers' = timers /\ listeners' = listeners
    BY <1>1, Zenon
  <2>2. running \in BOOLEAN /\ timers \in BOOLEAN /\ listeners \in Nat
    BY DEF MonitorInv
  <2>3. running' \in BOOLEAN /\ timers' \in BOOLEAN
    BY <2>1, <2>2, Zenon
  <2>4. listeners' \in Nat
    BY <2>1, <2>2
  <2>5. QED
    BY <2>3, <2>4
<1>9. \/ loading' = NoLoad
      \/ loading' \in [key : {"metrics"}, got : SUBSET Credited]
      \/ loading' \in [key : {"histograms", "blockTimes"}, got : SUBSET Samples]
      \/ loading' \in [key : {"alerts"}, got : SUBSET SUBSET {"low"}]
  <2> DEFINE next == IF ok THEN NextKey(key) ELSE "idle"
  <2>1. next \in Thing \cup {"idle"}
    BY <1>4, PersistKeeps
  <2>2. IF next = "idle" THEN loading' = NoLoad
                         ELSE loading' = [key |-> next, got |-> saved[next]]
    BY <1>1
  <2> HIDE DEF next
  <2>3. QED
    BY <2>1, <2>2, Requested
<1>10. QED
  BY <1>2, <1>5, <1>6, <1>7, <1>8, <1>9 DEF MonitorInv

LEMMA NewBlockKeeps == ASSUME MonitorInv, NewBlock PROVE MonitorInv'
<1> DEFINE n == IF running THEN listeners ELSE 0
<1>1. PICK v \in Proposer :
        /\ metrics' = HandledBy(n, metrics, stored', v)
        /\ blockTimes' = IF n = 0 THEN blockTimes
                         ELSE AtMost(blockTimes + n - (IF seen THEN 0 ELSE 1), SamplesKept)
  BY DEF NewBlock
<1>2. /\ stored' = stored + 1
      /\ UNCHANGED <<samples, alerts, lowPeers, running, timers, listeners, loading, saving,
                     collecting, saved, outside>>
  BY DEF NewBlock, service
<1>3. n \in Nat /\ stored' \in Nat /\ metrics \in Credited /\ blockTimes \in Samples
  BY <1>2 DEF MonitorInv
<1> HIDE DEF n
<1>4. metrics' \in Credited
  BY <1>1, <1>3, HandledByIs, HandledCredits
<1>5. blockTimes' \in Samples
  BY <1>1, <1>3, MonitoringAssumption DEF Samples, AtMost
<1>6. QED
  BY <1>2, <1>3, <1>4, <1>5 DEF MonitorInv

LEMMA MonitorStep == MonitorInv /\ [MonitoringNext]_monitorVars => MonitorInv'
<1> SUFFICES ASSUME MonitorInv, [MonitoringNext]_monitorVars PROVE MonitorInv'
  OBVIOUS
<1> USE DEF counts, service, world, budget
<1>0. metrics \in Credited /\ metrics \in Metrics /\ outside \in [peers : Nat, pending : Nat]
  BY DEF MonitorInv, Credited
<1>1. CASE NewBlock
  BY <1>1, NewBlockKeeps
<1>2. CASE PeersChange
  <2>1. PICK n \in {0, 1} :
          /\ outside' = [outside EXCEPT !.peers = n]
          /\ metrics' = metrics \/ metrics' = [metrics EXCEPT !.peerCount = n]
    BY <1>2, Zenon DEF PeersChange
  <2>2. metrics' \in Credited /\ outside' \in [peers : Nat, pending : Nat]
    BY <1>0, <2>1, GaugeCredited
  <2>3. QED
    BY <1>2, <2>2 DEF PeersChange, MonitorInv
<1>3. CASE PoolChanges
  <2>1. PICK n \in {0, 1} :
          /\ outside' = [outside EXCEPT !.pending = n]
          /\ metrics' = metrics \/ metrics' = [metrics EXCEPT !.pending = n]
    BY <1>3, Zenon DEF PoolChanges
  <2>2. metrics' \in Credited /\ outside' \in [peers : Nat, pending : Nat]
    BY <1>0, <2>1, GaugeCredited
  <2>3. QED
    BY <1>3, <2>2 DEF PoolChanges, MonitorInv
<1>4. CASE CheckAlerts
  BY <1>4 DEF CheckAlerts, LevelsFor, MonitorInv
<1>5. CASE RecordPeerCount
  <2>1. PICK n \in {0, 1} :
          /\ metrics' = [metrics EXCEPT !.peerCount = n]
          /\ alerts' = IF running THEN LevelsFor(n) ELSE alerts
    BY <1>5 DEF RecordPeerCount
  <2>2. metrics' \in Credited /\ alerts' \in SUBSET {"low"}
    <3>1. metrics' \in Credited
      BY <1>0, <2>1, GaugeCredited
    <3>2. alerts' \in SUBSET {"low"}
      BY <2>1 DEF LevelsFor, MonitorInv
    <3>3. QED
      BY <3>1, <3>2
  <2>3. QED
    BY <1>5, <2>2 DEF RecordPeerCount, MonitorInv
<1>6. CASE RecordSample
  <2>1. samples' \in Samples
    BY <1>6, MonitoringAssumption DEF RecordSample, AtMost, Samples, MonitorInv
  <2>2. QED
    BY <1>6, <2>1 DEF RecordSample, MonitorInv
<1>7. CASE SetAlertThresholds
  BY <1>7 DEF SetAlertThresholds, MonitorInv
<1>8. CASE ClearAlerts
  BY <1>8 DEF ClearAlerts, MonitorInv
<1>9. CASE Collect
  <2>1. collecting'.height \in Nat
    BY <1>9 DEF Collect, MonitorInv
  <2>2. QED
    BY <1>9, <2>1 DEF Collect, MonitorInv
<1>10. CASE CollectHeight
  <2>1. metrics' \in Credited
    <3>1. metrics' = [metrics EXCEPT !.height = collecting.height] /\ collecting.height \in Nat
      BY <1>10 DEF CollectHeight, MonitorInv
    <3>2. QED
      BY <1>0, <3>1, GaugeCredited
  <2>2. collecting'.height \in Nat
    <3>1. collecting' = [collecting EXCEPT !.at = "block"]
      BY <1>10 DEF CollectHeight
    <3>2. collecting'.height = collecting.height
      BY <3>1
    <3>3. QED
      BY <3>2 DEF MonitorInv
  <2>3. QED
    BY <1>10, <2>1, <2>2 DEF CollectHeight, MonitorInv
<1>11. CASE CollectRest
  <2> DEFINE h == IF collecting.height = 0 THEN metrics.lastBlock ELSE collecting.height
  <2>1. metrics' = [metrics EXCEPT !.lastBlock = h, !.pending = outside.pending,
                                   !.peerCount = outside.peers]
    BY <1>0, <1>11 DEF CollectRest, Metrics
  <2>2. h \in Nat /\ outside.pending \in Nat /\ outside.peers \in Nat
    BY <1>0 DEF Metrics, MonitorInv
  <2> HIDE DEF h
  <2>3. metrics' \in Credited
    <3> DEFINE H == {s \in Seq(Proposer) : Len(s) <= HistorySize}
               B == UNION {[Q -> Nat] : Q \in SUBSET Proposer}
               R == [blockCount : Nat, height : Nat, lastBlock : Nat, epoch : Nat,
                     selectionHistory : H, proposedBlocks : B, peerCount : Nat, pending : Nat]
    <3>1. metrics \in R /\ R = Metrics
      BY <1>0 DEF Metrics
    <3> HIDE DEF H, B
    <3>2. /\ metrics' \in R /\ metrics'.selectionHistory = metrics.selectionHistory
          /\ metrics'.proposedBlocks = metrics.proposedBlocks
      BY <2>1, <2>2, <3>1
    <3> HIDE DEF R
    <3>3. QED
      BY <1>0, <3>1, <3>2, GaugesCredited
  <2>4. collecting'.height \in Nat
    BY <1>11 DEF CollectRest, NotCollecting
  <2>5. QED
    BY <1>11, <2>3, <2>4 DEF CollectRest, MonitorInv
<1>12. CASE PersistTimer
  <2>1. saving' \in [{"timer", "stop"} -> Thing \cup {"idle"}]
    BY <1>12 DEF PersistTimer, MonitorInv, Thing
  <2>2. QED
    BY <1>12, <2>1 DEF PersistTimer, MonitorInv
<1>13. CASE \E by \in {"timer", "stop"} : Persist(by)
  <2>1. PICK by \in {"timer", "stop"} : Persist(by)
    BY <1>13
  <2>2. PICK ok \in BOOLEAN :
          /\ saved' = IF ok THEN [saved EXCEPT ![saving[by]] = InMemory[saving[by]]] ELSE saved
          /\ saving' = [saving EXCEPT ![by] = IF ok THEN NextKey(@) ELSE "idle"]
    BY <2>1 DEF Persist
  <2>3. saving[by] \in Thing
    BY <2>1 DEF Persist, MonitorInv
  <2>4. saved' \in [metrics : SUBSET Credited, histograms : SUBSET Samples,
                    blockTimes : SUBSET Samples, alerts : SUBSET SUBSET {"low"}]
    <3>1. CASE ok
      BY <2>2, <2>3, <3>1, PersistKeeps
    <3>2. CASE ~ok
      BY <2>2, <3>2 DEF MonitorInv
    <3>3. QED
      BY <3>1, <3>2
  <2>5. saving' \in [{"timer", "stop"} -> Thing \cup {"idle"}]
    <3>1. NextKey(saving[by]) \in Thing \cup {"idle"} /\ "idle" \in Thing \cup {"idle"}
      BY <2>3, PersistKeeps
    <3>2. saving \in [{"timer", "stop"} -> Thing \cup {"idle"}]
      BY DEF MonitorInv
    <3>3. QED
      BY <2>2, <3>1, <3>2
  <2>6. running' \in BOOLEAN
    <3>1. running' = (running /\ ~(by = "stop" /\ saving'[by] = "idle"))
      BY <2>1 DEF Persist
    <3>2. QED
      BY <3>1, Zenon DEF MonitorInv
  <2>7. QED
    BY <2>1, <2>4, <2>5, <2>6 DEF Persist, MonitorInv
<1>14. CASE Start
  <2>1. CASE /\ loading' = [key |-> "metrics", got |-> saved.metrics]
             /\ UNCHANGED <<running, timers, listeners>>
    <3>1. loading' \in [key : {"metrics"}, got : SUBSET Credited]
      BY <2>1 DEF MonitorInv
    <3>2. QED
      BY <1>14, <2>1, <3>1 DEF Start, MonitorInv
  <2>2. CASE running' = TRUE /\ timers' = TRUE /\ listeners' = listeners + 1 /\ UNCHANGED loading
    BY <1>14, <2>2 DEF Start, MonitorInv
  <2>3. QED
    BY <1>14, <2>1, <2>2 DEF Start
<1>15. CASE Load
  BY <1>15, LoadKeeps
<1>16. CASE Stop
  <2>1. saving' \in [{"timer", "stop"} -> Thing \cup {"idle"}] /\ running' \in BOOLEAN
    <3>1. saving \in [{"timer", "stop"} -> Thing \cup {"idle"}] /\ running \in BOOLEAN
      BY DEF MonitorInv
    <3>2. \/ saving' = [saving EXCEPT !["stop"] = "metrics"] /\ running' = running
          \/ running' = FALSE /\ saving' = saving
      BY <1>16 DEF Stop
    <3>3. QED
      BY <3>1, <3>2 DEF Thing
  <2>2. QED
    BY <1>16, <2>1 DEF Stop, MonitorInv
<1>17. CASE MonitorKill
  <2>1. /\ metrics' = EmptyMetrics /\ blockTimes' = 0 /\ samples' = 0 /\ alerts' = {}
        /\ lowPeers' = DefaultLowPeers /\ running' = FALSE /\ timers' = FALSE /\ listeners' = 0
        /\ loading' = NoLoad /\ saving' = NotSaving /\ collecting' = NotCollecting
        /\ UNCHANGED <<saved, stored, outside>>
    BY <1>17 DEF MonitorKill
  <2>2. /\ DefaultLowPeers \in LowPeers /\ 0 \in Samples
        /\ NotSaving \in [{"timer", "stop"} -> Thing \cup {"idle"}]
        /\ NotCollecting.height \in Nat
    BY MonitoringAssumption DEF Samples, NotSaving, NotCollecting
  <2>3. QED
    BY <2>1, <2>2, EmptyCredited DEF MonitorInv
<1>18. CASE UNCHANGED monitorVars
  BY <1>18 DEF MonitorInv, monitorVars
<1>19. QED
  BY <1>1, <1>2, <1>3, <1>4, <1>5, <1>6, <1>7, <1>8, <1>9, <1>10, <1>11, <1>12, <1>13, <1>14, <1>15,
     <1>16, <1>17, <1>18 DEF MonitoringNext

\* The service of src/monitoring/monitoring_service.js keeps its counters, its
\* history and its samples within their limits, in memory and in Redis, when
\* it is started, stopped, killed and loaded in any order.
THEOREM MonitoringTypeCorrect == MonitoringSpec => []MonitoringTypeOK
<1>1. ASSUME NEW m \in Credited PROVE MetricsType(m)
  <2>1. m \in Metrics
    BY DEF Credited
  <2>2. PICK P \in SUBSET Proposer : m.proposedBlocks \in [P -> Nat]
    BY <2>1 DEF Metrics
  <2>3. DOMAIN m.proposedBlocks \subseteq Proposer
    BY <2>2
  <2>4. QED
    BY <2>1, <2>3 DEF Metrics, MetricsType
<1>2. MonitorInv => MonitoringTypeOK
  <2> SUFFICES ASSUME MonitorInv PROVE MonitoringTypeOK
    OBVIOUS
  <2>1. metrics \in Credited /\ saved.metrics \subseteq Credited
    BY DEF MonitorInv
  <2>2. QED
    BY <1>1, <2>1 DEF MonitorInv, MonitoringTypeOK, Samples
<1>3. QED
  BY <1>2, MonitorInit, MonitorStep, PTL DEF MonitoringSpec

\* Every selection in the history is credited to its validator, though stop
\* removes no handler, so that one block may be recorded several times, and
\* though metrics are saved, loaded and merged one key at a time.
THEOREM SelectionsCredited == MonitoringSpec => []HistoryCounted
<1>1. MonitorInv => HistoryCounted
  BY DEF MonitorInv, Credited, Credits, HistoryCounted, SelectionsIn, Times
<1>2. QED
  BY <1>1, MonitorInit, MonitorStep, PTL DEF MonitoringSpec

-----------------------------------------------------------------------------
(* That the checkpoint manager always has its latest checkpoint.            *)
(* LatestIsThere is not inductive: a pruning unlinks what it chose some     *)
(* steps before.  CkInv adds that everything a pruning has chosen is below  *)
(* the latest height, which no operation of the manager lowers, and that a  *)
(* caller that writes or unlinks names a checkpoint.                        *)

Topped(H, last) ==
    /\ \A r \in H : r.height <= last
    /\ \/ H = {} /\ last = 0
       \/ \E r \in H : r.height = last

LatestSafe == \A r \in held : r.height = ckLast => r \in ckFiles \cup unwritten \/ Writing(r)

ChosenLow ==
    \A c \in CkCaller : ckCall[c].pc = "unlink" =>
        ckCall[c].ck.height < ckLast /\ \A r \in ckCall[c].rest : r.height < ckLast

Named ==
    \A c \in CkCaller :
        /\ ckCall[c].pc = "create" => ckCall[c].ck.height \in CkHeight
        /\ ckCall[c].pc \in {"write", "unlink", "save", "import"} => ckCall[c].ck \in Checkpoint

CkInv == CheckpointsTypeOK /\ Topped(held, ckLast) /\ LatestSafe /\ ChosenLow /\ Named

-----------------------------------------------------------------------------
(* Heights *)

LEMMA Heights ==
    ASSUME NEW r \in Checkpoint
    PROVE  r.height \in CkHeight /\ r.height \in Nat
BY CheckpointsAssumption DEF Checkpoint, Foreign

LEMMA LatestIsNat == ASSUME NEW h \in CkHeight \cup {0} PROVE h \in Nat
BY CheckpointsAssumption

LEMMA LastIsNat == ASSUME CheckpointsTypeOK PROVE ckLast \in Nat
BY CheckpointsAssumption DEF CheckpointsTypeOK

Later(r) == IF r.height > ckLast THEN r.height ELSE ckLast

\* What is held with one checkpoint more is topped by the later height.
LEMMA HoldTopped ==
    ASSUME CheckpointsTypeOK, Topped(held, ckLast), NEW r \in Checkpoint
    PROVE  /\ Topped(HeldWith(r), Later(r)) /\ HeldWith(r) \subseteq Checkpoint
           /\ Later(r) \in CkHeight \cup {0} /\ Later(r) >= ckLast
           /\ \A s \in HeldWith(r) : s.height = Later(r) => s = r \/ (s \in held /\ s.height = ckLast)
<1>1. /\ held \subseteq Checkpoint /\ ckLast \in Nat /\ ckLast \in CkHeight \cup {0}
      /\ r.height \in CkHeight /\ r.height \in Nat /\ r \in HeldWith(r)
  BY Heights, LastIsNat DEF CheckpointsTypeOK, HeldWith
<1>2. /\ Later(r) \in Nat /\ Later(r) >= ckLast /\ Later(r) >= r.height
      /\ Later(r) = r.height \/ Later(r) = ckLast
  BY <1>1 DEF Later
<1>3. ASSUME NEW s \in HeldWith(r)
      PROVE  /\ s.height <= Later(r)
             /\ s.height = Later(r) => s = r \/ (s \in held /\ s.height = ckLast)
  <2>1. CASE s = r
    BY <1>1, <1>2, <2>1
  <2>2. CASE s \in held
    <3>1. s.height <= ckLast /\ s.height \in Nat
      BY <1>1, <2>2, Heights DEF Topped
    <3> QED
      BY <1>1, <1>2, <2>2, <3>1
  <2> QED
    BY <2>1, <2>2 DEF HeldWith
<1>4. \E s \in HeldWith(r) : s.height = Later(r)
  <2>1. CASE r.height >= ckLast
    BY <1>1, <2>1 DEF Later
  <2>2. CASE r.height < ckLast
    <3>1. PICK s \in held : s.height = ckLast
      BY <1>1, <2>2 DEF Topped
    <3>2. s \in HeldWith(r) /\ Later(r) = ckLast
      BY <1>1, <2>2, <3>1 DEF HeldWith, Later
    <3> QED
      BY <3>1, <3>2
  <2> QED
    BY <1>1, <2>1, <2>2
<1> QED
  BY <1>1, <1>2, <1>3, <1>4 DEF Topped, HeldWith, Later

\* What is surplus is below the latest height.
LEMMA SurplusLow ==
    ASSUME NEW H, NEW last \in Nat, H \subseteq Checkpoint, Topped(H, last)
    PROVE  \A r \in CkSurplus(H) : r \in H /\ r.height < last
<1> SUFFICES ASSUME NEW r \in CkSurplus(H) PROVE r \in H /\ r.height < last
  OBVIOUS
<1>1. r \in H /\ r.height \in Nat /\ r.height <= last
  BY Heights DEF CkSurplus, Topped
<1>2. ASSUME r.height = last PROVE FALSE
  <2>1. {s \in H : s.height > r.height} = {}
    <3>1. \A s \in H : s.height \in Nat /\ s.height <= last
      BY Heights DEF Topped
    <3> QED
      BY <1>2, <3>1
  <2>2. Cardinality({s \in H : s.height > r.height}) = 0
    BY <2>1, FS_EmptySet
  <2> QED
    BY <2>2, CheckpointsAssumption DEF CkSurplus
<1> QED
  BY <1>1, <1>2

\* A pruning that goes on with checkpoints below the top leaves the top.
LEMMA UnlinkKeeps ==
    ASSUME NEW c \in CkCaller, NEW H, NEW last \in Nat, NEW rest,
           H \subseteq Checkpoint, rest \subseteq Checkpoint,
           Topped(H, last), \A r \in rest : r.height < last,
           ckCall \in [CkCaller -> [pc : Phase, rest : SUBSET Checkpoint,
                                    ck : Checkpoint \cup [height : CkHeight \cup {-1}, id : {0}]]],
           UnlinkNext(c, H, rest)
    PROVE  /\ held' \subseteq H /\ Topped(held', last)
           /\ ckCall' \in [CkCaller -> [pc : Phase, rest : SUBSET Checkpoint,
                                        ck : Checkpoint \cup [height : CkHeight \cup {-1}, id : {0}]]]
           /\ \A d \in CkCaller \ {c} : ckCall'[d] = ckCall[d]
           /\ \/ ckCall'[c] = IdleCk
              \/ /\ ckCall'[c].pc = "unlink" /\ ckCall'[c].ck \in Checkpoint
                 /\ ckCall'[c].ck.height < last /\ \A r \in ckCall'[c].rest : r.height < last
<1>1. CASE rest = {}
  BY <1>1 DEF UnlinkNext, Ends, IdleCk, NoCk, Phase
<1>2. CASE rest # {}
  <2>1. PICK r \in rest : /\ held' = {s \in H : s.height # r.height}
                          /\ CkGoes(c, "unlink", r, rest \ {r})
    BY <1>2 DEF UnlinkNext
  <2>2. r \in Checkpoint /\ r.height < last /\ r.height \in Nat
    BY <2>1, Heights
  <2>3. PICK s \in H : s.height = last
    BY <2>2 DEF Topped
  <2>4. Topped(held', last)
    BY <2>1, <2>2, <2>3 DEF Topped
  <2>5. ckCall' = [ckCall EXCEPT ![c] = [pc |-> "unlink", ck |-> r, rest |-> rest \ {r}]]
    BY <2>1 DEF CkGoes
  <2> QED
    BY <2>1, <2>2, <2>4, <2>5 DEF Phase
<1> QED
  BY <1>1, <1>2

-----------------------------------------------------------------------------
(* The invariant *)

Call == [pc : Phase, rest : SUBSET Checkpoint,
         ck : Checkpoint \cup [height : CkHeight \cup {-1}, id : {0}]]

LEMMA InitCk == ASSUME CheckpointsInit PROVE CkInv
<1>1. NoCk \in [height : CkHeight \cup {-1}, id : {0}] /\ "idle" \in Phase
  BY DEF NoCk, Phase
<1>2. IdleCk \in Call
  BY <1>1 DEF IdleCk, Call
<1>3. ckCall \in [CkCaller -> Call]
  BY <1>2 DEF CheckpointsInit
<1>4. 0 \in 0..MaxCkMade /\ 0 \in 0..MaxCkKills
  BY CheckpointsAssumption
<1>5. CheckpointsTypeOK
  BY <1>3, <1>4 DEF CheckpointsInit, CheckpointsTypeOK, Call
<1> QED
  BY <1>5
  DEF CheckpointsInit, CkInv, Topped, LatestSafe, ChosenLow, Named, IdleCk

\* A checkpoint is held, and what else happens leaves the files of the others,
\* names this one as written or has it in its file.
LEMMA HoldStep ==
    ASSUME CkInv, NEW c \in CkCaller, NEW r \in Checkpoint, Hold(r),
           ckFiles' \subseteq Checkpoint, unwritten' = unwritten, ckCall' \in [CkCaller -> Call],
           \A d \in CkCaller \ {c} : ckCall'[d] = ckCall[d],
           ckCall'[c].pc \in {"idle", "load", "save", "import"},
           ckCall'[c].pc \in {"save", "import"} => ckCall'[c].ck = r,
           \A s \in Checkpoint : s # r /\ s \in ckFiles => s \in ckFiles',
           \A s \in Checkpoint : s # r /\ ckCall[c].pc \in {"save", "import"} /\ ckCall[c].ck = s
                                  => s \in ckFiles',
           r \in ckFiles' \/ ckCall'[c].pc \in {"save", "import"},
           UNCHANGED <<exported, ckKills>>, ckReady' \in BOOLEAN, ckMade' \in 0..MaxCkMade
    PROVE  CkInv'
<1>1. /\ held' = HeldWith(r) /\ ckLast' = Later(r)
      /\ Topped(held', ckLast') /\ held' \subseteq Checkpoint
      /\ ckLast' \in CkHeight \cup {0} /\ ckLast' >= ckLast
      /\ \A s \in held' : s.height = ckLast' => s = r \/ (s \in held /\ s.height = ckLast)
  BY HoldTopped DEF CkInv, Hold, Later
<1>2. ckLast \in Nat /\ ckLast' \in Nat
  <2>1. ckLast \in Nat
    BY LastIsNat, Zenon DEF CkInv
  <2>2. ckLast' \in CkHeight \cup {0}
    BY <1>1
  <2>3. ckLast' \in Nat
    BY <2>2, LatestIsNat
  <2> QED BY <2>1, <2>3
<1>3. CheckpointsTypeOK'
  BY <1>1 DEF CkInv, CheckpointsTypeOK, Call
<1>4. LatestSafe'
  <2> SUFFICES ASSUME NEW s \in held', s.height = ckLast'
               PROVE  s \in ckFiles' \cup unwritten' \/ Writing(s)'
    BY DEF LatestSafe
  <2>1. CASE s = r
    BY <2>1 DEF Writing
  <2>2. CASE s # r
    <3>1. s \in held /\ s.height = ckLast /\ s \in Checkpoint
      BY <1>1, <2>2
    <3>2. s \in ckFiles \cup unwritten \/ Writing(s)
      BY <3>1 DEF CkInv, LatestSafe
    <3>3. ASSUME NEW d \in CkCaller, ckCall[d].pc \in {"save", "import"}, ckCall[d].ck = s
          PROVE  s \in ckFiles' \/ Writing(s)'
      BY <2>2, <3>1, <3>3 DEF Writing
    <3> QED
      BY <2>2, <3>1, <3>2, <3>3 DEF Writing
  <2> QED
    BY <2>1, <2>2
<1>5. ChosenLow'
  <2> SUFFICES ASSUME NEW d \in CkCaller, ckCall'[d].pc = "unlink"
               PROVE  /\ ckCall'[d].ck.height < ckLast'
                      /\ \A s \in ckCall'[d].rest : s.height < ckLast'
    BY DEF ChosenLow
  <2>1. d # c /\ ckCall'[d] = ckCall[d]
    OBVIOUS
  <2>2. ckCall[d].ck \in Checkpoint /\ ckCall[d].rest \subseteq Checkpoint
    BY <2>1 DEF CkInv, Named, CheckpointsTypeOK
  <2>3. ckCall[d].ck.height \in Nat /\ \A s \in ckCall[d].rest : s.height \in Nat
    BY <2>2, Heights
  <2> QED
    BY <1>1, <1>2, <2>1, <2>3 DEF CkInv, ChosenLow
<1>6. Named'
  BY DEF CkInv, Named
<1> QED
  BY <1>1, <1>3, <1>4, <1>5, <1>6 DEF CkInv

\* A pruning goes on from what is held, H, without lowering the latest height.
LEMMA PruneStep ==
    ASSUME CkInv, NEW c \in CkCaller, NEW H, NEW rest, UnlinkNext(c, H, rest),
           H \subseteq Checkpoint, rest \subseteq Checkpoint,
           ckLast' \in CkHeight \cup {0}, ckLast' >= ckLast,
           Topped(H, ckLast'), \A r \in rest : r.height < ckLast',
           \A s \in H : s.height = ckLast' => s \in ckFiles' \/ (s \in held /\ s.height = ckLast),
           ckFiles' \subseteq Checkpoint, ckCall[c].pc \notin {"save", "import"},
           \A s \in held : s.height = ckLast /\ s \in ckFiles => s \in ckFiles',
           UNCHANGED <<ckReady, exported, unwritten, ckMade, ckKills>>
    PROVE  CkInv'
<1>1. ckLast \in Nat /\ ckLast' \in Nat
  <2>1. ckLast \in Nat
    BY LastIsNat, Zenon DEF CkInv
  <2>2. ckLast' \in Nat
    BY LatestIsNat, Zenon
  <2> QED BY <2>1, <2>2
<1>2. /\ held' \subseteq H /\ Topped(held', ckLast') /\ ckCall' \in [CkCaller -> Call]
      /\ \A d \in CkCaller \ {c} : ckCall'[d] = ckCall[d]
      /\ \/ ckCall'[c] = IdleCk
         \/ /\ ckCall'[c].pc = "unlink" /\ ckCall'[c].ck \in Checkpoint
            /\ ckCall'[c].ck.height < ckLast' /\ \A r \in ckCall'[c].rest : r.height < ckLast'
  BY <1>1, UnlinkKeeps DEF CkInv, CheckpointsTypeOK, Call
<1>3. CheckpointsTypeOK'
  BY <1>2 DEF CkInv, CheckpointsTypeOK, Call
<1>4. LatestSafe'
  <2> SUFFICES ASSUME NEW s \in held', s.height = ckLast'
               PROVE  s \in ckFiles' \cup unwritten' \/ Writing(s)'
    BY DEF LatestSafe
  <2>1. s \in ckFiles' \/ (s \in held /\ s.height = ckLast)
    BY <1>2
  <2>2. ASSUME s \in held, s.height = ckLast
        PROVE  s \in ckFiles' \cup unwritten' \/ Writing(s)'
    <3>1. s \in ckFiles \cup unwritten \/ Writing(s)
      BY <2>2 DEF CkInv, LatestSafe
    <3> QED
      BY <1>2, <2>2, <3>1 DEF Writing
  <2> QED
    BY <2>1, <2>2
<1>5. ChosenLow'
  <2> SUFFICES ASSUME NEW d \in CkCaller, d # c, ckCall'[d].pc = "unlink"
               PROVE  /\ ckCall'[d].ck.height < ckLast'
                      /\ \A s \in ckCall'[d].rest : s.height < ckLast'
    BY <1>2 DEF ChosenLow, IdleCk
  <2>1. ckCall'[d] = ckCall[d]
    BY <1>2
  <2>2. ckCall[d].ck \in Checkpoint /\ ckCall[d].rest \subseteq Checkpoint
    BY <2>1 DEF CkInv, Named, CheckpointsTypeOK
  <2>3. ckCall[d].ck.height \in Nat /\ \A s \in ckCall[d].rest : s.height \in Nat
    BY <2>2, Heights
  <2> QED
    BY <1>1, <2>1, <2>3 DEF CkInv, ChosenLow
<1>6. Named'
  BY <1>2 DEF CkInv, Named, IdleCk
<1> QED
  BY <1>2, <1>3, <1>4, <1>5, <1>6 DEF CkInv

\* Only what a caller waits for changes, and it does not start to unlink.
LEMMA CallStep ==
    ASSUME CkInv, NEW c \in CkCaller,
           ckCall' \in [CkCaller -> Call], \A d \in CkCaller \ {c} : ckCall'[d] = ckCall[d],
           ckCall'[c].pc \in {"idle", "load", "create", "write"},
           ckCall'[c].pc = "create" => ckCall'[c].ck.height \in CkHeight,
           ckCall'[c].pc = "write" => ckCall'[c].ck \in Checkpoint,
           UNCHANGED <<held, ckLast, exported, ckKills>>,
           ckReady' \in BOOLEAN, ckMade' \in 0..MaxCkMade,
           ckFiles' \subseteq Checkpoint, unwritten' \subseteq Checkpoint,
           ckFiles \subseteq ckFiles', unwritten \subseteq unwritten',
           ckCall[c].pc \in {"save", "import"} => ckCall[c].ck \in ckFiles' \cup unwritten'
    PROVE  CkInv'
<1>1. CheckpointsTypeOK'
  BY DEF CkInv, CheckpointsTypeOK, Call
<1>2. LatestSafe'
  BY DEF CkInv, LatestSafe, Writing
<1>3. ChosenLow' /\ Named'
  BY DEF CkInv, ChosenLow, Named
<1> QED
  BY <1>1, <1>2, <1>3 DEF CkInv, Topped

-----------------------------------------------------------------------------
(* The steps *)

\* Reading the files, and checkpoints that come with their contents
LEMMA HoldingSteps ==
    ASSUME CkInv, NEW c \in CkCaller, LoadFile(c) \/ Save(c) \/ Import(c) \/ ImportNext(c)
    PROVE  CkInv'
<1>1. /\ ckCall \in [CkCaller -> Call] /\ ckFiles \subseteq Checkpoint
      /\ held \subseteq Checkpoint /\ exported \subseteq Checkpoint
      /\ ckReady \in BOOLEAN /\ ckMade \in 0..MaxCkMade
      /\ ckCall[c].rest \subseteq Checkpoint
  BY DEF CkInv, CheckpointsTypeOK, Call
<1>2. CASE LoadFile(c)
  <2>1. PICK r \in ckCall[c].rest :
           /\ Waiting(c, "load") /\ CkGoes(c, "load", NoCk, ckCall[c].rest \ {r})
           /\ IF r \in ckFiles /\ Accepted(r) THEN Hold(r) ELSE UNCHANGED <<held, ckLast>>
           /\ UNCHANGED <<ckReady, ckFiles, exported, unwritten, ckMade, ckKills>>
    BY <1>2 DEF LoadFile
  <2>2. /\ ckCall' = [ckCall EXCEPT ![c] = [pc |-> "load", ck |-> NoCk, rest |-> ckCall[c].rest \ {r}]]
        /\ ckCall[c].pc = "load"
    BY <2>1 DEF CkGoes, Waiting
  <2>3. ckCall' \in [CkCaller -> Call] /\ ckCall'[c].pc = "load"
    BY <1>1, <2>2 DEF Call, Phase, NoCk
  <2>4. \A d \in CkCaller \ {c} : ckCall'[d] = ckCall[d]
    BY <1>1, <2>2
  <2>5. CASE r \in ckFiles /\ Accepted(r)
    <3>1. Hold(r) /\ r \in Checkpoint
      BY <1>1, <2>1, <2>5
    <3> QED
      BY <1>1, <2>1, <2>2, <2>3, <2>4, <2>5, <3>1, HoldStep
  <2>6. CASE ~(r \in ckFiles /\ Accepted(r))
    <3>1. UNCHANGED <<held, ckLast>>
      BY <2>1, <2>6
    <3>2. unwritten \subseteq Checkpoint
      BY DEF CkInv, CheckpointsTypeOK
    <3> QED
      BY <1>1, <2>1, <2>2, <2>3, <2>4, <3>1, <3>2, CallStep
  <2> QED
    BY <2>5, <2>6
<1>3. ASSUME NEW pc \in {"save", "import"}, NEW r \in Checkpoint, NEW rest,
             rest \subseteq Checkpoint, Hold(r), CkGoes(c, pc, r, rest),
             ckFiles' \subseteq Checkpoint, \A s \in Checkpoint : s # r /\ s \in ckFiles => s \in ckFiles',
             \A s \in Checkpoint : s # r /\ ckCall[c].pc \in {"save", "import"} /\ ckCall[c].ck = s
                                  => s \in ckFiles',
             UNCHANGED <<ckReady, exported, unwritten, ckKills>>, ckMade' \in 0..MaxCkMade
      PROVE  CkInv'
  <2>1. ckCall' = [ckCall EXCEPT ![c] = [pc |-> pc, ck |-> r, rest |-> rest]]
    BY <1>3 DEF CkGoes
  <2>2. ckCall' \in [CkCaller -> Call] /\ ckCall'[c].pc = pc /\ ckCall'[c].ck = r
    BY <1>1, <1>3, <2>1 DEF Call, Phase
  <2>3. \A d \in CkCaller \ {c} : ckCall'[d] = ckCall[d]
    BY <1>1, <2>1
  <2> QED
    BY <1>1, <1>3, <2>2, <2>3, HoldStep
<1>4. CASE Save(c)
  <2>1. ASSUME NEW r \in Checkpoint, Writes(c, "save", r, {}), ckMade' \in 0..MaxCkMade
        PROVE  CkInv'
    BY <1>1, <1>3, <1>4, <2>1 DEF Save, Writes, Waiting
  <2>2. ASSUME NEW h \in CkHeight, Makes, Writes(c, "save", Made(h), {}) PROVE CkInv'
    <3>1. Made(h) \in Checkpoint /\ ckMade' \in 0..MaxCkMade
      BY <1>1, <2>2, CheckpointsAssumption DEF Makes, Made, Checkpoint
    <3> QED
      BY <2>1, <2>2, <3>1
  <2>3. ASSUME NEW r \in held, ckMade' = ckMade, Writes(c, "save", r, {}) PROVE CkInv'
    BY <1>1, <2>1, <2>3
  <2> QED
    BY <1>4, <2>2, <2>3 DEF Save
<1>5. CASE Import(c)
  <2> DEFINE Imports(list, r) ==
               /\ Waiting(c, "idle")
               /\ Writes(c, "import", r, {s \in list : Accepted(s)} \ {r})
               /\ UNCHANGED <<ckReady, exported, unwritten, ckMade, ckKills>>
  <2>0. PICK list \in {exported} \cup {{r} : r \in Foreign} : \E r \in list : Imports(list, r)
    BY <1>5 DEF Import
  <2>1. PICK r \in list : Imports(list, r)
    BY <2>0
  <2>2. list \subseteq Checkpoint
    BY <1>1 DEF Checkpoint
  <2>3. r \in Checkpoint /\ {s \in list : Accepted(s)} \ {r} \subseteq Checkpoint
    BY <2>2
  <2> QED
    BY <1>1, <1>3, <2>1, <2>3 DEF Writes, Waiting
<1>6. CASE ImportNext(c)
  <2>1. PICK r \in ckCall[c].rest :
           /\ Waiting(c, "import") /\ Hold(r)
           /\ ckFiles' = (ckFiles \cup {ckCall[c].ck}) \ {r}
           /\ CkGoes(c, "import", r, ckCall[c].rest \ {r})
           /\ UNCHANGED <<ckReady, exported, unwritten, ckMade, ckKills>>
    BY <1>6 DEF ImportNext
  <2>2. ckCall[c].ck \in Checkpoint
    BY <2>1 DEF CkInv, Named, Waiting
  <2> QED
    BY <1>1, <1>3, <2>1, <2>2
<1> QED
  BY <1>2, <1>4, <1>5, <1>6

\* A new checkpoint, and what a pruning unlinks
LEMMA PruningSteps ==
    ASSUME CkInv, NEW c \in CkCaller, Created(c) \/ PruneCk(c) \/ CkUnlinked(c)
    PROVE  CkInv'
<1>1. /\ held \subseteq Checkpoint /\ Topped(held, ckLast) /\ ckFiles \subseteq Checkpoint
      /\ ckLast \in CkHeight \cup {0} /\ ckLast \in Nat
      /\ ckCall[c].rest \subseteq Checkpoint
  BY LastIsNat DEF CkInv, CheckpointsTypeOK
<1>2. CASE Created(c)
  <2> DEFINE r == ckCall[c].ck
             H == HeldWith(r)
  <2>1. r \in Checkpoint /\ ckCall[c].pc = "write"
    BY <1>2 DEF CkInv, Named, Created, Waiting
  <2>2. /\ ckLast' = Later(r) /\ ckFiles' = ckFiles \cup {r}
        /\ UnlinkNext(c, H, CkSurplus(H))
        /\ UNCHANGED <<ckReady, exported, unwritten, ckMade, ckKills>>
    BY <1>2 DEF Created, Later
  <2>3. /\ Topped(H, ckLast') /\ H \subseteq Checkpoint
        /\ ckLast' \in CkHeight \cup {0} /\ ckLast' >= ckLast
        /\ \A s \in H : s.height = ckLast' => s = r \/ (s \in held /\ s.height = ckLast)
    BY <2>1, <2>2, HoldTopped DEF CkInv
  <2> HIDE DEF r, H
  <2>4. ckLast' \in Nat
    <3>1. ckLast' \in CkHeight \cup {0}
      BY <2>3
    <3> QED
      BY <3>1, CheckpointsAssumption
  <2>5. \A s \in CkSurplus(H) : s \in H /\ s.height < ckLast'
    BY <2>3, <2>4, SurplusLow
  <2> QED
    BY <1>1, <2>1, <2>2, <2>3, <2>5, PruneStep DEF r
<1>3. CASE PruneCk(c)
  <2>1. \A s \in CkSurplus(held) : s \in held /\ s.height < ckLast
    BY <1>1, SurplusLow
  <2>2. /\ UnlinkNext(c, held, CkSurplus(held)) /\ ckCall[c].pc = "idle"
        /\ UNCHANGED <<ckReady, ckLast, ckFiles, exported, unwritten, ckMade, ckKills>>
    BY <1>3 DEF PruneCk, Waiting
  <2>3. CkSurplus(held) \subseteq Checkpoint
    BY <1>1, <2>1
  <2>4. ckLast' = ckLast /\ ckFiles' = ckFiles /\ ckLast' >= ckLast
    BY <1>1, <2>2
  <2> QED
    BY <1>1, <2>1, <2>2, <2>3, <2>4, PruneStep
<1>4. CASE CkUnlinked(c)
  <2>1. /\ ckCall[c].pc = "unlink" /\ ckCall[c].ck.height < ckLast
        /\ \A s \in ckCall[c].rest : s.height < ckLast
    BY <1>4 DEF CkUnlinked, Waiting, CkInv, ChosenLow
  <2>2. /\ ckFiles' \in {ckFiles, ckFiles \ {ckCall[c].ck}}
        /\ UnlinkNext(c, held, ckCall[c].rest)
        /\ UNCHANGED <<ckReady, ckLast, exported, unwritten, ckMade, ckKills>>
    BY <1>4 DEF CkUnlinked
  <2>3. ckFiles' \subseteq Checkpoint
    BY <1>1, <2>2
  <2>4. \A s \in held : s.height = ckLast /\ s \in ckFiles => s \in ckFiles'
    BY <1>1, <2>1, <2>2
  <2> QED
    BY <1>1, <2>1, <2>2, <2>3, <2>4, PruneStep
<1> QED
  BY <1>2, <1>3, <1>4

\* What neither holds nor prunes
LEMMA CallSteps ==
    ASSUME CkInv, NEW c \in CkCaller,
           \/ BeginLoad(c) \/ Loaded(c) \/ BlockFound(c) \/ CreateFails(c) \/ CkSaved(c)
           \/ WriteFails(c) \/ \E h \in CkHeight : Create(c, h)
    PROVE  CkInv'
<1>1. /\ ckCall \in [CkCaller -> Call] /\ ckFiles \subseteq Checkpoint
      /\ unwritten \subseteq Checkpoint /\ ckReady \in BOOLEAN /\ ckMade \in 0..MaxCkMade
  BY DEF CkInv, CheckpointsTypeOK, Call
<1>2. ASSUME NEW pc \in {"load", "create", "write"}, NEW ck, NEW rest, CkGoes(c, pc, ck, rest),
             ck \in Checkpoint \cup [height : CkHeight \cup {-1}, id : {0}], rest \subseteq Checkpoint
      PROVE  /\ ckCall' \in [CkCaller -> Call] /\ ckCall'[c].pc = pc /\ ckCall'[c].ck = ck
             /\ \A d \in CkCaller \ {c} : ckCall'[d] = ckCall[d]
  <2>1. ckCall' = [ckCall EXCEPT ![c] = [pc |-> pc, ck |-> ck, rest |-> rest]]
    BY <1>2 DEF CkGoes
  <2>2. [pc |-> pc, ck |-> ck, rest |-> rest] \in Call
    BY <1>2 DEF Call, Phase
  <2> QED
    BY <1>1, <2>1, <2>2
<1>3. ASSUME Ends(c)
      PROVE  /\ ckCall' \in [CkCaller -> Call] /\ ckCall'[c].pc = "idle"
             /\ \A d \in CkCaller \ {c} : ckCall'[d] = ckCall[d]
  <2>1. IdleCk \in Call /\ IdleCk.pc = "idle"
    BY DEF IdleCk, NoCk, Call, Phase
  <2> QED
    BY <1>1, <1>3, <2>1 DEF Ends
<1>4. CASE BeginLoad(c)
  <2>1. NoCk \in [height : CkHeight \cup {-1}, id : {0}]
    BY DEF NoCk
  <2>2. /\ CkGoes(c, "load", NoCk, ckFiles) /\ ckCall[c].pc = "idle"
        /\ UNCHANGED <<ckReady, held, ckLast, ckFiles, exported, unwritten, ckMade, ckKills>>
    BY <1>4 DEF BeginLoad, Waiting
  <2>3. /\ ckCall' \in [CkCaller -> Call] /\ ckCall'[c].pc = "load"
        /\ \A d \in CkCaller \ {c} : ckCall'[d] = ckCall[d]
    BY <1>1, <1>2, <2>1, <2>2
  <2> QED
    BY <1>1, <2>2, <2>3, CallStep
<1>5. CASE Loaded(c)
  BY <1>1, <1>3, <1>5, CallStep DEF Loaded, Waiting
<1>6. CASE BlockFound(c)
  <2>1. ckCall[c].pc = "create" /\ ckCall[c].ck.height \in CkHeight
    BY <1>6 DEF BlockFound, Waiting, CkInv, Named
  <2>2. Made(ckCall[c].ck.height) \in Checkpoint /\ ckMade' \in 0..MaxCkMade
    BY <1>1, <1>6, <2>1, CheckpointsAssumption DEF BlockFound, Makes, Made, Checkpoint
  <2>3. /\ CkGoes(c, "write", Made(ckCall[c].ck.height), {})
        /\ UNCHANGED <<ckReady, held, ckLast, ckFiles, exported, unwritten, ckKills>>
    BY <1>6 DEF BlockFound
  <2>4. /\ ckCall' \in [CkCaller -> Call] /\ ckCall'[c].pc = "write"
        /\ ckCall'[c].ck = Made(ckCall[c].ck.height)
        /\ \A d \in CkCaller \ {c} : ckCall'[d] = ckCall[d]
    BY <1>2, <2>2, <2>3
  <2> QED
    BY <1>1, <2>1, <2>2, <2>3, <2>4, CallStep
<1>7. CASE CreateFails(c)
  BY <1>1, <1>3, <1>7, CallStep DEF CreateFails, Waiting
<1>8. CASE CkSaved(c)
  <2>1. ckCall[c].pc \in {"save", "import"} /\ ckCall[c].ck \in Checkpoint
    BY <1>8 DEF CkSaved, Waiting, CkInv, Named
  <2> QED
    BY <1>1, <1>3, <1>8, <2>1, CallStep DEF CkSaved
<1>9. CASE WriteFails(c)
  <2>1. ckCall[c].pc \in {"save", "import"} /\ ckCall[c].ck \in Checkpoint
    BY <1>9 DEF WriteFails, Waiting, CkInv, Named
  <2> QED
    BY <1>1, <1>3, <1>9, <2>1, CallStep DEF WriteFails
<1>10. CASE \E h \in CkHeight : Create(c, h)
  <2>1. PICK h \in CkHeight : Create(c, h)
    BY <1>10
  <2>2. [height |-> h, id |-> 0] \in [height : CkHeight \cup {-1}, id : {0}]
    OBVIOUS
  <2>3. /\ CkGoes(c, "create", [height |-> h, id |-> 0], {}) /\ ckCall[c].pc = "idle"
        /\ UNCHANGED <<ckReady, held, ckLast, ckFiles, exported, unwritten, ckMade, ckKills>>
    BY <2>1 DEF Create, Waiting
  <2>4. /\ ckCall' \in [CkCaller -> Call] /\ ckCall'[c].pc = "create"
        /\ ckCall'[c].ck = [height |-> h, id |-> 0]
        /\ \A d \in CkCaller \ {c} : ckCall'[d] = ckCall[d]
    BY <1>2, <2>2, <2>3
  <2>5. ckCall'[c].ck.height \in CkHeight
    BY <2>4
  <2> QED
    BY <1>1, <2>3, <2>4, <2>5, CallStep
<1> QED
  BY <1>4, <1>5, <1>6, <1>7, <1>8, <1>9, <1>10

LEMMA NextCk == ASSUME CkInv, [CheckpointsNext]_checkpointVars PROVE CkInv'
<1>1. ASSUME NEW c \in CkCaller, Export(c) PROVE CkInv'
  BY <1>1
  DEF Export, CkInv, CheckpointsTypeOK, Topped, LatestSafe, ChosenLow, Named, Writing
<1>2. CASE Close
  BY <1>2
  DEF Close, CkInv, CheckpointsTypeOK, Topped, LatestSafe, ChosenLow, Named, Writing
<1>3. CASE CkKill
  <2>1. IdleCk \in Call /\ IdleCk.pc = "idle"
    BY DEF IdleCk, NoCk, Call, Phase
  <2>2. ckCall' \in [CkCaller -> Call] /\ \A c \in CkCaller : ckCall'[c].pc = "idle"
    BY <1>3, <2>1 DEF CkKill
  <2>3. ckKills' \in 0..MaxCkKills
    BY <1>3, CheckpointsAssumption DEF CkKill, CkInv, CheckpointsTypeOK
  <2>4. CheckpointsTypeOK'
    BY <1>3, <2>2, <2>3 DEF CkKill, CkInv, CheckpointsTypeOK, Call
  <2> QED
    BY <1>3, <2>2, <2>4 DEF CkKill, CkInv, Topped, LatestSafe, ChosenLow, Named
<1>4. CASE UNCHANGED checkpointVars
  BY <1>4
  DEF checkpointVars, CkInv, CheckpointsTypeOK, Topped, LatestSafe, ChosenLow, Named, Writing
<1> QED
  BY <1>1, <1>2, <1>3, <1>4, HoldingSteps, PruningSteps, CallSteps DEF CheckpointsNext

LEMMA CkInvHolds == CheckpointsSpec => []CkInv
<1> QED
  BY InitCk, NextCk, PTL DEF CheckpointsSpec

-----------------------------------------------------------------------------
(* The theorems *)

\* The checkpoint manager's state keeps its types, whatever its operations
\* interleave (src/storage/checkpoint_manager.js).
THEOREM CheckpointsTypeCorrect == CheckpointsSpec => []CheckpointsTypeOK
<1>1. CkInv => CheckpointsTypeOK
  BY DEF CkInv
<1> QED
  BY <1>1, CkInvHolds, PTL

\* getLatestCheckpoint has the highest checkpoint to give, and its file is there
\* unless it is being written or that failed, for any number of callers of the
\* manager, of heights and of checkpoints that are kept (pruneOldCheckpoints).
THEOREM LatestStays == CheckpointsSpec => []LatestIsThere
<1>1. ASSUME CkInv, held # {} PROVE LatestIsThere
  <2>1. PICK r \in held : r.height = ckLast
    BY <1>1 DEF CkInv, Topped
  <2>2. \A s \in held : s.height <= r.height
    BY <1>1, <2>1 DEF CkInv, Topped
  <2>3. r \in ckFiles \cup unwritten \/ Writing(r)
    BY <1>1, <2>1 DEF CkInv, LatestSafe
  <2> QED
    BY <2>1, <2>2, <2>3 DEF LatestIsThere, Highest
<1>2. CkInv => LatestIsThere
  BY <1>1 DEF LatestIsThere
<1> QED
  BY <1>2, CkInvHolds, PTL

-----------------------------------------------------------------------------
(* The services side by side: a step of one is a step or a stutter of each. *)

\* The types of the snapshot manager are part of its invariant.
THEOREM SnapshotTypeCorrect == SnapshotSpec => []SnapshotTypeOK
<1>1. SnapInv => SnapshotTypeOK
  BY DEF SnapInv
<1> QED BY <1>1, SnapInvHolds, PTL

\* Every variable of the services keeps its type when they run side by side.
THEOREM ServicesTypeCorrect == ServicesSpec => []ServicesTypeOK
<1>1. ServicesInit => /\ BackupInit /\ SnapshotInit /\ PeerStoreInit /\ ExplorerInit
                      /\ MonitoringInit /\ CheckpointsInit
  BY DEF ServicesInit
<1>2. [ServicesNext]_servicesVars =>
        /\ [BackupNext]_backupVars /\ [SnapshotNext]_snapshotVars
        /\ [PeerStoreNext]_peerStoreVars /\ [ExplorerNext]_explorerVars
        /\ [MonitoringNext]_monitorVars /\ [CheckpointsNext]_checkpointVars
  BY Zenon DEF ServicesNext, servicesVars
<1>3. /\ BackupTypeOK /\ SnapshotTypeOK /\ PeerStoreTypeOK
      /\ ExplorerTypeOK /\ MonitoringTypeOK /\ CheckpointsTypeOK
      => ServicesTypeOK
  BY DEF ServicesTypeOK
<1>4. ServicesSpec => /\ BackupSpec /\ SnapshotSpec /\ PeerStoreSpec /\ ExplorerSpec
                      /\ MonitoringSpec /\ CheckpointsSpec
  BY <1>1, <1>2, PTL DEF ServicesSpec, BackupSpec, SnapshotSpec, PeerStoreSpec, ExplorerSpec,
                         MonitoringSpec, CheckpointsSpec
<1> QED
  BY <1>3, <1>4, BackupTypeCorrect, SnapshotTypeCorrect, PeerStoreTypeCorrect,
     ExplorerTypeCorrect, MonitoringTypeCorrect, CheckpointsTypeCorrect, PTL

=============================================================================
