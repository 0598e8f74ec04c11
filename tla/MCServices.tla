----------------------------- MODULE MCServices -----------------------------
(***************************************************************************)
(* The services around the node that call nobody but the disk, Redis and   *)
(* the store, side by side on small instances: backups, snapshots, the     *)
(* peer store, the explorer, monitoring and the checkpoint manager.  A     *)
(* behaviour belongs to one of them, "part".                               *)
(***************************************************************************)
EXTENDS Backups, Snapshots, PeerStore, Explorer, Monitoring, Checkpoints, TLC

VARIABLE part

servicesVars == <<part, backupVars, snapshotVars, peerStoreVars, explorerVars, monitorVars, checkpointVars>>

ServicesInit ==
    /\ part \in {"backups", "snapshots", "peers", "explorer", "monitoring", "checkpoints"}
    /\ BackupInit /\ SnapshotInit /\ PeerStoreInit /\ ExplorerInit /\ MonitoringInit
    /\ CheckpointsInit

ServicesNext ==
    /\ UNCHANGED part
    /\ \/ /\ part = "backups" /\ BackupNext
          /\ UNCHANGED <<snapshotVars, peerStoreVars, explorerVars, monitorVars, checkpointVars>>
       \/ /\ part = "snapshots" /\ SnapshotNext
          /\ UNCHANGED <<backupVars, peerStoreVars, explorerVars, monitorVars, checkpointVars>>
       \/ /\ part = "peers" /\ PeerStoreNext
          /\ UNCHANGED <<backupVars, snapshotVars, explorerVars, monitorVars, checkpointVars>>
       \/ /\ part = "explorer" /\ ExplorerNext
          /\ UNCHANGED <<backupVars, snapshotVars, peerStoreVars, monitorVars, checkpointVars>>
       \/ /\ part = "monitoring" /\ MonitoringNext
          /\ UNCHANGED <<backupVars, snapshotVars, peerStoreVars, explorerVars, checkpointVars>>
       \/ /\ part = "checkpoints" /\ CheckpointsNext
          /\ UNCHANGED <<backupVars, snapshotVars, peerStoreVars, explorerVars, monitorVars>>

ServicesSpec == ServicesInit /\ [][ServicesNext]_servicesVars

\* Types: each service's variables keep to the values its code gives them.
ServicesTypeOK ==
    /\ BackupTypeOK /\ SnapshotTypeOK /\ PeerStoreTypeOK
    /\ ExplorerTypeOK /\ MonitoringTypeOK /\ CheckpointsTypeOK

\* The callers of the checkpoint manager are alike, and so are the proposers.
ServicesSymmetry == Permutations(CkCaller) \cup Permutations(Proposer)
=============================================================================
