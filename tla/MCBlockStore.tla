---------------------------- MODULE MCBlockStore ----------------------------
(***************************************************************************)
(* The block store on small instances.                                     *)
(***************************************************************************)
EXTENDS BlockStore

CONSTANTS f1, f2
=============================================================================
