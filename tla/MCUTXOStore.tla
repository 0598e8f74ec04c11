----------------------------- MODULE MCUTXOStore -----------------------------
(***************************************************************************)
(* The store of outputs on a small instance: one output of each address.   *)
(***************************************************************************)
EXTENDS UTXOStore

CONSTANTS o1, o2, alice, bob, c1, c2

MCOwner == [o \in Outpoint |-> IF o = o1 THEN alice ELSE bob]
=============================================================================
