------------------------------- MODULE MCRPoS -------------------------------
(***************************************************************************)
(* The engine on small instances: constants the configurations share.      *)
(***************************************************************************)
EXTENDS RPoS

CONSTANTS v1, v2, v3, null

\* The configurations offer no votes for other blocks than the proposal.
NoVotedBlocks == {}
=============================================================================
