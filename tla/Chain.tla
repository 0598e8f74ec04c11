-------------------------------- MODULE Chain --------------------------------
(***************************************************************************)
(* What a block store promises its callers: a chain that only grows, by    *)
(* one block of the next height at a time, and never changes what it has,  *)
(* whatever syncing, closing and starting goes on underneath.              *)
(***************************************************************************)
EXTENDS Naturals, Sequences

CONSTANT Block   \* records with a height; the genesis block has height 0

VARIABLE chain

Init == chain = <<>>

Extend ==
    LET n == Len(chain) IN
    /\ Len(chain') = n + 1
    /\ SubSeq(chain', 1, n) = chain
    /\ chain'[n + 1] \in Block
    /\ chain'[n + 1].height = n

Spec == Init /\ [][Extend]_chain
=============================================================================
