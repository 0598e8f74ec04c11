------------------------------- MODULE Outputs -------------------------------
(***************************************************************************)
(* What a store of unspent outputs promises: an output is created once and *)
(* spent at most once, across restarts and compactions.  The promise ends  *)
(* with the first disturbance, after which anything may happen.            *)
(***************************************************************************)
EXTENDS Naturals

CONSTANT Outpoint

VARIABLES unspent, created, disturbed

Init == unspent = {} /\ created = {} /\ disturbed = FALSE

Create ==
    \E o \in Outpoint \ created :
        /\ created' = created \cup {o}
        /\ unspent' = unspent \cup {o}

Spend ==
    \E o \in unspent :
        /\ unspent' = unspent \ {o}
        /\ UNCHANGED created

Step == ~disturbed /\ ~disturbed' /\ (Create \/ Spend)

Spec == Init /\ [][Step \/ disturbed']_<<unspent, created, disturbed>>
=============================================================================
