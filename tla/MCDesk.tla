------------------------------- MODULE MCDesk -------------------------------
(* One dashboard, two customers. *)
EXTENDS Desk, TLC

CONSTANTS c1, c2
Customers == Permutations(Conversations)
=============================================================================
