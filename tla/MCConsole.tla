----------------------------- MODULE MCConsole -----------------------------
(* The demo client and another. *)
EXTENDS Console, TLC

CONSTANTS a, b, d1, d2, d3
Ids == Permutations(Docs)
=============================================================================
