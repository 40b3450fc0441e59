------------------------------ MODULE MCPanel ------------------------------
(* Two admins, a client with an owner, and one to be onboarded.            *)
EXTENDS Panel, TLC
CONSTANTS o1, o2, u1, u2, a1, a2
OldClient == o1 :> u1
=============================================================================
