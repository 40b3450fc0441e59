---------------------------- MODULE MCRetention ----------------------------
(* Two clients with a conversation and a picture each; one of them may ask *)
(* for longer terms.                                                       *)
EXTENDS Retention, TLC
CONSTANTS m1, m2, c1, c2, o1, o2
TwoConversations == m1 :> c1 @@ m2 :> c2
TwoClients == c1 :> o1 @@ c2 :> o2
Longer == {[media |-> 1, rows |-> 3]}
=============================================================================
