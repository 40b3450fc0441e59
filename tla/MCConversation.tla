--------------------------- MODULE MCConversation ---------------------------
(* The instances of Conversation that TLC checks: one customer who writes  *)
(* one or two messages, and one dashboard session.                         *)
EXTENDS Conversation

CONSTANTS m1, m2, a

\* Every message is a question for the model.
AllText    == [m \in Msgs |-> "text"]
\* The first message trips the prefilter.
OneFlagged == [m \in Msgs |-> IF m = m1 THEN "flagged" ELSE "text"]
\* The first is a picture; the classifier may flag it.
OneImage   == [m \in Msgs |-> IF m = m1 THEN "image" ELSE "text"]
\* m1 was sent before m2, whichever arrives first.
Order      == [m \in Msgs |-> IF m = m1 THEN 0 ELSE 1]
=============================================================================
