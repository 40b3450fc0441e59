-------------------------- MODULE MCReplyDecision --------------------------
(* Values for ReplyDecision's constants: a day of three minutes, open      *)
(* across midnight, and a clock behind the clinic's wall.                  *)
EXTENDS ReplyDecision, TLC

CONSTANTS c1, c2

AllFaults == {"org", "spend", "usage"}
NoFaults == {}
Symmetry == Permutations(Convs)
=============================================================================
