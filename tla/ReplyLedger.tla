---------------------------- MODULE ReplyLedger ----------------------------
(***************************************************************************)
(* What a conversation promises of its replies, whatever is lost, retried, *)
(* redelivered or erased: the reply to a burst, told apart by the message  *)
(* it answers, is claimed, then sent, then charged, each at most once; a   *)
(* claim and a send are never taken back, and a charge only goes when the  *)
(* customer is forgotten.  Module Conversation implements it.              *)
(***************************************************************************)
EXTENDS Naturals

CONSTANT Msgs
VARIABLES claimed, sent, charged

ledger == <<claimed, sent, charged>>

Init == /\ claimed = {}
        /\ sent = [m \in Msgs |-> 0] /\ charged = [m \in Msgs |-> 0]

Claim(m) ==
    /\ m \notin claimed /\ claimed' = claimed \cup {m}
    /\ UNCHANGED <<sent, charged>>

\* Only under its claim: a sender that stops between the two is not followed
\* by another.
Send(m) ==
    /\ m \in claimed /\ sent[m] = 0 /\ sent' = [sent EXCEPT ![m] = 1]
    /\ UNCHANGED <<claimed, charged>>

Charge(m) ==
    /\ sent[m] = 1 /\ charged[m] = 0 /\ charged' = [charged EXCEPT ![m] = 1]
    /\ UNCHANGED <<claimed, sent>>

Forget ==
    /\ charged' = [m \in Msgs |-> 0]
    /\ UNCHANGED <<claimed, sent>>

Next == Forget \/ \E m \in Msgs : Claim(m) \/ Send(m) \/ Charge(m)

Spec == Init /\ [][Next]_ledger
=============================================================================
