------------------------------ MODULE MCIntake ------------------------------
(* Two clients, the second onboarded on the way.  A post of three messages,
   the second of them for another number, and a post of two receipts. *)
EXTENDS Intake, TLC

CONSTANTS a1, a2, p1, p2, m1, m2, m3, o1

MCSlug == (p1 :> a1) @@ (p2 :> a1)
MCMessages == (p1 :> <<[id |-> m1, number |-> a1], [id |-> m2, number |-> a2],
                       [id |-> m3, number |-> a1]>>) @@ (p2 :> <<>>)
MCReceipts == (p1 :> <<>>)
              @@ (p2 :> <<[of |-> o1, status |-> "delivered"], [of |-> o1, status |-> "read"]>>)
=============================================================================
