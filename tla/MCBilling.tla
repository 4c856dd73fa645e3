------------------------------ MODULE MCBilling ------------------------------
(***************************************************************************)
(* Billing and the saga of a subscription payment, checked in one run.     *)
(* They share no rows - the saga's helpers are placeholders - so that a    *)
(* behaviour is one of either while the other rests.  Payments and refunds *)
(* are interchangeable.                                                    *)
(***************************************************************************)
EXTENDS Billing, PaymentSaga, TLC

VARIABLE part

Symmetry == Permutations(Payments) \cup Permutations(Refunds)

MCInit == part \in {"billing", "saga"} /\ BillingInit /\ PaymentInit

MCNext ==
  /\ UNCHANGED part
  /\ \/ part = "billing" /\ BillingNext /\ UNCHANGED payment
     \/ part = "saga" /\ PaymentNext /\ UNCHANGED billingVars

MCSpec == MCInit /\ [][MCNext]_<<part, billingVars, payment>>

=============================================================================
