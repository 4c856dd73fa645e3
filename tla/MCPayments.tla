----------------------------- MODULE MCPayments -----------------------------
(***************************************************************************)
(* The parts of the payment plugin that share no rows, checked in one run: *)
(* a behaviour is one of a single part, and the others rest.               *)
(***************************************************************************)
EXTENDS Subscriptions, PaymentReads, Providers, TLC

VARIABLE part

parts == <<part, subscriptionVars, readVars, providerVars>>

SubscriptionsAtRest ==
  SubscriptionsInit /\ subscription = Row("never") /\ default = {"m1", "m3"}
ReadsAtRest == ReadsInit /\ table = <<>>
ProvidersAtRest == ProvidersInit /\ provider = None /\ currency = "USD"

MCInit ==
  \/ part \in {"subscriptions", "methods"} /\ SubscriptionsInit /\ ReadsAtRest /\ ProvidersAtRest
  \/ part = "reads" /\ SubscriptionsAtRest /\ ReadsInit /\ ProvidersAtRest
  \/ part = "providers" /\ SubscriptionsAtRest /\ ReadsAtRest /\ ProvidersInit

MCNext ==
  /\ UNCHANGED part
  /\ \/ \E r \in Requests :
          /\ \/ part = "subscriptions" /\ (SubscriptionRequest(r) \/ StopRequest(r))
             \/ part = "methods" /\ (MethodRequest(r) \/ StopRequest(r))
          /\ UNCHANGED <<readVars, providerVars>>
     \/ part = "reads" /\ ReadsNext /\ UNCHANGED <<subscriptionVars, providerVars>>
     \/ part = "providers" /\ ProvidersNext /\ UNCHANGED <<subscriptionVars, readVars>>

MCSpec == MCInit /\ [][MCNext]_parts

MCOwner == [m \in Methods |-> IF m = "m3" THEN "bob" ELSE "ann"]
MCChanges ==
  { [status |-> "PAST_DUE", cancelAtPeriodEnd |-> Keep, method |-> Keep],
    [status |-> "ACTIVE", cancelAtPeriodEnd |-> Keep, method |-> Keep],
    [status |-> "CANCELED", cancelAtPeriodEnd |-> "no", method |-> Keep],
    [status |-> Keep, cancelAtPeriodEnd |-> Keep, method |-> "m2"] }
Symmetry ==
  Permutations(Requests) \cup Permutations(Calls)
=============================================================================
