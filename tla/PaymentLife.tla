---------------------------- MODULE PaymentLife ----------------------------
(***************************************************************************)
(* What PaymentProviderInterface promises of one payment, whichever        *)
(* provider carries it out                                                 *)
(* (plugins/payment/src/providers/payment-provider.interface.ts): the      *)
(* payer is charged what was asked, once; a final status, once told, is    *)
(* true and stays true; and refunds add up.  Statuses that are not final   *)
(* may be told at any time and say nothing.                                *)
(***************************************************************************)
EXTENDS Integers

CONSTANT Price  \* the amount of the payment intent

VARIABLES
  money,    \* what the payer was charged
  back,     \* what was given back of it
  told,     \* the final statuses that callers were told
  reported  \* the sum of the refunds that callers were told of

vars == <<money, back, told, reported>>

FinalStatus == {"SUCCEEDED", "CANCELED", "FAILED"}

Init == money = 0 /\ back = 0 /\ told = {} /\ reported = 0

Charge ==
  /\ money = 0 /\ told = {}
  /\ money' = Price
  /\ UNCHANGED <<back, told, reported>>

Tell(status) ==
  /\ status = "SUCCEEDED" <=> money = Price
  /\ told' = told \cup {status}
  /\ UNCHANGED <<money, back, reported>>

GiveBack ==
  /\ back' \in (back + 1)..money
  /\ UNCHANGED <<money, told, reported>>

ReportRefund ==
  /\ reported' \in (reported + 1)..back
  /\ UNCHANGED <<money, back, told>>

Next ==
  \/ Charge \/ GiveBack \/ ReportRefund
  \/ \E status \in FinalStatus : Tell(status)

Spec == Init /\ [][Next]_vars
=============================================================================
