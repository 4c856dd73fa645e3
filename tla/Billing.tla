------------------------------- MODULE Billing -------------------------------
(***************************************************************************)
(* Invoices, payments, dunning and refunds of the payment plugin           *)
(* (plugins/payment/src/billing/billing.service.ts and                     *)
(* checkout/checkout.service.ts).                                          *)
(*                                                                         *)
(* Every operation is an async function that reads a row, awaits the       *)
(* payment provider and writes rows afterwards; only markInvoicePaid uses  *)
(* a database transaction.  A member of Payments is one call of            *)
(* processPayment, together with the provider's payment intent and the     *)
(* transaction row it creates; Sweeps are the calls of                     *)
(* processOverdueInvoices and Refunds those of refundPayment.              *)
(*                                                                         *)
(* The provider is external: it captures a payment once and never gives    *)
(* back more than it captured.  A refund that it has not settled when it   *)
(* answers settles later, or fails; nobody tells the rows.                 *)
(***************************************************************************)
EXTENDS Integers, FiniteSets

CONSTANTS
  Invoices, Payments, Sweeps, Refunds,
  Price,       \* the total of an invoice, in units that can be refunded
  Environment  \* what callers, payers and infrastructure may do

EnvironmentKinds ==
  { "overlap",   \* a call may start while another one is under way
    "handoff",   \* the provider may leave the confirmation to the payer
    "failure" }  \* an await may reject, or the process stop: no call cleans up

ASSUME PriceAssumption == Price \in Nat \ {0}
ASSUME EnvironmentAssumption == Environment \subseteq EnvironmentKinds
ASSUME IdsAssumption == "none" \notin Invoices \cup Payments

VARIABLES
  invoice,   \* the status of each invoice
  late,      \* the invoices whose due date has passed
  dunning,   \* the dunningLevel of each invoice
  paying,    \* where each processPayment call is, and its invoice
  txn,       \* the status of the transaction row of each payment
  marked,    \* the transactions whose type was set to REFUND
  captured,  \* the payments the provider has captured
  sweep,     \* where each sweep is, and the invoices it has still to update
  refund,    \* where each refund call is, its payment and its amount
  paidBack,  \* what the provider gave back of each payment
  open,      \* what refunds it has not settled yet hold of each payment
  booked,    \* the sum of the SUCCEEDED refund rows of each payment
  overlapped, \* history: whether a call started while another was under way
  revived,   \* history: the invoices a sweep updated although they were paid
  again      \* history: the payments accepted for an invoice with a
             \* transaction that had succeeded

billing == <<invoice, late, dunning>>
payments == <<paying, txn, captured>>
refunds == <<marked, refund, paidBack, open, booked>>
history == <<overlapped, revived, again>>
billingVars == <<billing, payments, sweep, refunds, history>>

InvoiceStatus == { "absent", "PENDING", "OVERDUE", "PAID" }
PayingAt == { "read", "direct", "handoff", "confirming", "confirmed" }
RefundingAt == { "read", "refunded", "recorded" }

\* refundPayment takes !amount for a full refund, so zero counts as absent;
\* nothing keeps the amount below the price.
Amounts == 0..(Price + 1)
NotGiven(amount) == amount = 0

BillingInit ==
  /\ invoice = [i \in Invoices |-> "absent"]
  /\ late = {}
  /\ dunning = [i \in Invoices |-> 0]
  /\ paying = [p \in Payments |-> [pc |-> "idle", invoice |-> "none"]]
  /\ txn = [p \in Payments |-> "none"]
  /\ marked = {}
  /\ captured = {}
  /\ sweep = [s \in Sweeps |-> [pc |-> "idle", left |-> {}]]
  /\ refund = [r \in Refunds |->
                 [pc |-> "idle", payment |-> "none", amount |-> 0,
                  asked |-> 0, at |-> "none", reported |-> 0]]
  /\ paidBack = [p \in Payments |-> 0]
  /\ open = [p \in Payments |-> 0]
  /\ booked = [p \in Payments |-> 0]
  /\ overlapped = FALSE
  /\ revived = {}
  /\ again = {}

\* No call is between its first read and its last write.
Quiet ==
  /\ \A p \in Payments : paying[p].pc \notin PayingAt
  /\ \A s \in Sweeps : sweep[s].pc # "updating"
  /\ \A r \in Refunds : refund[r].pc \notin RefundingAt

StartCall ==
  IF Quiet THEN UNCHANGED overlapped
           ELSE "overlap" \in Environment /\ overlapped' = TRUE

PaymentsOf(i) == {p \in Payments : paying[p].invoice = i}

-----------------------------------------------------------------------------
(* Invoices *)

\* createInvoice with its default due date, thirty days ahead, or from
\* createSubscriptionCheckout, where it is due at once.
CreateInvoice(i) ==
  /\ invoice[i] = "absent"
  /\ invoice' = [invoice EXCEPT ![i] = "PENDING"]
  /\ late' \in {late, late \cup {i}}
  /\ UNCHANGED <<dunning, payments, sweep, refunds, history>>

DueDatePasses(i) ==
  /\ invoice[i] # "absent"
  /\ i \notin late
  /\ late' = late \cup {i}
  /\ UNCHANGED <<invoice, dunning, payments, sweep, refunds, history>>

\* The where clause of processOverdueInvoices; without its status it would
\* list the paid invoices too.
DueInvoices == {i \in late : invoice[i] # "absent"}
OverdueInvoices == {i \in late : invoice[i] = "PENDING"}

ReadOverdue(s) ==
  /\ sweep[s].pc = "idle"
  /\ StartCall
  /\ sweep' = [sweep EXCEPT ![s] = [pc |-> "updating", left |-> OverdueInvoices]]
  /\ UNCHANGED <<billing, payments, refunds, revived, again>>

\* One iteration of the loop: the update does not look at the status again.
MarkOverdue(s, i) ==
  /\ i \in sweep[s].left
  /\ invoice' = [invoice EXCEPT ![i] = "OVERDUE"]
  /\ dunning' = [dunning EXCEPT ![i] = @ + 1]
  /\ sweep' = [sweep EXCEPT ![s].left = @ \ {i}]
  /\ revived' = IF invoice[i] = "PAID" THEN revived \cup {i} ELSE revived
  /\ UNCHANGED <<late, payments, refunds, overlapped, again>>

EndSweep(s) ==
  /\ sweep[s].pc = "updating"
  /\ sweep[s].left = {} \/ "failure" \in Environment
  /\ sweep' = [sweep EXCEPT ![s] = [pc |-> "ended", left |-> {}]]
  /\ UNCHANGED <<billing, payments, refunds, history>>

-----------------------------------------------------------------------------
(* Payments *)

\* The check before anything is created; NoCheck would charge again.
NoCheck(i) == FALSE
AlreadyPaid(i) == invoice[i] = "PAID"

\* processPayment reads the invoice and looks up the provider, which may not
\* be configured.
ReadInvoice(p, i) ==
  /\ paying[p].pc = "idle"
  /\ invoice[i] # "absent"
  /\ StartCall
  /\ \/ /\ paying' = [paying EXCEPT ![p] = [pc |-> "rejected", invoice |-> i]]
        /\ UNCHANGED again
     \/ /\ ~AlreadyPaid(i)
        /\ paying' = [paying EXCEPT ![p] = [pc |-> "read", invoice |-> i]]
        /\ again' = IF \E q \in PaymentsOf(i) : txn[q] = "SUCCEEDED"
                    THEN again \cup {p} ELSE again
  /\ UNCHANGED <<billing, txn, captured, sweep, refunds, revived>>

\* provider.createPaymentIntent; an intent with a redirect URL, a QR code or
\* a client secret hands the confirmation to the payer.
AwaitIntent(p) ==
  /\ paying[p].pc = "read"
  /\ \E kind \in {"direct", "handoff"} :
       /\ kind = "handoff" => "handoff" \in Environment
       /\ paying' = [paying EXCEPT ![p].pc = kind]
  /\ UNCHANGED <<billing, txn, captured, sweep, refunds, history>>

CreateTransaction(p) ==
  /\ paying[p].pc \in {"direct", "handoff"}
  /\ txn' = [txn EXCEPT ![p] = "PROCESSING"]
  /\ paying' = [paying EXCEPT ![p].pc =
                IF @ = "direct" THEN "confirming" ELSE "returned"]
  /\ UNCHANGED <<billing, captured, sweep, refunds, history>>

\* provider.confirmPayment.  Its status decides whether the invoice is marked;
\* a caller that ignored it would mark unpaid ones.
Ignored(succeeded) == TRUE
Accepted(succeeded) == succeeded

AwaitConfirmation(p) ==
  /\ paying[p].pc = "confirming"
  /\ \E succeeded \in BOOLEAN :
       /\ captured' = IF succeeded THEN captured \cup {p} ELSE captured
       /\ paying' = [paying EXCEPT ![p].pc =
                     IF Accepted(succeeded) THEN "confirmed" ELSE "returned"]
  /\ UNCHANGED <<billing, txn, sweep, refunds, history>>

\* One database transaction over both rows, whatever their status is by now.
MarkInvoicePaid(p) ==
  /\ paying[p].pc = "confirmed"
  /\ invoice' = [invoice EXCEPT ![paying[p].invoice] = "PAID"]
  /\ txn' = [txn EXCEPT ![p] = "SUCCEEDED"]
  /\ paying' = [paying EXCEPT ![p].pc = "returned"]
  /\ UNCHANGED <<late, dunning, captured, sweep, refunds, history>>

FailPayment(p) ==
  /\ "failure" \in Environment
  /\ paying[p].pc \in PayingAt
  /\ paying' = [paying EXCEPT ![p].pc = "failed"]
  /\ UNCHANGED <<billing, txn, captured, sweep, refunds, history>>

\* The payer follows the link, or a payment that was still processing goes
\* through: there is no webhook handler, so no row changes.
PayerPays(p) ==
  /\ "handoff" \in Environment
  /\ paying[p].pc = "returned"
  /\ captured' = captured \cup {p}
  /\ UNCHANGED <<billing, paying, txn, sweep, refunds, history>>

-----------------------------------------------------------------------------
(* Refunds *)

\* Only a succeeded transaction can be refunded.
Refundable(p) == txn[p] = "SUCCEEDED"

ReadTransaction(r, p, amount) ==
  /\ refund[r].pc = "idle"
  /\ txn[p] # "none"
  /\ StartCall
  /\ refund' = [refund EXCEPT ![r] =
       [@ EXCEPT !.pc = IF Refundable(p) THEN "read" ELSE "rejected",
                 !.payment = p, !.amount = amount]]
  /\ UNCHANGED <<billing, payments, sweep, marked, paidBack, open, booked,
                 revived, again>>

\* What is left to give back, and how much of it is asked for: everything
\* when no amount is given.
Remaining(p) == (IF p \in captured THEN Price ELSE 0) - paidBack[p] - open[p]
Asked(r) == IF NotGiven(refund[r].amount) THEN Remaining(refund[r].payment)
                                          ELSE refund[r].amount

\* provider.refundPayment is refused when it asks for more than is left.
RefuseRefund(r) ==
  /\ refund[r].pc = "read"
  /\ Asked(r) \notin 1..Remaining(refund[r].payment)
  /\ refund' = [refund EXCEPT ![r].pc = "refused"]
  /\ UNCHANGED <<billing, payments, sweep, marked, paidBack, open, booked, history>>

\* Otherwise the provider gives the money back at once and says "succeeded",
\* or says "pending" of a refund that is still open or has failed already; it
\* may report the amount as 0 (a PayPal answer without one).
AwaitRefund(r) ==
  LET p == refund[r].payment IN
  /\ refund[r].pc = "read"
  /\ Asked(r) \in 1..Remaining(p)
  /\ \E at \in {"given", "open"}, reported \in {Asked(r), 0} :
       /\ refund' = [refund EXCEPT ![r] =
            [@ EXCEPT !.pc = "refunded", !.asked = Asked(r), !.at = at,
                      !.reported = reported]]
       /\ paidBack' = [paidBack EXCEPT ![p] = IF at = "given" THEN @ + Asked(r) ELSE @]
       /\ open' = [open EXCEPT ![p] = IF at = "open" THEN @ + Asked(r) ELSE @]
  /\ UNCHANGED <<billing, payments, sweep, marked, booked, history>>

\* An open refund goes through or fails, whatever the call has come to.
SettleRefund(r) ==
  LET p == refund[r].payment IN
  /\ refund[r].at = "open"
  /\ \E at \in {"settled", "failed"} :
       /\ refund' = [refund EXCEPT ![r].at = at]
       /\ paidBack' = [paidBack EXCEPT ![p] =
                        IF at = "settled" THEN @ + refund[r].asked ELSE @]
  /\ open' = [open EXCEPT ![p] = @ - refund[r].asked]
  /\ UNCHANGED <<billing, payments, sweep, marked, booked, history>>

\* The status of the refund row: PENDING for whatever did not succeed.
AnyStatus(r) == "SUCCEEDED"
RowStatus(r) == IF refund[r].at = "given" THEN "SUCCEEDED" ELSE "PENDING"

\* The refund row carries the amount the provider reported.
CreateRefund(r) ==
  /\ refund[r].pc = "refunded"
  /\ booked' = [booked EXCEPT ![refund[r].payment] =
       IF RowStatus(r) = "SUCCEEDED" THEN @ + refund[r].reported ELSE @]
  /\ refund' = [refund EXCEPT ![r].pc = "recorded"]
  /\ UNCHANGED <<billing, payments, sweep, marked, paidBack, open, history>>

\* What the code takes for a full refund; any refund will not do.
AnyAmount(amount) == TRUE
InFull(amount) == NotGiven(amount) \/ amount >= Price

\* The type becomes REFUND, whatever the provider answered.
UpdateTransaction(r) ==
  /\ refund[r].pc = "recorded"
  /\ marked' = IF InFull(refund[r].amount)
               THEN marked \cup {refund[r].payment} ELSE marked
  /\ refund' = [refund EXCEPT ![r].pc = "returned"]
  /\ UNCHANGED <<billing, payments, sweep, paidBack, open, booked, history>>

FailRefund(r) ==
  /\ "failure" \in Environment
  /\ refund[r].pc \in RefundingAt
  /\ refund' = [refund EXCEPT ![r].pc = "failed"]
  /\ UNCHANGED <<billing, payments, sweep, marked, paidBack, open, booked, history>>

-----------------------------------------------------------------------------
ProcessPayment(p) ==
  \/ \E i \in Invoices : ReadInvoice(p, i)
  \/ AwaitIntent(p)
  \/ CreateTransaction(p)
  \/ AwaitConfirmation(p)
  \/ MarkInvoicePaid(p)
  \/ FailPayment(p)
  \/ PayerPays(p)

ProcessOverdueInvoices(s) ==
  \/ ReadOverdue(s)
  \/ \E i \in Invoices : MarkOverdue(s, i)
  \/ EndSweep(s)

Refunding(r) ==
  \/ \E p \in Payments, amount \in Amounts : ReadTransaction(r, p, amount)
  \/ RefuseRefund(r)
  \/ AwaitRefund(r)
  \/ SettleRefund(r)
  \/ CreateRefund(r)
  \/ UpdateTransaction(r)
  \/ FailRefund(r)

BillingNext ==
  \/ \E i \in Invoices : CreateInvoice(i) \/ DueDatePasses(i)
  \/ \E p \in Payments : ProcessPayment(p)
  \/ \E s \in Sweeps : ProcessOverdueInvoices(s)
  \/ \E r \in Refunds : Refunding(r)

BillingSpec == BillingInit /\ [][BillingNext]_billingVars

-----------------------------------------------------------------------------
(* Properties *)

\* Where a refund is at the provider that was told as pending.
ToldPending == {"open", "settled", "failed"}

BillingTypeOK ==
  /\ invoice \in [Invoices -> InvoiceStatus]
  /\ late \subseteq Invoices
  /\ dunning \in [Invoices -> Nat]
  /\ paying \in [Payments ->
       [pc : {"idle", "rejected", "returned", "failed"} \cup PayingAt,
        invoice : Invoices \cup {"none"}]]
  /\ txn \in [Payments -> {"none", "PROCESSING", "SUCCEEDED"}]
  /\ marked \subseteq Payments
  /\ captured \subseteq Payments
  /\ sweep \in [Sweeps -> [pc : {"idle", "updating", "ended"},
                           left : SUBSET Invoices]]
  /\ refund \in [Refunds ->
       [pc : {"idle", "rejected", "refused", "returned", "failed"}
               \cup RefundingAt,
        payment : Payments \cup {"none"}, amount : Amounts, asked : 0..Price,
        at : {"none", "given"} \cup ToldPending, reported : 0..Price]]
  /\ paidBack \in [Payments -> 0..Price]
  /\ open \in [Payments -> 0..Price]
  /\ booked \in [Payments -> Nat]
  /\ overlapped \in BOOLEAN
  /\ revived \subseteq Invoices
  /\ again \subseteq Payments

\* The books never run ahead of the provider: a transaction that succeeded
\* was captured, and a paid invoice has a captured, succeeded transaction
\* (processPayment marks only after the confirmation).
PaidMeansCaptured ==
  /\ \A p \in Payments : txn[p] = "SUCCEEDED" => p \in captured
  /\ \A i \in Invoices : invoice[i] = "PAID" =>
       \E p \in PaymentsOf(i) : txn[p] = "SUCCEEDED"

\* The SUCCEEDED refund rows never claim more than the provider gave back, only
\* a captured and succeeded payment is ever refunded, and a transaction whose
\* type is REFUND was given back in full unless a refund of it was told as
\* pending: of those the code does not wait for the end, and marks all the same
\* (refundPayment).
RefundsAddUp ==
  /\ \A p \in Payments :
       /\ booked[p] <= paidBack[p]
       /\ paidBack[p] + open[p] > 0 => txn[p] = "SUCCEEDED" /\ p \in captured
  /\ \A p \in marked :
       \/ paidBack[p] = Price
       \/ \E r \in Refunds : refund[r].payment = p /\ refund[r].at \in ToldPending

\* An invoice that was paid is not charged again by a call that begins later,
\* however payments and sweeps overlap, fail and are handed off: only a sweep
\* that updates a paid invoice from its stale list reopens it for payment.
NeverChargedAgain ==
  \A p \in captured \cap again : paying[p].invoice \in revived

\* A paid invoice is never dunned and stays paid, as long as no call starts
\* during another one: the sweep asks for the unpaid invoices, but updates
\* them later without asking again.
PaidIsSettled ==
  [][ ~overlapped' =>
        \A i \in Invoices : invoice[i] = "PAID" =>
          invoice'[i] = "PAID" /\ dunning'[i] = dunning[i] ]_billingVars

=============================================================================
