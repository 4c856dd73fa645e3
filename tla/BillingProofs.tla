---------------------------- MODULE BillingProofs ----------------------------
(***************************************************************************)
(* Theorems about the modules that take and keep money: Billing, for any   *)
(* sets of invoices, payments, sweeps and refunds, every price and every   *)
(* environment; and PaymentSaga, whose five steps the orchestrator of Saga *)
(* runs, from the invariants of SagaProofs.                                *)
(***************************************************************************)
EXTENDS Billing, PaymentSaga, SagaProofs, FiniteSetTheorems

-----------------------------------------------------------------------------
(* The inductive invariant *)

\* A call has an invoice from its first step on, and its transaction is
\* where the call has left it.
CallInv ==
  /\ \A p \in Payments : paying[p].pc = "idle" <=> paying[p].invoice = "none"
  /\ \A p \in Payments : paying[p].pc \in {"idle", "read", "direct", "handoff", "rejected"}
                           => txn[p] = "none"
  /\ \A p \in Payments : txn[p] = "SUCCEEDED" => paying[p].pc = "returned"
  /\ \A p \in Payments : paying[p].pc = "confirmed" => p \in captured
  /\ \A p \in captured : paying[p].pc \in {"confirmed", "returned", "failed"}

\* A refund of payment p was told as pending.
SomePending(p) == \E r \in Refunds : refund[r].payment = p /\ refund[r].at \in ToldPending

\* A refund past its first read, or known to the provider, has a payment that
\* was captured; what was asked for in full is given back in full, but for what
\* is pending.
RefundInv ==
  /\ \A r \in Refunds :
       LET p == refund[r].payment IN
       /\ refund[r].pc \in RefundingAt \/ refund[r].at # "none" =>
            p \in Payments /\ txn[p] = "SUCCEEDED"
       /\ refund[r].pc \in {"idle", "read"} => refund[r].at = "none"
       /\ refund[r].pc \in {"refunded", "recorded"} /\ InFull(refund[r].amount) =>
            paidBack[p] = Price \/ SomePending(p)
  /\ \A p \in Payments : /\ paidBack[p] + open[p] <= Price
                         /\ open[p] > 0 => SomePending(p)

\* What a SUCCEEDED row of refund r has yet to say of payment p, and what an
\* open refund r holds of it.
Unbooked(r, p) ==
  IF refund[r].pc = "refunded" /\ refund[r].payment = p /\ refund[r].at = "given"
  THEN refund[r].reported ELSE 0
Held(r, p) ==
  IF refund[r].payment = p /\ refund[r].at = "open" THEN refund[r].asked ELSE 0

\* f adds the weights up over every set of refunds.
AddsUp(f, weight) ==
  /\ f \in [SUBSET Refunds -> Nat]
  /\ \A S \in SUBSET Refunds : \A r \in Refunds \ S : f[S \cup {r}] = f[S] + weight[r]

\* The rows and what is yet to be booked are not more than was given back, and
\* the open refunds add up to what they hold.
BookInv ==
  \A p \in Payments :
    /\ \E f : /\ AddsUp(f, [r \in Refunds |-> Unbooked(r, p)])
             /\ booked[p] + f[Refunds] <= paidBack[p]
    /\ \E f : /\ AddsUp(f, [r \in Refunds |-> Held(r, p)])
             /\ f[Refunds] = open[p]

\* As long as no call starts during another one, a payment at work and a sweep
\* exclude each other, and so do two payments.
Alone ==
  ~overlapped =>
    /\ \A p, q \in Payments : p # q =>
         paying[p].pc \notin PayingAt \/ paying[q].pc \notin PayingAt
    /\ \A p \in Payments, s \in Sweeps :
         paying[p].pc \notin PayingAt \/ sweep[s].pc # "updating"

SweepInv ==
  /\ \A s \in Sweeps : sweep[s].left # {} => sweep[s].pc = "updating"
  /\ ~overlapped =>
       \A s \in Sweeps : \A i \in sweep[s].left : invoice[i] # "PAID"

\* A transaction succeeds with its invoice, and only a sweep tears them apart.
ChargeInv ==
  /\ \A p \in Payments : txn[p] = "SUCCEEDED" =>
       invoice[paying[p].invoice] = "PAID" \/ paying[p].invoice \in revived
  /\ \A p \in again : paying[p].pc # "idle" /\ paying[p].invoice \in revived

BillingInv == /\ BillingTypeOK /\ CallInv /\ PaidMeansCaptured /\ RefundInv /\ BookInv
              /\ RefundsAddUp /\ Alone /\ SweepInv /\ ChargeInv

-----------------------------------------------------------------------------
(* Types *)

PaymentRecords == [pc : {"idle", "rejected", "returned", "failed"} \cup PayingAt,
                   invoice : Invoices \cup {"none"}]
RefundRecords ==
  [pc : {"idle", "rejected", "refused", "returned", "failed"} \cup RefundingAt,
   payment : Payments \cup {"none"}, amount : Amounts, asked : 0..Price,
   at : {"none", "given"} \cup ToldPending, reported : 0..Price]

\* Refund r as the provider takes it on, and as it settles it.
TakenOn(r, asked, at, reported) ==
  LET p == refund[r].payment IN
  /\ refund' = [refund EXCEPT ![r] =
       [refund[r] EXCEPT !.pc = "refunded", !.asked = asked, !.at = at,
                         !.reported = reported]]
  /\ paidBack' = [paidBack EXCEPT ![p] = IF at = "given" THEN @ + asked ELSE @]
  /\ open' = [open EXCEPT ![p] = IF at = "open" THEN @ + asked ELSE @]
Settled(r, at) ==
  LET p == refund[r].payment IN
  /\ refund' = [refund EXCEPT ![r] = [refund[r] EXCEPT !.at = at]]
  /\ paidBack' = [paidBack EXCEPT ![p] = IF at = "settled" THEN @ + refund[r].asked ELSE @]
  /\ open' = [open EXCEPT ![p] = @ - refund[r].asked]

LEMMA BillingInitInv == BillingInit => BillingInv
<1> SUFFICES ASSUME BillingInit PROVE BillingInv
  OBVIOUS
<1> USE PriceAssumption, IdsAssumption DEF BillingInit
<1>1. BillingTypeOK
  <2>1. refund \in [Refunds -> RefundRecords]
    BY DEF RefundRecords, RefundingAt, Amounts
  <2>2. /\ paidBack \in [Payments -> 0..Price] /\ open \in [Payments -> 0..Price]
        /\ booked \in [Payments -> Nat]
    OBVIOUS
  <2>3. overlapped \in BOOLEAN /\ revived \subseteq Invoices /\ again \subseteq Payments
    OBVIOUS
  <2>4. /\ invoice \in [Invoices -> InvoiceStatus]
        /\ paying \in [Payments -> PaymentRecords]
        /\ dunning \in [Invoices -> Nat]
    BY DEF InvoiceStatus, PaymentRecords, PayingAt
  <2> QED
    BY <2>1, <2>2, <2>3, <2>4 DEF BillingTypeOK, RefundRecords, PaymentRecords
<1>2. CallInv /\ PaidMeansCaptured /\ RefundInv /\ RefundsAddUp /\ Alone /\ SweepInv /\ ChargeInv
  BY DEF CallInv, PaidMeansCaptured, RefundInv, RefundsAddUp, Alone, SweepInv, ChargeInv,
         PayingAt, RefundingAt
<1>3. BookInv
  <2> SUFFICES ASSUME NEW p \in Payments
               PROVE  /\ \E f : /\ AddsUp(f, [r \in Refunds |-> Unbooked(r, p)])
                               /\ booked[p] + f[Refunds] <= paidBack[p]
                      /\ \E f : /\ AddsUp(f, [r \in Refunds |-> Held(r, p)])
                               /\ f[Refunds] = open[p]
    BY DEF BookInv
  <2> DEFINE zero == [S \in SUBSET Refunds |-> 0]
  <2>1. /\ AddsUp(zero, [r \in Refunds |-> Unbooked(r, p)])
        /\ AddsUp(zero, [r \in Refunds |-> Held(r, p)])
    BY DEF AddsUp, Unbooked, Held
  <2>2. booked[p] + zero[Refunds] <= paidBack[p] /\ zero[Refunds] = open[p]
    OBVIOUS
  <2> QED
    BY <2>1, <2>2
<1> QED
  BY <1>1, <1>2, <1>3 DEF BillingInv

\* What the provider does about refund r: it takes it on, within what is left of
\* the payment, all of that if it was asked for.
LEMMA RefundTakenOn ==
  ASSUME BillingInv, NEW r \in Refunds, AwaitRefund(r)
  PROVE  \E asked \in 1..Price, at \in {"given", "open"}, reported \in 0..Price :
           /\ refund[r].payment \in captured
           /\ reported <= asked
           /\ paidBack[refund[r].payment] + open[refund[r].payment] + asked <= Price
           /\ InFull(refund[r].amount) =>
                paidBack[refund[r].payment] + open[refund[r].payment] + asked = Price
           /\ TakenOn(r, asked, at, reported)
<1> USE PriceAssumption
<1> DEFINE p == refund[r].payment
<1>1. p \in Payments /\ p \in captured
  BY DEF AwaitRefund, BillingInv, RefundInv, PaidMeansCaptured, RefundingAt
<1>2. paidBack[p] \in 0..Price /\ open[p] \in 0..Price /\ refund[r].amount \in Nat
  BY <1>1 DEF BillingInv, BillingTypeOK, Amounts
<1>3. Remaining(p) = Price - paidBack[p] - open[p]
  BY <1>1 DEF Remaining
<1>4. Asked(r) \in 1..Price /\ paidBack[p] + open[p] + Asked(r) <= Price
  BY <1>2, <1>3 DEF AwaitRefund
<1>5. InFull(refund[r].amount) => paidBack[p] + open[p] + Asked(r) = Price
  BY <1>2, <1>3, <1>4 DEF Asked, NotGiven, InFull
<1>6. refund \in [Refunds -> RefundRecords] /\ refund[r] \in RefundRecords
  BY DEF BillingInv, BillingTypeOK, RefundRecords
<1>7. PICK at \in {"given", "open"}, reported \in {Asked(r), 0} :
        /\ refund' = [refund EXCEPT ![r] =
             [@ EXCEPT !.pc = "refunded", !.asked = Asked(r), !.at = at,
                       !.reported = reported]]
        /\ paidBack' = [paidBack EXCEPT ![p] = IF at = "given" THEN @ + Asked(r) ELSE @]
        /\ open' = [open EXCEPT ![p] = IF at = "open" THEN @ + Asked(r) ELSE @]
  BY DEF AwaitRefund
<1>8. refund' = [refund EXCEPT ![r] =
        [refund[r] EXCEPT !.pc = "refunded", !.asked = Asked(r), !.at = at,
                          !.reported = reported]]
  BY <1>6, <1>7
<1>9. reported \in 0..Price /\ reported <= Asked(r)
  BY <1>4
<1> QED
  BY <1>1, <1>4, <1>5, <1>7, <1>8, <1>9 DEF TakenOn

\* The weight of one member is no more than that of the whole.
LEMMA PartOfWhole ==
  ASSUME NEW f, NEW weight, AddsUp(f, weight), NEW r \in Refunds, weight[r] \in Nat,
         NEW S \in SUBSET Refunds, r \in S
  PROVE  weight[r] <= f[S]
<1> DEFINE T == S \ {r}
<1>1. T \in SUBSET Refunds /\ r \in Refunds \ T /\ T \cup {r} = S
  OBVIOUS
<1>2. f[T] \in Nat /\ f[T \cup {r}] = f[T] + weight[r]
  BY <1>1 DEF AddsUp
<1>3. f[S] = f[T] + weight[r]
  BY <1>1, <1>2
<1> HIDE DEF T
<1> QED
  BY <1>2, <1>3

\* An open refund that is settled held what it takes out of open.
LEMMA RefundSettled ==
  ASSUME BillingInv, NEW r \in Refunds, SettleRefund(r)
  PROVE  \E at \in {"settled", "failed"} :
           /\ refund[r].payment \in Payments
           /\ refund[r].asked \in 0..open[refund[r].payment]
           /\ Settled(r, at)
<1> DEFINE p == refund[r].payment
<1>1. p \in Payments /\ refund[r].at = "open"
  BY DEF SettleRefund, BillingInv, RefundInv
<1>2. refund \in [Refunds -> RefundRecords] /\ refund[r].asked \in 0..Price
  BY PriceAssumption DEF BillingInv, BillingTypeOK, RefundRecords
<1>3. PICK f : AddsUp(f, [q \in Refunds |-> Held(q, p)]) /\ f[Refunds] = open[p]
  BY <1>1 DEF BillingInv, BookInv
<1>4. refund[r].asked <= open[p]
  <2> DEFINE weight == [q \in Refunds |-> Held(q, p)]
  <2>1. weight[r] = refund[r].asked
    BY <1>1 DEF Held
  <2>2. weight[r] \in Nat /\ AddsUp(f, weight)
    BY <1>2, <1>3, <2>1, PriceAssumption
  <2> HIDE DEF weight
  <2>3. weight[r] <= f[Refunds]
    BY <2>2, PartOfWhole
  <2> QED
    BY <1>3, <2>1, <2>3
<1>5. open[p] \in Nat
  BY <1>1, PriceAssumption DEF BillingInv, BillingTypeOK
<1>6. PICK at \in {"settled", "failed"} :
        /\ refund' = [refund EXCEPT ![r].at = at]
        /\ paidBack' = [paidBack EXCEPT ![p] =
                         IF at = "settled" THEN @ + refund[r].asked ELSE @]
  BY DEF SettleRefund
<1>7. refund' = [refund EXCEPT ![r] = [refund[r] EXCEPT !.at = at]]
  BY <1>2, <1>6
<1>8. open' = [open EXCEPT ![p] = @ - refund[r].asked]
  BY DEF SettleRefund
<1>9. refund[r].asked \in 0..open[p]
  BY <1>2, <1>4, <1>5, PriceAssumption
<1> QED
  BY <1>1, <1>6, <1>7, <1>8, <1>9 DEF Settled

LEMMA RefundRecordsKept ==
  ASSUME NEW rec \in RefundRecords, NEW asked \in 1..Price,
         NEW at \in {"given", "open"}, NEW reported \in 0..Price
  PROVE  [rec EXCEPT !.pc = "refunded", !.asked = asked, !.at = at,
                     !.reported = reported] \in RefundRecords
<1>1. asked \in 0..Price
  BY PriceAssumption
<1> QED
  BY <1>1 DEF RefundRecords, RefundingAt, ToldPending

\* What both do to the fields and to the money.
LEMMA TakenOnMoves ==
  ASSUME BillingTypeOK, NEW r \in Refunds, refund[r].payment \in Payments,
         NEW asked \in Nat, NEW at, NEW reported, TakenOn(r, asked, at, reported)
  PROVE  LET p == refund[r].payment IN
         /\ refund'[r].payment = p /\ refund'[r].amount = refund[r].amount
         /\ refund'[r].pc = "refunded" /\ refund'[r].asked = asked
         /\ refund'[r].at = at /\ refund'[r].reported = reported
         /\ paidBack'[p] = IF at = "given" THEN paidBack[p] + asked ELSE paidBack[p]
         /\ open'[p] = IF at = "open" THEN open[p] + asked ELSE open[p]
         /\ \A o \in Payments \ {p} : paidBack'[o] = paidBack[o] /\ open'[o] = open[o]
<1>1. refund \in [Refunds -> RefundRecords] /\ refund[r] \in RefundRecords
      /\ paidBack \in [Payments -> 0..Price] /\ open \in [Payments -> 0..Price]
  BY DEF BillingTypeOK, RefundRecords
<1> QED
  BY <1>1 DEF TakenOn, RefundRecords

LEMMA SettledMoves ==
  ASSUME BillingTypeOK, NEW r \in Refunds, refund[r].payment \in Payments,
         NEW at, Settled(r, at)
  PROVE  LET p == refund[r].payment IN
         /\ refund'[r].payment = p /\ refund'[r].amount = refund[r].amount
         /\ refund'[r].pc = refund[r].pc /\ refund'[r].asked = refund[r].asked
         /\ refund'[r].at = at
         /\ paidBack'[p] = IF at = "settled" THEN paidBack[p] + refund[r].asked
                                            ELSE paidBack[p]
         /\ open'[p] = open[p] - refund[r].asked
         /\ \A o \in Payments \ {p} : paidBack'[o] = paidBack[o] /\ open'[o] = open[o]
<1>1. refund \in [Refunds -> RefundRecords] /\ refund[r] \in RefundRecords
      /\ paidBack \in [Payments -> 0..Price] /\ open \in [Payments -> 0..Price]
  BY DEF BillingTypeOK, RefundRecords
<1> QED
  BY <1>1 DEF Settled, RefundRecords

LEMMA BillingTypeNext == BillingInv /\ [BillingNext]_billingVars => BillingTypeOK'
<1> SUFFICES ASSUME BillingInv, [BillingNext]_billingVars PROVE BillingTypeOK'
  OBVIOUS
<1> BillingTypeOK
  BY DEF BillingInv
<1> USE PriceAssumption
    DEF BillingTypeOK, InvoiceStatus, PayingAt, RefundingAt, Amounts, ToldPending,
        billing, payments, refunds, history, StartCall
<1>1. ASSUME NEW i \in Invoices, CreateInvoice(i) \/ DueDatePasses(i)
      PROVE  BillingTypeOK'
  BY <1>1 DEF CreateInvoice, DueDatePasses
<1>2. ASSUME NEW s \in Sweeps, ProcessOverdueInvoices(s) PROVE BillingTypeOK'
  <2>1. CASE ReadOverdue(s)
    BY <2>1 DEF ReadOverdue, OverdueInvoices
  <2>2. ASSUME NEW i \in Invoices, MarkOverdue(s, i) PROVE BillingTypeOK'
    BY <2>2 DEF MarkOverdue
  <2>3. CASE EndSweep(s)
    BY <2>3 DEF EndSweep
  <2> QED
    BY <1>2, <2>1, <2>2, <2>3 DEF ProcessOverdueInvoices
<1>3. ASSUME NEW p \in Payments, ProcessPayment(p) PROVE BillingTypeOK'
  <2>1. ASSUME NEW i \in Invoices, ReadInvoice(p, i) PROVE BillingTypeOK'
    <3>1. ASSUME NEW here \in {"rejected", "read"},
                 paying' = [paying EXCEPT ![p] = [pc |-> here, invoice |-> i]]
          PROVE  paying' \in [Payments -> PaymentRecords]
      BY <3>1 DEF PaymentRecords
    <3> QED
      BY <2>1, <3>1 DEF ReadInvoice, PaymentRecords
  <2>2. CASE AwaitIntent(p)
    BY <2>2 DEF AwaitIntent
  <2>3. CASE CreateTransaction(p)
    BY <2>3 DEF CreateTransaction
  <2>4. CASE AwaitConfirmation(p)
    BY <2>4 DEF AwaitConfirmation, Accepted
  <2>5. CASE MarkInvoicePaid(p)
    <3>1. invoice' \in [Invoices -> InvoiceStatus]
      BY <2>5 DEF MarkInvoicePaid
    <3>2. paying' \in [Payments -> PaymentRecords]
      BY <2>5 DEF MarkInvoicePaid, PaymentRecords
    <3> QED
      BY <2>5, <3>1, <3>2 DEF MarkInvoicePaid, PaymentRecords
  <2>6. CASE FailPayment(p)
    BY <2>6 DEF FailPayment
  <2>7. CASE PayerPays(p)
    BY <2>7 DEF PayerPays
  <2> QED
    BY <1>3, <2>1, <2>2, <2>3, <2>4, <2>5, <2>6, <2>7 DEF ProcessPayment
<1>4. ASSUME NEW r \in Refunds, Refunding(r) PROVE BillingTypeOK'
  <2>0. refund[r] \in RefundRecords
    BY DEF RefundRecords
  <2>1. ASSUME NEW p \in Payments, NEW amount \in Amounts, ReadTransaction(r, p, amount)
        PROVE  BillingTypeOK'
    <3>1. [refund[r] EXCEPT !.pc = IF Refundable(p) THEN "read" ELSE "rejected",
                            !.payment = p, !.amount = amount] \in RefundRecords
      BY <2>0 DEF RefundRecords
    <3>2. refund' \in [Refunds -> RefundRecords]
      BY <2>1, <3>1 DEF ReadTransaction, RefundRecords
    <3> QED
      BY <2>1, <3>2 DEF ReadTransaction, RefundRecords
  <2>2. CASE AwaitRefund(r)
    <3>1. PICK asked \in 1..Price, at \in {"given", "open"}, reported \in 0..Price :
            /\ refund[r].payment \in captured
            /\ paidBack[refund[r].payment] + open[refund[r].payment] + asked <= Price
            /\ TakenOn(r, asked, at, reported)
      BY <2>2, RefundTakenOn
    <3>2. paidBack' \in [Payments -> 0..Price] /\ open' \in [Payments -> 0..Price]
      BY <3>1 DEF TakenOn
    <3>3. [refund[r] EXCEPT !.pc = "refunded", !.asked = asked, !.at = at,
                            !.reported = reported] \in RefundRecords
      BY <2>0, <3>1, RefundRecordsKept
    <3>4. refund' \in [Refunds -> RefundRecords]
      BY <3>1, <3>3 DEF TakenOn, RefundRecords
    <3> QED
      BY <2>2, <3>2, <3>4 DEF AwaitRefund, RefundRecords
  <2>3. CASE CreateRefund(r)
    <3>1. refund' \in [Refunds -> RefundRecords]
      BY <2>0, <2>3 DEF CreateRefund, RefundRecords
    <3>2. booked' \in [Payments -> Nat]
      <4>1. refund[r].payment \in Payments /\ refund[r].reported \in Nat
        BY <2>0, <2>3 DEF CreateRefund, RefundRecords, BillingInv, RefundInv
      <4> QED
        BY <2>3, <4>1 DEF CreateRefund
    <3> QED
      BY <2>3, <3>1, <3>2 DEF CreateRefund, RefundRecords
  <2>4. CASE UpdateTransaction(r)
    <3>1. refund' \in [Refunds -> RefundRecords]
      BY <2>0, <2>4 DEF UpdateTransaction, RefundRecords
    <3>2. marked' \subseteq Payments
      <4>1. refund[r].payment \in Payments
        BY <2>4 DEF UpdateTransaction, BillingInv, RefundInv
      <4> QED
        BY <2>4, <4>1 DEF UpdateTransaction
    <3> QED
      BY <2>4, <3>1, <3>2 DEF UpdateTransaction, RefundRecords
  <2>5. CASE FailRefund(r)
    <3>1. refund' \in [Refunds -> RefundRecords]
      BY <2>0, <2>5 DEF FailRefund, RefundRecords
    <3> QED
      BY <2>5, <3>1 DEF FailRefund, RefundRecords
  <2>6. CASE RefuseRefund(r)
    <3>1. refund' \in [Refunds -> RefundRecords]
      BY <2>0, <2>6 DEF RefuseRefund, RefundRecords
    <3> QED
      BY <2>6, <3>1 DEF RefuseRefund, RefundRecords
  <2>7. CASE SettleRefund(r)
    <3>1. PICK at \in {"settled", "failed"} :
            /\ refund[r].payment \in Payments
            /\ refund[r].asked \in 0..open[refund[r].payment]
            /\ Settled(r, at)
      BY <2>7, RefundSettled
    <3>2. paidBack' \in [Payments -> 0..Price] /\ open' \in [Payments -> 0..Price]
      BY <3>1 DEF BillingInv, RefundInv, Settled
    <3>3. [refund[r] EXCEPT !.at = at] \in RefundRecords
      BY <2>0, <3>1 DEF RefundRecords
    <3>4. refund' \in [Refunds -> RefundRecords]
      BY <3>1, <3>3 DEF Settled, RefundRecords
    <3> QED
      BY <2>7, <3>2, <3>4 DEF SettleRefund, RefundRecords
  <2> QED
    BY <1>4, <2>1, <2>2, <2>3, <2>4, <2>5, <2>6, <2>7 DEF Refunding
<1>5. CASE UNCHANGED billingVars
  BY <1>5 DEF billingVars
<1> QED
  BY <1>1, <1>2, <1>3, <1>4, <1>5 DEF BillingNext

-----------------------------------------------------------------------------
(* What the calls leave alone *)

LEMMA RefundsFrame ==
  ASSUME NEW r \in Refunds, Refunding(r)
  PROVE  /\ UNCHANGED <<invoice, late, dunning, paying, txn, captured, sweep, revived, again>>
         /\ overlapped => overlapped'
<1> USE DEF billing, payments, history
<1>1. ASSUME NEW p \in Payments, NEW amount \in Amounts, ReadTransaction(r, p, amount)
      PROVE  /\ UNCHANGED <<invoice, late, dunning, paying, txn, captured, sweep, revived, again>>
             /\ overlapped => overlapped'
  BY <1>1 DEF ReadTransaction, StartCall
<1>2. ASSUME \/ RefuseRefund(r) \/ AwaitRefund(r) \/ SettleRefund(r) \/ CreateRefund(r)
             \/ UpdateTransaction(r) \/ FailRefund(r)
      PROVE  UNCHANGED <<invoice, late, dunning, paying, txn, captured, sweep, history>>
  BY <1>2 DEF RefuseRefund, AwaitRefund, SettleRefund, CreateRefund, UpdateTransaction, FailRefund
<1> QED
  BY <1>1, <1>2 DEF Refunding

LEMMA SweepsFrame ==
  ASSUME NEW s \in Sweeps, ProcessOverdueInvoices(s)
  PROVE  /\ UNCHANGED <<late, payments, refunds, again>>
         /\ overlapped => overlapped'
         /\ UNCHANGED <<invoice, revived>> \/ \E i \in Invoices : MarkOverdue(s, i)
BY DEF ProcessOverdueInvoices, ReadOverdue, MarkOverdue, EndSweep, StartCall, billing, history

LEMMA PaymentsFrame ==
  ASSUME NEW p \in Payments, ProcessPayment(p)
  PROVE  /\ UNCHANGED <<late, dunning, sweep, refunds, revived>>
         /\ overlapped => overlapped'
         /\ UNCHANGED invoice \/ MarkInvoicePaid(p)
BY DEF ProcessPayment, ReadInvoice, AwaitIntent, CreateTransaction, AwaitConfirmation,
       MarkInvoicePaid, FailPayment, PayerPays, StartCall, billing, refunds, history

-----------------------------------------------------------------------------
(* The books and the provider *)

LEMMA CallNext == BillingInv /\ [BillingNext]_billingVars => CallInv' /\ PaidMeansCaptured'
<1> SUFFICES ASSUME BillingInv, [BillingNext]_billingVars PROVE CallInv' /\ PaidMeansCaptured'
  OBVIOUS
<1> BillingTypeOK /\ CallInv /\ PaidMeansCaptured
  BY DEF BillingInv
<1> USE IdsAssumption
    DEF CallInv, PaidMeansCaptured, PaymentsOf, BillingTypeOK, PayingAt, billing, payments
<1>1. CASE UNCHANGED <<invoice, paying, txn, captured>>
  BY <1>1
<1>2. ASSUME NEW i \in Invoices, CreateInvoice(i) \/ DueDatePasses(i)
      PROVE  CallInv' /\ PaidMeansCaptured'
  BY <1>2 DEF CreateInvoice, DueDatePasses
<1>3. ASSUME NEW s \in Sweeps, NEW i \in Invoices, MarkOverdue(s, i)
      PROVE  CallInv' /\ PaidMeansCaptured'
  BY <1>3 DEF MarkOverdue
<1>4. ASSUME NEW p \in Payments, ProcessPayment(p) PROVE CallInv' /\ PaidMeansCaptured'
  <2>1. ASSUME NEW i \in Invoices, ReadInvoice(p, i) PROVE CallInv' /\ PaidMeansCaptured'
    <3>1. ASSUME NEW here \in {"rejected", "read"},
                 paying' = [paying EXCEPT ![p] = [pc |-> here, invoice |-> i]],
                 paying[p].pc = "idle", UNCHANGED <<invoice, txn, captured>>
          PROVE  CallInv' /\ PaidMeansCaptured'
      BY <3>1
    <3> QED
      BY <2>1, <3>1 DEF ReadInvoice
  <2>2. CASE AwaitIntent(p)
    BY <2>2 DEF AwaitIntent
  <2>3. CASE CreateTransaction(p)
    BY <2>3 DEF CreateTransaction
  <2>4. CASE AwaitConfirmation(p)
    BY <2>4 DEF AwaitConfirmation, Accepted
  <2>5. CASE MarkInvoicePaid(p)
    BY <2>5 DEF MarkInvoicePaid
  <2>6. CASE FailPayment(p)
    BY <2>6 DEF FailPayment
  <2>7. CASE PayerPays(p)
    BY <2>7 DEF PayerPays
  <2> QED
    BY <1>4, <2>1, <2>2, <2>3, <2>4, <2>5, <2>6, <2>7 DEF ProcessPayment
<1> QED
  BY <1>1, <1>2, <1>3, <1>4, RefundsFrame, SweepsFrame DEF BillingNext, billingVars

-----------------------------------------------------------------------------
(* Refunds *)

\* When one weight changes, the sums over the sets that have it change with it.
LEMMA ChangeOfWeight ==
  ASSUME NEW weight \in [Refunds -> Nat], NEW f, AddsUp(f, weight),
         NEW new \in [Refunds -> Nat], NEW r \in Refunds,
         \A q \in Refunds \ {r} : new[q] = weight[q]
  PROVE  \E g : AddsUp(g, new) /\ g[Refunds] = f[Refunds] - weight[r] + new[r]
<1> DEFINE g == [S \in SUBSET Refunds |->
                   IF r \in S THEN f[S] - weight[r] + new[r] ELSE f[S]]
<1>1. \A S \in SUBSET Refunds : f[S] \in Nat /\ (r \in S => weight[r] <= f[S])
  BY PartOfWhole DEF AddsUp
<1>2. g \in [SUBSET Refunds -> Nat]
  BY <1>1
<1>3. ASSUME NEW S \in SUBSET Refunds, NEW q \in Refunds \ S
      PROVE  g[S \cup {q}] = g[S] + new[q]
  <2>1. /\ f[S \cup {q}] = f[S] + weight[q]
        /\ {f[S], weight[r], weight[q], new[q]} \subseteq Nat
    BY <1>1 DEF AddsUp
  <2>2. CASE q = r
    BY <2>1, <2>2
  <2>3. CASE q # r
    BY <2>1, <2>3
  <2> QED
    BY <2>2, <2>3
<1>4. g[Refunds] = f[Refunds] - weight[r] + new[r]
  OBVIOUS
<1> QED
  BY <1>2, <1>3, <1>4 DEF AddsUp

LEMMA BookNext == BillingInv /\ BillingTypeOK' /\ [BillingNext]_billingVars => BookInv'
<1> DEFINE Booked(p) == \E g : /\ AddsUp(g, [r \in Refunds |-> Unbooked(r, p)'])
                             /\ booked'[p] + g[Refunds] <= paidBack'[p]
           Open(p) == \E g : /\ AddsUp(g, [r \in Refunds |-> Held(r, p)'])
                           /\ g[Refunds] = open'[p]
<1> SUFFICES ASSUME BillingInv, BillingTypeOK', [BillingNext]_billingVars, NEW p \in Payments
             PROVE  Booked(p) /\ Open(p)
  BY DEF BookInv, Unbooked, Held
<1> BillingTypeOK /\ RefundInv /\ RefundsAddUp
  BY DEF BillingInv
<1> DEFINE w1 == [r \in Refunds |-> Unbooked(r, p)]
           w2 == [r \in Refunds |-> Held(r, p)]
<1>1. PICK f1 : AddsUp(f1, w1) /\ booked[p] + f1[Refunds] <= paidBack[p]
  BY DEF BillingInv, BookInv
<1>2. PICK f2 : AddsUp(f2, w2) /\ f2[Refunds] = open[p]
  BY DEF BillingInv, BookInv
<1>3. CASE UNCHANGED refunds
  BY <1>1, <1>2, <1>3 DEF refunds, Unbooked, Held
<1>4. ASSUME NEW r \in Refunds, Refunding(r) PROVE Booked(p) /\ Open(p)
  <2>1. /\ w1 \in [Refunds -> Nat] /\ w2 \in [Refunds -> Nat]
        /\ w1[r] = Unbooked(r, p) /\ w2[r] = Held(r, p)
    BY PriceAssumption DEF Unbooked, Held, BillingTypeOK
  <2>2. \A q \in Refunds \ {r} : refund'[q] = refund[q]
    BY <1>4 DEF Refunding, ReadTransaction, RefuseRefund, AwaitRefund, SettleRefund,
                CreateRefund, UpdateTransaction, FailRefund, BillingTypeOK
  <2> DEFINE n1 == [q \in Refunds |-> Unbooked(q, p)']
             n2 == [q \in Refunds |-> Held(q, p)']
  <2>3. /\ n1 \in [Refunds -> Nat] /\ n2 \in [Refunds -> Nat]
        /\ n1[r] = Unbooked(r, p)' /\ n2[r] = Held(r, p)'
    BY PriceAssumption DEF Unbooked, Held, BillingTypeOK
  <2>4. \A q \in Refunds \ {r} : n1[q] = w1[q] /\ n2[q] = w2[q]
    BY <2>2 DEF Unbooked, Held
  <2>5. /\ \E g : AddsUp(g, n1) /\ g[Refunds] = f1[Refunds] - w1[r] + n1[r]
        /\ \E g : AddsUp(g, n2) /\ g[Refunds] = f2[Refunds] - w2[r] + n2[r]
    <3>1. \E g : AddsUp(g, n1) /\ g[Refunds] = f1[Refunds] - w1[r] + n1[r]
      <4>1. PICK old, new : old = w1 /\ new = n1
        OBVIOUS
      <4>2. /\ old \in [Refunds -> Nat] /\ new \in [Refunds -> Nat] /\ AddsUp(f1, old)
            /\ \A q \in Refunds \ {r} : new[q] = old[q]
        BY <1>1, <2>1, <2>3, <2>4, <4>1
      <4>3. \E g : AddsUp(g, new) /\ g[Refunds] = f1[Refunds] - old[r] + new[r]
        BY <4>2, ChangeOfWeight
      <4> HIDE DEF w1, n1
      <4> QED
        BY <4>1, <4>3
    <3>2. \E g : AddsUp(g, n2) /\ g[Refunds] = f2[Refunds] - w2[r] + n2[r]
      <4>1. PICK old, new : old = w2 /\ new = n2
        OBVIOUS
      <4>2. /\ old \in [Refunds -> Nat] /\ new \in [Refunds -> Nat] /\ AddsUp(f2, old)
            /\ \A q \in Refunds \ {r} : new[q] = old[q]
        BY <1>2, <2>1, <2>3, <2>4, <4>1
      <4>3. \E g : AddsUp(g, new) /\ g[Refunds] = f2[Refunds] - old[r] + new[r]
        BY <4>2, ChangeOfWeight
      <4> HIDE DEF w2, n2
      <4> QED
        BY <4>1, <4>3
    <3> QED
      BY <3>1, <3>2
  <2>6. /\ booked'[p] + Unbooked(r, p)' - paidBack'[p] <= booked[p] + Unbooked(r, p) - paidBack[p]
        /\ open'[p] - Held(r, p)' = open[p] - Held(r, p)
    <3> DEFINE Goal ==
          /\ booked'[p] + Unbooked(r, p)' - paidBack'[p]
               <= booked[p] + Unbooked(r, p) - paidBack[p]
          /\ open'[p] - Held(r, p)' = open[p] - Held(r, p)
    <3>0. /\ refund[r] \in RefundRecords
          /\ booked[p] \in Nat /\ paidBack[p] \in Nat /\ open[p] \in Nat
      BY PriceAssumption DEF RefundRecords, BillingTypeOK
    <3>1. ASSUME NEW q \in Payments, NEW amount \in Amounts, ReadTransaction(r, q, amount)
          PROVE  Goal
      <4>1. refund[r].pc = "idle" /\ refund[r].at = "none"
        BY <3>1 DEF ReadTransaction, RefundInv
      <4>2. /\ refund'[r].pc \in {"read", "rejected"} /\ refund'[r].at = refund[r].at
            /\ UNCHANGED <<booked, paidBack, open>>
        BY <3>0, <3>1 DEF ReadTransaction, RefundRecords, BillingTypeOK
      <4>3. Unbooked(r, p) = 0 /\ Unbooked(r, p)' = 0 /\ Held(r, p) = 0 /\ Held(r, p)' = 0
        BY <4>1, <4>2 DEF Unbooked, Held
      <4> QED
        BY <3>0, <4>2, <4>3
    <3>2. CASE AwaitRefund(r)
      <4>1. PICK asked \in 1..Price, at \in {"given", "open"}, reported \in 0..Price :
              reported <= asked /\ TakenOn(r, asked, at, reported)
        BY <3>2, RefundTakenOn
      <4>2. /\ refund[r].pc = "read" /\ refund[r].at = "none" /\ booked' = booked
            /\ refund[r].payment \in Payments
        BY <3>2 DEF AwaitRefund, RefundInv, RefundingAt
      <4>4. /\ refund'[r].payment = refund[r].payment
            /\ refund'[r].asked = asked /\ refund'[r].at = at
            /\ refund'[r].reported = reported /\ refund'[r].pc = "refunded"
        BY <4>1, <4>2, TakenOnMoves
      <4>5. /\ paidBack'[p] = IF refund[r].payment = p /\ at = "given"
                              THEN paidBack[p] + asked ELSE paidBack[p]
            /\ open'[p] = IF refund[r].payment = p /\ at = "open"
                          THEN open[p] + asked ELSE open[p]
        BY <4>1, <4>2, TakenOnMoves
      <4>6. /\ Unbooked(r, p)' = IF refund[r].payment = p /\ at = "given" THEN reported ELSE 0
            /\ Held(r, p)' = IF refund[r].payment = p /\ at = "open" THEN asked ELSE 0
        BY <4>4 DEF Unbooked, Held
      <4>7. Unbooked(r, p) = 0 /\ Held(r, p) = 0
        BY <4>2 DEF Unbooked, Held
      <4> QED
        BY <3>0, <4>1, <4>2, <4>5, <4>6, <4>7, PriceAssumption
    <3>3. CASE CreateRefund(r)
      <4>1. /\ refund[r].pc = "refunded" /\ UNCHANGED <<paidBack, open>>
            /\ refund'[r].pc = "recorded" /\ refund'[r].payment = refund[r].payment
            /\ refund'[r].asked = refund[r].asked /\ refund'[r].at = refund[r].at
        BY <3>0, <3>3 DEF CreateRefund, RefundRecords, BillingTypeOK
      <4>2. /\ Unbooked(r, p)' = 0 /\ Held(r, p)' = Held(r, p)
            /\ booked'[p] = booked[p] + Unbooked(r, p)
        BY <3>0, <3>3, <4>1 DEF CreateRefund, RowStatus, Unbooked, Held, BillingTypeOK
      <4>3. Unbooked(r, p) \in Nat /\ Held(r, p) \in Nat
        BY <2>1
      <4> QED
        BY <3>0, <4>1, <4>2, <4>3
    <3>4. CASE UpdateTransaction(r) \/ FailRefund(r) \/ RefuseRefund(r)
      <4>1. /\ UNCHANGED <<booked, paidBack, open>>
            /\ refund'[r].pc # "refunded" /\ refund'[r].payment = refund[r].payment
            /\ refund'[r].asked = refund[r].asked /\ refund'[r].at = refund[r].at
        BY <3>0, <3>4 DEF UpdateTransaction, FailRefund, RefuseRefund, RefundRecords, BillingTypeOK
      <4>2. Unbooked(r, p)' = 0 /\ Held(r, p)' = Held(r, p)
        BY <4>1 DEF Unbooked, Held
      <4>3. Unbooked(r, p) \in Nat /\ Held(r, p) \in Nat
        BY <2>1
      <4> QED
        BY <3>0, <4>1, <4>2, <4>3
    <3>5. CASE SettleRefund(r)
      <4>1. PICK at \in {"settled", "failed"} :
              /\ refund[r].payment \in Payments
              /\ refund[r].asked \in 0..open[refund[r].payment]
              /\ Settled(r, at)
        BY <3>5, RefundSettled
      <4>2. refund[r].at = "open" /\ booked' = booked
        BY <3>5 DEF SettleRefund
      <4>3. refund'[r].at = at /\ refund'[r].payment = refund[r].payment
        BY <3>0, <4>1, SettledMoves
      <4>4. /\ Unbooked(r, p) = 0 /\ Unbooked(r, p)' = 0 /\ Held(r, p)' = 0
            /\ Held(r, p) = IF refund[r].payment = p THEN refund[r].asked ELSE 0
        BY <4>2, <4>3 DEF Unbooked, Held
      <4>6. refund[r].asked \in Nat
        BY <3>0, PriceAssumption DEF RefundRecords
      <4>5. /\ paidBack'[p] >= paidBack[p] /\ paidBack'[p] \in Nat
            /\ open'[p] = IF refund[r].payment = p THEN open[p] - refund[r].asked ELSE open[p]
        BY <3>0, <4>1, <4>6, SettledMoves
      <4> QED
        BY <3>0, <4>2, <4>4, <4>5, <4>6
    <3> QED
      BY <1>4, <3>1, <3>2, <3>3, <3>4, <3>5 DEF Refunding
  <2>7. /\ booked'[p] \in Nat /\ paidBack'[p] \in Nat /\ open'[p] \in Nat
        /\ booked[p] \in Nat /\ paidBack[p] \in Nat /\ open[p] \in Nat
    BY PriceAssumption DEF BillingTypeOK
  <2>8. Booked(p)
    <3>1. PICK g : AddsUp(g, n1) /\ g[Refunds] = f1[Refunds] - w1[r] + n1[r]
      BY <2>5
    <3>2. w1[r] \in Nat /\ n1[r] \in Nat /\ f1[Refunds] \in Nat /\ g[Refunds] \in Nat
      BY <1>1, <2>1, <2>3, <3>1 DEF AddsUp
    <3> HIDE DEF w1, n1
    <3>3. booked'[p] + g[Refunds] <= paidBack'[p]
      BY <1>1, <2>1, <2>3, <2>6, <2>7, <3>1, <3>2
    <3> QED
      BY <3>1, <3>3 DEF n1
  <2>9. Open(p)
    <3>1. PICK g : AddsUp(g, n2) /\ g[Refunds] = f2[Refunds] - w2[r] + n2[r]
      BY <2>5
    <3>2. w2[r] \in Nat /\ n2[r] \in Nat /\ f2[Refunds] \in Nat /\ g[Refunds] \in Nat
      BY <1>2, <2>1, <2>3, <3>1 DEF AddsUp
    <3> HIDE DEF w2, n2
    <3>3. g[Refunds] = open'[p]
      BY <1>2, <2>1, <2>3, <2>6, <2>7, <3>1, <3>2
    <3> QED
      BY <3>1, <3>3 DEF n2
  <2> QED
    BY <2>8, <2>9
<1> QED
  BY <1>3, <1>4, SweepsFrame, PaymentsFrame
     DEF BillingNext, billingVars, CreateInvoice, DueDatePasses, refunds

\* What succeeded stays so.
LEMMA SucceededStays ==
  BillingInv /\ [BillingNext]_billingVars
    => \A p \in Payments : txn[p] = "SUCCEEDED" => txn'[p] = "SUCCEEDED"
<1> SUFFICES ASSUME BillingInv, [BillingNext]_billingVars
             PROVE  \A p \in Payments : txn[p] = "SUCCEEDED" => txn'[p] = "SUCCEEDED"
  OBVIOUS
<1>1. ASSUME NEW p \in Payments, ProcessPayment(p)
      PROVE  \A q \in Payments : txn[q] = "SUCCEEDED" => txn'[q] = "SUCCEEDED"
  BY <1>1 DEF ProcessPayment, ReadInvoice, AwaitIntent, CreateTransaction, AwaitConfirmation,
              MarkInvoicePaid, FailPayment, PayerPays, BillingInv, CallInv, BillingTypeOK
<1> QED
  BY <1>1, RefundsFrame, SweepsFrame
     DEF BillingNext, billingVars, CreateInvoice, DueDatePasses, payments

\* What a step of refund r does to the refunds of the others, and what it never
\* undoes: money given back stays so, and a refund told as pending too.
LEMMA RefundsProgress ==
  ASSUME BillingInv, BillingTypeOK', NEW r \in Refunds, Refunding(r)
  PROVE  /\ \A q \in Refunds \ {r} : refund'[q] = refund[q]
         /\ \A p \in Payments : /\ paidBack[p] \in 0..Price /\ open[p] \in 0..Price
                                /\ paidBack'[p] \in 0..Price /\ open'[p] \in 0..Price
                                /\ paidBack'[p] >= paidBack[p]
         /\ \A p \in Payments : SomePending(p) => SomePending(p)'
<1> BillingTypeOK /\ RefundInv
  BY DEF BillingInv
<1> refund[r] \in RefundRecords /\ refund'[r] \in RefundRecords
  BY DEF RefundRecords, BillingTypeOK
<1> USE PriceAssumption
<1>1. \A q \in Refunds \ {r} : refund'[q] = refund[q]
  BY DEF Refunding, ReadTransaction, RefuseRefund, AwaitRefund, SettleRefund,
         CreateRefund, UpdateTransaction, FailRefund, BillingTypeOK
<1>2. \A p \in Payments : /\ paidBack[p] \in 0..Price /\ open[p] \in 0..Price
                          /\ paidBack'[p] \in 0..Price /\ open'[p] \in 0..Price
  BY DEF BillingTypeOK
<1>3. /\ \A p \in Payments : paidBack'[p] >= paidBack[p]
      /\ refund[r].at \in ToldPending =>
           refund'[r].at \in ToldPending /\ refund'[r].payment = refund[r].payment
  <2>1. CASE AwaitRefund(r)
    <3>1. refund[r].at \notin ToldPending
      BY <2>1 DEF AwaitRefund, RefundInv, ToldPending
    <3>2. PICK asked \in 1..Price, at \in {"given", "open"}, reported \in 0..Price :
            TakenOn(r, asked, at, reported)
      BY <2>1, RefundTakenOn
    <3> QED
      BY <1>2, <3>1, <3>2 DEF BillingTypeOK, TakenOn
  <2>2. CASE SettleRefund(r)
    <3>1. PICK at \in {"settled", "failed"} :
            /\ refund[r].payment \in Payments
            /\ refund[r].asked \in 0..open[refund[r].payment]
            /\ Settled(r, at)
      BY <2>2, RefundSettled
    <3>2. refund'[r].at \in ToldPending /\ refund'[r].payment = refund[r].payment
      BY <3>1, SettledMoves DEF ToldPending
    <3> QED
      BY <1>2, <3>1, <3>2 DEF BillingTypeOK, Settled
  <2>3. ASSUME NEW q \in Payments, NEW amount \in Amounts, ReadTransaction(r, q, amount)
        PROVE  refund[r].at \notin ToldPending /\ UNCHANGED paidBack
    BY <2>3 DEF ReadTransaction, RefundInv, ToldPending
  <2>4. CASE RefuseRefund(r) \/ CreateRefund(r) \/ UpdateTransaction(r) \/ FailRefund(r)
    <3>1. UNCHANGED paidBack /\ refund'[r].at = refund[r].at
          /\ refund'[r].payment = refund[r].payment
      BY <2>4 DEF RefuseRefund, CreateRefund, UpdateTransaction, FailRefund, RefundRecords,
                  BillingTypeOK
    <3> QED
      BY <1>2, <3>1
  <2> QED
    BY <1>2, <2>1, <2>2, <2>3, <2>4 DEF Refunding
<1>4. \A p \in Payments : SomePending(p) => SomePending(p)'
  <2>1. ASSUME NEW q \in Refunds, refund[q].at \in ToldPending
        PROVE  refund'[q].at \in ToldPending /\ refund'[q].payment = refund[q].payment
    BY <1>1, <1>3, <2>1
  <2> QED
    BY <2>1 DEF SomePending, ToldPending
<1> QED
  BY <1>1, <1>2, <1>3, <1>4

LEMMA RefundNext ==
  BillingInv /\ BillingTypeOK' /\ CallInv' /\ PaidMeansCaptured' /\ BookInv' /\ [BillingNext]_billingVars
    => RefundInv' /\ RefundsAddUp'
<1> SUFFICES ASSUME BillingInv, BillingTypeOK', CallInv', PaidMeansCaptured', BookInv',
                    [BillingNext]_billingVars
             PROVE  RefundInv' /\ RefundsAddUp'
  OBVIOUS
<1> BillingTypeOK /\ RefundInv /\ RefundsAddUp /\ CallInv /\ PaidMeansCaptured
  BY DEF BillingInv
<1> USE PriceAssumption
<1>1. \A p \in Payments : booked'[p] <= paidBack'[p]
  <2> SUFFICES ASSUME NEW p \in Payments PROVE booked'[p] <= paidBack'[p]
    OBVIOUS
  <2>1. PICK f : AddsUp(f, [r \in Refunds |-> Unbooked(r, p)'])
                 /\ booked'[p] + f[Refunds] <= paidBack'[p]
    BY DEF BookInv, Unbooked
  <2>2. f[Refunds] \in Nat /\ booked'[p] \in Nat /\ paidBack'[p] \in Nat
    BY <2>1 DEF AddsUp, BillingTypeOK
  <2> QED
    BY <2>1, <2>2
<1>2. \A p \in Payments : txn[p] = "SUCCEEDED" => txn'[p] = "SUCCEEDED"
  BY SucceededStays
<1>3. CASE UNCHANGED refunds
  <2>1. RefundInv'
    BY <1>2, <1>3 DEF RefundInv, SomePending, refunds, RefundingAt, InFull, NotGiven
  <2>2. RefundsAddUp'
    BY <1>1, <1>2, <1>3 DEF RefundsAddUp, refunds, PaidMeansCaptured
  <2> QED
    BY <2>1, <2>2
<1>4. ASSUME NEW r \in Refunds, Refunding(r) PROVE RefundInv' /\ RefundsAddUp'
  <2>0. UNCHANGED <<txn, captured>>
    BY <1>4, RefundsFrame
  <2>1. refund[r] \in RefundRecords /\ refund'[r] \in RefundRecords
    BY DEF RefundRecords, BillingTypeOK
  <2>q. PICK q : q = refund'[r].payment
    OBVIOUS
  <2> DEFINE Told(p) == paidBack'[p] = Price \/ SomePending(p)'
             \* what refund r has to keep, what the money of p has, and the marks
             Own == /\ refund'[r].pc \in RefundingAt \/ refund'[r].at # "none" =>
                         q \in Payments /\ txn[q] = "SUCCEEDED"
                    /\ refund'[r].pc \in {"idle", "read"} => refund'[r].at = "none"
                    /\ refund'[r].pc \in {"refunded", "recorded"} /\ InFull(refund'[r].amount)
                         => Told(q)
             Money(p) == /\ paidBack'[p] + open'[p] <= Price
                         /\ open'[p] > 0 => SomePending(p)'
                         /\ paidBack'[p] + open'[p] > 0 => txn[p] = "SUCCEEDED"
             Marks == \A p \in marked' : Told(p)
  <2>2. /\ \A o \in Refunds \ {r} : refund'[o] = refund[o]
        /\ \A p \in Payments : /\ paidBack[p] \in 0..Price /\ open[p] \in 0..Price
                               /\ paidBack'[p] \in 0..Price /\ open'[p] \in 0..Price
                               /\ paidBack'[p] >= paidBack[p]
        /\ \A p \in Payments : SomePending(p) => SomePending(p)'
    BY <1>4, RefundsProgress
  <2>3. \A p \in Payments : paidBack[p] = Price \/ SomePending(p) => Told(p)
    BY <2>2
  <2>4. \A p \in Payments :
          /\ paidBack[p] + open[p] <= Price /\ (open[p] > 0 => SomePending(p))
          /\ paidBack[p] + open[p] > 0 => txn[p] = "SUCCEEDED"
          /\ p \in marked => Told(p)
    BY <2>3 DEF RefundInv, RefundsAddUp, SomePending
  <2>5. ASSUME UNCHANGED <<paidBack, open>> PROVE \A p \in Payments : Money(p)
    BY <2>2, <2>4, <2>5
  <2>6. ASSUME marked' = marked PROVE Marks
    BY <2>4, <2>6 DEF BillingTypeOK
  <2> HIDE DEF Told
  <2>7. Own /\ (\A p \in Payments : Money(p)) /\ Marks
    <3>1. ASSUME NEW p \in Payments, NEW amount \in Amounts, ReadTransaction(r, p, amount)
          PROVE  Own /\ (\A o \in Payments : Money(o)) /\ Marks
      <4>1. /\ refund[r].pc = "idle" /\ refund[r].at = "none" /\ refund'[r].at = "none"
            /\ refund'[r].payment = p /\ q = p
            /\ refund'[r].pc = IF Refundable(p) THEN "read" ELSE "rejected"
            /\ UNCHANGED <<paidBack, open, marked>>
        BY <2>1, <2>q, <3>1 DEF ReadTransaction, RefundInv, RefundRecords, BillingTypeOK
      <4>2. Own
        BY <4>1 DEF Refundable, RefundingAt
      <4> QED
        BY <2>5, <2>6, <4>1, <4>2
    <3>2. CASE AwaitRefund(r)
      <4>1. PICK asked \in 1..Price, at \in {"given", "open"}, reported \in 0..Price :
              /\ refund[r].payment \in captured
              /\ paidBack[refund[r].payment] + open[refund[r].payment] + asked <= Price
              /\ InFull(refund[r].amount) =>
                   paidBack[refund[r].payment] + open[refund[r].payment] + asked = Price
              /\ TakenOn(r, asked, at, reported)
        BY <3>2, RefundTakenOn
      <4>3. refund[r].payment \in Payments /\ txn[refund[r].payment] = "SUCCEEDED"
            /\ marked' = marked
        BY <3>2 DEF AwaitRefund, RefundInv, RefundingAt
      <4>2. /\ refund'[r].payment = q /\ refund[r].payment = q
            /\ refund'[r].amount = refund[r].amount
            /\ refund'[r].at = at /\ refund'[r].pc = "refunded"
        BY <2>q, <4>1, <4>3, TakenOnMoves
      <4>4. /\ paidBack'[q] = IF at = "given" THEN paidBack[q] + asked ELSE paidBack[q]
            /\ open'[q] = IF at = "open" THEN open[q] + asked ELSE open[q]
            /\ \A p \in Payments \ {q} : paidBack'[p] = paidBack[p] /\ open'[p] = open[p]
        BY <4>1, <4>2, <4>3, TakenOnMoves
      <4>5. at = "open" => SomePending(q)'
        BY <4>2 DEF SomePending, ToldPending
      <4>6. \A p \in Payments : Money(p)
        <5>1. Money(q)
          BY <2>2, <2>4, <4>1, <4>2, <4>3, <4>4, <4>5
        <5>2. ASSUME NEW p \in Payments \ {q} PROVE Money(p)
          BY <2>2, <2>4, <4>4
        <5> HIDE DEF Money
        <5> QED
          BY <5>1, <5>2
      <4>7. InFull(refund'[r].amount) => Told(q)
        <5>1. SUFFICES ASSUME InFull(refund[r].amount), ~SomePending(q)'
                       PROVE  paidBack'[q] = Price
          BY <4>2 DEF Told
        <5>2. at = "given" /\ open[q] = 0
          BY <2>2, <2>4, <4>2, <4>3, <4>5, <5>1
        <5> QED
          BY <2>2, <4>1, <4>2, <4>3, <4>4, <5>1, <5>2
      <4> QED
        BY <2>6, <4>2, <4>3, <4>6, <4>7
    <3>3. CASE SettleRefund(r)
      <4>1. PICK at \in {"settled", "failed"} :
              /\ refund[r].payment \in Payments
              /\ refund[r].asked \in 0..open[refund[r].payment]
              /\ Settled(r, at)
        BY <3>3, RefundSettled
      <4>2. /\ refund'[r].payment = q /\ refund[r].payment = q
            /\ refund'[r].pc = refund[r].pc /\ refund'[r].amount = refund[r].amount
            /\ refund'[r].at \in ToldPending /\ refund[r].at = "open" /\ marked' = marked
        BY <2>q, <3>3, <4>1, SettledMoves DEF SettleRefund, ToldPending
      <4>3. txn[q] = "SUCCEEDED" /\ SomePending(q)' /\ Told(q)
            /\ refund[r].pc \notin {"idle", "read"}
        BY <4>2 DEF RefundInv, SomePending, Told
      <4>4. Own
        BY <4>1, <4>2, <4>3
      <4>5. ASSUME NEW p \in Payments PROVE Money(p)
        <5>1. CASE p = q
          <6>1. /\ paidBack'[p] \in {paidBack[p], paidBack[p] + refund[r].asked}
                /\ open'[p] = open[p] - refund[r].asked
            BY <4>1, <4>2, <5>1, SettledMoves
          <6> QED
            BY <2>2, <2>4, <4>1, <4>2, <4>3, <5>1, <6>1
        <5>2. CASE p # q
          <6>1. paidBack'[p] = paidBack[p] /\ open'[p] = open[p]
            BY <4>1, <4>2, <5>2, SettledMoves
          <6> QED
            BY <2>2, <2>4, <6>1
        <5> QED
          BY <5>1, <5>2
      <4> QED
        BY <2>6, <4>2, <4>4, <4>5
    <3>4. CASE RefuseRefund(r) \/ CreateRefund(r) \/ FailRefund(r) \/ UpdateTransaction(r)
      <4>1. /\ refund'[r].payment = q /\ refund[r].payment = q
            /\ refund'[r].at = refund[r].at
            /\ refund'[r].amount = refund[r].amount /\ refund[r].pc \in RefundingAt
            /\ UNCHANGED <<paidBack, open>>
            /\ refund'[r].pc \in {"refused", "failed", "recorded", "returned"}
            /\ refund'[r].pc = "recorded" => refund[r].pc = "refunded"
        BY <2>1, <2>q, <3>4 DEF RefuseRefund, CreateRefund, FailRefund, UpdateTransaction,
                          RefundingAt, RefundRecords, BillingTypeOK
      <4>2. q \in Payments /\ txn[q] = "SUCCEEDED"
        BY <4>1 DEF RefundInv
      <4>3. refund[r].pc \in {"refunded", "recorded"} /\ InFull(refund[r].amount) => Told(q)
        BY <2>3, <4>1, <4>2 DEF RefundInv
      <4>4. Own
        BY <4>1, <4>2, <4>3
      <4>5. Marks
        <5>1. CASE marked' = marked
          BY <2>6, <5>1
        <5>2. CASE marked' # marked
          <6>1. /\ refund[r].pc = "recorded" /\ InFull(refund[r].amount)
                /\ marked' = marked \cup {q}
            BY <3>4, <4>1, <5>2 DEF RefuseRefund, CreateRefund, FailRefund, UpdateTransaction
          <6> QED
            BY <2>4, <4>3, <6>1 DEF BillingTypeOK
        <5> QED
          BY <5>1, <5>2
      <4> QED
        BY <2>5, <4>1, <4>4, <4>5
    <3> QED
      BY <1>4, <3>1, <3>2, <3>3, <3>4 DEF Refunding
  <2>8. RefundInv'
    <3>1. ASSUME NEW o \in Refunds \ {r}, NEW p, p = refund'[o].payment
          PROVE  /\ refund'[o].pc \in RefundingAt \/ refund'[o].at # "none" =>
                      p \in Payments /\ txn'[p] = "SUCCEEDED"
                 /\ refund'[o].pc \in {"idle", "read"} => refund'[o].at = "none"
                 /\ refund'[o].pc \in {"refunded", "recorded"} /\ InFull(refund'[o].amount) =>
                      Told(p)
      <4>1. refund'[o] = refund[o] /\ o \in Refunds
        BY <2>2
      <4> QED
        BY <2>0, <2>3, <3>1, <4>1 DEF RefundInv, RefundingAt
    <3>2. /\ \A p : Told(p) <=> paidBack'[p] = Price \/ SomePending(p)'
          /\ \A amount : InFull(amount)' <=> InFull(amount)
      BY DEF Told, InFull, NotGiven
    <3> HIDE DEF Told
    <3> QED
      BY <2>0, <2>7, <2>q, <3>1, <3>2 DEF RefundInv
  <2>9. RefundsAddUp'
    BY <1>1, <2>0, <2>7 DEF RefundsAddUp, Told, SomePending, PaidMeansCaptured
  <2> QED
    BY <2>8, <2>9
<1> QED
  BY <1>3, <1>4, SweepsFrame, PaymentsFrame
     DEF BillingNext, billingVars, CreateInvoice, DueDatePasses, refunds

-----------------------------------------------------------------------------
(* Calls that do not overlap *)

LEMMA AloneNext == BillingInv /\ [BillingNext]_billingVars => Alone' /\ SweepInv'
<1> SUFFICES ASSUME BillingInv, [BillingNext]_billingVars PROVE Alone' /\ SweepInv'
  OBVIOUS
<1> BillingTypeOK /\ Alone /\ SweepInv
  BY DEF BillingInv
<1> USE DEF BillingTypeOK, Alone, SweepInv, PayingAt
<1>1. CASE UNCHANGED <<invoice, paying, sweep>> /\ (overlapped => overlapped')
  BY <1>1
<1>2. ASSUME NEW i \in Invoices, CreateInvoice(i) PROVE Alone' /\ SweepInv'
  BY <1>2 DEF CreateInvoice, payments, history
<1>3. ASSUME NEW s \in Sweeps, ReadOverdue(s) PROVE Alone' /\ SweepInv'
  BY <1>3 DEF ReadOverdue, OverdueInvoices, StartCall, Quiet, billing, payments
<1>4. ASSUME NEW s \in Sweeps, NEW i \in Invoices, MarkOverdue(s, i) PROVE Alone' /\ SweepInv'
  BY <1>4 DEF MarkOverdue, payments
<1>5. ASSUME NEW s \in Sweeps, EndSweep(s) PROVE Alone' /\ SweepInv'
  BY <1>5 DEF EndSweep, billing, payments, history
<1>6. ASSUME NEW p \in Payments, NEW i \in Invoices, ReadInvoice(p, i) PROVE Alone' /\ SweepInv'
  <2>1. ASSUME NEW here \in {"rejected", "read"},
               paying' = [paying EXCEPT ![p] = [pc |-> here, invoice |-> i]],
               StartCall, UNCHANGED <<invoice, sweep>>
        PROVE  Alone' /\ SweepInv'
    BY <2>1 DEF StartCall, Quiet
  <2> QED
    BY <1>6, <2>1 DEF ReadInvoice, billing
<1>7. ASSUME NEW p \in Payments, paying[p].pc \in PayingAt, UNCHANGED <<invoice, sweep>>,
             overlapped => overlapped', \A q \in Payments \ {p} : paying'[q] = paying[q]
      PROVE  Alone' /\ SweepInv'
  BY <1>7
<1>8. ASSUME NEW p \in Payments, MarkInvoicePaid(p) PROVE Alone' /\ SweepInv'
  BY <1>8 DEF MarkInvoicePaid, history
<1>9. ASSUME NEW p \in Payments, ProcessPayment(p) PROVE Alone' /\ SweepInv'
  <2>1. CASE AwaitIntent(p) \/ CreateTransaction(p) \/ AwaitConfirmation(p) \/ FailPayment(p)
    <3>1. /\ paying[p].pc \in PayingAt
          /\ \A q \in Payments \ {p} : paying'[q] = paying[q]
      BY <2>1 DEF AwaitIntent, CreateTransaction, AwaitConfirmation, FailPayment
    <3>2. UNCHANGED <<invoice, sweep>>
      BY <2>1 DEF AwaitIntent, CreateTransaction, AwaitConfirmation, FailPayment, billing
    <3> QED
      BY <1>7, <1>9, <3>1, <3>2, PaymentsFrame
  <2>2. CASE PayerPays(p)
    BY <1>1, <2>2 DEF PayerPays, billing, history
  <2> QED
    BY <1>6, <1>8, <1>9, <2>1, <2>2 DEF ProcessPayment
<1>10. ASSUME NEW i \in Invoices, DueDatePasses(i) PROVE Alone' /\ SweepInv'
  BY <1>1, <1>10 DEF DueDatePasses, payments, history
<1>11. ASSUME NEW r \in Refunds, Refunding(r) PROVE Alone' /\ SweepInv'
  BY <1>1, <1>11, RefundsFrame
<1>12. CASE UNCHANGED billingVars
  BY <1>1, <1>12 DEF billingVars, billing, payments, history
<1> QED
  BY <1>2, <1>3, <1>4, <1>5, <1>9, <1>10, <1>11, <1>12
     DEF BillingNext, ProcessOverdueInvoices

LEMMA ChargeNext == BillingInv /\ [BillingNext]_billingVars => ChargeInv'
<1> SUFFICES ASSUME BillingInv, [BillingNext]_billingVars PROVE ChargeInv'
  OBVIOUS
<1> BillingTypeOK /\ CallInv /\ ChargeInv
  BY DEF BillingInv
<1> USE IdsAssumption DEF BillingTypeOK, CallInv, ChargeInv, PayingAt
<1>1. CASE UNCHANGED <<invoice, paying, txn, revived, again>>
  BY <1>1
<1>2. ASSUME NEW i \in Invoices, CreateInvoice(i) PROVE ChargeInv'
  BY <1>2 DEF CreateInvoice, payments, history
<1>3. ASSUME NEW s \in Sweeps, NEW i \in Invoices, MarkOverdue(s, i) PROVE ChargeInv'
  BY <1>3 DEF MarkOverdue, payments
<1>4. ASSUME NEW p \in Payments, ProcessPayment(p) PROVE ChargeInv'
  <2>1. ASSUME NEW i \in Invoices, ReadInvoice(p, i) PROVE ChargeInv'
    <3>1. /\ UNCHANGED <<invoice, txn, revived>> /\ txn[p] = "none" /\ p \notin again
          /\ \A q \in Payments \ {p} : paying'[q] = paying[q]
          /\ paying'[p].invoice = i /\ paying'[p].pc # "idle"
      BY <2>1 DEF ReadInvoice, billing
    <3>2. \A q \in Payments : txn[q] = "SUCCEEDED" =>
            invoice[paying'[q].invoice] = "PAID" \/ paying'[q].invoice \in revived
      BY <3>1
    <3>3. again' = again \/ (i \in revived /\ again' = again \cup {p})
      <4>1. CASE again' = again
        BY <4>1
      <4>2. CASE again' # again
        <5>1. /\ invoice[i] # "PAID" /\ again' = again \cup {p}
              /\ \E q \in PaymentsOf(i) : txn[q] = "SUCCEEDED"
          BY <2>1, <4>2 DEF ReadInvoice, AlreadyPaid
        <5> QED
          BY <5>1 DEF PaymentsOf
      <4> QED
        BY <4>1, <4>2
    <3>4. \A q \in again' : paying'[q].pc # "idle" /\ paying'[q].invoice \in revived
      BY <3>1, <3>3
    <3> QED
      BY <3>1, <3>2, <3>4
  <2>2. CASE AwaitIntent(p)
    BY <2>2 DEF AwaitIntent, billing, history
  <2>3. CASE CreateTransaction(p)
    BY <2>3 DEF CreateTransaction, billing, history
  <2>4. CASE AwaitConfirmation(p)
    BY <2>4 DEF AwaitConfirmation, billing, history
  <2>5. CASE MarkInvoicePaid(p)
    BY <2>5 DEF MarkInvoicePaid, history
  <2>6. CASE FailPayment(p)
    BY <2>6 DEF FailPayment, billing, history
  <2>7. CASE PayerPays(p)
    BY <1>1, <2>7 DEF PayerPays, billing, history
  <2> QED
    BY <1>4, <2>1, <2>2, <2>3, <2>4, <2>5, <2>6, <2>7 DEF ProcessPayment
<1>5. ASSUME NEW i \in Invoices, DueDatePasses(i) PROVE ChargeInv'
  BY <1>1, <1>5 DEF DueDatePasses, payments, history
<1>6. ASSUME NEW r \in Refunds, Refunding(r) PROVE ChargeInv'
  BY <1>1, <1>6, RefundsFrame
<1>7. ASSUME NEW s \in Sweeps, ProcessOverdueInvoices(s) PROVE ChargeInv'
  BY <1>1, <1>3, <1>7, SweepsFrame DEF payments
<1>8. CASE UNCHANGED billingVars
  BY <1>1, <1>8 DEF billingVars, billing, payments, history
<1> QED
  BY <1>2, <1>4, <1>5, <1>6, <1>7, <1>8 DEF BillingNext

-----------------------------------------------------------------------------
(* Theorems *)

LEMMA BillingInvariant == BillingSpec => []BillingInv
<1>1. BillingInv /\ [BillingNext]_billingVars => BillingInv'
  BY BillingTypeNext, CallNext, BookNext, RefundNext, AloneNext, ChargeNext DEF BillingInv
<1> QED
  BY <1>1, BillingInitInv, PTL DEF BillingSpec

\* Every row, and every call under way, is of its type.
THEOREM BillingTypes == BillingSpec => []BillingTypeOK
<1>1. BillingInv => BillingTypeOK
  BY DEF BillingInv
<1> QED
  BY <1>1, BillingInvariant, PTL

\* However many payments, sweeps and refunds run side by side and fail, an
\* invoice is PAID only over a transaction that succeeded, and a transaction
\* succeeds only over a payment that the provider captured.
THEOREM BooksFollowProvider == BillingSpec => []PaidMeansCaptured
<1>1. BillingInv => PaidMeansCaptured
  BY DEF BillingInv
<1> QED
  BY <1>1, BillingInvariant, PTL

\* Over any number of refunds of a payment, in any order, settled at once,
\* pending, failed or reported without an amount, the SUCCEEDED refund rows never
\* claim more than was given back, and a transaction whose type is REFUND was
\* given back in full unless a refund of it was told as pending.
THEOREM RefundRowsHold == BillingSpec => []RefundsAddUp
<1>1. BillingInv => RefundsAddUp
  BY DEF BillingInv
<1> QED
  BY <1>1, BillingInvariant, PTL

\* However payments and sweeps overlap, fail and are handed off: a payment that
\* begins for an invoice that was paid is never captured, unless a sweep that had
\* listed the invoice before updated it afterwards.
THEOREM NobodyChargedAgain == BillingSpec => []NeverChargedAgain
<1>1. BillingInv => NeverChargedAgain
  BY DEF BillingInv, ChargeInv, NeverChargedAgain
<1> QED
  BY <1>1, BillingInvariant, PTL

\* As long as no call starts during another one, a paid invoice stays paid and
\* is not dunned.
THEOREM PaidStaysSettled == BillingSpec => PaidIsSettled
<1> DEFINE StaysPaid ==
      ~overlapped' =>
        \A i \in Invoices : invoice[i] = "PAID" =>
          invoice'[i] = "PAID" /\ dunning'[i] = dunning[i]
<1>1. BillingInv /\ [BillingNext]_billingVars => StaysPaid
  <2> SUFFICES ASSUME BillingInv, [BillingNext]_billingVars, ~overlapped'
               PROVE  \A i \in Invoices : invoice[i] = "PAID" =>
                        invoice'[i] = "PAID" /\ dunning'[i] = dunning[i]
    OBVIOUS
  <2> USE DEF BillingInv, BillingTypeOK, billing
  <2>1. ASSUME NEW i \in Invoices, CreateInvoice(i) \/ DueDatePasses(i) PROVE StaysPaid
    BY <2>1 DEF CreateInvoice, DueDatePasses
  <2>2. ASSUME NEW s \in Sweeps, ProcessOverdueInvoices(s) PROVE StaysPaid
    <3>1. ~overlapped
      BY <2>2, SweepsFrame
    <3> QED
      BY <2>2, <3>1 DEF ProcessOverdueInvoices, ReadOverdue, MarkOverdue, EndSweep, SweepInv
  <2>3. ASSUME NEW p \in Payments, ProcessPayment(p) PROVE StaysPaid
    BY <2>3, PaymentsFrame DEF MarkInvoicePaid
  <2> QED
    BY <2>1, <2>2, <2>3, RefundsFrame DEF BillingNext, billingVars
<1> QED
  BY <1>1, BillingInvariant, PTL DEF BillingSpec, PaidIsSettled

-----------------------------------------------------------------------------
(* The records of the payment saga (PaymentSaga) *)

Records == [id : Nat, subscription : Nat, payment : Nat]

\* A record names what it was made for, and that is there.
HangsTogether(i) == record[i] # Absent => Hangs(i) \/ i \in uncompensated

\* The records left are those whose own compensation failed in silence.
OnlySwallowed == \A i \in Effectful : record[i] # Absent => i \in uncompensated

\* A record is there as long as the effect of its step is, and the orchestrator
\* has its id once the step returned; an outcome is decided when the world
\* outside shows it.
RecordInv ==
  /\ now \in Nat \ {0}
  /\ record \in [Effectful -> Records]
  /\ result \in [Steps -> Nat]
  /\ \A i \in Effectful : record[i] # Absent <=> effect[i] = "applied"
  /\ \A i \in Effectful : record[i] # Absent => record[i].id # NoId
  /\ \A i \in Effectful : promise[i] = "resolved" =>
       result[i] # NoId /\ (record[i] # Absent => result[i] = record[i].id)
  /\ \A i \in Effectful : HangsTogether(i)
  /\ status = "COMPENSATED" =>
       pc \in {"saving", "returned", "crashed"} /\ OnlySwallowed

\* The effectful steps are among the steps, and a step reads earlier ones.
LEMMA ReadsBefore ==
  /\ Effectful = {2, 3, 4, 5} /\ Effectful \subseteq Steps
  /\ \A i \in Effectful : \A j \in Reads(i) : j \in Effectful /\ j < i
  /\ \A i \in Effectful : TakePayment \in Reads(i) => CreateSubscription \in Reads(i)
BY PaymentStepsAssumption
   DEF Steps, Reads, CreateSubscription, TakePayment, GenerateInvoice, ActivateSubscription

LEMMA PaymentStep == [PaymentNext]_payment => [Next]_vars
BY DEF PaymentNext, payment, Tick, Perform, ReturnResult, Throw, UndoRecord, Next,
       KeepRecord, Settle, Compensate

LEMMA RecordInit == PaymentInit => RecordInv
<1>. SUFFICES ASSUME PaymentInit PROVE RecordInv
  OBVIOUS
<1>1. Absent \in Records
  BY DEF Absent, Records, NoId
<1>2. QED
  BY <1>1, ReadsBefore DEF PaymentInit, Init, RecordInv, HangsTogether, NoId

\* A step that makes no record and returns no result.
LEMMA RecordFrame ==
  ASSUME RecordInv, UNCHANGED <<result, record, effect>>, now' \in Nat \ {0},
         uncompensated \subseteq uncompensated',
         \A i \in Effectful : promise'[i] = "resolved" => promise[i] = "resolved",
         status' = "COMPENSATED" =>
           /\ pc' \in {"saving", "returned", "crashed"}
           /\ OnlySwallowed
  PROVE  RecordInv'
BY DEF RecordInv, HangsTogether, Hangs, OnlySwallowed

\* What is left of a failed saga whose compensation is over.
LEMMA NothingLeft ==
  ASSUME IInv, CalmInv, RecordInv, pc = "decide", failedStep # 0
  PROVE  OnlySwallowed
<1>. SUFFICES ASSUME NEW i \in Effectful, effect[i] = "applied"
              PROVE  i \in uncompensated
  BY DEF RecordInv, OnlySwallowed
<1>0. i \in Steps /\ i \in Int /\ current \in Int
  BY ReadsBefore, LenProperties DEF Steps, IInv, TypeOK, current
<1>1. CASE i < current
  BY <1>0, <1>1 DEF IInv, CompensationInv
<1>2. CASE i = current
  BY <1>0, <1>2 DEF CalmInv
<1>3. CASE i > current
  BY <1>0, <1>3 DEF IInv, StepInv
<1>4. QED
  BY <1>0, <1>1, <1>2, <1>3

LEMMA RecordNext ==
  Lenient /\ IInv /\ CalmInv /\ RecordInv /\ [PaymentNext]_payment => RecordInv'
<1>. SUFFICES ASSUME Lenient, IInv, CalmInv, RecordInv, [PaymentNext]_payment
              PROVE  RecordInv'
  OBVIOUS
<1>0. /\ Len(completed) \in Nat /\ current \in Int
      /\ promise \in [Steps -> {"idle", "running", "resolved", "rejected", "dead"}]
      /\ effect \in [Steps -> {"none", "applied", "undone"}]
      /\ now \in Nat \ {0}
  BY LenProperties DEF IInv, TypeOK, RecordInv, current
<1>1. CASE Tick
  <2>1. now' \in Nat \ {0} /\ UNCHANGED <<result, record, effect, promise, status, pc, uncompensated>>
    BY <1>0, <1>1 DEF Tick, vars, orchestrator, outside
  <2>2. QED
    BY <2>1, RecordFrame DEF RecordInv
<1>2. CASE (Start \/ Orchestrate \/ Crash \/ Expire) /\ UNCHANGED data
  <2>0. /\ UNCHANGED <<result, record, now>>
        /\ (Start \/ Orchestrate \/ Crash \/ Expire)
    BY <1>2 DEF data
  <2>1. CASE DecideStatus
    <3>1. status' = "COMPENSATED" => failedStep # 0
      BY <2>1 DEF DecideStatus, FinalStatus
    <3>2. status' = "COMPENSATED" => OnlySwallowed
      BY <2>1, <3>1, NothingLeft DEF DecideStatus
    <3>3. QED
      BY <1>0, <2>0, <2>1, <3>2, RecordFrame DEF DecideStatus, outside
  <2>2. CASE ~DecideStatus
    <3>1. UNCHANGED <<effect, uncompensated>>
      BY <2>0, <2>2 DEF Start, Orchestrate, StartStep, CompleteStep, HookThrows, FailStep,
         StartCompensation, EndLoop, EndCompensation, Return, Crash, Expire, outside
    <3>2. \A i \in Effectful : promise'[i] = "resolved" => promise[i] = "resolved"
      BY <1>0, <2>0, <2>2, ReadsBefore
         DEF Start, Orchestrate, StartStep, MoreSteps, CompleteStep, HookThrows, FailStep,
         StartCompensation, EndLoop, EndCompensation, Return, Crash, Expire, outside
    <3>3. UNCHANGED status
      BY <2>0, <2>2 DEF Start, Orchestrate, StartStep, CompleteStep, HookThrows, FailStep,
         StartCompensation, EndLoop, EndCompensation, Return, Crash, Expire, orchestrator,
         Lenient
    <3>4. pc \in {"saving", "returned", "crashed"}
            => pc' \in {"saving", "returned", "crashed"}
      BY <2>0, <2>2 DEF Start, Orchestrate, StartStep, CompleteStep, HookThrows, FailStep,
         StartCompensation, EndLoop, EndCompensation, Return, Crash, Expire
    <3>5. QED
      BY <1>0, <2>0, <3>1, <3>2, <3>3, <3>4, RecordFrame DEF RecordInv
  <2>3. QED
    BY <2>1, <2>2
<1>3. ASSUME NEW i \in Steps, Perform(i) PROVE RecordInv'
  <2>1. /\ i \in Effectful /\ promise[i] = "running" /\ effect[i] = "none"
        /\ effect' = [effect EXCEPT ![i] = "applied"]
        /\ record' = [record EXCEPT ![i] = Made(i)]
        /\ UNCHANGED <<pc, status, promise, now, result, uncompensated>>
        /\ \A j \in Reads(i) : result[j] # NoId
    BY <1>3 DEF Perform, TakeEffect, Prepared, orchestrator
  <2>2. i = current /\ pc = "awaitStep" /\ failedStep = 0 /\ status = "none"
    BY <2>1 DEF CalmInv, IInv, FailureInv
  <2>3. \A j \in Reads(i) : /\ j \in Effectful /\ j # i
                            /\ record[j] # Absent /\ result[j] = record[j].id
    <3>. SUFFICES ASSUME NEW j \in Reads(i)
                  PROVE  /\ j \in Effectful /\ j # i
                         /\ record[j] # Absent /\ result[j] = record[j].id
      OBVIOUS
    <3>1. j \in Effectful /\ j \in Steps /\ j < i /\ j # i
      BY <2>1, ReadsBefore
    <3>2. effect[j] = "applied" /\ promise[j] = "resolved"
      BY <2>2, <3>1 DEF IInv, FailureInv, StepInv
    <3>3. QED
      BY <3>1, <3>2 DEF RecordInv
  <2>4. /\ Made(i) \in Records /\ Made(i).id # NoId
        /\ Made(i).subscription =
             (IF CreateSubscription \in Reads(i) THEN result[CreateSubscription] ELSE NoId)
        /\ Made(i).payment =
             (IF TakePayment \in Reads(i) THEN result[TakePayment] ELSE NoId)
    <3>1. i \in {2, 3, 4, 5} /\ result[2] \in Nat /\ result[3] \in Nat /\ now \in Nat \ {0}
      BY <1>0, <2>1, ReadsBefore DEF RecordInv
    <3>2. CASE i = 2
      BY <3>1, <3>2 DEF Made, CreateSubscription, TakePayment, GenerateInvoice,
         ActivateSubscription, Subscription, Absent, Records, NoId, Reads
    <3>3. CASE i = 3
      <4>0. Absent \in Records /\ Absent.payment = 0
        BY DEF Absent, Records, NoId
      <4>1. /\ Payment \in Records
            /\ Payment.id = now /\ Payment.subscription = result[2] /\ Payment.payment = 0
        BY <3>1, <4>0 DEF Payment, FromResult, CreateSubscription, Records
      <4>2. Made(i) = Payment /\ Reads(i) = {2}
        BY <3>3 DEF Made, Reads, CreateSubscription, TakePayment, GenerateInvoice,
           ActivateSubscription
      <4>3. QED
        BY <3>1, <4>1, <4>2 DEF CreateSubscription, TakePayment, Records, NoId
    <3>4. CASE i = 4
      BY <3>1, <3>4 DEF Made, CreateSubscription, TakePayment, GenerateInvoice,
         ActivateSubscription, Invoice, FromResult, Absent, Records, NoId, Reads
    <3>5. CASE i = 5
      <4>1. result[2] # NoId
        BY <2>1, <3>5 DEF Reads, CreateSubscription, TakePayment, GenerateInvoice,
           ActivateSubscription
      <4>0. Absent \in Records /\ Absent.payment = 0
        BY DEF Absent, Records, NoId
      <4>2. /\ Activation \in Records
            /\ Activation.id = result[2] /\ Activation.subscription = result[2]
            /\ Activation.payment = 0
        BY <3>1, <4>0 DEF Activation, FromResult, CreateSubscription, Records
      <4>3. Made(i) = Activation /\ Reads(i) = {2}
        BY <3>5 DEF Made, Reads, CreateSubscription, TakePayment, GenerateInvoice,
           ActivateSubscription
      <4>4. QED
        BY <3>1, <4>1, <4>2, <4>3 DEF CreateSubscription, TakePayment, Records, NoId
    <3>6. QED
      BY <3>1, <3>2, <3>3, <3>4, <3>5
  <2>5. /\ record' \in [Effectful -> Records] /\ record'[i] = Made(i) /\ Made(i) # Absent
        /\ \A k \in Effectful : k # i => record'[k] = record[k] /\ effect'[k] = effect[k]
        /\ effect'[i] = "applied"
    BY <1>0, <2>1, <2>4, ReadsBefore DEF RecordInv, Absent
  <2>6. ASSUME NEW k \in Effectful PROVE HangsTogether(k)'
    <3>1. CASE k = i
      <4>1. \A j \in Reads(i) : record'[j] = record[j]
        BY <2>3, <2>5
      <4>2. QED
        BY <2>3, <2>4, <2>5, <3>1, <4>1 DEF HangsTogether, Hangs
    <3>2. CASE k # i
      <4>1. record[k] # Absent => k <= i
        BY <1>0, <2>2, ReadsBefore DEF RecordInv, IInv, StepInv
      <4>2. record[k] # Absent => i \notin Reads(k)
        BY <4>1, <3>2, ReadsBefore
      <4>3. record[k] # Absent =>
              \A j \in Reads(k) : j \in Effectful /\ record'[j] = record[j]
        BY <2>5, <4>2, ReadsBefore
      <4>4. HangsTogether(k)
        BY DEF RecordInv
      <4>5. QED
        BY <2>1, <2>5, <3>2, <4>3, <4>4 DEF HangsTogether, Hangs
    <3>3. QED
      BY <3>1, <3>2
  <2>7. \A k \in Effectful : promise'[k] = "resolved" =>
          k # i /\ result'[k] # NoId /\ (record'[k] # Absent => result'[k] = record'[k].id)
    BY <2>1, <2>5 DEF RecordInv
  <2>8. \A k \in Effectful : /\ record'[k] # Absent <=> effect'[k] = "applied"
                             /\ record'[k] # Absent => record'[k].id # NoId
    BY <2>4, <2>5 DEF RecordInv
  <2>9. QED
    BY <1>0, <2>1, <2>2, <2>5, <2>6, <2>7, <2>8 DEF RecordInv
<1>4. ASSUME NEW i \in Steps, ReturnResult(i) PROVE RecordInv'
  <2>1. /\ promise[i] = "running" /\ promise' = [promise EXCEPT ![i] = "resolved"]
        /\ i \in Effectful => effect[i] = "applied"
        /\ result' = IF i \in Effectful THEN [result EXCEPT ![i] = record[i].id] ELSE result
        /\ UNCHANGED <<status, effect, now, record, uncompensated>>
    BY <1>4 DEF ReturnResult, Resolve
  <2>2. status = "none"
    BY <2>1 DEF CalmInv
  <2>3. i \in Effectful =>
          record[i] # Absent /\ record[i].id \in Nat /\ record[i].id # NoId
    BY <2>1 DEF RecordInv, Records
  <2>4. result' \in [Steps -> Nat]
    BY <2>1, <2>3 DEF RecordInv
  <2>5. \A k \in Effectful : promise'[k] = "resolved" =>
          result'[k] # NoId /\ (record'[k] # Absent => result'[k] = record'[k].id)
    BY <1>0, <2>1, <2>3, ReadsBefore DEF RecordInv
  <2>6. QED
    BY <1>0, <2>1, <2>2, <2>4, <2>5 DEF RecordInv, HangsTogether, Hangs
<1>5. ASSUME NEW i \in Steps, Throw(i) PROVE RecordInv'
  <2>1. /\ UNCHANGED <<result, record, effect, now, status, uncompensated>>
        /\ promise' = [promise EXCEPT ![i] = "rejected"] /\ promise[i] = "running"
    BY <1>5 DEF Throw, Reject, data, orchestrator
  <2>2. status' # "COMPENSATED"
    BY <2>1 DEF CalmInv
  <2>3. QED
    BY <1>0, <2>1, <2>2, ReadsBefore, RecordFrame
<1>6. CASE UndoRecord
  <2>. DEFINE i == Head(todo)
  <2>1. /\ pc = "awaitCompensation" /\ status' = "none"
        /\ effect' = Undone(i)
        /\ record' = IF i \in Effectful /\ result[i] # NoId
                     THEN [record EXCEPT ![i] = Absent] ELSE record
        /\ UNCHANGED <<promise, now, result, uncompensated>>
    BY <1>6 DEF UndoRecord, CompensationSucceeds, CalmInv
  <2>2. /\ i = Len(todo) /\ i \in Steps /\ i < current
    <3>1. i = Len(todo) /\ i \in Steps
      BY <2>1, TailOfCountdown DEF IInv, TypeOK, CompensationInv
    <3>2. QED
      BY <1>0, <2>1, <3>1 DEF IInv, CompensationInv, current
  <2>. HIDE DEF i
  <2>3. i \in Effectful => result[i] # NoId
    BY <2>2, ReadsBefore DEF IInv, StepInv, RecordInv
  <2>4. /\ record' \in [Effectful -> Records]
        /\ \A k \in Effectful : k # i => record'[k] = record[k] /\ effect'[k] = effect[k]
        /\ i \in Effectful => record'[i] = Absent /\ effect'[i] # "applied"
    <3>1. Absent \in Records
      BY DEF Absent, Records, NoId
    <3>2. QED
      BY <1>0, <2>1, <2>2, <2>3, <3>1, ReadsBefore DEF RecordInv, Undone
  <2>5. ASSUME NEW k \in Effectful, k > i PROVE record[k] # Absent => k \in uncompensated
    <3>. SUFFICES ASSUME effect[k] = "applied" PROVE k \in uncompensated
      BY DEF RecordInv
    <3>0. k \in Steps /\ k \in Int
      BY ReadsBefore DEF Steps
    <3>1. CASE k < current
      BY <2>1, <2>2, <2>5, <3>0, <3>1 DEF IInv, CompensationInv
    <3>2. CASE k = current
      BY <2>1, <3>0, <3>2 DEF CalmInv, IInv, FailureInv
    <3>3. CASE k > current
      BY <3>0, <3>3 DEF IInv, StepInv
    <3>4. QED
      BY <1>0, <3>0, <3>1, <3>2, <3>3
  <2>6. ASSUME NEW k \in Effectful PROVE HangsTogether(k)'
    <3>. SUFFICES ASSUME record'[k] # Absent, k \notin uncompensated
                  PROVE  HangsTogether(k)'
      BY <2>1 DEF HangsTogether
    <3>1. k # i /\ record'[k] = record[k]
      BY <2>4
    <3>2. ~(k > i)
      BY <2>5, <3>1
    <3>3. \A j \in Reads(k) : j \in Effectful /\ j # i
      BY <2>2, <3>2, ReadsBefore DEF Steps
    <3>4. \A j \in Reads(k) : record'[j] = record[j]
      BY <2>4, <3>3
    <3>5. HangsTogether(k)
      BY DEF RecordInv
    <3>6. QED
      BY <2>4, <3>1, <3>4, <3>5 DEF HangsTogether, Hangs
  <2>7. \A k \in Effectful : /\ record'[k] # Absent <=> effect'[k] = "applied"
                             /\ record'[k] # Absent => record'[k].id # NoId
    BY <2>4 DEF RecordInv
  <2>8. \A k \in Effectful : promise'[k] = "resolved" =>
          result'[k] # NoId /\ (record'[k] # Absent => result'[k] = record'[k].id)
    BY <2>1, <2>4 DEF RecordInv
  <2>9. QED
    BY <1>0, <2>1, <2>4, <2>6, <2>7, <2>8 DEF RecordInv
<1>7. CASE UNCHANGED payment
  BY <1>0, <1>7, RecordFrame DEF payment, vars, data, outside, orchestrator, RecordInv
<1>8. CASE KeepRecord
  <2>1. /\ UNCHANGED <<result, record, effect, now, promise>> /\ status' = "none"
        /\ uncompensated \subseteq uncompensated'
    BY <1>8 DEF KeepRecord, CompensationSwallows, data, CalmInv
  <2>2. QED
    BY <1>0, <2>1, RecordFrame
<1>9. QED
  BY <1>1, <1>2, <1>3, <1>4, <1>5, <1>6, <1>7, <1>8 DEF PaymentNext

\* Whichever steps reject, whichever compensations fail in silence and wherever
\* the process stops: what a record of the payment saga names is there, and a saga
\* that ended COMPENSATED has left nothing behind, up to the very records whose
\* own compensation failed.
THEOREM RecordsNeverDangle == ASSUME Lenient PROVE PaymentSpec => []RecordsHang
<1>1. PaymentInit => IInv /\ CalmInv /\ RecordInv
  BY InvInit, CalmInit, RecordInit DEF PaymentInit
<1>2. IInv /\ CalmInv /\ RecordInv /\ [PaymentNext]_payment
        => (IInv /\ CalmInv /\ RecordInv)'
  BY Lenient, PaymentStep, InvNext, CalmNext, RecordNext
<1>3. RecordInv => RecordsHang
  BY DEF RecordInv, HangsTogether, OnlySwallowed, RecordsHang
<1>4. QED
  BY <1>1, <1>2, <1>3, PTL DEF PaymentSpec

\* Whichever steps reject, whichever compensations fail in silence and wherever the
\* process stops, the payment saga keeps the contract of a saga: its effects come in
\* the order of its steps, go in the reverse one, and are all there when it ends
\* COMPLETED and, up to those whose own compensation failed, all gone when COMPENSATED.
THEOREM PaymentsImplementContract == ASSUME Lenient PROVE PaymentSpec => ContractHolds
<1>1. PaymentInit => IInv /\ CalmInv /\ Contract!Init
  BY InvInit, CalmInit, ContractInit DEF PaymentInit
<1>2. IInv /\ CalmInv /\ [PaymentNext]_payment => (IInv /\ CalmInv)'
  BY Lenient, PaymentStep, InvNext, CalmNext
<1>3. IInv /\ CalmInv /\ [PaymentNext]_payment => [Contract!Next]_(Contract!vars)
  BY Lenient, PaymentStep, ContractNext
<1>4. QED
  BY <1>1, <1>2, <1>3, PTL DEF PaymentSpec, ContractHolds, Contract!Spec
==============================================================================
