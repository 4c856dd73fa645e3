----------------------------- MODULE PaymentSaga -----------------------------
(***************************************************************************)
(* The subscription payment saga                                           *)
(* (plugins/payment/src/saga/subscription-payment.saga.ts): the five steps *)
(* that the orchestrator of Saga runs for it, what they take from the      *)
(* results of the steps before them, and what they make.                   *)
(*                                                                         *)
(* The helpers that the steps call are placeholders: each resolves after   *)
(* a tenth of a second, and only processPayment may reject.  Here every    *)
(* one may reject, as the services they stand for may.  The step timeout   *)
(* is a minute and no callback onStepComplete is given, so that neither    *)
(* happens.  Every compensation catches its errors and returns, so that    *)
(* the orchestrator counts it as done: that is the fault "swallow".        *)
(***************************************************************************)
EXTENDS Saga

CONSTANT MaxTime  \* bound: the last millisecond in which a record is made

VARIABLES
  now,     \* Date.now()
  result,  \* the id in context.stepResults of each step, NoId without an entry
  record   \* what each step has made: the subscription, the payment, the invoice

data == <<now, result, record>>
payment == <<vars, data>>

ASSUME PaymentStepsAssumption == N = 5 /\ Effectful = 2..5
ASSUME MaxTimeAssumption == MaxTime \in Nat \ {0}

\* The effectful steps, by their order.
CreateSubscription == 2
TakePayment == 3
GenerateInvoice == 4
ActivateSubscription == 5

NoId == 0
Absent == [id |-> NoId, subscription |-> NoId, payment |-> NoId]

\* The steps whose results a step asks for; it throws if one is missing.
Reads(i) == CASE i = TakePayment -> {CreateSubscription}
              [] i = GenerateInvoice -> {CreateSubscription, TakePayment}
              [] i = ActivateSubscription -> {CreateSubscription}
              [] OTHER -> {}
Prepared(i) == \A j \in Reads(i) : result[j] # NoId

\* What a step takes from the results; the result of the step before it may be
\* that of another one than it wants.
FromLatest(i, j) == result[i - 1]
FromResult(i, j) == result[j]

\* What the steps make.  A record gets the millisecond as its id; to activate a
\* subscription makes no record, but names one.
Subscription == [Absent EXCEPT !.id = now]
Payment ==
  [Absent EXCEPT !.id = now,
     !.subscription = FromResult(TakePayment, CreateSubscription)]
Invoice ==
  [id |-> now,
   subscription |-> FromResult(GenerateInvoice, CreateSubscription),
   payment |-> FromResult(GenerateInvoice, TakePayment)]
Activation ==
  LET id == FromResult(ActivateSubscription, CreateSubscription) IN
  [Absent EXCEPT !.id = id, !.subscription = id]

Made(i) == CASE i = CreateSubscription -> Subscription
             [] i = TakePayment -> Payment
             [] i = GenerateInvoice -> Invoice
             [] i = ActivateSubscription -> Activation

PaymentInit ==
  /\ Init
  /\ now = 1
  /\ result = [i \in Steps |-> NoId]
  /\ record = [i \in Effectful |-> Absent]

Tick ==
  /\ now < MaxTime
  /\ now' = now + 1
  /\ UNCHANGED <<vars, result, record>>

\* The helper of a step does its work.
Perform(i) ==
  /\ TakeEffect(i) /\ Prepared(i)
  /\ record' = [record EXCEPT ![i] = Made(i)]
  /\ UNCHANGED <<now, result>>

\* The step returns, and the orchestrator keeps what it returned.  Validation
\* returns the payment method, which nobody asks for.
ReturnResult(i) ==
  /\ Resolve(i)
  /\ result' = IF i \in Effectful THEN [result EXCEPT ![i] = record[i].id] ELSE result
  /\ UNCHANGED <<now, record>>

Throw(i) == Reject(i) /\ UNCHANGED data

\* A compensation goes by the id in the result of its step, and does nothing
\* without one.  Its helper takes the record back, or rejects and leaves it.
UndoRecord ==
  LET i == Head(todo) IN
  /\ CompensationSucceeds
  /\ record' = IF i \in Effectful /\ result[i] # NoId
               THEN [record EXCEPT ![i] = Absent] ELSE record
  /\ UNCHANGED <<now, result>>

KeepRecord == CompensationSwallows /\ UNCHANGED data

PaymentNext ==
  \/ Tick
  \/ (Start \/ Orchestrate \/ Crash \/ Expire) /\ UNCHANGED data
  \/ \E i \in Steps : Perform(i) \/ ReturnResult(i) \/ Throw(i)
  \/ UndoRecord \/ KeepRecord

PaymentSpec == PaymentInit /\ [][PaymentNext]_payment

-----------------------------------------------------------------------------
(* Properties *)

\* The records that one names, and only those, are there.
Hangs(i) ==
  /\ record[i].subscription =
       (IF CreateSubscription \in Reads(i) THEN record[CreateSubscription].id ELSE NoId)
  /\ record[i].payment =
       (IF TakePayment \in Reads(i) THEN record[TakePayment].id ELSE NoId)
  /\ \A j \in Reads(i) : record[j] # Absent

\* No payment, invoice or activation is ever without the subscription and the
\* payment it was made for, in any state that rejections and crashes may leave,
\* and a saga that ended COMPENSATED has left none of them behind; the one
\* record that either can be false of is one whose own compensation failed and
\* kept that to itself.  A failure to take back one record never spoils another.
RecordsHang ==
  /\ \A i \in Effectful : record[i] # Absent => Hangs(i) \/ i \in uncompensated
  /\ status = "COMPENSATED" =>
       \A i \in Effectful : record[i] # Absent => i \in uncompensated
=============================================================================
