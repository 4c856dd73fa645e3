--------------------------- MODULE PaymentsProofs ----------------------------
(***************************************************************************)
(* Theorems about the payment plugin's modules Providers, Subscriptions    *)
(* and PaymentReads.  For any number of calls, every amount and every      *)
(* life, margin and delay that the assumptions allow, each provider        *)
(* implements PaymentLife, and no token is used after its end.  For any    *)
(* number of requests, users, payment methods and changes, no change of a  *)
(* column is lost, a past due subscription is not made active behind its   *)
(* back, and the default payment method is what was last asked for.  For   *)
(* any number of rows, users, writes and any size of page, a loader keeps  *)
(* for a key what the table said of it once, and who reads page after      *)
(* page undisturbed sees every row.                                        *)
(***************************************************************************)
EXTENDS Providers, Subscriptions, PaymentReads, SequenceTheorems, FiniteSetTheorems,
  WellFoundedInduction, TLAPS

-----------------------------------------------------------------------------
(* The inductive invariant *)

Words ==
  [STRIPE |-> {"requires_payment_method", "requires_confirmation", "requires_action",
               "processing", "succeeded", "canceled"},
   PAYPAL |-> {"CREATED", "PAYER_ACTION_REQUIRED", "APPROVED", "VOIDED", "COMPLETED"},
   SEPAY |-> {"pending", "processing", "completed", "success", "failed", "cancelled",
              "expired"}]
AllWords == UNION {Words[p] : p \in Names}

\* Where a payment that was not charged has come to its end.
Dead == {"canceled", "VOIDED", "cancelled", "expired", "failed"}
Over == Paid \cup Dead

CallRecords ==
  [op : {None, "create", "confirm", "cancel", "refund"},
   pc : {"idle", "authenticating", "issued", "retrieving", "sent", "answered"},
   amount : Nat, at : Nat, token : Nat, status : AllWords \cup {None, "open"}]

ProvidersTypes ==
  /\ provider \in Names \cup {None} /\ currency \in {"USD", "VND"}
  /\ native \in AllWords \cup {None}
  /\ charge \in Nat /\ given \in Nat /\ open \in Nat /\ now \in Nat /\ reported \in Nat
  /\ token \in [issued : Nat, expiresAt : Nat]
  /\ call \in [Calls -> CallRecords]

\* An answer is waited for no longer than it takes; what was sent is there
\* before its token's life is over.
ClockInv ==
  /\ now > 0
  /\ token.expiresAt <= token.issued + MaxDelay + Lifetime - Margin
  /\ \A c \in Calls :
       /\ OnItsWay(c) => call[c].at <= now /\ now <= call[c].at + MaxDelay
       /\ call[c].pc = "issued" => call[c].token = call[c].at
       /\ call[c].pc = "retrieving" => provider # "PAYPAL"
       /\ provider = "PAYPAL" /\ call[c].pc = "sent" =>
            call[c].at + MaxDelay < call[c].token + Lifetime

\* Stripe counts dollars in cents.
Cents == provider = "STRIPE" /\ currency = "USD"
Whole(amount) == \E units \in Nat : amount = IF Cents THEN 100 * units ELSE units

\* What the payment has come to, and what was told of it.
MoneyInv ==
  /\ provider = None => native = None
  /\ native # None => native \in Words[provider] /\ charge = ToMeasure(Units)
  /\ given + open <= Charged /\ Whole(given) /\ Whole(open)
  /\ "SUCCEEDED" \in told => native \in Paid
  /\ told \cap {"CANCELED", "FAILED"} # {} => native \in Dead

\* A call that creates the payment is the only one, and what was answered is
\* the truth once the payment is over.
CallsInv ==
  /\ \A c \in Calls :
       /\ OnItsWay(c) => provider # None
       /\ call[c].op = "create" /\ call[c].pc # "answered" =>
            native = None /\ call[c].amount = Units
       /\ call[c].pc = "answered" /\ call[c].op # "refund" =>
            /\ call[c].status \in Words[provider]
            /\ call[c].status \in Over => native = call[c].status
       /\ call[c].pc = "answered" /\ call[c].op = "refund" => Whole(call[c].amount)
  /\ \A c, d \in Calls : call[c].op = "create" /\ call[d].op = "create" => c = d

\* The refunds that callers are yet to be told of.
Untold(c) ==
  IF call[c].pc = "answered" /\ call[c].op = "refund" /\ call[c].status = RefundDone[provider]
  THEN FromMeasure(call[c].amount) ELSE 0

\* f adds the weights up over every set of calls.
AddsUp(f, weight) ==
  /\ f \in [SUBSET Calls -> Nat]
  /\ \A S \in SUBSET Calls : \A c \in Calls \ S : f[S \cup {c}] = f[S] + weight[c]

RefundsInv ==
  \E f : /\ AddsUp(f, [c \in Calls |-> Untold(c)])
         /\ reported + f[Calls] <= InUnits(given)

ProvidersInv == ProvidersTypes /\ ClockInv /\ MoneyInv /\ CallsInv /\ RefundsInv

-----------------------------------------------------------------------------
(* Statuses and amounts *)

\* The tables tell a success of a payment that was charged, and an end without
\* one of a payment that has come to such an end.
LEMMA TablesHold ==
  ASSUME provider \in Names, NEW word \in Words[provider]
  PROVE  /\ MapStatus(word) = "SUCCEEDED" <=> word \in Paid
         /\ MapStatus(word) \in {"CANCELED", "FAILED"} <=> word \in Dead
<1> USE DEF Words, Paid, Dead, MapStatus
<1>1. CASE provider = "STRIPE"
  BY <1>1 DEF MapStripeStatus
<1>2. CASE provider = "PAYPAL"
  BY <1>2 DEF MapPayPalStatus
<1>3. CASE provider = "SEPAY"
  BY <1>3 DEF MapSepayStatus
<1> QED  BY <1>1, <1>2, <1>3 DEF Names

\* Nothing moves a payment that is over.
LEMMA MovesHold ==
  ASSUME NEW p \in Names, NEW move \in PayerMoves[p] \cup ConfirmMoves[p] \cup CancelMoves[p]
  PROVE  /\ move[1] \in Words[p] /\ move[2] \in Words[p]
         /\ move[1] \in Over => move[2] = move[1]
<1> USE DEF Words, Over, Paid, Dead
<1>1. CASE p = "STRIPE"
  BY <1>1 DEF PayerMoves, ConfirmMoves, CancelMoves
<1>2. CASE p = "PAYPAL"
  BY <1>2 DEF PayerMoves, ConfirmMoves, CancelMoves
<1>3. CASE p = "SEPAY"
  BY <1>3 DEF PayerMoves, ConfirmMoves, CancelMoves
<1> QED  BY <1>1, <1>2, <1>3 DEF Names

LEMMA WordsHold ==
  ASSUME NEW p \in Names
  PROVE  /\ Words[p] \subseteq AllWords /\ None \notin Words[p]
         /\ Created[p] \subseteq Words[p] /\ Created[p] \cap Over = {}
         /\ Paid \cap Dead = {} /\ None \notin Over
BY DEF Words, AllWords, Names, None, Created, Over, Paid, Dead

LEMMA Measures ==
  ASSUME ProvidersTypes
  PROVE  /\ \A n \in Nat : /\ Whole(ToMeasure(n)) /\ ToMeasure(n) \in Nat
                           /\ InUnits(ToMeasure(n)) = n
         /\ \A a : Whole(a) => a \in Nat /\ InUnits(a) \in Nat /\ FromMeasure(a) = InUnits(a)
         /\ \A a, b : Whole(a) /\ Whole(b) =>
              /\ Whole(a + b) /\ InUnits(a + b) = InUnits(a) + InUnits(b)
              /\ b <= a => Whole(a - b) /\ InUnits(b) <= InUnits(a)
              /\ b < a => InUnits(b) < InUnits(a)
         /\ Whole(0) /\ InUnits(0) = 0
<1> USE DEF ProvidersTypes, Whole, Cents, InUnits, ToMeasure, FromMeasure, ToSmallestUnit,
            FromSmallestUnit, Scale, ZeroDecimalCurrencies
<1>1. CASE Cents
  <2>1. /\ \A n : ToMeasure(n) = n * 100
        /\ \A a : /\ Whole(a) <=> \E units \in Nat : a = 100 * units
                 /\ InUnits(a) = a \div 100 /\ FromMeasure(a) = a \div 100
    BY <1>1
  <2> HIDE DEF Whole, InUnits, ToMeasure, FromMeasure
  <2>2. \A u \in Nat : (100 * u) \div 100 = u
    OBVIOUS
  <2>3. \A n \in Nat : /\ Whole(ToMeasure(n)) /\ ToMeasure(n) \in Nat
                      /\ InUnits(ToMeasure(n)) = n
    BY <2>1, <2>2
  <2>4. \A a : Whole(a) => a \in Nat /\ InUnits(a) \in Nat /\ FromMeasure(a) = InUnits(a)
    BY <2>1, <2>2
  <2>5. ASSUME NEW a, NEW b, Whole(a), Whole(b)
        PROVE  /\ Whole(a + b) /\ InUnits(a + b) = InUnits(a) + InUnits(b)
               /\ b <= a => Whole(a - b) /\ InUnits(b) <= InUnits(a)
               /\ b < a => InUnits(b) < InUnits(a)
    <3>1. PICK u \in Nat, w \in Nat : a = 100 * u /\ b = 100 * w
      BY <2>1, <2>5
    <3>2. InUnits(a) = u /\ InUnits(b) = w
      BY <2>1, <2>2, <3>1
    <3>3. a + b = 100 * (u + w) /\ u + w \in Nat
      BY <3>1
    <3>4. Whole(a + b) /\ InUnits(a + b) = u + w
      BY <2>1, <2>2, <3>3
    <3>5. b <= a => a - b = 100 * (u - w) /\ u - w \in Nat
      BY <3>1
    <3> QED  BY <2>1, <3>1, <3>2, <3>4, <3>5
  <2>6. Whole(0) /\ InUnits(0) = 0
    BY <2>1
  <2> QED  BY <2>3, <2>4, <2>5, <2>6
<1>2. CASE ~Cents
  BY <1>2
<1> QED  BY <1>1, <1>2

\* What the payer was charged, in whole units.
LEMMA ChargedHolds ==
  ASSUME ProvidersTypes, MoneyInv
  PROVE  /\ Whole(Charged)
         /\ native \in Paid => Charged = ToMeasure(Units) /\ InUnits(Charged) = Units
         /\ native \notin Paid => Charged = 0 /\ given = 0 /\ open = 0
         /\ given <= Charged /\ open <= Charged
<1>1. Units \in Nat /\ None \notin Paid
  BY UnitsAssumption DEF None, Paid
<1>2. native \in Paid => charge = ToMeasure(Units)
  BY <1>1 DEF MoneyInv
<1> QED  BY <1>1, <1>2, Measures DEF Charged, MoneyInv, ProvidersTypes

-----------------------------------------------------------------------------
(* Sums *)

\* The weight of one member is no more than that of the whole.
LEMMA PartOfWhole ==
  ASSUME NEW f, NEW weight, AddsUp(f, weight), NEW c \in Calls, weight[c] \in Nat,
         NEW S \in SUBSET Calls, c \in S
  PROVE  weight[c] <= f[S]
<1> DEFINE T == S \ {c}
<1>1. T \in SUBSET Calls /\ c \in Calls \ T /\ T \cup {c} = S
  OBVIOUS
<1>2. f[T] \in Nat /\ f[T \cup {c}] = f[T] + weight[c]
  BY <1>1 DEF AddsUp
<1>3. f[S] = f[T] + weight[c]
  BY <1>1, <1>2
<1> HIDE DEF T
<1> QED  BY <1>2, <1>3

\* When one weight changes, the sums over the sets that have it do.
LEMMA ChangeOfWeight ==
  ASSUME NEW weight \in [Calls -> Nat], NEW f, AddsUp(f, weight),
         NEW new \in [Calls -> Nat], NEW c \in Calls,
         \A d \in Calls \ {c} : new[d] = weight[d]
  PROVE  \E g : AddsUp(g, new) /\ g[Calls] = f[Calls] - weight[c] + new[c]
<1> DEFINE g == [S \in SUBSET Calls |-> IF c \in S THEN f[S] - weight[c] + new[c] ELSE f[S]]
<1>1. \A S \in SUBSET Calls : f[S] \in Nat /\ (c \in S => weight[c] <= f[S])
  BY PartOfWhole DEF AddsUp
<1>2. g \in [SUBSET Calls -> Nat]
  BY <1>1
<1>3. ASSUME NEW S \in SUBSET Calls, NEW d \in Calls \ S
      PROVE  g[S \cup {d}] = g[S] + new[d]
  <2>1. /\ f[S \cup {d}] = f[S] + weight[d]
        /\ {f[S], weight[c], weight[d], new[d]} \subseteq Nat
    BY <1>1 DEF AddsUp
  <2>2. CASE d = c
    BY <2>1, <2>2
  <2>3. CASE d # c
    BY <2>1, <2>3
  <2> QED  BY <2>2, <2>3
<1>4. g[Calls] = f[Calls] - weight[c] + new[c]
  OBVIOUS
<1> QED  BY <1>2, <1>3, <1>4 DEF AddsUp

LEMMA UntoldNat ==
  ASSUME ProvidersTypes, CallsInv, NEW c \in Calls
  PROVE  Untold(c) \in Nat
BY Measures DEF Untold, CallsInv

\* One call moves on, and there is no more to be told than was given back.
LEMMA OneCall ==
  ASSUME ProvidersInv, ProvidersTypes', CallsInv', NEW c \in Calls,
         \A d \in Calls \ {c} : call'[d] = call[d],
         UNCHANGED <<provider, currency>>,
         reported' + Untold(c)' - InUnits(given)' <= reported + Untold(c) - InUnits(given),
         InUnits(given) \in Nat, InUnits(given)' \in Nat
  PROVE  RefundsInv'
<1> DEFINE weight == [d \in Calls |-> Untold(d)]
           new == [d \in Calls |-> Untold(d)']
<1>1. PICK f : AddsUp(f, weight) /\ reported + f[Calls] <= InUnits(given)
  BY DEF ProvidersInv, RefundsInv
<1>2. weight \in [Calls -> Nat]
  BY UntoldNat DEF ProvidersInv
<1>3. new \in [Calls -> Nat]
  <2>1. ASSUME NEW d \in Calls  PROVE  Untold(d)' \in Nat
    <3>1. /\ call'[d].pc = "answered" /\ call'[d].op = "refund" => Whole(call'[d].amount)
          /\ Untold(d)' = IF /\ call'[d].pc = "answered" /\ call'[d].op = "refund"
                             /\ call'[d].status = RefundDone[provider]
                          THEN FromMeasure(call'[d].amount) ELSE 0
      BY DEF CallsInv, Untold, Whole, Cents, FromMeasure, FromSmallestUnit, Scale
    <3> QED  BY <3>1, Measures DEF ProvidersInv
  <2> QED  BY <2>1
<1>4. \A d \in Calls \ {c} : new[d] = weight[d]
  BY DEF Untold, FromMeasure, FromSmallestUnit, Scale
<1>5. weight[c] = Untold(c) /\ new[c] = Untold(c)'
  OBVIOUS
<1>6. f[Calls] \in Nat
  BY <1>1 DEF AddsUp
<1>7. PICK g : AddsUp(g, new) /\ g[Calls] = f[Calls] - weight[c] + new[c]
  <2> HIDE DEF weight, new
  <2> QED  BY <1>1, <1>2, <1>3, <1>4, ChangeOfWeight
<1>8. weight[c] \in Nat /\ new[c] \in Nat
  BY <1>2, <1>3
<1>9. reported' + g[Calls] <= InUnits(given)'
  <2>1. reported \in Nat /\ reported' \in Nat
    BY DEF ProvidersInv, ProvidersTypes
  <2> HIDE DEF weight, new
  <2> QED  BY <1>1, <1>5, <1>6, <1>7, <1>8, <2>1
<1> QED  BY <1>7, <1>9 DEF RefundsInv, AddsUp

-----------------------------------------------------------------------------
(* The start and the steps *)

LEMMA ProvidersInitially ==
  ASSUME ProvidersInit  PROVE  ProvidersInv
<1>1. provider \in Names \cup {None}
  BY DEF ProvidersInit, GetProvider, Registered
<1>2. NoCall \in CallRecords /\ NoCall.pc = "idle" /\ NoCall.op = None
  BY DEF NoCall, CallRecords, None
<1>3. ProvidersTypes
  BY <1>1, <1>2 DEF ProvidersInit, ProvidersTypes, NoToken
<1>4. ClockInv
  BY <1>2, ClockAssumption DEF ProvidersInit, ClockInv, OnItsWay, NoToken
<1>5. MoneyInv
  BY <1>3, Measures, WordsHold DEF ProvidersInit, MoneyInv, Charged, Over
<1>6. CallsInv
  BY <1>2 DEF ProvidersInit, CallsInv, OnItsWay, None
<1>7. RefundsInv
  <2> DEFINE zero == [S \in SUBSET Calls |-> 0]
  <2>1. AddsUp(zero, [c \in Calls |-> Untold(c)])
    BY <1>2 DEF AddsUp, Untold, ProvidersInit
  <2>2. reported + zero[Calls] <= InUnits(given)
    BY <1>3, Measures DEF ProvidersInit
  <2> QED  BY <2>1, <2>2 DEF RefundsInv
<1> QED  BY <1>3, <1>4, <1>5, <1>6, <1>7 DEF ProvidersInv

\* What the steps keep that leave the payment alone.
LEMMA MoneyKept ==
  ASSUME MoneyInv, UNCHANGED <<provider, currency, money, told>>
  PROVE  MoneyInv'
BY DEF MoneyInv, money, Charged, Whole, Cents, ToMeasure, ToSmallestUnit, Scale

LEMMA UnitsKept ==
  ASSUME ProvidersTypes, MoneyInv, UNCHANGED <<provider, currency, given>>
  PROVE  InUnits(given) \in Nat /\ InUnits(given)' = InUnits(given)
BY Measures DEF MoneyInv, InUnits

\* request of any operation.
LEMMA RequestStep ==
  ASSUME ProvidersInv, NEW c \in Calls, NEW op \in {"create", "confirm", "cancel", "refund"},
         NEW amount \in 0..Units, Request(c, op, amount),
         op = "create" => /\ native = None /\ amount = Units
                          /\ \A d \in Calls : call[d].op # "create"
  PROVE  ProvidersInv'
<1> USE DEF ProvidersInv
<1> DEFINE next == [NoCall EXCEPT
       !.op = op, !.amount = amount, !.at = now, !.token = token.issued,
       !.pc = FirstRequest(op, amount)]
<1>1. /\ provider # None /\ call[c].pc = "idle" /\ call' = [call EXCEPT ![c] = next]
      /\ UNCHANGED <<provider, currency, native, charge, given, open, now, token, told, reported>>
  BY DEF Request, money, history
<1>2. /\ amount \in Nat /\ now \in Nat /\ token.issued \in Nat /\ token.expiresAt \in Nat
      /\ {MaxDelay, Lifetime, Margin} \subseteq Nat
  BY UnitsAssumption, ClockAssumption DEF ProvidersTypes
<1>3. /\ next \in CallRecords
      /\ next.op = op /\ next.amount = amount /\ next.at = now /\ next.token = token.issued
      /\ next.pc \in {"authenticating", "retrieving", "sent"}
      /\ next.pc = "sent" /\ provider = "PAYPAL" => HasValidToken
      /\ next.pc = "retrieving" => provider # "PAYPAL"
  <2>1. /\ FirstRequest(op, amount) \in {"authenticating", "retrieving", "sent"}
        /\ FirstRequest(op, amount) = "sent" /\ provider = "PAYPAL" => HasValidToken
        /\ FirstRequest(op, amount) = "retrieving" => provider # "PAYPAL"
    BY DEF FirstRequest
  <2> QED  BY <1>2, <2>1 DEF NoCall, CallRecords, None
<1> HIDE DEF next
<1>4. /\ call \in [Calls -> CallRecords]
      /\ \A d \in Calls : call'[d] = IF d = c THEN next ELSE call[d]
  BY <1>1 DEF ProvidersTypes
<1>5. ProvidersTypes'
  BY <1>1, <1>3 DEF ProvidersTypes
<1>6. ClockInv'
  <2>1. next.pc = "sent" /\ provider = "PAYPAL" => now + MaxDelay < token.issued + Lifetime
    BY <1>2, <1>3, ClockAssumption DEF HasValidToken, ClockInv
  <2> QED  BY <1>1, <1>2, <1>3, <1>4, <2>1 DEF ClockInv, OnItsWay
<1>7. CallsInv'
  BY <1>1, <1>3, <1>4 DEF CallsInv, OnItsWay, Whole, Cents
<1>8. Untold(c)' = 0 /\ Untold(c) = 0
  BY <1>1, <1>3, <1>4 DEF Untold
<1>9. RefundsInv'
  <2>1. reported \in Nat
    BY DEF ProvidersTypes
  <2> QED  BY <1>1, <1>4, <1>5, <1>7, <1>8, <2>1, OneCall, UnitsKept
<1> QED  BY <1>1, <1>5, <1>6, <1>7, <1>9, MoneyKept DEF money

\* The steps of a token, and a call that throws.
LEMMA TokenStep ==
  ASSUME ProvidersInv, NEW c \in Calls,
         Authenticate(c) \/ KeepToken(c) \/ RetrieveIntent(c) \/ Throw(c)
  PROVE  ProvidersInv'
<1> USE DEF ProvidersInv
<1>1. /\ call[c].pc # "idle" /\ call[c] \in CallRecords
      /\ UNCHANGED <<provider, currency, native, charge, given, open, now, told, reported>>
      /\ now \in Nat /\ {MaxDelay, Lifetime, Margin} \subseteq Nat
  BY ClockAssumption
  DEF Authenticate, KeepToken, RetrieveIntent, Throw, OnItsWay, money, history, ProvidersTypes
<1>2. PICK next \in CallRecords :
        /\ call' = [call EXCEPT ![c] = next]
        /\ next.pc \in {"idle", "issued", "sent"}
        /\ \/ next.pc = "idle" /\ next.op = None
           \/ /\ next.op = call[c].op /\ next.amount = call[c].amount
              /\ next.pc # "idle" /\ call[c].pc # "answered"
              /\ \/ next.at = now
                 \/ next.at = call[c].at /\ call[c].pc = "retrieving" /\ next.pc = "sent"
        /\ next.pc = "issued" => next.token = now
        /\ next.pc = "sent" =>
             \/ call[c].pc = "issued" /\ next.token = call[c].token /\ next.at = now
             \/ call[c].pc = "retrieving"
  <2>1. CASE Authenticate(c)
    <3> DEFINE next == [call[c] EXCEPT !.pc = "issued", !.token = now, !.at = now]
    <3>1. call' = [call EXCEPT ![c] = next]
      BY <2>1 DEF Authenticate
    <3>2. /\ next \in CallRecords /\ next.pc = "issued" /\ next.at = now /\ next.token = now
          /\ next.op = call[c].op /\ next.amount = call[c].amount
      BY <1>1 DEF CallRecords
    <3> QED  BY <2>1, <3>1, <3>2 DEF Authenticate
  <2>2. CASE KeepToken(c)
    <3> DEFINE next == [call[c] EXCEPT !.pc = "sent", !.at = now]
    <3>1. call' = [call EXCEPT ![c] = next]
      BY <2>2 DEF KeepToken
    <3>2. /\ next \in CallRecords /\ next.pc = "sent" /\ next.at = now
          /\ next.op = call[c].op /\ next.amount = call[c].amount
          /\ next.token = call[c].token
      BY <1>1 DEF CallRecords
    <3> QED  BY <2>2, <3>1, <3>2 DEF KeepToken
  <2>3. CASE Throw(c)
    <3>1. NoCall \in CallRecords /\ NoCall.pc = "idle" /\ NoCall.op = None
      BY DEF NoCall, CallRecords, None
    <3> QED  BY <2>3, <3>1 DEF Throw
  <2>4. CASE RetrieveIntent(c)
    <3> DEFINE next == [call[c] EXCEPT !.pc = "sent"]
    <3>1. call' = [call EXCEPT ![c] = next]
      BY <2>4 DEF RetrieveIntent
    <3>2. /\ next \in CallRecords /\ next.pc = "sent" /\ next.at = call[c].at
          /\ next.op = call[c].op /\ next.amount = call[c].amount
      BY <1>1 DEF CallRecords
    <3> QED  BY <2>4, <3>1, <3>2 DEF RetrieveIntent
  <2> QED  BY <2>1, <2>2, <2>3, <2>4
<1>3. /\ call \in [Calls -> CallRecords]
      /\ \A d \in Calls : call'[d] = IF d = c THEN next ELSE call[d]
  BY <1>2 DEF ProvidersTypes
<1>4. \/ token' = token
      \/ /\ call[c].pc = "issued"
         /\ token' = [issued |-> call[c].token, expiresAt |-> now + Lifetime - Margin]
  BY DEF Authenticate, KeepToken, RetrieveIntent, Throw, ExpiresAt
<1>5. ProvidersTypes'
  <2>1. token' \in [issued : Nat, expiresAt : Nat]
    <3>1. call[c].token \in Nat /\ now + Lifetime - Margin \in Nat
      BY <1>1, ClockAssumption DEF CallRecords
    <3> QED  BY <1>4, <3>1 DEF ProvidersTypes
  <2> QED  BY <1>1, <1>2, <2>1 DEF ProvidersTypes
<1>6. ClockInv'
  <2>1. call[c].pc = "issued" => /\ call[c].token <= now /\ now <= call[c].token + MaxDelay
                                /\ call[c].token \in Nat
    BY <1>1 DEF ClockInv, OnItsWay, CallRecords
  <2>2. token'.expiresAt <= token'.issued + MaxDelay + Lifetime - Margin
    BY <1>1, <1>4, <2>1 DEF ClockInv
  <2>3. next.pc = "sent" /\ provider = "PAYPAL" => next.at + MaxDelay < next.token + Lifetime
    BY <1>1, <1>2, <2>1, ClockAssumption DEF ClockInv
  <2>4. next.pc # "idle" => next.at <= now /\ now <= next.at + MaxDelay
    BY <1>1, <1>2 DEF ClockInv, OnItsWay
  <2>5. next.pc = "issued" => next.token = next.at
    BY <1>2
  <2> QED  BY <1>1, <1>2, <1>3, <2>2, <2>3, <2>4, <2>5 DEF ClockInv, OnItsWay
<1>7. CallsInv'
  <2>1. /\ OnItsWay(c) /\ next.pc # "answered" /\ provider # None
        /\ next.op = "create" => /\ next.op = call[c].op /\ call[c].pc # "answered"
                                /\ native = None /\ next.amount = Units
    BY <1>1, <1>2 DEF CallsInv, OnItsWay, None
  <2>2. ASSUME NEW d \in Calls
        PROVE  /\ OnItsWay(d)' => provider' # None
               /\ call'[d].op = "create" /\ call'[d].pc # "answered" =>
                    native' = None /\ call'[d].amount = Units
               /\ call'[d].pc = "answered" /\ call'[d].op # "refund" =>
                    /\ call'[d].status \in Words[provider']
                    /\ call'[d].status \in Over => native' = call'[d].status
               /\ call'[d].pc = "answered" /\ call'[d].op = "refund" => Whole(call[d].amount)'
    <3>1. CASE d = c
      BY <1>1, <1>2, <1>3, <2>1, <3>1
    <3>2. CASE d # c
      <4>1. call'[d] = call[d] /\ (Whole(call[d].amount)' <=> Whole(call[d].amount))
        BY <1>1, <1>3, <3>2 DEF Whole, Cents
      <4> QED  BY <1>1, <4>1 DEF CallsInv, OnItsWay
    <3> QED  BY <3>1, <3>2
  <2>3. \A d, e \in Calls : call'[d].op = "create" /\ call'[e].op = "create" => d = e
    BY <1>3, <2>1 DEF CallsInv
  <2> QED  BY <2>2, <2>3 DEF CallsInv
<1>8. Untold(c)' = 0 /\ Untold(c) \in Nat
  BY <1>2, <1>3, UntoldNat DEF Untold
<1>9. RefundsInv'
  <2>1. reported \in Nat
    BY DEF ProvidersTypes
  <2> QED  BY <1>1, <1>3, <1>5, <1>7, <1>8, <2>1, OneCall, UnitsKept
<1> QED  BY <1>1, <1>5, <1>6, <1>7, <1>9, MoneyKept DEF money

\* An answer arrives, or the call resolves, and the payment is where it was or
\* somewhere that it may come to.
LEMMA OthersHold ==
  ASSUME ProvidersInv, NEW c \in Calls, NEW next \in CallRecords,
         call' = [call EXCEPT ![c] = next],
         UNCHANGED <<provider, currency, now, token>>, provider # None,
         native \in Over => native' = native,
         \A d \in Calls \ {c} :
           call[d].op = "create" /\ call[d].pc # "answered" => native' = None,
         next.op = "create" => next.pc = "answered" /\ call[c].op = "create",
         \/ next.pc = "idle"
         \/ /\ next.pc = "answered" /\ next.at = now
            /\ next.op # "refund" =>
                 /\ next.status \in Words[provider]
                 /\ next.status \in Over => native' = next.status
            /\ next.op = "refund" => Whole(next.amount)
  PROVE  /\ call' \in [Calls -> CallRecords] /\ ClockInv' /\ CallsInv'
         /\ \A d \in Calls : call'[d] = IF d = c THEN next ELSE call[d]
<1> USE DEF ProvidersInv
<1>1. /\ call \in [Calls -> CallRecords] /\ call' \in [Calls -> CallRecords]
      /\ \A d \in Calls : call'[d] = IF d = c THEN next ELSE call[d]
      /\ now \in Nat /\ MaxDelay \in Nat
  BY ClockAssumption DEF ProvidersTypes
<1>2. ClockInv'
  BY <1>1 DEF ClockInv, OnItsWay
<1>3. ASSUME NEW d \in Calls
      PROVE  /\ OnItsWay(d)' => provider' # None
             /\ call'[d].op = "create" /\ call'[d].pc # "answered" =>
                  native' = None /\ call'[d].amount = Units
             /\ call'[d].pc = "answered" /\ call'[d].op # "refund" =>
                  /\ call'[d].status \in Words[provider']
                  /\ call'[d].status \in Over => native' = call'[d].status
             /\ call'[d].pc = "answered" /\ call'[d].op = "refund" => Whole(call[d].amount)'
  <2>1. CASE d = c
    <3>1. call'[d] = next /\ (Whole(next.amount) => Whole(call[d].amount)')
      BY <1>1, <2>1 DEF Whole, Cents
    <3> QED  BY <3>1
  <2>2. CASE d # c
    <3>1. call'[d] = call[d] /\ (Whole(call[d].amount)' <=> Whole(call[d].amount))
      BY <1>1, <2>2 DEF Whole, Cents
    <3> QED  BY <2>2, <3>1 DEF CallsInv, OnItsWay
  <2> QED  BY <2>1, <2>2
<1>4. \A d, e \in Calls : call'[d].op = "create" /\ call'[e].op = "create" => d = e
  BY <1>1 DEF CallsInv
<1>5. CallsInv'
  BY <1>3, <1>4 DEF CallsInv
<1> QED  BY <1>1, <1>2, <1>5

\* What an answer leaves of the call.
LEMMA AnswerHolds ==
  ASSUME ProvidersTypes, NEW c \in Calls, NEW amount \in Nat,
         NEW status \in AllWords \cup {"open"}, Answer(c, status, amount)
  PROVE  \E next \in CallRecords :
           /\ call' = [call EXCEPT ![c] = next]
           /\ next.pc = "answered" /\ next.at = now /\ next.op = call[c].op
           /\ next.status = status /\ next.amount = amount
<1> DEFINE next == [call[c] EXCEPT !.pc = "answered", !.at = now, !.status = status,
                                   !.amount = amount]
<1>1. call' = [call EXCEPT ![c] = next]
  BY DEF Answer
<1>2. call[c] \in CallRecords /\ now \in Nat
  BY DEF ProvidersTypes
<1>3. /\ next \in CallRecords
      /\ next.pc = "answered" /\ next.at = now /\ next.op = call[c].op
      /\ next.status = status /\ next.amount = amount
  BY <1>2 DEF CallRecords
<1> QED  BY <1>1, <1>3

LEMMA CallsAlone ==
  ASSUME RefundsInv, UNCHANGED <<provider, currency, given, call, reported>>
  PROVE  RefundsInv'
<1>1. PICK f : /\ AddsUp(f, [c \in Calls |-> Untold(c)])
               /\ reported + f[Calls] <= InUnits(given)
  BY DEF RefundsInv
<1>2. [c \in Calls |-> Untold(c)]' = [c \in Calls |-> Untold(c)] /\ InUnits(given)' = InUnits(given)
  BY DEF Untold, FromMeasure, FromSmallestUnit, Scale, InUnits
<1>3. AddsUp(f, [c \in Calls |-> Untold(c)])' /\ reported' + f[Calls] <= InUnits(given)'
  BY <1>1, <1>2 DEF AddsUp
<1> QED  BY <1>3 DEF RefundsInv

LEMMA TickStep ==
  ASSUME ProvidersInv, Tick  PROVE  ProvidersInv'
<1> USE DEF ProvidersInv
<1>1. /\ UNCHANGED <<provider, currency, native, charge, given, open, token, call, told,
                      reported>>
      /\ now' = now + 1 /\ now \in Nat /\ MaxDelay \in Nat
      /\ \A c \in Calls : OnItsWay(c) => now < call[c].at + MaxDelay
  BY ClockAssumption DEF Tick, money, history, ProvidersTypes
<1>2. ProvidersTypes'
  BY <1>1 DEF ProvidersTypes
<1>3. ClockInv'
  <2>1. \A c \in Calls : call[c].at \in Nat
    BY DEF ProvidersTypes, CallRecords
  <2> QED  BY <1>1, <2>1 DEF ClockInv, OnItsWay
<1>4. CallsInv'
  BY <1>1 DEF CallsInv, OnItsWay, Whole, Cents
<1> QED  BY <1>1, <1>2, <1>3, <1>4, MoneyKept, CallsAlone DEF money

\* A payment that moves on keeps what it has come to, once it is over.
LEMMA MovesKeep ==
  ASSUME ProvidersTypes, MoneyInv, provider # None,
         NEW move \in PayerMoves[provider] \cup ConfirmMoves[provider] \cup CancelMoves[provider],
         native = move[1], native' = move[2],
         UNCHANGED <<provider, currency, charge, given, open, told>>
  PROVE  /\ native # None /\ native \in Words[provider]
         /\ native' # None /\ native' \in Words[provider] /\ native' \in AllWords
         /\ native \in Over => native' = native
         /\ MoneyInv'
<1>1. provider \in Names
  BY DEF ProvidersTypes
<1>2. /\ native # None /\ native \in Words[provider]
      /\ native' # None /\ native' \in Words[provider] /\ native' \in AllWords
      /\ native \in Over => native' = native
  BY <1>1, MovesHold, WordsHold
<1>3. given + open <= Charged' /\ given \in Nat
  <2>1. CASE native \in Paid
    BY <1>2, <2>1 DEF Over, Charged, MoneyInv, ProvidersTypes
  <2>2. CASE native \notin Paid
    BY <2>2, ChargedHolds DEF Charged, ProvidersTypes
  <2> QED  BY <2>1, <2>2
<1>4. /\ ToMeasure(Units)' = ToMeasure(Units)
      /\ (Whole(given)' <=> Whole(given)) /\ (Whole(open)' <=> Whole(open))
  BY DEF ToMeasure, ToSmallestUnit, Scale, Whole, Cents
<1>5. MoneyInv'
  BY <1>2, <1>3, <1>4 DEF MoneyInv, Over
<1> QED  BY <1>2, <1>5

LEMMA PayerStep ==
  ASSUME ProvidersInv, PayerActs  PROVE  ProvidersInv'
<1> USE DEF ProvidersInv
<1>1. PICK move \in PayerMoves[provider] : native = move[1] /\ native' = move[2]
  BY DEF PayerActs
<1>2. /\ UNCHANGED <<provider, currency, charge, given, open, now, token, call, told, reported>>
      /\ provider # None
  BY DEF PayerActs, history
<1>3. /\ native # None /\ native' \in AllWords /\ MoneyInv'
      /\ native \in Over => native' = native
  BY <1>1, <1>2, MovesKeep
<1>4. ProvidersTypes' /\ ClockInv'
  BY <1>2, <1>3 DEF ProvidersTypes, ClockInv, OnItsWay
<1>5. CallsInv'
  BY <1>2, <1>3 DEF CallsInv, OnItsWay, Whole, Cents
<1> QED  BY <1>2, <1>3, <1>4, <1>5, CallsAlone

\* confirmPayment and cancelPayment.
LEMMA MoveStep ==
  ASSUME ProvidersInv, NEW c \in Calls,
         \/ Move(c, "confirm", ConfirmMoves)
         \/ Move(c, "cancel", CancelMoves)
  PROVE  ProvidersInv'
<1> USE DEF ProvidersInv
<1>1. /\ UNCHANGED <<provider, currency, charge, given, open, now, token, told, reported>>
      /\ call[c].pc = "sent" /\ call[c].op \in {"confirm", "cancel"}
      /\ provider # None
  BY DEF Move, Arrived, history, CallsInv, OnItsWay
<1>2. PICK move \in ConfirmMoves[provider] \cup CancelMoves[provider] :
        native = move[1] /\ native' = move[2] /\ Answer(c, native', 0)
  BY DEF Move
<1>3. /\ native # None /\ native' \in AllWords /\ native' \in Words[provider] /\ MoneyInv'
      /\ native \in Over => native' = native
  BY <1>1, <1>2, MovesKeep
<1>4. PICK next \in CallRecords :
        /\ call' = [call EXCEPT ![c] = next]
        /\ next.pc = "answered" /\ next.at = now /\ next.op = call[c].op
        /\ next.status = native' /\ next.amount = 0
  BY <1>2, <1>3, AnswerHolds
<1>5. \A d \in Calls : ~(call[d].op = "create" /\ call[d].pc # "answered")
  BY <1>3 DEF CallsInv
<1>6. /\ call' \in [Calls -> CallRecords] /\ ClockInv' /\ CallsInv'
      /\ \A d \in Calls : call'[d] = IF d = c THEN next ELSE call[d]
  BY <1>1, <1>3, <1>4, <1>5, OthersHold
<1>7. ProvidersTypes'
  BY <1>1, <1>3, <1>6 DEF ProvidersTypes
<1>8. Untold(c)' = 0 /\ Untold(c) = 0
  BY <1>1, <1>4, <1>6 DEF Untold
<1>9. RefundsInv'
  <2>1. reported \in Nat
    BY DEF ProvidersTypes
  <2> QED  BY <1>1, <1>6, <1>7, <1>8, <2>1, OneCall, UnitsKept
<1> QED  BY <1>3, <1>6, <1>7, <1>9

\* createPaymentIntent.
LEMMA IntentStep ==
  ASSUME ProvidersInv, NEW c \in Calls, MakeIntent(c)
  PROVE  /\ ProvidersInv' /\ native = None /\ native' \notin Over
<1> USE DEF ProvidersInv
<1>1. /\ UNCHANGED <<provider, currency, given, open, now, token, told, reported>>
      /\ call[c].pc = "sent" /\ call[c].op = "create" /\ call[c].amount = Units
      /\ native = None /\ provider \in Names
      /\ native' \in Created[provider] /\ charge' = ToMeasure(Units)
      /\ Answer(c, native', 0)
  BY DEF MakeIntent, Arrived, history, CallsInv, OnItsWay, ProvidersTypes
<1>2. /\ native' \in Words[provider] /\ native' \in AllWords /\ native' \notin Over
      /\ native \notin Over /\ native' # None /\ provider # None
  BY <1>1, WordsHold DEF Names, None
<1>3. PICK next \in CallRecords :
        /\ call' = [call EXCEPT ![c] = next]
        /\ next.pc = "answered" /\ next.at = now /\ next.op = call[c].op
        /\ next.status = native' /\ next.amount = 0
  BY <1>1, <1>2, AnswerHolds
<1>4. \A d \in Calls \ {c} : call[d].op # "create"
  BY <1>1 DEF CallsInv
<1>5. /\ call' \in [Calls -> CallRecords] /\ ClockInv' /\ CallsInv'
      /\ \A d \in Calls : call'[d] = IF d = c THEN next ELSE call[d]
  BY <1>1, <1>2, <1>3, <1>4, OthersHold
<1>6. /\ ToMeasure(Units) \in Nat /\ ToMeasure(Units)' = ToMeasure(Units)
      /\ (Whole(given)' <=> Whole(given)) /\ (Whole(open)' <=> Whole(open))
  BY <1>1, Measures, UnitsAssumption DEF ToMeasure, ToSmallestUnit, Scale, Whole, Cents
<1>7. ProvidersTypes'
  BY <1>1, <1>2, <1>5, <1>6 DEF ProvidersTypes
<1>8. MoneyInv'
  <2>1. given = 0 /\ open = 0 /\ Charged' = 0
    BY <1>2, ChargedHolds DEF Charged, Over
  <2> QED  BY <1>1, <1>2, <1>6, <2>1 DEF MoneyInv, Over
<1>9. Untold(c)' = 0 /\ Untold(c) = 0
  BY <1>1, <1>3, <1>5 DEF Untold
<1>10. RefundsInv'
  <2>1. reported \in Nat
    BY DEF ProvidersTypes
  <2> QED  BY <1>1, <1>5, <1>7, <1>9, <2>1, OneCall, UnitsKept
<1> QED  BY <1>1, <1>2, <1>5, <1>7, <1>8, <1>10

\* refundPayment.
LEMMA RefundStep ==
  ASSUME ProvidersInv, NEW c \in Calls, GiveRefund(c)
  PROVE  /\ ProvidersInv'
         /\ \/ InUnits(given)' \in (InUnits(given) + 1)..InUnits(Charged)
            \/ InUnits(given)' = InUnits(given)
         /\ InUnits(Charged)' = InUnits(Charged)
<1> USE DEF ProvidersInv
<1>1. PICK status \in {RefundDone[provider], "open"} :
        /\ UNCHANGED <<provider, currency, native, charge, now, token, told, reported>>
        /\ call[c].pc = "sent" /\ call[c].op = "refund" /\ provider # None
        /\ Asked(c) > 0 /\ given + open + Asked(c) <= Charged
        /\ given' = IF status = RefundDone[provider] THEN given + Asked(c) ELSE given
        /\ open' = IF status = "open" THEN open + Asked(c) ELSE open
        /\ Answer(c, status, Asked(c)) \/ Answer(c, status, 0)
  BY DEF GiveRefund, Arrived, history, CallsInv, OnItsWay
<1>2. /\ Whole(Charged) /\ Whole(given) /\ Whole(open) /\ given + open <= Charged
      /\ Whole(given + open) /\ Whole(Charged - (given + open))
      /\ Charged \in Nat /\ given \in Nat /\ open \in Nat
  BY ChargedHolds, Measures DEF MoneyInv
<1>3. Whole(Asked(c)) /\ Asked(c) \in Nat
  <2>1. call[c].amount \in Nat
    BY DEF ProvidersTypes, CallRecords
  <2>2. Charged - given - open = Charged - (given + open)
    BY <1>2
  <2>3. Whole(Charged - given - open)
    BY <1>2, <2>2
  <2> QED  BY <2>1, <2>3, Measures DEF Asked
<1>4. RefundDone[provider] \in AllWords /\ RefundDone[provider] # "open"
  BY <1>1 DEF RefundDone, AllWords, Words, Names, ProvidersTypes
<1>5. /\ Whole(given') /\ given' \in Nat /\ Whole(open') /\ open' \in Nat
      /\ given' + open' <= Charged /\ given' <= Charged
      /\ \/ status = "open" /\ given' = given
         \/ status = RefundDone[provider] /\ given' = given + Asked(c) /\ given < given'
  BY <1>1, <1>2, <1>3, <1>4, Measures
<1>6. /\ InUnits(given') = InUnits(given) +
           (IF status = RefundDone[provider] THEN InUnits(Asked(c)) ELSE 0)
      /\ InUnits(given') <= InUnits(Charged)
      /\ {InUnits(given), InUnits(given'), InUnits(Charged), InUnits(Asked(c))} \subseteq Nat
      /\ given' # given => InUnits(given) < InUnits(given')
  <2>1. InUnits(given') <= InUnits(Charged)
    BY <1>2, <1>5, Measures
  <2>2. {InUnits(given), InUnits(given'), InUnits(Charged), InUnits(Asked(c))} \subseteq Nat
    BY <1>2, <1>3, <1>5, Measures
  <2>3. CASE status = "open" /\ given' = given
    BY <1>4, <2>1, <2>2, <2>3
  <2>4. CASE status = RefundDone[provider] /\ given' = given + Asked(c) /\ given < given'
    <3>1. InUnits(given') = InUnits(given) + InUnits(Asked(c))
      BY <1>2, <1>3, <2>4, Measures
    <3>2. InUnits(given) < InUnits(given')
      BY <1>2, <1>5, <2>4, Measures
    <3> QED  BY <2>1, <2>2, <2>4, <3>1, <3>2
  <2> QED  BY <1>5, <2>3, <2>4
<1>12. /\ Charged' = Charged /\ InUnits(Charged)' = InUnits(Charged)
       /\ InUnits(given)' = InUnits(given')
       /\ Whole(given)' /\ Whole(open)' /\ ToMeasure(Units)' = ToMeasure(Units)
  BY <1>1, <1>5 DEF Charged, InUnits, Whole, Cents, ToMeasure, ToSmallestUnit, Scale
<1>13. PICK amount \in {0, Asked(c)} : Answer(c, status, amount)
  BY <1>1
<1>7. amount \in Nat /\ Whole(amount) /\ FromMeasure(amount) <= InUnits(Asked(c))
      /\ FromMeasure(amount) \in Nat
  BY <1>3, <1>6, <1>13, Measures
<1>8. PICK next \in CallRecords :
        /\ call' = [call EXCEPT ![c] = next]
        /\ next.pc = "answered" /\ next.at = now /\ next.op = call[c].op
        /\ next.status = status /\ next.amount = amount
  BY <1>1, <1>4, <1>7, <1>13, AnswerHolds
<1>9. /\ native \in Over => native' = native
      /\ \A d \in Calls \ {c} :
           call[d].op = "create" /\ call[d].pc # "answered" => native' = None
  BY <1>1 DEF CallsInv
<1>10. next.op = "refund"
  BY <1>1, <1>8
<1>11. /\ call' \in [Calls -> CallRecords] /\ ClockInv' /\ CallsInv'
       /\ \A d \in Calls : call'[d] = IF d = c THEN next ELSE call[d]
  BY <1>1, <1>7, <1>8, <1>9, <1>10, OthersHold
<1>14. ProvidersTypes'
  BY <1>1, <1>5, <1>11 DEF ProvidersTypes
<1>15. MoneyInv'
  BY <1>1, <1>5, <1>12 DEF MoneyInv
<1>16. /\ Untold(c)' = IF status = RefundDone[provider] THEN FromMeasure(amount) ELSE 0
       /\ Untold(c) = 0
  BY <1>1, <1>8, <1>10, <1>11 DEF Untold, FromMeasure, FromSmallestUnit, Scale
<1>17. RefundsInv'
  <2>1. reported \in Nat
    BY DEF ProvidersTypes
  <2>2. reported' + Untold(c)' - InUnits(given)' <= reported + Untold(c) - InUnits(given)
    BY <1>1, <1>6, <1>7, <1>12, <1>16, <2>1
  <2> QED  BY <1>1, <1>6, <1>11, <1>12, <1>14, <2>2, OneCall
<1> QED  BY <1>6, <1>11, <1>12, <1>14, <1>15, <1>17

\* A refund that went through is the only answer that is told as "succeeded".
LEMMA ReportsHold ==
  ASSUME provider \in Names, NEW c \in Calls
  PROVE  Tells(c) = "succeeded" <=>
           call[c].op = "refund" /\ call[c].status = RefundDone[provider]
<1>1. MapStatus(call[c].status) # "succeeded"
  BY DEF MapStatus, MapStripeStatus, MapPayPalStatus, MapSepayStatus, Names
<1> QED  BY <1>1 DEF Tells, MapRefundStatus

\* A caller is told the truth.
LEMMA ResolveStep ==
  ASSUME ProvidersInv, NEW c \in Calls, Resolve(c)
  PROVE  /\ ProvidersInv'
         /\ Tells(c) = "SUCCEEDED" => native \in Paid
         /\ Tells(c) \in {"CANCELED", "FAILED"} => native \in Dead
         /\ reported' = reported + Untold(c)
         /\ reported' <= InUnits(given)
<1> USE DEF ProvidersInv
<1>1. /\ UNCHANGED <<provider, currency, native, charge, given, open, now, token>>
      /\ call[c].pc = "answered" /\ provider # None /\ provider \in Names
      /\ told' = (IF call[c].op = "refund" THEN told ELSE told \cup {Tells(c)})
      /\ call' = [call EXCEPT ![c] = NoCall]
      /\ reported' = reported + Untold(c)
      /\ reported \in Nat /\ Untold(c) \in Nat
  <2>1. call[c].pc = "answered" /\ provider # None /\ reported \in Nat /\ Untold(c) \in Nat
    BY UntoldNat DEF Resolve, CallsInv, OnItsWay, ProvidersTypes
  <2>2. provider \in Names
    BY <2>1 DEF ProvidersTypes
  <2>3. reported' = reported + Untold(c)
    BY <2>1, <2>2, ReportsHold DEF Resolve, Untold
  <2> QED  BY <2>1, <2>2, <2>3 DEF Resolve, money
<1>2. /\ Tells(c) = "SUCCEEDED" => native \in Paid
      /\ Tells(c) \in {"CANCELED", "FAILED"} => native \in Dead
  <2>1. CASE call[c].op = "refund" \/ (call[c].op = "create" /\ provider = "SEPAY")
    BY <2>1 DEF Tells, MapRefundStatus
  <2>2. CASE ~(call[c].op = "refund" \/ (call[c].op = "create" /\ provider = "SEPAY"))
    <3>1. Tells(c) = MapStatus(call[c].status)
      BY <2>2 DEF Tells
    <3>2. /\ call[c].status \in Words[provider]
          /\ call[c].status \in Over => native = call[c].status
      BY <1>1, <2>2 DEF CallsInv
    <3> QED  BY <1>1, <3>1, <3>2, TablesHold DEF Over
  <2> QED  BY <2>1, <2>2
<1>3. NoCall \in CallRecords /\ NoCall.pc = "idle" /\ NoCall.op = None
  BY DEF NoCall, CallRecords, None
<1>4. /\ native \in Over => native' = native
      /\ \A d \in Calls \ {c} :
           call[d].op = "create" /\ call[d].pc # "answered" => native' = None
  BY <1>1 DEF CallsInv
<1>5. /\ call' \in [Calls -> CallRecords] /\ ClockInv' /\ CallsInv'
      /\ \A d \in Calls : call'[d] = IF d = c THEN NoCall ELSE call[d]
  BY <1>1, <1>3, <1>4, OthersHold DEF None
<1>6. ProvidersTypes'
  BY <1>1, <1>5 DEF ProvidersTypes
<1>7. MoneyInv'
  <2>1. /\ ToMeasure(Units)' = ToMeasure(Units) /\ Charged' = Charged
        /\ (Whole(given)' <=> Whole(given)) /\ (Whole(open)' <=> Whole(open))
    BY <1>1 DEF ToMeasure, ToSmallestUnit, Scale, Whole, Cents, Charged
  <2> QED  BY <1>1, <1>2, <2>1 DEF MoneyInv
<1>8. Untold(c)' = 0
  BY <1>3, <1>5 DEF Untold
<1>9. RefundsInv'
  BY <1>1, <1>5, <1>6, <1>8, OneCall, UnitsKept
<1>10. reported' <= InUnits(given)
  <2>1. PICK f : AddsUp(f, [d \in Calls |-> Untold(d)]) /\ reported + f[Calls] <= InUnits(given)
    BY DEF RefundsInv
  <2>2. Untold(c) <= f[Calls] /\ f[Calls] \in Nat
    <3> DEFINE weight == [d \in Calls |-> Untold(d)]
    <3>1. AddsUp(f, weight) /\ weight[c] = Untold(c)
      BY <2>1
    <3> HIDE DEF weight
    <3>2. weight[c] <= f[Calls]
      BY <1>1, <3>1, PartOfWhole
    <3> QED  BY <3>1, <3>2 DEF AddsUp
  <2>3. InUnits(given) \in Nat
    BY <1>1, UnitsKept
  <2> QED  BY <1>1, <2>1, <2>2, <2>3
<1> QED  BY <1>1, <1>2, <1>5, <1>6, <1>7, <1>9, <1>10

LEMMA Unchanged ==
  ASSUME ProvidersInv, UNCHANGED providerVars
  PROVE  ProvidersInv'
<1> USE DEF ProvidersInv
<1>1. UNCHANGED <<provider, currency, native, charge, given, open, now, token, call, told,
                  reported>>
  BY DEF providerVars, money, history
<1>2. ProvidersTypes' /\ ClockInv'
  BY <1>1 DEF ProvidersTypes, ClockInv, OnItsWay
<1>3. CallsInv'
  BY <1>1 DEF CallsInv, OnItsWay, Whole, Cents
<1> QED  BY <1>1, <1>2, <1>3, MoneyKept, CallsAlone DEF money

\* An open refund goes through or fails: what is given back only grows.
LEMMA RefundSettles ==
  ASSUME ProvidersInv, SettleRefund
  PROVE  /\ ProvidersInv'
         /\ \/ InUnits(given)' \in (InUnits(given) + 1)..InUnits(Charged)
            \/ InUnits(given)' = InUnits(given)
         /\ InUnits(Charged)' = InUnits(Charged)
<1> USE DEF ProvidersInv
<1>1. PICK units \in 1..Units :
        /\ ToMeasure(units) <= open /\ open' = open - ToMeasure(units)
        /\ given' \in {given, given + ToMeasure(units)}
        /\ UNCHANGED <<provider, currency, native, charge, now, token, call, told, reported>>
  BY DEF SettleRefund, history
<1>2. /\ units \in Nat /\ ToMeasure(units) \in Nat /\ Whole(ToMeasure(units))
      /\ InUnits(ToMeasure(units)) = units /\ units > 0
  BY UnitsAssumption, Measures
<1>3. /\ Whole(Charged) /\ Whole(given) /\ Whole(open) /\ given + open <= Charged
      /\ Charged \in Nat /\ given \in Nat /\ open \in Nat
  BY ChargedHolds, Measures DEF MoneyInv
<1>4. /\ Whole(given') /\ given' \in Nat /\ Whole(open') /\ open' \in Nat
      /\ given' + open' <= Charged /\ given' <= Charged
  BY <1>1, <1>2, <1>3, Measures
<1>5. /\ {InUnits(given), InUnits(given'), InUnits(Charged)} \subseteq Nat
      /\ InUnits(given') <= InUnits(Charged)
      /\ InUnits(given') \in {InUnits(given), InUnits(given) + units}
  BY <1>1, <1>2, <1>3, <1>4, Measures
<1>6. /\ Charged' = Charged /\ InUnits(Charged)' = InUnits(Charged)
      /\ InUnits(given)' = InUnits(given')
      /\ Whole(given)' /\ Whole(open)' /\ ToMeasure(Units)' = ToMeasure(Units)
  BY <1>1, <1>4 DEF Charged, InUnits, Whole, Cents, ToMeasure, ToSmallestUnit, Scale
<1>7. ProvidersTypes' /\ ClockInv'
  BY <1>1, <1>4 DEF ProvidersTypes, ClockInv, OnItsWay
<1>8. MoneyInv' /\ CallsInv'
  BY <1>1, <1>4, <1>6 DEF MoneyInv, CallsInv, OnItsWay, Whole, Cents
<1>9. RefundsInv'
  <2>1. PICK f : /\ AddsUp(f, [c \in Calls |-> Untold(c)])
                 /\ reported + f[Calls] <= InUnits(given)
    BY DEF RefundsInv
  <2>2. [c \in Calls |-> Untold(c)]' = [c \in Calls |-> Untold(c)]
    BY <1>1 DEF Untold, FromMeasure, FromSmallestUnit, Scale
  <2>3. f[Calls] \in Nat /\ reported \in Nat
    BY <2>1 DEF AddsUp, ProvidersTypes
  <2>4. AddsUp(f, [c \in Calls |-> Untold(c)])' /\ reported' + f[Calls] <= InUnits(given)'
    BY <1>1, <1>2, <1>5, <1>6, <2>1, <2>2, <2>3 DEF AddsUp
  <2> QED  BY <2>4 DEF RefundsInv
<1> QED  BY <1>2, <1>5, <1>6, <1>7, <1>8, <1>9

\* A cancellation that asks nobody.
LEMMA LeaveStep ==
  ASSUME ProvidersInv, LeaveToExpire
  PROVE  /\ ProvidersInv'
         /\ UNCHANGED <<provider, currency, native, charge, given, reported>>
         /\ UNCHANGED (told \cap {"SUCCEEDED", "CANCELED", "FAILED"})
<1> USE DEF ProvidersInv
<1>1. /\ UNCHANGED <<provider, currency, native, charge, given, open, now, token, call, reported>>
      /\ told' = told \cup {"LEFT_TO_EXPIRE"}
  BY DEF LeaveToExpire, money
<1>2. ProvidersTypes' /\ ClockInv'
  BY <1>1 DEF ProvidersTypes, ClockInv, OnItsWay
<1>3. MoneyInv' /\ CallsInv'
  BY <1>1 DEF MoneyInv, CallsInv, OnItsWay, Whole, Cents, Charged, ToMeasure, ToSmallestUnit,
              Scale
<1> QED  BY <1>1, <1>2, <1>3, CallsAlone

\* Any of the requests.
LEMMA TokenRequestsHold ==
  ASSUME ProvidersInv, NEW c \in Calls,
         \/ CreatePaymentIntent(c) \/ ConfirmPayment(c) \/ CancelPayment(c)
         \/ \E amount \in 0..Units : RefundPayment(c, amount)
  PROVE  ProvidersInv' /\ UNCHANGED <<provider, currency, money, history>>
<1>1. PICK op \in {"create", "confirm", "cancel", "refund"}, amount \in 0..Units :
        /\ Request(c, op, amount)
        /\ op = "create" => /\ native = None /\ amount = Units
                            /\ \A d \in Calls : call[d].op # "create"
  BY UnitsAssumption
  DEF CreatePaymentIntent, ConfirmPayment, CancelPayment, RefundPayment
<1> QED  BY <1>1, RequestStep DEF Request

LEMMA ProvidersNextInv ==
  ASSUME ProvidersInv, [ProvidersNext]_providerVars
  PROVE  ProvidersInv'
<1>1. CASE PayerActs \/ SettleRefund \/ LeaveToExpire \/ Tick \/ UNCHANGED providerVars
  BY <1>1, PayerStep, RefundSettles, LeaveStep, TickStep, Unchanged
<1>2. ASSUME NEW c \in Calls,
             \/ CreatePaymentIntent(c) \/ ConfirmPayment(c) \/ CancelPayment(c)
             \/ \E amount \in 0..Units : RefundPayment(c, amount)
      PROVE  ProvidersInv'
  BY <1>2, TokenRequestsHold
<1>3. ASSUME NEW c \in Calls,
             \/ Authenticate(c) \/ KeepToken(c) \/ RetrieveIntent(c) \/ Throw(c)
             \/ Move(c, "confirm", ConfirmMoves) \/ Move(c, "cancel", CancelMoves)
             \/ MakeIntent(c) \/ GiveRefund(c) \/ Resolve(c)
      PROVE  ProvidersInv'
  BY <1>3, TokenStep, MoveStep, IntentStep, RefundStep, ResolveStep
<1> QED  BY <1>1, <1>2, <1>3 DEF ProvidersNext

LEMMA ProvidersInvariance == ProvidersSpec => []ProvidersInv
<1>1. ProvidersInit => ProvidersInv
  BY ProvidersInitially
<1>2. ProvidersInv /\ [ProvidersNext]_providerVars => ProvidersInv'
  BY ProvidersNextInv
<1> QED  BY <1>1, <1>2, PTL DEF ProvidersSpec

-----------------------------------------------------------------------------
(* The theorems *)

\* PayPal's provider sends no request with a token whose life is over: the
\* margin makes up for both delays, whichever call fetched the token.
THEOREM TokensStayValid == ProvidersSpec => []TokensAreValid
<1>1. ProvidersInv => TokensAreValid
  <2> SUFFICES ASSUME ProvidersInv, NEW c \in Calls, provider = "PAYPAL", call[c].pc = "sent"
               PROVE  now < call[c].token + Lifetime
    BY DEF TokensAreValid
  <2>1. /\ now <= call[c].at + MaxDelay /\ call[c].at + MaxDelay < call[c].token + Lifetime
        /\ {now, call[c].at, call[c].token, MaxDelay, Lifetime} \subseteq Nat
    BY ClockAssumption DEF ProvidersInv, ClockInv, OnItsWay, ProvidersTypes, CallRecords
  <2> QED  BY <2>1
<1> QED  BY <1>1, ProvidersInvariance, PTL

LEMMA LifeInit ==
  ASSUME ProvidersInit  PROVE  Life!Init
<1>1. ProvidersInv /\ native = None /\ given = 0 /\ told = {} /\ reported = 0
  BY ProvidersInitially DEF ProvidersInit
<1>2. Charged = 0 /\ InUnits(0) = 0
  BY <1>1, Measures DEF ProvidersInv, Charged, Paid, None
<1> QED  BY <1>1, <1>2 DEF Life!Init

\* No step but the payment's own changes what the promise is about.
LEMMA LifeAlone ==
  ASSUME UNCHANGED <<provider, currency, native, charge, given, told, reported>>
  PROVE  UNCHANGED Life!vars
BY DEF Life!vars, InUnits, Charged

\* Where the payment moves, it is charged once, and before its end was told.
LEMMA LifeMoves ==
  ASSUME ProvidersInv, ProvidersInv', provider # None,
         UNCHANGED <<provider, currency, given, told, reported>>,
         native \in Over => native' = native,
         native # None => charge' = charge
  PROVE  Life!Charge \/ UNCHANGED Life!vars
<1>1. InUnits(given)' = InUnits(given) /\ UNCHANGED <<told, reported>>
  BY DEF InUnits
<1>2. CASE native \in Over
  <2>1. native' = native /\ charge' = charge
    BY <1>2, WordsHold DEF ProvidersInv, Over, Paid, Dead, None
  <2> QED  BY <2>1, LifeAlone
<1>3. CASE native \notin Over /\ native' \notin Paid
  <2>1. Charged = 0 /\ Charged' = 0
    BY <1>3 DEF Charged, Over
  <2>2. InUnits(Charged)' = InUnits(Charged)
    BY <2>1 DEF InUnits
  <2> QED  BY <1>1, <2>2 DEF Life!vars
<1>4. CASE native \notin Over /\ native' \in Paid
  <2>1. InUnits(Charged) = 0
    BY <1>4, ChargedHolds, Measures DEF ProvidersInv, Over
  <2>2. told \cap {"SUCCEEDED", "CANCELED", "FAILED"} = {}
    BY <1>4 DEF ProvidersInv, MoneyInv, Over
  <2>3. InUnits(Charged)' = Units
    <3>1. Charged' = charge' /\ charge' = ToMeasure(Units)' /\ Units \in Nat
      BY <1>4, UnitsAssumption DEF ProvidersInv, MoneyInv, Charged, Paid, None
    <3>2. InUnits(Charged)' = InUnits(ToMeasure(Units))
      BY <3>1 DEF InUnits, ToMeasure, ToSmallestUnit, Scale
    <3> QED  BY <3>1, <3>2, Measures DEF ProvidersInv
  <2> QED  BY <1>1, <2>1, <2>2, <2>3 DEF Life!Charge
<1> QED  BY <1>2, <1>3, <1>4

\* What a caller is told is so.
LEMMA LifeTells ==
  ASSUME ProvidersInv, NEW c \in Calls, Resolve(c)
  PROVE  [Life!Next]_(Life!vars)
<1> DEFINE final == told \cap {"SUCCEEDED", "CANCELED", "FAILED"}
<1>1. /\ UNCHANGED <<provider, currency, native, charge, given>>
      /\ told' = (IF call[c].op = "refund" THEN told ELSE told \cup {Tells(c)})
      /\ call[c].pc = "answered"
      /\ call[c].op # "refund" => Untold(c) = 0
  BY DEF Resolve, money, Untold
<1>2. UNCHANGED <<InUnits(Charged), InUnits(given)>>
  BY <1>1 DEF InUnits, Charged
<1>3. /\ Tells(c) = "SUCCEEDED" => native \in Paid
      /\ Tells(c) \in {"CANCELED", "FAILED"} => native \in Dead
      /\ reported' = reported + Untold(c) /\ reported' <= InUnits(given)
      /\ reported \in Nat /\ Untold(c) \in Nat /\ InUnits(given) \in Nat
  BY ResolveStep, UntoldNat, Measures DEF ProvidersInv, MoneyInv, ProvidersTypes
<1>4. CASE call[c].op = "refund"
  <2>2. final' = final
    BY <1>1, <1>4
  <2>3. CASE Untold(c) = 0
    BY <1>2, <1>3, <2>2, <2>3 DEF Life!vars
  <2>4. CASE Untold(c) # 0
    BY <1>2, <1>3, <2>2, <2>4 DEF Life!ReportRefund, Life!Next
  <2> QED  BY <2>3, <2>4
<1>5. CASE call[c].op # "refund"
  <2>1. reported' = reported
    BY <1>1, <1>3, <1>5
  <2>2. CASE Tells(c) \in Life!FinalStatus
    <3>1. native \in Paid <=> InUnits(Charged) = Units
      BY ChargedHolds, Measures, UnitsAssumption DEF ProvidersInv
    <3>2. Tells(c) = "SUCCEEDED" <=> InUnits(Charged) = Units
      BY <1>3, <2>2, <3>1 DEF Life!FinalStatus, Paid, Dead
    <3>3. final' = final \cup {Tells(c)}
      BY <1>1, <1>5, <2>2 DEF Life!FinalStatus
    <3>4. Life!Tell(Tells(c))
      BY <1>2, <2>1, <3>2, <3>3 DEF Life!Tell
    <3> QED  BY <2>2, <3>4 DEF Life!Next
  <2>3. CASE Tells(c) \notin Life!FinalStatus
    <3>1. final' = final
      BY <1>1, <2>3 DEF Life!FinalStatus
    <3> QED  BY <1>2, <2>1, <3>1 DEF Life!vars
  <2> QED  BY <2>2, <2>3
<1> QED  BY <1>4, <1>5

LEMMA LifeNext ==
  ASSUME ProvidersInv, ProvidersInv', [ProvidersNext]_providerVars
  PROVE  [Life!Next]_(Life!vars)
<1>1. CASE PayerActs
  <2>1. /\ UNCHANGED <<provider, currency, charge, given, told, reported>>
        /\ provider # None
    BY <1>1 DEF PayerActs, history
  <2>2. native \in Over => native' = native
    BY <1>1, <2>1, MovesKeep DEF PayerActs, ProvidersInv
  <2> QED  BY <2>1, <2>2, LifeMoves DEF Life!Next
<1>2. CASE Tick \/ UNCHANGED providerVars
  BY <1>2, LifeAlone DEF Tick, providerVars, money, history
<1>3. ASSUME NEW c \in Calls,
             \/ CreatePaymentIntent(c) \/ ConfirmPayment(c) \/ CancelPayment(c)
             \/ \E amount \in 0..Units : RefundPayment(c, amount)
             \/ Authenticate(c) \/ KeepToken(c) \/ RetrieveIntent(c) \/ Throw(c)
      PROVE  [Life!Next]_(Life!vars)
  <2>1. UNCHANGED <<provider, currency, money, history>>
    BY <1>3, TokenRequestsHold DEF Authenticate, KeepToken, RetrieveIntent, Throw
  <2> QED  BY <2>1, LifeAlone DEF money, history
<1>4. ASSUME NEW c \in Calls,
             Move(c, "confirm", ConfirmMoves) \/ Move(c, "cancel", CancelMoves)
      PROVE  [Life!Next]_(Life!vars)
  <2>1. /\ UNCHANGED <<provider, currency, charge, given, told, reported>>
        /\ provider # None
    BY <1>4 DEF Move, Arrived, history, ProvidersInv, CallsInv, OnItsWay
  <2>2. native \in Over => native' = native
    BY <1>4, <2>1, MovesKeep DEF Move, ProvidersInv
  <2> QED  BY <2>1, <2>2, LifeMoves DEF Life!Next
<1>5. ASSUME NEW c \in Calls, MakeIntent(c)
      PROVE  [Life!Next]_(Life!vars)
  <2>1. /\ UNCHANGED <<provider, currency, given, told, reported>>
        /\ provider # None
    BY <1>5 DEF MakeIntent, Arrived, history, ProvidersInv, CallsInv, OnItsWay
  <2>2. native = None /\ None \notin Over
    BY <1>5, IntentStep DEF Over, Paid, Dead, None
  <2> QED  BY <2>1, <2>2, LifeMoves DEF Life!Next
<1>6. ASSUME NEW c \in Calls, GiveRefund(c)
      PROVE  [Life!Next]_(Life!vars)
  <2>1. /\ \/ InUnits(given)' \in (InUnits(given) + 1)..InUnits(Charged)
           \/ InUnits(given)' = InUnits(given)
        /\ InUnits(Charged)' = InUnits(Charged) /\ UNCHANGED <<told, reported>>
    BY <1>6, RefundStep DEF GiveRefund, history
  <2> QED  BY <2>1 DEF Life!GiveBack, Life!Next, Life!vars
<1>7. ASSUME NEW c \in Calls, Resolve(c)
      PROVE  [Life!Next]_(Life!vars)
  BY <1>7, LifeTells
<1>8. CASE SettleRefund
  <2>1. \/ InUnits(given)' \in (InUnits(given) + 1)..InUnits(Charged)
        \/ InUnits(given)' = InUnits(given)
    BY <1>8, RefundSettles
  <2>2. InUnits(Charged)' = InUnits(Charged) /\ UNCHANGED <<told, reported>>
    BY <1>8, RefundSettles DEF SettleRefund, history
  <2> QED  BY <2>1, <2>2 DEF Life!GiveBack, Life!Next, Life!vars
<1>9. CASE LeaveToExpire
  BY <1>9, LeaveStep DEF Life!vars, InUnits, Charged
<1> QED  BY <1>1, <1>2, <1>3, <1>4, <1>5, <1>6, <1>7, <1>8, <1>9 DEF ProvidersNext

\* Whichever provider carries a payment out, and however its requests and their
\* answers are delayed, lost and reordered, it keeps the interface's promise: the
\* payer is charged the amount of the intent and once, a final status told is
\* true and stays so, and no refund is told as succeeded that was not given,
\* however many are open.  A cancellation tells of the provider's answer alone:
\* PayPal's asks nobody, and promises nothing.
THEOREM PromiseKept == ProvidersSpec => KeepsPaymentLife
<1>1. ProvidersInit => Life!Init
  BY LifeInit
<1>2. ProvidersInv /\ ProvidersInv' /\ [ProvidersNext]_providerVars => [Life!Next]_(Life!vars)
  BY LifeNext
<1> QED  BY <1>1, <1>2, ProvidersInvariance, PTL DEF ProvidersSpec, KeepsPaymentLife, Life!Spec

-----------------------------------------------------------------------------
(* The inductive invariant *)

RowStates ==
  [there : {"never", "yes", "deleted"}, status : SubscriptionStatus \cup {"none"},
   cancelAtPeriodEnd : {"yes", "no", "none"}, canceledAt : Requests \cup {"none"},
   method : Methods \cup {"none"}]
Creation == [status : {"TRIALING", "ACTIVE"}, method : Methods]
Cancellation == [status |-> Keep, cancelAtPeriodEnd |-> "yes", method |-> Keep]

Ops == {"none", "create", "update", "cancel", "reactivate", "delete", "setDefault",
        "deleteMethod"}
Pcs == {"idle", "reading", "writing", "unsetting", "setting", "done", "refused", "stopped"}
Inputs == Change \cup Creation \cup Methods \cup {"none"}
RequestRecords ==
  [op : Ops, pc : Pcs, input : Inputs, user : Users \cup {"none"}, read : RowStates]

RowsInv ==
  /\ subscription \in RowStates
  /\ ~There => subscription = Row(subscription.there)
  /\ default \subseteq Methods /\ active \subseteq Methods /\ alone \subseteq Requests

\* What each operation is given, and what reactivate has seen.
RequestsInv ==
  /\ request \in [Requests -> RequestRecords]
  /\ \A r \in Requests :
       /\ request[r].pc = "idle" => request[r].op = "none"
       /\ request[r].op = "create" => request[r].input \in Creation
       /\ request[r].op = "update" => request[r].input \in Change
       /\ request[r].op = "cancel" => request[r].input = Cancellation
       /\ request[r].op \in {"setDefault", "deleteMethod"} => request[r].input \in Methods
       /\ At(r, {"reactivate"}, "writing") => Canceled(request[r].read)

Own(r) == Owner[request[r].input] = request[r].user

\* Between its two statements a setDefault that is alone has left its user no
\* default; after them it has left the one method.  A user without a default
\* has a setDefault to blame.
DefaultInv ==
  /\ \A r \in alone :
       /\ At(r, {"setDefault"}, "setting") => DefaultsOf(request[r].user) = {}
       /\ At(r, {"setDefault"}, "done") /\ Own(r) =>
            DefaultsOf(request[r].user) = {request[r].input}
  /\ \A u \in Users :
       \/ DefaultsOf(u) # {}
       \/ \E r \in Requests : /\ request[r].op = "setDefault" /\ request[r].user = u
                              /\ ~(request[r].pc = "done" /\ Own(r))

SubscriptionsInv == RowsInv /\ RequestsInv /\ NoChangeLost /\ DefaultInv

-----------------------------------------------------------------------------
(* RowStates *)

LEMMA RowHolds ==
  ASSUME NEW there \in {"never", "yes", "deleted"}
  PROVE  /\ Row(there) \in RowStates /\ Row(there).there = there
         /\ Row(there).status = "none"
         /\ LET row == [Row(there) EXCEPT !.status = "ACTIVE", !.cancelAtPeriodEnd = "no"] IN
            row \in RowStates /\ row.there = there /\ row.cancelAtPeriodEnd = "no"
BY DEF Row, RowStates, SubscriptionStatus

LEMMA NoRequestHolds ==
  /\ NoRequest \in RequestRecords
  /\ NoRequest.op = "none" /\ NoRequest.pc = "idle"
BY RowHolds DEF NoRequest, RequestRecords, Ops, Pcs, Inputs

\* What Begin makes of a request.
RequestOf(op, pc, input, user) ==
  [NoRequest EXCEPT !.op = op, !.pc = pc, !.input = input, !.user = user]

LEMMA AskedHolds ==
  ASSUME NEW op \in Ops, NEW pc \in Pcs, NEW input \in Inputs, NEW user \in Users \cup {"none"}
  PROVE  LET next == RequestOf(op, pc, input, user) IN
         /\ next \in RequestRecords
         /\ next.op = op /\ next.pc = pc /\ next.input = input
<1>1. PICK none : none = NoRequest /\ none \in RequestRecords
  BY NoRequestHolds
<1> QED  BY <1>1 DEF RequestOf, RequestRecords

\* What an operation writes: no value is one that was left out, and the date of
\* a cancellation comes and goes with it.
LEMMA WrittenHolds ==
  ASSUME RequestsInv, NEW r \in Requests,
         request[r].op \in {"update", "cancel", "reactivate"}, NEW new, new = Written(r)
  PROVE  /\ DOMAIN new \subseteq Columns
         /\ "status" \in DOMAIN new => new["status"] \in SubscriptionStatus
         /\ "cancelAtPeriodEnd" \in DOMAIN new => new["cancelAtPeriodEnd"] \in {"yes", "no"}
         /\ "method" \in DOMAIN new => new["method"] \in Methods
         /\ "canceledAt" \in DOMAIN new => new["canceledAt"] \in Requests \cup {"none"}
         /\ "canceledAt" \in DOMAIN new /\ new["canceledAt"] = "none" =>
              "cancelAtPeriodEnd" \in DOMAIN new /\ new["cancelAtPeriodEnd"] = "no"
         /\ "cancelAtPeriodEnd" \in DOMAIN new /\ new["cancelAtPeriodEnd"] = "yes" =>
              "canceledAt" \in DOMAIN new /\ new["canceledAt"] # "none"
         /\ "status" \in DOMAIN new /\ new["status"] = "ACTIVE" =>
              \/ request[r].op = "update" /\ request[r].input.status = "ACTIVE"
              \/ request[r].op = "reactivate"
<1>1. CASE request[r].op = "reactivate"
  <2>1. new = Reactivation
    BY <1>1 DEF Written
  <2>2. /\ DOMAIN new = {"status", "cancelAtPeriodEnd", "canceledAt"}
        /\ new["status"] = "ACTIVE" /\ new["cancelAtPeriodEnd"] = "no"
        /\ new["canceledAt"] = "none"
    BY <2>1 DEF Reactivation
  <2> QED  BY <1>1, <2>2 DEF Columns, SubscriptionStatus
<1>2. CASE request[r].op # "reactivate"
  <2> DEFINE change == request[r].input
  <2>1. change \in Change /\ (request[r].op = "cancel" => change.status = Keep)
    BY <1>2 DEF RequestsInv, Cancellation, Change
  <2>2. new = [c \in Given(change) |-> IF c = "canceledAt" THEN r ELSE change[c]]
    BY <1>2 DEF Written
  <2> HIDE DEF change
  <2>3. /\ DOMAIN change = {"status", "cancelAtPeriodEnd", "method"}
        /\ change["status"] = change.status
        /\ change["cancelAtPeriodEnd"] = change.cancelAtPeriodEnd
        /\ change["method"] = change.method
    BY <2>1 DEF Change
  <2>4. /\ DOMAIN new = Given(change)
        /\ Given(change) \subseteq Columns
        /\ "status" \in Given(change) <=> change.status # Keep
        /\ "cancelAtPeriodEnd" \in Given(change) <=> change.cancelAtPeriodEnd # Keep
        /\ "method" \in Given(change) <=> change.method # Keep
        /\ "canceledAt" \in Given(change) <=> change.cancelAtPeriodEnd = "yes"
    BY <2>2, <2>3 DEF Given, Columns
  <2>5. /\ "status" \in DOMAIN new => new["status"] = change.status
        /\ "cancelAtPeriodEnd" \in DOMAIN new =>
             new["cancelAtPeriodEnd"] = change.cancelAtPeriodEnd
        /\ "method" \in DOMAIN new => new["method"] = change.method
        /\ "canceledAt" \in DOMAIN new => new["canceledAt"] = r
    BY <2>2, <2>3, <2>4
  <2>6. r # "none" /\ Keep # "yes"
    BY NamesAssumption DEF Keep
  <2>7. /\ change.status \in SubscriptionStatus \cup {Keep}
        /\ change.cancelAtPeriodEnd \in {"yes", "no", Keep}
        /\ change.method \in Methods \cup {Keep}
    BY <2>1 DEF Change
  <2>8. request[r].op = "update" \/ change.status = Keep
    BY <1>2, <2>1
  <2>9. request[r].input = change
    BY DEF change
  <2> QED  BY <1>2, <2>4, <2>5, <2>6, <2>7, <2>8, <2>9
<1> QED  BY <1>1, <1>2

\* The row after an update.
LEMMA RowAfter ==
  ASSUME NEW row \in RowStates, NEW read, NEW new, DOMAIN new \subseteq Columns
  PROVE  LET after == RowWith(row, read, new) IN
         /\ DOMAIN row = Columns \cup {"there"} /\ DOMAIN after = DOMAIN row
         /\ after.there = row.there
         /\ \A c \in Columns : after[c] = IF c \in DOMAIN new THEN new[c] ELSE row[c]
         /\ after = [there |-> row.there, status |-> after["status"],
                     cancelAtPeriodEnd |-> after["cancelAtPeriodEnd"],
                     canceledAt |-> after["canceledAt"], method |-> after["method"]]
<1>1. DOMAIN row = Columns \cup {"there"}
  BY DEF RowStates, Columns
<1> QED  BY <1>1 DEF RowWith, Columns

-----------------------------------------------------------------------------
(* What the steps have in common *)

LEMMA SubscriptionsInitially ==
  ASSUME SubscriptionsInit  PROVE  SubscriptionsInv
<1>1. subscription \in RowStates /\ (~There => subscription = Row(subscription.there))
  BY RowHolds DEF SubscriptionsInit, There
<1>2. RowsInv
  BY <1>1 DEF SubscriptionsInit, RowsInv
<1>3. \A r \in Requests : request[r] = NoRequest /\ request[r].op = "none" /\ request[r].pc = "idle"
  BY NoRequestHolds DEF SubscriptionsInit
<1>4. RequestsInv
  BY <1>3, NoRequestHolds DEF SubscriptionsInit, RequestsInv, At
<1>5. NoChangeLost
  <2>1. There => subscription.cancelAtPeriodEnd = "no"
    BY RowHolds DEF SubscriptionsInit, There, Row
  <2> QED  BY <2>1 DEF SubscriptionsInit, NoChangeLost
<1>6. ASSUME NEW u \in Users  PROVE  DefaultsOf(u) # {}
  BY FS_EmptySet DEF SubscriptionsInit, DefaultsOf
<1>7. DefaultInv
  BY <1>6 DEF SubscriptionsInit, DefaultInv
<1> QED  BY <1>2, <1>4, <1>5, <1>7 DEF SubscriptionsInv

\* A request takes its next step, or its first.
LEMMA RequestsHold ==
  ASSUME RequestsInv, NEW r \in Requests, NEW next \in RequestRecords,
         request' = [request EXCEPT ![r] = next],
         next.pc # "idle",
         \/ next.op = request[r].op /\ next.input = request[r].input
         \/ /\ next.op = "create" => next.input \in Creation
            /\ next.op = "update" => next.input \in Change
            /\ next.op = "cancel" => next.input = Cancellation
            /\ next.op \in {"setDefault", "deleteMethod"} => next.input \in Methods,
         next.op = "reactivate" /\ next.pc = "writing" => Canceled(next.read)
  PROVE  /\ RequestsInv'
         /\ \A q \in Requests : request'[q] = IF q = r THEN next ELSE request[q]
<1>1. /\ request' \in [Requests -> RequestRecords]
      /\ \A q \in Requests : request'[q] = IF q = r THEN next ELSE request[q]
  BY DEF RequestsInv
<1>2. ASSUME NEW q \in Requests
      PROVE  /\ request'[q].pc = "idle" => request'[q].op = "none"
             /\ request'[q].op = "create" => request'[q].input \in Creation
             /\ request'[q].op = "update" => request'[q].input \in Change
             /\ request'[q].op = "cancel" => request'[q].input = Cancellation
             /\ request'[q].op \in {"setDefault", "deleteMethod"} =>
                  request'[q].input \in Methods
             /\ At(q, {"reactivate"}, "writing")' => Canceled(request'[q].read)
  <2>1. CASE q = r
    BY <1>1, <2>1 DEF RequestsInv, At
  <2>2. CASE q # r
    BY <1>1, <2>2 DEF RequestsInv, At
  <2> QED  BY <2>1, <2>2
<1>3. RequestsInv'
  BY <1>1, <1>2 DEF RequestsInv, At, Canceled
<1> QED  BY <1>1, <1>3

\* Go changes the pc alone.
LEMMA GoHolds ==
  ASSUME RequestsInv, NEW r \in Requests,
         NEW pc \in {"writing", "setting", "done", "refused", "stopped"}, Go(r, pc),
         pc = "writing" => request[r].op # "reactivate"
  PROVE  /\ RequestsInv'
         /\ \A q \in Requests \ {r} : request'[q] = request[q]
         /\ request'[r].op = request[r].op /\ request'[r].pc = pc
         /\ request'[r].input = request[r].input /\ request'[r].user = request[r].user
<1> DEFINE next == [request[r] EXCEPT !.pc = pc]
<1>1. request' = [request EXCEPT ![r] = next]
  BY DEF Go
<1>2. request[r] \in RequestRecords
  BY DEF RequestsInv
<1>3. /\ next \in RequestRecords /\ next.pc = pc /\ next.op = request[r].op
      /\ next.input = request[r].input /\ next.user = request[r].user
  BY <1>2 DEF RequestRecords, Pcs
<1> HIDE DEF next
<1>4. /\ next.pc # "idle"
      /\ next.op = "reactivate" /\ next.pc = "writing" => Canceled(next.read)
  BY <1>3
<1>5. /\ RequestsInv'
      /\ \A q \in Requests : request'[q] = IF q = r THEN next ELSE request[q]
  BY <1>1, <1>3, <1>4, RequestsHold
<1> QED  BY <1>3, <1>5

\* A step that leaves the rows of methods alone, and finishes no setDefault.
LEMMA DefaultsAlone ==
  ASSUME DefaultInv, NEW r \in Requests, default' = default,
         alone' \subseteq alone \cup {r}, alone \subseteq Requests,
         \A q \in Requests \ {r} : request'[q] = request[q],
         request'[r].op = "setDefault" => request'[r].pc \notin {"setting", "done"},
         request[r].op = "setDefault" =>
           request'[r].op = "setDefault" /\ request'[r].user = request[r].user
  PROVE  DefaultInv'
<1>1. \A u : DefaultsOf(u)' = DefaultsOf(u)
  BY DEF DefaultsOf
<1>2. ASSUME NEW q \in alone'
      PROVE  /\ At(q, {"setDefault"}, "setting")' => DefaultsOf(request[q].user)' = {}
             /\ At(q, {"setDefault"}, "done")' /\ Own(q)' =>
                  DefaultsOf(request[q].user)' = {request'[q].input}
  <2>1. CASE q = r
    BY <2>1 DEF At
  <2>2. CASE q # r
    <3>1. q \in alone /\ request'[q] = request[q]
      BY <2>2
    <3> QED  BY <1>1, <3>1 DEF DefaultInv, At, Own, DefaultsOf
  <2> QED  BY <2>1, <2>2
<1>3. ASSUME NEW u \in Users
      PROVE  \/ DefaultsOf(u)' # {}
             \/ \E q \in Requests : /\ request'[q].op = "setDefault" /\ request'[q].user = u
                                    /\ ~(request'[q].pc = "done" /\ Own(q)')
  <2>1. CASE DefaultsOf(u) # {}
    BY <1>1, <2>1
  <2>2. ASSUME NEW q \in Requests,
               request[q].op = "setDefault", request[q].user = u,
               ~(request[q].pc = "done" /\ Own(q))
        PROVE  /\ request'[q].op = "setDefault" /\ request'[q].user = u
               /\ ~(request'[q].pc = "done" /\ Own(q)')
    BY <2>2 DEF Own
  <2> QED  BY <2>1, <2>2 DEF DefaultInv
<1> QED  BY <1>2, <1>3 DEF DefaultInv

LEMMA RowsAlone ==
  ASSUME RowsInv, NoChangeLost, UNCHANGED <<subscription, wanted>>,
         default' \subseteq Methods, active' \subseteq Methods, alone' \subseteq Requests
  PROVE  RowsInv' /\ NoChangeLost'
BY DEF RowsInv, NoChangeLost, There

-----------------------------------------------------------------------------
(* The steps *)

LEMMA BeginStep ==
  ASSUME SubscriptionsInv, NEW r \in Requests,
         \/ \E trial \in BOOLEAN, m \in Methods : BeginCreate(r, trial, m)
         \/ \E change \in Changes : BeginUpdate(r, change)
         \/ BeginCancel(r) \/ BeginReactivate(r) \/ BeginDelete(r)
         \/ \E m \in Methods :
              (\E u \in Users : BeginSetDefault(r, m, u)) \/ BeginDeleteMethod(r, m)
  PROVE  SubscriptionsInv'
<1> USE DEF SubscriptionsInv
<1>1. PICK op \in {"create", "update", "cancel", "reactivate", "delete", "setDefault",
                   "deleteMethod"},
           pc \in {"reading", "writing", "unsetting"},
           input \in Change \cup Creation \cup Methods \cup {"none"},
           user \in Users \cup {"none"} :
        /\ Begin(r, op, pc, input, user)
        /\ op = "create" => input \in Creation
        /\ op = "update" => input \in Change
        /\ op = "cancel" => input = Cancellation
        /\ op \in {"setDefault", "deleteMethod"} => input \in Methods
        /\ op = "reactivate" => pc # "writing"
  <2>1. ASSUME NEW trial \in BOOLEAN, NEW m \in Methods
        PROVE  [status |-> IF trial THEN "TRIALING" ELSE "ACTIVE", method |-> m] \in Creation
    BY DEF Creation
  <2>2. Cancellation \in Change
    BY DEF Cancellation, Change
  <2> QED  BY <2>1, <2>2, ChangesAssumption
           DEF BeginCreate, BeginUpdate, BeginCancel, BeginReactivate, BeginDelete,
               BeginSetDefault, BeginDeleteMethod, Cancellation
<1>2. PICK next \in RequestRecords :
        next = RequestOf(op, pc, input, user) /\ next.op = op /\ next.pc = pc /\ next.input = input
  <2>1. op \in Ops /\ pc \in Pcs /\ input \in Inputs
    BY DEF Ops, Pcs, Inputs
  <2> QED  BY <2>1, AskedHolds
<1>3. /\ request' = [request EXCEPT ![r] = next] /\ request[r].pc = "idle"
      /\ UNCHANGED <<subscription, default, active, wanted>>
      /\ alone' \subseteq alone \cup {r}
  BY <1>1, <1>2 DEF Begin, RequestOf, subscriptionTables
<1>4. /\ RequestsInv'
      /\ \A q \in Requests : request'[q] = IF q = r THEN next ELSE request[q]
  <2>1. /\ next.pc # "idle"
        /\ next.op = "create" => next.input \in Creation
        /\ next.op = "update" => next.input \in Change
        /\ next.op = "cancel" => next.input = Cancellation
        /\ next.op \in {"setDefault", "deleteMethod"} => next.input \in Methods
        /\ next.op = "reactivate" => next.pc # "writing"
    BY <1>1, <1>2
  <2>2. request' = [request EXCEPT ![r] = next]
    BY <1>3
  <2> HIDE DEF SubscriptionsInv
  <2>3. RequestsInv
    BY DEF SubscriptionsInv
  <2> QED  BY <2>1, <2>2, <2>3, RequestsHold
<1>5. request[r].op # "setDefault"
  BY <1>3 DEF RequestsInv
<1>6. RowsInv' /\ NoChangeLost'
  BY <1>3, RowsAlone DEF RowsInv
<1>7. DefaultInv'
  BY <1>1, <1>2, <1>3, <1>4, <1>5, DefaultsAlone DEF RowsInv
<1> QED  BY <1>4, <1>6, <1>7

\* A request that is refused or stops, and one that goes on to write.
LEMMA GoStep ==
  ASSUME SubscriptionsInv, NEW r \in Requests, UNCHANGED <<subscriptionTables, wanted, alone>>,
         \/ Go(r, "refused") /\ request[r].pc # "idle"
         \/ Go(r, "stopped") /\ request[r].pc # "idle"
         \/ Go(r, "writing") /\ request[r].op = "create"
  PROVE  SubscriptionsInv'
<1> USE DEF SubscriptionsInv
<1>1. PICK pc \in {"refused", "stopped", "writing"} :
        Go(r, pc) /\ (pc = "writing" => request[r].op = "create")
  OBVIOUS
<1>2. /\ RequestsInv'
      /\ \A q \in Requests \ {r} : request'[q] = request[q]
      /\ request'[r].op = request[r].op /\ request'[r].pc = pc
      /\ request'[r].user = request[r].user
  BY <1>1, GoHolds
<1>3. UNCHANGED <<subscription, default, active, wanted, alone>>
  BY DEF subscriptionTables
<1>4. RowsInv' /\ NoChangeLost'
  BY <1>3, RowsAlone DEF RowsInv
<1>5. DefaultInv'
  BY <1>2, <1>3, DefaultsAlone DEF RowsInv
<1> QED  BY <1>2, <1>4, <1>5

LEMMA ReadStep ==
  ASSUME SubscriptionsInv, NEW r \in Requests, ReadSubscription(r)
  PROVE  SubscriptionsInv'
<1> USE DEF SubscriptionsInv
<1>1. CASE RefuseRequest(r)
  BY <1>1, GoStep DEF ReadSubscription, RefuseRequest, At
<1>2. CASE ~RefuseRequest(r)
  <2> DEFINE next == [request[r] EXCEPT !.pc = "writing", !.read = subscription]
  <2>1. /\ request' = [request EXCEPT ![r] = next]
        /\ UNCHANGED <<subscription, default, active, wanted, alone>>
        /\ request[r].op \in {"update", "cancel", "reactivate"}
        /\ request[r].op = "reactivate" => Canceled(subscription)
    BY <1>2 DEF ReadSubscription, At, subscriptionTables
  <2>2. request[r] \in RequestRecords /\ subscription \in RowStates
    BY DEF RequestsInv, RowsInv
  <2>3. /\ next \in RequestRecords /\ next.pc = "writing" /\ next.op = request[r].op
        /\ next.input = request[r].input /\ next.read = subscription
    BY <2>2 DEF RequestRecords, Pcs
  <2> HIDE DEF next
  <2>4. /\ RequestsInv'
        /\ \A q \in Requests : request'[q] = IF q = r THEN next ELSE request[q]
    BY <2>1, <2>3, RequestsHold
  <2>5. RowsInv' /\ NoChangeLost'
    BY <2>1, RowsAlone DEF RowsInv
  <2>6. DefaultInv'
    BY <2>1, <2>3, <2>4, DefaultsAlone DEF RowsInv
  <2> QED  BY <2>4, <2>5, <2>6
<1> QED  BY <1>1, <1>2

LEMMA InsertStep ==
  ASSUME SubscriptionsInv, NEW r \in Requests, InsertSubscription(r)
  PROVE  SubscriptionsInv'
<1> USE DEF SubscriptionsInv
<1>1. /\ request[r].op = "create" /\ Go(r, "done") /\ UNCHANGED <<default, active, alone>>
      /\ wanted' = [c \in Columns |-> subscription'[c]]
  BY DEF InsertSubscription, At
<1>2. /\ RequestsInv'
      /\ \A q \in Requests \ {r} : request'[q] = request[q]
      /\ request'[r].op = request[r].op
  BY <1>1, GoHolds
<1>3. /\ subscription' \in RowStates /\ subscription'.there = "yes"
      /\ subscription'.cancelAtPeriodEnd = "no"
  <2>1. request[r].input \in Creation
    BY <1>1 DEF RequestsInv
  <2> QED  BY <2>1 DEF InsertSubscription, Row, RowStates, Creation, SubscriptionStatus
<1>4. RowsInv'
  BY <1>1, <1>3 DEF RowsInv, There
<1>5. NoChangeLost'
  BY <1>1, <1>3 DEF NoChangeLost
<1>6. DefaultInv'
  BY <1>1, <1>2, DefaultsAlone DEF RowsInv
<1> QED  BY <1>2, <1>4, <1>5, <1>6

LEMMA UpdateStep ==
  ASSUME SubscriptionsInv, NEW r \in Requests, UpdateSubscription(r)
  PROVE  SubscriptionsInv'
<1> USE DEF SubscriptionsInv
<1>1. CASE RefuseRequest(r)
  BY <1>1, GoStep DEF UpdateSubscription, RefuseRequest, At
<1>2. CASE ~RefuseRequest(r)
  <2>1. PICK new : new = Written(r)
    OBVIOUS
  <2>2. /\ request[r].op \in {"update", "cancel", "reactivate"} /\ There
        /\ subscription' = RowWith(subscription, request[r].read, new)
        /\ wanted' = [c \in Columns |-> IF c \in DOMAIN new THEN new[c] ELSE wanted[c]]
        /\ Go(r, "done") /\ UNCHANGED <<default, active, alone>>
    BY <1>2, <2>1 DEF UpdateSubscription, At, Want
  <2>3. /\ RequestsInv'
        /\ \A q \in Requests \ {r} : request'[q] = request[q]
        /\ request'[r].op = request[r].op
    BY <2>2, GoHolds
  <2>4. /\ DOMAIN new \subseteq Columns
        /\ "status" \in DOMAIN new => new["status"] \in SubscriptionStatus
        /\ "cancelAtPeriodEnd" \in DOMAIN new => new["cancelAtPeriodEnd"] \in {"yes", "no"}
        /\ "method" \in DOMAIN new => new["method"] \in Methods
        /\ "canceledAt" \in DOMAIN new => new["canceledAt"] \in Requests \cup {"none"}
        /\ "canceledAt" \in DOMAIN new /\ new["canceledAt"] = "none" =>
             "cancelAtPeriodEnd" \in DOMAIN new /\ new["cancelAtPeriodEnd"] = "no"
        /\ "cancelAtPeriodEnd" \in DOMAIN new /\ new["cancelAtPeriodEnd"] = "yes" =>
             "canceledAt" \in DOMAIN new /\ new["canceledAt"] # "none"
    BY <2>1, <2>2, WrittenHolds
  <2>5. subscription \in RowStates
    BY DEF RowsInv
  <2>6. /\ subscription'.there = "yes"
        /\ \A c \in Columns :
             subscription'[c] = IF c \in DOMAIN new THEN new[c] ELSE subscription[c]
        /\ subscription' = [there |-> "yes", status |-> subscription'["status"],
                     cancelAtPeriodEnd |-> subscription'["cancelAtPeriodEnd"],
                     canceledAt |-> subscription'["canceledAt"],
                     method |-> subscription'["method"]]
    BY <2>2, <2>4, <2>5, RowAfter DEF There
  <2>7. /\ subscription["status"] \in SubscriptionStatus \cup {"none"}
        /\ subscription["cancelAtPeriodEnd"] \in {"yes", "no", "none"}
        /\ subscription["canceledAt"] \in Requests \cup {"none"}
        /\ subscription["method"] \in Methods \cup {"none"}
    BY <2>5 DEF RowStates
  <2>8. /\ subscription'["status"] \in SubscriptionStatus \cup {"none"}
        /\ subscription'["cancelAtPeriodEnd"] \in {"yes", "no", "none"}
        /\ subscription'["canceledAt"] \in Requests \cup {"none"}
        /\ subscription'["method"] \in Methods \cup {"none"}
    BY <2>4, <2>6, <2>7 DEF Columns
  <2>9. subscription' \in RowStates
    BY <2>6, <2>8 DEF RowStates
  <2>10. RowsInv'
    BY <2>2, <2>6, <2>9 DEF RowsInv, There
  <2>11. NoChangeLost'
    <3>1. \A c \in Columns : subscription'[c] = wanted'[c]
      BY <2>2, <2>6 DEF NoChangeLost
    <3>2. subscription'["cancelAtPeriodEnd"] = "yes" => subscription'["canceledAt"] # "none"
      <4>1. subscription["cancelAtPeriodEnd"] = "yes" => subscription["canceledAt"] # "none"
        BY <2>2 DEF NoChangeLost
      <4> QED  BY <2>4, <2>6, <4>1 DEF Columns
    <3> QED  BY <3>1, <3>2 DEF NoChangeLost
  <2>12. DefaultInv'
    BY <2>2, <2>3, DefaultsAlone DEF RowsInv
  <2> QED  BY <2>3, <2>10, <2>11, <2>12
<1> QED  BY <1>1, <1>2

LEMMA DeleteStep ==
  ASSUME SubscriptionsInv, NEW r \in Requests, DeleteSubscription(r)
  PROVE  SubscriptionsInv'
<1> USE DEF SubscriptionsInv
<1>1. CASE RefuseRequest(r)
  BY <1>1, GoStep DEF DeleteSubscription, RefuseRequest, At
<1>2. CASE ~RefuseRequest(r)
  <2>1. /\ request[r].op = "delete" /\ subscription' = Row("deleted")
        /\ Go(r, "done") /\ UNCHANGED <<default, active, alone>>
    BY <1>2 DEF DeleteSubscription, At
  <2>2. /\ RequestsInv'
        /\ \A q \in Requests \ {r} : request'[q] = request[q]
        /\ request'[r].op = request[r].op
    BY <2>1, GoHolds
  <2>3. subscription' \in RowStates /\ subscription'.there = "deleted"
    BY <2>1, RowHolds
  <2>4. RowsInv' /\ NoChangeLost'
    BY <2>1, <2>3 DEF RowsInv, NoChangeLost, There
  <2>5. DefaultInv'
    BY <2>1, <2>2, DefaultsAlone DEF RowsInv
  <2> QED  BY <2>2, <2>4, <2>5
<1> QED  BY <1>1, <1>2

LEMMA DeleteMethodStep ==
  ASSUME SubscriptionsInv, NEW r \in Requests, DeleteMethod(r)
  PROVE  SubscriptionsInv'
<1> USE DEF SubscriptionsInv
<1>1. /\ request[r].op = "deleteMethod" /\ active' \subseteq active
      /\ Go(r, "done") /\ UNCHANGED <<subscription, default, wanted, alone>>
  BY DEF DeleteMethod, At
<1>2. /\ RequestsInv'
      /\ \A q \in Requests \ {r} : request'[q] = request[q]
      /\ request'[r].op = request[r].op
  BY <1>1, GoHolds
<1>3. RowsInv' /\ NoChangeLost'
  BY <1>1, RowsAlone DEF RowsInv
<1>4. DefaultInv'
  BY <1>1, <1>2, DefaultsAlone DEF RowsInv
<1> QED  BY <1>2, <1>3, <1>4

\* The two statements of setDefault: any other that is under way is no longer
\* alone.
LEMMA DefaultStep ==
  ASSUME SubscriptionsInv, NEW r \in Requests, UnsetDefault(r) \/ SetDefault(r)
  PROVE  SubscriptionsInv'
<1> USE DEF SubscriptionsInv
<1>1. PICK pc \in {"setting", "done"} :
        /\ Go(r, pc) /\ request[r].op = "setDefault" /\ request[r].pc # "done"
        /\ UNCHANGED <<subscription, active, wanted>>
        /\ alone' = alone \cap {r}
        /\ \/ pc = "setting" /\ default' = default \ DefaultsOf(request[r].user)
           \/ /\ pc = "done" /\ request[r].pc = "setting"
              /\ default' = default \cup {request[r].input}
  BY DEF UnsetDefault, SetDefault, At, EveryDefault
<1>2. /\ RequestsInv'
      /\ \A q \in Requests \ {r} : request'[q] = request[q]
      /\ request'[r].op = request[r].op /\ request'[r].pc = pc
      /\ request'[r].input = request[r].input /\ request'[r].user = request[r].user
  BY <1>1, GoHolds
<1>3. request[r].input \in Methods
  BY <1>1 DEF RequestsInv
<1>4. RowsInv' /\ NoChangeLost'
  BY <1>1, <1>3, RowsAlone DEF RowsInv
<1>5. pc = "setting" => /\ DefaultsOf(request[r].user)' = {}
                        /\ \A u : u # request[r].user => DefaultsOf(u)' = DefaultsOf(u)
  BY <1>1, <1>2 DEF DefaultsOf
<1>6. pc = "done" /\ Own(r) => request[r].input \in DefaultsOf(request[r].user)'
  BY <1>1, <1>2, <1>3 DEF DefaultsOf, Own
<1>7. pc = "done" /\ Own(r) /\ r \in alone =>
        DefaultsOf(request[r].user)' = {request[r].input}
  <2>1. pc = "done" /\ r \in alone => DefaultsOf(request[r].user) = {}
    BY <1>1 DEF DefaultInv, At
  <2> QED  BY <1>1, <1>2, <1>3, <2>1 DEF DefaultsOf, Own
<1>8. pc = "done" => \A u : DefaultsOf(u) \subseteq DefaultsOf(u)'
  BY <1>1 DEF DefaultsOf
<1>9. Own(r)' <=> Own(r)
  BY <1>2 DEF Own
<1>10. ASSUME NEW q \in alone'
       PROVE  /\ At(q, {"setDefault"}, "setting")' => DefaultsOf(request[q].user)' = {}
              /\ At(q, {"setDefault"}, "done")' /\ Own(q)' =>
                   DefaultsOf(request[q].user)' = {request'[q].input}
  <2>1. q = r /\ q \in alone
    BY <1>1
  <2>2. pc = "setting" => DefaultsOf(request[q].user)' = {}
    BY <1>2, <1>5, <2>1 DEF DefaultsOf
  <2>3. pc = "done" /\ Own(r) => DefaultsOf(request[q].user)' = {request'[q].input}
    BY <1>2, <1>7, <2>1 DEF DefaultsOf
  <2> QED  BY <1>2, <1>9, <2>1, <2>2, <2>3 DEF At
<1>11. ASSUME NEW u \in Users
       PROVE  \/ DefaultsOf(u)' # {}
              \/ \E q \in Requests : /\ request'[q].op = "setDefault" /\ request'[q].user = u
                                     /\ ~(request'[q].pc = "done" /\ Own(q)')
  <2>1. CASE u = request[r].user
    BY <1>1, <1>2, <1>6, <1>9, <2>1
  <2>2. CASE u # request[r].user
    <3>1. DefaultsOf(u) \subseteq DefaultsOf(u)'
      BY <1>1, <1>5, <1>8, <2>2
    <3>2. ASSUME NEW q \in Requests, request[q].user = u
          PROVE  request'[q] = request[q] /\ (Own(q)' <=> Own(q))
      BY <1>2, <2>2, <3>2 DEF Own
    <3> QED  BY <3>1, <3>2 DEF DefaultInv
  <2> QED  BY <2>1, <2>2
<1>12. DefaultInv'
  BY <1>10, <1>11 DEF DefaultInv
<1> QED  BY <1>2, <1>4, <1>12

LEMMA SubscriptionsNextInv ==
  ASSUME SubscriptionsInv, [SubscriptionsNext]_subscriptionVars
  PROVE  SubscriptionsInv'
<1>1. CASE UNCHANGED subscriptionVars
  <2>1. UNCHANGED <<subscription, default, active, request, wanted, alone>>
    BY <1>1 DEF subscriptionVars, subscriptionTables
  <2> QED  BY <2>1
           DEF SubscriptionsInv, RowsInv, RequestsInv, NoChangeLost, DefaultInv, There, At, Canceled, Own,
               DefaultsOf
<1>2. ASSUME NEW r \in Requests,
             SubscriptionRequest(r) \/ MethodRequest(r) \/ StopRequest(r)
      PROVE  SubscriptionsInv'
  <2>1. CASE ReadPlan(r) \/ StopRequest(r)
    BY <2>1, GoStep DEF ReadPlan, RefuseRequest, StopRequest, UnderWay, At
  <2> QED  BY <1>2, <2>1, BeginStep, ReadStep, InsertStep, UpdateStep, DeleteStep,
              DeleteMethodStep, DefaultStep
           DEF SubscriptionRequest, MethodRequest
<1> QED  BY <1>1, <1>2 DEF SubscriptionsNext

LEMMA SubscriptionsInvariance == SubscriptionsSpec => []SubscriptionsInv
<1>1. SubscriptionsInit => SubscriptionsInv
  BY SubscriptionsInitially
<1>2. SubscriptionsInv /\ [SubscriptionsNext]_subscriptionVars => SubscriptionsInv'
  BY SubscriptionsNextInv
<1> QED  BY <1>1, <1>2, PTL DEF SubscriptionsSpec

-----------------------------------------------------------------------------
(* The theorems *)

\* The rows that requests read and write are always rows of the tables, and a
\* subscription that is not there has kept nothing.
THEOREM SubscriptionsTypes == SubscriptionsSpec => []SubscriptionsTypeOK
<1>1. SubscriptionsInv => SubscriptionsTypeOK
  BY DEF SubscriptionsInv, RowsInv, RowStates, SubscriptionsTypeOK
<1> QED  BY <1>1, SubscriptionsInvariance, PTL

\* Of updates, cancellations and reactivations that read and write the
\* subscription side by side, none takes the columns of another with it, and a
\* canceling subscription has the date and the reason of its cancellation.
THEOREM ChangesLast == SubscriptionsSpec => []NoChangeLost
<1>1. SubscriptionsInv => NoChangeLost
  BY DEF SubscriptionsInv
<1> QED  BY <1>1, SubscriptionsInvariance, PTL

\* The default payment method is the one that setDefault was given as long as no
\* other call comes between its statements, and a user is left without one only
\* by a call that stopped or named somebody else's method.
THEOREM DefaultsLast == SubscriptionsSpec => []DefaultStands
<1>1. SubscriptionsInv => DefaultStands
  <2>1. ASSUME DefaultInv  PROVE  DefaultStands
    BY <2>1 DEF DefaultInv, DefaultStands, Own
  <2> QED  BY <2>1 DEF SubscriptionsInv
<1> QED  BY <1>1, SubscriptionsInvariance, PTL

\* A subscription that is past due becomes active only by an update that says
\* so, or by a reactivation whose reading is no longer the row.
THEOREM PastDueLasts == SubscriptionsSpec => PastDueStands
<1> DEFINE Stands ==
      There /\ subscription.status = "PAST_DUE" /\ subscription.cancelAtPeriodEnd = "no"
      /\ subscription'.status = "ACTIVE" =>
        \E r \in Requests :
          /\ request[r].pc = "writing" /\ request'[r].pc = "done"
          /\ \/ request[r].op = "update" /\ request[r].input.status = "ACTIVE"
             \/ request[r].op = "reactivate" /\ request[r].read # subscription
<1>1. SubscriptionsInv /\ [SubscriptionsNext]_subscriptionVars => [Stands]_subscriptionVars
  <2> SUFFICES ASSUME SubscriptionsInv, [SubscriptionsNext]_subscriptionVars, There,
                      subscription.status = "PAST_DUE",
                      subscription.cancelAtPeriodEnd = "no",
                      subscription'.status = "ACTIVE"
               PROVE  \E r \in Requests :
                        /\ request[r].pc = "writing" /\ request'[r].pc = "done"
                        /\ \/ request[r].op = "update" /\ request[r].input.status = "ACTIVE"
                           \/ request[r].op = "reactivate" /\ request[r].read # subscription
    OBVIOUS
  <2>1. subscription' # subscription /\ subscription' # Row("deleted")
    BY RowHolds
  <2>2. PICK r \in Requests : UpdateSubscription(r) /\ ~RefuseRequest(r)
    BY <2>1 DEF SubscriptionsNext, SubscriptionRequest, MethodRequest, BeginCreate,
       BeginUpdate, BeginCancel, BeginReactivate, BeginDelete, BeginSetDefault,
       BeginDeleteMethod, Begin, ReadPlan, InsertSubscription, ReadSubscription,
       DeleteSubscription, RefuseRequest, UnsetDefault, SetDefault, DeleteMethod,
       StopRequest, subscriptionVars, subscriptionTables, There
  <2>3. PICK new : new = Written(r)
    OBVIOUS
  <2>4. /\ request[r].op \in {"update", "cancel", "reactivate"} /\ request[r].pc = "writing"
        /\ subscription' = RowWith(subscription, request[r].read, new)
        /\ Go(r, "done")
    BY <2>2, <2>3 DEF UpdateSubscription, At
  <2>5. request'[r].pc = "done"
    BY <2>4, GoHolds DEF SubscriptionsInv
  <2>6. "status" \in DOMAIN new /\ new["status"] = "ACTIVE"
    <3>1. /\ DOMAIN new \subseteq Columns /\ subscription \in RowStates
      BY <2>3, <2>4, WrittenHolds DEF SubscriptionsInv, RowsInv
    <3>2. subscription'["status"] =
            IF "status" \in DOMAIN new THEN new["status"] ELSE subscription["status"]
      BY <2>4, <3>1, RowAfter DEF Columns
    <3> QED  BY <3>2
  <2>7. \/ request[r].op = "update" /\ request[r].input.status = "ACTIVE"
        \/ request[r].op = "reactivate"
    BY <2>3, <2>4, <2>6, WrittenHolds DEF SubscriptionsInv
  <2>8. request[r].op = "reactivate" => request[r].read # subscription
    BY <2>4 DEF SubscriptionsInv, RequestsInv, At, Canceled
  <2> QED  BY <2>4, <2>5, <2>7, <2>8
<1> QED  BY <1>1, SubscriptionsInvariance, PTL DEF SubscriptionsSpec, PastDueStands

-----------------------------------------------------------------------------
(* Numbers and folds *)

\* A set of numbers that is not empty has a least member.
LEMMA LeastNumber ==
  ASSUME NEW T \in SUBSET Nat, T # {}
  PROVE  \E m \in T : \A k \in T : m <= k
<1>1. PICK m \in T : \A k \in T : ~(<<k, m>> \in OpToRel(<, Nat))
  BY NatLessThanWellFounded, WFMin
<1>2. \A k \in T : ~(k < m)
  BY <1>1 DEF OpToRel
<1> QED
  BY <1>2

LEMMA GreatestNumber ==
  ASSUME NEW n \in Nat, NEW s \in SUBSET (1..n), s # {}
  PROVE  Max(s) \in s /\ \A k \in s : k <= Max(s)
<1> DEFINE T == {m \in Nat : \E k \in s : m = n - k}
<1>1. T \in SUBSET Nat /\ T # {}
  <2>1. PICK k \in s : TRUE
    OBVIOUS
  <2>2. n - k \in T
    BY <2>1
  <2> QED
    BY <2>2
<1>2. PICK m \in T : \A k \in T : m <= k
  <2> HIDE DEF T
  <2> QED
    BY <1>1, LeastNumber
<1>3. \E x \in s : \A y \in s : x >= y
  <2>1. PICK x \in s : m = n - x
    BY <1>2
  <2>2. ASSUME NEW y \in s PROVE x >= y
    <3>1. n - y \in T
      OBVIOUS
    <3>2. m <= n - y
      BY <1>2, <3>1
    <3> QED
      BY <2>1, <3>2
  <2> QED
    BY <2>2
<1> QED
  BY <1>3 DEF Max

LEMMA WithoutOne ==
  ASSUME NEW s, NEW x \in s, IsFiniteSet(s)
  PROVE  /\ IsFiniteSet(s \ {x}) /\ Cardinality(s) \in Nat \ {0}
         /\ Cardinality(s \ {x}) = Cardinality(s) - 1
         /\ Cardinality(s) = 1 <=> s \ {x} = {}
<1>1. IsFiniteSet(s \ {x}) /\ Cardinality(s \ {x}) = Cardinality(s) - 1
  BY FS_RemoveElement
<1>2. Cardinality(s) \in Nat /\ Cardinality(s \ {x}) \in Nat
  BY <1>1, FS_CardinalityType
<1>3. Cardinality(s) # 0
  BY FS_EmptySet
<1>4. Cardinality(s \ {x}) = 0 <=> s \ {x} = {}
  BY <1>1, FS_EmptySet
<1> QED
  BY <1>1, <1>2, <1>3, <1>4

LEMMA UptoCounted ==
  ASSUME NEW n \in Nat
  PROVE  IsFiniteSet(1..n) /\ Cardinality(1..n) = n
<1>1. IsFiniteSet(1..n) /\ Cardinality(1..n) = IF 1 > n THEN 0 ELSE n - 1 + 1
  BY FS_Interval
<1> QED
  BY <1>1

\* What is pushed of the row at n onto those before it.
PushedOn(found, user, n, rows) ==
  IF found[n].user = user THEN Append(rows, found[n]) ELSE rows

\* The function that FoldLeft is defined with, on the sets of positions in P.
Pushes(g, found, user, P) ==
  g = [s \in P |-> IF s = {} THEN <<>>
                   ELSE LET x == Max(s) IN PushedOn(found, user, x, g[s \ {x}])]

LEMMA PushesExists ==
  ASSUME NEW n \in Nat, NEW found, NEW user
  PROVE  \E g : Pushes(g, found, user, SUBSET (1..n))
<1> DEFINE Upto(m) == {s \in SUBSET (1..n) : Cardinality(s) <= m}
           T == {m \in Nat : ~\E g : Pushes(g, found, user, Upto(m))}
<1>0. /\ IsFiniteSet(1..n) /\ Cardinality(1..n) = n
      /\ \A s \in SUBSET (1..n) : IsFiniteSet(s) /\ Cardinality(s) \in 0..n
  <2>1. IsFiniteSet(1..n) /\ Cardinality(1..n) = n
    BY FS_Interval
  <2>2. \A s \in SUBSET (1..n) : IsFiniteSet(s) /\ Cardinality(s) <= n
    BY <2>1, FS_Subset
  <2> QED
    BY <2>1, <2>2, FS_CardinalityType
<1>1. ASSUME T # {} PROVE FALSE
  <2>1. PICK m \in T : \A k \in T : m <= k
    <3>1. T \in SUBSET Nat
      OBVIOUS
    <3> HIDE DEF T
    <3> QED
      BY <1>1, <3>1, LeastNumber
  <2>2. m \in Nat /\ ~\E g : Pushes(g, found, user, Upto(m))
    BY <2>1
  <2>3. \E g : m # 0 => Pushes(g, found, user, Upto(m - 1))
    <3>1. CASE m # 0
      <4>1. m - 1 \in Nat
        BY <2>2, <3>1
      <4>2. m - 1 \notin T
        <5> HIDE DEF T
        <5> QED
          BY <2>1, <2>2, <4>1
      <4> QED
        BY <4>1, <4>2
    <3> QED
      BY <3>1
  <2>4. PICK g : m # 0 => Pushes(g, found, user, Upto(m - 1))
    BY <2>3
  <2> DEFINE f == [s \in Upto(m) |->
                     IF s = {} THEN <<>>
                     ELSE LET x == Max(s) IN
                       PushedOn(found, user, x,
                                IF Cardinality(s) = 1 THEN <<>> ELSE g[s \ {x}])]
  <2>5. ASSUME NEW s \in Upto(m), s # {}
        PROVE  f[s \ {Max(s)}] = IF Cardinality(s) = 1 THEN <<>> ELSE g[s \ {Max(s)}]
    <3> DEFINE x == Max(s)
               r == s \ {x}
    <3>1. x \in s
      BY <2>5, GreatestNumber
    <3>2. /\ r \in SUBSET (1..n) /\ IsFiniteSet(s)
          /\ Cardinality(r) = Cardinality(s) - 1 /\ Cardinality(s) \in Nat
      <4> HIDE DEF x
      <4> QED
        BY <1>0, <3>1, WithoutOne
    <3>3. m # 0 /\ r \in Upto(m - 1) /\ r \in Upto(m)
      <4>1. Cardinality(s) # 0
        BY <2>5, <3>2, FS_EmptySet
      <4> HIDE DEF x
      <4> QED
        BY <2>2, <3>2, <4>1
    <3>4. Cardinality(s) = 1 <=> r = {}
      <4> HIDE DEF x
      <4> QED
        BY <3>1, <3>2, WithoutOne
    <3>5. CASE r = {}
      BY <3>3, <3>4, <3>5
    <3>6. CASE r # {}
      <4> DEFINE y == Max(r)
                 q == r \ {y}
      <4>1. y \in r /\ Cardinality(r) \in Nat /\ IsFiniteSet(r)
        <5> HIDE DEF x
        <5>1. Max(r) \in r
          BY <3>2, <3>6, GreatestNumber
        <5> QED
          BY <1>0, <3>2, <5>1
      <4>2. g[r] = PushedOn(found, user, y, g[q])
        BY <2>4, <3>3, <3>6 DEF Pushes
      <4>3. Cardinality(r) = 1 => g[q] = <<>>
        <5>1. Cardinality(r) = 1 => q = {}
          <6> HIDE DEF r, y
          <6> QED
            BY <4>1, WithoutOne
        <5>2. {} \in Upto(m - 1)
          BY <2>2, <3>3, FS_EmptySet
        <5> QED
          BY <2>4, <3>3, <5>1, <5>2 DEF Pushes
      <4>4. f[r] = PushedOn(found, user, y, IF Cardinality(r) = 1 THEN <<>> ELSE g[q])
        BY <3>3, <3>6
      <4> HIDE DEF f, y, q
      <4>5. f[r] = g[r]
        BY <4>2, <4>3, <4>4
      <4> QED
        BY <3>4, <3>6, <4>5
    <3> QED
      BY <3>5, <3>6
  <2>6. f = [s \in Upto(m) |-> IF s = {} THEN <<>>
               ELSE LET x == Max(s) IN PushedOn(found, user, x, f[s \ {x}])]
    <3>1. ASSUME NEW s \in Upto(m)
          PROVE  f[s] = IF s = {} THEN <<>>
                        ELSE LET x == Max(s) IN PushedOn(found, user, x, f[s \ {x}])
      BY <2>5, <3>1
    <3>2. f = [s \in Upto(m) |-> f[s]]
      OBVIOUS
    <3> HIDE DEF f
    <3> QED
      BY <3>1, <3>2
  <2> HIDE DEF f
  <2>7. Pushes(f, found, user, Upto(m))
    BY <2>6 DEF Pushes
  <2> QED
    BY <2>2, <2>7
<1>2. n \notin T
  BY <1>1
<1>3. Upto(n) = SUBSET (1..n)
  BY <1>0
<1> QED
  BY <1>2, <1>3

\* The rows of a user are all pushed, each once where each was found once.
LEMMA PushedFacts ==
  ASSUME NEW R, NEW found \in Seq(R), NEW user,
         \A i, j \in DOMAIN found : found[i] = found[j] => i = j
  PROVE  /\ Pushed(found, user) \in Seq(R)
         /\ Range(Pushed(found, user)) = {row \in Range(found) : row.user = user}
         /\ \A i, j \in DOMAIN Pushed(found, user) :
              Pushed(found, user)[i] = Pushed(found, user)[j] => i = j
<1> DEFINE n == Len(found)
           g == CHOOSE f : Pushes(f, found, user, SUBSET DOMAIN found)
<1>1. n \in Nat /\ DOMAIN found = 1..n /\ \A i \in 1..n : found[i] \in R
  BY LenProperties, ElementOfSeq
<1>2. Pushes(g, found, user, SUBSET (1..n))
  BY <1>1, PushesExists
<1>3. Pushed(found, user) = g[1..n]
  BY <1>1 DEF Pushed, FoldLeft, MapThenFoldSet, Pushes, PushedOn
<1> HIDE DEF g
<1>4. g[{}] = <<>>
  BY <1>2 DEF Pushes
<1>5. ASSUME NEW m \in 1..n
      PROVE  g[1..m] = PushedOn(found, user, m, g[1..(m - 1)])
  <2>1. Max(1..m) = m
    <3>1. m \in Nat /\ m \in 1..m /\ 1..m \in SUBSET (1..m)
      BY <1>1
    <3>2. Max(1..m) \in 1..m /\ m <= Max(1..m)
      BY <3>1, GreatestNumber
    <3> QED
      BY <3>1, <3>2
  <2>2. (1..m) \ {m} = 1..(m - 1) /\ 1..m # {} /\ 1..m \in SUBSET (1..n)
    BY <1>1
  <2> QED
    BY <1>2, <2>1, <2>2 DEF Pushes
<1> DEFINE Good(m) ==
      /\ g[1..m] \in Seq(R)
      /\ Range(g[1..m]) = {row \in R : \E i \in 1..m : row = found[i] /\ row.user = user}
      /\ \A i, j \in DOMAIN g[1..m] : g[1..m][i] = g[1..m][j] => i = j
<1>6. Good(0)
  <2>1. g[1..0] = <<>>
    BY <1>4, 1..0 = {}
  <2>2. <<>> \in Seq(R) /\ DOMAIN <<>> = {}
    BY EmptySeq
  <2>3. Range(<<>>) = {}
    BY <2>2 DEF Range
  <2> QED
    BY <2>1, <2>2, <2>3
<1>7. ASSUME NEW m \in 1..n, Good(m - 1)
      PROVE  Good(m)
  <2> DEFINE old == g[1..(m - 1)]
             row == found[m]
  <2>1. /\ old \in Seq(R)
        /\ Range(old) = {r \in R : \E i \in 1..(m - 1) : r = found[i] /\ r.user = user}
        /\ \A i, j \in DOMAIN old : old[i] = old[j] => i = j
        /\ row \in R
    BY <1>1, <1>7
  <2>2. g[1..m] = IF row.user = user THEN Append(old, row) ELSE old
    BY <1>5 DEF PushedOn
  <2>3. row \notin Range(old)
    BY <1>1, <2>1
  <2> HIDE DEF old
  <2>4. CASE row.user # user
    <3>1. {r \in R : \E i \in 1..m : r = found[i] /\ r.user = user}
            = {r \in R : \E i \in 1..(m - 1) : r = found[i] /\ r.user = user}
      BY <1>1, <2>4
    <3> QED
      BY <2>1, <2>2, <2>4, <3>1
  <2>5. CASE row.user = user
    <3>1. /\ Append(old, row) \in Seq(R)
          /\ Len(old) \in Nat /\ DOMAIN old = 1..Len(old)
          /\ DOMAIN Append(old, row) = 1..(Len(old) + 1)
          /\ Append(old, row)[Len(old) + 1] = row
          /\ \A i \in 1..Len(old) : Append(old, row)[i] = old[i]
      BY <2>1, AppendProperties, LenProperties
    <3>2. Range(Append(old, row)) = Range(old) \cup {row}
      BY <3>1 DEF Range
    <3>3. {r \in R : \E i \in 1..m : r = found[i] /\ r.user = user}
            = {r \in R : \E i \in 1..(m - 1) : r = found[i] /\ r.user = user} \cup {row}
      BY <1>1, <2>1, <2>5
    <3>4. \A i, j \in DOMAIN Append(old, row) :
            Append(old, row)[i] = Append(old, row)[j] => i = j
      BY <2>1, <2>3, <3>1 DEF Range
    <3> QED
      BY <2>1, <2>2, <2>5, <3>1, <3>2, <3>3, <3>4
  <2> QED
    BY <2>4, <2>5
<1> DEFINE T == {m \in 0..n : ~Good(m)}
<1>8. ASSUME T # {} PROVE FALSE
  <2>1. PICK m \in T : \A k \in T : m <= k
    <3>1. T \in SUBSET Nat
      BY <1>1
    <3> HIDE DEF T
    <3> QED
      BY <1>8, <3>1, LeastNumber
  <2>2. m \in 0..n /\ ~Good(m)
    BY <2>1
  <2> HIDE DEF Good
  <2>3. m # 0 /\ m \in 1..n /\ m - 1 \in 0..n
    BY <1>1, <1>6, <2>2
  <2>4. Good(m - 1)
    BY <2>1, <2>3
  <2> QED
    BY <1>7, <2>2, <2>3, <2>4
<1>9. Good(n)
  <2> HIDE DEF Good
  <2> QED
    BY <1>1, <1>8
<1>10. Range(found) = {row \in R : \E i \in 1..n : row = found[i]}
  BY <1>1 DEF Range
<1>11. {row \in R : \E i \in 1..n : row = found[i] /\ row.user = user}
         = {row \in Range(found) : row.user = user}
  BY <1>10
<1> QED
  BY <1>3, <1>9, <1>11


-----------------------------------------------------------------------------
(* Rows and their orders *)

RowType == [id : Ids, user : Payers, created : 1..MaxCreated]

TableOK(t) ==
  /\ DOMAIN t \subseteq Ids
  /\ \A i \in DOMAIN t : t[i] \in RowType /\ t[i].id = i

LEMMA RowsCounted ==
  ASSUME NEW t, TableOK(t)
  PROVE  /\ IsFiniteSet(Rows(t)) /\ Rows(t) \subseteq RowType
         /\ Cardinality(Rows(t)) = Cardinality(DOMAIN t)
         /\ Cardinality(DOMAIN t) \in Nat /\ Cardinality(Ids) \in Nat
         /\ Cardinality(DOMAIN t) <= Cardinality(Ids)
<1> DEFINE f == [i \in DOMAIN t |-> t[i]]
<1>1. /\ IsFiniteSet(DOMAIN t) /\ Cardinality(DOMAIN t) <= Cardinality(Ids)
      /\ Cardinality(DOMAIN t) \in Nat /\ Cardinality(Ids) \in Nat
  BY ReadsAssumption, FS_Subset, FS_CardinalityType DEF TableOK
<1>2. f \in [DOMAIN t -> Rows(t)]
  BY DEF Rows
<1>3. \A i, j \in DOMAIN t : f[i] = f[j] => i = j
  BY DEF TableOK
<1>4. \A row \in Rows(t) : \E i \in DOMAIN t : f[i] = row
  BY DEF Rows
<1>5. f \in Bijection(DOMAIN t, Rows(t))
  BY <1>2, <1>3, <1>4 DEF Bijection, Injection, Surjection, IsInjective
<1>6. ExistsBijection(DOMAIN t, Rows(t))
  BY <1>5 DEF ExistsBijection
<1>7. Rows(t) \subseteq RowType
  BY DEF TableOK, Rows
<1> QED
  BY <1>1, <1>6, <1>7, FS_Bijection

\* A sequence of a set has all its members, each once.
LEMMA Enumerated ==
  ASSUME NEW S, IsFiniteSet(S), NEW s \in SetToSeqs(S)
  PROVE  /\ s \in Seq(S) /\ Len(s) = Cardinality(S) /\ Len(s) \in Nat
         /\ DOMAIN s = 1..Len(s) /\ Range(s) = S
         /\ \A i, j \in DOMAIN s : s[i] = s[j] => i = j
<1> DEFINE n == Cardinality(S)
<1>1. n \in Nat
  BY FS_CardinalityType
<1>2. s \in [1..n -> S] /\ \A i, j \in 1..n : s[i] = s[j] => i = j
  BY DEF SetToSeqs
<1>3. s \in Seq(S) /\ Len(s) = n
  BY <1>1, <1>2, LenProperties
<1>4. s \in Injection(1..n, S)
  BY <1>2 DEF Injection, IsInjective
<1>5. IsFiniteSet(1..n) /\ Cardinality(1..n) = n
  BY <1>1, FS_Interval
<1>6. s \in Surjection(1..n, S)
  BY <1>4, <1>5, FS_Injection
<1>7. Range(s) = S
  BY <1>2, <1>6 DEF Surjection, Range
<1> QED
  BY <1>1, <1>2, <1>3, <1>7

\* Sets of rows can be put in order of their creation.
LEMMA NewestFirstExists ==
  ASSUME NEW S, IsFiniteSet(S), \A row \in S : row.created \in Nat
  PROVE  NewestFirst(S) # {}
<1> DEFINE Stuck(m) == \E R \in SUBSET S : Cardinality(R) = m /\ NewestFirst(R) = {}
           T == {m \in Nat : Stuck(m)}
<1>0. \A R \in SUBSET S : IsFiniteSet(R) /\ Cardinality(R) \in Nat
  BY FS_Subset, FS_CardinalityType
<1>1. ASSUME T # {} PROVE FALSE
  <2>1. PICK m \in T : \A k \in T : m <= k
    <3>1. T \in SUBSET Nat
      OBVIOUS
    <3> HIDE DEF T
    <3> QED
      BY <1>1, <3>1, LeastNumber
  <2>2. PICK R \in SUBSET S : Cardinality(R) = m /\ NewestFirst(R) = {}
    BY <2>1
  <2>3. m \in Nat
    BY <2>1
  <2>4. R # {}
    <3>1. ASSUME R = {} PROVE FALSE
      <4>1. Cardinality({}) = 0 /\ 1..0 = {}
        BY FS_EmptySet
      <4> DEFINE e == [i \in 1..0 |-> 0]
      <4>2. e \in [1..0 -> {}] /\ DOMAIN e = {}
        BY <4>1
      <4>3. e \in SetToSeqs({})
        BY <4>1, <4>2 DEF SetToSeqs
      <4>4. e \in NewestFirst({})
        BY <4>2, <4>3 DEF NewestFirst
      <4> QED
        BY <2>2, <3>1, <4>4
    <3> QED
      BY <3>1
  <2>5. PICK last \in R : \A row \in R : row.created >= last.created
    <3> DEFINE Times == {row.created : row \in R}
    <3>1. Times \in SUBSET Nat /\ Times # {}
      BY <2>4
    <3>2. PICK time \in Times : \A k \in Times : time <= k
      <4> HIDE DEF Times
      <4> QED
        BY <3>1, LeastNumber
    <3> QED
      BY <3>2
  <2> DEFINE rest == R \ {last}
  <2>6. /\ rest \in SUBSET S /\ IsFiniteSet(rest)
        /\ Cardinality(rest) = m - 1 /\ m - 1 \in Nat
    BY <1>0, <2>2, <2>3, WithoutOne
  <2>7. PICK g : g \in NewestFirst(rest)
    <3>1. m - 1 \notin T
      <4> HIDE DEF T
      <4> QED
        BY <2>1, <2>3
    <3> QED
      BY <2>6, <3>1
  <2> HIDE DEF rest, Stuck, T
  <2>8. /\ g \in [1..(m - 1) -> rest]
        /\ \A i, j \in 1..(m - 1) : i # j => g[i] # g[j]
        /\ \A i, j \in 1..(m - 1) : i < j => g[i].created >= g[j].created
    BY <2>6, <2>7 DEF NewestFirst, SetToSeqs
  <2> DEFINE f == [i \in 1..m |-> IF i = m THEN last ELSE g[i]]
  <2>9. \A i \in 1..m : i # m => i \in 1..(m - 1) /\ f[i] = g[i] /\ g[i] \in rest
    BY <2>3, <2>8
  <2>10. f \in [1..m -> R] /\ (m \in 1..m => f[m] = last)
    BY <2>5, <2>9 DEF rest
  <2>11. \A i, j \in 1..m : i # j => f[i] # f[j]
    BY <2>8, <2>9, <2>10 DEF rest
  <2>12. \A i, j \in 1..m : i < j => f[i].created >= f[j].created
    <3>1. ASSUME NEW i \in 1..m, NEW j \in 1..m, i < j
          PROVE  f[i].created >= f[j].created
      <4>0. i # m
        BY <2>3, <3>1
      <4>1. CASE j = m
        BY <2>5, <2>9, <2>10, <4>0, <4>1 DEF rest
      <4>2. CASE j # m
        BY <2>8, <2>9, <3>1, <4>0, <4>2
      <4> QED
        BY <4>1, <4>2
    <3> QED
      BY <3>1
  <2>13. DOMAIN f = 1..m
    OBVIOUS
  <2> HIDE DEF f
  <2>14. f \in NewestFirst(R)
    BY <2>2, <2>10, <2>11, <2>12, <2>13 DEF NewestFirst, SetToSeqs
  <2> QED
    BY <2>2, <2>14
<1>2. Cardinality(S) \notin T
  BY <1>1
<1> QED
  BY <1>0, <1>2

\* The rows before one in the list are those created after it.
Newer(S, row) == {other \in S : other.created > row.created}

LEMMA PlaceIsRank ==
  ASSUME NEW S, IsFiniteSet(S), \A row \in S : row.created \in Nat,
         \A a, b \in S : a.created = b.created => a = b,
         NEW s \in NewestFirst(S), NEW i \in DOMAIN s
  PROVE  Cardinality(Newer(S, s[i])) = i - 1
<1>1. /\ s \in SetToSeqs(S)
      /\ \A j, k \in DOMAIN s : j < k => s[j].created >= s[k].created
  BY DEF NewestFirst
<1>2. /\ s \in Seq(S) /\ Len(s) \in Nat /\ DOMAIN s = 1..Len(s) /\ Range(s) = S
      /\ \A j, k \in DOMAIN s : s[j] = s[k] => j = k
  BY <1>1, Enumerated
<1>3. i \in 1..Len(s) /\ \A j \in 1..Len(s) : s[j] \in S
  BY <1>2, ElementOfSeq
<1> DEFINE f == [j \in 1..(i - 1) |-> s[j]]
<1>4. f \in [1..(i - 1) -> Newer(S, s[i])]
  <2>1. ASSUME NEW j \in 1..(i - 1)
        PROVE  s[j] \in Newer(S, s[i])
    <3>1. j \in 1..Len(s) /\ j < i
      BY <1>2, <1>3
    <3>2. s[j].created >= s[i].created /\ s[j] # s[i] /\ s[j] \in S /\ s[i] \in S
      BY <1>1, <1>2, <1>3, <3>1
    <3>3. s[j].created # s[i].created
      BY <3>2
    <3> QED
      BY <3>2, <3>3 DEF Newer
  <2> QED
    BY <2>1
<1>5. \A j, k \in 1..(i - 1) : f[j] = f[k] => j = k
  BY <1>2, <1>3
<1>6. \A row \in Newer(S, s[i]) : \E j \in 1..(i - 1) : f[j] = row
  <2>1. ASSUME NEW row \in Newer(S, s[i])
        PROVE  \E j \in 1..(i - 1) : f[j] = row
    <3>1. row \in S /\ row.created > s[i].created
      BY DEF Newer
    <3>2. PICK j \in 1..Len(s) : s[j] = row
      BY <1>2, <3>1 DEF Range
    <3>3. s[i].created \in Nat /\ row.created \in Nat
      BY <1>3, <3>1
    <3>4. ~(i < j) /\ i # j
      BY <1>1, <1>2, <1>3, <3>1, <3>2, <3>3
    <3>5. j \in 1..(i - 1)
      BY <1>3, <3>4
    <3> QED
      BY <3>2, <3>5
  <2> QED
    BY <2>1
<1>7. f \in Bijection(1..(i - 1), Newer(S, s[i]))
  BY <1>4, <1>5, <1>6 DEF Bijection, Injection, Surjection, IsInjective
<1>8. IsFiniteSet(1..(i - 1)) /\ Cardinality(1..(i - 1)) = i - 1
  <2>1. i - 1 \in Nat
    BY <1>2, <1>3
  <2> QED
    BY <2>1, UptoCounted
<1>9. ExistsBijection(1..(i - 1), Newer(S, s[i]))
  BY <1>7 DEF ExistsBijection
<1> QED
  BY <1>8, <1>9, FS_Bijection


-----------------------------------------------------------------------------
(* The loaders *)

\* What a loader may keep of a key is what the table said once.
Says(t, column, k, answer) ==
  IF column = "id" THEN answer = FindOne(t, k)
  ELSE \E s \in FindByUserId(t, k, Cardinality(Ids)) :
         Len(answer) = Len(s) /\ Range(answer) = Range(s)

\* A sequence without repetitions is as long as it has members.
LEMMA LengthCounts ==
  ASSUME NEW R, NEW s \in Seq(R), \A i, j \in DOMAIN s : s[i] = s[j] => i = j
  PROVE  Len(s) = Cardinality(Range(s))
<1>1. Len(s) \in Nat /\ DOMAIN s = 1..Len(s)
  BY LenProperties
<1>2. IsFiniteSet(1..Len(s)) /\ Cardinality(1..Len(s)) = Len(s)
  BY <1>1, UptoCounted
<1> DEFINE f == [i \in 1..Len(s) |-> s[i]]
<1>3. f \in [1..Len(s) -> Range(s)]
  BY <1>1 DEF Range
<1>4. \A i, j \in 1..Len(s) : f[i] = f[j] => i = j
  BY <1>1
<1>5. \A x \in Range(s) : \E i \in 1..Len(s) : f[i] = x
  BY <1>1 DEF Range
<1>6. f \in Bijection(1..Len(s), Range(s))
  BY <1>3, <1>4, <1>5 DEF Bijection, Injection, Surjection, IsInjective
<1>7. ExistsBijection(1..Len(s), Range(s))
  BY <1>6 DEF ExistsBijection
<1> QED
  BY <1>2, <1>7, FS_Bijection

\* The answer to a key of a batch is what the table says of it.
LEMMA BatchAnswers ==
  ASSUME TableOK(table), loader.column \in {"id", "user"}, NEW keys,
         NEW found \in Unordered(RowsOf(table, loader.column, Range(keys))),
         NEW i \in DOMAIN keys
  PROVE  Says(table, loader.column, keys[i], BatchLoad(found, keys)[i])
<1> DEFINE k == keys[i]
           S == RowsOf(table, loader.column, Range(keys))
<1>1. k \in Range(keys)
  BY DEF Range
<1>2. S \subseteq Rows(table) /\ IsFiniteSet(S)
  BY RowsCounted, FS_Subset DEF RowsOf
<1>3. /\ found \in Seq(S) /\ DOMAIN found = 1..Len(found) /\ Range(found) = S
      /\ \A a, b \in DOMAIN found : found[a] = found[b] => a = b
  BY <1>2, Enumerated DEF Unordered
<1>4. CASE loader.column = "id"
  <2>1. S = {row \in Rows(table) : row.id \in Range(keys)}
    BY <1>4 DEF RowsOf
  <2>2. \A j \in DOMAIN found : found[j] \in Rows(table)
    BY <1>2, <1>3 DEF Range
  <2>3. \A j \in DOMAIN found : found[j].id = k => k \in DOMAIN table /\ found[j] = table[k]
    BY <2>2 DEF Rows, TableOK
  <2>4. k \in DOMAIN table => \E j \in DOMAIN found : found[j].id = k
    <3>1. ASSUME k \in DOMAIN table PROVE \E j \in DOMAIN found : found[j].id = k
      <4>1. table[k] \in S /\ table[k].id = k
        BY <1>1, <2>1, <3>1 DEF Rows, TableOK
      <4> QED
        BY <1>3, <4>1 DEF Range
    <3> QED
      BY <3>1
  <2> DEFINE named == {j \in DOMAIN found : found[j].id = k}
  <2>5. BatchLoad(found, keys)[i] =
          IF named = {} THEN NotFound ELSE <<found[CHOOSE j \in named : TRUE]>>
    BY <1>4 DEF BatchLoad, OneEach
  <2>6. CASE named = {}
    BY <1>4, <2>4, <2>5, <2>6 DEF Says, FindOne
  <2>7. CASE named # {}
    <3>1. (CHOOSE j \in named : TRUE) \in named
      BY <2>7
    <3>2. k \in DOMAIN table /\ found[CHOOSE j \in named : TRUE] = table[k]
      BY <2>3, <3>1
    <3> HIDE DEF named
    <3> QED
      BY <1>4, <2>5, <2>7, <3>2 DEF Says, FindOne
  <2> QED
    BY <2>6, <2>7
<1>5. CASE loader.column = "user"
  <2> DEFINE answer == Pushed(found, k)
             mine == RowsOf(table, "user", {k})
  <2>1. BatchLoad(found, keys)[i] = answer
    BY <1>5 DEF BatchLoad, ListEach
  <2>2. /\ answer \in Seq(S) /\ Range(answer) = {row \in Range(found) : row.user = k}
        /\ \A a, b \in DOMAIN answer : answer[a] = answer[b] => a = b
    <3> HIDE DEF S
    <3> QED
      BY <1>3, PushedFacts
  <2>3. /\ mine = {row \in Rows(table) : row.user = k}
        /\ S = {row \in Rows(table) : row.user \in Range(keys)}
    BY <1>5 DEF RowsOf
  <2>4. Range(answer) = mine
    <3>1. Range(found) = S
      BY <1>3
    <3> HIDE DEF answer, mine, S, k
    <3>2. \A row : row \in Range(answer) <=> row \in S /\ row.user = k
      BY <2>2, <3>1
    <3>3. \A row : row \in mine <=> row \in S /\ row.user = k
      BY <1>1, <2>3
    <3> QED
      BY <3>2, <3>3
  <2> HIDE DEF answer, S
  <2>5. Len(answer) = Cardinality(mine)
    BY <2>2, <2>4, LengthCounts
  <2>6. /\ IsFiniteSet(mine) /\ Cardinality(mine) <= Cardinality(Ids)
        /\ \A row \in mine : row.created \in Nat
        /\ Cardinality(mine) \in Nat /\ Cardinality(Ids) \in Nat
    <3>1. mine \in SUBSET Rows(table)
      BY <2>3
    <3>2. IsFiniteSet(mine) /\ Cardinality(mine) <= Cardinality(Rows(table))
      BY <3>1, RowsCounted, FS_Subset
    <3>3. Cardinality(mine) \in Nat
      BY <3>2, FS_CardinalityType
    <3>4. \A row \in Rows(table) : row.created \in Nat
      BY RowsCounted DEF RowType
    <3>5. /\ Cardinality(Rows(table)) <= Cardinality(Ids)
          /\ Cardinality(Rows(table)) \in Nat /\ Cardinality(Ids) \in Nat
      BY RowsCounted
    <3> HIDE DEF mine
    <3>6. \A row \in mine : row.created \in Nat
      BY <3>1, <3>4
    <3> QED
      BY <3>2, <3>3, <3>5, <3>6
  <2> HIDE DEF mine
  <2>7. PICK s : s \in NewestFirst(mine)
    BY <2>6, NewestFirstExists
  <2>8. s \in Seq(mine) /\ Len(s) = Cardinality(mine) /\ Range(s) = mine
    BY <2>6, <2>7, Enumerated DEF NewestFirst
  <2>9. Take(s, 0, Cardinality(Ids)) = s
    <3>1. Take(s, 0, Cardinality(Ids)) = SubSeq(s, 1, Len(s))
      BY <2>6, <2>8 DEF Take
    <3>2. SubSeq(s, 1, Len(s)) = s
      BY <2>6, <2>8
    <3> QED
      BY <3>1, <3>2
  <2>10. s \in FindByUserId(table, k, Cardinality(Ids))
    BY <2>7, <2>9 DEF FindByUserId, mine
  <2> QED
    BY <1>5, <2>1, <2>4, <2>5, <2>8, <2>10 DEF Says
<1> QED
  BY <1>4, <1>5

-----------------------------------------------------------------------------
(* The inductive invariant *)

\* A loader has its column and the table as it is among those there were; what
\* it keeps settled the table said once.
LoadersInv ==
  /\ loader = [column |-> loader.column, queue |-> loader.queue,
               batches |-> loader.batches, cache |-> loader.cache]
  /\ loader.cache = [k \in DOMAIN loader.cache |-> loader.cache[k]]
  /\ loader = NoLoader \/ (loader.column \in {"id", "user"} /\ table \in since)
  /\ \A k \in DOMAIN loader.cache : loader.cache[k].state = "settled" =>
       \E t \in since : Says(t, loader.column, k, loader.cache[k].answer)

Distinct(S) == \A a, b \in S : a.created = b.created => a = b

PagerTypes ==
  /\ pager.pc = "reading" => pager.page > 0
  /\ pager \in [pc : {"idle", "reading", "done"}, page : Nat, found : BOOLEAN,
                rows : Seq(RowType), total : Nat \cup {NotCounted},
                seen : SUBSET RowType, expected : SUBSET RowType, calm : BOOLEAN]

\* The rows expected that rank before place are among those of seen.
SeenTo(place, seen) ==
  \A row \in pager.expected : Cardinality(Newer(Rows(table), row)) < place => row \in seen

\* A reader that was not disturbed has seen what ranks before its page, and what
\* a page that is found ranks; when that page has no more behind it, all.
PagesInv ==
  pager.pc = "reading" /\ pager.calm /\ Distinct(pager.expected) =>
    /\ pager.expected \subseteq Rows(table) /\ Distinct(Rows(table))
    /\ SeenTo(Skip(pager.page), pager.seen)
    /\ pager.found => SeenTo(Skip(pager.page) + PageSize, pager.seen \cup Range(pager.rows))
    /\ pager.found /\ pager.total # NotCounted /\ ~HasMore =>
         pager.expected \subseteq pager.seen \cup Range(pager.rows)
    /\ pager.found => Len(pager.rows) <= PageSize
    /\ ~pager.found /\ pager.total # NotCounted => pager.total = Cardinality(DOMAIN table)

ReadsInv == TableOK(table) /\ LoadersInv /\ PagerTypes /\ PagesInv /\ PagesCover

-----------------------------------------------------------------------------
(* The loaders keep it *)

LEMMA LoaderAlone ==
  ASSUME LoadersInv, UNCHANGED <<table, loader, since>>
  PROVE  LoadersInv'
BY DEF LoadersInv

LEMMA PagerAlone ==
  ASSUME PagerTypes, PagesInv, PagesCover, TableOK(table), UNCHANGED <<table, pager>>
  PROVE  TableOK(table)' /\ PagerTypes' /\ PagesInv' /\ PagesCover'
<1>1. TableOK(table)'
  BY DEF TableOK
<1>2. PagerTypes'
  BY DEF PagerTypes
<1>3. PagesInv'
  BY DEF PagesInv, SeenTo, HasMore
<1>4. PagesCover'
  BY DEF PagesCover
<1> QED
  BY <1>1, <1>2, <1>3, <1>4

LEMMA CreateStep ==
  ASSUME NEW name \in DOMAIN Loaders, CreateLoader(name)
  PROVE  LoadersInv'
<1>1. Loaders[name] \in {"id", "user"}
  BY DEF Loaders
<1> DEFINE none == [k \in Keys(Loaders[name]) |-> Nothing]
<1>2. loader' = [column |-> Loaders[name], queue |-> <<>>, batches |-> {}, cache |-> none]
  BY DEF CreateLoader, NoLoader
<1>3. table' \in since'
  BY DEF CreateLoader
<1>4. \A k \in DOMAIN loader'.cache : loader'.cache[k].state = "nothing"
  BY <1>2 DEF Nothing
<1> QED
  BY <1>1, <1>2, <1>3, <1>4 DEF LoadersInv

LEMMA LoadStep ==
  ASSUME LoadersInv, NEW key, Load(key)
  PROVE  LoadersInv'
<1>1. /\ key \in DOMAIN loader.cache
      /\ loader' = [loader EXCEPT !.queue = Append(@, key), !.cache[key] = Pending]
      /\ UNCHANGED <<table, since>>
  BY DEF Load
<1>2. loader.column \in {"id", "user"} /\ table \in since
  BY <1>1 DEF LoadersInv, NoLoader
<1> DEFINE cache == [k \in DOMAIN loader.cache |-> IF k = key THEN Pending ELSE loader.cache[k]]
<1>3. loader' = [column |-> loader.column, queue |-> Append(loader.queue, key),
                 batches |-> loader.batches, cache |-> cache]
  BY <1>1 DEF LoadersInv
<1>4. \A k \in DOMAIN cache : cache[k].state = "settled" =>
        \E t \in since : Says(t, loader.column, k, cache[k].answer)
  BY DEF LoadersInv, Pending
<1>5. cache = [k \in DOMAIN cache |-> cache[k]]
  OBVIOUS
<1> HIDE DEF cache
<1>6. /\ loader' = [column |-> loader'.column, queue |-> loader'.queue,
                    batches |-> loader'.batches, cache |-> loader'.cache]
      /\ loader'.column = loader.column /\ loader'.cache = cache
  BY <1>3
<1> QED
  BY <1>1, <1>2, <1>4, <1>5, <1>6 DEF LoadersInv

LEMMA DispatchStep ==
  ASSUME LoadersInv, Dispatch
  PROVE  LoadersInv'
<1>1. /\ loader.queue # <<>>
      /\ loader' = [loader EXCEPT !.queue = <<>>, !.batches = @ \cup {loader.queue}]
      /\ UNCHANGED <<table, since>>
  BY DEF Dispatch
<1>2. loader.column \in {"id", "user"} /\ table \in since
  BY <1>1 DEF LoadersInv, NoLoader
<1>3. loader' = [column |-> loader.column, queue |-> <<>>,
                 batches |-> loader.batches \cup {loader.queue}, cache |-> loader.cache]
  BY <1>1 DEF LoadersInv
<1> QED
  BY <1>1, <1>2, <1>3 DEF LoadersInv

\* A batch settles to what the table says, or its keys are forgotten.
LEMMA SettleStep ==
  ASSUME LoadersInv, NEW keys \in loader.batches, NEW answers, Settle(keys, answers),
         \A i \in DOMAIN keys :
           answers[i].state = "settled" => Says(table, loader.column, keys[i], answers[i].answer)
  PROVE  LoadersInv'
<1> DEFINE place(k) == CHOOSE i \in DOMAIN keys : keys[i] = k
           cache == [k \in DOMAIN loader.cache |->
                       IF k \in Range(keys) THEN answers[place(k)] ELSE loader.cache[k]]
<1>1. loader.column \in {"id", "user"} /\ table \in since
  BY DEF LoadersInv, NoLoader
<1>2. loader' = [column |-> loader.column, queue |-> loader.queue,
                 batches |-> loader.batches \ {keys}, cache |-> cache]
  BY DEF LoadersInv, Settle
<1>3. UNCHANGED <<table, since>>
  BY DEF Settle
<1>4. \A k \in Range(keys) : place(k) \in DOMAIN keys /\ keys[place(k)] = k
  BY DEF Range
<1>5. ASSUME NEW k \in DOMAIN cache, cache[k].state = "settled"
      PROVE  \E t \in since : Says(t, loader.column, k, cache[k].answer)
  <2>1. CASE k \in Range(keys)
    <3>1. cache[k] = answers[place(k)]
      BY <2>1
    <3> HIDE DEF cache, place
    <3> QED
      BY <1>1, <1>4, <1>5, <2>1, <3>1
  <2>2. CASE k \notin Range(keys)
    BY <1>5, <2>2 DEF LoadersInv
  <2> QED
    BY <2>1, <2>2
<1>6. cache = [k \in DOMAIN cache |-> cache[k]]
  OBVIOUS
<1> HIDE DEF cache
<1> QED
  BY <1>1, <1>2, <1>3, <1>5, <1>6 DEF LoadersInv

LEMMA BatchStep ==
  ASSUME LoadersInv, TableOK(table), NEW keys \in loader.batches,
         AnswerBatch(keys) \/ FailBatch(keys)
  PROVE  LoadersInv'
<1>1. CASE AnswerBatch(keys)
  <2>1. PICK found \in Unordered(RowsOf(table, loader.column, Range(keys))) :
          Settle(keys, [i \in DOMAIN keys |-> Settled(BatchLoad(found, keys)[i])])
    BY <1>1 DEF AnswerBatch
  <2> DEFINE answers == [i \in DOMAIN keys |-> Settled(BatchLoad(found, keys)[i])]
  <2>2. loader.column \in {"id", "user"}
    BY DEF LoadersInv, NoLoader
  <2>3. ASSUME NEW i \in DOMAIN keys
        PROVE  Says(table, loader.column, keys[i], answers[i].answer)
    <3>1. answers[i].answer = BatchLoad(found, keys)[i]
      BY DEF Settled
    <3> HIDE DEF answers
    <3> QED
      BY <2>2, <3>1, BatchAnswers
  <2> HIDE DEF answers
  <2> QED
    BY <2>1, <2>3, SettleStep DEF answers
<1>2. CASE FailBatch(keys)
  <2> DEFINE answers == [i \in DOMAIN keys |-> Nothing]
  <2>1. \A i \in DOMAIN keys : answers[i].state # "settled"
    BY DEF Nothing
  <2>2. Settle(keys, answers)
    BY <1>2 DEF FailBatch
  <2> HIDE DEF answers
  <2> QED
    BY <2>1, <2>2, SettleStep
<1> QED
  BY <1>1, <1>2

-----------------------------------------------------------------------------
(* The pages keep it *)

\* A page has the rows that rank from its first place to its last.
LEMMA PageHolds ==
  ASSUME TableOK(table), NEW s \in NewestFirst(Rows(table)), NEW skip \in Nat
  PROVE  /\ Take(s, skip, PageSize) \in Seq(RowType)
         /\ Len(Take(s, skip, PageSize)) <= PageSize
         /\ Distinct(Rows(table)) =>
              \A row \in Rows(table) :
                /\ skip <= Cardinality(Newer(Rows(table), row))
                /\ Cardinality(Newer(Rows(table), row)) < skip + PageSize
                => row \in Range(Take(s, skip, PageSize))
<1> DEFINE S == Rows(table)
           last == IF skip + PageSize < Len(s) THEN skip + PageSize ELSE Len(s)
           page == Take(s, skip, PageSize)
<1>1. IsFiniteSet(S) /\ S \subseteq RowType /\ \A row \in S : row.created \in Nat
  BY RowsCounted DEF RowType
<1>2. /\ s \in Seq(S) /\ Len(s) \in Nat /\ DOMAIN s = 1..Len(s) /\ Range(s) = S
  BY <1>1, Enumerated DEF NewestFirst
<1>3. PageSize \in Nat \ {0}
  BY ReadsAssumption
<1>4. /\ last \in Int /\ last <= Len(s) /\ last <= skip + PageSize
      /\ page = SubSeq(s, skip + 1, last)
  BY <1>2, <1>3 DEF Take
<1>5. \A i \in 1..Len(s) : s[i] \in S
  BY <1>2, ElementOfSeq
<1>6. \A i \in (skip + 1)..last : s[i] \in RowType
  <2> HIDE DEF last, S
  <2> QED
    BY <1>1, <1>4, <1>5
<1> HIDE DEF last, page
<1>7. /\ page \in Seq(RowType)
      /\ Len(page) = IF skip + 1 <= last THEN last - (skip + 1) + 1 ELSE 0
      /\ \A i \in 1..(last - (skip + 1) + 1) : page[i] = s[(skip + 1) + i - 1]
  BY <1>4, <1>6, SubSeqProperties
<1>8. Len(page) <= PageSize
  BY <1>3, <1>4, <1>7
<1>9. ASSUME Distinct(S), NEW row \in S,
             skip <= Cardinality(Newer(S, row)), Cardinality(Newer(S, row)) < skip + PageSize
      PROVE  row \in Range(page)
  <2>1. PICK i \in 1..Len(s) : s[i] = row
    BY <1>2 DEF Range
  <2>2. Cardinality(Newer(S, row)) = i - 1
    <3>1. i \in DOMAIN s
      BY <1>2
    <3> HIDE DEF S
    <3>2. \A a, b \in S : a.created = b.created => a = b
      BY <1>9 DEF Distinct
    <3>3. s \in NewestFirst(S)
      BY DEF S
    <3> QED
      BY <1>1, <2>1, <3>1, <3>2, <3>3, PlaceIsRank
  <2>3. skip <= i - 1 /\ i - 1 < skip + PageSize
    BY <1>9, <2>2
  <2>4. i <= last
    BY <1>2, <1>3, <2>1, <2>3 DEF last
  <2>5. /\ i - skip \in 1..(last - (skip + 1) + 1)
        /\ (skip + 1) + (i - skip) - 1 = i
    BY <1>4, <2>1, <2>3, <2>4
  <2>6. page[i - skip] = row
    BY <1>7, <2>1, <2>5
  <2>7. i - skip \in 1..Len(page) /\ Len(page) \in Nat
    BY <1>4, <1>7, <2>5
  <2>8. DOMAIN page = 1..Len(page)
    BY <1>7, LenProperties
  <2> QED
    BY <2>6, <2>7, <2>8 DEF Range
<1> QED
  BY <1>7, <1>8, <1>9 DEF page

\* No row ranks behind the number of the rows.
LEMMA RanksCounted ==
  ASSUME NEW t, TableOK(t), NEW row \in Rows(t)
  PROVE  /\ Cardinality(Newer(Rows(t), row)) \in Nat
         /\ Cardinality(Newer(Rows(t), row)) < Cardinality(DOMAIN t)
<1>1. /\ IsFiniteSet(Rows(t)) /\ Cardinality(Rows(t)) = Cardinality(DOMAIN t)
      /\ row.created \in Nat
  BY RowsCounted DEF RowType
<1>2. /\ IsFiniteSet(Rows(t) \ {row}) /\ Cardinality(Rows(t)) \in Nat
      /\ Cardinality(Rows(t) \ {row}) = Cardinality(Rows(t)) - 1
  BY <1>1, WithoutOne
<1>3. Newer(Rows(t), row) \in SUBSET (Rows(t) \ {row})
  BY <1>1 DEF Newer
<1>4. /\ IsFiniteSet(Newer(Rows(t), row))
      /\ Cardinality(Newer(Rows(t), row)) <= Cardinality(Rows(t) \ {row})
  BY <1>2, <1>3, FS_Subset
<1>5. Cardinality(Newer(Rows(t), row)) \in Nat
  BY <1>4, FS_CardinalityType
<1> QED
  BY <1>1, <1>2, <1>4, <1>5

LEMMA SkipHolds ==
  ASSUME NEW page \in Nat, page > 0
  PROVE  Skip(page) \in Nat /\ Skip(page + 1) = Skip(page) + PageSize /\ Skip(1) = 0
<1>1. PageSize \in Nat
  BY ReadsAssumption
<1>2. page - 1 \in Nat
  OBVIOUS
<1>3. \A a, b \in Nat : a * b \in Nat /\ (a + 1) * b = a * b + b
  OBVIOUS
<1>4. (page - 1) * PageSize \in Nat /\ ((page - 1) + 1) * PageSize = (page - 1) * PageSize + PageSize
  BY <1>1, <1>2, <1>3
<1>5. (page + 1) - 1 = (page - 1) + 1 /\ (1 - 1) * PageSize = 0
  BY <1>1
<1> QED
  BY <1>4, <1>5 DEF Skip

\* Rows that only grow push the older ones back.
LEMMA RanksGrow ==
  ASSUME NEW t, TableOK(t), NEW S \in SUBSET Rows(t), NEW row \in S
  PROVE  Cardinality(Newer(S, row)) <= Cardinality(Newer(Rows(t), row))
<1>1. IsFiniteSet(Rows(t)) /\ Newer(Rows(t), row) \in SUBSET Rows(t)
  BY RowsCounted DEF Newer
<1>2. IsFiniteSet(Newer(Rows(t), row))
  BY <1>1, FS_Subset
<1>3. Newer(S, row) \in SUBSET Newer(Rows(t), row)
  BY DEF Newer
<1> QED
  BY <1>2, <1>3, FS_Subset

LEMMA AskStep ==
  ASSUME TableOK(table), PagerTypes, AskForPages
  PROVE  PagerTypes' /\ PagesInv' /\ PagesCover'
<1>1. pager' = [pc |-> "reading", page |-> 1, found |-> FALSE, rows |-> <<>>,
                total |-> NotCounted, seen |-> {}, expected |-> Rows(table), calm |-> TRUE]
  BY DEF AskForPages, NoPager
<1>2. UNCHANGED table
  BY DEF AskForPages
<1>3. Rows(table) \in SUBSET RowType /\ <<>> \in Seq(RowType)
  BY RowsCounted, EmptySeq
<1>4. PagerTypes'
  BY <1>1, <1>3 DEF PagerTypes
<1>5. Skip(1) = 0
  BY SkipHolds
<1>6. SeenTo(Skip(pager.page), pager.seen)'
  <2>1. \A row \in Rows(table) : ~(Cardinality(Newer(Rows(table), row)) < 0)
    BY RanksCounted
  <2>2. pager'.expected = Rows(table) /\ pager'.page = 1
    BY <1>1
  <2> QED
    BY <1>2, <1>5, <2>1, <2>2 DEF SeenTo
<1>7. PagesInv'
  BY <1>1, <1>2, <1>6 DEF PagesInv
<1>8. PagesCover'
  BY <1>1 DEF PagesCover
<1> QED
  BY <1>4, <1>7, <1>8

\* When the page that is found is the last, it leaves nothing expected unseen.
LEMMA LastPage ==
  ASSUME TableOK(table), PagesInv, PagerTypes, pager.expected \subseteq Rows(table),
         NEW seen, pager.pc = "reading",
         SeenTo(Skip(pager.page) + PageSize, seen),
         NEW length \in Nat, length <= PageSize,
         ~(Skip(pager.page) + length < Cardinality(DOMAIN table))
  PROVE  pager.expected \subseteq seen
<1>1. ASSUME NEW row \in pager.expected PROVE row \in seen
  <2>1. /\ Cardinality(Newer(Rows(table), row)) \in Nat
        /\ Cardinality(Newer(Rows(table), row)) < Cardinality(DOMAIN table)
    BY RanksCounted
  <2>2. Skip(pager.page) \in Nat /\ PageSize \in Nat
    BY SkipHolds, ReadsAssumption DEF PagerTypes
  <2>3. Cardinality(DOMAIN table) \in Nat
    BY RowsCounted
  <2>4. Cardinality(Newer(Rows(table), row)) < Skip(pager.page) + PageSize
    BY <2>1, <2>2, <2>3
  <2> QED
    BY <2>4 DEF SeenTo
<1> QED
  BY <1>1

LEMMA FindStep ==
  ASSUME TableOK(table), PagerTypes, PagesInv, FindPage
  PROVE  PagerTypes' /\ PagesInv' /\ PagesCover'
<1>1. pager.pc = "reading" /\ ~pager.found /\ UNCHANGED table
  BY DEF FindPage
<1>2. PICK s \in NewestFirst(Rows(table)) :
        pager' = [pager EXCEPT !.found = TRUE, !.rows = Take(s, Skip(pager.page), PageSize)]
  BY DEF FindPage
<1> DEFINE rows == Take(s, Skip(pager.page), PageSize)
           skip == Skip(pager.page)
<1>3. skip \in Nat
  BY <1>1, SkipHolds DEF PagerTypes
<1>4. /\ rows \in Seq(RowType) /\ Len(rows) <= PageSize
      /\ Distinct(Rows(table)) =>
           \A row \in Rows(table) :
             /\ skip <= Cardinality(Newer(Rows(table), row))
             /\ Cardinality(Newer(Rows(table), row)) < skip + PageSize
             => row \in Range(rows)
  BY <1>2, <1>3, PageHolds
<1>5. Len(rows) \in Nat
  BY <1>4, LenProperties
<1> HIDE DEF rows
<1>6. pager' = [pager EXCEPT !.found = TRUE, !.rows = rows]
  BY <1>2 DEF rows
<1>7. PagerTypes'
  BY <1>1, <1>4, <1>6 DEF PagerTypes
<1>8. /\ pager'.pc = "reading" /\ pager'.calm = pager.calm /\ pager'.page = pager.page
      /\ pager'.expected = pager.expected /\ pager'.seen = pager.seen
      /\ pager'.total = pager.total /\ pager'.rows = rows /\ pager'.found = TRUE
  BY <1>1, <1>6 DEF PagerTypes
<1>9. PagesCover'
  BY <1>8 DEF PagesCover
<1>10. ASSUME pager.calm, Distinct(pager.expected)
       PROVE  /\ SeenTo(Skip(pager.page), pager.seen)'
              /\ SeenTo(Skip(pager.page) + PageSize, pager.seen \cup Range(pager.rows))'
              /\ pager.total # NotCounted /\ ~(Skip(pager.page) + Len(rows) < pager.total) =>
                   pager.expected \subseteq pager.seen \cup Range(rows)
              /\ pager.expected \subseteq Rows(table) /\ Distinct(Rows(table))
  <2>1. /\ pager.expected \subseteq Rows(table) /\ Distinct(Rows(table))
        /\ SeenTo(skip, pager.seen)
        /\ pager.total # NotCounted => pager.total = Cardinality(DOMAIN table)
    BY <1>1, <1>10 DEF PagesInv
  <2>2. SeenTo(skip + PageSize, pager.seen \cup Range(rows))
    <3>1. ASSUME NEW row \in pager.expected,
                 Cardinality(Newer(Rows(table), row)) < skip + PageSize
          PROVE  row \in pager.seen \cup Range(rows)
      <4>1. Cardinality(Newer(Rows(table), row)) \in Nat
        BY <2>1, RanksCounted
      <4>2. CASE Cardinality(Newer(Rows(table), row)) < skip
        BY <2>1, <4>2 DEF SeenTo
      <4>3. CASE skip <= Cardinality(Newer(Rows(table), row))
        BY <1>4, <2>1, <3>1, <4>3
      <4> HIDE DEF skip
      <4> QED
        BY <1>3, <4>1, <4>2, <4>3
    <3> QED
      BY <3>1 DEF SeenTo
  <2>3. pager.total # NotCounted /\ ~(skip + Len(rows) < pager.total) =>
          pager.expected \subseteq pager.seen \cup Range(rows)
    BY <1>1, <1>4, <1>5, <2>1, <2>2, LastPage
  <2> QED
    BY <1>1, <1>8, <2>1, <2>2, <2>3 DEF SeenTo
<1>11. PagesInv'
  BY <1>1, <1>4, <1>8, <1>10 DEF PagesInv, HasMore
<1> QED
  BY <1>7, <1>9, <1>11

LEMMA CountStep ==
  ASSUME TableOK(table), PagerTypes, PagesInv, CountRows
  PROVE  PagerTypes' /\ PagesInv' /\ PagesCover'
<1>1. /\ pager.pc = "reading" /\ pager.total = NotCounted /\ UNCHANGED table
      /\ pager' = [pager EXCEPT !.total = Cardinality(DOMAIN table)]
  BY DEF CountRows
<1>2. Cardinality(DOMAIN table) \in Nat
  BY RowsCounted
<1>3. PagerTypes'
  BY <1>1, <1>2 DEF PagerTypes
<1>4. /\ pager'.pc = "reading" /\ pager'.calm = pager.calm /\ pager'.page = pager.page
      /\ pager'.expected = pager.expected /\ pager'.seen = pager.seen
      /\ pager'.rows = pager.rows /\ pager'.found = pager.found
      /\ pager'.total = Cardinality(DOMAIN table)
  BY <1>1 DEF PagerTypes
<1>5. PagesCover'
  BY <1>4 DEF PagesCover
<1>6. ASSUME pager.calm, Distinct(pager.expected), pager.found,
             ~(Skip(pager.page) + Len(pager.rows) < Cardinality(DOMAIN table))
      PROVE  pager.expected \subseteq pager.seen \cup Range(pager.rows)
  <2>1. /\ pager.expected \subseteq Rows(table) /\ Len(pager.rows) <= PageSize
        /\ SeenTo(Skip(pager.page) + PageSize, pager.seen \cup Range(pager.rows))
    BY <1>1, <1>6 DEF PagesInv
  <2>2. Len(pager.rows) \in Nat
    BY LenProperties DEF PagerTypes
  <2> QED
    BY <1>1, <1>6, <2>1, <2>2, LastPage
<1>7. PagesInv'
  BY <1>1, <1>4, <1>6 DEF PagesInv, HasMore, SeenTo
<1> QED
  BY <1>3, <1>5, <1>7

LEMMA AnswerStep ==
  ASSUME TableOK(table), PagerTypes, PagesInv, AnswerPage
  PROVE  PagerTypes' /\ PagesInv' /\ PagesCover'
<1>1. /\ pager.pc = "reading" /\ pager.found /\ pager.total # NotCounted /\ UNCHANGED table
      /\ pager' = [pager EXCEPT
           !.seen = @ \cup Range(pager.rows), !.found = FALSE, !.rows = <<>>,
           !.total = NotCounted, !.pc = IF HasMore THEN "reading" ELSE "done",
           !.page = IF HasMore THEN @ + 1 ELSE @]
  BY DEF AnswerPage
<1>2. /\ pager'.pc = (IF HasMore THEN "reading" ELSE "done")
      /\ pager'.page = (IF HasMore THEN pager.page + 1 ELSE pager.page)
      /\ pager'.calm = pager.calm /\ pager'.expected = pager.expected
      /\ pager'.seen = pager.seen \cup Range(pager.rows)
      /\ pager'.rows = <<>> /\ pager'.found = FALSE /\ pager'.total = NotCounted
  BY <1>1 DEF PagerTypes
<1>3. Range(pager.rows) \in SUBSET RowType /\ <<>> \in Seq(RowType)
  <2>1. \A i \in DOMAIN pager.rows : pager.rows[i] \in RowType
    BY LenProperties, ElementOfSeq DEF PagerTypes
  <2> QED
    BY <2>1, EmptySeq DEF Range
<1>4. PagerTypes'
  <2>1. pager'.seen \in SUBSET RowType /\ pager.page \in Nat /\ pager.page > 0
    BY <1>1, <1>2, <1>3 DEF PagerTypes
  <2>2. PICK pc \in {"reading", "done"}, page \in Nat, seen \in SUBSET RowType :
          /\ page > 0
          /\ pager' = [pager EXCEPT !.seen = seen, !.found = FALSE, !.rows = <<>>,
                                   !.total = NotCounted, !.pc = pc, !.page = page]
    <3>1. CASE HasMore
      <4>1. pager' = [pager EXCEPT !.seen = pager'.seen, !.found = FALSE, !.rows = <<>>,
                        !.total = NotCounted, !.pc = "reading", !.page = pager.page + 1]
        BY <1>1, <1>2, <3>1
      <4>2. pager.page + 1 \in Nat /\ pager.page + 1 > 0
        BY <2>1
      <4> QED
        BY <2>1, <4>1, <4>2
    <3>2. CASE ~HasMore
      BY <1>1, <1>2, <2>1, <3>2
    <3> QED
      BY <3>1, <3>2
  <2> QED
    BY <1>3, <2>2 DEF PagerTypes
<1>5. ASSUME ~HasMore, pager.calm, Distinct(pager.expected)
      PROVE  pager.expected \subseteq pager'.seen
  BY <1>1, <1>2, <1>5 DEF PagesInv
<1>6. PagesCover'
  BY <1>2, <1>5 DEF PagesCover, Distinct
<1>7. ASSUME HasMore, pager.calm, Distinct(pager.expected)
      PROVE  /\ SeenTo(Skip(pager.page), pager.seen)'
             /\ pager.expected \subseteq Rows(table) /\ Distinct(Rows(table))
  <2>1. /\ pager.expected \subseteq Rows(table) /\ Distinct(Rows(table))
        /\ SeenTo(Skip(pager.page) + PageSize, pager.seen \cup Range(pager.rows))
    BY <1>1, <1>7 DEF PagesInv
  <2>2. Skip(pager'.page) = Skip(pager.page) + PageSize
    BY <1>1, <1>2, <1>7, SkipHolds DEF PagerTypes
  <2> QED
    BY <1>1, <1>2, <2>1, <2>2 DEF SeenTo
<1>8. PagesInv'
  BY <1>1, <1>2, <1>7 DEF PagesInv
<1> QED
  BY <1>4, <1>6, <1>8

-----------------------------------------------------------------------------
(* Others write *)

\* A table keeps its shape; unless the pager is told, its rows only grow, newer
\* ones, and never between the count and the page.
LEMMA TableStep ==
  ASSUME TableOK(table), PagerTypes, PagesInv, PagesCover, LoadersInv,
         NEW t, TableOK(t), NEW quiet \in BOOLEAN, WriteTable(t, quiet),
         quiet => /\ ~HalfRead /\ Rows(table) \subseteq Rows(t)
                  /\ Distinct(Rows(table)) => Distinct(Rows(t))
  PROVE  ReadsInv'
<1>1. table' = t /\ UNCHANGED loader
  BY DEF WriteTable
<1>2. TableOK(table)'
  BY <1>1 DEF TableOK
<1>3. LoadersInv'
  <2>1. loader # NoLoader => since' = since \cup {t}
    BY DEF WriteTable
  <2>2. CASE loader = NoLoader
    <3>1. DOMAIN loader'.cache = {}
      BY <1>1, <2>2 DEF NoLoader
    <3>2. /\ loader' = [column |-> loader'.column, queue |-> loader'.queue,
                        batches |-> loader'.batches, cache |-> loader'.cache]
          /\ loader'.cache = [k \in DOMAIN loader'.cache |-> loader'.cache[k]]
      BY <1>1 DEF LoadersInv
    <3> QED
      BY <1>1, <2>2, <3>1, <3>2 DEF LoadersInv
  <2>3. CASE loader # NoLoader
    BY <1>1, <2>1, <2>3 DEF LoadersInv
  <2> QED
    BY <2>2, <2>3
<1>4. CASE pager.pc # "reading"
  <2>1. UNCHANGED pager
    BY <1>4 DEF WriteTable
  <2> QED
    BY <1>2, <1>3, <1>4, <2>1 DEF ReadsInv, PagerTypes, PagesInv, PagesCover
<1>5. CASE pager.pc = "reading"
  <2>1. pager' = [pager EXCEPT !.calm = pager.calm /\ quiet]
    BY <1>5 DEF WriteTable
  <2>2. PagerTypes'
    BY <1>5, <2>1 DEF PagerTypes
  <2>3. /\ pager'.pc = "reading" /\ pager'.calm = (pager.calm /\ quiet)
        /\ pager'.page = pager.page /\ pager'.expected = pager.expected
        /\ pager'.seen = pager.seen /\ pager'.rows = pager.rows
        /\ pager'.found = pager.found /\ pager'.total = pager.total
    BY <1>5, <2>1 DEF PagerTypes
  <2>4. PagesCover'
    BY <2>3 DEF PagesCover
  <2>5. PagesInv'
    <3> SUFFICES ASSUME pager.calm, quiet, Distinct(pager.expected)
                 PROVE  PagesInv'
      BY <2>3 DEF PagesInv
    <3>1. /\ pager.expected \subseteq Rows(table) /\ Distinct(Rows(table))
          /\ SeenTo(Skip(pager.page), pager.seen)
          /\ pager.found =>
               SeenTo(Skip(pager.page) + PageSize, pager.seen \cup Range(pager.rows))
          /\ pager.found /\ pager.total # NotCounted /\ ~HasMore =>
               pager.expected \subseteq pager.seen \cup Range(pager.rows)
          /\ pager.found => Len(pager.rows) <= PageSize
      BY <1>5 DEF PagesInv
    <3>2. pager.expected \subseteq Rows(t) /\ Distinct(Rows(t))
      BY <3>1
    <3>3. ASSUME NEW place \in Nat, NEW seen, SeenTo(place, seen)
          PROVE  \A row \in pager.expected : Cardinality(Newer(Rows(t), row)) < place => row \in seen
      <4>1. ASSUME NEW row \in pager.expected, Cardinality(Newer(Rows(t), row)) < place
            PROVE  row \in seen
        <5>1. Rows(table) \in SUBSET Rows(t) /\ row \in Rows(table) /\ row \in Rows(t)
          BY <3>1, <3>2
        <5>2. Cardinality(Newer(Rows(table), row)) <= Cardinality(Newer(Rows(t), row))
          BY <5>1, RanksGrow
        <5>3. /\ Cardinality(Newer(Rows(table), row)) \in Nat
              /\ Cardinality(Newer(Rows(t), row)) \in Nat
          BY <5>1, RanksCounted
        <5>4. Cardinality(Newer(Rows(table), row)) < place
          BY <4>1, <5>2, <5>3
        <5> QED
          BY <3>3, <5>4 DEF SeenTo
      <4> QED
        BY <4>1
    <3>4. Skip(pager.page) \in Nat /\ Skip(pager.page) + PageSize \in Nat
      BY <1>5, SkipHolds, ReadsAssumption DEF PagerTypes
    <3>5. SeenTo(Skip(pager.page), pager.seen)'
      BY <1>1, <2>3, <3>1, <3>3, <3>4 DEF SeenTo
    <3>6. pager.found =>
            SeenTo(Skip(pager.page) + PageSize, pager.seen \cup Range(pager.rows))'
      <4>1. pager.found =>
              \A row \in pager.expected :
                Cardinality(Newer(Rows(t), row)) < Skip(pager.page) + PageSize =>
                  row \in pager.seen \cup Range(pager.rows)
        BY <3>1, <3>3, <3>4
      <4> QED
        BY <1>1, <2>3, <4>1 DEF SeenTo
    <3>7. ~(~pager.found /\ pager.total # NotCounted)
      BY <1>5 DEF HalfRead
    <3> QED
      BY <1>1, <2>3, <3>1, <3>2, <3>5, <3>6, <3>7 DEF PagesInv, HasMore
  <2> QED
    BY <1>2, <1>3, <2>2, <2>4, <2>5 DEF ReadsInv
<1> QED
  BY <1>4, <1>5

LEMMA InsertRowStep ==
  ASSUME ReadsInv, NEW id \in Ids, NEW user \in Payers, InsertRow(id, user)
  PROVE  ReadsInv'
<1>1. PICK time \in 1..MaxCreated :
        /\ \A row \in Rows(table) : row.created <= time
        /\ WriteTable([i \in DOMAIN table \cup {id} |->
             IF i = id THEN [id |-> id, user |-> user, created |-> time] ELSE table[i]],
             ~HalfRead /\ \A row \in Rows(table) : row.created < time)
  BY DEF InsertRow
<1> DEFINE row == [id |-> id, user |-> user, created |-> time]
           t == [i \in DOMAIN table \cup {id} |-> IF i = id THEN row ELSE table[i]]
           quiet == ~HalfRead /\ \A old \in Rows(table) : old.created < time
<1>2. id \notin DOMAIN table /\ TableOK(table)
  BY DEF InsertRow, ReadsInv
<1>3. TableOK(t)
  <2>1. row \in RowType /\ row.id = id
    BY <1>1 DEF RowType
  <2> HIDE DEF row
  <2> QED
    BY <1>2, <2>1 DEF TableOK
<1>4. Rows(t) = Rows(table) \cup {row}
  <2> HIDE DEF row
  <2> QED
    BY <1>2 DEF Rows
<1>5. quiet /\ Distinct(Rows(table)) => Distinct(Rows(t))
  <2> SUFFICES ASSUME quiet, Distinct(Rows(table)) PROVE Distinct(Rows(t))
    OBVIOUS
  <2>1. row.created = time /\ time \in Nat
    BY <1>1
  <2>2. \A old \in Rows(table) : old.created < time /\ old.created \in Nat
    BY <1>2, RowsCounted DEF RowType
  <2> HIDE DEF row, t, quiet
  <2> QED
    BY <1>4, <2>1, <2>2 DEF Distinct
<1>6. WriteTable(t, quiet)
  BY <1>1
<1>7. quiet \in BOOLEAN /\ (quiet => ~HalfRead)
  OBVIOUS
<1> HIDE DEF t, quiet
<1> QED
  BY <1>3, <1>4, <1>5, <1>6, <1>7, TableStep DEF ReadsInv

LEMMA DeleteRowStep ==
  ASSUME ReadsInv, NEW id \in Ids, DeleteRow(id)
  PROVE  ReadsInv'
<1> DEFINE t == Restrict(table, DOMAIN table \ {id})
<1>1. WriteTable(t, FALSE)
  BY DEF DeleteRow
<1>2. TableOK(t)
  BY DEF ReadsInv, TableOK, Restrict
<1> HIDE DEF t
<1> QED
  BY <1>1, <1>2, TableStep DEF ReadsInv

-----------------------------------------------------------------------------
(* Every step keeps it *)

LEMMA ReadsInitially == ReadsInit => ReadsInv
<1> SUFFICES ASSUME ReadsInit PROVE ReadsInv
  OBVIOUS
<1>1. TableOK(table)
  BY DEF ReadsInit, TableOK, RowType
<1>2. loader = NoLoader /\ pager = NoPager
  BY DEF ReadsInit
<1>3. LoadersInv
  BY <1>2 DEF LoadersInv, NoLoader
<1>4. PagerTypes
  BY <1>2, EmptySeq DEF PagerTypes, NoPager
<1>5. PagesInv /\ PagesCover
  BY <1>2 DEF PagesInv, PagesCover, NoPager
<1> QED
  BY <1>1, <1>3, <1>4, <1>5 DEF ReadsInv

LEMMA ReadsNextInv == ReadsInv /\ [ReadsNext]_readVars => ReadsInv'
<1> SUFFICES ASSUME ReadsInv, [ReadsNext]_readVars PROVE ReadsInv'
  OBVIOUS
<1>1. ASSUME LoadersInv', UNCHANGED <<table, pager>> PROVE ReadsInv'
  BY <1>1, PagerAlone DEF ReadsInv
<1>2. ASSUME PagerTypes' /\ PagesInv' /\ PagesCover', UNCHANGED <<table, loader, since>>
      PROVE  ReadsInv'
  <2>1. LoadersInv'
    BY <1>2, LoaderAlone DEF ReadsInv
  <2> QED
    BY <1>2, <2>1 DEF ReadsInv, TableOK
<1>3. CASE \E name \in DOMAIN Loaders : CreateLoader(name)
  <2>1. PICK name \in DOMAIN Loaders : CreateLoader(name)
    BY <1>3
  <2>2. UNCHANGED <<table, pager>>
    BY <2>1 DEF CreateLoader
  <2> QED
    BY <1>1, <2>1, <2>2, CreateStep
<1>4. CASE \E key \in Ids \cup Payers : Load(key)
  <2>1. PICK key : Load(key)
    BY <1>4
  <2>2. UNCHANGED <<table, pager>>
    BY <2>1 DEF Load
  <2> QED
    BY <1>1, <2>1, <2>2, LoadStep DEF ReadsInv
<1>5. CASE Dispatch
  <2>1. UNCHANGED <<table, pager>>
    BY <1>5 DEF Dispatch
  <2> QED
    BY <1>1, <1>5, <2>1, DispatchStep DEF ReadsInv
<1>6. CASE \E keys \in loader.batches : AnswerBatch(keys) \/ FailBatch(keys)
  <2>1. PICK keys \in loader.batches : AnswerBatch(keys) \/ FailBatch(keys)
    BY <1>6
  <2>2. UNCHANGED <<table, pager>>
    BY <2>1 DEF AnswerBatch, FailBatch, Settle
  <2> QED
    BY <1>1, <2>1, <2>2, BatchStep DEF ReadsInv
<1>7. CASE AskForPages
  BY <1>2, <1>7, AskStep DEF ReadsInv, AskForPages
<1>8. CASE FindPage
  <2>1. UNCHANGED <<table, loader, since>>
    BY <1>8 DEF FindPage
  <2> QED
    BY <1>2, <1>8, <2>1, FindStep DEF ReadsInv
<1>9. CASE CountRows
  BY <1>2, <1>9, CountStep DEF ReadsInv, CountRows
<1>10. CASE AnswerPage
  <2>1. UNCHANGED <<table, loader, since>>
    BY <1>10 DEF AnswerPage
  <2> QED
    BY <1>2, <1>10, <2>1, AnswerStep DEF ReadsInv
<1>11. CASE \E id \in Ids : (\E user \in Payers : InsertRow(id, user)) \/ DeleteRow(id)
  BY <1>11, InsertRowStep, DeleteRowStep
<1>12. CASE UNCHANGED readVars
  <2>1. UNCHANGED <<table, loader, since, pager>>
    BY <1>12 DEF readVars
  <2> QED
    BY <1>1, <2>1, LoaderAlone DEF ReadsInv
<1> QED
  BY <1>3, <1>4, <1>5, <1>6, <1>7, <1>8, <1>9, <1>10, <1>11, <1>12 DEF ReadsNext

\* What a loader keeps for a key is what the table said of it once, and who
\* reads page after page undisturbed has seen every row
\* (payment.dataloader.service.ts and the findAll of the payment services).
THEOREM ReadsAreTrue == ReadsSpec => []ReadsHold
<1>1. ReadsInv => ReadsHold
  BY DEF ReadsInv, ReadsHold, LoadersInv, LoadsHold, Says
<1> QED
  BY <1>1, ReadsInitially, ReadsNextInv, PTL DEF ReadsSpec
==============================================================================
