----------------------------- MODULE Providers -----------------------------
(***************************************************************************)
(* The payment providers (plugins/payment/src/providers): the factory, and *)
(* what StripeProvider, PayPalProvider and SepayProvider make of one       *)
(* payment: its intent, confirmation, cancellation and refunds, which a    *)
(* service may leave pending, to go through or to fail later.              *)
(*                                                                         *)
(* Every operation is a request to a service that works on its own copy of *)
(* the payment, which the payer moves on as well; requests and answers     *)
(* take time and get lost.  PayPal wants a token of a limited life with    *)
(* each request, which the provider object keeps for the calls to come.    *)
(*                                                                         *)
(* The services are external; what they do is taken from the statuses that *)
(* the code maps.  Customers, stored methods, the services' own            *)
(* subscriptions and webhooks, which no code of the plugin uses, are left  *)
(* out.                                                                    *)
(***************************************************************************)
EXTENDS Integers, FiniteSets

CONSTANTS
  Calls,     \* bound: the calls under way at a time
  Units,     \* the amount of the payment, in whole units of its currency
  Lifetime,  \* expires_in of a token
  Margin,    \* how much earlier it is renewed: the code's sixty seconds
  MaxDelay,  \* the longest that a request or an answer takes
  MaxTime    \* bound on the clock

ASSUME UnitsAssumption == Units \in Nat \ {0}
ASSUME ClockAssumption ==
  /\ {Lifetime, Margin, MaxDelay, MaxTime} \subseteq Nat
  /\ Margin < Lifetime
  /\ 2 * MaxDelay <= Margin

Names == {"STRIPE", "PAYPAL", "SEPAY"}
None == "none"

VARIABLES
  provider,  \* the one that getProvider returned, if any
  currency,
  native,    \* the status of the payment in the provider's words
  charge,    \* the amount of the payment in the provider's measure
  given,     \* what the provider gave back of it
  open,      \* what it has yet to settle of the refunds it took on
  now,
  token,     \* accessToken: when it was issued, and expiresAt
  call,
  told,      \* history: the final statuses that callers were told
  reported   \* history: the sum of the refunds that callers were told of

money == <<native, charge, given, open>>
history == <<told, reported>>
providerVars == <<provider, currency, money, now, token, call, history>>

-----------------------------------------------------------------------------
(* The factory *)

\* onModuleInit registers the providers that are configured.
Registered(configured) == configured
GetProvider(name, default, configured) ==
  LET wanted == IF name = None THEN default ELSE name IN
  IF wanted \in Registered(configured) THEN wanted ELSE None

-----------------------------------------------------------------------------
(* Amounts and statuses *)

ZeroDecimalCurrencies == {"VND"}
Scale(cur) == IF cur \in ZeroDecimalCurrencies THEN 1 ELSE 100
ToSmallestUnit(amount, cur) == amount * Scale(cur)
FromSmallestUnit(amount, cur) == amount \div Scale(cur)

\* Stripe counts in the smallest unit, the others in whole ones.
ToMeasure(amount) ==
  IF provider = "STRIPE" THEN ToSmallestUnit(amount, currency) ELSE amount
FromMeasure(amount) ==
  IF provider = "STRIPE" THEN FromSmallestUnit(amount, currency) ELSE amount

\* Each table sends the provider's words to PaymentIntentStatus; a table that
\* took a payment under way for a success would be too eager.
MapStripeEagerly(s) ==
  CASE s \in {"processing", "succeeded"} -> "SUCCEEDED"
    [] s = "canceled" -> "CANCELED"
    [] OTHER -> "REQUIRES_ACTION"
MapStripeStatus(s) ==
  CASE s = "requires_payment_method" -> "REQUIRES_PAYMENT_METHOD"
    [] s = "requires_confirmation" -> "REQUIRES_CONFIRMATION"
    [] s = "requires_action" -> "REQUIRES_ACTION"
    [] s = "processing" -> "PROCESSING"
    [] s = "succeeded" -> "SUCCEEDED"
    [] s = "canceled" -> "CANCELED"
    [] OTHER -> "FAILED"
MapPayPalStatus(s) ==
  CASE s \in {"CREATED", "PAYER_ACTION_REQUIRED"} -> "REQUIRES_ACTION"
    [] s \in {"SAVED", "APPROVED"} -> "REQUIRES_CONFIRMATION"
    [] s = "VOIDED" -> "CANCELED"
    [] s = "COMPLETED" -> "SUCCEEDED"
    [] OTHER -> "FAILED"
MapSepayStatus(s) ==
  CASE s = "processing" -> "PROCESSING"
    [] s \in {"completed", "success"} -> "SUCCEEDED"
    [] s = "failed" -> "FAILED"
    [] s \in {"cancelled", "expired"} -> "CANCELED"
    [] OTHER -> "REQUIRES_ACTION"
MapStatus(s) ==
  CASE provider = "STRIPE" -> MapStripeStatus(s)
    [] provider = "PAYPAL" -> MapPayPalStatus(s)
    [] provider = "SEPAY" -> MapSepayStatus(s)

\* The word of a refund that went through; the providers call every other one
\* pending, the failed ones too.
RefundDone == [STRIPE |-> "succeeded", PAYPAL |-> "COMPLETED", SEPAY |-> "completed"]
MapRefundStatus(s) == IF s = RefundDone[provider] THEN "succeeded" ELSE "pending"

-----------------------------------------------------------------------------
(* The services' side of a payment *)

Paid == {"succeeded", "COMPLETED", "completed", "success"}
Charged == IF native \in Paid THEN charge ELSE 0

\* A Stripe intent is made with or without a method.
Created ==
  [STRIPE |-> {"requires_payment_method", "requires_confirmation"},
   PAYPAL |-> {"CREATED"}, SEPAY |-> {"pending"}]

\* What a payer does, or time.
PayerMoves ==
  [STRIPE |-> {"requires_payment_method"} \X {"requires_confirmation", "canceled"}
       \cup {"requires_confirmation"} \X {"requires_action", "processing", "canceled"}
       \cup {"requires_action"} \X {"processing", "requires_payment_method", "canceled"}
       \cup {"processing"} \X {"succeeded", "requires_payment_method"},
   PAYPAL |-> {"CREATED"} \X {"PAYER_ACTION_REQUIRED", "APPROVED", "VOIDED"}
       \cup {"PAYER_ACTION_REQUIRED"} \X {"APPROVED", "VOIDED"}
       \cup {"APPROVED"} \X {"VOIDED"},
   SEPAY |-> {"pending"} \X {"processing", "cancelled", "expired"}
       \cup {"processing"} \X {"completed", "success", "failed"}]

\* What confirmPayment asks for: Stripe's confirm, PayPal's capture; SePay is
\* only asked how things stand.
ConfirmMoves ==
  [STRIPE |-> {"requires_confirmation", "requires_action"} \X
                {"requires_action", "processing", "succeeded", "requires_payment_method"},
   PAYPAL |-> {<<"APPROVED", "COMPLETED">>},
   SEPAY |-> {<<s, s>> : s \in {"pending", "processing", "completed", "success",
                                "failed", "cancelled", "expired"}}]

\* PayPal is never asked: its orders are left to expire.
CancelMoves ==
  [STRIPE |-> {"requires_payment_method", "requires_confirmation", "requires_action"}
                \X {"canceled"},
   PAYPAL |-> {},
   SEPAY |-> {<<"pending", "cancelled">>}]

PayerActs ==
  /\ provider # None
  /\ \E move \in PayerMoves[provider] :
       native = move[1] /\ native' = move[2]
  /\ UNCHANGED <<provider, currency, charge, given, open, now, token, call, history>>

\* A pending refund goes through or fails, whoever was told of it.
SettleRefund ==
  /\ \E units \in 1..Units :
       /\ ToMeasure(units) <= open
       /\ open' = open - ToMeasure(units)
       /\ given' \in {given, given + ToMeasure(units)}
  /\ UNCHANGED <<provider, currency, native, charge, now, token, call, history>>

-----------------------------------------------------------------------------
(* Calls *)

NoToken == [issued |-> 0, expiresAt |-> 0]
NoCall == [op |-> None, pc |-> "idle", amount |-> 0, at |-> 0, token |-> 0,
           status |-> None]
OnItsWay(c) == call[c].pc # "idle"

\* expiresAt is worked out when the answer arrives; without a margin it would
\* be the end of the token's life.
ExpiresAtTheEnd(time) == time + Lifetime
ExpiresAt(time) == time + Lifetime - Margin
HasValidToken == now < token.expiresAt

\* request: with a token that is valid by the object's own clock, or first to
\* ask for one.  Before it refunds a part, Stripe's provider asks for the
\* currency of the payment.
FirstRequest(op, amount) ==
  CASE provider = "PAYPAL" /\ ~HasValidToken -> "authenticating"
    [] provider = "STRIPE" /\ op = "refund" /\ amount # 0 -> "retrieving"
    [] OTHER -> "sent"
Request(c, op, amount) ==
  /\ provider # None
  /\ call[c].pc = "idle"
  /\ call' = [call EXCEPT ![c] = [NoCall EXCEPT
       !.op = op, !.amount = amount, !.at = now, !.token = token.issued,
       !.pc = FirstRequest(op, amount)]]
  /\ UNCHANGED <<provider, currency, money, now, token, history>>

Authenticate(c) ==
  /\ call[c].pc = "authenticating"
  /\ call' = [call EXCEPT ![c].pc = "issued", ![c].token = now, ![c].at = now]
  /\ UNCHANGED <<provider, currency, money, now, token, history>>

KeepToken(c) ==
  /\ call[c].pc = "issued"
  /\ token' = [issued |-> call[c].token, expiresAt |-> ExpiresAt(now)]
  /\ call' = [call EXCEPT ![c].pc = "sent", ![c].at = now]
  /\ UNCHANGED <<provider, currency, money, now, history>>

RetrieveIntent(c) ==
  /\ call[c].pc = "retrieving"
  /\ call' = [call EXCEPT ![c].pc = "sent"]
  /\ UNCHANGED <<provider, currency, money, now, token, history>>

\* Callers know the payment by what createPaymentIntent told them.
Known == told # {}
CreatePaymentIntent(c) ==
  /\ native = None
  /\ \A d \in Calls : call[d].op # "create"
  /\ Request(c, "create", Units)
ConfirmPayment(c) == Known /\ Request(c, "confirm", 0)
CancelPayment(c) == Known /\ provider # "PAYPAL" /\ Request(c, "cancel", 0)

\* PayPal's cancelPayment returns without a request.
LeaveToExpire ==
  /\ Known /\ provider = "PAYPAL"
  /\ told' = told \cup {"LEFT_TO_EXPIRE"}
  /\ UNCHANGED <<provider, currency, money, now, token, call, reported>>

RefundPayment(c, amount) == Known /\ Request(c, "refund", amount)

Accepts(c) == provider = "PAYPAL" => now < call[c].token + Lifetime
Answer(c, status, amount) ==
  call' = [call EXCEPT ![c].pc = "answered", ![c].at = now,
                       ![c].status = status, ![c].amount = amount]
Arrived(c, op) == call[c].pc = "sent" /\ call[c].op = op /\ Accepts(c)

MakeIntent(c) ==
  /\ Arrived(c, "create")
  /\ native' \in Created[provider]
  /\ charge' = ToMeasure(call[c].amount)
  /\ Answer(c, native', 0)
  /\ UNCHANGED <<provider, currency, given, open, now, token, history>>

Move(c, op, moves) ==
  /\ Arrived(c, op)
  /\ \E move \in moves[provider] :
       /\ native = move[1] /\ native' = move[2]
       /\ Answer(c, native', 0)
  /\ UNCHANGED <<provider, currency, charge, given, open, now, token, history>>

\* Everything left when no amount is given, and never more than is left.  PayPal
\* is always asked for US dollars, and may answer without an amount.  The service
\* gives the money back or leaves the refund open; one that fails at once is an
\* open one that fails before its answer arrives, as both are told as pending.
Asked(c) ==
  IF call[c].amount = 0 THEN Charged - given - open ELSE ToMeasure(call[c].amount)
RefundCurrency == IF provider = "PAYPAL" THEN "USD" ELSE currency
GiveRefund(c) ==
  /\ Arrived(c, "refund")
  /\ call[c].amount = 0 \/ RefundCurrency = currency
  /\ Asked(c) > 0 /\ given + open + Asked(c) <= Charged
  /\ \E status \in {RefundDone[provider], "open"} :
       /\ given' = IF status = RefundDone[provider] THEN given + Asked(c) ELSE given
       /\ open' = IF status = "open" THEN open + Asked(c) ELSE open
       /\ \/ Answer(c, status, Asked(c))
          \/ provider = "PAYPAL" /\ Answer(c, status, 0)
  /\ UNCHANGED <<provider, currency, native, charge, now, token, history>>

\* What the call resolves to.  createPaymentIntent of SePay says the same
\* whatever the answer; a cancellation resolves to nothing, which its caller
\* takes for CANCELED.
Tells(c) ==
  CASE call[c].op = "create" /\ provider = "SEPAY" -> "REQUIRES_ACTION"
    [] call[c].op = "refund" -> MapRefundStatus(call[c].status)
    [] OTHER -> MapStatus(call[c].status)

Resolve(c) ==
  /\ call[c].pc = "answered"
  /\ told' = IF call[c].op = "refund" THEN told ELSE told \cup {Tells(c)}
  /\ reported' = IF Tells(c) = "succeeded" THEN reported + FromMeasure(call[c].amount)
                 ELSE reported
  /\ call' = [call EXCEPT ![c] = NoCall]
  /\ UNCHANGED <<provider, currency, money, now, token>>

\* The request or its answer is lost, or the service refuses it: the call throws.
Throw(c) ==
  /\ OnItsWay(c)
  /\ call' = [call EXCEPT ![c] = NoCall]
  /\ UNCHANGED <<provider, currency, money, now, token, history>>

\* Time matters to tokens alone.
Tick ==
  /\ provider = "PAYPAL" /\ now < MaxTime
  /\ \A c \in Calls : OnItsWay(c) => now < call[c].at + MaxDelay
  /\ now' = now + 1
  /\ UNCHANGED <<provider, currency, money, token, call, history>>

ProvidersInit ==
  /\ \E configured \in SUBSET Names, name \in Names \cup {None}, default \in Names :
       provider = GetProvider(name, default, configured)
  /\ currency \in {"USD", "VND"}
  /\ native = None /\ charge = 0 /\ given = 0 /\ open = 0
  /\ now = 1 /\ token = NoToken
  /\ call = [c \in Calls |-> NoCall]
  /\ told = {} /\ reported = 0

ProvidersNext ==
  \/ PayerActs \/ SettleRefund \/ LeaveToExpire \/ Tick
  \/ \E c \in Calls :
       \/ CreatePaymentIntent(c) \/ ConfirmPayment(c) \/ CancelPayment(c)
       \/ \E amount \in 0..Units : RefundPayment(c, amount)
       \/ Authenticate(c) \/ KeepToken(c) \/ RetrieveIntent(c)
       \/ MakeIntent(c) \/ Move(c, "confirm", ConfirmMoves)
       \/ Move(c, "cancel", CancelMoves) \/ GiveRefund(c)
       \/ Resolve(c) \/ Throw(c)

ProvidersSpec == ProvidersInit /\ [][ProvidersNext]_providerVars

-----------------------------------------------------------------------------
(* Properties *)

\* In units of the currency, by what a unit is worth rather than by the code.
InUnits(amount) ==
  IF provider = "STRIPE" /\ currency = "USD" THEN amount \div 100 ELSE amount

\* Every provider keeps the promise of the interface: a caller is never told
\* SUCCEEDED of a payment that was not charged, nor CANCELED or FAILED of one
\* that was or ever will be, the payer is charged the amount of the intent, and
\* no refund is told as succeeded that was not given.  PayPal's cancellation
\* sends nothing and promises nothing: its order can still be approved and
\* captured (cancelPayment).
Life == INSTANCE PaymentLife WITH
  Price <- Units, money <- InUnits(Charged), back <- InUnits(given),
  told <- told \cap {"SUCCEEDED", "CANCELED", "FAILED"}
KeepsPaymentLife == Life!Spec

\* No request reaches PayPal with a token whose life is over: the token kept is
\* dropped a margin before its end, which makes up for the time that the answer
\* with it and the request take.
TokensAreValid ==
  \A c \in Calls : provider = "PAYPAL" /\ call[c].pc = "sent" =>
    now < call[c].token + Lifetime
=============================================================================
