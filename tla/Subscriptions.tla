---------------------------- MODULE Subscriptions ----------------------------
(***************************************************************************)
(* Subscriptions and payment methods of the payment plugin                 *)
(* (plugins/payment/src/subscription/subscription.service.ts,              *)
(* plugins/payment/src/payment-method/payment-method.service.ts).          *)
(*                                                                         *)
(* An operation reads a row, decides, and writes some columns in a second  *)
(* statement; setDefault writes two sets of rows one after the other.      *)
(* There is no transaction and no condition on the row that is written, so *)
(* that the statements of requests under way alternate in every way.  A    *)
(* request may stop after any statement: the database fails it, or its     *)
(* process ends.                                                           *)
(*                                                                         *)
(* One subscription; ids are never given out again, so that one that was   *)
(* deleted stays so.                                                       *)
(***************************************************************************)
EXTENDS Integers, FiniteSets

CONSTANTS
  Requests,
  Methods,   \* the payment methods there are
  Owner,     \* [Methods -> Users]
  Users,
  Changes    \* the inputs of updateSubscription, see Change

\* What an input leaves out.
Keep == "keep"
SubscriptionStatus == {"ACTIVE", "TRIALING", "PAST_DUE", "CANCELED"}

Change == [status : SubscriptionStatus \cup {Keep},
           cancelAtPeriodEnd : {"yes", "no", Keep},
           method : Methods \cup {Keep}]

ASSUME OwnerAssumption == Owner \in [Methods -> Users]
ASSUME ChangesAssumption == Changes \subseteq Change
ASSUME NamesAssumption == {Keep, "none"} \cap (Methods \cup Requests) = {}

VARIABLES
  subscription,  \* the row; "there" says whether it was made and not deleted
  default,       \* the payment methods with isDefault
  active,        \* the payment methods with isActive
  request,
  wanted,        \* history: the last value that any request gave each column
  alone          \* history: the setDefault calls that no other one came between

subscriptionTables == <<subscription, default, active>>
subscriptionVars == <<subscriptionTables, request, wanted, alone>>

\* canceledAt and cancelReason are written together, and stand for the request
\* that did.
Columns == {"status", "cancelAtPeriodEnd", "canceledAt", "method"}

Row(there) ==
  [there |-> there, status |-> "none", cancelAtPeriodEnd |-> "none",
   canceledAt |-> "none", method |-> "none"]
There == subscription.there = "yes"

NoRequest == [op |-> "none", pc |-> "idle", input |-> "none", user |-> "none",
              read |-> Row("never")]
UnderWay(r) == request[r].pc \notin {"idle", "done", "refused", "stopped"}

\* Every user has one default method, and the subscription may be there already.
SubscriptionsInit ==
  /\ \/ subscription = Row("never")
     \/ subscription = [Row("yes") EXCEPT !.status = "ACTIVE", !.cancelAtPeriodEnd = "no"]
  /\ default \in SUBSET Methods
  /\ \A u \in Users : Cardinality({m \in default : Owner[m] = u}) = 1
  /\ active = Methods
  /\ request = [r \in Requests |-> NoRequest]
  /\ wanted = [c \in Columns |-> subscription[c]]
  /\ alone = {}

Begin(r, op, pc, input, user) ==
  /\ request[r].pc = "idle"
  /\ request' = [request EXCEPT ![r] = [NoRequest EXCEPT
                   !.op = op, !.pc = pc, !.input = input, !.user = user]]
  /\ alone' = IF op = "setDefault" THEN alone \cup {r} ELSE alone
  /\ UNCHANGED <<subscriptionTables, wanted>>

At(r, ops, pc) == request[r].op \in ops /\ request[r].pc = pc
Go(r, pc) == request' = [request EXCEPT ![r].pc = pc]

RefuseRequest(r) ==
  /\ Go(r, "refused")
  /\ UNCHANGED <<subscriptionTables, wanted, alone>>

-----------------------------------------------------------------------------
(* Subscriptions *)

\* The columns that an operation gives a value, and the values.
Given(change) ==
  {c \in DOMAIN change : change[c] # Keep}
  \cup (IF change.cancelAtPeriodEnd = "yes" THEN {"canceledAt"} ELSE {})
Reactivation ==
  [c \in {"status", "cancelAtPeriodEnd", "canceledAt"} |->
     CASE c = "status" -> "ACTIVE" [] c = "cancelAtPeriodEnd" -> "no" [] OTHER -> "none"]
Written(r) ==
  IF request[r].op = "reactivate" THEN Reactivation
  ELSE [c \in Given(request[r].input) |->
          IF c = "canceledAt" THEN r ELSE request[r].input[c]]

\* The row after the update: only the columns written change.  An update that
\* wrote back the row it had read would take the changes of others with it.
RowReadWith(row, read, new) ==
  [c \in DOMAIN row |-> IF c \in DOMAIN new THEN new[c] ELSE read[c]]
RowWith(row, read, new) ==
  [c \in DOMAIN row |-> IF c \in DOMAIN new THEN new[c] ELSE row[c]]

Want(new) ==
  wanted' = [c \in Columns |-> IF c \in DOMAIN new THEN new[c] ELSE wanted[c]]

BeginCreate(r, trial, m) ==
  Begin(r, "create", "reading",
        [status |-> IF trial THEN "TRIALING" ELSE "ACTIVE", method |-> m], "none")
BeginUpdate(r, change) == Begin(r, "update", "reading", change, "none")
BeginCancel(r) ==
  Begin(r, "cancel", "reading",
        [status |-> Keep, cancelAtPeriodEnd |-> "yes", method |-> Keep], "none")
BeginReactivate(r) == Begin(r, "reactivate", "reading", "none", "none")
BeginDelete(r) == Begin(r, "delete", "writing", "none", "none")

\* create reads the plan, which may be missing.
ReadPlan(r) ==
  /\ At(r, {"create"}, "reading")
  /\ \/ RefuseRequest(r)
     \/ Go(r, "writing") /\ UNCHANGED <<subscriptionTables, wanted, alone>>

InsertSubscription(r) ==
  /\ At(r, {"create"}, "writing")
  /\ subscription.there = "never"
  /\ subscription' = [Row("yes") EXCEPT !.status = request[r].input.status,
                                        !.cancelAtPeriodEnd = "no",
                                        !.method = request[r].input.method]
  /\ wanted' = [c \in Columns |-> subscription'[c]]
  /\ Go(r, "done")
  /\ UNCHANGED <<default, active, alone>>

\* What can be reactivated; whatever is not active would be too much.
NotActive(row) == row.status # "ACTIVE" \/ row.cancelAtPeriodEnd = "yes"
Canceled(row) == row.status = "CANCELED" \/ row.cancelAtPeriodEnd = "yes"

\* update, cancel and reactivate read the row first.
ReadSubscription(r) ==
  /\ At(r, {"update", "cancel", "reactivate"}, "reading")
  /\ IF ~There \/ (request[r].op = "reactivate" /\ ~Canceled(subscription))
     THEN RefuseRequest(r)
     ELSE /\ request' = [request EXCEPT ![r].pc = "writing", ![r].read = subscription]
          /\ UNCHANGED <<subscriptionTables, wanted, alone>>

\* The update finds the row by its id alone, and fails if it is gone.
UpdateSubscription(r) ==
  /\ At(r, {"update", "cancel", "reactivate"}, "writing")
  /\ IF ~There
     THEN RefuseRequest(r)
     ELSE /\ subscription' = RowWith(subscription, request[r].read, Written(r))
          /\ Want(Written(r))
          /\ Go(r, "done")
          /\ UNCHANGED <<default, active, alone>>

DeleteSubscription(r) ==
  /\ At(r, {"delete"}, "writing")
  /\ IF ~There
     THEN RefuseRequest(r)
     ELSE /\ subscription' = Row("deleted")
          /\ Go(r, "done")
          /\ UNCHANGED <<default, active, wanted, alone>>

-----------------------------------------------------------------------------
(* Payment methods *)

BeginSetDefault(r, m, u) == Begin(r, "setDefault", "unsetting", m, u)
BeginDeleteMethod(r, m) == Begin(r, "deleteMethod", "writing", m, "none")

DefaultsOf(u) == {m \in default : Owner[m] = u}

\* The user comes from the request, and nobody looks whose the method is.  To
\* take the default away from the method's own row is to take too little.
OnlyThisMethod(m, u) == {m}
EveryDefault(m, u) == DefaultsOf(u)

UnsetDefault(r) ==
  /\ At(r, {"setDefault"}, "unsetting")
  /\ default' = default \ EveryDefault(request[r].input, request[r].user)
  /\ alone' = alone \cap {r}
  /\ Go(r, "setting")
  /\ UNCHANGED <<subscription, active, wanted>>

SetDefault(r) ==
  /\ At(r, {"setDefault"}, "setting")
  /\ default' = default \cup {request[r].input}
  /\ alone' = alone \cap {r}
  /\ Go(r, "done")
  /\ UNCHANGED <<subscription, active, wanted>>

\* The row stays, and so does its isDefault.
DeleteMethod(r) ==
  /\ At(r, {"deleteMethod"}, "writing")
  /\ active' = active \ {request[r].input}
  /\ Go(r, "done")
  /\ UNCHANGED <<subscription, default, wanted, alone>>

\* The database fails the next statement, or the process ends before it.
StopRequest(r) ==
  /\ UnderWay(r)
  /\ Go(r, "stopped")
  /\ UNCHANGED <<subscriptionTables, wanted, alone>>

-----------------------------------------------------------------------------
\* The rows of subscriptions and of payment methods are apart.
SubscriptionRequest(r) ==
  \/ \E trial \in BOOLEAN, m \in Methods : BeginCreate(r, trial, m)
  \/ \E change \in Changes : BeginUpdate(r, change)
  \/ BeginCancel(r) \/ BeginReactivate(r) \/ BeginDelete(r)
  \/ ReadPlan(r) \/ InsertSubscription(r)
  \/ ReadSubscription(r) \/ UpdateSubscription(r) \/ DeleteSubscription(r)

MethodRequest(r) ==
  \/ \E m \in Methods :
       (\E u \in Users : BeginSetDefault(r, m, u)) \/ BeginDeleteMethod(r, m)
  \/ UnsetDefault(r) \/ SetDefault(r) \/ DeleteMethod(r)

SubscriptionsNext ==
  \E r \in Requests : SubscriptionRequest(r) \/ MethodRequest(r) \/ StopRequest(r)

SubscriptionsSpec == SubscriptionsInit /\ [][SubscriptionsNext]_subscriptionVars

-----------------------------------------------------------------------------
(* Properties *)

SubscriptionsTypeOK ==
  /\ subscription.there \in {"never", "yes", "deleted"}
  /\ subscription.status \in SubscriptionStatus \cup {"none"}
  /\ subscription.cancelAtPeriodEnd \in {"yes", "no", "none"}
  /\ subscription.canceledAt \in Requests \cup {"none"}
  /\ subscription.method \in Methods \cup {"none"}
  /\ ~There => subscription = Row(subscription.there)
  /\ default \subseteq Methods /\ active \subseteq Methods
  /\ alone \subseteq Requests

\* No change is lost: whatever requests run side by side, each column has the
\* value that the last request to give it one wanted, and with it a canceling
\* subscription the date and the reason of the request that canceled it.
NoChangeLost ==
  There => /\ \A c \in Columns : subscription[c] = wanted[c]
           /\ subscription.cancelAtPeriodEnd = "yes" => subscription.canceledAt # "none"

\* A subscription that is past due, and was not canceled, becomes active only by
\* an update that says so, or by a reactivation that read the row before somebody
\* else made it so: reactivate looks at the row once and writes later.
PastDueStands ==
  [][ There /\ subscription.status = "PAST_DUE" /\ subscription.cancelAtPeriodEnd = "no"
      /\ subscription'.status = "ACTIVE" =>
        \E r \in Requests :
          /\ request[r].pc = "writing" /\ request'[r].pc = "done"
          /\ \/ request[r].op = "update" /\ request[r].input.status = "ACTIVE"
             \/ request[r].op = "reactivate" /\ request[r].read # subscription ]_subscriptionVars

\* The default method: what setDefault made it is the only one of its user as
\* long as no other setDefault came between; and users have one at all when no
\* request is under way, unless one stopped half way or named the method of
\* somebody else.
DefaultStands ==
  /\ \A r \in alone :
       At(r, {"setDefault"}, "done") /\ Owner[request[r].input] = request[r].user
       => DefaultsOf(request[r].user) = {request[r].input}
  /\ (\A r \in Requests : request[r].op = "setDefault" =>
         request[r].pc = "done" /\ Owner[request[r].input] = request[r].user)
     => \A u \in Users : DefaultsOf(u) # {}
=============================================================================
