---------------------------- MODULE PaymentReads ----------------------------
(***************************************************************************)
(* How the payment plugin reads its tables: one row by its key, the rows   *)
(* of a user newest first, page by page with a count beside it, and        *)
(* batched through loaders that keep what they were told                   *)
(* (plugins/payment/src/dataloader/payment.dataloader.service.ts,          *)
(* subscription.service.ts, invoice.service.ts, transaction.service.ts,    *)
(* payment-method.service.ts, subscription-plan.service.ts).               *)
(*                                                                         *)
(* The tables are alike in what matters here, so that there is one, of     *)
(* rows with an owner and a time of creation.  Others insert and delete    *)
(* rows between any two statements.                                        *)
(***************************************************************************)
EXTENDS Integers, Sequences, SequencesExt, FiniteSetsExt, Functions

CONSTANTS
  Ids,
  Payers,
  MaxCreated,    \* bound: rows are made at 1..MaxCreated, some at the same time
  MaxWrites,  \* bound: the rows others insert or delete
  PageSize    \* the limit of findAll

ASSUME ReadsAssumption ==
  /\ IsFiniteSet(Ids) /\ Ids \cap Payers = {}
  /\ MaxCreated \in Nat \ {0} /\ MaxWrites \in Nat /\ PageSize \in Nat \ {0}

VARIABLES
  table,    \* the rows by their id
  writes,   \* the writes so far
  loader,   \* a DataLoader, its queue, its batches under way and its cache
  since,    \* history: the tables there were since the loader was created
  pager     \* a client that reads page after page while there are more

readVars == <<table, writes, loader, since, pager>>

Rows(t) == {t[i] : i \in DOMAIN t}
RowsOf(t, column, keys) == {row \in Rows(t) : row[column] \in keys}

NoLoader == [column |-> "none", queue |-> <<>>, batches |-> {}, cache |-> <<>>]

NotCounted == -1
NoPager == [pc |-> "idle", page |-> 0, found |-> FALSE, rows |-> <<>>, total |-> NotCounted,
            seen |-> {}, expected |-> {}, calm |-> TRUE]

\* Bound: a behaviour has a loader or a pager, which share nothing but the table.
Alone == loader = NoLoader /\ pager = NoPager

\* What the database may answer: the rows in any order, or the newest first
\* with those of one time in any order.
Unordered(rows) == SetToSeqs(rows)
NewestFirst(rows) ==
  {s \in SetToSeqs(rows) :
     \A i, j \in DOMAIN s : i < j => s[i].created >= s[j].created}
Take(s, skip, limit) ==
  SubSeq(s, skip + 1, IF skip + limit < Len(s) THEN skip + limit ELSE Len(s))

\* An answer is a sequence of rows; of one row at most where the key is the id.
NotFound == <<>>
Nothing == [state |-> "nothing", answer |-> <<>>]
Pending == [state |-> "pending", answer |-> <<>>]
Settled(answer) == [state |-> "settled", answer |-> answer]

-----------------------------------------------------------------------------
(* Reads of one statement *)

FindOne(t, id) == IF id \in DOMAIN t THEN <<t[id]>> ELSE NotFound
FindByUserId(t, user, limit) ==
  {Take(s, 0, limit) : s \in NewestFirst(RowsOf(t, "user", {user}))}

-----------------------------------------------------------------------------
(* The batch functions of the loaders: given what the findMany found, one    *)
(* answer for each key, in the order of the keys                             *)

InOrderFound(found, keys) ==
  [i \in DOMAIN keys |-> IF i \in DOMAIN found THEN <<found[i]>> ELSE NotFound]
OneEach(found, keys) ==
  [i \in DOMAIN keys |->
     LET named == {j \in DOMAIN found : found[j].id = keys[i]} IN
     IF named = {} THEN NotFound ELSE <<found[CHOOSE j \in named : TRUE]>>]

\* The rows of one user are pushed as they come.
Pushed(found, user) ==
  FoldLeft(LAMBDA rows, row : IF row.user = user THEN Append(rows, row) ELSE rows,
           <<>>, found)
ListEach(found, keys) == [i \in DOMAIN keys |-> Pushed(found, keys[i])]

\* The loaders, and the column whose values are their keys.
Loaders ==
  [subscriptionById |-> "id", subscriptionsByUserId |-> "user",
   subscriptionPlanById |-> "id",
   paymentMethodById |-> "id", paymentMethodsByUserId |-> "user",
   invoiceById |-> "id", invoicesByUserId |-> "user",
   transactionById |-> "id", transactionsByUserId |-> "user"]
Keys(column) == IF column = "id" THEN Ids ELSE Payers

CreateLoader(name) ==
  /\ Alone
  /\ loader' = [NoLoader EXCEPT !.column = Loaders[name],
                  !.cache = [k \in Keys(Loaders[name]) |-> Nothing]]
  /\ since' = {table}
  /\ UNCHANGED <<table, writes, pager>>

\* load(key): a key asked for before has its answer, or is about to have it.
Load(key) ==
  /\ key \in DOMAIN loader.cache /\ loader.cache[key] = Nothing
  /\ loader' = [loader EXCEPT !.queue = Append(@, key), !.cache[key] = Pending]
  /\ UNCHANGED <<table, writes, since, pager>>

\* At the end of the tick the keys become a batch.
Dispatch ==
  /\ loader.queue # <<>>
  /\ loader' = [loader EXCEPT !.queue = <<>>, !.batches = @ \cup {loader.queue}]
  /\ UNCHANGED <<table, writes, since, pager>>

BatchLoad(found, keys) ==
  IF loader.column = "id" THEN OneEach(found, keys) ELSE ListEach(found, keys)

Settle(keys, answers) ==
  /\ loader' = [loader EXCEPT !.batches = @ \ {keys},
       !.cache = [k \in DOMAIN @ |->
          IF k \in Range(keys) THEN answers[CHOOSE i \in DOMAIN keys : keys[i] = k] ELSE @[k]]]
  /\ UNCHANGED <<table, writes, since, pager>>

AnswerBatch(keys) ==
  \E found \in Unordered(RowsOf(table, loader.column, Range(keys))) :
    Settle(keys, [i \in DOMAIN keys |-> Settled(BatchLoad(found, keys)[i])])

\* A batch that fails is forgotten.
FailBatch(keys) == Settle(keys, [i \in DOMAIN keys |-> Nothing])

-----------------------------------------------------------------------------
(* Pages: findAll finds the rows of the page and counts all of them in two   *)
(* statements side by side, and says whether there are more                  *)

Skip(page) == (page - 1) * PageSize

\* expected is history: what a client that reads on is to see in the end.
AskForPages ==
  /\ Alone
  /\ pager' = [NoPager EXCEPT !.pc = "reading", !.page = 1, !.expected = Rows(table)]
  /\ UNCHANGED <<table, writes, loader, since>>

FindPage ==
  /\ pager.pc = "reading" /\ ~pager.found
  /\ \E s \in NewestFirst(Rows(table)) :
       pager' = [pager EXCEPT !.found = TRUE,
                                !.rows = Take(s, Skip(pager.page), PageSize)]
  /\ UNCHANGED <<table, writes, loader, since>>

CountRows ==
  /\ pager.pc = "reading" /\ pager.total = NotCounted
  /\ pager' = [pager EXCEPT !.total = Cardinality(DOMAIN table)]
  /\ UNCHANGED <<table, writes, loader, since>>

HasMore == Skip(pager.page) + Len(pager.rows) < pager.total

AnswerPage ==
  /\ pager.pc = "reading" /\ pager.found /\ pager.total # NotCounted
  /\ pager' = [pager EXCEPT
       !.seen = @ \cup Range(pager.rows), !.found = FALSE, !.rows = <<>>, !.total = NotCounted,
       !.pc = IF HasMore THEN "reading" ELSE "done",
       !.page = IF HasMore THEN @ + 1 ELSE @]
  /\ UNCHANGED <<table, writes, loader, since>>

-----------------------------------------------------------------------------
(* Others write *)

\* A row inserted between the count and the page, or one deleted before the
\* last page, is not calm.
HalfRead == pager.pc = "reading" /\ pager.total # NotCounted /\ ~pager.found

WriteTable(t, quiet) ==
  /\ writes < MaxWrites
  /\ writes' = writes + 1
  /\ table' = t
  /\ since' = IF loader = NoLoader THEN {} ELSE since \cup {t}
  /\ pager' = IF pager.pc = "reading" THEN [pager EXCEPT !.calm = @ /\ quiet] ELSE pager
  /\ UNCHANGED loader

InsertRow(id, user) ==
  /\ id \notin DOMAIN table
  /\ \E time \in 1..MaxCreated :
       /\ \A row \in Rows(table) : row.created <= time
       /\ WriteTable([i \in DOMAIN table \cup {id} |->
            IF i = id THEN [id |-> id, user |-> user, created |-> time] ELSE table[i]],
            ~HalfRead /\ \A row \in Rows(table) : row.created < time)

DeleteRow(id) ==
  /\ id \in DOMAIN table
  /\ WriteTable(Restrict(table, DOMAIN table \ {id}), FALSE)

ReadsInit ==
  /\ \E there \in SUBSET Ids :
       table \in {t \in [there -> [id : there, user : Payers, created : 1..MaxCreated]] :
                    \A i \in there : t[i].id = i}
  /\ writes = 0
  /\ loader = NoLoader
  /\ since = {}
  /\ pager = NoPager

ReadsNext ==
  \/ \E name \in DOMAIN Loaders : CreateLoader(name)
  \/ \E key \in Ids \cup Payers : Load(key)
  \/ Dispatch
  \/ \E keys \in loader.batches : AnswerBatch(keys) \/ FailBatch(keys)
  \/ AskForPages \/ FindPage \/ CountRows \/ AnswerPage
  \/ \E id \in Ids : (\E user \in Payers : InsertRow(id, user)) \/ DeleteRow(id)

ReadsSpec == ReadsInit /\ [][ReadsNext]_readVars

-----------------------------------------------------------------------------
(* Properties *)

\* A loader never mixes up its keys: what it keeps for a key is what the read of
\* one statement would have said of that key at some time since the loader was
\* created, and for a user all rows, each once.
LoadsHold ==
  \A k \in DOMAIN loader.cache : loader.cache[k].state = "settled" =>
    LET answer == loader.cache[k].answer IN
    \E t \in since :
      IF loader.column = "id" THEN answer = FindOne(t, k)
      ELSE \E s \in FindByUserId(t, k, Cardinality(Ids)) :
             Len(answer) = Len(s) /\ Range(answer) = Range(s)

\* Who reads page after page while there are more has seen every row that was
\* there at the start, whatever was inserted meanwhile: newer rows only push the
\* older ones to later pages.  It takes rows of different times, no deletion,
\* and no insertion between the count and the rows of one page.
PagesCover ==
  pager.pc = "done" /\ pager.calm
    /\ (\A a, b \in pager.expected : a.created = b.created => a = b)
  => pager.expected \subseteq pager.seen

\* What the reads of the payment plugin say while rows come and go.
ReadsHold == LoadsHold /\ PagesCover
=============================================================================
