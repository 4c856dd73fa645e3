# 9plus-api in TLA+

TLA+ models of the services in this repository, the TLC runs that check them on
small instances, and proofs, for instances of every size, of every safety and action
property that the passing runs check; liveness is only model-checked. Every definition
is translated from the source; `PROJECT.json` lists, for each one, the lines it stands
for, and the components that are not modelled.

Contents: [1 The system](#1-the-system) ·
[2 Modules](#2-modules-and-how-they-correspond-to-the-code) ·
[3 Runs](#3-runs-what-is-checked) · [4 Fairness](#4-fairness) ·
[5 Proofs](#5-proofs) · [6 What the models show of the code](#6-what-the-models-show-of-the-code) ·
[7 Not modelled](#7-what-is-not-modelled-and-why) · [8 Plan](#8-plan)

To run: `tlc -workers 2 -config Saga_faults.cfg Saga` and so on for each row of
section 3; `tlapm SagaProofs.tla` and so on, for each `...Proofs` module, for the proofs.

## 1 The system

9plus-api is a set of NestJS services over Postgres (through Prisma), Kafka and
Elasticsearch. A gateway federates the GraphQL schemas of the core service and of
plugins.

| component | state it keeps | operations | talks to |
|---|---|---|---|
| Saga orchestrator (`shared/common/src/saga`) | of one execution: the completed steps, the context, the promise of the running step; optionally a state store whose entries expire | `execute`, `compensate`, `getStatus` | the steps of its caller, hooks, the event publisher, the store |
| Subscription payment saga (`plugins/payment/src/saga`) | the results of its steps | five steps and their compensations | the orchestrator, placeholders for the services |
| Billing and checkout (`plugins/payment/src/billing`, `checkout`) | invoice, transaction and refund rows | `createInvoice`, `processPayment`, `markInvoicePaid`, `processOverdueInvoices`, `refundPayment` | the payment provider, between reading and writing rows |
| Subscriptions and payment methods (`plugins/payment/src`) | subscription and payment method rows | create, update, cancel, reactivate, delete, set default | the database |
| Payment reads (`plugins/payment/src/dataloader` and the services' `find...`) | loaders: a queue, batches, a cache | load by id or by user, pages with a count | the database |
| Payment providers (`plugins/payment/src/providers`) | PayPal's token | create, confirm, cancel, refund a payment | Stripe, PayPal, SePay |
| Core: accounts (`apps/core/src/users`, `auth`, `saga`) | the users table, data loaders that live as long as the process | register, log in, delete, the registration saga | Kafka, the saga orchestrator |
| Core: logins and passwords (`apps/core/src/auth`, `users`) | the row of a user, the loaders' copies of it | log in, failed attempts, change and reset the password, two-factor | bcrypt, the users service |
| Core: event publishing (`apps/core/src/kafka`) | the producer's connection | publish after a write | Kafka |
| Core: plugin registry (`apps/core/src/plugin-management`) | the plugin table | register, update, unregister, status, health check | the plugins' endpoints, the gateway's `/gateway/reload` |
| Core: roles and permissions (`apps/core/src/permissions`, `prisma/seeds`) | roles, permissions, the links between them and users, the grants of organizations | requests of one to three statements, seeds of many | the database only |
| Shared authorization (`shared/authorization/src/guards`) | the context of a request | `AuthGuard`, `PermissionGuard`, `AuthPermissionGuard` | Better Auth |
| Gateway (`apps/gateway/src`) | the list of subgraphs, the composed schema | start, `/gateway/reload`, queries | the core service's query `gatewaySubgraphs` |
| Searcher: consumer and indexing (`apps/searcher/src`) | committed offsets (in Kafka), the handler registry, the connection to Elasticsearch | consume, index, start, stop | Kafka, Elasticsearch |
| Searcher: offsets and synchronisation (`apps/searcher/src/kafka`) | none; what a report has read so far | lag, sync report, reset of offsets | Kafka, Elasticsearch |
| Logger (`apps/logger/src`) | tails, the buffer, flushes under way | watch files, read lines, flush, ship | the files of the other services, Elasticsearch |
| Testing plugin: runs (`plugins/ai-agent-testing/src`) | test runs, test cases, results | `executeTestRun` (a saga), deletions | the orchestrator, the runners |
| Testing plugin: models, generation, documents | model configurations, documents | set default, resolve a model, generate, upload and process a document | language models |
| Testing plugin: runners | the last response of a test case | request, assert | the system under test |

The rest (organizations, gRPC controllers, REST wrapping, the event bus, logging,
scripts) keeps no state of its own; `PROJECT.json` lists it as `not_modelled`.

What makes the system hard is the same in most of these components. The handlers
are async functions that read a row, await something and then write, without a
transaction or a lock around it. Processes stop between two writes. Callers retry,
brokers redeliver, timers race against answers that arrive late. Copies are kept
longer than what they copy. Nothing sweeps up afterwards: what a broken-off call left
stays. `PROJECT.json` lists forty such places under `hazards`, each at its line and
with the properties that would catch it going wrong.

What makes a component correct:

* **Saga**: the effects of a saga that fails are taken back, in reverse order and
  each once; one that completes keeps all of them; the store and the events say no
  more than that; a saga ends unless a hook or a compensation never returns. The payment
  saga leaves no record without those it names, but where a compensation failed.
* **Billing**: the rows never claim what the provider did not do; a paid invoice is
  not charged again and stays paid; refunds add up.
* **Subscriptions and methods**: no column of a request is lost; past due stays past due
  until somebody decides otherwise; a user has one default method.
* **Reads**: a batch answers each key with its own rows; pages miss nothing that stood.
* **Providers**: three vocabularies, one contract: nothing is called final that is not,
  and no more is given back than was taken.
* **Search index**: no offset is committed over a message nobody handled; the index
  ends up as the database, and where it does not, for reasons of each entity's own; a
  report that says so is right.
* **Plugin registry and gateway**: once every change has been reported the gateway's
  list is the registry's; no chain of waiting services closes into a circle.
* **Logger**: a line that was read is neither lost nor shipped twice, and is shipped
  soon.
* **Test runs**: a verdict belongs to the counters and the times beside it and these to
  one execution; nothing is left RUNNING; a model that stood is found; a verdict follows
  from what the evaluated steps heard.
* **Accounts and logins**: nobody is served as somebody else; a registration completes
  or leaves nothing; a compensation erases only its own user; the password is the one
  last chosen, and a lockout has been earned.
* **Roles, permissions, guards**: a check answers what was so while it ran; system roles
  stay; a seed arrives at its table from wherever an earlier one broke off.

## 2 Modules and how they correspond to the code

| module | code | composed with |
|---|---|---|
| `SagaContract` | what a saga promises (abstract) | |
| `Saga` | `SagaOrchestrator.execute` and its participants | implements `SagaContract` |
| `SagaProofs` | theorems about `Saga` | extends `Saga`, `TLAPS` |
| `PaymentSaga` | `subscription-payment.saga.ts` on the orchestrator | extends `Saga`; `MCBilling` |
| `Billing` | billing and checkout services, the provider as they see it | `MCBilling`, with `PaymentSaga` |
| `BillingProofs` | theorems about `Billing` and `PaymentSaga` | extends both and `SagaProofs` |
| `Subscriptions` | subscriptions, payment methods | `MCPayments` |
| `PaymentReads` | loaders, lists and pages of the payment plugin | `MCPayments` |
| `PaymentLife` | what `IPaymentProvider` promises of a payment (abstract) | |
| `Providers` | the Stripe, PayPal and SePay providers, the factory | implements `PaymentLife`; `MCPayments` |
| `PaymentsProofs` | theorems about `Providers`, `Subscriptions`, `PaymentReads` | extends the three, `TLAPS` |
| `SearchIndexing` | users service → Kafka → searcher → Elasticsearch | `MCSearcher` (its safety), `MCPipelines` (its liveness) |
| `SyncReport`, `MCSync` | lag, sync report and reset of offsets | `MCSearcher` |
| `PluginRegistry`, `DynamicGateway` | registry of the core service; gateway | instantiated by `PluginGateway` |
| `PluginGateway` | the two and the webhook between them | `MCGateway` |
| `LogPipeline` | the logger service | `MCPipelines` |
| `PipelinesProofs` | theorems about `SearchIndexing`, `SyncReport`, `LogPipeline` | extends the three, `TLAPS` |
| `TestRuns` | `executeTestRun`, the test run service | |
| `TestGeneration` | model configurations, generation, documents | `MCGeneration` |
| `StepRunner` | the API runner and the factory of runners | `MCGeneration` |
| `TestingProofs` | theorems about `TestRuns`, `TestGeneration`, `StepRunner` | extends the three, `TLAPS` |
| `Accounts`, `MCAccounts` | register, login, the registration saga | |
| `AccountsProofs` | theorems about `Accounts` | extends `Accounts`, `TLAPS` |
| `Logins` | one account after its registration | `MCAccess` |
| `Access`, `SeedTables` | roles, permissions, grants, seeds | `MCAccess` |
| `AccessProofs` | theorems about `Access` | extends `Access`, `TLAPS` |
| `Guards` | the guards before a handler | `MCAccess` |
| `EntryProofs` | theorems about `Guards`, `Logins`, `PluginGateway` | extends the three, `TLAPS` |

Conventions shared by all of them:

* One action is one stretch of code between two awaits. Whatever an operation does
  without awaiting is one action; what it does around an await is several, and
  others run in between.
* `Environment` (`Faults` in `Saga`, `LogEnvironment`, `ReportEnvironment`) is the set
  of things that may go wrong in an instance. Each action that goes wrong names its
  kind. Where a property holds only without some of them, the variable `troubles`
  records which kinds have happened in the behaviour, and the property says
  `troubles \cap {...} = {}`. One run with everything switched on then checks both that
  the named troubles are the only ones that break the property and that all the others
  do not.
* Variables commented *history* are read by properties and by no guard of the code.
* Components that share no state are checked in one run with a variable `part`, fixed
  in the initial state: a behaviour is one of either while the others rest. That gives
  the sum of their state spaces where a product would show nothing more.

**Saga.** `pc` is where `execute` is suspended. `promise[i]` is the promise of step
*i*, which lives on when the timer wins the race, and `effect[i]` what it did outside.
`RunStep`, the outcomes of the race, `onStepComplete`, the loop of `compensate`, the
store updates and `crash` are the actions; publishing an event is part of the action
that does it, since the publisher calls its subscribers without waiting. A step that
rejects after taking effect (`"partial"`) is in the model because the steps in this
repository do that; a compensation that fails may throw (`"compensation"`) or, as the payment
saga's do, keep its error to itself (`"swallow"`). Entries of the store expire (`Expire`), and the update that follows
then does nothing. Store and publisher are optional and typed by interfaces, which Nest
cannot inject without a token; `HasStore` covers both cases.

**PaymentSaga.** The five steps as this saga runs them: what each reads from
`context.stepResults`, the record it makes and what its compensation takes back. The
helpers are placeholders that only resolve after a tenth of a second (`processPayment`
may reject); in the model each may reject. Every compensation catches its error and
returns: `UndoRecord` takes the record back, `KeepRecord` is one that failed, which the
orchestrator counts as done while the record stays.

**Billing.** A member of `Payments` is one call of `processPayment`, its payment
intent and its transaction row. The call is read, intent, confirm, write; where the
provider hands the confirmation to the payer it ends after the intent, and the payer pays
later (`PayerPays`). The provider captures at most once per intent and gives back at most
what it captured. It answers a refund with the money given, or as pending, which later goes
through or fails (`SettleRefund`) without anybody hearing of it, and may report its amount as
0; the refund row and the type REFUND are written as the code writes them, whatever the
answer was. Amounts are whole units, so that partial refunds can add up. `revived` and
`again` remember which invoices a sweep reopened and which calls were accepted for an
invoice that had been paid.

**Subscriptions.** A request reads the row, decides, and writes in a second statement
that names only some columns; `wanted` is the history of what each column was last
asked to be. `setDefault` takes the default away in one statement and gives it in
another. Requests may stop between any two.

**PaymentReads.** A loader queues the keys of one tick, sends them as a batch and keeps
every answer; the rows of a batch come in any order. A page and its count are two
statements side by side, and others insert and delete rows all the while.

**Providers.** Each operation is a request and an answer, either of which may be lost,
to a service that works on its own copy of the payment, which the payer moves too. The
status tables of the three providers and PayPal's token with its life are the code's.
Stripe's refund retrieves the intent before it asks for the refund (`RetrieveIntent`);
PayPal's `cancelPayment` sends nothing, so that the payment is as alive as before
(`LeaveToExpire`); a refund is answered as done or as open, and one that is open settles
later, or fails, at the service.
`PaymentLife` is the common contract; the refinement maps what happened at the service
and what callers were told.

**SearchIndexing.** A write is followed by a publish that may fail or be overtaken;
`assignRole` and `removeRole` write the user and publish nothing (`WriteRoles`). A request
to Elasticsearch that fails for its caller may have had its effect or not, and its message
comes again in either case.
Each topic is a log read by position; the consumer handles one message at a time over
its three topics. `outcome` records what was done with each offset. A commit may fail,
a crash returns the consumer to the committed offset, and a group without one starts
at the end. `silent` holds the entities whose last write has no event, `spoilt` those one of
whose events went wrong; what is said of the index is said of all the others.

**SyncReport.** The requests of one report in the order they are sent, while messages
arrive, are indexed and committed. Every failure is swallowed as the code does it.

**PluginGateway.** A request handler of the registry asks the service behind the url, if
the url is not empty (`Checked`), writes its row, notifies the gateway and waits; the
gateway's load queries the core service back and then assigns the list. Loads overlap, their answers arrive in any order, a failing query leaves the
core service alone in the list. The schema is composed once, at the end of startup.

**LogPipeline.** A file grows, is tailed from its end, and its lines go to the buffer;
a flush takes the whole buffer and awaits a bulk request, and the timer does not wait
for the flush before. A bulk request that fails is swallowed by the shipper.

**TestRuns.** Several executions of one run, each a saga of four steps with a timeout
of five minutes. The promise of a timed-out step goes on writing rows. The row of the
run is shared by the executions, the result rows are not. A step takes the time when it
starts and writes it when its update gets through (`taken`), so that a late update carries
an early time; `clock` counts how often the time was taken.

**TestGeneration.** A request sets a default, changes or deletes a configuration, or
generates: for every item it looks for the default of the project, and if there is
none for the global one, in two statements. `held` and `ever` are the histories of what
stood all the while and at any time. A document is processed behind the answer to its
upload.

**StepRunner.** One test case for either runner, with steps of any kind: requests,
assertions about the response, assertions about the page, and others. `Evaluated` are the
types at which a runner may throw, none of them for the web runner; every other step passes,
an assertion or not. The response that came last, the operators over bodies and the loop
that ends at the first failure are the code's. Bodies are drawn from a few values of which
one contains another and two are *null* and *undefined*; `met` says of an assertion about
the page whether it would hold.

**Accounts.** Lookups by email are batched per tick and cached for the life of the
process (`loader`). Registration saga and calls race for one unique username.
Deleting a user renames nothing and leaves the row; the saga's compensation erases it.

**Logins.** One row and the two copies the loaders keep of it. A request reads a copy,
compares a password, looks the user up again inside `update` and writes the columns
that are not `undefined`; every await is a step, and restarts empty the loaders. A unit
of time is half an hour, the length of a lockout.

**Access.** An operation is the sequence of statements it sends (`CreateRole`,
`UpdateOrganizationRole`, `SeedAll`, ...), a call works through its sequence, and every
kind of statement is an action that the database may refuse. Checks ask one query per
permission or per role. The history `seen` keeps what a check could have seen at any
moment and at all of them, and whether others wrote since a call began. `SeedTables`
holds the seeds' tables, restricted to one role and the rows that make a difference.

**Guards.** A chain of guards over the context of one request, each a question to Better
Auth; meanwhile the session may end and the permission come and go. The organization is
taken from the argument, the input or the context, in the order of the code.

## 3 Runs: what is checked

Sizes are distinct states. Every action of every module is taken in a passing run.

| run | instance | properties | shows | states |
|---|---|---|---|---|
| `saga_faults` | 3 steps, store, all faults | `EveryEffectAccountedFor` `OutcomeHolds` `CompensatesInReverse` `SagaEnds` | whatever times out, throws, hangs, expires or crashes, only the failed step or one whose compensation did not do its work leaves anything behind; success is total; a saga ends unless a hook or a compensation hangs | 1 951 |
| `billing` | 1 invoice, 2 payments, 1 sweep, 2 refunds, price 2; the 5 steps of the payment saga with crashes and failing compensations | `PaidMeansCaptured` `RefundsAddUp` `NeverChargedAgain` `PaidIsSettled` `RecordsHang` `ContractHolds` | rows never outrun the provider in any interleaving; an invoice recorded as paid is charged again only after a sweep reopened it, and stays paid while no call overlaps; the payment saga implements `SagaContract` and leaves no record without those it names, but where a compensation failed | 1 193 000 |
| `payments` | 3 requests for one subscription and 3 methods of 2 users; 3 rows of 2 payers; 2 calls at a provider | `NoChangeLost` `PastDueStands` `DefaultStands` `ReadsHold` `TokensAreValid` `KeepsPaymentLife` | columns keep what was last asked; which interleavings lose the default method; loaders and pages answer for the right keys; every provider implements `PaymentLife` | 1 305 000 |
| `searcher` | 1 user, 3 writes, 1 fault, every trouble; a report over 2 partitions with 2 messages each | `CommittedMeansHandled` `InSyncWhenIdle` `InSyncHolds` | which troubles can lose a message or leave the index behind, and that no other can; what an in-sync report is worth | 5 487 000 |
| `sync_report` | failing requests | `AllDataIsInSync` *violated* | a report made of failed requests says in sync | |
| `gateway` | 1 plugin, with a url or without, 2 calls, every trouble | `InStepAtRest` `CallsEnd` | one successful reload heals whatever went wrong before; nobody waits for ever | 188 000 |
| `pipelines` | 2 users with 3 writes, a failing request or a lost event; 1 log file of 3 lines, 2 flushes, every trouble | `EventuallyInSync` `InOnePlace` `EveryLineIndexed` | the topics are worked off in any order and the index catches up, but for what waits behind a message that is tried for ever; lines that arrive while a batch is on its way are neither lost with it nor sent twice | 304 000 |
| `test_runs` | 2 cases, 2 executions, every trouble | `RunIsTruthful` `VerdictStands` `ExecutionsEnd` | verdict and counters agree even between overlapping and timed-out executions, the times as long as none overlap, and every execution ends | 990 000 |
| `generation` | 2 requests over 3 configurations, 2 items; 1 document; every test case of up to 3 steps for either runner | `ConfigsHold` `DocumentsAttended` `VerdictIsEarned` | one default to a scope as long as nobody else sets one; a model that stood is found; a verdict follows from the responses, as far as the runner looks at them | 859 000 |
| `accounts` | 2 emails that make one username, 2 calls, 1 saga | `OwnUserOnly` `OutcomeIsTruth` `OnlyOwnUserErased` `CallsAnswered` | registrations side by side, lost answers and late steps never mix up users | 940 000 |
| `accounts_unknown` | no trouble | `FreshWithinRequest` *violated* | an email looked up too early stays unknown | |
| `access` | 2 calls of any kind over 3 initial databases; 4 chains of guards; 3 requests of one account, 2 attempts, 1 restart | `AnswersHeld` `LastWriterStands` `SystemRoleStays` `GuardsDecideRightly` `PasswordsHonoured` `LockoutIsEarned` | two operations, checks or seeds interleaved by statements, each stopping anywhere; what guards decide while rights change; what stale copies of an account can and cannot do | 1 119 000 |

**Types.** Each module states its type invariant (`TypeOK`, `BillingTypeOK`,
`LoginsTypeOK`, ...). They hold in the instances above. The configurations name only
the properties that say more, most of which would fail or not evaluate if a variable
lost its type. Those of `Saga`, `Billing`, `Subscriptions`, `SearchIndexing`,
`PluginGateway`, `Accounts`, `Logins`, `Guards` and `Access` are proved.

**Bounds, and why they are enough.** The interesting cases are pairs: two payments of
an invoice, two loads of the gateway, two flushes, two executions of a run, a request
beside a seed. Each instance has the second actor and the third step or write that lets
an effect come *after* a compensation or a newer version. Three steps give a saga a
completed step before, and an untouched step after, the one that fails; the proofs of
section 5 remove this bound. `Subscriptions` takes three requests, so that two can come
between the read and the write of a third. `pipelines` gives each user three writes,
so that one is created, updated and deleted, and `gateway` lets the requests of a behaviour
all give a url or all give none (`given` in `MCGateway`). The bounds are named constants: `MaxVersion`
and `MaxFaults` (writes, faults), `MaxLines`, `MaxFlushes`, `MaxUsers`, `MaxTime` (the
clock of the payment saga and of the providers), `MaxCreated` and `MaxWrites` (rows of
`PaymentReads`, `PageSize` 1 so that there is a second page), `MaxMessages` and
`MaxMishaps` (`SyncReport`), `Limit` and `MaxSteps` (generated items, steps of a test
case), `MaxAttempts` 2, `Horizon`, `MaxStarted` and `MaxRestarts` (`Logins`: enough for
a lockout and its end).

Larger instances that were checked once and are too slow to keep: `SearchIndexing` with
two faults (10 million states), `PluginGateway` with two urls (1.4 million, safety),
`Accounts` with distinct usernames and three users (1.6 million).

`access`, `payments`, `billing` and `generation` declare their calls, requests, payments and
refunds, and `generation` its configurations, interchangeable; neither the modules nor their properties tell them apart, and none of
these properties is a liveness property. `Access` allows at most two calls
(an assumption of the module) because a role is known by its key there and a third call
could delete and make it again behind a seed's back.

`CHECK_DEADLOCK FALSE` is set throughout: calls end, sagas return and the bounds run
out, so every one of these systems may really stop.

**Each property has a mutant** in `PROJECT.json`: a change of one modelled definition,
such as a dropped guard or a swapped order, under which TLC finds the property
violated. The mutated forms stand beside the definitions they replace, for example
`DeleteUnread` in `Access` (a role deleted without being read), `NoClear` there (a seed
that adds a role's permissions to the old ones) and `Spread` in `Logins` (an update that
writes the whole copy back and not its changed columns).

## 4 Fairness

| module | fair | justified by |
|---|---|---|
| `Saga` | the orchestrator's own steps and the timer | the event loop runs what is ready; a configured timer fires. Nothing is assumed of the promises of steps, hooks and compensations. The first are raced against the timer; the others are not, and so `SagaEnds` speaks of the behaviours in which none of these is awaited for ever |
| `SearchIndexing` | publishing, startup, the handler and its commit; strong fairness for receiving from each topic | the consumer takes turns among its topics and receiving is disabled while another message is handled. Failures are not fair, and `MaxFaults` bounds them |
| `PluginGateway` | each await of a call and of a load | requests are answered or fail; the code sets no limit of its own |
| `LogPipeline` | reading, the flush timer, the bulk request | the timer is an interval, the bulk request has a client timeout |
| `TestRuns` | of each execution, the timer of the step it is at and the update of its compensation | only the race of the saga orchestrator, and that the database answers; the steps themselves may hang |
| `Accounts` | the dispatch of a batch, the steps of a call | the data loader dispatches at the next tick |

`pipelines` states the fairness of `SearchIndexing` and of `LogPipeline`; each is idle,
so that its fairness is vacuous, in the behaviours of the other. The remaining modules
check safety only: nothing in that code promises to end.

## 5 Proofs

Every theorem holds for every value of the constants that the assumptions of its module
allow; TLC evaluates those assumptions in each run, and checks on small instances the
properties that the theorems are about (section 3; the statements about types and tables,
`AfterFailureOnlyTheFailedStepLingers` and `RegisteredUrlsAnswered` are only proved).
Hardly any is inductive: each proof goes by an invariant that says what the state between
two statements of the code has to be for the property to survive the next one. A
`...Proofs` module has a part for each of its models; a part states the invariant first,
then lemmas about the model's operators, then those for the actions, and the theorems.

| module | theorem | what it proves |
|---|---|---|
| `SagaProofs` | `TypeCorrectness` | `Spec => []TypeOK` |
| | `NothingOverlooked` | `Spec => []EveryEffectAccountedFor` |
| | `OutcomesHold` | `Spec => []OutcomeHolds` |
| | `CompensationsReverse` | `Spec => []CompensatesInReverse` |
| | `OnlyTheFailedStepLingers` | `Spec => AfterFailureOnlyTheFailedStepLingers` |
| | `SagaImplementsContract` | with no faults but crashes and swallowed compensations, `Spec => ContractHolds` |
| `BillingProofs` | `BillingTypes` | `BillingSpec => []BillingTypeOK` |
| | `BooksFollowProvider` | `BillingSpec => []PaidMeansCaptured` |
| | `RefundRowsHold` | `BillingSpec => []RefundsAddUp` |
| | `NobodyChargedAgain` | `BillingSpec => []NeverChargedAgain` |
| | `PaidStaysSettled` | `BillingSpec => PaidIsSettled` |
| | `RecordsNeverDangle` | with no faults but crashes and swallowed compensations, `PaymentSpec => []RecordsHang` |
| | `PaymentsImplementContract` | with no faults but crashes and swallowed compensations, `PaymentSpec => ContractHolds` |
| `PaymentsProofs` | `TokensStayValid` | `ProvidersSpec => []TokensAreValid` |
| | `PromiseKept` | `ProvidersSpec => KeepsPaymentLife`: it implements `PaymentLife` |
| | `SubscriptionsTypes` | `SubscriptionsSpec => []SubscriptionsTypeOK` |
| | `ChangesLast` | `SubscriptionsSpec => []NoChangeLost` |
| | `DefaultsLast` | `SubscriptionsSpec => []DefaultStands` |
| | `PastDueLasts` | `SubscriptionsSpec => PastDueStands` |
| | `ReadsAreTrue` | `ReadsSpec => []ReadsHold` |
| `PipelinesProofs` | `SearchTypes` | `Spec => []TypeOK` |
| | `CommitsHold` | `Spec => []CommittedMeansHandled` |
| | `IdleIsInSync` | `Spec => []InSyncWhenIdle` |
| | `LinesStayInOnePlace` | `LogSpec => []InOnePlace` |
| | `ReportsAreTrue` | `ReportSpec => []InSyncHolds` |
| `EntryProofs` | `GuardsTypes` | `GuardsSpec => []GuardsTypeOK` |
| | `GuardsAreRight` | `GuardsSpec => []GuardsDecideRightly` |
| | `LoginsTypes` | `LoginsSpec => []LoginsTypeOK` |
| | `VerdictsAreHonoured` | `LoginsSpec => []PasswordsHonoured` |
| | `LockoutsAreEarned` | `LoginsSpec => []LockoutIsEarned` |
| | `GatewayTypes` | `Spec => []TypeOK` |
| | `ListsComeInStep` | `Spec => []InStepAtRest` |
| | `EndpointsHaveAnswered` | `Spec => []RegisteredUrlsAnswered` |
| `TestingProofs` | `VerdictsAreEarned` | `RunnerSpec => []VerdictIsEarned` |
| | `ConfigsKept` | `GenerationSpec => []ConfigsHold` |
| | `DocumentsFinished` | `GenerationSpec => []DocumentsAttended` |
| | `RunsTellTheTruth` | `Spec => []RunIsTruthful` |
| | `VerdictsStand` | `Spec => VerdictStands` |
| `AccountsProofs` | `AccountsTypes` | `Spec => []TypeOK` |
| | `ServedAsThemselves` | `Spec => []OwnUserOnly` |
| | `OutcomesAreTrue` | `Spec => []OutcomeIsTruth` |
| | `OnlyTheirOwnErased` | `Spec => OnlyOwnUserErased` |
| `AccessProofs` | `TablesHold` | `Spec => []TypeOK` |
| | `ChecksAreHonest` | `Spec => []AnswersHeld` |
| | `SystemRolesStay` | `Spec => SystemRoleStays` |
| | `LastWritersStand` | `Spec => []LastWriterStands` |

**Saga**, for every number of steps `N`, every set of effectful steps and of faults.

    IInv == TypeOK /\ LoopInv /\ StepInv /\ FailureInv /\ CompensationInv /\ OutcomeInv

* `LoopInv`: `completed` is 1, 2, ..., one step for each round of the loop. It is
  what turns a statement about the *sequence* the code compensates from into one about
  *all* steps before the failed one.
* `StepInv`: steps ahead of the loop are idle, steps behind it are resolved. Without it
  a late promise of an earlier step could still change something.
* `FailureInv`: there is at most one failed step and it is the one the loop is at; until
  it fails every effect behind it is in place.
* `CompensationInv`: `todo` counts down from the completed steps, and what has been taken
  from it is undone or its compensation did not do its work.
* `OutcomeInv`: the announcement and the stored outcome come after the fact.

`CompensationsReverse` is about the log of published events and needs `ReverseInv`
besides: all compensations begun so far are of steps above `Low`, the step that
`compensate` has come down to, and in falling order. `SagaImplementsContract` needs
`CalmInv`: without timeouts, partial steps, hooks and compensations that throw, a promise
that rejected has no effect, so that the frontier of `SagaContract` is where the loop is. A
compensation that keeps its failure to itself counts as done there, as it does for the
orchestrator: the contract speaks of `Owed`, the effects less those left in this way.

**The payment saga**, with any steps that reject, any compensations that catch their own
failure, and a crash anywhere. A step of it is one of
`Saga` that also makes or erases a record, so that `IInv` and `CalmInv` carry over.
`RecordInv` joins the two: a record is there exactly as long as the effect of its step,
with the id that the orchestrator was given, and names the records of earlier steps. Since
compensations run in reverse order, none goes before those that name it, unless one of
those was left by its own compensation. Both theorems assume `Lenient`: with a timeout or a partial step a record may well be left over.

**Billing**, for any sets of invoices, payments, sweeps and refunds and every price.
`CallInv` and `RefundInv` say what the place of a call in its statements implies of the
provider: who confirmed was captured, a transaction succeeds only behind a call that has
returned. `RefundsAddUp` alone is not inductive, since a refund changes the provider and
the rows in two statements: `BookInv` counts what was given back and is not yet booked.
The sum over all refunds is a function that adds weights up (`AddsUp`), of which the proof
needs only that changing one weight changes the sum by as much. `Alone`, `SweepInv` and
`CalmInv` carry the exception of `PaidIsSettled`: without overlapping calls, at most one is
between its read and its write. `ChargeInv` is what `NeverChargedAgain` needs, with overlap,
hand-off and failure: an invoice with a succeeded transaction is PAID unless a sweep wrote
over it, so that only a call for one of those is let in again. A refund counts
once it is settled; `RefundsAddUp` excepts the transactions with a refund told as pending,
of which the code does not hear again.

**Providers**, for any number of calls, any amount, and every token life, margin and delay
with which `ClockAssumption` (the margin covers both delays) holds. `ClockInv` ties the age
of every request under way to the token that it carries; `MoneyInv` ties what was told to
what happened at the service, whoever pays or cancels there; `CallsInv` says that an answer on its way is still true when
its status is final; `RefundsInv` counts the refunds that callers are yet to be told of.
`PromiseKept` shows step by step that each action is a step of `PaymentLife` or none; the
lemmas on the three status tables and on cents are what it rests on.

**Subscriptions**, for any number of requests, users and methods. `NoChangeLost` is
inductive with the types, because an update writes the columns it was given and no others;
`DefaultInv` adds what a `setDefault` that is alone has done between its two statements.
`PastDueStands` is an action property: the lemma on `Written` says which write can make a
past due row active.

**PaymentReads**, for any number of rows, users and writes and every size of page.

    ReadsInv == TableOK(table) /\ LoadersInv /\ PagerTypes /\ PagesInv /\ PagesCover

* `LoadersInv`: what is settled in the cache for a key, one of the tables since the loader
  was created said of it. The code groups the rows of a batch by a loop, in the model a
  fold; the lemmas show of every batch that the answer of a key has its own rows, each once.
* `PagesInv` counts for each row how many are newer. A reader who has got to a page has
  seen all rows with fewer newer ones than the pages before hold. An insertion pushes rows
  to later pages only, which is why it is harmless, whereas a deletion is not.

**SearchIndexing**, for any number of entities, versions, failures and restarts.
`HandledInv` strengthens `CommittedMeansHandled` from the committed offsets to the position
of the consumer, which is what it commits next. `EventsInv` and `IndexInv` say what the
index has to be *during* the work off: the events of an entity are one for each version,
in order within a topic, and its document is that of the last one consumed. They are said of
each entity that is neither `spoilt` nor `silent`, and what happens to one that is touches
no other.

**LogPipeline**, for any sets of files, lines and flushes. `PlaceInv` says that the buffer,
the batches on their way, the index and the losses are disjoint and make up what was read,
`TailInv` that a tail is past every line read of its file, so that the next line read is new.

**SyncReport**, for any number of topics, partitions and messages.

    SyncInv == PipelineInv /\ OffsetsInv /\ ShapeInv /\ ReadInv /\ StatusesInv /\ LagInv

* `ReadInv` turns on the order of the requests: the high-water mark of a partition is read
  after its committed offset, so that no term of the lag is negative, and a total of 0 means
  that each is 0 (`LagInv`). In the opposite order one partition could make up for another.
* `StatusesInv`: a topic of one partition that is at rest and not short of documents has as
  many documents as messages, each of a different one, and so has all of them.

**PluginGateway**, for any number of plugins, urls and handlers.

    GatewayInv == TypeOK /\ RowsInv /\ LoadsInv /\ ReadsInv /\ ListInv /\ AnswerInv

`ListInv` says of a list that is behind the registry, without a trouble to blame, that
somebody is going to replace it: a handler that has yet to notify, or a load that has yet to
read or to assign. `AnswerInv` says the same of an answer on its way that has become old,
and that the one to replace it was read later; `ReadsInv` keeps the order in which loads
have read. `AskedInv` adds, for `EndpointsHaveAnswered`, that a handler about to write
has asked the service behind the url, unless the url is the empty one, which the code
neither asks nor refuses.

**TestRuns**, for any sets of test cases and executions.

    RunInv == /\ RunTypes /\ \A x \in Executions : Works(x)
              /\ VerdictIsConsistent /\ SummaryInv /\ RunningInv /\ OneAtATime /\ TimesInv

* `Works` follows one execution: which promise of a step lives on, how its counters relate
  to its result rows, and which rows can be RUNNING. It speaks of nothing that executions
  share, so that one lemma covers the others while one moves.
* `TimesInv`: the time that the last step of an execution is about to write is later than the
  `startedAt` of the row, unless executions overlapped.
* `SummaryInv`: the counters of the run are those of an execution whose promise is over.
* `RunningInv` and `OneAtATime` relate the shared row to the executions, outside the
  troubles that the property names.

**TestGeneration**, for any sets of configurations, projects and requests and any items.
`GenerationHolds` follows the histories: what was eligible all the while is so at the moment,
what is so at the moment was so at some time, and a request that has come to the global
default had no model of its project all the while. `AloneHolds` says what a request that
nobody disturbed has reached. `DocumentsAttended` is inductive with the types.

**StepRunner**, for a test case of any length and either runner. `RunnerInv` remembers of every step that
passed why, and of the response kept in `last` which step asked for it and that none asked
since.

**Accounts**, for any number of calls, sagas, users and emails, whatever usernames emails
make. `MakersAssumption` keeps the names of calls and sagas apart, which only the history
of who made a row uses.

    IInv == TypesInv /\ RowsInv /\ LoaderInv /\ CallsInv /\ SagasInv /\ CalmInv

* `RowsInv`: a saga has no row before the promise of its insertion settles, and only one
  that failed has its row erased.
* `LoaderInv`: what the loader keeps names a row with that email. Rows come to be deleted,
  but never change the email they were registered under.
* `SagasInv` (`Owns`): from the insertion on, and as long as a promise of a later step
  lives, the user of a saga is the row it made, also after the saga gave up. That is why
  a late promise and a compensation touch no row of somebody else.
* `CalmInv`: without timeouts and failures no promise outlives its step, so that a failed
  saga has erased all it made.

`OneSaga` says once what a step of one saga leaves true for all the others.

**Logins**, for any number of requests, passwords and restarts and every `MaxAttempts`.
`LockoutsAreEarned` is carried by `Earned`: neither the row, nor a copy in a loader, nor a
pending write ever holds more attempts than passwords were refused. `MemoryFits` is the
same idea for passwords: whatever a request compares with was the row's at some moment of
the request unless its copy was stale when it began.

**Access**, for every set of roles and keys, every table that the seeds write, and any two
calls (`CallsAssumption`, for the reason given in section 3).

* `CheckInv`: every question already answered is recorded against what was so at some moment
  of the check and at all of them.
* `EraseInv`: a role about to be deleted was none of the system's when it was read, and has
  become one since only if somebody else wrote.
* `LastStandInv == AccessTypes /\ ShapeInv /\ KeptInv /\ LastInv` is the heart: for each
  operation, the tables are already as it is to leave them, apart from the statements that it
  has yet to send. `KeptInv` says when nobody else can have come between: when the other call
  is none, or runs the same seed, whose statements repeat those of the first. A seed's list is
  as long as its tables; that its statements are what the tables ask for, in an order in
  which each finds what it needs, is proved from the fold that flattens them.

**Guards**, for every set of chains of guards, every set of organizations and every way a
request may name one, under `GuardsAssumption` (a chain is not empty). `GuardsDecideRightly`
looks at the end of a request only; what makes it hold is said of every moment before:

    IInv == GuardsTypeOK /\ HistoryInv /\ ChainInv /\ PassedInv /\ QuestionInv /\ RefusalInv

* `HistoryInv`: the history knows the present moment of a request under way, so that an
  answer of Better Auth is a fact of the history at once.
* `ChainInv`: what is left of the chain is its end, and the handler comes after all of it.
* `PassedInv`: every guard behind the request had what it asks, whatever was revoked since.
* `QuestionInv`: a question is put only by a guard that asks it, and the one about the
  permission only after the one about the session was answered; without it an answer
  would prove nothing about its guard.
* `RefusalInv`: a refusal is Better Auth's failure, a missing token, or some guard's no.

**Data of every length.** The library's induction theorems take an operator as a parameter
and are out of these provers' reach. What the lemmas need of folds, sums and flattened lists
is shown by a least counterexample instead: a set of numbers that is not empty has a least
element (`LeastNumber`, from well-foundedness), and the function that the library defines a
fold by exists because the one for a shorter prefix does.

**Only model-checked**

* The liveness properties `SagaEnds`, `CallsEnd`, `EventuallyInSync`, `EveryLineIndexed`,
  `ExecutionsEnd` and `CallsAnswered`: they rest on fairness, and TLAPS does not reason about
  `ENABLED` here.
* That the instances combined in one run (`MCBilling`, `MCPayments`, ...) behave as their
  parts: the theorems are about the specifications of the parts.
* The two properties of section 6 that the code violates.

## 6 What the models show of the code

Disagreements with a document or a message of the code, each shown by a run:

* **A report of failed requests says "in sync"** (`sync_report`). Topics whose offsets
  cannot be read are left out (`kafka-sync.service.ts:63`), the total lag becomes 0
  (`kafka-offset.service.ts:125`), and the report says "All data is in sync!"
  (`kafka-sync.service.ts:124`).
* **An email looked up before its user exists stays unknown** (`accounts_unknown`).
  `UsersService` creates its loaders once and never clears them; `register` looks the email
  up first, so that every later login in this process answers "Invalid credentials".
  `apps/core/docs/DATALOADER.md:11` speaks of a cache "within a single request".

Found while modelling, and visible in the actions or in the conditions of properties:

*Saga and payments*

* A step that loses against its timer may take effect during or after the compensation, and
  nothing takes that back (`EveryEffectAccountedFor` excepts the failed step), while
  `docs/architecture/SAGA_IMPLEMENTATION_SUMMARY.md:363` says "No partial states left".
  `compensate` called by itself goes from front to back.
* `shared/common/src/saga/README.md:142` says "Configure timeouts at the saga level to prevent
  hung executions". Steps are raced against that timeout; compensations
  (`saga-orchestrator.service.ts:263`) and hooks (211, 227) are awaited without one, and a
  promise of theirs that never settles keeps the saga for ever (the condition of `SagaEnds`).
* Every compensation of the payment saga catches its own error: the saga ends COMPENSATED
  with the record still there (`RecordsHang` and `ContractHolds` count it as left).
* Payments of one invoice that overlap can both charge it. So can two in a row: the
  providers hand the confirmation to the payer, the invoice stays PENDING, no webhook handler
  exists (`billing.service.ts:165`), and the check "Invoice is already paid" (127) goes by
  the status. `NeverChargedAgain` is therefore about invoices whose payment was *recorded*.
  A sweep may dun an invoice that was paid after it was read and reopen it
  (`PaidIsSettled` except overlap, `revived`).
* A refund is written, and the transaction made a REFUND, whatever status the provider
  answered with (`checkout.service.ts:187`, 195, under the comment "Update transaction if
  fully refunded"): one answered as pending may yet fail. Partial refunds that add up to the
  whole, on the other hand, never mark a transaction.
* Reactivating writes ACTIVE whatever the row was: a trial becomes active with
  `isTrialing` still set, and a past-due subscription is active again after cancel and
  reactivate.
* `setDefault` takes the default away before it looks at the method it names: with a
  method that was deleted or is somebody else's, the user is left with none.
* The loaders of the payment plugin are described as scoped to a request
  (`payment.dataloader.service.ts:17-20`), but belong to a singleton that no resolver
  uses. The loader of methods by user includes inactive ones, unlike `findByUserId`.
* PayPal refunds name the order and not its capture, always in USD, and may report an
  amount of 0. Cancelling at PayPal does nothing (`paypal.provider.ts:169`), although the
  interface says "Cancel a payment intent": the payer can still approve the order, and a
  confirmation that comes afterwards captures it. SePay always reports VND. All three
  hand the confirmation to the payer, so that `processPayment` never completes in one
  call, and nothing handles webhooks. PayPal's token is valid when it is used only if
  requests take less than half of the margin of a minute (`TokensAreValid`); they have
  no timeout.

*Search, gateway, logger*

* The retry count of a message is read from a header nobody increments
  (`kafka-consumer.service.ts:197`, against the comment at 205): a message that always fails
  is retried for ever and blocks its topic, although `apps/searcher/VISUAL_GUIDE.md:417` says
  that the dead letter queue does not block the queue. Nothing has to go wrong for that: an
  update that is consumed after the deletion of its user finds no document (`Stuck` and
  `Held` in `EventuallyInSync`). The dead letter queue is reached only by messages whose
  header was set by hand.
* `assignRole` and `removeRole` (`users.service.ts:355`) publish nothing, so that the index
  shows the roles of before until the next event (`silent`).
* A plugin registered or updated with an empty url is never asked for its schema
  (`plugin-management.service.ts:18`, 74), and stands in the gateway's list once it is active.
* The sync report compares the high-water mark of one partition with the count of all
  documents (`docker-compose.yaml:304` asks for three partitions), and compares numbers:
  a newer document makes up for a missing one, and a deletion counts as missing. Offsets
  cannot be reset while the consumer runs.
* A reload replaces the array of subgraphs (`dynamic-gateway.service.ts:58`), but the
  schema was composed from it once at startup; the controller answers "Schema reloaded
  successfully" (`gateway.controller.ts:23`).
* A bulk request that fails is swallowed by the shipper (`log-shipper.service.ts:121`), so
  that the branch of `flushBuffer` that puts a batch back for a retry
  (`file-watcher.service.ts:195`) is dead, and the lines of a rejected batch are gone: for
  `InOnePlace` they are in `dropped`.

*Testing plugin*

* Between the two statements of `setAsDefault` a generation finds the global model or
  none. Deleting a project turns its configurations into global ones.
* A document stays PENDING or PROCESSING after a crash; one that cannot be parsed is
  COMPLETED. The document and security generators have no resolver.
* The API runner ignores a step's timeout; `equals` without an expected value passes on
  a path that is missing. The web runner is a simulation that always passes, while the
  plugin's README (279-281) lists the assertions it would evaluate; the API runner passes
  over every type it does not know (`api-runner.ts:211`). `VerdictIsEarned` says how little
  PASSED means there: of what a runner does not evaluate, nothing.
* `finishedAt` is the time at which the last step started (`execute-test-run.saga.ts:268`):
  of overlapping executions, the later to write may carry a time before `startedAt`.

*Accounts, logins, rights*

* The copies of a row live as long as the process. Failed attempts are counted from the
  copy, so that within one process each writes the same number and a lockout needs
  restarts, although `MAX_LOGIN_ATTEMPTS` is 5 (`apps/core/.env.example:29`); the half
  hour is a constant and the `LOCKOUT_DURATION` of that file is read by nobody. A new
  password is unknown to logins until a restart (`PasswordsHonoured` excepts stale
  copies).
* Columns given as `undefined` are left alone: a reset keeps its token, and a lockout
  ends only by time. The reset token is one constant. `setupTwoFactor` stores no secret,
  so that `enableTwoFactor` always refuses; `verifyToken` is a placeholder that answers
  false, so that a user with two-factor enabled could not log in.
* `PermissionGuard`, `AuthPermissionGuard` and `CaslGuard` guard no handler in this
  repository. `PermissionGuard` does not look at `@Public`.
* `schema.prisma:191` says "System roles can't be deleted"; `deleteRole` reads and deletes
  in two statements, and a seed may adopt the role in between (`SystemRoleStays` excepts
  the deletions that others wrote beside).
* The two seeds of system roles use different keys for the same resource, action and
  scope; whichever runs second fails at the unique columns. In `Access` this is `Clashes`.
* `organizations.seed.ts:66` says that its table matches the one in
  `permissions.seed.ts`; a member may delete comments in one and not in the other.

## 7 What is not modelled, and why

* Calls that only map a request onto a library: Better Auth (sessions, organizations,
  memberships), bcrypt, signed tokens, gRPC controllers, the providers' customers, stored
  methods and own subscriptions.
* Pure data: formatting of logs and errors, GraphQL types, REST wrapping, index mappings,
  prompts and payload lists of the generators, schemas stitched at build time.
* Reads that decide nothing: filtered lists, summaries, statistics.
* Retries inside the Elasticsearch client, which may index a document twice; documents are
  keyed by id, so for the index of users a repetition changes nothing.
* Shutdown of services without shutdown hooks: SIGTERM is the crash of the models.
* Code without callers: `UsersService.register`, `login` and `verifyEmail`, `bulkIndex`,
  `ModelConfigService.save`, the `GatewayConfigFactory`, `retryAttempts` and
  `continueOnError` of the saga configuration, the store's `get`, `getAll`, `delete` and
  `clear`. `RolePermissionService` and `permissions.dynamic.ts` have no callers either,
  but are the only writers of their tables beside the seeds and are modelled as they
  stand.
* The event bus of the testing plugin: it calls its handlers in turn and swallows their
  errors, and nothing subscribes to it.

## 8 Plan

The order followed the weight of what can go wrong: money and outcome first (Saga,
Billing, Subscriptions, Providers), then the replicated state (search index, gateway),
then the single services; for each the model, its runs, and then the theorems about what
the runs check. That is done. What could follow, as the code grows:

1. **Compositions.** The searcher and its reports share Kafka, and logins share their rows
   with the registration saga; both pairs are modelled side by side.
2. **Organizations** and Better Auth's own tables, once this repository writes them itself.
3. **One-time checkout** as soon as it does more than throw, the gateway's response cache as
   soon as it is enabled, webhooks of the providers as soon as something handles them.
