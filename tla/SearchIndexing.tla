--------------------------- MODULE SearchIndexing ---------------------------
(***************************************************************************)
(* The search index that the searcher service builds from the events of    *)
(* the core service:                                                       *)
(*   apps/core/src/users/users.service.ts                 writes, publishes *)
(*   apps/core/src/kafka/kafka-producer.service.ts                         *)
(*   apps/searcher/src/kafka/kafka-consumer.service.ts    consumes         *)
(*   apps/searcher/src/indexing, .../elasticsearch        indexes          *)
(*                                                                         *)
(* Created, updated and deleted events go to three topics.  A topic is     *)
(* one log here: an entity's events share a key, hence a partition, and    *)
(* the other partitions behave like other instances of this log.  The      *)
(* consumer handles one message at a time over all its topics              *)
(* (partitionsConsumedConcurrently: 1).  A version stands for the data of  *)
(* an entity; 0 is no document.                                            *)
(***************************************************************************)
EXTENDS Integers, Sequences, FiniteSets

CONSTANTS
  Entities,
  MaxVersion,    \* bound: writes to one entity
  Writes,        \* the writes after the first one, "updated" and "deleted"
  RetryHeaders,  \* values of x-retry-count: 0 from core, others set by hand
  MaxFaults,     \* bound: restarts and failures together
  Environment    \* what may go wrong

MAX_RETRIES == 3
Topics == {"created", "updated", "deleted"}
NoOffset == -1

EnvironmentKinds ==
  { "fresh",     \* the group may just have been joined, without offsets
    "reorder",   \* events of concurrent requests may be published out of order
    "lost",      \* publishing may fail, which the core service only logs
    "early",     \* messages may arrive before handlers and connection are up
    "esDown",    \* the connection attempt at startup may fail
    "esError",   \* a request to Elasticsearch may fail, having had its effect or not
    "commit",    \* commitOffsets may fail
    "shutdown",  \* the service may be asked to stop
    "crash" }    \* the process may die

ASSUME VersionAssumption == MaxVersion \in Nat /\ MaxFaults \in Nat
ASSUME WritesAssumption == Writes \subseteq {"updated", "deleted"}
ASSUME RetryAssumption == RetryHeaders \subseteq Nat /\ 0 \in RetryHeaders
ASSUME EnvironmentAssumption == Environment \subseteq EnvironmentKinds

VARIABLES
  db,          \* the version of each entity and whether it is soft-deleted
  unsent,      \* the events of requests that have yet to publish them
  log,         \* the topics
  committed,   \* the group's committed offset of each topic
  service,     \* "down", "up" or "stopping"
  registered,  \* whether the handlers are in messageHandlers
  es,          \* the state of the one connection attempt (isConnected)
  position,    \* the offset the consumer reads next, of each topic
  busy,        \* the topic whose message is being handled, or "none"
  done,        \* whether the handler has returned, so that commit is next
  index,       \* the version in the search index, 0 without a document
  outcome,     \* history: what became of each message handled
  silent,      \* history: the entities whose last write has no event
  spoilt,      \* history: the entities one of whose events went wrong
  faults,      \* restarts and failures so far
  troubles     \* history: what of Environment has happened, and "replay" once
               \* a message with a retry count was published by hand

core == <<db, unsent, silent>>
consumer == <<service, registered, es, position, busy, done>>
vars == <<core, log, committed, consumer, index, outcome, spoilt, faults,
          troubles>>

Event == [entity : Entities, version : 1..MaxVersion, retries : RetryHeaders]
Message == log[busy][position[busy] + 1]

Init ==
  /\ db = [e \in Entities |-> [version |-> 0, deleted |-> FALSE]]
  /\ unsent = {}
  /\ log = [t \in Topics |-> <<>>]
  /\ \/ /\ troubles = {}
        /\ committed = [t \in Topics |-> 0]
        /\ service = "down"
     \/ /\ "fresh" \in Environment
        /\ troubles = {"fresh"}
        /\ committed = [t \in Topics |-> NoOffset]
        /\ service = "up"
  /\ registered = FALSE
  /\ es = "connecting"
  /\ position = [t \in Topics |-> 0]
  /\ busy = "none"
  /\ done = FALSE
  /\ index = [e \in Entities |-> 0]
  /\ outcome = {} /\ silent = {} /\ spoilt = {}
  /\ faults = 0

Trouble(kind) ==
  /\ kind \in Environment
  /\ troubles' = troubles \cup {kind}

Fault(kind) ==
  /\ Trouble(kind)
  /\ faults < MaxFaults
  /\ faults' = faults + 1

-----------------------------------------------------------------------------
(* The core service *)

\* The loaders find soft-deleted users as well, so that one can be updated
\* and deleted again.
Write(e, kind) ==
  /\ IF db[e].version = 0 THEN kind = "created" ELSE kind \in Writes
  /\ db[e].version < MaxVersion
  /\ db' = [db EXCEPT ![e].version = @ + 1,
                      ![e].deleted = @ \/ kind = "deleted"]
  /\ unsent' = unsent \cup
       {[topic |-> kind, entity |-> e, version |-> db[e].version + 1]}
  /\ silent' = silent \ {e}
  /\ UNCHANGED <<log, committed, consumer, index, outcome, spoilt, faults, troubles>>

\* assignRole and removeRole, which publish nothing.
WriteRoles(e) ==
  /\ db[e].version \in 1..(MaxVersion - 1)
  /\ db' = [db EXCEPT ![e].version = @ + 1]
  /\ silent' = silent \cup {e}
  /\ UNCHANGED <<unsent, log, committed, consumer, index, outcome, spoilt, faults, troubles>>

Oldest(m) == \A n \in unsent : n.entity = m.entity => m.version <= n.version

Publish(m) ==
  /\ m \in unsent
  /\ Oldest(m) \/ "reorder" \in Environment
  /\ unsent' = unsent \ {m}
  /\ \E r \in RetryHeaders :
       /\ troubles' = troubles \cup (IF Oldest(m) THEN {} ELSE {"reorder"})
                               \cup (IF r = 0 THEN {} ELSE {"replay"})
       /\ log' = [log EXCEPT ![m.topic] = Append(@,
         [entity |-> m.entity, version |-> m.version, retries |-> r])]
  /\ spoilt' = IF Oldest(m) THEN spoilt ELSE spoilt \cup {m.entity}
  /\ UNCHANGED <<db, silent, committed, consumer, index, outcome, faults>>

\* create, update and delete swallow the error of publishUserEvent.
LosePublish(m) ==
  /\ m \in unsent
  /\ Fault("lost")
  /\ unsent' = unsent \ {m}
  /\ spoilt' = spoilt \cup {m.entity}
  /\ UNCHANGED <<db, silent, log, committed, consumer, index, outcome>>

-----------------------------------------------------------------------------
(* Life of the searcher *)

\* The group resumes at its committed offset; where it has none, it starts
\* at the end (fromBeginning: false).
StartOffset(t) == IF committed[t] = NoOffset THEN Len(log[t]) ELSE committed[t]
PassedOver(t) == {log[t][i].entity : i \in (position[t] + 1)..StartOffset(t)}

Start ==
  /\ service = "down"
  /\ service' = "up"
  /\ registered' = FALSE
  /\ es' = "connecting"
  /\ position' = [t \in Topics |-> StartOffset(t)]
  /\ spoilt' = spoilt \cup UNION {PassedOver(t) : t \in Topics}
  /\ UNCHANGED <<core, log, committed, busy, done, index, outcome, faults,
                 troubles>>

\* The indexing module is initialised after the Kafka module whose consumer
\* is running by then.
RegisterHandlers ==
  /\ service = "up" /\ ~registered
  /\ registered' = TRUE
  /\ UNCHANGED <<core, log, committed, service, es, position, busy, done,
                 index, outcome, spoilt, faults, troubles>>

\* tryConnect is not awaited and never repeated.
TryConnect ==
  /\ service = "up" /\ es = "connecting"
  /\ \/ es' = "ready" /\ UNCHANGED troubles
     \/ es' = "unreachable" /\ Trouble("esDown")
  /\ UNCHANGED <<core, log, committed, service, registered, position, busy,
                 done, index, outcome, spoilt, faults>>

\* onModuleDestroy, when the application is closed; without shutdown hooks in
\* main.ts a signal does not get here, and is a crash.
BeginShutdown ==
  /\ service = "up"
  /\ Fault("shutdown")
  /\ service' = "stopping"
  /\ UNCHANGED <<core, log, committed, registered, es, position, busy, done,
                 index, outcome, spoilt>>

\* What was done and not committed is done again.
Abandon ==
  /\ busy' = "none"
  /\ done' = FALSE
  /\ spoilt' = IF done THEN spoilt \cup {Message.entity} ELSE spoilt

\* Disconnecting after five seconds, whatever is still being handled.
Disconnect ==
  /\ service = "stopping"
  /\ service' = "down"
  /\ Abandon
  /\ UNCHANGED <<core, log, committed, registered, es, position, index,
                 outcome, faults, troubles>>

Crash ==
  /\ service # "down"
  /\ Fault("crash")
  /\ service' = "down"
  /\ Abandon
  /\ UNCHANGED <<core, log, committed, registered, es, position, index,
                 outcome>>

-----------------------------------------------------------------------------
(* Consuming *)

\* Offsets are committed one past the message, neither at it nor beyond.
SameOffset(k) == k
TwoFurther(k) == k + 2
NextOffset(k) == k + 1

Happened(how) == outcome' = outcome \cup {<<busy, position[busy], how>>}

Ready == registered /\ es # "connecting"

Receive(t) ==
  /\ service = "up" /\ busy = "none"
  /\ IF Ready THEN UNCHANGED troubles ELSE Trouble("early")
  /\ position[t] < Len(log[t])
  /\ busy' = t
  /\ UNCHANGED <<core, log, committed, service, registered, es, position,
                 done, index, outcome, spoilt, faults>>

\* eachMessage returns at once while the service stops: the message counts
\* as processed, and is committed with the next automatic commit.
SkipWhenStopping(t) ==
  /\ service = "stopping" /\ busy = "none"
  /\ position[t] < Len(log[t])
  /\ position' = [position EXCEPT ![t] = @ + 1]
  /\ committed' \in {committed, [committed EXCEPT ![t] = position[t] + 1]}
  /\ outcome' = outcome \cup {<<t, position[t], "skipped">>}
  /\ spoilt' = spoilt \cup {log[t][position[t] + 1].entity}
  /\ UNCHANGED <<core, log, service, registered, es, busy, done, index, faults,
                 troubles>>

\* updateDocument and deleteDocument fail without a document; a handler that
\* took this for success would go on.
NeverMissing == FALSE
Missing == busy # "created" /\ index[Message.entity] = 0

\* The handler of the topic has its effect on the index.
Effect ==
  /\ ~Missing
  /\ index' = [index EXCEPT ![Message.entity] =
                 IF busy = "deleted" THEN 0 ELSE Message.version]

Apply ==
  /\ busy # "none" /\ ~done
  /\ registered /\ es = "ready" /\ Effect
  /\ Happened("applied")
  /\ done' = TRUE
  /\ UNCHANGED <<core, log, committed, service, registered, es, position,
                 busy, spoilt, faults, troubles>>

\* No handler yet, or an ElasticsearchService that is not connected and
\* returns null: nothing happens, and the message is committed.
Skip ==
  /\ busy # "none" /\ ~done
  /\ ~registered \/ es # "ready"
  /\ Happened("skipped")
  /\ done' = TRUE
  /\ spoilt' = spoilt \cup {Message.entity}
  /\ UNCHANGED <<core, log, committed, service, registered, es, position,
                 busy, index, faults, troubles>>

Commit ==
  /\ busy # "none" /\ done
  /\ position' = [position EXCEPT ![busy] = NextOffset(@)]
  /\ committed' = [committed EXCEPT ![busy] = NextOffset(position[busy])]
  /\ busy' = "none"
  /\ done' = FALSE
  /\ UNCHANGED <<core, log, service, registered, es, index, outcome, spoilt, faults,
                 troubles>>

\* getRetryAttempt reads a header that nothing in the consumer increments.
\* An error that is swallowed instead would be committed at once.
NoRetry == FALSE
MayRetry == Message.retries < MAX_RETRIES

\* An error while handling is thrown again, and the message is redelivered,
\* or it goes to the dead letter queue and is committed.  Sending it there
\* may fail, which is only logged.
Throw ==
  \/ /\ MayRetry
     /\ busy' = "none"
     /\ done' = FALSE
     /\ UNCHANGED <<position, committed, outcome>>
  \/ /\ ~MayRetry
     /\ \E how \in {"dead", "skipped"} : Happened(how)
     /\ position' = [position EXCEPT ![busy] = NextOffset(@)]
     /\ committed' = [committed EXCEPT ![busy] = NextOffset(position[busy])]
     /\ busy' = "none"
     /\ done' = FALSE

\* A request may have had its effect when it fails for its caller.
HandlerFails ==
  /\ busy # "none" /\ ~done
  /\ registered /\ es = "ready"
  /\ \/ Missing /\ UNCHANGED <<index, faults, troubles>>
     \/ Fault("esError") /\ (Effect \/ UNCHANGED index)
  /\ Throw
  /\ spoilt' = IF index' # index \/ ~MayRetry THEN spoilt \cup {Message.entity} ELSE spoilt
  /\ UNCHANGED <<core, log, service, registered, es>>

\* The commit is inside the try block, so its failure is handled the same way.
CommitFails ==
  /\ busy # "none" /\ done
  /\ Fault("commit")
  /\ Throw
  /\ spoilt' = spoilt \cup {Message.entity}
  /\ UNCHANGED <<core, log, service, registered, es, index>>

-----------------------------------------------------------------------------
UserService ==
  \/ \E e \in Entities : WriteRoles(e) \/ \E kind \in Topics : Write(e, kind)
  \/ \E m \in unsent : Publish(m) \/ LosePublish(m)

LifeCycle ==
  \/ Start
  \/ RegisterHandlers
  \/ TryConnect
  \/ BeginShutdown
  \/ Disconnect
  \/ Crash

Consume ==
  \/ \E t \in Topics : Receive(t) \/ SkipWhenStopping(t)
  \/ Apply
  \/ Skip
  \/ Commit
  \/ HandlerFails
  \/ CommitFails

Next == UserService \/ LifeCycle \/ Consume

Spec == Init /\ [][Next]_vars

\* The core publishes what it wrote, the service starts and its consumer runs;
\* the poll loop comes back to every topic that has messages.
Fairness ==
  /\ WF_vars(\E m \in unsent : Publish(m))
  /\ WF_vars(Start \/ RegisterHandlers \/ TryConnect)
  /\ \A t \in Topics : SF_vars(Receive(t))
  /\ WF_vars(Apply \/ Skip \/ HandlerFails \/ Commit)

FairSpec == Spec /\ Fairness

-----------------------------------------------------------------------------
(* Properties *)

TypeOK ==
  /\ db \in [Entities -> [version : 0..MaxVersion, deleted : BOOLEAN]]
  /\ unsent \subseteq [topic : Topics, entity : Entities, version : 1..MaxVersion]
  /\ log \in [Topics -> Seq(Event)]
  /\ \A t \in Topics : /\ committed[t] \in NoOffset..Len(log[t])
                       /\ position[t] \in 0..Len(log[t])
  /\ service \in {"down", "up", "stopping"}
  /\ registered \in BOOLEAN
  /\ es \in {"connecting", "ready", "unreachable"}
  /\ busy \in Topics \cup {"none"}
  /\ done \in BOOLEAN
  /\ index \in [Entities -> 0..MaxVersion]
  /\ outcome \subseteq Topics \X Nat \X {"applied", "skipped", "dead"}
  /\ silent \subseteq Entities /\ spoilt \subseteq Entities
  /\ faults \in 0..MaxFaults
  /\ troubles \subseteq Environment \cup {"replay"}

\* The committed offset passes over no message the handler has not completed:
\* after a crash or a failing request or commit every such message is
\* delivered again (commitOffsets after the handler, a rethrown error
\* otherwise).  Messages that meet no handler or no connection, that meet a
\* shutdown, that were given up by hand or published before the first commit
\* of a new group are the exceptions; but whatever else goes wrong, a group
\* that has offsets jumps over no message unseen: every committed one was
\* applied, skipped by eachMessage, or sent to the dead letter queue.
CommittedMeansHandled ==
  \A t \in Topics : \A k \in 0..(committed[t] - 1) :
    /\ troubles \cap {"early", "esDown", "shutdown", "replay", "fresh"} = {} =>
         <<t, k, "applied">> \in outcome
    /\ "fresh" \notin troubles =>
         \E how \in {"applied", "skipped", "dead"} : <<t, k, how>> \in outcome

InSync(e) == index[e] = IF db[e].deleted THEN 0 ELSE db[e].version

\* Nothing to publish, nothing to consume.
Idle ==
  /\ unsent = {} /\ busy = "none"
  /\ \A t \in Topics : position[t] = Len(log[t])

\* Once everything published has been consumed, the index shows an entity as
\* the database has it, whatever order the topics are consumed in and whatever
\* stops, restarts and fails, with two exceptions: its last write was one that
\* publishes nothing; or one of its own events was lost, out of order, passed
\* over, skipped, given up, or delivered again after it had had its effect,
\* which the handlers, that do not compare versions, apply once more.  What
\* went wrong with one entity never spoils another.
InSyncWhenIdle ==
  service = "up" /\ Idle => \A e \in Entities : InSync(e) \/ e \in spoilt \cup silent

\* An update or deletion whose document is gone for good: nothing in the
\* consumer counts its attempts, so that it is tried for ever, and what is
\* behind it in its topic waits.
Stuck(t) ==
  /\ t # "created" /\ position[t] < Len(log[t])
  /\ LET e == log[t][position[t] + 1].entity
     IN  /\ index[e] = 0
         /\ \A i \in (position["created"] + 1)..Len(log["created"]) : log["created"][i].entity # e
         /\ db[e].deleted \/ e \in spoilt
Held(e) ==
  \E t \in Topics : Stuck(t) /\ \E i \in (position[t] + 1)..Len(log[t]) : log[t][i].entity = e

\* The topics are worked off in whatever order, failing requests are repeated,
\* and the index ends up showing every entity as the database has it, but for
\* the exceptions of InSyncWhenIdle and for the events held up behind one of an
\* entity that was deleted before it was updated, or that was spoilt.
EventuallyInSync ==
  <>[](\A e \in Entities : InSync(e) \/ e \in spoilt \cup silent \/ Held(e))

=============================================================================
