--------------------------- MODULE PipelinesProofs ---------------------------
(***************************************************************************)
(* Theorems about modules SearchIndexing, SyncReport and LogPipeline: for  *)
(* any number of entities, versions, failures and restarts, and every      *)
(* environment, what is committed was handled, and an idle consumer has    *)
(* the index in step; for any number of topics, partitions and messages, a *)
(* report that says in sync tells the truth; and for any number of files,  *)
(* lines and flushes, a line of the log is in one place.                   *)
(***************************************************************************)
EXTENDS SearchIndexing, LogPipeline, SyncReport, SequenceTheorems, FiniteSetTheorems,
  WellFoundedInduction, TLAPS

-----------------------------------------------------------------------------
(* The inductive invariant *)

TypesInv ==
  /\ TypeOK
  /\ committed \in [Topics -> Nat \cup {NoOffset}] /\ position \in [Topics -> Nat]

\* What is being handled is there; what went wrong is remembered.
FlowInv ==
  /\ busy # "none" =>
       /\ service # "down" /\ position[busy] < Len(log[busy])
       /\ Ready \/ "early" \in troubles
  /\ done => busy # "none"
  /\ service = "stopping" => "shutdown" \in troubles
  /\ es = "unreachable" => "esDown" \in troubles
  /\ \A t \in Topics :
       /\ \A i \in 1..Len(log[t]) : log[t][i].retries # 0 => "replay" \in troubles
       /\ committed[t] = NoOffset => "fresh" \in troubles

\* The message at offset k of t may be committed.
Counted(t, k) ==
  /\ troubles \cap {"early", "esDown", "shutdown", "replay", "fresh"} = {} =>
       <<t, k, "applied">> \in outcome
  /\ "fresh" \notin troubles =>
       \E how \in {"applied", "skipped", "dead"} : <<t, k, how>> \in outcome

\* Not only what is committed: the consumer has never gone past a message that
\* may not be, since its position is what it commits next.
HandledInv ==
  /\ \A t \in Topics, k \in Nat : k < committed[t] => Counted(t, k)
  /\ service # "down" => \A t \in Topics, k \in Nat : k < position[t] => Counted(t, k)
  /\ done => Counted(busy, position[busy])

\* What lies between the committed offset and the consumer's own was passed over.
PassedInv ==
  \A t \in Topics :
    /\ committed[t] <= position[t]
    /\ committed[t] # NoOffset =>
         \A i \in (committed[t] + 1)..position[t] : log[t][i].entity \in spoilt

\* The message at index i of topic t has had its effect.
Consumed(t, i) == i <= position[t] \/ (busy = t /\ done /\ i = position[t] + 1)

OfTopic(t, e) == {i \in 1..Len(log[t]) : log[t][i].entity = e}

\* The events of an entity, published or not, are in the order of the versions,
\* the first in topic "created", the last write has one unless it was silent,
\* and one deletes the entity just when it is deleted.
Unspoilt == Entities \ spoilt
EventsInv ==
  /\ \A m \in unsent : m.version <= db[m.entity].version
  /\ \A m \in unsent : m.topic = "created" <=> m.version = 1
  /\ \A m, n \in unsent : m.entity = n.entity /\ m.version = n.version => m = n
  /\ \A e \in Unspoilt, t \in Topics : \A i \in OfTopic(t, e) :
       /\ log[t][i].version <= db[e].version
       /\ t = "created" <=> log[t][i].version = 1
       /\ \A m \in unsent : m.entity = e => log[t][i].version < m.version
       /\ \A j \in OfTopic(t, e) : j < i => log[t][j].version < log[t][i].version
  /\ \A e \in Unspoilt, v \in 1..MaxVersion :
       /\ v <= db[e].version
       /\ v = 1 \/ (v = db[e].version /\ e \notin silent)
       => \/ \E m \in unsent : m.entity = e /\ m.version = v
          \/ \E t \in Topics : \E i \in OfTopic(t, e) : log[t][i].version = v
  /\ \A e \in Unspoilt : db[e].deleted <=>
       \/ \E m \in unsent : m.entity = e /\ m.topic = "deleted"
       \/ OfTopic("deleted", e) # {}

\* The document of an entity is that of the last update consumed, once the
\* creation was consumed and as long as no deletion was.
Applied(t, e) == {i \in OfTopic(t, e) : Consumed(t, i)}
IndexOf(e) ==
  /\ Applied("deleted", e) # {} \/ Applied("updated", e) # {} => Applied("created", e) # {}
  /\ Applied("deleted", e) # {} \/ Applied("created", e) = {} => index[e] = 0
  /\ Applied("deleted", e) = {} /\ Applied("created", e) # {} =>
       /\ index[e] # 0
       /\ Applied("updated", e) = {} => index[e] = 1
       /\ \A i \in Applied("updated", e) :
            \/ \E j \in Applied("updated", e) : i < j
            \/ index[e] = log["updated"][i].version
IndexInv == \A e \in Unspoilt : IndexOf(e)

IInv ==
  TypesInv /\ FlowInv /\ HandledInv /\ PassedInv /\ EventsInv /\ IndexInv

-----------------------------------------------------------------------------
(* The start *)

LEMMA InitInv ==
  ASSUME Init  PROVE  IInv
<1>1. TypesInv
  <2>1. /\ committed \in [Topics -> Nat \cup {NoOffset}] /\ position \in [Topics -> Nat]
        /\ \A t \in Topics : committed[t] \in {0, NoOffset} /\ position[t] = 0
        /\ log \in [Topics -> Seq(Event)] /\ \A t \in Topics : Len(log[t]) = 0
    BY DEF Init
  <2>2. /\ db \in [Entities -> [version : 0..MaxVersion, deleted : BOOLEAN]]
        /\ index \in [Entities -> 0..MaxVersion] /\ faults \in 0..MaxFaults
        /\ troubles \subseteq Environment \cup {"replay"}
    BY VersionAssumption DEF Init
  <2>3. \A t \in Topics : /\ committed[t] \in NoOffset..Len(log[t])
                          /\ position[t] \in 0..Len(log[t])
    BY <2>1 DEF NoOffset
  <2> QED  BY <2>1, <2>2, <2>3 DEF Init, TypesInv, TypeOK
<1>2. FlowInv
  BY DEF Init, FlowInv, Topics, NoOffset
<1>3. HandledInv
  BY DEF Init, HandledInv, Counted, Topics, NoOffset
<1>4. PassedInv /\ EventsInv /\ IndexInv
  <2>1. \A t \in Topics, e \in Entities : OfTopic(t, e) = {}
    BY DEF Init, OfTopic
  <2>2. PassedInv
    BY DEF Init, PassedInv, NoOffset
  <2>3. EventsInv
    <3>1. \A e \in Entities : db[e].version = 0 /\ db[e].deleted = FALSE
      BY DEF Init
    <3> QED  BY <2>1, <3>1 DEF Init, EventsInv, Topics, Unspoilt
  <2>4. IndexInv
    BY <2>1 DEF Init, IndexInv, IndexOf, Applied, Topics, Unspoilt
  <2> QED  BY <2>2, <2>3, <2>4
<1> QED  BY <1>1, <1>2, <1>3, <1>4 DEF IInv

-----------------------------------------------------------------------------
(* The types *)

LEMMA MessageThere ==
  ASSUME TypesInv, FlowInv, busy # "none"
  PROVE  /\ busy \in Topics /\ position[busy] \in Nat /\ position[busy] < Len(log[busy])
         /\ position[busy] + 1 \in 1..Len(log[busy]) /\ Message \in Event
<1>1. busy \in Topics /\ position[busy] \in Nat /\ position[busy] < Len(log[busy])
  BY DEF TypesInv, TypeOK, FlowInv
<1>2. log[busy] \in Seq(Event)
  BY <1>1 DEF TypesInv, TypeOK
<1> QED  BY <1>1, <1>2 DEF Message

\* What the core service does.
LEMMA CoreTypes ==
  ASSUME TypesInv, UserService
  PROVE  TypesInv'
<1> USE DEF TypesInv, TypeOK, core, consumer
<1>1. ASSUME NEW e \in Entities, NEW kind \in Topics, Write(e, kind)
      PROVE  TypesInv'
  <2>1. /\ db[e].version \in 0..MaxVersion
        /\ db[e].version + 1 \in 0..MaxVersion /\ db[e].version + 1 \in 1..MaxVersion
    BY <1>1, VersionAssumption DEF Write
  <2>2. db' \in [Entities -> [version : 0..MaxVersion, deleted : BOOLEAN]]
    <3> DEFINE gone == db[e].deleted \/ kind = "deleted"
               row == [db[e] EXCEPT !.version = @ + 1, !.deleted = gone]
    <3>1. gone \in BOOLEAN /\ db[e] \in [version : 0..MaxVersion, deleted : BOOLEAN]
      OBVIOUS
    <3>2. db' = [db EXCEPT ![e] = row]
      BY <1>1 DEF Write
    <3> HIDE DEF gone
    <3>3. row \in [version : 0..MaxVersion, deleted : BOOLEAN]
      BY <2>1, <3>1
    <3> HIDE DEF row
    <3> QED  BY <3>2, <3>3
  <2>3. unsent' \subseteq [topic : Topics, entity : Entities, version : 1..MaxVersion]
    BY <1>1, <2>1 DEF Write
  <2> QED  BY <1>1, <2>2, <2>3 DEF Write
<1>4. ASSUME NEW e \in Entities, WriteRoles(e)
      PROVE  TypesInv'
  <2>1. db[e].version + 1 \in 0..MaxVersion
    BY <1>4, VersionAssumption DEF WriteRoles
  <2>2. db' \in [Entities -> [version : 0..MaxVersion, deleted : BOOLEAN]]
    <3> DEFINE row == [db[e] EXCEPT !.version = @ + 1]
    <3>1. db[e] \in [version : 0..MaxVersion, deleted : BOOLEAN]
      OBVIOUS
    <3>2. db' = [db EXCEPT ![e] = row]
      BY <1>4 DEF WriteRoles
    <3>3. row \in [version : 0..MaxVersion, deleted : BOOLEAN]
      BY <2>1, <3>1
    <3> HIDE DEF row
    <3> QED  BY <3>2, <3>3
  <2> QED  BY <1>4, <2>2 DEF WriteRoles
<1>2. ASSUME NEW m \in unsent, Publish(m)
      PROVE  TypesInv'
  <2>1. PICK r \in RetryHeaders :
          /\ troubles' = troubles \cup (IF Oldest(m) THEN {} ELSE {"reorder"})
                                  \cup (IF r = 0 THEN {} ELSE {"replay"})
          /\ log' = [log EXCEPT ![m.topic] = Append(@,
               [entity |-> m.entity, version |-> m.version, retries |-> r])]
    BY <1>2 DEF Publish
  <2>2. troubles' \subseteq Environment \cup {"replay"}
    BY <1>2, <2>1 DEF Publish
  <2> DEFINE new == [entity |-> m.entity, version |-> m.version, retries |-> r]
  <2>3. m.topic \in Topics /\ new \in Event
    BY DEF Event
  <2>4. log' = [log EXCEPT ![m.topic] = Append(@, new)]
    BY <2>1
  <2> HIDE DEF new
  <2>5. /\ log' \in [Topics -> Seq(Event)]
        /\ \A t \in Topics : Len(log'[t]) \in Nat /\ Len(log'[t]) >= Len(log[t])
    <3>1. log \in [Topics -> Seq(Event)]
      OBVIOUS
    <3> HIDE DEF TypesInv, TypeOK
    <3>2. Append(log[m.topic], new) \in Seq(Event)
      BY <2>3, <3>1
    <3>3. \A t \in Topics :
             log'[t] = IF t = m.topic THEN Append(log[m.topic], new) ELSE log[t]
      BY <2>3, <2>4, <3>1
    <3>4. log' \in [Topics -> Seq(Event)]
      BY <2>3, <2>4, <3>1, <3>2
    <3>5. Len(Append(log[m.topic], new)) = Len(log[m.topic]) + 1
      BY <2>3, <3>1
    <3>6. \A t \in Topics : Len(log[t]) \in Nat
      BY <3>1
    <3> QED  BY <2>3, <3>3, <3>4, <3>5, <3>6
  <2>6. \A t \in Topics : /\ committed'[t] \in NoOffset..Len(log'[t])
                          /\ position'[t] \in 0..Len(log'[t])
    BY <1>2, <2>5 DEF Publish, NoOffset
  <2> QED  BY <1>2, <2>2, <2>5, <2>6 DEF Publish
<1>3. ASSUME NEW m \in unsent, LosePublish(m)
      PROVE  TypesInv'
  <2>1. m.entity \in Entities
    OBVIOUS
  <2>2. faults' \in 0..MaxFaults /\ troubles' \subseteq Environment \cup {"replay"}
    BY <1>3, VersionAssumption DEF LosePublish, Fault, Trouble
  <2> QED  BY <1>3, <2>1, <2>2 DEF LosePublish
<1> QED  BY <1>1, <1>2, <1>3, <1>4 DEF UserService

\* Whose events the topics have.
LEMMA EntitiesThere ==
  ASSUME TypesInv
  PROVE  \A t \in Topics : \A i \in 1..Len(log[t]) : log[t][i].entity \in Entities
<1> SUFFICES ASSUME NEW t \in Topics, NEW i \in 1..Len(log[t])
             PROVE  log[t][i].entity \in Entities
  OBVIOUS
<1>1. log[t] \in Seq(Event)
  BY DEF TypesInv, TypeOK
<1>2. log[t][i] \in Event
  BY <1>1
<1> QED  BY <1>2 DEF Event

LEMMA LifeTypes ==
  ASSUME TypesInv, FlowInv, LifeCycle
  PROVE  TypesInv'
<1>0. done => Message.entity \in Entities
  BY MessageThere DEF FlowInv, Event
<1> USE DEF TypesInv, TypeOK, core, consumer
<1>1. CASE Start
  <2>1. \A t \in Topics : Len(log[t]) \in Nat /\ StartOffset(t) \in 0..Len(log[t])
    BY DEF StartOffset, NoOffset
  <2>2. /\ position' \in [Topics -> Nat]
        /\ \A t \in Topics : position'[t] \in 0..Len(log[t])
    BY <1>1, <2>1 DEF Start
  <2>3. spoilt' \subseteq Entities
    <3>1. \A t \in Topics : PassedOver(t) \subseteq Entities
      BY <2>1, EntitiesThere DEF PassedOver
    <3> QED  BY <1>1, <3>1 DEF Start
  <2> QED  BY <1>1, <2>2, <2>3 DEF Start
<1>2. CASE RegisterHandlers
  BY <1>2 DEF RegisterHandlers
<1>3. CASE TryConnect
  BY <1>3 DEF TryConnect, Trouble
<1>4. CASE BeginShutdown
  BY <1>4, VersionAssumption DEF BeginShutdown, Fault, Trouble
<1>5. CASE Disconnect
  BY <1>0, <1>5 DEF Disconnect, Abandon
<1>6. CASE Crash
  <2>1. faults' \in 0..MaxFaults /\ troubles' \subseteq Environment \cup {"replay"}
    BY <1>6, VersionAssumption DEF Crash, Fault, Trouble
  <2> QED  BY <1>0, <1>6, <2>1 DEF Crash, Abandon
<1> QED  BY <1>1, <1>2, <1>3, <1>4, <1>5, <1>6 DEF LifeCycle

\* One topic's offsets go one further.
LEMMA OneFurther ==
  ASSUME TypesInv, NEW t \in Topics, position[t] < Len(log[t]), log' = log,
         position' = [position EXCEPT ![t] = @ + 1],
         committed' \in {committed, [committed EXCEPT ![t] = position[t] + 1]}
  PROVE  /\ committed' \in [Topics -> Nat \cup {NoOffset}] /\ position' \in [Topics -> Nat]
         /\ \A u \in Topics : /\ committed'[u] \in NoOffset..Len(log'[u])
                               /\ position'[u] \in 0..Len(log'[u])
<1>1. position[t] \in Nat /\ position[t] + 1 \in 0..Len(log[t])
  BY DEF TypesInv, TypeOK
<1> QED  BY <1>1 DEF TypesInv, TypeOK, NoOffset

LEMMA HappenedTypes ==
  ASSUME TypesInv, FlowInv, busy # "none", NEW how \in {"applied", "skipped", "dead"},
         Happened(how)
  PROVE  outcome' \subseteq Topics \X Nat \X {"applied", "skipped", "dead"}
BY MessageThere DEF Happened, TypesInv, TypeOK

\* An error leaves the offsets alone or passes over the message.
LEMMA ThrowTypes ==
  ASSUME TypesInv, FlowInv, busy # "none", Throw, log' = log
  PROVE  /\ committed' \in [Topics -> Nat \cup {NoOffset}] /\ position' \in [Topics -> Nat]
         /\ \A t \in Topics : /\ committed'[t] \in NoOffset..Len(log'[t])
                               /\ position'[t] \in 0..Len(log'[t])
         /\ outcome' \subseteq Topics \X Nat \X {"applied", "skipped", "dead"}
         /\ busy' = "none" /\ done' = FALSE
<1>1. CASE MayRetry
  BY <1>1 DEF Throw, TypesInv, TypeOK
<1>2. CASE ~MayRetry
  <2>1. /\ position' = [position EXCEPT ![busy] = @ + 1]
        /\ committed' \in {committed, [committed EXCEPT ![busy] = position[busy] + 1]}
        /\ busy' = "none" /\ done' = FALSE
        /\ \E how \in {"dead", "skipped"} : Happened(how)
    BY <1>2 DEF Throw, NextOffset
  <2> QED  BY <2>1, MessageThere, OneFurther, HappenedTypes
<1> QED  BY <1>1, <1>2

LEMMA EffectTypes ==
  ASSUME TypesInv, FlowInv, busy # "none", Effect
  PROVE  index' \in [Entities -> 0..MaxVersion]
<1>1. Message.entity \in Entities /\ Message.version \in 0..MaxVersion
  BY MessageThere, VersionAssumption DEF Event
<1> QED  BY <1>1, VersionAssumption DEF Effect, TypesInv, TypeOK

LEMMA ConsumeTypes ==
  ASSUME TypesInv, FlowInv, Consume
  PROVE  TypesInv'
<1>1. ASSUME NEW t \in Topics, Receive(t)
      PROVE  TypesInv'
  BY <1>1 DEF Receive, Trouble, TypesInv, TypeOK, core, consumer
<1>2. ASSUME NEW t \in Topics, SkipWhenStopping(t)
      PROVE  TypesInv'
  <2>1. <<t, position[t], "skipped">> \in Topics \X Nat \X {"applied", "skipped", "dead"}
    BY DEF TypesInv
  <2>2. /\ committed' \in [Topics -> Nat \cup {NoOffset}] /\ position' \in [Topics -> Nat]
        /\ \A u \in Topics : /\ committed'[u] \in NoOffset..Len(log'[u])
                              /\ position'[u] \in 0..Len(log'[u])
    BY <1>2, OneFurther DEF SkipWhenStopping
  <2>3. log[t][position[t] + 1].entity \in Entities
    <3>1. position[t] + 1 \in 1..Len(log[t])
      BY <1>2 DEF SkipWhenStopping, TypesInv, TypeOK
    <3> QED  BY <3>1, EntitiesThere
  <2> QED  BY <1>2, <2>1, <2>2, <2>3 DEF SkipWhenStopping, TypesInv, TypeOK, core
<1>3. CASE Apply
  <2>1. outcome' \subseteq Topics \X Nat \X {"applied", "skipped", "dead"}
    BY <1>3, HappenedTypes DEF Apply
  <2>2. index' \in [Entities -> 0..MaxVersion]
    BY <1>3, EffectTypes DEF Apply
  <2> QED  BY <1>3, <2>1, <2>2 DEF Apply, TypesInv, TypeOK, core
<1>4. CASE Skip
  <2>1. outcome' \subseteq Topics \X Nat \X {"applied", "skipped", "dead"}
    BY <1>4, HappenedTypes DEF Skip
  <2>2. Message.entity \in Entities
    BY <1>4, MessageThere DEF Skip, Event
  <2> QED  BY <1>4, <2>1, <2>2 DEF Skip, TypesInv, TypeOK, core
<1>5. CASE Commit
  <2>1. /\ position' = [position EXCEPT ![busy] = @ + 1]
        /\ committed' \in {committed, [committed EXCEPT ![busy] = position[busy] + 1]}
    BY <1>5 DEF Commit, NextOffset
  <2>2. /\ committed' \in [Topics -> Nat \cup {NoOffset}] /\ position' \in [Topics -> Nat]
        /\ \A t \in Topics : /\ committed'[t] \in NoOffset..Len(log'[t])
                              /\ position'[t] \in 0..Len(log'[t])
    BY <1>5, <2>1, MessageThere, OneFurther DEF Commit
  <2> QED  BY <1>5, <2>2 DEF Commit, TypesInv, TypeOK, core
<1>6. CASE HandlerFails \/ CommitFails
  <2>1. busy # "none" /\ Throw /\ UNCHANGED <<core, log, service, registered, es>>
    BY <1>6 DEF HandlerFails, CommitFails
  <2>3. index' \in [Entities -> 0..MaxVersion]
    BY <1>6, <2>1, EffectTypes DEF HandlerFails, CommitFails, TypesInv, TypeOK
  <2>4. spoilt' \subseteq Entities
    <3>1. Message.entity \in Entities
      BY <2>1, MessageThere DEF Event
    <3> QED  BY <1>6, <3>1 DEF HandlerFails, CommitFails, TypesInv, TypeOK
  <2>2. faults' \in 0..MaxFaults /\ troubles' \subseteq Environment \cup {"replay"}
    BY <1>6, VersionAssumption DEF HandlerFails, CommitFails, Fault, Trouble, TypesInv, TypeOK
  <2> QED  BY <2>1, <2>2, <2>3, <2>4, ThrowTypes DEF TypesInv, TypeOK, core
<1> QED  BY <1>1, <1>2, <1>3, <1>4, <1>5, <1>6 DEF Consume

-----------------------------------------------------------------------------
(* What is being handled *)

LEMMA PublishedLog ==
  ASSUME TypesInv, NEW m \in unsent, Publish(m)
  PROVE  /\ m.topic \in Topics
         /\ \E r \in RetryHeaders :
              /\ r # 0 => "replay" \in troubles'
              /\ LET new == [entity |-> m.entity, version |-> m.version, retries |-> r]
                 IN  log'[m.topic] = Append(log[m.topic], new)
         /\ \A t \in Topics : t # m.topic => log'[t] = log[t]
         /\ troubles \subseteq troubles'
         /\ \A t \in Topics : log[t] \in Seq(Event)
BY DEF Publish, TypesInv, TypeOK

LEMMA FlowStep ==
  ASSUME TypesInv, FlowInv, Next
  PROVE  FlowInv'
<1> USE DEF FlowInv, Ready, core, consumer
<1>1. ASSUME NEW m \in unsent, Publish(m)
      PROVE  FlowInv'
  <2>1. PICK r \in RetryHeaders :
          /\ r # 0 => "replay" \in troubles'
          /\ LET new == [entity |-> m.entity, version |-> m.version, retries |-> r]
             IN  log'[m.topic] = Append(log[m.topic], new)
    BY <1>1, PublishedLog
  <2> DEFINE new == [entity |-> m.entity, version |-> m.version, retries |-> r]
  <2>2. new.retries = r
    OBVIOUS
  <2>3. log'[m.topic] = Append(log[m.topic], new)
    BY <2>1
  <2> HIDE DEF new
  <2>4. \A t \in Topics : Len(log'[t]) \in Nat /\ Len(log'[t]) >= Len(log[t])
    BY <1>1, <2>3, PublishedLog
  <2>5. \A t \in Topics : \A i \in 1..Len(log'[t]) :
           log'[t][i].retries # 0 => "replay" \in troubles'
    <3> SUFFICES ASSUME NEW t \in Topics, NEW i \in 1..Len(log'[t]), log'[t][i].retries # 0
                 PROVE  "replay" \in troubles'
      OBVIOUS
    <3>1. CASE t # m.topic
      BY <1>1, <3>1, PublishedLog
    <3>2. CASE t = m.topic
      <4>1. log[t] \in Seq(Event) /\ log'[t] = Append(log[t], new)
        BY <1>1, <2>3, <3>2, PublishedLog
      <4>2. \/ i \in 1..Len(log[t]) /\ log'[t][i] = log[t][i]
            \/ log'[t][i] = new
        BY <4>1
      <4> QED  BY <1>1, <2>1, <2>2, <4>2, PublishedLog
    <3> QED  BY <3>1, <3>2
  <2>6. busy # "none" => position[busy] < Len(log'[busy])
    BY <2>4 DEF TypesInv, TypeOK
  <2> QED  BY <1>1, <2>5, <2>6, PublishedLog DEF Publish
<1>2. ASSUME NEW e \in Entities, WriteRoles(e) \/ \E kind \in Topics : Write(e, kind)
      PROVE  FlowInv'
  BY <1>2 DEF Write, WriteRoles
<1>3. ASSUME NEW m \in unsent, LosePublish(m)
      PROVE  FlowInv'
  BY <1>3 DEF LosePublish, Fault, Trouble
<1>4. CASE Start
  <2>1. busy = "none"
    BY <1>4 DEF Start
  <2> QED  BY <1>4, <2>1 DEF Start
<1>5. CASE RegisterHandlers \/ TryConnect \/ BeginShutdown
  BY <1>5 DEF RegisterHandlers, TryConnect, BeginShutdown, Fault, Trouble
<1>6. CASE Disconnect \/ Crash
  BY <1>6 DEF Disconnect, Crash, Abandon, Fault, Trouble
<1>7. ASSUME NEW t \in Topics, Receive(t)
      PROVE  FlowInv'
  BY <1>7 DEF Receive, Trouble
<1>8. ASSUME NEW t \in Topics, SkipWhenStopping(t)
      PROVE  FlowInv'
  <2>1. \A u \in Topics : committed'[u] = NoOffset => committed[u] = NoOffset
    BY <1>8 DEF SkipWhenStopping, TypesInv, NoOffset
  <2>2. ~done
    BY <1>8 DEF SkipWhenStopping
  <2> QED  BY <1>8, <2>1, <2>2 DEF SkipWhenStopping
<1>9. CASE Apply \/ Skip
  BY <1>9 DEF Apply, Skip
<1>10. CASE Commit \/ HandlerFails \/ CommitFails
  <2>1. /\ \/ committed' = committed
           \/ committed' = [committed EXCEPT ![busy] = position[busy] + 1]
        /\ busy' = "none" /\ done' = FALSE /\ UNCHANGED <<log, service, registered, es>>
        /\ busy # "none"
    BY <1>10 DEF Commit, HandlerFails, CommitFails, Throw, NextOffset
  <2>2. \A u \in Topics : committed'[u] = NoOffset => committed[u] = NoOffset
    BY <2>1, MessageThere DEF TypesInv, NoOffset
  <2>3. troubles \subseteq troubles'
    BY <1>10 DEF Commit, HandlerFails, CommitFails, Fault, Trouble
  <2> QED  BY <2>1, <2>2, <2>3
<1> QED
  BY <1>1, <1>2, <1>3, <1>4, <1>5, <1>6, <1>7, <1>8, <1>9, <1>10
  DEF Next, UserService, LifeCycle, Consume

-----------------------------------------------------------------------------
(* What is committed *)

LEMMA CountedGrows ==
  ASSUME troubles \subseteq troubles', outcome \subseteq outcome', NEW t, NEW k, Counted(t, k)
  PROVE  Counted(t, k)'
BY DEF Counted

LEMMA HandledKept ==
  ASSUME HandledInv, troubles \subseteq troubles', outcome \subseteq outcome',
         committed' = committed,
         service' # "down" => service # "down" /\ position' = position,
         done' => done /\ busy' = busy /\ position' = position
  PROVE  HandledInv'
BY CountedGrows DEF HandledInv

\* The consumer goes past a message that counts.
LEMMA PastCounted ==
  ASSUME TypesInv, HandledInv, service # "down",
         NEW t \in Topics, NEW here \in Nat, here = position[t], Counted(t, here)',
         troubles \subseteq troubles', outcome \subseteq outcome',
         position' = [position EXCEPT ![t] = @ + 1],
         committed' \in {committed, [committed EXCEPT ![t] = position[t] + 1]},
         done' = FALSE
  PROVE  HandledInv'
<1>0. \A u \in Topics, k \in Nat : k < position[u] => Counted(u, k)'
  BY CountedGrows DEF HandledInv
<1>1. \A k \in Nat : k < position[t] + 1 => Counted(t, k)'
  <2> SUFFICES ASSUME NEW k \in Nat, k < position[t] + 1 PROVE Counted(t, k)'
    OBVIOUS
  <2>1. k < position[t] \/ k = position[t]
    BY DEF TypesInv
  <2> QED  BY <1>0, <2>1
<1>2. \A u \in Topics, k \in Nat : k < position'[u] => Counted(u, k)'
  BY <1>0, <1>1 DEF TypesInv
<1>3. \A u \in Topics, k \in Nat : k < committed[u] => Counted(u, k)'
  BY CountedGrows DEF HandledInv
<1>4. \A u \in Topics, k \in Nat : k < committed'[u] => Counted(u, k)'
  BY <1>1, <1>3 DEF TypesInv
<1> QED  BY <1>2, <1>4 DEF HandledInv

\* A message given up by hand.
LEMMA ThrowCounts ==
  ASSUME TypesInv, FlowInv, HandledInv, busy # "none", Throw, UNCHANGED log,
         troubles \subseteq troubles', service' = service
  PROVE  HandledInv'
<1>1. CASE MayRetry
  BY <1>1, HandledKept DEF Throw
<1>2. CASE ~MayRetry
  <2>1. PICK how \in {"dead", "skipped"} : Happened(how)
    BY <1>2 DEF Throw
  <2>2. "replay" \in troubles
    <3>1. log[busy][position[busy] + 1].retries # 0
      BY <1>2 DEF MayRetry, Message, MAX_RETRIES
    <3> QED  BY <3>1, MessageThere DEF FlowInv
  <2>3. PICK t \in Topics, here \in Nat : t = busy /\ here = position[busy]
    BY MessageThere
  <2>4. <<t, here, how>> \in outcome'
    BY <2>1, <2>3 DEF Happened
  <2>5. Counted(t, here)'
    BY <2>2, <2>4 DEF Counted
  <2>6. /\ service # "down" /\ outcome \subseteq outcome' /\ here = position[t]
        /\ position' = [position EXCEPT ![t] = @ + 1]
        /\ committed' = [committed EXCEPT ![t] = position[t] + 1]
        /\ done' = FALSE
    BY <1>2, <2>1, <2>3, MessageThere DEF Throw, NextOffset, Happened, FlowInv
  <2> QED  BY <2>5, <2>6, PastCounted
<1> QED  BY <1>1, <1>2

LEMMA HandledStep ==
  ASSUME TypesInv, FlowInv, HandledInv, Next
  PROVE  HandledInv'
<1> USE DEF core, consumer
<1>1. ASSUME UserService  PROVE  HandledInv'
  <2>1. /\ UNCHANGED <<committed, consumer, outcome>> /\ troubles \subseteq troubles'
    BY <1>1 DEF UserService, Write, WriteRoles, Publish, LosePublish, Fault, Trouble
  <2> QED  BY <2>1, HandledKept
<1>2. CASE Start
  <2>1. ~done /\ UNCHANGED <<committed, outcome, troubles, done>>
    BY <1>2 DEF Start, FlowInv
  <2>2. \A t \in Topics, k \in Nat : k < committed[t] => Counted(t, k)'
    BY <2>1, CountedGrows DEF HandledInv
  <2>3. ASSUME NEW t \in Topics, NEW k \in Nat, k < position'[t]
        PROVE  Counted(t, k)'
    <3>1. position'[t] = StartOffset(t)
      BY <1>2 DEF Start
    <3>2. CASE committed[t] = NoOffset
      BY <2>1, <3>2 DEF FlowInv, Counted
    <3>3. CASE committed[t] # NoOffset
      BY <2>2, <2>3, <3>1, <3>3 DEF StartOffset
    <3> QED  BY <3>2, <3>3
  <2> QED  BY <2>1, <2>2, <2>3 DEF HandledInv
<1>3. CASE RegisterHandlers \/ TryConnect \/ BeginShutdown \/ Disconnect \/ Crash
  <2>1. /\ UNCHANGED <<committed, outcome, position>> /\ troubles \subseteq troubles'
        /\ service' # "down" => service # "down"
        /\ done' => done /\ busy' = busy
    BY <1>3 DEF RegisterHandlers, TryConnect, BeginShutdown, Disconnect, Crash, Abandon, Fault,
                Trouble
  <2> QED  BY <2>1, HandledKept
<1>4. ASSUME NEW t \in Topics, Receive(t)
      PROVE  HandledInv'
  <2>1. ~done
    BY <1>4 DEF Receive, FlowInv
  <2>2. UNCHANGED <<committed, position, service, done, outcome>> /\ troubles \subseteq troubles'
    BY <1>4 DEF Receive, Trouble
  <2> QED  BY <2>1, <2>2, HandledKept
<1>5. ASSUME NEW t \in Topics, SkipWhenStopping(t)
      PROVE  HandledInv'
  <2>1. PICK here \in Nat : here = position[t]
    BY DEF TypesInv
  <2>2. <<t, here, "skipped">> \in outcome' /\ "shutdown" \in troubles'
    BY <1>5, <2>1 DEF SkipWhenStopping, FlowInv
  <2>3. Counted(t, here)'
    BY <2>2 DEF Counted
  <2>4. ~done
    BY <1>5 DEF SkipWhenStopping, FlowInv
  <2>5. /\ service # "down" /\ outcome \subseteq outcome' /\ troubles' = troubles
        /\ position' = [position EXCEPT ![t] = @ + 1] /\ done' = FALSE
        /\ committed' \in {committed, [committed EXCEPT ![t] = position[t] + 1]}
    BY <1>5, <2>4 DEF SkipWhenStopping, TypesInv, TypeOK
  <2> QED  BY <2>1, <2>3, <2>5, PastCounted
<1>6. CASE Apply \/ Skip
  <2>1. PICK t \in Topics, here \in Nat : t = busy /\ here = position[busy]
    BY <1>6, MessageThere DEF Apply, Skip
  <2>2. /\ UNCHANGED <<committed, service, position, troubles, busy>>
        /\ outcome \subseteq outcome' /\ ~done
    BY <1>6 DEF Apply, Skip, Happened
  <2>3. \/ <<t, here, "applied">> \in outcome'
        \/ <<t, here, "skipped">> \in outcome' /\ troubles \cap {"early", "esDown"} # {}
    BY <1>6, <2>1 DEF Apply, Skip, Happened, FlowInv, Ready, TypesInv, TypeOK
  <2>4. Counted(t, here)'
    BY <2>2, <2>3 DEF Counted
  <2>5. Counted(busy, position[busy])'
    BY <2>1, <2>2, <2>4
  <2>6. \A u \in Topics, k \in Nat : Counted(u, k) => Counted(u, k)'
    BY <2>2, CountedGrows
  <2> QED  BY <2>2, <2>5, <2>6 DEF HandledInv
<1>7. CASE Commit
  <2>1. PICK t \in Topics, here \in Nat : t = busy /\ here = position[busy]
    BY <1>7, MessageThere DEF Commit
  <2>2. Counted(t, here)
    BY <1>7, <2>1 DEF Commit, HandledInv
  <2>3. /\ outcome' = outcome /\ troubles' = troubles /\ service # "down" /\ done' = FALSE
        /\ position' = [position EXCEPT ![t] = @ + 1]
        /\ committed' = [committed EXCEPT ![t] = position[t] + 1]
    BY <1>7, <2>1 DEF Commit, NextOffset, FlowInv
  <2>4. Counted(t, here)'
    BY <2>2, <2>3, CountedGrows
  <2> QED  BY <2>1, <2>3, <2>4, PastCounted
<1>8. CASE HandlerFails \/ CommitFails
  <2>1. /\ busy # "none" /\ Throw /\ UNCHANGED <<log, service>>
        /\ troubles \subseteq troubles'
    BY <1>8 DEF HandlerFails, CommitFails, Fault, Trouble
  <2> QED  BY <2>1, ThrowCounts
<1> QED
  BY <1>1, <1>2, <1>3, <1>4, <1>5, <1>6, <1>7, <1>8 DEF Next, LifeCycle, Consume

-----------------------------------------------------------------------------
(* What is in the index *)

\* The offsets of a topic, and the versions it has.
LEMMA LogTypes ==
  ASSUME TypesInv, NEW t \in Topics, NEW e \in Entities
  PROVE  /\ Len(log[t]) \in Nat /\ position[t] \in 0..Len(log[t])
         /\ \A i \in OfTopic(t, e) :
              /\ i \in 1..Len(log[t]) /\ log[t][i] \in Event
              /\ log[t][i].version \in 1..MaxVersion
<1>1. log[t] \in Seq(Event) /\ position[t] \in 0..Len(log[t])
  BY DEF TypesInv, TypeOK
<1>2. \A i \in 1..Len(log[t]) : log[t][i] \in Event
  BY <1>1
<1> QED  BY <1>1, <1>2 DEF OfTopic, Event

LEMMA EventsKept ==
  ASSUME EventsInv, UNCHANGED <<db, silent, log>>, spoilt \subseteq spoilt',
         unsent' \subseteq unsent, \A m \in unsent \ unsent' : m.entity \in spoilt'
  PROVE  EventsInv'
<1>1. \A t \in Topics, e \in Entities : OfTopic(t, e)' = OfTopic(t, e)
  BY DEF OfTopic
<1>2. Unspoilt' \subseteq Unspoilt /\ Unspoilt \subseteq Entities
  BY DEF Unspoilt
<1>3. \A m \in unsent : m.entity \in Unspoilt' => m \in unsent'
  BY DEF Unspoilt
<1>4. ASSUME NEW e \in Unspoilt', NEW v \in 1..MaxVersion, v <= db[e].version,
             v = 1 \/ (v = db[e].version /\ e \notin silent)
      PROVE  \/ \E m \in unsent' : m.entity = e /\ m.version = v
             \/ \E t \in Topics : \E i \in OfTopic(t, e) : log[t][i].version = v
  BY <1>2, <1>3, <1>4 DEF EventsInv
<1>5. ASSUME NEW e \in Unspoilt'
      PROVE  db[e].deleted <=> \/ \E m \in unsent' : m.entity = e /\ m.topic = "deleted"
                               \/ OfTopic("deleted", e) # {}
  BY <1>2, <1>3 DEF EventsInv
<1>6. \A e \in Unspoilt', t \in Topics : \A i \in OfTopic(t, e) :
       /\ log[t][i].version <= db[e].version
       /\ t = "created" <=> log[t][i].version = 1
       /\ \A m \in unsent' : m.entity = e => log[t][i].version < m.version
       /\ \A j \in OfTopic(t, e) : j < i => log[t][j].version < log[t][i].version
  BY <1>2 DEF EventsInv
<1>7. /\ \A m \in unsent' : m.version <= db[m.entity].version
      /\ \A m \in unsent' : m.topic = "created" <=> m.version = 1
      /\ \A m, n \in unsent' : m.entity = n.entity /\ m.version = n.version => m = n
  BY DEF EventsInv
<1>8. \A e \in Unspoilt' : OfTopic("deleted", e)' = OfTopic("deleted", e)
  BY <1>1, <1>2 DEF Topics
<1>9. \A e \in Unspoilt', t \in Topics : OfTopic(t, e)' = OfTopic(t, e)
  BY <1>1, <1>2
<1> QED  BY <1>4, <1>5, <1>6, <1>7, <1>8, <1>9 DEF EventsInv

LEMMA IndexKept ==
  ASSUME IndexInv, spoilt \subseteq spoilt',
         \A e \in Unspoilt' : index'[e] = index[e],
         \A t \in Topics, e \in Unspoilt' : Applied(t, e)' = Applied(t, e),
         \A e \in Unspoilt' : \A i \in Applied("updated", e) :
            log'["updated"][i].version = log["updated"][i].version
  PROVE  IndexInv'
<1> SUFFICES ASSUME NEW e \in Unspoilt' PROVE IndexOf(e)'
  BY DEF IndexInv
<1>1. /\ Applied("created", e)' = Applied("created", e)
      /\ Applied("updated", e)' = Applied("updated", e)
      /\ Applied("deleted", e)' = Applied("deleted", e)
  BY DEF Topics
<1>2. IndexOf(e)
  BY DEF IndexInv, Unspoilt
<1> QED  BY <1>1, <1>2 DEF IndexOf

\* The next message of a topic is the only one that a step of the consumer makes
\* consumed or not, but for its start; one that is then neither in effect nor
\* going to be has its entity marked.
LEMMA NextMarked ==
  ASSUME TypesInv, FlowInv, PassedInv, UNCHANGED log,
         \/ Start \/ RegisterHandlers \/ TryConnect \/ BeginShutdown \/ Disconnect \/ Crash
         \/ \E t \in Topics : Receive(t) \/ SkipWhenStopping(t)
         \/ Skip \/ Commit \/ HandlerFails \/ CommitFails
  PROVE  /\ spoilt \subseteq spoilt'
         /\ \A t \in Topics : \A i \in 1..Len(log[t]) :
              log[t][i].entity \in Unspoilt' => (Consumed(t, i)' <=> Consumed(t, i))
         /\ \A e \in Unspoilt' : index'[e] = index[e]
         /\ PassedInv'
<1> USE DEF core, consumer
<1>1. CASE Start
  <2>1. /\ spoilt' = spoilt \cup UNION {PassedOver(t) : t \in Topics}
        /\ \A t \in Topics : position'[t] = StartOffset(t)
        /\ UNCHANGED <<committed, done, busy, index>> /\ ~done
    BY <1>1 DEF Start, FlowInv
  <2>2. ASSUME NEW t \in Topics
        PROVE  /\ StartOffset(t) \in Nat /\ position[t] \in Nat /\ StartOffset(t) <= Len(log[t])
               /\ \A i \in (position[t] + 1)..StartOffset(t) : log[t][i].entity \in spoilt'
               /\ \A i \in (StartOffset(t) + 1)..position[t] : log[t][i].entity \in spoilt
               /\ committed[t] <= StartOffset(t)
               /\ committed[t] # NoOffset => StartOffset(t) = committed[t]
    <3>1. committed[t] \in NoOffset..Len(log[t]) /\ position[t] \in 0..Len(log[t])
      BY DEF TypesInv, TypeOK
    <3>2. StartOffset(t) \in Nat /\ StartOffset(t) <= Len(log[t]) /\ committed[t] <= StartOffset(t)
      BY <3>1 DEF StartOffset, NoOffset
    <3>3. \A i \in (position[t] + 1)..StartOffset(t) : log[t][i].entity \in spoilt'
      BY <2>1 DEF PassedOver
    <3>4. \A i \in (StartOffset(t) + 1)..position[t] : log[t][i].entity \in spoilt
      BY <3>1 DEF PassedInv, StartOffset
    <3> QED  BY <3>1, <3>2, <3>3, <3>4 DEF StartOffset
  <2>3. ASSUME NEW t \in Topics, NEW i \in 1..Len(log[t]), log[t][i].entity \in Unspoilt'
        PROVE  Consumed(t, i)' <=> Consumed(t, i)
    <3>1. log[t][i].entity \notin spoilt /\ log[t][i].entity \notin spoilt'
      BY <2>1, <2>3 DEF Unspoilt
    <3>2. i <= StartOffset(t) <=> i <= position[t]
      BY <2>2, <3>1
    <3> QED  BY <2>1, <3>2 DEF Consumed
  <2>4. PassedInv'
    <3> SUFFICES ASSUME NEW t \in Topics
                 PROVE  /\ committed[t] <= StartOffset(t)
                        /\ committed[t] # NoOffset =>
                             \A i \in (committed[t] + 1)..StartOffset(t) : FALSE
      BY <2>1 DEF PassedInv
    <3> QED  BY <2>2
  <2> QED  BY <2>1, <2>3, <2>4
<1>2. CASE RegisterHandlers \/ TryConnect \/ BeginShutdown \/ \E t \in Topics : Receive(t)
  <2>1. /\ UNCHANGED <<position, committed, index, spoilt, done>>
        /\ busy' = busy \/ ~done
    BY <1>2 DEF RegisterHandlers, TryConnect, BeginShutdown, Receive, FlowInv
  <2> QED  BY <2>1 DEF Consumed, PassedInv
<1>3. CASE Disconnect \/ Crash
  <2>1. /\ UNCHANGED <<position, committed, index>> /\ done' = FALSE
        /\ spoilt' = IF done THEN spoilt \cup {log[busy][position[busy] + 1].entity} ELSE spoilt
    BY <1>3 DEF Disconnect, Crash, Abandon, Message
  <2>2. \A t \in Topics, i \in Nat : log[t][i].entity \in Unspoilt' =>
           (Consumed(t, i)' <=> Consumed(t, i))
    BY <2>1 DEF Consumed, Unspoilt
  <2> QED  BY <2>1, <2>2 DEF PassedInv
<1>4. ASSUME NEW t \in Topics, SkipWhenStopping(t)
      PROVE  /\ spoilt \subseteq spoilt'
             /\ \A u \in Topics : \A i \in 1..Len(log[u]) :
                  log[u][i].entity \in Unspoilt' => (Consumed(u, i)' <=> Consumed(u, i))
             /\ \A e \in Unspoilt' : index'[e] = index[e]
             /\ PassedInv'
  <2>1. /\ spoilt' = spoilt \cup {log[t][position[t] + 1].entity} /\ UNCHANGED <<index, done>>
        /\ ~done /\ committed' \in {committed, [committed EXCEPT ![t] = position[t] + 1]}
        /\ \A u \in Topics : position'[u] = IF u = t THEN position[t] + 1 ELSE position[u]
        /\ \A u \in Topics : position[u] \in Nat /\ committed[u] \in Nat \cup {NoOffset}
    BY <1>4 DEF SkipWhenStopping, FlowInv, TypesInv
  <2>2. \A u \in Topics, i \in Nat : log[u][i].entity \in Unspoilt' =>
           (Consumed(u, i)' <=> Consumed(u, i))
    BY <2>1 DEF Consumed, Unspoilt
  <2>3. PassedInv'
    <3> SUFFICES ASSUME NEW u \in Topics
                 PROVE  /\ committed'[u] <= position'[u]
                        /\ committed'[u] # NoOffset =>
                             \A i \in (committed'[u] + 1)..position'[u] :
                               log[u][i].entity \in spoilt'
      BY DEF PassedInv
    <3>1. CASE committed'[u] = position'[u]
      BY <2>1, <3>1
    <3>2. CASE committed'[u] # position'[u]
      <4>1. committed'[u] = committed[u]
        BY <2>1, <3>2 DEF TypesInv
      <4>2. /\ committed[u] <= position[u] /\ position[u] <= position'[u]
            /\ position'[u] \in Nat /\ committed[u] \in Int /\ position[u] \in Nat
        BY <2>1 DEF PassedInv, NoOffset
      <4>3. \A i \in (committed[u] + 1)..position'[u] :
              i \in (committed[u] + 1)..position[u] \/ (u = t /\ i = position[t] + 1)
        BY <2>1, <4>2
      <4> QED  BY <2>1, <4>1, <4>2, <4>3 DEF PassedInv
    <3> QED  BY <3>1, <3>2
  <2> QED  BY <2>1, <2>2, <2>3
<1>5. CASE Skip
  <2>1. /\ spoilt' = spoilt \cup {log[busy][position[busy] + 1].entity}
        /\ UNCHANGED <<position, committed, busy, index>> /\ ~done
    BY <1>5 DEF Skip, Message
  <2>2. \A t \in Topics, i \in Nat : log[t][i].entity \in Unspoilt' =>
           (Consumed(t, i)' <=> Consumed(t, i))
    BY <2>1 DEF Consumed, Unspoilt
  <2> QED  BY <2>1, <2>2 DEF PassedInv
<1>6. CASE Commit \/ HandlerFails \/ CommitFails
  <2>1. PICK t \in Topics, here \in Nat :
          /\ t = busy /\ here = position[t] /\ here + 1 \in 1..Len(log[t])
          /\ Message = log[t][here + 1] /\ Message.entity \in Entities
    <3>1. busy # "none"
      BY <1>6 DEF Commit, HandlerFails, CommitFails
    <3> QED  BY <3>1, MessageThere DEF Message, Event
  <2>2. /\ \/ UNCHANGED <<position, committed>>
           \/ /\ position' = [position EXCEPT ![t] = here + 1]
              /\ committed' = [committed EXCEPT ![t] = here + 1]
        /\ done' = FALSE /\ spoilt \subseteq spoilt'
    BY <1>6, <2>1 DEF Commit, HandlerFails, CommitFails, Throw, NextOffset
  <2>3. \/ Message.entity \in spoilt'
        \/ ~done /\ position' = position
        \/ done /\ position'[t] = here + 1
    BY <1>6, <2>1 DEF Commit, HandlerFails, CommitFails, Throw, NextOffset, TypesInv
  <2>4. /\ \A u \in Topics : position[u] \in Nat
        /\ \A u \in Topics : u # t => position'[u] = position[u]
        /\ position'[t] \in {here, here + 1}
    BY <2>1, <2>2 DEF TypesInv
  <2>5. ASSUME NEW u \in Topics, NEW i \in 1..Len(log[u]), log[u][i].entity \in Unspoilt'
        PROVE  Consumed(u, i)' <=> Consumed(u, i)
    <3>1. CASE u # t
      BY <2>1, <2>2, <2>4, <3>1 DEF Consumed
    <3>2. CASE u = t /\ i # here + 1
      BY <2>1, <2>2, <2>4, <3>2 DEF Consumed
    <3>3. CASE u = t /\ i = here + 1
      <4>1. Message.entity \notin spoilt'
        BY <2>1, <2>5, <3>3 DEF Unspoilt
      <4> QED  BY <2>1, <2>2, <2>3, <2>4, <3>3, <4>1 DEF Consumed
    <3> QED  BY <3>1, <3>2, <3>3
  <2>6. \A e \in Unspoilt' : index'[e] = index[e]
    BY <1>6 DEF Commit, HandlerFails, CommitFails, Effect, Unspoilt, TypesInv, TypeOK
  <2>7. PassedInv'
    <3>1. CASE UNCHANGED <<position, committed>>
      BY <2>2, <3>1 DEF PassedInv
    <3>2. CASE /\ position' = [position EXCEPT ![t] = here + 1]
               /\ committed' = [committed EXCEPT ![t] = here + 1]
      BY <2>1, <2>2, <3>2 DEF PassedInv, TypesInv
    <3> QED  BY <2>2, <3>1, <3>2
  <2> QED  BY <2>2, <2>5, <2>6, <2>7
<1> QED  BY <1>1, <1>2, <1>3, <1>4, <1>5, <1>6

\* The steps that neither write nor publish and have no effect that counts.
LEMMA QuietRest ==
  ASSUME IInv,
         \/ LifeCycle
         \/ \E t \in Topics : Receive(t) \/ SkipWhenStopping(t)
         \/ Skip \/ Commit \/ HandlerFails \/ CommitFails
  PROVE  PassedInv' /\ EventsInv' /\ IndexInv'
<1> USE DEF core, consumer
<1>1. UNCHANGED <<db, unsent, silent, log>>
  BY DEF LifeCycle, Start, RegisterHandlers, TryConnect, BeginShutdown, Disconnect, Crash,
         Receive, SkipWhenStopping, Skip, Commit, HandlerFails, CommitFails
<1>2. /\ spoilt \subseteq spoilt'
      /\ \A t \in Topics : \A i \in 1..Len(log[t]) :
           log[t][i].entity \in Unspoilt' => (Consumed(t, i)' <=> Consumed(t, i))
      /\ \A e \in Unspoilt' : index'[e] = index[e]
      /\ PassedInv'
  BY <1>1, NextMarked DEF LifeCycle, IInv
<1>3. EventsInv'
  BY <1>1, <1>2, EventsKept DEF IInv
<1>4. \A t \in Topics, e \in Unspoilt' : Applied(t, e)' = Applied(t, e)
  BY <1>1, <1>2 DEF Applied, OfTopic
<1>5. IndexInv'
  BY <1>1, <1>2, <1>4, IndexKept DEF IInv
<1> QED  BY <1>2, <1>3, <1>5

\* An event that was lost.
LEMMA QuietLoss ==
  ASSUME IInv, NEW m \in unsent, LosePublish(m)
  PROVE  PassedInv' /\ EventsInv' /\ IndexInv'
<1>1. /\ UNCHANGED <<db, silent, log, committed, position, busy, done, index>>
      /\ unsent' = unsent \ {m} /\ spoilt' = spoilt \cup {m.entity}
  BY DEF LosePublish, consumer
<1>2. EventsInv'
  BY <1>1, EventsKept DEF IInv
<1>3. \A t \in Topics, e \in Unspoilt' : Applied(t, e)' = Applied(t, e)
  BY <1>1 DEF Applied, OfTopic, Consumed
<1>4. IndexInv'
  BY <1>1, <1>3, IndexKept DEF IInv
<1>5. PassedInv'
  BY <1>1 DEF PassedInv, IInv
<1> QED  BY <1>2, <1>4, <1>5

\* A change of roles.
LEMMA QuietRoles ==
  ASSUME IInv, NEW e \in Entities, WriteRoles(e)
  PROVE  PassedInv' /\ EventsInv' /\ IndexInv'
<1>1. /\ UNCHANGED <<unsent, log, committed, position, busy, done, index, spoilt>>
      /\ silent' = silent \cup {e} /\ db[e].version \in 1..(MaxVersion - 1)
  BY DEF WriteRoles, consumer
<1>2. /\ \A f \in Entities : /\ db'[f].version = IF f = e THEN db[e].version + 1 ELSE db[f].version
                            /\ db'[f].deleted = db[f].deleted
                            /\ db[f].version \in Nat
      /\ \A m \in unsent : m.entity \in Entities /\ m.version \in Nat
      /\ Unspoilt \subseteq Entities /\ Unspoilt' = Unspoilt /\ MaxVersion \in Nat
  BY <1>1, VersionAssumption DEF WriteRoles, IInv, TypesInv, TypeOK, Unspoilt
<1>3. \A t \in Topics, f \in Entities :
        OfTopic(t, f)' = OfTopic(t, f) /\ Applied(t, f)' = Applied(t, f)
  BY <1>1 DEF OfTopic, Applied, Consumed
<1>4. EventsInv'
  <2>1. \A m \in unsent' : m.version <= db'[m.entity].version
    BY <1>1, <1>2 DEF IInv, EventsInv
  <2>2. /\ \A m \in unsent' : m.topic = "created" <=> m.version = 1
        /\ \A m, n \in unsent' : m.entity = n.entity /\ m.version = n.version => m = n
    BY <1>1 DEF IInv, EventsInv
  <2>3. ASSUME NEW f \in Unspoilt, NEW t \in Topics, NEW i \in OfTopic(t, f)
        PROVE  /\ log[t][i].version <= db'[f].version
               /\ t = "created" <=> log[t][i].version = 1
               /\ \A m \in unsent' : m.entity = f => log[t][i].version < m.version
               /\ \A j \in OfTopic(t, f) : j < i => log[t][j].version < log[t][i].version
    <3>1. log[t][i].version <= db[f].version /\ log[t][i].version \in Nat
      BY <1>2, LogTypes DEF IInv, EventsInv
    <3>2. log[t][i].version <= db'[f].version
      BY <1>2, <3>1
    <3> QED  BY <1>1, <3>2 DEF IInv, EventsInv
  <2>4. ASSUME NEW f \in Unspoilt, NEW w \in 1..MaxVersion, w <= db'[f].version,
               w = 1 \/ (w = db'[f].version /\ f \notin silent')
        PROVE  \/ \E m \in unsent' : m.entity = f /\ m.version = w
               \/ \E t \in Topics : \E i \in OfTopic(t, f) : log[t][i].version = w
    <3>1. w <= db[f].version /\ (w = 1 \/ (w = db[f].version /\ f \notin silent))
      BY <1>1, <1>2, <2>4
    <3> QED  BY <1>1, <3>1 DEF IInv, EventsInv
  <2>5. \A f \in Unspoilt : db'[f].deleted <=>
           \/ \E m \in unsent' : m.entity = f /\ m.topic = "deleted"
           \/ OfTopic("deleted", f) # {}
    BY <1>1, <1>2 DEF IInv, EventsInv
  <2>6. \A f \in Unspoilt : OfTopic("deleted", f)' = OfTopic("deleted", f)
    BY <1>2, <1>3 DEF Topics
  <2>7. \A f \in Unspoilt, t \in Topics : OfTopic(t, f)' = OfTopic(t, f) /\ log'[t] = log[t]
    BY <1>1, <1>2, <1>3
  <2> QED  BY <1>2, <2>1, <2>2, <2>3, <2>4, <2>5, <2>6, <2>7 DEF EventsInv
<1>5. IndexInv'
  BY <1>1, <1>2, <1>3, IndexKept DEF IInv
<1>6. PassedInv'
  BY <1>1 DEF PassedInv, IInv
<1> QED  BY <1>4, <1>5, <1>6

LEMMA QuietWrite ==
  ASSUME IInv, NEW e \in Entities, NEW kind \in Topics, Write(e, kind)
  PROVE  PassedInv' /\ EventsInv' /\ IndexInv'
<1> DEFINE v == db[e].version + 1
           new == [topic |-> kind, entity |-> e, version |-> v]
<1>1. /\ UNCHANGED <<log, committed, position, busy, done, index, spoilt>>
      /\ unsent' = unsent \cup {new} /\ silent' = silent \ {e}
      /\ kind = "created" <=> v = 1
      /\ db[e].version \in Nat /\ v \in 1..MaxVersion
  BY WritesAssumption, VersionAssumption DEF Write, core, consumer, IInv, TypesInv, TypeOK
<1>2. /\ \A f \in Entities : db'[f].version = IF f = e THEN v ELSE db[f].version
      /\ \A f \in Entities : db'[f].deleted <=> (db[f].deleted \/ (f = e /\ kind = "deleted"))
  BY DEF Write, IInv, TypesInv, TypeOK
<1>3. new.topic = kind /\ new.entity = e /\ new.version = v
  OBVIOUS
<1> HIDE DEF new, v
<1>4. v = db[e].version + 1
  BY DEF v
<1>5. \A t \in Topics, f \in Entities : OfTopic(t, f)' = OfTopic(t, f)
  BY <1>1 DEF OfTopic
<1>6. /\ \A m \in unsent : /\ m.entity \in Entities /\ m.version \in 1..MaxVersion
                           /\ m.version <= db[m.entity].version
      /\ \A f \in Entities : db[f].version \in Nat
      /\ Unspoilt \subseteq Entities /\ Unspoilt' = Unspoilt
  BY <1>1 DEF IInv, TypesInv, TypeOK, EventsInv, Unspoilt
<1>7. \A f \in Unspoilt, t \in Topics : \A i \in OfTopic(t, f) :
         log[t][i].version \in Nat /\ log[t][i].version <= db[f].version
  BY <1>6, LogTypes DEF EventsInv, IInv
<1>8. EventsInv'
  <2>1. \A m \in unsent' : m.version <= db'[m.entity].version
    BY <1>1, <1>2, <1>3, <1>4, <1>6
  <2>2. \A m \in unsent' : m.topic = "created" <=> m.version = 1
    BY <1>1, <1>3 DEF EventsInv, IInv
  <2>3. \A m, n \in unsent' : m.entity = n.entity /\ m.version = n.version => m = n
    BY <1>1, <1>3, <1>4, <1>6 DEF EventsInv, IInv
  <2>4. ASSUME NEW f \in Unspoilt, NEW t \in Topics, NEW i \in OfTopic(t, f)
        PROVE  /\ log[t][i].version <= db'[f].version
               /\ t = "created" <=> log[t][i].version = 1
               /\ \A m \in unsent' : m.entity = f => log[t][i].version < m.version
               /\ \A j \in OfTopic(t, f) : j < i => log[t][j].version < log[t][i].version
    <3>1. log[t][i].version <= db'[f].version
      BY <1>2, <1>4, <1>6, <1>7
    <3>2. \A m \in unsent' : m.entity = f => log[t][i].version < m.version
      BY <1>1, <1>3, <1>4, <1>6, <1>7 DEF EventsInv, IInv
    <3> QED  BY <3>1, <3>2 DEF EventsInv, IInv
  <2>5. ASSUME NEW f \in Unspoilt, NEW w \in 1..MaxVersion, w <= db'[f].version,
               w = 1 \/ (w = db'[f].version /\ f \notin silent')
        PROVE  \/ \E m \in unsent' : m.entity = f /\ m.version = w
               \/ \E t \in Topics : \E i \in OfTopic(t, f) : log[t][i].version = w
    <3>1. CASE f = e /\ w = v
      BY <1>1, <1>3, <3>1
    <3>2. CASE ~(f = e /\ w = v)
      <4>1. w <= db[f].version /\ (w = 1 \/ (w = db[f].version /\ f \notin silent))
        <5>1. CASE f = e
          <6>1. w <= v /\ w # v
            BY <1>2, <1>6, <2>5, <3>2, <5>1
          <6>2. w = 1
            BY <1>2, <1>6, <2>5, <5>1, <6>1
          <6>3. v = db[e].version + 1 /\ db[e].version \in Nat
            BY <1>1, <1>4
          <6>4. w <= db[e].version
            BY <6>1, <6>3
          <6> QED  BY <5>1, <6>2, <6>4
        <5>2. CASE f # e
          <6>1. db'[f].version = db[f].version
            BY <1>2, <1>6, <5>2
          <6>2. f \notin silent' => f \notin silent
            BY <1>1, <5>2
          <6> QED  BY <2>5, <6>1, <6>2
        <5> QED  BY <5>1, <5>2
      <4> QED  BY <1>1, <4>1 DEF EventsInv, IInv
    <3> QED  BY <3>1, <3>2
  <2>6. \A f \in Unspoilt : db'[f].deleted <=>
           \/ \E m \in unsent' : m.entity = f /\ m.topic = "deleted"
           \/ OfTopic("deleted", f) # {}
    BY <1>1, <1>2, <1>3, <1>6 DEF EventsInv, IInv
  <2>7. \A f \in Unspoilt : OfTopic("deleted", f)' = OfTopic("deleted", f)
    BY <1>5, <1>6 DEF Topics
  <2>8. \A f \in Unspoilt, t \in Topics : OfTopic(t, f)' = OfTopic(t, f) /\ log'[t] = log[t]
    BY <1>1, <1>5, <1>6
  <2> QED  BY <1>6, <2>1, <2>2, <2>3, <2>4, <2>5, <2>6, <2>7, <2>8 DEF EventsInv
<1>9. \A t \in Topics, f \in Entities : Applied(t, f)' = Applied(t, f)
  BY <1>1, <1>5 DEF Applied, Consumed
<1>10. IndexInv'
  BY <1>1, <1>6, <1>9, IndexKept DEF IInv
<1>11. PassedInv'
  BY <1>1 DEF PassedInv, IInv
<1> QED  BY <1>8, <1>10, <1>11

LEMMA QuietPublish ==
  ASSUME IInv, NEW m \in unsent, Publish(m)
  PROVE  PassedInv' /\ EventsInv' /\ IndexInv'
<1>0. PICK last \in Nat : last = Len(log[m.topic]) + 1
  BY DEF IInv, TypesInv, TypeOK
<1>1. /\ UNCHANGED <<db, silent, committed, position, busy, done, index>>
      /\ unsent' = unsent \ {m}
      /\ spoilt' = IF Oldest(m) THEN spoilt ELSE spoilt \cup {m.entity}
  BY DEF Publish, consumer
<1>2. /\ m.topic \in Topics /\ m.entity \in Entities /\ m.version \in 1..MaxVersion
      /\ \A t \in Topics : Len(log[t]) \in Nat
      /\ Unspoilt' \subseteq Unspoilt /\ Unspoilt \subseteq Entities
      /\ \A f \in Unspoilt' : f = m.entity => Oldest(m)
  BY <1>1 DEF IInv, TypesInv, TypeOK, Unspoilt
<1>3. PICK r \in RetryHeaders :
        LET new == [entity |-> m.entity, version |-> m.version, retries |-> r]
        IN  log'[m.topic] = Append(log[m.topic], new)
  BY PublishedLog DEF IInv
<1> DEFINE new == [entity |-> m.entity, version |-> m.version, retries |-> r]
<1>4. log'[m.topic] = Append(log[m.topic], new) /\ new.entity = m.entity /\ new.version = m.version
  BY <1>3
<1> HIDE DEF new
<1>5. /\ \A t \in Topics : t # m.topic => log'[t] = log[t]
      /\ log[m.topic] \in Seq(Event)
  BY PublishedLog DEF IInv
<1>6. /\ Len(log'[m.topic]) = last /\ log'[m.topic][last] = new
      /\ \A i \in 1..Len(log[m.topic]) : log'[m.topic][i] = log[m.topic][i]
  BY <1>0, <1>4, <1>5
<1>7. \A t \in Topics, e \in Entities :
        /\ OfTopic(t, e)' = IF t = m.topic /\ e = m.entity THEN OfTopic(t, e) \cup {last}
                            ELSE OfTopic(t, e)
        /\ \A i \in OfTopic(t, e) : i \in 1..Len(log[t]) /\ log'[t][i] = log[t][i]
  <2> SUFFICES ASSUME NEW t \in Topics, NEW e \in Entities
               PROVE  /\ OfTopic(t, e)' = IF t = m.topic /\ e = m.entity
                                          THEN OfTopic(t, e) \cup {last} ELSE OfTopic(t, e)
                      /\ \A i \in OfTopic(t, e) : i \in 1..Len(log[t]) /\ log'[t][i] = log[t][i]
    OBVIOUS
  <2>1. CASE t # m.topic
    BY <1>5, <2>1 DEF OfTopic
  <2>2. CASE t = m.topic
    <3>1. 1..last = 1..Len(log[t]) \cup {last}
      BY <1>0, <1>2, <2>2
    <3> QED  BY <1>0, <1>4, <1>6, <2>2, <3>1 DEF OfTopic
  <2> QED  BY <2>1, <2>2
<1>8. Oldest(m) => \A n \in unsent' : n.entity = m.entity => m.version < n.version
  BY <1>1, <1>2 DEF Oldest, EventsInv, IInv, TypesInv, TypeOK
<1>9. EventsInv'
  <2>1. ASSUME NEW f \in Unspoilt', NEW t \in Topics, NEW i \in OfTopic(t, f)'
        PROVE  /\ log'[t][i].version <= db[f].version
               /\ t = "created" <=> log'[t][i].version = 1
               /\ \A n \in unsent' : n.entity = f => log'[t][i].version < n.version
               /\ \A j \in OfTopic(t, f)' : j < i => log'[t][j].version < log'[t][i].version
    <3>1. CASE i \in OfTopic(t, f)
      <4>1. i \in 1..Len(log[t]) /\ log'[t][i] = log[t][i]
        BY <1>2, <1>7, <3>1
      <4>2. \A j \in OfTopic(t, f)' : j < i => j \in OfTopic(t, f)
        BY <1>0, <1>2, <1>7, <4>1
      <4>3. \A j \in OfTopic(t, f) : log'[t][j] = log[t][j]
        BY <1>2, <1>7
      <4>4. /\ log[t][i].version <= db[f].version
            /\ t = "created" <=> log[t][i].version = 1
            /\ \A n \in unsent : n.entity = f => log[t][i].version < n.version
            /\ \A j \in OfTopic(t, f) : j < i => log[t][j].version < log[t][i].version
        BY <1>2, <3>1 DEF EventsInv, IInv
      <4> QED  BY <1>1, <4>1, <4>2, <4>3, <4>4
    <3>2. CASE i \notin OfTopic(t, f)
      <4>1. t = m.topic /\ f = m.entity /\ i = last /\ Oldest(m)
        BY <1>2, <1>7, <3>2
      <4>2. log'[t][i].version = m.version
        BY <1>4, <1>6, <4>1
      <4>3. \A j \in OfTopic(t, f)' : j < i => j \in OfTopic(t, f) /\ log'[t][j] = log[t][j]
        BY <1>0, <1>2, <1>7, <4>1
      <4> QED  BY <1>2, <1>8, <4>1, <4>2, <4>3 DEF EventsInv, IInv
    <3> QED  BY <3>1, <3>2
  <2>2. ASSUME NEW f \in Unspoilt', NEW w \in 1..MaxVersion, w <= db[f].version,
               w = 1 \/ (w = db[f].version /\ f \notin silent)
        PROVE  \/ \E n \in unsent' : n.entity = f /\ n.version = w
               \/ \E t \in Topics : \E i \in OfTopic(t, f)' : log'[t][i].version = w
    <3>1. CASE f = m.entity /\ w = m.version
      <4>1. last \in OfTopic(m.topic, f)' /\ log'[m.topic][last].version = w
        BY <1>0, <1>2, <1>4, <1>6, <1>7, <3>1
      <4> QED  BY <1>2, <4>1
    <3>2. CASE \E n \in unsent : n # m /\ n.entity = f /\ n.version = w
      BY <1>1, <3>2
    <3>3. CASE \E t \in Topics : \E i \in OfTopic(t, f) : log[t][i].version = w
      <4>1. PICK t \in Topics : \E i \in OfTopic(t, f) : log[t][i].version = w
        BY <3>3
      <4>2. PICK i \in OfTopic(t, f) : log[t][i].version = w
        BY <4>1
      <4>3. i \in OfTopic(t, f)' /\ log'[t][i].version = w
        BY <1>2, <1>7, <4>2
      <4> QED  BY <4>3
    <3> QED  BY <1>2, <2>2, <3>1, <3>2, <3>3 DEF EventsInv, IInv
  <2>3. ASSUME NEW f \in Unspoilt'
        PROVE  db[f].deleted <=> \/ \E n \in unsent' : n.entity = f /\ n.topic = "deleted"
                                 \/ OfTopic("deleted", f)' # {}
    <3>1. db[f].deleted <=> \/ \E n \in unsent : n.entity = f /\ n.topic = "deleted"
                            \/ OfTopic("deleted", f) # {}
      BY <1>2 DEF EventsInv, IInv
    <3>2. OfTopic("deleted", f)' = IF m.topic = "deleted" /\ f = m.entity
                                   THEN OfTopic("deleted", f) \cup {last}
                                   ELSE OfTopic("deleted", f)
      BY <1>2, <1>7 DEF Topics
    <3> QED  BY <1>1, <3>1, <3>2
  <2>4. /\ \A n \in unsent' : n.version <= db[n.entity].version
        /\ \A n \in unsent' : n.topic = "created" <=> n.version = 1
        /\ \A n, o \in unsent' : n.entity = o.entity /\ n.version = o.version => n = o
    BY <1>1 DEF EventsInv, IInv
  <2> QED  BY <1>1, <2>1, <2>2, <2>3, <2>4 DEF EventsInv
<1>10. \A t \in Topics, e \in Entities : Applied(t, e)' = Applied(t, e)
  <2>1. ~Consumed(m.topic, last)
    <3>1. position[m.topic] \in 0..Len(log[m.topic])
      BY <1>2 DEF IInv, TypesInv, TypeOK
    <3>2. done /\ busy = m.topic => position[m.topic] < Len(log[m.topic])
      BY <1>2 DEF IInv, TypesInv, TypeOK, FlowInv
    <3> QED  BY <1>0, <1>2, <3>1, <3>2 DEF Consumed
  <2>2. \A t \in Topics, i \in Nat : Consumed(t, i)' <=> Consumed(t, i)
    BY <1>1 DEF Consumed
  <2> SUFFICES ASSUME NEW t \in Topics, NEW e \in Entities
               PROVE  Applied(t, e)' = Applied(t, e)
    OBVIOUS
  <2>3. Applied(t, e)' = {i \in OfTopic(t, e)' : Consumed(t, i)}
    <3>1. \A i \in OfTopic(t, e)' : i \in Nat
      BY <1>0, <1>2, <1>7
    <3> QED  BY <2>2, <3>1 DEF Applied
  <2> QED  BY <1>7, <2>1, <2>3 DEF Applied
<1>11. \A e \in Entities : \A i \in Applied("updated", e) :
          log'["updated"][i].version = log["updated"][i].version
  BY <1>7 DEF Applied, Topics
<1>12. IndexInv'
  BY <1>1, <1>2, <1>10, <1>11, IndexKept DEF IInv
<1>13. PassedInv'
  <2>1. ASSUME NEW t \in Topics, committed[t] # NoOffset,
               NEW i \in (committed[t] + 1)..position[t]
        PROVE  log'[t][i].entity \in spoilt'
    <3>1. i \in 1..Len(log[t])
      BY <2>1 DEF IInv, TypesInv, TypeOK
    <3>2. log'[t][i] = log[t][i] /\ log[t][i].entity \in spoilt
      BY <1>5, <1>6, <2>1, <3>1 DEF PassedInv, IInv
    <3> QED  BY <1>1, <3>2
  <2> QED  BY <1>1, <2>1 DEF PassedInv, IInv
<1> QED  BY <1>9, <1>12, <1>13

LEMMA QuietApply ==
  ASSUME IInv, Apply
  PROVE  PassedInv' /\ EventsInv' /\ IndexInv'
<1>1. PICK t \in Topics, here \in Nat, e \in Entities, v \in 1..MaxVersion :
        /\ t = busy /\ here = position[t] + 1 /\ here \in 1..Len(log[t])
        /\ e = log[t][here].entity /\ v = log[t][here].version
        /\ Message = log[t][here]
  <2>1. Message \in Event /\ position[busy] + 1 \in Nat
    BY MessageThere DEF Apply, IInv
  <2> QED  BY <2>1, MessageThere DEF Apply, IInv, Event, Message
<1>2. /\ UNCHANGED <<db, unsent, silent, spoilt, log, position, committed, busy>> /\ done'
      /\ ~done /\ Unspoilt' = Unspoilt /\ Unspoilt \subseteq Entities
      /\ index' = [index EXCEPT ![e] = IF t = "deleted" THEN 0 ELSE v]
      /\ t = "created" \/ index[e] # 0
  BY <1>1 DEF Apply, Effect, Missing, core, Unspoilt
<1>3. EventsInv'
  BY <1>2, EventsKept DEF IInv
<1>4. \A u \in Topics, i \in Nat : Consumed(u, i)' <=> Consumed(u, i) \/ (u = t /\ i = here)
  BY <1>1, <1>2 DEF Consumed
<1>5. here \in OfTopic(t, e)
  BY <1>1 DEF OfTopic
<1>6. \A u \in Topics, f \in Entities :
        Applied(u, f)' = IF u = t /\ f = e THEN Applied(u, f) \cup {here} ELSE Applied(u, f)
  <2>1. \A u \in Topics, f \in Entities : OfTopic(u, f)' = OfTopic(u, f)
    BY <1>2 DEF OfTopic
  <2>2. \A u \in Topics, f \in Entities : \A i \in OfTopic(u, f) :
           i \in Nat /\ (u = t /\ i = here => f = e)
    BY <1>1 DEF OfTopic
  <2> SUFFICES ASSUME NEW u \in Topics, NEW f \in Entities
               PROVE  Applied(u, f)' = IF u = t /\ f = e THEN Applied(u, f) \cup {here}
                                       ELSE Applied(u, f)
    OBVIOUS
  <2>3. Applied(u, f)' = {i \in OfTopic(u, f) : Consumed(u, i) \/ (u = t /\ i = here)}
    BY <1>4, <2>1, <2>2 DEF Applied
  <2>4. CASE u = t /\ f = e
    BY <1>5, <2>3, <2>4 DEF Applied
  <2>5. CASE ~(u = t /\ f = e)
    BY <2>2, <2>3, <2>5 DEF Applied
  <2> QED  BY <2>4, <2>5
<1>7. \A i \in Applied(t, e) : i \in OfTopic(t, e) /\ i \in Nat /\ i < here
  BY <1>1, <1>2, LogTypes DEF Applied, Consumed, IInv, TypesInv
<1>8. \A f \in Entities : index'[f] = IF f = e THEN (IF t = "deleted" THEN 0 ELSE v) ELSE index[f]
  BY <1>2 DEF IInv, TypesInv, TypeOK
<1>9. e \in Unspoilt => (t = "created" <=> v = 1)
  BY <1>1, <1>5 DEF EventsInv, IInv
\* The event of the creation is the only one of its topic.
<1>10. e \in Unspoilt /\ t = "created" => Applied("created", e) = {}
  <2> SUFFICES ASSUME e \in Unspoilt, t = "created", NEW i \in Applied(t, e) PROVE FALSE
    OBVIOUS
  <2>1. log[t][i].version < log[t][here].version /\ log[t][i].version = 1
    BY <1>5, <1>7 DEF EventsInv, IInv
  <2> QED  BY <1>1, <1>9, <2>1
<1>11. e \in Unspoilt => IndexOf(e)
  BY DEF IndexInv, IInv
<1>12. ASSUME e \in Unspoilt  PROVE  IndexOf(e)'
  <2>1. CASE t = "created"
    <3>1. /\ Applied("created", e)' = {here}
          /\ Applied("updated", e)' = {} /\ Applied("deleted", e)' = {}
      BY <1>6, <1>10, <1>11, <1>12, <2>1 DEF IndexOf, Topics
    <3>2. index'[e] = 1
      BY <1>8, <1>9, <1>12, <2>1
    <3> QED  BY <3>1, <3>2 DEF IndexOf
  <2>2. CASE t = "updated"
    <3>1. Applied("created", e) # {} /\ Applied("deleted", e) = {}
      BY <1>2, <1>11, <1>12, <2>2 DEF IndexOf
    <3>2. /\ Applied("created", e)' = Applied("created", e)
          /\ Applied("updated", e)' = Applied("updated", e) \cup {here}
          /\ Applied("deleted", e)' = Applied("deleted", e)
      BY <1>6, <2>2 DEF Topics
    <3>3. index'[e] = v /\ v # 0 /\ log'["updated"][here].version = v
      BY <1>1, <1>2, <1>8, <2>2
    <3>4. \A i \in Applied("updated", e)' : i < here \/ i = here
      BY <1>7, <2>2, <3>2
    <3> QED  BY <3>1, <3>2, <3>3, <3>4 DEF IndexOf
  <2>3. CASE t = "deleted"
    <3>1. Applied("created", e) # {}
      BY <1>2, <1>11, <1>12, <2>3 DEF IndexOf
    <3>2. /\ Applied("created", e)' = Applied("created", e)
          /\ Applied("deleted", e)' # {}
      BY <1>6, <2>3 DEF Topics
    <3>3. index'[e] = 0
      BY <1>8, <2>3
    <3> QED  BY <3>1, <3>2, <3>3 DEF IndexOf
  <2> QED  BY <2>1, <2>2, <2>3 DEF Topics
<1>13. ASSUME NEW f \in Unspoilt, f # e  PROVE  IndexOf(f)'
  <2>1. /\ Applied("created", f)' = Applied("created", f)
        /\ Applied("updated", f)' = Applied("updated", f)
        /\ Applied("deleted", f)' = Applied("deleted", f)
        /\ index'[f] = index[f] /\ log' = log
    BY <1>2, <1>6, <1>8, <1>13 DEF Topics
  <2>2. IndexOf(f)
    BY DEF IndexInv, IInv
  <2> QED  BY <2>1, <2>2 DEF IndexOf
<1>14. IndexInv'
  BY <1>2, <1>12, <1>13 DEF IndexInv
<1>15. PassedInv'
  BY <1>2 DEF PassedInv, IInv
<1> QED  BY <1>3, <1>14, <1>15

-----------------------------------------------------------------------------
(* The theorems *)

LEMMA Steps ==
  ASSUME IInv, [Next]_vars
  PROVE  IInv'
<1>1. CASE Next
  <2>1. TypesInv'
    BY <1>1, CoreTypes, LifeTypes, ConsumeTypes DEF Next, IInv
  <2>2. FlowInv' /\ HandledInv'
    BY <1>1, FlowStep, HandledStep DEF IInv
  <2>3. PassedInv' /\ EventsInv' /\ IndexInv'
    BY <1>1, QuietRest, QuietLoss, QuietRoles, QuietWrite, QuietPublish, QuietApply
    DEF Next, UserService, Consume
  <2> QED  BY <2>1, <2>2, <2>3 DEF IInv
<1>2. CASE UNCHANGED vars
  <2> USE <1>2 DEF vars, core, consumer
  <2>1. TypesInv'
    BY DEF IInv, TypesInv, TypeOK
  <2>2. FlowInv'
    BY DEF IInv, FlowInv, Ready
  <2>3. HandledInv'
    BY HandledKept DEF IInv
  <2>4. PassedInv' /\ EventsInv' /\ IndexInv'
    <3>1. \A t \in Topics, e \in Unspoilt' : Applied(t, e)' = Applied(t, e)
      BY DEF Applied, OfTopic, Consumed
    <3>2. EventsInv' /\ IndexInv'
      BY <3>1, EventsKept, IndexKept DEF IInv
    <3>3. PassedInv'
      BY DEF PassedInv, IInv
    <3> QED  BY <3>2, <3>3
  <2> QED  BY <2>1, <2>2, <2>3, <2>4 DEF IInv
<1> QED  BY <1>1, <1>2

LEMMA Invariant == Spec => []IInv
BY InitInv, Steps, PTL DEF Spec

\* Every table, topic, offset and document keeps its type, and the offsets stay
\* within the topics.
THEOREM SearchTypes == Spec => []TypeOK
<1>1. IInv => TypeOK
  BY DEF IInv, TypesInv
<1> QED  BY <1>1, Invariant, PTL

\* However the consumer is stopped and started and whatever fails: what is
\* committed was handled, with the exceptions that the property names.
THEOREM CommitsHold == Spec => []CommittedMeansHandled
<1>1. IInv => CommittedMeansHandled
  <2> SUFFICES ASSUME IInv, NEW t \in Topics, NEW k \in 0..(committed[t] - 1)
               PROVE  Counted(t, k)
    BY DEF CommittedMeansHandled, Counted
  <2>1. k \in Nat /\ k < committed[t]
    BY DEF IInv, TypesInv, NoOffset
  <2> QED  BY <2>1 DEF IInv, HandledInv
<1> QED  BY <1>1, Invariant, PTL

\* Once everything is published and consumed the index shows every entity as
\* the database has it, in whatever order the topics were worked off, with
\* any restart, crash, failing request or commit: all but those of which an
\* event of their own went wrong, or whose last write publishes nothing.
THEOREM IdleIsInSync == Spec => []InSyncWhenIdle
<1>1. IInv => InSyncWhenIdle
  <2> SUFFICES ASSUME IInv, Idle, NEW e \in Entities, e \notin spoilt, e \notin silent
               PROVE  index[e] = IF db[e].deleted THEN 0 ELSE db[e].version
    BY DEF InSyncWhenIdle, InSync
  <2>1. EventsInv /\ e \in Unspoilt /\ IndexOf(e)
    BY DEF IInv, IndexInv, Unspoilt
  <2>2. \A t \in Topics : Applied(t, e) = OfTopic(t, e)
    BY LogTypes DEF Idle, Applied, Consumed, IInv
  <2>3. db[e].version \in 0..MaxVersion /\ MaxVersion \in Nat
    BY VersionAssumption DEF IInv, TypesInv, TypeOK
  <2>4. CASE db[e].deleted
    <3>1. OfTopic("deleted", e) # {}
      BY <2>1, <2>4 DEF EventsInv, Idle
    <3> QED  BY <2>1, <2>2, <2>4, <3>1 DEF IndexOf, Topics
  <2>5. CASE ~db[e].deleted
    <3>1. Applied("deleted", e) = {}
      BY <2>1, <2>2, <2>5 DEF EventsInv, Topics
    <3>2. \A t \in Topics : \A i \in Applied(t, e) :
             /\ log[t][i].version \in 1..db[e].version
             /\ t = "created" <=> log[t][i].version = 1
      BY <2>1, <2>2, <2>3, LogTypes DEF EventsInv, IInv
    <3>3. \A v \in 1..db[e].version : v = 1 \/ v = db[e].version =>
             \E t \in Topics : \E i \in Applied(t, e) : log[t][i].version = v
      BY <2>1, <2>2, <2>3 DEF EventsInv, Idle
    <3>4. CASE db[e].version = 0
      <4>1. Applied("created", e) = {}
        BY <3>2, <3>4 DEF Topics
      <4> QED  BY <2>1, <2>5, <3>4, <4>1 DEF IndexOf
    <3>5. CASE db[e].version # 0
      <4>1. 1 \in 1..db[e].version /\ db[e].version \in 1..db[e].version
        BY <2>3, <3>5
      <4>2. Applied("created", e) # {}
        BY <3>2, <3>3, <4>1
      <4>3. CASE Applied("updated", e) = {}
        <5>1. \E i \in Applied("created", e) : log["created"][i].version = db[e].version
          BY <3>1, <3>3, <4>1, <4>3 DEF Topics
        <5>2. db[e].version = 1
          BY <3>2, <5>1 DEF Topics
        <5> QED  BY <2>1, <2>5, <3>1, <4>2, <4>3, <5>2 DEF IndexOf
      <4>4. CASE Applied("updated", e) # {}
        <5>1. PICK i \in Applied("updated", e) : log["updated"][i].version = db[e].version
          <6>1. db[e].version # 1
            <7>1. PICK j \in Applied("updated", e) : TRUE
              BY <4>4
            <7>2. log["updated"][j].version \in 1..db[e].version /\ log["updated"][j].version # 1
              BY <3>2 DEF Topics
            <7> QED  BY <2>3, <7>2
          <6>2. PICK t \in Topics : \E j \in Applied(t, e) : log[t][j].version = db[e].version
            BY <3>3, <4>1
          <6>3. t = "updated"
            BY <3>1, <3>2, <6>1, <6>2 DEF Topics
          <6> QED  BY <6>2, <6>3
        \* The versions of a topic only grow, so that no later update is there.
        <5>2. \A j \in Applied("updated", e) : ~(i < j)
          <6> SUFFICES ASSUME NEW j \in Applied("updated", e), i < j PROVE FALSE
            OBVIOUS
          <6>1. log["updated"][i].version < log["updated"][j].version
            BY <2>1, <2>2 DEF EventsInv, Topics
          <6>2. log["updated"][j].version \in 1..db[e].version
            BY <3>2 DEF Topics
          <6> QED  BY <2>3, <5>1, <6>1, <6>2
        <5>3. index[e] = log["updated"][i].version
          BY <2>1, <3>1, <4>2, <5>2 DEF IndexOf
        <5> QED  BY <2>5, <5>1, <5>3
      <4> QED  BY <4>3, <4>4
    <3> QED  BY <3>4, <3>5
  <2> QED  BY <2>4, <2>5
<1> QED  BY <1>1, Invariant, PTL

-----------------------------------------------------------------------------
(* The way of a log line (LogPipeline) *)

\* No line is twice in a batch.
NoneTwice(batch) ==
  \A i, j \in 1..Len(batch) : i # j => batch[i] # batch[j]

LineTypes ==
  /\ length \in [Files -> Nat]
  /\ tail \in [Files -> Int]
  /\ buffer \in Seq(Lines)
  /\ flush \in [Flushes -> Seq(Lines)]
  /\ read \subseteq Lines /\ indexed \subseteq Lines /\ dropped \subseteq Lines

Buffered == ToSet(buffer)
Flying(k) == ToSet(flush[k])

\* A tail has passed the lines that were read, and is not past the end.
TailInv ==
  /\ \A line \in read : line[2] <= length[line[1]]
  /\ \A f \in Files : tail[f] # NoTail =>
       /\ tail[f] <= length[f]
       /\ \A line \in read : line[1] = f => line[2] <= tail[f]
  /\ \A f \in Files : length[f] <= MaxLines

PlaceInv ==
  /\ NoneTwice(buffer)
  /\ \A k \in Flushes : NoneTwice(flush[k])
  /\ \A k \in Flushes : Buffered \cap Flying(k) = {}
  /\ \A k, l \in Flushes : k # l => Flying(k) \cap Flying(l) = {}
  /\ \A k \in Flushes : Flying(k) \cap indexed = {} /\ Flying(k) \cap dropped = {}
  /\ Buffered \cap indexed = {} /\ Buffered \cap dropped = {}
  /\ indexed \cap dropped = {}
  /\ \A line \in Lines :
       line \in read <=> \/ line \in Buffered \/ line \in indexed \/ line \in dropped
                         \/ \E k \in Flushes : line \in Flying(k)

LinesInv == LineTypes /\ TailInv /\ PlaceInv

\* A batch without repetitions is no longer than there are lines.
LEMMA LinesFinite == IsFiniteSet(Lines) /\ Cardinality(Lines) \in Nat
<1>1. IsFiniteSet(1..MaxLines)
  BY LogBoundsAssumption, FS_Interval
<1>2. IsFiniteSet(Files \X (1..MaxLines))
  BY <1>1, LogFilesAssumption, FS_Product
<1> QED
  BY <1>2, FS_CardinalityType DEF Lines

LEMMA BatchFits ==
  ASSUME NEW batch \in Seq(Lines), NoneTwice(batch)
  PROVE  Len(batch) <= Cardinality(Lines)
<1>0. Len(batch) \in Nat /\ batch \in [1..Len(batch) -> Lines]
  BY LenProperties
<1>1. IsFiniteSet(1..Len(batch)) /\ Cardinality(1..Len(batch)) = Len(batch)
  BY <1>0, FS_Interval
<1>2. batch \in Injection(1..Len(batch), Lines)
  BY <1>0 DEF NoneTwice, Injection, IsInjective
<1>3. Cardinality(1..Len(batch)) <= Cardinality(Lines)
  BY <1>1, <1>2, LinesFinite, FS_Injection DEF ExistsInjection
<1> QED
  BY <1>1, <1>3

\* What ToSet gives, for the batches.
LEMMA InBatch ==
  ASSUME NEW batch \in Seq(Lines)
  PROVE  /\ ToSet(batch) \subseteq Lines
         /\ \A line : line \in ToSet(batch) <=> \E i \in 1..Len(batch) : batch[i] = line
<1>1. batch \in [1..Len(batch) -> Lines] /\ DOMAIN batch = 1..Len(batch)
  BY LenProperties
<1> QED
  BY <1>1 DEF ToSet

LEMMA OneCopyInBuffer ==
  ASSUME LinesInv, NEW line \in Lines
  PROVE  Cardinality({i \in DOMAIN buffer : buffer[i] = line}) =
           IF line \in Buffered THEN 1 ELSE 0
<1> DEFINE places == {i \in DOMAIN buffer : buffer[i] = line}
<1>1. DOMAIN buffer = 1..Len(buffer) /\ Len(buffer) \in Nat
  BY LenProperties DEF LinesInv, LineTypes
<1>2. CASE line \in Buffered
  <2>1. PICK i \in 1..Len(buffer) : buffer[i] = line
    BY <1>2, InBatch DEF Buffered, LinesInv, LineTypes
  <2>2. places = {i}
    BY <1>1, <2>1 DEF LinesInv, PlaceInv, NoneTwice
  <2> QED
    BY <1>2, <2>2, FS_Singleton
<1>3. CASE line \notin Buffered
  <2>1. places = {}
    BY <1>1, <1>3, InBatch DEF Buffered, LinesInv, LineTypes
  <2> QED
    BY <1>3, <2>1, FS_EmptySet
<1> QED
  BY <1>2, <1>3

LEMMA OneCopyInFlight ==
  ASSUME LinesInv, NEW line \in Lines
  PROVE  Cardinality({p \in Flushes \X (1..Cardinality(Lines)) :
                        p[2] \in DOMAIN flush[p[1]] /\ flush[p[1]][p[2]] = line}) =
           IF \E k \in Flushes : line \in Flying(k) THEN 1 ELSE 0
<1> DEFINE places == {p \in Flushes \X (1..Cardinality(Lines)) :
                        p[2] \in DOMAIN flush[p[1]] /\ flush[p[1]][p[2]] = line}
<1>1. \A k \in Flushes : /\ flush[k] \in Seq(Lines) /\ DOMAIN flush[k] = 1..Len(flush[k])
                         /\ Len(flush[k]) \in Nat
  BY LenProperties DEF LinesInv, LineTypes
<1>2. CASE \E k \in Flushes : line \in Flying(k)
  <2>1. PICK k \in Flushes : line \in Flying(k)
    BY <1>2
  <2>2. PICK i \in 1..Len(flush[k]) : flush[k][i] = line
    BY <1>1, <2>1, InBatch DEF Flying
  <2>3. Len(flush[k]) <= Cardinality(Lines)
    BY <1>1, BatchFits DEF LinesInv, PlaceInv
  <2>4. <<k, i>> \in places
    BY <1>1, <2>2, <2>3, LinesFinite
  <2>5. ASSUME NEW p \in places PROVE p = <<k, i>>
    <3>1. /\ p = <<p[1], p[2]>> /\ p[1] \in Flushes
          /\ p[2] \in DOMAIN flush[p[1]] /\ flush[p[1]][p[2]] = line
      BY <2>5
    <3>2. line \in Flying(p[1])
      BY <1>1, <3>1, InBatch DEF Flying
    <3>3. p[1] = k
      BY <2>1, <3>1, <3>2 DEF LinesInv, PlaceInv
    <3> QED
      BY <1>1, <2>2, <3>1, <3>3 DEF LinesInv, PlaceInv, NoneTwice
  <2>6. places = {<<k, i>>}
    BY <2>4, <2>5
  <2> QED
    BY <1>2, <2>6, FS_Singleton
<1>3. CASE ~\E k \in Flushes : line \in Flying(k)
  <2>1. places = {}
    BY <1>1, <1>3, InBatch DEF Flying
  <2> QED
    BY <1>3, <2>1, FS_EmptySet
<1> QED
  BY <1>2, <1>3

LEMMA LinesPlaced == LinesInv => InOnePlace
<1> SUFFICES ASSUME LinesInv, NEW line \in Lines
             PROVE  Copies(line) = IF line \in read THEN 1 ELSE 0
  BY DEF InOnePlace
<1>1. Copies(line) = (IF line \in Buffered THEN 1 ELSE 0)
                     + (IF \E k \in Flushes : line \in Flying(k) THEN 1 ELSE 0)
                     + (IF line \in indexed THEN 1 ELSE 0)
                     + (IF line \in dropped THEN 1 ELSE 0)
  BY OneCopyInBuffer, OneCopyInFlight DEF Copies
<1>2. CASE line \in Buffered
  BY <1>1, <1>2 DEF LinesInv, PlaceInv
<1>3. CASE \E k \in Flushes : line \in Flying(k)
  BY <1>1, <1>3 DEF LinesInv, PlaceInv
<1>4. CASE line \in indexed
  BY <1>1, <1>4 DEF LinesInv, PlaceInv
<1>5. CASE line \in dropped
  BY <1>1, <1>5 DEF LinesInv, PlaceInv
<1> QED
  BY <1>1, <1>2, <1>3, <1>4, <1>5 DEF LinesInv, PlaceInv

-----------------------------------------------------------------------------
LEMMA LinesInitially == LogInit => LinesInv
<1> SUFFICES ASSUME LogInit PROVE LinesInv
  OBVIOUS
<1>1. <<>> \in Seq(Lines) /\ Len(<<>>) = 0 /\ ToSet(<<>>) = {}
  BY EmptySeq DEF ToSet
<1>2. LineTypes
  BY <1>1 DEF LogInit, LineTypes, NoTail
<1>3. TailInv
  BY LogBoundsAssumption DEF LogInit, TailInv
<1>4. PlaceInv
  BY <1>1 DEF LogInit, PlaceInv, NoneTwice, Buffered, Flying
<1> QED
  BY <1>2, <1>3, <1>4 DEF LinesInv

\* The places only depend on these variables.
LEMMA PlacesKept ==
  ASSUME PlaceInv, UNCHANGED <<buffer, flush, read, indexed, dropped>>
  PROVE  PlaceInv'
BY DEF PlaceInv, NoneTwice, Buffered, Flying

LEMMA FileSteps ==
  ASSUME LinesInv, NEW f \in Files, CreateFile(f) \/ WriteLine(f) \/ RemoveFile(f)
  PROVE  LinesInv'
<1>1. PlaceInv'
  BY PlacesKept DEF LinesInv, CreateFile, WriteLine, RemoveFile, pipe
<1>2. CASE CreateFile(f)
  BY <1>1, <1>2 DEF CreateFile, LinesInv, LineTypes, TailInv, pipe
<1>3. CASE WriteLine(f)
  <2>1. LineTypes'
    BY <1>3 DEF WriteLine, LinesInv, LineTypes, pipe
  <2>2. \A line \in read : line[1] \in Files /\ line[2] \in Nat
    BY DEF LinesInv, LineTypes, Lines
  <2>3. TailInv'
    BY <1>3, <2>2, LogBoundsAssumption DEF WriteLine, LinesInv, LineTypes, TailInv, pipe
  <2> QED
    BY <1>1, <2>1, <2>3 DEF LinesInv
<1>4. CASE RemoveFile(f)
  BY <1>1, <1>4 DEF RemoveFile, StopTailingFile, LinesInv, LineTypes, TailInv, NoTail, pipe
<1> QED
  BY <1>2, <1>3, <1>4

LEMMA StartSteps ==
  ASSUME LinesInv, StartWatcher \/ \E f \in Files : StartTailingFile(f)
  PROVE  LinesInv'
<1>1. PlaceInv'
  BY PlacesKept DEF LinesInv, StartWatcher, StartTailingFile, pipe
<1>2. CASE StartWatcher
  BY <1>1, <1>2 DEF StartWatcher, LinesInv, LineTypes, TailInv, pipe, files
<1>3. CASE \E f \in Files : StartTailingFile(f)
  <2>1. PICK f \in Files : StartTailingFile(f)
    BY <1>3
  <2>2. LineTypes'
    BY <2>1 DEF StartTailingFile, LinesInv, LineTypes, pipe, files
  <2>3. TailInv'
    BY <2>1 DEF StartTailingFile, LinesInv, LineTypes, TailInv, pipe, files
  <2> QED
    BY <1>1, <2>2, <2>3 DEF LinesInv
<1> QED
  BY <1>2, <1>3

\* The line behind a tail has not been read, and is in the buffer once it is.
LEMMA HandleStep ==
  ASSUME LinesInv, NEW f \in Files, HandleLogLine(f)
  PROVE  LinesInv'
<1> DEFINE line == <<f, tail[f] + 1>>
<1>1. /\ tail[f] \in Int /\ tail[f] # NoTail /\ tail[f] >= 0 /\ tail[f] < length[f]
      /\ length[f] \in Nat /\ length[f] <= MaxLines
      /\ tail' = [tail EXCEPT ![f] = @ + 1] /\ length' = length
      /\ flush' = flush /\ indexed' = indexed /\ dropped' = dropped
  BY DEF HandleLogLine, LinesInv, LineTypes, TailInv, NoTail, files
<1>2. line \in Lines
  BY <1>1, LogBoundsAssumption DEF Lines
<1>3. line \notin read
  BY <1>1 DEF LinesInv, TailInv
<1>4. CASE line \in noise
  <2>1. buffer' = buffer /\ read' = read
    BY <1>4 DEF HandleLogLine
  <2>2. LineTypes'
    BY <1>1, <2>1 DEF LinesInv, LineTypes
  <2>3. TailInv'
    <3>1. \A l \in read : l[1] \in Files /\ l[2] \in Nat
      BY DEF LinesInv, LineTypes, Lines
    <3> QED
      BY <1>1, <2>1, <3>1 DEF LinesInv, LineTypes, TailInv, NoTail
  <2> QED
    BY <1>1, <2>1, <2>2, <2>3, PlacesKept DEF LinesInv
<1>5. CASE line \notin noise
  <2>1. buffer' = Append(buffer, line) /\ read' = read \cup {line}
    BY <1>5 DEF HandleLogLine
  <2>2. /\ buffer' \in Seq(Lines) /\ Len(buffer') = Len(buffer) + 1 /\ Len(buffer) \in Nat
        /\ \A i \in 1..Len(buffer) : buffer'[i] = buffer[i]
        /\ buffer'[Len(buffer) + 1] = line
    BY <1>2, <2>1, AppendProperties, LenProperties DEF LinesInv, LineTypes
  <2>3. LineTypes'
    <3>1. tail' \in [Files -> Int]
      BY <1>1 DEF LinesInv, LineTypes
    <3>2. read' \subseteq Lines
      BY <1>2, <2>1 DEF LinesInv, LineTypes
    <3> QED
      BY <1>1, <2>2, <3>1, <3>2 DEF LinesInv, LineTypes
  <2>4. TailInv'
    <3>1. \A l \in read : l[1] \in Files /\ l[2] \in Nat
      BY DEF LinesInv, LineTypes, Lines
    <3> QED
      BY <1>1, <2>1, <3>1 DEF LinesInv, LineTypes, TailInv, NoTail
  <2>5. Buffered' = Buffered \cup {line}
    <3>1. \A l : l \in Buffered <=> \E i \in 1..Len(buffer) : buffer[i] = l
      BY InBatch DEF Buffered, LinesInv, LineTypes
    <3>2. \A l : l \in Buffered' <=> \E i \in 1..Len(buffer') : buffer'[i] = l
      BY <2>2, InBatch DEF Buffered
    <3>3. \A l : (\E i \in 1..Len(buffer') : buffer'[i] = l)
                  <=> (l = line \/ \E i \in 1..Len(buffer) : buffer[i] = l)
      <4> HIDE DEF line
      <4> QED
        BY <2>2
    <3>4. \A l : l \in Buffered' <=> l \in Buffered \cup {line}
      BY <3>1, <3>2, <3>3
    <3> QED
      BY <3>4
  <2>6. \A k \in Flushes : Flying(k)' = Flying(k)
    BY <1>1 DEF Flying
  <2>7. line \notin Buffered /\ line \notin indexed /\ line \notin dropped
        /\ \A k \in Flushes : line \notin Flying(k)
    BY <1>2, <1>3 DEF LinesInv, PlaceInv
  <2>8. NoneTwice(buffer')
    <3>1. \A i \in 1..Len(buffer) : buffer[i] # line
      BY <2>7, InBatch DEF Buffered, LinesInv, LineTypes
    <3> QED
      BY <2>2, <3>1 DEF NoneTwice, LinesInv, PlaceInv
  <2>9. PlaceInv'
    <3> HIDE DEF line
    <3>1. \A k \in Flushes : NoneTwice(flush'[k])
      BY <1>1 DEF LinesInv, PlaceInv
    <3> QED
      BY <1>1, <2>1, <2>5, <2>6, <2>7, <2>8, <3>1 DEF LinesInv, PlaceInv
  <2> QED
    BY <2>3, <2>4, <2>9 DEF LinesInv
<1> QED
  BY <1>4, <1>5

\* The batch of a flush is what the buffer held.
LEMMA TakeStep ==
  ASSUME LinesInv, NEW k \in Flushes, TakeBuffer(k), UNCHANGED <<read, indexed, dropped>>
  PROVE  /\ PlaceInv' /\ buffer' \in Seq(Lines) /\ flush' \in [Flushes -> Seq(Lines)]
<1>1. /\ flush[k] = <<>> /\ buffer' = <<>> /\ flush' = [flush EXCEPT ![k] = buffer]
  BY DEF TakeBuffer, ClearedBuffer
<1>2. buffer' \in Seq(Lines) /\ flush' \in [Flushes -> Seq(Lines)]
  BY <1>1, EmptySeq DEF LinesInv, LineTypes
<1>3. Buffered' = {} /\ NoneTwice(buffer')
  BY <1>1 DEF Buffered, ToSet, NoneTwice
<1>4. /\ Flying(k) = {} /\ Flying(k)' = Buffered
      /\ \A l \in Flushes : l # k => Flying(l)' = Flying(l)
  BY <1>1 DEF Flying, Buffered, ToSet, LinesInv, LineTypes
<1>5. \A l \in Flushes : NoneTwice(flush'[l])
  BY <1>1 DEF LinesInv, LineTypes, PlaceInv
<1>6. \A line \in Lines : (\E l \in Flushes : line \in Flying(l)') <=>
                            line \in Buffered \/ \E l \in Flushes : line \in Flying(l)
  BY <1>4
<1>7. \A l, m \in Flushes : l # m => Flying(l)' \cap Flying(m)' = {}
  BY <1>4 DEF LinesInv, PlaceInv
<1>8. \A l \in Flushes : Flying(l)' \cap indexed' = {} /\ Flying(l)' \cap dropped' = {}
  BY <1>4 DEF LinesInv, PlaceInv
<1>9. \A line \in Lines :
        line \in read' <=> \/ line \in Buffered' \/ line \in indexed' \/ line \in dropped'
                           \/ \E l \in Flushes : line \in Flying(l)'
  BY <1>3, <1>6 DEF LinesInv, PlaceInv
<1> QED
  BY <1>2, <1>3, <1>5, <1>7, <1>8, <1>9 DEF LinesInv, PlaceInv

\* A batch that returns is in the index or lost.
LEMMA IndexesStep ==
  ASSUME LinesInv, NEW k \in Flushes, NEW lines \in SUBSET Flying(k), Indexes(k, lines),
         UNCHANGED <<length, tail, buffer, read>>
  PROVE  LinesInv'
<1>1. /\ flush' = [flush EXCEPT ![k] = <<>>]
      /\ indexed' = indexed \cup lines /\ dropped' = dropped \cup (Flying(k) \ lines)
  BY DEF Indexes, Flying
<1>2. Flying(k) \subseteq Lines
  BY InBatch DEF Flying, LinesInv, LineTypes
<1>3. LineTypes'
  BY <1>1, <1>2, EmptySeq DEF LinesInv, LineTypes
<1>4. TailInv'
  BY DEF LinesInv, TailInv
<1>5. Buffered' = Buffered
  BY DEF Buffered
<1>6. /\ Flying(k)' = {}
      /\ \A l \in Flushes : l # k => Flying(l)' = Flying(l)
  BY <1>1 DEF Flying, ToSet, LinesInv, LineTypes
<1>7. \A l \in Flushes : NoneTwice(flush'[l])
  BY <1>1 DEF LinesInv, LineTypes, PlaceInv, NoneTwice
<1>8. \A l, m \in Flushes : l # m => Flying(l)' \cap Flying(m)' = {}
  BY <1>6 DEF LinesInv, PlaceInv
<1>9. \A l \in Flushes : /\ Flying(l)' \cap indexed' = {} /\ Flying(l)' \cap dropped' = {}
                         /\ Buffered' \cap Flying(l)' = {}
  BY <1>1, <1>5, <1>6 DEF LinesInv, PlaceInv
<1>10. Buffered' \cap indexed' = {} /\ Buffered' \cap dropped' = {} /\ indexed' \cap dropped' = {}
  BY <1>1, <1>5 DEF LinesInv, PlaceInv
<1>11. \A line \in Lines :
        line \in read' <=> \/ line \in Buffered' \/ line \in indexed' \/ line \in dropped'
                           \/ \E l \in Flushes : line \in Flying(l)'
  BY <1>1, <1>5, <1>6 DEF LinesInv, PlaceInv
<1> QED
  BY <1>3, <1>4, <1>7, <1>8, <1>9, <1>10, <1>11 DEF LinesInv, PlaceInv

LEMMA DestroyStep == LinesInv /\ Destroy => LinesInv'
<1> SUFFICES ASSUME LinesInv, Destroy PROVE LinesInv'
  OBVIOUS
<1>1. /\ tail' = [f \in Files |-> NoTail] /\ UNCHANGED <<length, read, indexed, dropped>>
  BY DEF Destroy, files
<1>2. TailInv'
  BY <1>1 DEF LinesInv, TailInv
<1>3. CASE \E k \in Flushes : TakeBuffer(k)
  BY <1>1, <1>2, <1>3, TakeStep DEF LinesInv, LineTypes, NoTail
<1>4. CASE UNCHANGED <<buffer, flush>>
  BY <1>1, <1>2, <1>4, PlacesKept DEF LinesInv, LineTypes, NoTail
<1> QED
  BY <1>3, <1>4 DEF Destroy

\* A crash loses what was in memory and was not indexed.
LEMMA CrashStep == LinesInv /\ CrashLogger => LinesInv'
<1> SUFFICES ASSUME LinesInv, CrashLogger PROVE LinesInv'
  OBVIOUS
<1> DEFINE flying == UNION {ToSet(flush[k]) : k \in Flushes}
<1>0. \A line : line \in flying <=> \E k \in Flushes : line \in Flying(k)
  BY DEF Flying
<1>1. PICK lines \in {{}, flying} :
        indexed' = indexed \cup lines /\ dropped' = dropped \cup Buffered \cup (flying \ lines)
  BY DEF CrashLogger, Buffered
<1>2. /\ tail' = [f \in Files |-> NoTail] /\ buffer' = <<>> /\ flush' = [k \in Flushes |-> <<>>]
      /\ UNCHANGED <<length, read>>
  BY DEF CrashLogger, files
<1>3. flying \subseteq Lines /\ Buffered \subseteq Lines
  BY <1>0, InBatch DEF LinesInv, LineTypes, Flying, Buffered
<1> HIDE DEF flying
<1>4. LineTypes'
  BY <1>1, <1>2, <1>3, EmptySeq DEF LinesInv, LineTypes, NoTail
<1>5. TailInv'
  BY <1>2 DEF LinesInv, TailInv
<1>6. Buffered' = {} /\ \A k \in Flushes : Flying(k)' = {}
  BY <1>2 DEF Buffered, Flying, ToSet
<1>7. NoneTwice(buffer') /\ \A k \in Flushes : NoneTwice(flush'[k])
  BY <1>2 DEF NoneTwice
<1>8. indexed' \cap dropped' = {}
  BY <1>0, <1>1 DEF LinesInv, PlaceInv
<1>9. \A line \in Lines :
        line \in read' <=> \/ line \in Buffered' \/ line \in indexed' \/ line \in dropped'
                           \/ \E l \in Flushes : line \in Flying(l)'
  BY <1>0, <1>1, <1>2, <1>6 DEF LinesInv, PlaceInv
<1> QED
  BY <1>4, <1>5, <1>6, <1>7, <1>8, <1>9 DEF LinesInv, PlaceInv

LEMMA LineSteps == LinesInv /\ [LogNext]_logVars => LinesInv'
<1> SUFFICES ASSUME LinesInv, [LogNext]_logVars PROVE LinesInv'
  OBVIOUS
<1>1. CASE WriteFiles
  BY <1>1, FileSteps DEF WriteFiles
<1>2. CASE Watch
  BY <1>2, StartSteps, HandleStep DEF Watch
<1>3. ASSUME NEW k \in Flushes, FlushBuffer(k) PROVE LinesInv'
  BY <1>3, TakeStep DEF FlushBuffer, LinesInv, LineTypes, TailInv, files
<1>4. ASSUME NEW k \in Flushes, ShipLogBatch(k) PROVE LinesInv'
  BY <1>4, IndexesStep DEF ShipLogBatch, Flying, files
<1>5. ASSUME NEW k \in Flushes, BatchRejected(k) PROVE LinesInv'
  BY <1>5, IndexesStep DEF BatchRejected, Flying, files
<1>6. CASE UNCHANGED logVars
  BY <1>6, PlacesKept DEF logVars, files, pipe, LinesInv, LineTypes, TailInv
<1> QED
  BY <1>1, <1>2, <1>3, <1>4, <1>5, <1>6, DestroyStep, CrashStep DEF LogNext, Ship

\* Every line that was read is in exactly one place: the buffer, one flush, the index,
\* or among the lines lost; no interleaving of flushes, crashes and rotations
\* loses one silently or sends one twice.
THEOREM LinesStayInOnePlace == LogSpec => []InOnePlace
BY LinesInitially, LineSteps, LinesPlaced, PTL DEF LogSpec

-----------------------------------------------------------------------------
(* The reports: sums *)

\* A set of numbers that is not empty has a least member.
LEMMA LeastNumber ==
  ASSUME NEW T \in SUBSET Nat, T # {}
  PROVE  \E m \in T : \A k \in T : m <= k
<1>1. PICK m \in T : \A k \in T : ~(<<k, m>> \in OpToRel(<, Nat))
  BY NatLessThanWellFounded, WFMin
<1>2. \A k \in T : ~(k < m)
  BY <1>1 DEF OpToRel
<1> QED
  BY <1>2

\* The function that the lag is defined with, on the sets of partitions in P.
Sums(g, highs, offsets, P) ==
  g = [s \in P |-> IF s = {} THEN 0
                   ELSE LET x == CHOOSE y \in s : TRUE IN
                        (highs[x] - offsets[x]) + g[s \ {x}]]

LEMMA Removed ==
  ASSUME NEW s, IsFiniteSet(s), s # {}
  PROVE  LET x == CHOOSE y \in s : TRUE IN
           /\ x \in s /\ IsFiniteSet(s \ {x}) /\ Cardinality(s) \in Nat \ {0}
           /\ Cardinality(s \ {x}) = Cardinality(s) - 1
           /\ Cardinality(s) = 1 <=> s \ {x} = {}
<1> DEFINE x == CHOOSE y \in s : TRUE
<1>1. x \in s
  OBVIOUS
<1> HIDE DEF x
<1>2. IsFiniteSet(s \ {x}) /\ Cardinality(s \ {x}) = Cardinality(s) - 1
  BY <1>1, FS_RemoveElement
<1>3. Cardinality(s) \in Nat /\ Cardinality(s \ {x}) \in Nat
  BY <1>2, FS_CardinalityType
<1>4. Cardinality(s) # 0 /\ (Cardinality(s \ {x}) = 0 <=> s \ {x} = {})
  BY <1>2, FS_EmptySet
<1>5. Cardinality(s) = 1 <=> s \ {x} = {}
  BY <1>2, <1>3, <1>4
<1> QED
  BY <1>1, <1>2, <1>3, <1>4, <1>5 DEF x

LEMMA SumsExists ==
  ASSUME NEW S, IsFiniteSet(S), NEW highs, NEW offsets,
         \A x \in S : highs[x] - offsets[x] \in Int
  PROVE  \E g : Sums(g, highs, offsets, SUBSET S)
<1> DEFINE Upto(m) == {s \in SUBSET S : Cardinality(s) <= m}
           T == {m \in Nat : ~\E g : Sums(g, highs, offsets, Upto(m))}
<1>0. /\ \A s \in SUBSET S : IsFiniteSet(s) /\ Cardinality(s) \in Nat
      /\ \A s \in SUBSET S : Cardinality(s) <= Cardinality(S)
  BY FS_Subset, FS_CardinalityType
<1>1. ASSUME T # {} PROVE FALSE
  <2>1. PICK m \in T : \A k \in T : m <= k
    <3>1. T \in SUBSET Nat
      OBVIOUS
    <3> HIDE DEF T
    <3> QED
      BY <1>1, <3>1, LeastNumber
  <2>2. m \in Nat /\ ~\E g : Sums(g, highs, offsets, Upto(m))
    BY <2>1
  <2>3. \E g : m # 0 => Sums(g, highs, offsets, Upto(m - 1))
    <3>1. CASE m # 0
      <4>1. m - 1 \in Nat
        BY <2>2, <3>1
      <4>2. m - 1 \notin T
        <5> HIDE DEF T
        <5> QED
          BY <2>1, <2>2, <4>1
      <4> QED
        BY <4>1, <4>2
    <3> QED
      BY <3>1
  <2>4. PICK g : m # 0 => Sums(g, highs, offsets, Upto(m - 1))
    BY <2>3
  <2> DEFINE first(s) == CHOOSE y \in s : TRUE
             term(x) == highs[x] - offsets[x]
             f == [s \in Upto(m) |->
                     IF s = {} THEN 0
                     ELSE term(first(s)) +
                          (IF Cardinality(s) = 1 THEN 0 ELSE g[s \ {first(s)}])]
  <2>5. ASSUME NEW s \in Upto(m), s # {}
        PROVE  f[s \ {first(s)}] = IF Cardinality(s) = 1 THEN 0 ELSE g[s \ {first(s)}]
    <3> DEFINE r == s \ {first(s)}
    <3>1. /\ first(s) \in s /\ IsFiniteSet(r) /\ Cardinality(s) \in Nat \ {0}
          /\ Cardinality(r) = Cardinality(s) - 1
          /\ Cardinality(s) = 1 <=> r = {}
      BY <1>0, <2>5, Removed
    <3>2. m # 0 /\ r \in Upto(m - 1) /\ r \in Upto(m) /\ r \in SUBSET S
      <4>1. r \in SUBSET S /\ Cardinality(s) <= m
        BY <2>5
      <4> HIDE DEF r
      <4> QED
        BY <2>2, <3>1, <4>1
    <3>3. CASE r = {}
      <4>1. f[r] = 0
        BY <3>2, <3>3
      <4> HIDE DEF f, r
      <4> QED
        BY <3>1, <3>3, <4>1 DEF r
    <3>4. CASE r # {}
      <4> DEFINE q == r \ {first(r)}
      <4>1. Cardinality(r) = 1 => q = {}
        BY <3>1, <3>4, Removed
      <4>2. g[r] = term(first(r)) + g[q]
        <5> HIDE DEF r, term
        <5> QED
          BY <2>4, <3>2, <3>4 DEF Sums, term
      <4>3. Cardinality(r) = 1 => g[q] = 0
        <5>1. {} \in Upto(m - 1)
          BY <2>2, <3>2, FS_EmptySet
        <5> HIDE DEF q
        <5> QED
          BY <2>4, <3>2, <4>1, <5>1 DEF Sums
      <4>4. f[r] = term(first(r)) + (IF Cardinality(r) = 1 THEN 0 ELSE g[q])
        <5> HIDE DEF r
        <5> QED
          BY <3>2, <3>4
      <4>5. f[r] = g[r]
        <5> HIDE DEF f, q, r, term, first
        <5> QED
          BY <4>2, <4>3, <4>4
      <4> HIDE DEF f, r
      <4> QED
        BY <3>1, <3>4, <4>5 DEF r
    <3> QED
      BY <3>3, <3>4
  <2>6. ASSUME NEW s \in Upto(m)
        PROVE  f[s] = IF s = {} THEN 0
                      ELSE LET x == CHOOSE y \in s : TRUE IN
                           (highs[x] - offsets[x]) + f[s \ {x}]
    <3>1. f[s] = IF s = {} THEN 0
                 ELSE term(first(s)) +
                      (IF Cardinality(s) = 1 THEN 0 ELSE g[s \ {first(s)}])
      OBVIOUS
    <3>2. s # {} => f[s \ {first(s)}]
                      = IF Cardinality(s) = 1 THEN 0 ELSE g[s \ {first(s)}]
      BY <2>5
    <3> HIDE DEF f
    <3> QED
      BY <3>1, <3>2
  <2>7. f = [s \in Upto(m) |-> f[s]]
    OBVIOUS
  <2> HIDE DEF f
  <2>8. f = [s \in Upto(m) |-> IF s = {} THEN 0
               ELSE LET x == CHOOSE y \in s : TRUE IN
                    (highs[x] - offsets[x]) + f[s \ {x}]]
    BY <2>6, <2>7
  <2>9. Sums(f, highs, offsets, Upto(m))
    BY <2>8 DEF Sums
  <2> QED
    BY <2>2, <2>9
<1>2. Cardinality(S) \in Nat
  BY <1>0
<1>3. Cardinality(S) \notin T
  BY <1>1
<1>4. Upto(Cardinality(S)) = SUBSET S
  BY <1>0
<1> QED
  BY <1>2, <1>3, <1>4

\* A sum of numbers that are not negative is none, and nothing only where each is.
LEMMA NothingLeft ==
  ASSUME NEW S, IsFiniteSet(S), NEW highs, NEW offsets,
         \A x \in S : highs[x] - offsets[x] \in Nat,
         NEW g, Sums(g, highs, offsets, SUBSET S), g[S] = 0
  PROVE  \A x \in S : highs[x] - offsets[x] = 0
<1> DEFINE Good(s) == g[s] \in Nat /\ (g[s] = 0 => \A x \in s : highs[x] - offsets[x] = 0)
           T == {m \in Nat : \E s \in SUBSET S : Cardinality(s) = m /\ ~Good(s)}
<1>3. \A s \in SUBSET S : IsFiniteSet(s) /\ Cardinality(s) \in Nat
  BY FS_Subset, FS_CardinalityType
<1>4. ASSUME T # {} PROVE FALSE
  <2>1. PICK m \in T : \A k \in T : m <= k
    <3>1. T \in SUBSET Nat
      OBVIOUS
    <3> HIDE DEF T
    <3> QED
      BY <1>4, <3>1, LeastNumber
  <2>2. PICK s \in SUBSET S : Cardinality(s) = m /\ ~Good(s)
    BY <2>1
  <2>3. g[{}] = 0
    BY DEF Sums
  <2>4. s # {}
    <3>1. Good({})
      BY <2>3
    <3> QED
      BY <2>2, <3>1
  <2> DEFINE x == CHOOSE y \in s : TRUE
             r == s \ {x}
  <2>5. /\ x \in s /\ r \in SUBSET S /\ Cardinality(s) \in Nat \ {0}
        /\ Cardinality(r) = Cardinality(s) - 1
    BY <1>3, <2>4, Removed
  <2>6. g[s] = (highs[x] - offsets[x]) + g[r]
    BY <2>4 DEF Sums
  <2> HIDE DEF x
  <2>7. Good(r)
    <3> HIDE DEF Good, r
    <3>1. Cardinality(r) \in Nat /\ Cardinality(r) < m
      BY <1>3, <2>2, <2>5
    <3>2. Cardinality(r) \notin T
      <4> HIDE DEF T
      <4> QED
        BY <2>1, <2>2, <2>5, <3>1
    <3> QED
      BY <2>5, <3>1, <3>2
  <2>8. highs[x] - offsets[x] \in Nat
    BY <2>5
  <2>9. g[s] \in Nat /\ (g[s] = 0 => highs[x] - offsets[x] = 0 /\ g[r] = 0)
    <3> HIDE DEF r
    <3>1. \A a, b \in Nat : a + b \in Nat /\ (a + b = 0 => a = 0 /\ b = 0)
      OBVIOUS
    <3> QED
      BY <2>6, <2>7, <2>8, <3>1
  <2>10. Good(s)
    BY <2>7, <2>9
  <2> QED
    BY <2>2, <2>10
<1>5. Cardinality(S) \in Nat /\ Cardinality(S) \notin T
  BY <1>3, <1>4
<1>6. Good(S)
  <2> HIDE DEF Good
  <2> QED
    BY <1>5
<1> QED
  BY <1>6

LEMMA LagSums ==
  ASSUME IsFiniteSet(DOMAIN report.highs),
         \A p \in DOMAIN report.highs : report.highs[p] - report.offsets[p] \in Nat,
         Lag = 0
  PROVE  \A p \in DOMAIN report.highs : report.highs[p] - report.offsets[p] = 0
<1> DEFINE S == DOMAIN report.highs
           g == CHOOSE f : Sums(f, report.highs, report.offsets, SUBSET S)
<1>1. \A p \in S : report.highs[p] - report.offsets[p] \in Int
  OBVIOUS
<1>2. \E f : Sums(f, report.highs, report.offsets, SUBSET S)
  <2> HIDE DEF S
  <2> QED
    BY <1>1, SumsExists DEF S
<1>3. Sums(g, report.highs, report.offsets, SUBSET S)
  BY <1>2
<1>4. g[S] = 0
  BY DEF Lag, MapThenSumSet, MapThenFoldSet, Sums
<1> HIDE DEF g
<1> QED
  BY <1>3, <1>4, NothingLeft

-----------------------------------------------------------------------------
(* The reports: the inductive invariant *)

\* Nothing has gone wrong that a report does not see through.
Clean == mishaps \cap {"failure", "uncommitted", "reset"} = {}

\* A document is of a message that was written, and the messages that were there
\* when the report was asked for are there.
PipelineInv ==
  /\ \A p \in Partitions : high[p] \in Nat /\ asked[p] \in Nat /\ asked[p] <= high[p]
  /\ high = [p \in Partitions |-> high[p]]
  /\ \A d \in docs : d = <<d[1], d[2]>> /\ d[1] \in Partitions
                          /\ d[2] \in Nat /\ d[2] < high[d[1]]

\* Offsets are committed up to what was written.
OffsetsInv ==
  Clean => /\ offset = [p \in Partitions |-> offset[p]]
           /\ \A p \in Partitions : offset[p] \in Nat /\ offset[p] <= high[p]

\* The shape of the report while it is put together.
ShapeInv ==
  /\ report = [stage |-> report.stage, at |-> report.at, offsets |-> report.offsets,
               highs |-> report.highs, statuses |-> report.statuses, lag |-> report.lag]
  /\ report.stage \in {"none", "offsets", "highs", "answered"}
  /\ report.at \in 1..(Len(Indexed) + 1)
  /\ report.stage = "none" => report.at = 1
  /\ report.stage = "answered" => report.at = Len(Indexed) + 1

\* What the report has read of Kafka is not ahead of it; what it reads after the
\* offsets is not behind what was asked for.
ReadInv ==
  Clean /\ report.stage = "highs" =>
    /\ DOMAIN report.offsets = Partitions
    /\ DOMAIN report.highs \subseteq Partitions
    /\ \A p \in Partitions : report.offsets[p] \in Nat /\ report.offsets[p] <= offset[p]
    /\ \A p \in DOMAIN report.highs :
         /\ report.highs[p] \in Nat /\ report.highs[p] <= high[p]
         /\ asked[p] <= report.highs[p] /\ report.offsets[p] <= report.highs[p]

\* The topics that were checked and have nothing missing are complete.
Excused(t) == Cardinality(PartitionsOf(t)) = 1 /\ Quiet(t) /\ "deleted" \notin mishaps
StatusesInv ==
  Clean /\ (\A s \in report.statuses : s.missing = 0) =>
    \A i \in DOMAIN Indexed : i < report.at /\ Excused(Indexed[i]) => Complete(Indexed[i])

\* A total lag of nothing means that all was committed.
LagInv == Clean /\ report.stage = "answered" /\ report.lag = 0 => AllCommitted

SyncInv ==
  PipelineInv /\ OffsetsInv /\ ShapeInv /\ ReadInv /\ StatusesInv /\ LagInv

LEMMA SyncInitially == ReportInit => SyncInv
<1> SUFFICES ASSUME ReportInit PROVE SyncInv
  OBVIOUS
<1>1. PICK none \in SUBSET Partitions :
        /\ offset = [p \in Partitions |-> IF p \in none THEN Uncommitted ELSE 0]
        /\ mishaps = IF none = {} THEN {} ELSE {"uncommitted"}
  BY DEF ReportInit
<1>2. PipelineInv
  BY DEF ReportInit, PipelineInv
<1>3. OffsetsInv
  <2>1. Clean => none = {}
    BY <1>1 DEF Clean
  <2>2. high = [p \in Partitions |-> 0]
    BY DEF ReportInit
  <2> QED
    BY <1>1, <2>1, <2>2 DEF OffsetsInv
<1>4. report = NoReport
  BY DEF ReportInit
<1>5. ShapeInv
  BY <1>4, PartitionsAssumption DEF ShapeInv, NoReport
<1>6. ReadInv /\ LagInv
  BY <1>4 DEF ReadInv, LagInv, NoReport
<1>7. StatusesInv
  BY <1>4, PartitionsAssumption DEF StatusesInv, NoReport
<1> QED
  BY <1>2, <1>3, <1>5, <1>6, <1>7 DEF SyncInv

\* What the pipeline does while a report is put together: messages are only
\* written, offsets only grow, and documents stay, but for a mishap.
LEMMA PipelineMoves ==
  ASSUME SyncInv, report.stage # "answered", UNCHANGED <<report, asked>>,
         mishaps \subseteq mishaps',
         high' = [p \in Partitions |-> high'[p]],
         \A p \in Partitions : high'[p] \in Nat /\ high[p] <= high'[p],
         \A d \in docs' : d = <<d[1], d[2]>> /\ d[1] \in Partitions
                            /\ d[2] \in Nat /\ d[2] < high'[d[1]],
         "deleted" \notin mishaps' => docs \subseteq docs',
         Clean' => /\ offset' = [p \in Partitions |-> offset'[p]]
                   /\ \A p \in Partitions :
                        offset'[p] \in Nat /\ offset[p] <= offset'[p] /\ offset'[p] <= high'[p]
  PROVE  SyncInv'
<1>1. Clean' => Clean
  BY DEF Clean
<1>2. PipelineInv /\ OffsetsInv /\ ShapeInv /\ ReadInv /\ StatusesInv
  BY DEF SyncInv
<1>3. PipelineInv'
  BY <1>2 DEF PipelineInv
<1>4. OffsetsInv'
  BY DEF OffsetsInv
<1>5. ShapeInv' /\ LagInv'
  BY <1>2 DEF ShapeInv, LagInv
<1>6. ReadInv'
  <2> SUFFICES ASSUME Clean', report.stage = "highs"
               PROVE  ReadInv'
    BY DEF ReadInv
  <2>1. /\ DOMAIN report.offsets = Partitions
        /\ DOMAIN report.highs \subseteq Partitions
        /\ \A p \in Partitions : report.offsets[p] \in Nat /\ report.offsets[p] <= offset[p]
        /\ \A p \in DOMAIN report.highs :
             /\ report.highs[p] \in Nat /\ report.highs[p] <= high[p]
             /\ asked[p] <= report.highs[p] /\ report.offsets[p] <= report.highs[p]
    BY <1>1, <1>2 DEF ReadInv
  <2>2. \A p \in Partitions : offset[p] \in Nat /\ high[p] \in Nat
    BY <1>1, <1>2 DEF OffsetsInv, PipelineInv
  <2>3. \A p \in Partitions : report.offsets[p] <= offset'[p]
    BY <2>1, <2>2
  <2>4. \A p \in DOMAIN report.highs : report.highs[p] <= high'[p]
    BY <2>1, <2>2
  <2> QED
    BY <2>1, <2>3, <2>4 DEF ReadInv
<1>7. StatusesInv'
  <2> SUFFICES ASSUME Clean', \A s \in report.statuses : s.missing = 0,
                      NEW i \in DOMAIN Indexed, i < report.at, Excused(Indexed[i])'
               PROVE  Complete(Indexed[i])'
    BY DEF StatusesInv
  <2> DEFINE t == Indexed[i]
  <2>1. \A p \in PartitionsOf(t) : p \in Partitions
    BY DEF PartitionsOf
  <2>2. Quiet(t)
    <3>1. ASSUME NEW p \in PartitionsOf(t) PROVE high[p] = asked[p]
      <4>1. /\ high'[p] = asked[p] /\ high[p] <= high'[p]
            /\ high[p] \in Nat /\ asked[p] \in Nat /\ asked[p] <= high[p]
        BY <1>2, <2>1 DEF Excused, Quiet, PipelineInv
      <4> QED
        BY <4>1
    <3> QED
      BY <3>1 DEF Quiet
  <2>3. Excused(t)
    BY <2>2 DEF Excused
  <2>4. Complete(t)
    BY <1>1, <1>2, <2>3 DEF StatusesInv
  <2>5. docs \subseteq docs'
    BY DEF Excused
  <2> QED
    BY <2>4, <2>5 DEF Complete
<1> QED
  BY <1>3, <1>4, <1>5, <1>6, <1>7 DEF SyncInv

LEMMA PipelineStep ==
  ASSUME SyncInv, Pipeline
  PROVE  SyncInv'
<1>0. report.stage # "answered"
  BY DEF Pipeline
<1>1. /\ high = [p \in Partitions |-> high[p]]
      /\ \A p \in Partitions : high[p] \in Nat
      /\ \A d \in docs : d = <<d[1], d[2]>> /\ d[1] \in Partitions
                           /\ d[2] \in Nat /\ d[2] < high[d[1]]
  BY DEF SyncInv, PipelineInv
<1>2. Clean => /\ offset = [p \in Partitions |-> offset[p]]
               /\ \A p \in Partitions : offset[p] \in Nat /\ offset[p] <= high[p]
  BY DEF SyncInv, OffsetsInv
<1>3. ASSUME NEW p \in Partitions, Produce(p) PROVE SyncInv'
  <2>1. /\ high' = [high EXCEPT ![p] = @ + 1]
        /\ UNCHANGED <<offset, docs, report, asked, mishaps>>
    BY <1>3 DEF Produce
  <2>2. /\ high' = [q \in Partitions |-> high'[q]]
        /\ \A q \in Partitions : high'[q] \in Nat /\ high[q] <= high'[q]
    BY <1>1, <2>1
  <2>3. \A d \in docs : d[2] < high'[d[1]]
    <3>1. ASSUME NEW d \in docs PROVE d[2] < high'[d[1]]
      <4>1. d[2] \in Nat /\ d[2] < high[d[1]] /\ d[1] \in Partitions
        BY <1>1
      <4> QED
        BY <1>1, <2>2, <4>1
    <3> QED
      BY <3>1
  <2>4. Clean' => \A q \in Partitions : offset[q] \in Nat /\ offset[q] <= high'[q]
    <3>1. Clean' => Clean
      BY <2>1 DEF Clean
    <3> QED
      BY <1>1, <1>2, <2>2, <3>1
  <2>5. Clean' => offset = [q \in Partitions |-> offset[q]]
    BY <1>2, <2>1 DEF Clean
  <2> QED
    BY <1>0, <1>1, <2>1, <2>2, <2>3, <2>4, <2>5, PipelineMoves
<1>4. ASSUME NEW p \in Partitions, IndexMessage(p) PROVE SyncInv'
  <2>1. /\ docs' = docs \cup {<<p, offset[p]>>} /\ offset[p] \in 0..(high[p] - 1)
        /\ UNCHANGED <<high, offset, report, asked, mishaps>>
    BY <1>4 DEF IndexMessage
  <2>2. \A d \in docs' : d = <<d[1], d[2]>> /\ d[1] \in Partitions
                           /\ d[2] \in Nat /\ d[2] < high[d[1]]
    BY <1>1, <2>1
  <2>3. Clean' => Clean
    BY <2>1 DEF Clean
  <2> QED
    BY <1>0, <1>1, <1>2, <2>1, <2>2, <2>3, PipelineMoves
<1>5. ASSUME NEW p \in Partitions, CommitMessage(p) PROVE SyncInv'
  <2>1. /\ offset[p] \in 0..(high[p] - 1) /\ offset' = [offset EXCEPT ![p] = @ + 1]
        /\ UNCHANGED <<high, docs, report, asked>>
        /\ mishaps \subseteq mishaps'
    BY <1>5 DEF CommitMessage, Mishap
  <2>2. Clean' => Clean
    BY <2>1 DEF Clean
  <2>3. Clean' => /\ offset' = [q \in Partitions |-> offset'[q]]
                  /\ \A q \in Partitions :
                       offset'[q] \in Nat /\ offset[q] <= offset'[q] /\ offset'[q] <= high[q]
    <3> SUFFICES ASSUME Clean'
                 PROVE  /\ offset' = [q \in Partitions |-> offset'[q]]
                        /\ \A q \in Partitions :
                             offset'[q] \in Nat /\ offset[q] <= offset'[q] /\ offset'[q] <= high[q]
      OBVIOUS
    <3>1. /\ offset = [q \in Partitions |-> offset[q]]
          /\ \A q \in Partitions : offset[q] \in Nat /\ offset[q] <= high[q]
      BY <1>2, <2>2
    <3>2. offset' = [q \in Partitions |-> IF q = p THEN offset[p] + 1 ELSE offset[q]]
      BY <2>1, <3>1
    <3>3. offset[p] + 1 \in Nat /\ offset[p] <= offset[p] + 1 /\ offset[p] + 1 <= high[p]
      BY <1>1, <2>1, <3>1
    <3> QED
      BY <3>1, <3>2, <3>3
  <2> QED
    BY <1>0, <1>1, <2>1, <2>3, PipelineMoves
<1>6. ASSUME NEW p \in Partitions, FirstCommit(p) PROVE SyncInv'
  <2>1. /\ offset[p] = Uncommitted /\ high[p] > 0
        /\ docs' \in {docs, docs \cup {<<p, high[p] - 1>>}}
        /\ UNCHANGED <<high, report, asked, mishaps>>
    BY <1>6 DEF FirstCommit
  <2>2. ~Clean'
    BY <1>2, <2>1 DEF Clean, Uncommitted
  <2>3. \A d \in docs' : d = <<d[1], d[2]>> /\ d[1] \in Partitions
                           /\ d[2] \in Nat /\ d[2] < high[d[1]]
    <3>1. high[p] - 1 \in Nat /\ high[p] - 1 < high[p]
      BY <1>1, <2>1
    <3>2. docs' \subseteq docs \cup {<<p, high[p] - 1>>}
      BY <2>1
    <3> QED
      BY <1>1, <3>1, <3>2
  <2>4. docs \subseteq docs'
    BY <2>1
  <2> QED
    BY <1>0, <1>1, <2>1, <2>2, <2>3, <2>4, PipelineMoves
<1>7. ASSUME NEW d \in docs, DeleteDocument(d) PROVE SyncInv'
  <2>1. /\ docs' = docs \ {d} /\ mishaps \subseteq mishaps' /\ "deleted" \in mishaps'
        /\ UNCHANGED <<high, offset, report, asked>>
    BY <1>7 DEF DeleteDocument, Mishap
  <2>2. Clean' => Clean
    BY <2>1 DEF Clean
  <2> QED
    BY <1>0, <1>1, <1>2, <2>1, <2>2, PipelineMoves
<1>8. CASE JoinOrLeave
  <2>1. UNCHANGED <<high, offset, docs, report, asked, mishaps>>
    BY <1>8 DEF JoinOrLeave
  <2>2. Clean' => Clean
    BY <2>1 DEF Clean
  <2> QED
    BY <1>0, <1>1, <1>2, <2>1, <2>2, PipelineMoves
<1>9. ASSUME NEW p \in Partitions, ResetOffsetsToEarliest(TopicOf[p]) PROVE SyncInv'
  <2>1. /\ mishaps \subseteq mishaps' /\ ~Clean'
        /\ UNCHANGED <<high, docs, report, asked>>
    BY <1>9 DEF ResetOffsetsToEarliest, Mishap, Clean
  <2> QED
    BY <1>0, <1>1, <2>1, PipelineMoves
<1> QED
  BY <1>3, <1>4, <1>5, <1>6, <1>7, <1>8, <1>9 DEF Pipeline

-----------------------------------------------------------------------------
(* The reports: each request keeps it *)

\* As many documents as messages, and none of another message, are all of them.
LEMMA AllThere ==
  ASSUME NEW n \in Nat, NEW p, NEW S \in SUBSET {<<p, k>> : k \in 0..(n - 1)},
         Cardinality(S) >= n
  PROVE  \A k \in 0..(n - 1) : <<p, k>> \in S
<1> DEFINE W == {<<p, k>> : k \in 0..(n - 1)}
           f == [k \in 0..(n - 1) |-> <<p, k>>]
<1>1. IsFiniteSet(0..(n - 1)) /\ Cardinality(0..(n - 1)) = n
  <2>1. /\ IsFiniteSet(0..(n - 1))
        /\ Cardinality(0..(n - 1)) = IF 0 > n - 1 THEN 0 ELSE (n - 1) - 0 + 1
    BY FS_Interval
  <2> QED
    BY <2>1
<1>2. f \in [0..(n - 1) -> W]
  OBVIOUS
<1>3. \A j, k \in 0..(n - 1) : f[j] = f[k] => j = k
  OBVIOUS
<1>4. \A d \in W : \E k \in 0..(n - 1) : f[k] = d
  OBVIOUS
<1> HIDE DEF f, W
<1>5. f \in Bijection(0..(n - 1), W)
  BY <1>2, <1>3, <1>4 DEF Bijection, Injection, Surjection, IsInjective
<1>6. IsFiniteSet(W) /\ Cardinality(W) = n
  BY <1>1, <1>5, FS_Bijection DEF ExistsBijection
<1>7. S = W
  <2>1. S \in SUBSET W
    BY DEF W
  <2>2. IsFiniteSet(S) /\ Cardinality(S) <= n /\ (Cardinality(S) = n => S = W)
    BY <1>6, <2>1, FS_Subset
  <2>3. Cardinality(S) \in Nat
    BY <2>2, FS_CardinalityType
  <2> QED
    BY <2>2, <2>3
<1> QED
  BY <1>7 DEF W

\* A topic of one partition, checked at rest and with nothing missing, is complete.
LEMMA CountedComplete ==
  ASSUME SyncInv, Clean, report.stage = "highs", Unread = {}, NEW t, Excused(t),
         NEW messages \in KafkaMessages(t),
         MissingDocs(messages, Cardinality({d \in docs : TopicOf[d[1]] = t})) = 0
  PROVE  Complete(t)
<1> DEFINE there == {d \in docs : TopicOf[d[1]] = t}
<1>1. /\ IsFiniteSet(Partitions) /\ PartitionsOf(t) \in SUBSET Partitions
      /\ Cardinality(PartitionsOf(t)) = 1
  BY PartitionsAssumption DEF PartitionsOf, Excused
<1>2. PICK p : PartitionsOf(t) = {p}
  <2>1. IsFiniteSet(PartitionsOf(t))
    BY <1>1, FS_Subset
  <2> QED
    BY <1>1, <2>1, FS_Singleton
<1>3. /\ DOMAIN report.highs = Partitions
      /\ report.highs[p] \in Nat /\ asked[p] <= report.highs[p]
  BY <1>1, <1>2 DEF SyncInv, ReadInv, Unread
<1>4. messages = report.highs[p]
  BY <1>1, <1>2, <1>3 DEF KafkaMessages, FirstFound
<1>5. high[p] = asked[p] /\ asked[p] \in Nat
  BY <1>1, <1>2 DEF Excused, Quiet, SyncInv, PipelineInv
<1>6. there \in SUBSET {<<p, k>> : k \in 0..(asked[p] - 1)}
  <2>1. ASSUME NEW d \in there
        PROVE  d \in {<<p, k>> : k \in 0..(asked[p] - 1)}
    <3>1. d = <<d[1], d[2]>> /\ d[1] \in Partitions /\ d[2] \in Nat /\ d[2] < high[d[1]]
      BY DEF SyncInv, PipelineInv
    <3>2. d[1] = p
      BY <1>2, <3>1 DEF PartitionsOf
    <3>3. d[2] \in 0..(asked[p] - 1)
      BY <1>5, <3>1, <3>2
    <3> QED
      BY <3>1, <3>2, <3>3
  <2> QED
    BY <2>1
<1>7. IsFiniteSet(there)
  <2>1. IsFiniteSet(0..(asked[p] - 1))
    BY <1>5, FS_Interval
  <2> DEFINE f == [k \in 0..(asked[p] - 1) |-> <<p, k>>]
  <2>2. {<<p, k>> : k \in 0..(asked[p] - 1)} = {f[k] : k \in 0..(asked[p] - 1)}
    OBVIOUS
  <2>3. IsFiniteSet({f[k] : k \in DOMAIN f})
    <3>1. f \in Surjection(DOMAIN f, {f[k] : k \in DOMAIN f})
      BY DEF Surjection
    <3>2. DOMAIN f = 0..(asked[p] - 1)
      OBVIOUS
    <3> HIDE DEF f
    <3> QED
      BY <2>1, <3>1, <3>2, FS_Surjection
  <2>4. DOMAIN f = 0..(asked[p] - 1)
    OBVIOUS
  <2>5. IsFiniteSet({<<p, k>> : k \in 0..(asked[p] - 1)})
    <3> HIDE DEF f
    <3> QED
      BY <2>2, <2>3, <2>4
  <2> HIDE DEF there
  <2> QED
    BY <1>6, <2>5, FS_Subset
<1>8. Cardinality(there) \in Nat
  BY <1>7, FS_CardinalityType
<1> DEFINE count == Cardinality(there)
<1>9. messages <= count
  <2>1. messages \in Nat
    BY <1>3, <1>4
  <2>2. Max({0, messages - count}) = 0
    BY DEF MissingDocs
  <2> HIDE DEF count
  <2>3. \E x \in {0, messages - count} : \A y \in {0, messages - count} : x >= y
    BY <1>8, <2>1 DEF count
  <2>4. \A y \in {0, messages - count} : Max({0, messages - count}) >= y
    BY <2>3 DEF Max
  <2> QED
    BY <1>8, <2>1, <2>2, <2>4 DEF count
<1>10. count >= asked[p]
  <2> HIDE DEF there
  <2> QED
    BY <1>3, <1>4, <1>5, <1>8, <1>9
<1>11. \A k \in 0..(asked[p] - 1) : <<p, k>> \in there
  <2> HIDE DEF there
  <2> QED
    BY <1>5, <1>6, <1>10, AllThere
<1> QED
  BY <1>2, <1>11 DEF Complete

\* While the report goes on, the pipeline is as it was.
LEMMA PipelineRests ==
  ASSUME SyncInv, UNCHANGED <<kafka, asked>>, mishaps \subseteq mishaps'
  PROVE  PipelineInv' /\ OffsetsInv' /\ (Clean' => Clean)
<1>1. Clean' => Clean
  BY DEF Clean
<1>2. PipelineInv'
  BY DEF SyncInv, PipelineInv, kafka
<1>3. OffsetsInv'
  BY <1>1 DEF SyncInv, OffsetsInv, kafka
<1> QED
  BY <1>1, <1>2, <1>3

LEMMA StatusesRest ==
  ASSUME SyncInv, UNCHANGED <<kafka, asked, mishaps>>,
         report'.statuses = report.statuses, report'.at = report.at
  PROVE  StatusesInv'
<1>1. \A t : Excused(t)' => Excused(t)
  BY DEF Excused, Quiet, kafka
<1>2. \A t : Complete(t) => Complete(t)'
  BY DEF Complete, kafka
<1> QED
  BY <1>1, <1>2 DEF SyncInv, StatusesInv, Clean

LEMMA GetStep ==
  ASSUME SyncInv, GetSyncReport
  PROVE  SyncInv'
<1>1. /\ report' = [NoReport EXCEPT !.stage = "offsets"]
      /\ asked' = high /\ UNCHANGED <<high, offset, docs, mishaps>>
  BY DEF GetSyncReport, kafka
<1>2. PipelineInv'
  BY <1>1 DEF SyncInv, PipelineInv
<1>3. OffsetsInv'
  BY <1>1 DEF SyncInv, OffsetsInv, Clean
<1>4. /\ report' = [stage |-> "offsets", at |-> 1, offsets |-> << >>, highs |-> << >>,
                    statuses |-> {}, lag |-> 0]
      /\ report'.stage = "offsets" /\ report'.at = 1
  BY <1>1 DEF NoReport
<1>5. ShapeInv'
  BY <1>4, PartitionsAssumption DEF ShapeInv
<1>6. ReadInv' /\ LagInv'
  BY <1>4 DEF ReadInv, LagInv
<1>7. StatusesInv'
  BY <1>4, PartitionsAssumption DEF StatusesInv
<1> QED
  BY <1>2, <1>3, <1>5, <1>6, <1>7 DEF SyncInv

LEMMA FetchOffsetsStep ==
  ASSUME SyncInv, FetchOffsets
  PROVE  SyncInv'
<1> DEFINE got == [p \in {q \in Partitions : offset[q] # Uncommitted} |-> offset[p]]
<1>1. /\ report' = [report EXCEPT !.stage = "highs", !.highs = << >>, !.offsets = got]
      /\ UNCHANGED <<kafka, asked, mishaps>> /\ report.stage = "offsets"
  BY DEF FetchOffsets
<1>2. PipelineInv' /\ OffsetsInv' /\ (Clean' => Clean)
  BY <1>1, PipelineRests
<1>3. /\ report' = [stage |-> "highs", at |-> report.at, offsets |-> got, highs |-> << >>,
                    statuses |-> report.statuses, lag |-> report.lag]
  BY <1>1 DEF SyncInv, ShapeInv
<1>4. ReadInv'
  <2> SUFFICES ASSUME Clean PROVE ReadInv'
    BY <1>2 DEF ReadInv
  <2>1. \A p \in Partitions : offset[p] \in Nat
    BY DEF SyncInv, OffsetsInv
  <2>2. DOMAIN got = Partitions /\ \A p \in Partitions : got[p] = offset[p]
    BY <2>1 DEF Uncommitted
  <2>3. DOMAIN << >> = {}
    OBVIOUS
  <2> HIDE DEF got
  <2> QED
    BY <1>1, <1>3, <2>1, <2>2, <2>3 DEF ReadInv, kafka
<1> HIDE DEF got
<1>5. ShapeInv' /\ LagInv'
  BY <1>1, <1>3 DEF SyncInv, ShapeInv, LagInv
<1>6. StatusesInv'
  BY <1>1, <1>3, StatusesRest
<1> QED
  BY <1>2, <1>4, <1>5, <1>6 DEF SyncInv

LEMMA FetchHighStep ==
  ASSUME SyncInv, NEW p \in Partitions, FetchTopicOffsets(p)
  PROVE  SyncInv'
<1> DEFINE got == [q \in DOMAIN report.highs \cup {p} |->
                     IF q = p THEN high[p] ELSE report.highs[q]]
<1>1. /\ report' = [report EXCEPT !.highs = got]
      /\ UNCHANGED <<kafka, asked, mishaps>> /\ report.stage = "highs"
  BY DEF FetchTopicOffsets
<1>2. PipelineInv' /\ OffsetsInv' /\ (Clean' => Clean)
  BY <1>1, PipelineRests
<1>3. report' = [stage |-> "highs", at |-> report.at, offsets |-> report.offsets, highs |-> got,
                 statuses |-> report.statuses, lag |-> report.lag]
  BY <1>1 DEF SyncInv, ShapeInv
<1>4. ReadInv'
  <2> SUFFICES ASSUME Clean PROVE ReadInv'
    BY <1>2 DEF ReadInv
  <2>1. /\ DOMAIN report.offsets = Partitions
        /\ DOMAIN report.highs \subseteq Partitions
        /\ \A q \in Partitions : report.offsets[q] \in Nat /\ report.offsets[q] <= offset[q]
        /\ \A q \in DOMAIN report.highs :
             /\ report.highs[q] \in Nat /\ report.highs[q] <= high[q]
             /\ asked[q] <= report.highs[q] /\ report.offsets[q] <= report.highs[q]
    BY <1>1 DEF SyncInv, ReadInv
  <2>2. /\ high[p] \in Nat /\ asked[p] <= high[p]
        /\ offset[p] \in Nat /\ offset[p] <= high[p]
    BY DEF SyncInv, PipelineInv, OffsetsInv
  <2>3. report.offsets[p] <= high[p]
    BY <2>1, <2>2
  <2>4. /\ DOMAIN got \subseteq Partitions
        /\ \A q \in DOMAIN got :
             /\ got[q] \in Nat /\ got[q] <= high[q]
             /\ asked[q] <= got[q] /\ report.offsets[q] <= got[q]
    BY <2>1, <2>2, <2>3
  <2> HIDE DEF got
  <2> QED
    BY <1>1, <1>3, <2>1, <2>4 DEF ReadInv, kafka
<1> HIDE DEF got
<1>5. ShapeInv' /\ LagInv'
  BY <1>1, <1>3 DEF SyncInv, ShapeInv, LagInv
<1>6. StatusesInv'
  BY <1>1, <1>3, StatusesRest
<1> QED
  BY <1>2, <1>4, <1>5, <1>6 DEF SyncInv

\* From one topic to the next.
LEMMA NextTopicStep ==
  ASSUME SyncInv, Checking, NEW t, t = Indexed[report.at],
         NEW statuses, NextTopic(statuses), report.stage \in {"offsets", "highs"},
         UNCHANGED <<kafka, asked>>, mishaps \subseteq mishaps',
         Clean' /\ (\A s \in statuses : s.missing = 0) =>
           /\ \A s \in report.statuses : s.missing = 0
           /\ Excused(t)' => Complete(t)
  PROVE  SyncInv'
<1>1. PipelineInv' /\ OffsetsInv' /\ (Clean' => Clean)
  BY PipelineRests
<1>2. report' = [stage |-> "offsets", at |-> report.at + 1, offsets |-> report.offsets,
                 highs |-> report.highs, statuses |-> statuses, lag |-> report.lag]
  BY DEF NextTopic, SyncInv, ShapeInv
<1>3. report.at \in 1..Len(Indexed) /\ Len(Indexed) \in Nat
  BY PartitionsAssumption DEF Checking
<1>4. /\ report'.stage = "offsets" /\ report'.at = report.at + 1
      /\ report'.statuses = statuses
  BY <1>2
<1>5. ShapeInv'
  BY <1>2, <1>3 DEF ShapeInv
<1>6. ReadInv' /\ LagInv'
  BY <1>4 DEF ReadInv, LagInv
<1>7. StatusesInv'
  <2> SUFFICES ASSUME Clean', \A s \in statuses : s.missing = 0,
                      NEW i \in DOMAIN Indexed, i < report.at + 1, Excused(Indexed[i])'
               PROVE  Complete(Indexed[i])'
    BY <1>4 DEF StatusesInv
  <2>1. Complete(Indexed[i])' <=> Complete(Indexed[i])
    BY DEF Complete, kafka
  <2>2. Excused(Indexed[i])
    BY DEF Excused, Quiet, kafka
  <2>3. CASE i = report.at
    <3>1. Complete(t)
      BY <2>3
    <3> QED
      BY <2>1, <2>3, <3>1
  <2>4. CASE i # report.at
    <3>1. i < report.at
      BY <1>3, <2>4, PartitionsAssumption
    <3> QED
      BY <1>1, <2>1, <2>2, <3>1 DEF SyncInv, StatusesInv
  <2> QED
    BY <2>3, <2>4
<1> QED
  BY <1>1, <1>5, <1>6, <1>7 DEF SyncInv

LEMMA CountStep ==
  ASSUME SyncInv, CountDocuments
  PROVE  SyncInv'
<1>0. PICK t : t = Indexed[report.at]
  OBVIOUS
<1> DEFINE there == Cardinality({d \in docs : TopicOf[d[1]] = t})
<1>1. /\ report.stage = "highs" /\ Unread = {} /\ Checking /\ UNCHANGED <<kafka, asked>>
  BY DEF CountDocuments
<1>2. PICK messages \in KafkaMessages(t), count \in {0, there} :
        /\ IF count = there THEN UNCHANGED mishaps ELSE Mishap("failure")
        /\ NextTopic(report.statuses \cup
             {[topic |-> t, missing |-> MissingDocs(messages, count)]})
  BY <1>0 DEF CountDocuments
<1> DEFINE status == [topic |-> t, missing |-> MissingDocs(messages, count)]
<1>3. mishaps \subseteq mishaps' /\ (count # there => "failure" \in mishaps')
  BY <1>2 DEF Mishap
<1>4. ASSUME Clean', \A s \in report.statuses \cup {status} : s.missing = 0
      PROVE  /\ \A s \in report.statuses : s.missing = 0
             /\ Excused(t)' => Complete(t)
  <2>1. count = there
    BY <1>3, <1>4 DEF Clean
  <2>2. MissingDocs(messages, there) = 0
    <3>1. status.missing = MissingDocs(messages, count)
      OBVIOUS
    <3> HIDE DEF status, there
    <3>2. status.missing = 0
      BY <1>4
    <3> QED
      BY <2>1, <3>1, <3>2
  <2>3. Clean
    BY <1>3, <1>4 DEF Clean
  <2>4. ASSUME Excused(t)' PROVE Complete(t)
    <3>1. Excused(t)
      BY <1>1, <1>3, <2>4 DEF Excused, Quiet, kafka
    <3> QED
      BY <1>1, <1>2, <2>2, <2>3, <3>1, CountedComplete
  <2> QED
    BY <1>4, <2>4
<1> HIDE DEF status
<1> QED
  BY <1>0, <1>1, <1>2, <1>3, <1>4, NextTopicStep DEF status

LEMMA SkipStep ==
  ASSUME SyncInv, SkipTopic
  PROVE  SyncInv'
<1>1. /\ mishaps \subseteq mishaps' /\ ~Clean' /\ UNCHANGED <<kafka, asked>>
      /\ Checking /\ NextTopic(report.statuses) /\ report.stage \in {"offsets", "highs"}
  BY DEF SkipTopic, Mishap, Clean
<1>2. PICK t : t = Indexed[report.at]
  OBVIOUS
<1> QED
  BY <1>1, <1>2, NextTopicStep

LEMMA LagStep ==
  ASSUME SyncInv, GetTotalLag \/ NoTotalLag
  PROVE  SyncInv'
<1>1. PICK lag : AnswerReport(lag) /\ (GetTotalLag => lag = Lag)
  BY DEF GetTotalLag, NoTotalLag
<1>2. /\ UNCHANGED <<kafka, asked>> /\ mishaps \subseteq mishaps'
      /\ report.stage \in {"offsets", "highs"} /\ ~Checking
  BY DEF GetTotalLag, NoTotalLag, Mishap
<1>3. PipelineInv' /\ OffsetsInv' /\ (Clean' => Clean)
  BY <1>2, PipelineRests
<1>4. report' = [stage |-> "answered", at |-> report.at, offsets |-> report.offsets,
                 highs |-> report.highs, statuses |-> report.statuses, lag |-> lag]
  BY <1>1 DEF AnswerReport, SyncInv, ShapeInv
<1>5. report.at = Len(Indexed) + 1
  <2>1. report.at \in 1..(Len(Indexed) + 1) /\ Len(Indexed) \in Nat /\ DOMAIN Indexed = 1..Len(Indexed)
    BY PartitionsAssumption DEF SyncInv, ShapeInv
  <2>2. report.at \notin 1..Len(Indexed)
    BY <1>2, <2>1 DEF Checking
  <2> QED
    BY <2>1, <2>2
<1>6. ShapeInv'
  BY <1>4, <1>5, PartitionsAssumption DEF ShapeInv
<1>7. ReadInv'
  BY <1>4 DEF ReadInv
<1>8. LagInv'
  <2> SUFFICES ASSUME Clean', lag = 0 PROVE AllCommitted'
    BY <1>4 DEF LagInv
  <2>1. GetTotalLag /\ Clean
    BY <1>3 DEF NoTotalLag, Mishap, Clean
  <2>2. Lag = 0 /\ report.stage = "highs" /\ Unread = {}
    BY <1>1, <2>1 DEF GetTotalLag
  <2>3. /\ DOMAIN report.highs = Partitions
        /\ \A p \in Partitions :
             /\ report.offsets[p] \in Nat /\ report.offsets[p] <= offset[p]
             /\ report.highs[p] \in Nat
             /\ asked[p] <= report.highs[p] /\ report.offsets[p] <= report.highs[p]
    BY <2>1, <2>2 DEF SyncInv, ReadInv, Unread
  <2>4. IsFiniteSet(Partitions)
    BY PartitionsAssumption
  <2>5. \A p \in Partitions : report.highs[p] - report.offsets[p] \in Nat
    BY <2>3
  <2>6. \A p \in Partitions : report.highs[p] - report.offsets[p] = 0
    BY <2>2, <2>3, <2>4, <2>5, LagSums
  <2>7. \A p \in Partitions : asked[p] \in Nat /\ offset[p] \in Nat
    BY <2>1 DEF SyncInv, PipelineInv, OffsetsInv
  <2>8. \A p \in Partitions : offset[p] >= asked[p]
    BY <2>3, <2>6, <2>7
  <2> QED
    BY <1>2, <2>8 DEF AllCommitted, kafka
<1>9. StatusesInv'
  <2>1. \A u : Excused(u)' => Excused(u)
    BY <1>2 DEF Excused, Quiet, kafka
  <2>2. \A u : Complete(u) => Complete(u)'
    BY <1>2 DEF Complete, kafka
  <2> QED
    BY <1>3, <1>4, <2>1, <2>2 DEF SyncInv, StatusesInv
<1> QED
  BY <1>3, <1>6, <1>7, <1>8, <1>9 DEF SyncInv

-----------------------------------------------------------------------------
(* The reports: the theorem *)

LEMMA ReportNextInv == SyncInv /\ [ReportNext]_reportVars => SyncInv'
<1> SUFFICES ASSUME SyncInv, [ReportNext]_reportVars PROVE SyncInv'
  OBVIOUS
<1>1. CASE UNCHANGED reportVars
  <2>1. UNCHANGED <<high, offset, docs, members, report, asked, mishaps>>
    BY <1>1 DEF reportVars, kafka
  <2>2. PipelineInv' /\ OffsetsInv' /\ ShapeInv' /\ ReadInv' /\ LagInv'
    BY <2>1 DEF SyncInv, PipelineInv, OffsetsInv, ShapeInv, ReadInv, LagInv, AllCommitted, Clean
  <2>3. StatusesInv'
    BY <2>1, StatusesRest DEF kafka
  <2> QED
    BY <2>2, <2>3 DEF SyncInv
<1>2. CASE ReportNext
  BY <1>2, PipelineStep, GetStep, FetchOffsetsStep, FetchHighStep, CountStep, SkipStep, LagStep
  DEF ReportNext, Report
<1> QED
  BY <1>1, <1>2

\* Where the report says in sync, all that was there when it was asked for has
\* been committed, and is in the index if nothing came in between
\* (kafka-sync.service.ts, getSyncReport; kafka-offset.service.ts, getTotalLag).
THEOREM ReportsAreTrue == ReportSpec => []InSyncHolds
<1>1. SyncInv => InSyncHolds
  <2> SUFFICES ASSUME SyncInv, InSyncReported,
                      mishaps \cap {"failure", "uncommitted", "reset"} = {}
               PROVE  /\ AllCommitted
                      /\ \A i \in DOMAIN Indexed :
                           /\ Cardinality(PartitionsOf(Indexed[i])) = 1
                           /\ Quiet(Indexed[i])
                           /\ "deleted" \notin mishaps
                           => Complete(Indexed[i])
    BY DEF InSyncHolds
  <2>1. Clean
    BY DEF Clean
  <2>2. AllCommitted
    BY <2>1 DEF SyncInv, LagInv, InSyncReported
  <2>3. \A i \in DOMAIN Indexed : i < report.at
    BY PartitionsAssumption DEF SyncInv, ShapeInv, InSyncReported
  <2>4. \A i \in DOMAIN Indexed : Excused(Indexed[i]) => Complete(Indexed[i])
    BY <2>1, <2>3 DEF SyncInv, StatusesInv, InSyncReported
  <2> QED
    BY <2>2, <2>4 DEF Excused
<1> QED
  BY <1>1, SyncInitially, ReportNextInv, PTL DEF ReportSpec
==============================================================================
