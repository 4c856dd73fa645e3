----------------------------- MODULE SyncReport -----------------------------
(***************************************************************************)
(* The reports the searcher gives of itself over HTTP:                     *)
(*   apps/searcher/src/kafka/kafka-offset.service.ts   lag, reset           *)
(*   apps/searcher/src/kafka/kafka-sync.service.ts     status, report       *)
(*   apps/searcher/src/kafka/kafka-monitoring.controller.ts                *)
(*                                                                         *)
(* A report is a series of requests to Kafka and Elasticsearch, one after  *)
(* the other, while messages go on being written, indexed and committed.   *)
(* SearchIndexing has the consumer in detail; here it is what a report can *)
(* see of it.  A message <<p, k>> is the one at offset k of partition p,   *)
(* and stands for its document as well.                                    *)
(***************************************************************************)
EXTENDS Integers, FiniteSetsExt, Sequences

CONSTANTS
  Indexed,           \* the sequence of topics checkSyncStatus goes through
  Partitions,
  TopicOf,           \* [Partitions -> topics]
  MaxMessages,       \* bound: messages to a partition
  MaxMishaps,        \* bound: how many of them in one behaviour
  ReportEnvironment  \* what may go wrong

ReportEnvironmentKinds ==
  { "skipped",      \* messages are committed that left no document
    "deleted",      \* documents are deleted, as user.deleted does
    "uncommitted",  \* a partition has no committed offset yet
    "failure",      \* a request to Kafka or Elasticsearch fails
    "reset" }       \* the offsets of a topic are reset

ASSUME ReportEnvironmentAssumption == ReportEnvironment \subseteq ReportEnvironmentKinds
ASSUME PartitionsAssumption ==
  /\ IsFiniteSet(Partitions)
  /\ MaxMessages \in Nat /\ MaxMishaps \in Nat
  /\ \A p \in Partitions : \E i \in DOMAIN Indexed : Indexed[i] = TopicOf[p]
  /\ Len(Indexed) \in Nat /\ DOMAIN Indexed = 1..Len(Indexed)

VARIABLES
  high,     \* the messages in each partition
  offset,   \* the committed offset of each partition
  docs,     \* the documents in the indices
  members,  \* whether the group has members
  report,   \* the request for a report
  asked,    \* history: high when the report was asked for
  mishaps   \* history: what of ReportEnvironment has happened

kafka == <<high, offset, docs, members>>
reportVars == <<kafka, report, asked, mishaps>>

Uncommitted == -1
PartitionsOf(t) == {p \in Partitions : TopicOf[p] = t}

\* at: the topic being checked, or one further for the total lag.
NoReport == [stage |-> "none", at |-> 1, offsets |-> << >>, highs |-> << >>,
             statuses |-> {}, lag |-> 0]

ReportInit ==
  /\ high = [p \in Partitions |-> 0]
  /\ \E none \in SUBSET Partitions :
       /\ none # {} => "uncommitted" \in ReportEnvironment
       /\ offset = [p \in Partitions |-> IF p \in none THEN Uncommitted ELSE 0]
       /\ mishaps = IF none = {} THEN {} ELSE {"uncommitted"}
  /\ docs = {}
  /\ members = TRUE
  /\ report = NoReport
  /\ asked = high

Mishap(kind) ==
  /\ kind \in ReportEnvironment
  /\ Cardinality(mishaps \cup {kind}) <= MaxMishaps
  /\ mishaps' = mishaps \cup {kind}

-----------------------------------------------------------------------------
(* Kafka, the consumer and the index, as a report sees them *)

Produce(p) ==
  /\ high[p] < MaxMessages
  /\ high' = [high EXCEPT ![p] = @ + 1]
  /\ UNCHANGED <<offset, docs, members, report, asked, mishaps>>

\* Delivered again, a message writes the document it wrote before.
IndexMessage(p) ==
  /\ members /\ offset[p] \in 0..(high[p] - 1)
  /\ docs' = docs \cup {<<p, offset[p]>>}
  /\ UNCHANGED <<high, offset, members, report, asked, mishaps>>

CommitMessage(p) ==
  /\ members /\ offset[p] \in 0..(high[p] - 1)
  /\ \/ <<p, offset[p]>> \in docs /\ UNCHANGED mishaps
     \/ Mishap("skipped")
  /\ offset' = [offset EXCEPT ![p] = @ + 1]
  /\ UNCHANGED <<high, docs, members, report, asked>>

\* Without an offset the group started at the end, wherever that was.
FirstCommit(p) ==
  /\ members /\ offset[p] = Uncommitted /\ high[p] > 0
  /\ offset' = [offset EXCEPT ![p] = high[p]]
  /\ docs' \in {docs, docs \cup {<<p, high[p] - 1>>}}
  /\ UNCHANGED <<high, members, report, asked, mishaps>>

DeleteDocument(d) ==
  /\ Mishap("deleted")
  /\ docs' = docs \ {d}
  /\ UNCHANGED <<high, offset, members, report, asked>>

JoinOrLeave ==
  /\ "reset" \in ReportEnvironment
  /\ members' = ~members
  /\ UNCHANGED <<high, offset, docs, report, asked, mishaps>>

\* Kafka refuses while the group has members, hence always while the consumer
\* of this very service runs.
ResetOffsetsToEarliest(t) ==
  /\ ~members
  /\ Mishap("reset")
  /\ offset' = [p \in Partitions |-> IF p \in PartitionsOf(t) THEN 0 ELSE offset[p]]
  /\ UNCHANGED <<high, docs, members, report, asked>>

-----------------------------------------------------------------------------
(* The report *)

Checking == report.at \in DOMAIN Indexed

\* One report is enough: it reads nothing of an earlier one.
GetSyncReport ==
  /\ report.stage = "none"
  /\ report' = [NoReport EXCEPT !.stage = "offsets"]
  /\ asked' = high
  /\ UNCHANGED <<kafka, mishaps>>

\* Partitions without an offset are not in the answer.
FetchOffsets ==
  /\ report.stage = "offsets"
  /\ LET committed == {p \in Partitions : offset[p] # Uncommitted} IN
     report' = [report EXCEPT !.stage = "highs", !.highs = << >>,
                              !.offsets = [p \in committed |-> offset[p]]]
  /\ UNCHANGED <<kafka, asked, mishaps>>

Unread == DOMAIN report.offsets \ DOMAIN report.highs

\* One request for every partition: the messages in it by now, to be held
\* against the offset of before.
FetchTopicOffsets(p) ==
  /\ report.stage = "highs" /\ p \in Unread
  /\ report' = [report EXCEPT !.highs =
       [q \in DOMAIN report.highs \cup {p} |->
          IF q = p THEN high[p] ELSE report.highs[q]]]
  /\ UNCHANGED <<kafka, asked, mishaps>>

Lag == MapThenSumSet(LAMBDA p : report.highs[p] - report.offsets[p],
                     DOMAIN report.highs)

NextTopic(statuses) ==
  report' = [report EXCEPT !.stage = "offsets", !.at = @ + 1, !.statuses = statuses]

\* The messages of a topic are those of the first partition that is found:
\* all written to it, not all committed.
FirstFound(t, counts) ==
  LET found == PartitionsOf(t) \cap DOMAIN counts IN
  IF found = {} THEN {0} ELSE {counts[p] : p \in found}
CommittedMessages(t) == FirstFound(t, report.offsets)
KafkaMessages(t) == FirstFound(t, report.highs)

MissingDocs(messages, count) == Max({0, messages - count})

\* countDocuments answers 0 where Elasticsearch fails.
CountDocuments ==
  /\ report.stage = "highs" /\ Unread = {} /\ Checking
  /\ LET t == Indexed[report.at]
         there == Cardinality({d \in docs : TopicOf[d[1]] = t}) IN
     \E messages \in KafkaMessages(t), count \in {0, there} :
       /\ IF count = there THEN UNCHANGED mishaps ELSE Mishap("failure")
       /\ NextTopic(report.statuses \cup
            {[topic |-> t, missing |-> MissingDocs(messages, count)]})
  /\ UNCHANGED <<kafka, asked>>

\* A topic whose lag cannot be read is left out of the statuses.
SkipTopic ==
  /\ report.stage \in {"offsets", "highs"} /\ Checking
  /\ Mishap("failure")
  /\ NextTopic(report.statuses)
  /\ UNCHANGED <<kafka, asked>>

AnswerReport(lag) == report' = [report EXCEPT !.stage = "answered", !.lag = lag]

GetTotalLag ==
  /\ report.stage = "highs" /\ Unread = {} /\ ~Checking
  /\ AnswerReport(Lag)
  /\ UNCHANGED <<kafka, asked, mishaps>>

\* A total lag that cannot be read is 0.
NoTotalLag ==
  /\ report.stage \in {"offsets", "highs"} /\ ~Checking
  /\ Mishap("failure")
  /\ AnswerReport(0)
  /\ UNCHANGED <<kafka, asked>>

InSyncReported ==
  /\ report.stage = "answered"
  /\ \A s \in report.statuses : s.missing = 0
  /\ report.lag = 0

-----------------------------------------------------------------------------
\* What comes after the answer is no matter of the report.
Pipeline == report.stage # "answered" /\
  \/ \E p \in Partitions :
       Produce(p) \/ IndexMessage(p) \/ CommitMessage(p) \/ FirstCommit(p)
  \/ \E d \in docs : DeleteDocument(d)
  \/ JoinOrLeave
  \/ \E p \in Partitions : ResetOffsetsToEarliest(TopicOf[p])

Report ==
  \/ GetSyncReport
  \/ FetchOffsets
  \/ \E p \in Partitions : FetchTopicOffsets(p)
  \/ CountDocuments
  \/ SkipTopic
  \/ GetTotalLag
  \/ NoTotalLag

ReportNext == Pipeline \/ Report

ReportSpec == ReportInit /\ [][ReportNext]_reportVars

-----------------------------------------------------------------------------
(* Properties *)

ReportTypeOK ==
  /\ high \in [Partitions -> 0..MaxMessages]
  /\ offset \in [Partitions -> Uncommitted..MaxMessages]
  /\ docs \subseteq Partitions \X (0..(MaxMessages - 1))
  /\ members \in BOOLEAN
  /\ report.stage \in {"none", "offsets", "highs", "answered"}
  /\ report.at \in 1..(Len(Indexed) + 1)
  /\ DOMAIN report.highs \subseteq DOMAIN report.offsets
  /\ asked \in [Partitions -> 0..MaxMessages]
  /\ mishaps \subseteq ReportEnvironment

\* The messages that were there when the report was asked for, and which have
\* been committed and are in the index by now.
AllCommitted == \A p \in Partitions : offset[p] >= asked[p]
Quiet(t) == \A p \in PartitionsOf(t) : high[p] = asked[p]
Complete(t) ==
  \A p \in PartitionsOf(t) : \A k \in 0..(asked[p] - 1) : <<p, k>> \in docs

\* A report is put together from reads made one after the other, each of a
\* Kafka that has moved on since the last.  Where it says in sync all the
\* same, every message that was there when it was asked for has been committed,
\* and has its document if its topic has one partition and received nothing
\* meanwhile: the document of a newer message would make up for a missing one
\* in the count, as getSyncReport compares numbers.  Requests that fail,
\* partitions without an offset, resets and deletions are the exceptions.
InSyncHolds ==
  InSyncReported /\ mishaps \cap {"failure", "uncommitted", "reset"} = {} =>
    /\ AllCommitted
    /\ \A i \in DOMAIN Indexed :
         /\ Cardinality(PartitionsOf(Indexed[i])) = 1
         /\ Quiet(Indexed[i])
         /\ "deleted" \notin mishaps
         => Complete(Indexed[i])

\* getSyncReport logs "All data is in sync!" (kafka-sync.service.ts:115) when
\* it answers inSync.
AllDataIsInSync == InSyncReported => AllCommitted

=============================================================================
