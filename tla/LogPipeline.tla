----------------------------- MODULE LogPipeline ------------------------------
(***************************************************************************)
(* The way of a log line through the logger service, from the file that    *)
(* another service writes to the search index:                             *)
(*   apps/logger/src/file-watcher/file-watcher.service.ts    tails, buffers *)
(*   apps/logger/src/log-processor/log-processor.service.ts  filters       *)
(*   apps/logger/src/log-shipper/log-shipper.service.ts      indexes       *)
(*                                                                         *)
(* A flush takes the whole buffer and awaits one bulk request; the timer   *)
(* does not wait for the flush before, so that several may be under way.   *)
(* Parsing a line gives an entry in every case and is left out.            *)
(***************************************************************************)
EXTENDS Integers, Sequences, FiniteSets, SequencesExt

CONSTANTS
  Files,
  MaxLines,    \* bound: lines written to one file
  MaxFlushes,  \* bound: flushes under way at a time
  LogEnvironment  \* what may go wrong

LogEnvironmentKinds ==
  { "unwatched",  \* a line is written while the file is not tailed
    "removed",    \* a file disappears before all of it was read
    "rejected",   \* the bulk request fails, for all of its lines or for some
    "close",      \* the application is closed
    "crash" }     \* the process stops

ASSUME LogFilesAssumption == IsFiniteSet(Files)
ASSUME LogBoundsAssumption == MaxLines \in Nat /\ MaxFlushes \in Nat
ASSUME LogEnvironmentAssumption == LogEnvironment \subseteq LogEnvironmentKinds

Lines == Files \X (1..MaxLines)
Flushes == 1..MaxFlushes
NoTail == -1

VARIABLES
  exists,    \* the files that are there
  length,    \* how many lines each file was given, over all its lives
  noise,     \* the lines that are empty or, in production, about debugging
  logger,   \* "down", "up" or "closed"
  tail,      \* how many lines of each file its tail is past, or NoTail
  buffer,    \* logBuffer
  flush,     \* the lines of each flush under way
  read,      \* history: the lines that came to the buffer
  indexed,   \* the lines in the search index
  dropped,   \* history: the lines that left the service without being indexed
  logTroubles   \* history: what of LogEnvironment has happened

files == <<exists, length, noise>>
pipe == <<buffer, flush, read, indexed, dropped>>
logVars == <<files, logger, tail, pipe, logTroubles>>

LogInit ==
  /\ exists = {}
  /\ length = [f \in Files |-> 0]
  /\ noise = {}
  /\ logger = "down"
  /\ tail = [f \in Files |-> NoTail]
  /\ buffer = <<>>
  /\ flush = [k \in Flushes |-> <<>>]
  /\ read = {}
  /\ indexed = {}
  /\ dropped = {}
  /\ logTroubles = {}

LogTrouble(kind) ==
  /\ kind \in LogEnvironment
  /\ logTroubles' = logTroubles \cup {kind}

-----------------------------------------------------------------------------
(* The services that write the files *)

CreateFile(f) ==
  /\ f \notin exists
  /\ exists' = exists \cup {f}
  /\ UNCHANGED <<length, noise, logger, tail, pipe, logTroubles>>

WriteLine(f) ==
  /\ f \in exists
  /\ length[f] < MaxLines
  /\ length' = [length EXCEPT ![f] = @ + 1]
  /\ noise' \in {noise, noise \cup {<<f, length[f] + 1>>}}
  /\ IF tail[f] # NoTail THEN UNCHANGED logTroubles ELSE LogTrouble("unwatched")
  /\ UNCHANGED <<exists, logger, tail, pipe>>

\* The watcher stops the tail of a file that has gone; otherwise the file
\* could not be tailed when it comes back.
KeepTailing(f) == tail
StopTailingFile(f) == [tail EXCEPT ![f] = NoTail]

\* Log rotation.
RemoveFile(f) ==
  /\ f \in exists
  /\ exists' = exists \ {f}
  /\ tail' = StopTailingFile(f)
  /\ IF tail[f] \in {length[f], NoTail} THEN UNCHANGED logTroubles
                                        ELSE LogTrouble("removed")
  /\ UNCHANGED <<length, noise, logger, pipe>>

-----------------------------------------------------------------------------
(* Watching files *)

StartWatcher ==
  /\ logger = "down"
  /\ logger' = "up"
  /\ UNCHANGED <<files, tail, pipe, logTroubles>>

\* A tail begins at the end of its file, and a file has one tail.
StartTailingFile(f) ==
  /\ logger = "up"
  /\ f \in exists
  /\ tail[f] = NoTail
  /\ tail' = [tail EXCEPT ![f] = length[f]]
  /\ UNCHANGED <<files, logger, pipe, logTroubles>>

\* The next line of a tail; shouldProcessLog decides whether it counts.
HandleLogLine(f) ==
  LET line == <<f, tail[f] + 1>> IN
  /\ tail[f] \in 0..(length[f] - 1)
  /\ tail' = [tail EXCEPT ![f] = @ + 1]
  /\ IF line \in noise
     THEN UNCHANGED <<buffer, read>>
     ELSE /\ buffer' = Append(buffer, line)
          /\ read' = read \cup {line}
  /\ UNCHANGED <<files, logger, flush, indexed, dropped, logTroubles>>

-----------------------------------------------------------------------------
(* Flushing the buffer *)

\* Any line makes a flush worthwhile; a batch that had to be full would wait.
FullBatch == Len(buffer) >= 2
WorthFlushing == buffer # <<>>

\* The buffer is emptied before the batch is awaited; one that kept its lines
\* would send them again.
KeptBuffer == buffer
ClearedBuffer == <<>>

TakeBuffer(k) ==
  /\ WorthFlushing
  /\ flush[k] = <<>>
  /\ flush' = [flush EXCEPT ![k] = buffer]
  /\ buffer' = ClearedBuffer

FlushBuffer(k) ==
  /\ logger = "up"
  /\ TakeBuffer(k)
  /\ UNCHANGED <<files, logger, tail, read, indexed, dropped, logTroubles>>

\* The bulk request of shipLogBatch returns.  Neither rejected items nor a
\* failed request is noticed by anyone up to flushBuffer, whose own error
\* handling is never reached.
Indexes(k, lines) ==
  /\ flush[k] # <<>>
  /\ indexed' = indexed \cup lines
  /\ dropped' = dropped \cup (ToSet(flush[k]) \ lines)
  /\ flush' = [flush EXCEPT ![k] = <<>>]

ShipLogBatch(k) ==
  /\ Indexes(k, ToSet(flush[k]))
  /\ UNCHANGED <<files, logger, tail, buffer, read, logTroubles>>

BatchRejected(k) ==
  /\ \E lines \in SUBSET ToSet(flush[k]) : Indexes(k, lines)
  /\ LogTrouble("rejected")
  /\ UNCHANGED <<files, logger, tail, buffer, read>>

-----------------------------------------------------------------------------
(* The end of the process *)

\* onModuleDestroy: the tails and the timer end, and the buffer is flushed a
\* last time.  Without shutdown hooks in main.ts a signal does not get here.
Destroy ==
  /\ logger = "up"
  /\ logger' = "closed"
  /\ tail' = [f \in Files |-> NoTail]
  /\ \/ buffer = <<>> /\ UNCHANGED <<buffer, flush>>
     \/ \E k \in Flushes : TakeBuffer(k)
  /\ LogTrouble("close")
  /\ UNCHANGED <<files, read, indexed, dropped>>

\* What a bulk request under way had sent may or may not be indexed.
CrashLogger ==
  LET flying == UNION {ToSet(flush[k]) : k \in Flushes} IN
  /\ logger # "down"
  /\ logger' = "down"
  /\ \E lines \in {{}, flying} :
       /\ indexed' = indexed \cup lines
       /\ dropped' = dropped \cup ToSet(buffer) \cup (flying \ lines)
  /\ tail' = [f \in Files |-> NoTail]
  /\ buffer' = <<>>
  /\ flush' = [k \in Flushes |-> <<>>]
  /\ LogTrouble("crash")
  /\ UNCHANGED <<files, read>>

-----------------------------------------------------------------------------
WriteFiles == \E f \in Files : CreateFile(f) \/ WriteLine(f) \/ RemoveFile(f)

Watch ==
  \/ StartWatcher
  \/ \E f \in Files : StartTailingFile(f) \/ HandleLogLine(f)

Ship ==
  \E k \in Flushes : FlushBuffer(k) \/ ShipLogBatch(k) \/ BatchRejected(k)

LogNext == WriteFiles \/ Watch \/ Ship \/ Destroy \/ CrashLogger

LogSpec == LogInit /\ [][LogNext]_logVars

\* The tails poll, the timer fires, and requests return.
LogFairness ==
  /\ \A f \in Files : WF_logVars(HandleLogLine(f))
  /\ WF_logVars(\E k \in Flushes : FlushBuffer(k))
  /\ \A k \in Flushes : WF_logVars(ShipLogBatch(k))

LogFairSpec == LogSpec /\ LogFairness

-----------------------------------------------------------------------------
(* Properties *)

LogTypeOK ==
  /\ exists \subseteq Files
  /\ length \in [Files -> 0..MaxLines]
  /\ noise \subseteq Lines
  /\ logger \in {"down", "up", "closed"}
  /\ tail \in [Files -> {NoTail} \cup 0..MaxLines]
  /\ \A f \in Files : tail[f] # NoTail => f \in exists /\ tail[f] <= length[f]
  /\ buffer \in Seq(Lines)
  /\ flush \in [Flushes -> Seq(Lines)]
  /\ read \subseteq Lines /\ indexed \subseteq Lines /\ dropped \subseteq Lines
  /\ logTroubles \subseteq LogEnvironment

\* How often the buffer, the flushes, the index and the losses hold a line.
Copies(line) ==
    Cardinality({i \in DOMAIN buffer : buffer[i] = line})
  + Cardinality({p \in Flushes \X (1..Cardinality(Lines)) :
                   p[2] \in DOMAIN flush[p[1]] /\ flush[p[1]][p[2]] = line})
  + (IF line \in indexed THEN 1 ELSE 0)
  + (IF line \in dropped THEN 1 ELSE 0)

\* A line that was read is always in exactly one place: lines that arrive
\* while a batch is on its way are neither lost with it nor sent twice
\* (flushBuffer).  A line that was not read, or is noise, is in none.
InOnePlace ==
  \A line \in Lines : Copies(line) = IF line \in read THEN 1 ELSE 0

\* Every line is indexed in the end, and soon after it was written, not only
\* once more lines arrive, as long as its file is tailed and nothing fails.
EveryLineIndexed ==
  \A line \in Lines :
    (length[line[1]] >= line[2] /\ line \notin noise)
      ~> (line \in indexed \/ logTroubles # {})

=============================================================================
