---------------------------- MODULE MCPipelines ----------------------------
(***************************************************************************)
(* The two pipelines that end in Elasticsearch, checked in one run: events *)
(* through Kafka into the search index, and log lines through files into   *)
(* the log index.  They share nothing, so that a behaviour is one of a     *)
(* single pipeline while the other rests where it has nothing to do.       *)
(***************************************************************************)
EXTENDS SearchIndexing, LogPipeline

VARIABLE part

\* Started, connected, and nothing to do.
IndexingAtRest ==
  /\ db = [e \in Entities |-> [version |-> 0, deleted |-> FALSE]]
  /\ unsent = {} /\ log = [t \in Topics |-> <<>>]
  /\ committed = [t \in Topics |-> 0] /\ position = [t \in Topics |-> 0]
  /\ service = "up" /\ registered = TRUE /\ es = "ready"
  /\ busy = "none" /\ done = FALSE
  /\ index = [e \in Entities |-> 0]
  /\ outcome = {} /\ silent = {} /\ spoilt = {} /\ faults = 0 /\ troubles = {}

MCInit ==
  /\ LogInit
  /\ \/ part = "indexing" /\ Init
     \/ part = "logs" /\ IndexingAtRest

MCNext ==
  /\ UNCHANGED part
  /\ \/ part = "indexing" /\ Next /\ UNCHANGED logVars
     \/ part = "logs" /\ LogNext /\ UNCHANGED vars

MCSpec ==
  MCInit /\ [][MCNext]_<<part, vars, logVars>> /\ Fairness /\ LogFairness

=============================================================================
