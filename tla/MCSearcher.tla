----------------------------- MODULE MCSearcher -----------------------------
(***************************************************************************)
(* The consumer and the reports of the searcher, checked in one run.  A    *)
(* report sees of the consumer what SyncReport has of it, so that a        *)
(* behaviour is one of either while the other stays as it started.         *)
(***************************************************************************)
EXTENDS SearchIndexing, MCSync

VARIABLE part

MCInit ==
  \/ part = "indexing" /\ Init /\ ReportInit /\ mishaps = {}
  \/ part = "reports" /\ Init /\ ReportInit /\ troubles = {}

MCNext ==
  /\ UNCHANGED part
  /\ \/ part = "indexing" /\ Next /\ UNCHANGED reportVars
     \/ part = "reports" /\ ReportNext /\ UNCHANGED vars

MCSpec == MCInit /\ [][MCNext]_<<part, vars, reportVars>>

=============================================================================
