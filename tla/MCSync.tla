------------------------------- MODULE MCSync -------------------------------
(* Two topics of one partition each. *)
EXTENDS SyncReport

MCIndexed == << "user.created", "role.created" >>
MCTopicOf == [p |-> "user.created", q |-> "role.created"]
=============================================================================
