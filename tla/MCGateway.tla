------------------------------ MODULE MCGateway ------------------------------
(***************************************************************************)
(* The plugin registry and the gateway, where all requests of a behaviour  *)
(* give the same url or all give none.  A given url has to answer before   *)
(* its row is written, an absent one has nobody to answer, so that either  *)
(* takes its own way through the handlers.                                 *)
(***************************************************************************)
EXTENDS PluginGateway

VARIABLE given

MCInit == Init /\ given \in Urls

\* The row that a handler works on, if it has one, has the url given.
Gives(c) ==
  "row" \in DOMAIN call[c] =>
    call[c].row \in [url : {given}, status : Statuses] \cup {Absent}

MCNext == UNCHANGED given /\ Next /\ \A c \in Calls : Gives(c)'

MCSpec == MCInit /\ [][MCNext]_<<vars, given>> /\ Fairness
=============================================================================
