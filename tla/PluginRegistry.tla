---------------------------- MODULE PluginRegistry ----------------------------
(***************************************************************************)
(* The plugin registry of the core service                                 *)
(* (apps/core/src/plugin-management/plugin-management.service.ts).         *)
(*                                                                         *)
(* A member of Calls is a request handler: it runs one operation at a      *)
(* time, and those of different handlers interleave at every await: of the *)
(* plugin's endpoint, of the database and of the gateway's webhook.  A     *)
(* plugin is identified by its name, which no call changes here.           *)
(***************************************************************************)
CONSTANTS
  Plugins, Urls, Calls

\* INACTIVE, MAINTENANCE, ERROR and DEGRADED all have the effect of OTHER.
Statuses == {"ACTIVE", "OTHER"}
Absent == [url |-> "none", status |-> "none"]

\* The column is required but may be empty.
EmptyUrl == ""

VARIABLES
  registry,  \* the row of each plugin, its url and status, or Absent
  answered,  \* history: the urls that have answered the introspection query
  call       \* what each request handler is at

Row == [url : Urls, status : Statuses]
Registered(p) == registry[p] # Absent

Ops == {"register", "update", "unregister", "healthCheck"}
Idle == [pc |-> "idle"]
Written == [pc |-> "written"]      \* the gateway is to be told
Notifying == [pc |-> "notifying"]  \* its answer is awaited

At(c, pc) == call[c].pc = pc
Go(c, to) == call' = [call EXCEPT ![c] = to]

Begin(c, op, pc, p, row) ==
  /\ At(c, "idle")
  /\ Go(c, [pc |-> pc, op |-> op, plugin |-> p, row |-> row])
  /\ UNCHANGED <<registry, answered>>

RegistryInit ==
  /\ registry = [p \in Plugins |-> Absent]
  /\ answered = {}
  /\ call = [c \in Calls |-> Idle]

-----------------------------------------------------------------------------
(* The first half of each operation, up to its first await after a read *)

\* The endpoint given is asked first, if one is given.
Checked(row) == IF row.url = EmptyUrl THEN "writing" ELSE "checking"

Register(c, p, row) == Begin(c, "register", Checked(row), p, row)

\* The resolver hands over a whole row, with its url.
Update(c, p, row) == Registered(p) /\ Begin(c, "update", Checked(row), p, row)

Unregister(c, p) == Registered(p) /\ Begin(c, "unregister", "writing", p, Absent)

\* Also each turn of healthCheckAll.
HealthCheck(c, p) ==
  Registered(p) /\ Begin(c, "healthCheck", "checking", p, registry[p])

\* One statement, and no notification of the gateway.
UpdateStatus(p, status) ==
  /\ Registered(p)
  /\ registry' = [registry EXCEPT ![p].status = status]
  /\ UNCHANGED <<answered, call>>

\* An operator may post to /gateway/reload as the core service does.
RequestReload(c) ==
  /\ At(c, "idle")
  /\ Go(c, Notifying)
  /\ UNCHANGED <<registry, answered>>

-----------------------------------------------------------------------------
(* validateServiceEndpoint *)

Validate(c) ==
  /\ At(c, "checking")
  /\ \E healthy \in BOOLEAN :
       /\ healthy => call[c].row.url # EmptyUrl  \* where there is nobody to answer
       /\ answered' = IF healthy THEN answered \cup {call[c].row.url} ELSE answered
       /\ IF call[c].op = "healthCheck"
          THEN call' = [call EXCEPT
                 ![c].pc = "writing",
                 ![c].row.status = IF healthy THEN "ACTIVE" ELSE "OTHER"]
          ELSE Go(c, IF healthy THEN [call[c] EXCEPT !.pc = "writing"] ELSE Idle)
  /\ UNCHANGED registry

-----------------------------------------------------------------------------
(* The statement that writes the row.  It fails when the plugin has        *)
(* meanwhile been registered by another call, or unregistered.             *)

CreateRow(c) ==
  /\ At(c, "writing") /\ call[c].op = "register"
  /\ ~Registered(call[c].plugin)
  /\ registry' = [registry EXCEPT ![call[c].plugin] = call[c].row]
  /\ Go(c, Written)
  /\ UNCHANGED answered

UpdateRow(c) ==
  /\ At(c, "writing") /\ call[c].op = "update"
  /\ Registered(call[c].plugin)
  /\ registry' = [registry EXCEPT ![call[c].plugin] = call[c].row]
  /\ Go(c, Written)
  /\ UNCHANGED answered

DeleteRow(c) ==
  /\ At(c, "writing") /\ call[c].op = "unregister"
  /\ Registered(call[c].plugin)
  /\ registry' = [registry EXCEPT ![call[c].plugin] = Absent]
  /\ Go(c, Written)
  /\ UNCHANGED answered

\* Only the status is written, whatever the url is by now, and the gateway is
\* not told.
WriteHealth(c) ==
  /\ At(c, "writing") /\ call[c].op = "healthCheck"
  /\ Registered(call[c].plugin)
  /\ registry' = [registry EXCEPT
                    ![call[c].plugin].status = call[c].row.status]
  /\ Go(c, Idle)
  /\ UNCHANGED answered

WriteFails(c) ==
  /\ At(c, "writing")
  /\ (call[c].op = "register") = Registered(call[c].plugin)
  /\ Go(c, Idle)
  /\ UNCHANGED <<registry, answered>>

-----------------------------------------------------------------------------
(* notifyGateway *)

PostReload(c) ==
  /\ At(c, "written")
  /\ Go(c, Notifying)
  /\ UNCHANGED <<registry, answered>>

\* The request fails, or the process stops before it is made: nothing tries
\* again.
PostFails(c) ==
  /\ At(c, "written")
  /\ Go(c, Idle)
  /\ UNCHANGED <<registry, answered>>

ReloadAnswered(c) ==
  /\ At(c, "notifying")
  /\ Go(c, Idle)
  /\ UNCHANGED <<registry, answered>>

-----------------------------------------------------------------------------
\* getGatewaySubgraphs: the active plugins.  Without the where clause it would
\* list every name there ever was.
EveryName == {[name |-> p, url |-> registry[p].url] : p \in Plugins}
GatewaySubgraphs ==
  {[name |-> p, url |-> registry[p].url] : p \in
     {q \in Plugins : Registered(q) /\ registry[q].status = "ACTIVE"}}

RegistryTypeOK ==
  /\ registry \in [Plugins -> Row \cup {Absent}]
  /\ answered \subseteq Urls
  /\ call \in [Calls -> {Idle, Written, Notifying} \cup
       [pc : {"checking", "writing"}, op : Ops, plugin : Plugins,
        row : Row \cup {Absent}]]

\* Every registered endpoint has once answered as a GraphQL service, however
\* the calls interleave ("Validate service URL by checking GraphQL endpoint"),
\* except where none was given.
RegisteredUrlsAnswered ==
  \A p \in Plugins :
    Registered(p) => registry[p].url \in answered \cup {EmptyUrl}

=============================================================================
