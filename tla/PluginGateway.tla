---------------------------- MODULE PluginGateway -----------------------------
(***************************************************************************)
(* The plugin registry and the gateway together: the webhook of            *)
(* apps/core/src/plugin-management/webhook.service.ts makes the gateway    *)
(* load its list of subgraphs again, over a query back to the core service *)
(* that the webhook's caller waits for.                                    *)
(***************************************************************************)
EXTENDS Integers, Sequences, SequencesExt

CONSTANTS
  Plugins, Urls, Calls,
  Environment  \* what else may happen

EnvironmentKinds ==
  { "silent",     \* the status changes by updateStatus or a health check
    "missed",     \* a notification is not delivered
    "fallback",   \* the query of a load fails
    "overtaken",  \* the answer of a load arrives after that of a later one
    "stop" }      \* the gateway stops

ASSUME UrlsAssumption == "none" \notin Urls  \* the url of no row
ASSUME EnvironmentAssumption == Environment \subseteq EnvironmentKinds

VARIABLES
  registry, answered, call,        \* of the registry
  boot, subgraphs, schema, load,   \* of the gateway
  reads,     \* history: the loads that have read the registry, in this order
  troubles,  \* history: what of Environment has happened since the registry
             \* was last read for the list in force
  since      \* history: the same since the read of each load

Entries == [name : Plugins, url : Urls]

INSTANCE PluginRegistry
INSTANCE DynamicGateway

coreVars == <<registry, answered, call>>
gateVars == <<boot, subgraphs, schema, load>>
history == <<reads, troubles, since>>
vars == <<coreVars, gateVars, history>>

Init ==
  /\ RegistryInit
  /\ GatewayInit
  /\ reads = <<>>
  /\ troubles = {}
  /\ since = [c \in Calls |-> {}]

Unloaded(c) == load[c].pc = "idle"

-----------------------------------------------------------------------------
(* History *)

Quietly == UNCHANGED history

Trouble(kind) ==
  /\ kind \in Environment
  /\ troubles' = troubles \cup {kind}
  /\ since' = [c \in Calls |->
                 IF Contains(reads, c) THEN since[c] \cup {kind} ELSE {}]
  /\ UNCHANGED reads

\* The loads that read before c did are overtaken when c's answer comes first.
Before(c, d) ==
  \E i, j \in DOMAIN reads : i < j /\ reads[i] = d /\ reads[j] = c

InForce(c) ==
  /\ \A d \in Calls : Before(c, d) => "overtaken" \in Environment
  /\ troubles' = since[c]
  /\ since' = [d \in Calls |->
       IF d = c THEN {}
       ELSE since[d] \cup IF Before(c, d) THEN {"overtaken"} ELSE {}]
  /\ \E i \in DOMAIN reads : reads[i] = c /\ reads' = RemoveAt(reads, i)

AfreshWith(kinds) ==
  /\ reads' = <<>>
  /\ since' = [c \in Calls |-> {}]
  /\ troubles' = kinds

-----------------------------------------------------------------------------
(* The core service on its own *)

RegistryStep(c) ==
  /\ \/ Unloaded(c) /\ \E p \in Plugins :
          \/ \E row \in Row : Register(c, p, row) \/ Update(c, p, row)
          \/ Unregister(c, p)
          \/ HealthCheck(c, p)
     \/ Validate(c)
     \/ CreateRow(c) \/ UpdateRow(c) \/ DeleteRow(c)
     \/ WriteFails(c)
  /\ UNCHANGED gateVars
  /\ Quietly

\* A status may change the active plugins without a notification.
Silently ==
  /\ IF GatewaySubgraphs' = GatewaySubgraphs THEN Quietly ELSE Trouble("silent")
  /\ UNCHANGED gateVars

HealthStep(c) == WriteHealth(c) /\ Silently

StatusStep ==
  /\ \E p \in Plugins, status \in Statuses : UpdateStatus(p, status)
  /\ Silently

-----------------------------------------------------------------------------
(* The gateway on its own *)

BootStep ==
  /\ \/ Create(GatewaySubgraphs)
     \/ Compose(GatewaySubgraphs)
     \/ Initialise(GatewaySubgraphs)
  /\ IF subgraphs' = WithCore(GatewaySubgraphs)
     THEN AfreshWith({})
     ELSE "fallback" \in Environment /\ AfreshWith({"fallback"})
  /\ UNCHANGED coreVars

ListenStep == Listen /\ UNCHANGED coreVars /\ Quietly

\* The query of a load is served while the call that caused it waits.  It
\* would never be if it had to wait for the calls under way.
WhenNobodyWaits == \A c \in Calls : ~At(c, "notifying")
Served == TRUE

ReadStep(c) ==
  /\ Served
  /\ AnswerQuery(c, GatewaySubgraphs)
  /\ reads' = Append(reads, c)
  /\ since' = [since EXCEPT ![c] = {}]
  /\ UNCHANGED <<coreVars, troubles>>

AssignStep(c) ==
  /\ AssignSubgraphs(c)
  /\ InForce(c)
  /\ UNCHANGED coreVars

FallBackStep(c) ==
  /\ FallBack(c)
  /\ Trouble("fallback")
  /\ UNCHANGED coreVars

-----------------------------------------------------------------------------
(* Both together *)

NotifyStep(c) ==
  /\ ReceiveReload(c)
  /\ PostReload(c) \/ RequestReload(c)
  /\ Quietly

\* The gateway is not up, or the request gets lost.
MissStep(c) ==
  /\ PostFails(c)
  /\ Trouble("missed")
  /\ UNCHANGED gateVars

AnswerStep(c) ==
  /\ AnswerReload(c)
  /\ ReloadAnswered(c)
  /\ Quietly

\* The requests under way fail with the gateway; a list is loaded when it
\* starts again.
StopStep ==
  /\ "stop" \in Environment
  /\ Stop
  /\ call' = [c \in Calls |-> IF At(c, "notifying") THEN Idle ELSE call[c]]
  /\ AfreshWith({})
  /\ UNCHANGED <<registry, answered>>

-----------------------------------------------------------------------------
Next ==
  \/ \E c \in Calls :
       \/ RegistryStep(c) \/ HealthStep(c)
       \/ ReadStep(c) \/ AssignStep(c) \/ FallBackStep(c)
       \/ NotifyStep(c) \/ MissStep(c) \/ AnswerStep(c)
  \/ StatusStep
  \/ BootStep \/ ListenStep \/ StopStep

Spec == Init /\ [][Next]_vars

\* Requests are answered as long as both processes run: the endpoint, the
\* database, the gateway and the query back.
Fairness ==
  \A c \in Calls :
    /\ WF_vars(At(c, "checking") /\ RegistryStep(c))
    /\ WF_vars(At(c, "writing") /\ (RegistryStep(c) \/ HealthStep(c)))
    /\ WF_vars(NotifyStep(c) /\ At(c, "written"))
    /\ WF_vars(MissStep(c))
    /\ WF_vars(ReadStep(c))
    /\ WF_vars(AssignStep(c))
    /\ WF_vars(AnswerStep(c))

FairSpec == Spec /\ Fairness

-----------------------------------------------------------------------------
(* Properties *)

TypeOK ==
  /\ RegistryTypeOK
  /\ GatewayTypeOK
  /\ reads \in Seq(Calls)
  /\ troubles \subseteq Environment
  /\ since \in [Calls -> SUBSET Environment]

\* No changed row waits to be reported, and nobody waits for a reload.
AtRest == \A c \in Calls : ~At(c, "written") /\ ~At(c, "notifying")

InStep == subgraphs = WithCore(GatewaySubgraphs)

\* Once every change has been reported, the gateway's list is the core service
\* and the active plugins, unless something went wrong since the registry was
\* last read for it: one successful reload heals whatever went wrong before
\* (notifyGateway, reloadSubgraphs).
InStepAtRest == boot = "up" /\ AtRest /\ troubles = {} => InStep

\* The call that waits for the gateway, that waits for the core service, comes
\* to its end.
CallsEnd == \A c \in Calls : (call[c].pc # "idle") ~> (call[c].pc = "idle")

=============================================================================
