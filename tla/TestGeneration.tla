--------------------------- MODULE TestGeneration ---------------------------
(***************************************************************************)
(* Model configurations of the testing plugin and what is generated with   *)
(* them (plugins/ai-agent-testing/src/application/services:                *)
(* model-config.service.ts, ai-agent.service.ts,                           *)
(* document-generator.service.ts, security-test.service.ts;                *)
(* infrastructure/ai/llm-client.ts).                                       *)
(*                                                                         *)
(* Each scope, that of a project or the global one, is to have a default.  *)
(* create and setAsDefault take it away from its configuration in one      *)
(* statement and give it in the next.  A generation asks for a model,      *)
(* first the default of the project and then the global one, in two        *)
(* statements, and does so again for every item it generates from: the     *)
(* endpoints of a document, the kinds of a scan, or the one description.   *)
(*                                                                         *)
(* The language models are external: a completion resolves or rejects.     *)
(***************************************************************************)
EXTENDS Integers, Sequences, FiniteSets

CONSTANTS
  Configs,
  Projects,
  Requests,
  Items,      \* what a document or a scan has to generate from, in order
  Limit       \* how many endpoints of a document are taken up

Global == "global"
None == "none"

ASSUME LimitAssumption == Limit \in Nat
ASSUME ItemsAssumption == Items \in Seq({Items[i] : i \in DOMAIN Items}) /\ Items # <<>>
ASSUME NamesAssumption == {Global, None} \cap (Projects \cup Configs) = {}

VARIABLES
  configs,    \* the configurations there are
  scope,      \* projectId of each, Global for null
  defaults,   \* those with isDefault
  active,     \* those with isActive
  document,   \* the status of the document, and what is working on it
  request,
  alone,      \* history: the requests that set a default and that nothing else
              \* about defaults came between
  lost        \* history: whether a statement failed or the process stopped

configTables == <<configs, scope, defaults, active>>
generationVars == <<configTables, document, request, alone, lost>>

NoRequest ==
  [op |-> None, pc |-> "idle", config |-> None, project |-> None, default |-> FALSE,
   items |-> <<>>, cases |-> <<>>, answer |-> None, ever |-> {}, held |-> {}]
UnderWay(r) == request[r].pc \notin {"idle", "done", "refused"}
At(r, ops, pc) == request[r].op \in ops /\ request[r].pc = pc
InScope(s) == {c \in configs : scope[c] = s}

\* Two configurations are there from the start, active or not, each the default
\* of its scope or not; the others may be created.
GenerationInit ==
  /\ configs \in SUBSET Configs /\ Cardinality(configs) = 2
  /\ scope \in [Configs -> Projects \cup {Global}]
  /\ defaults \in SUBSET configs
  /\ \A c, d \in defaults : scope[c] = scope[d] => c = d
  /\ active \in SUBSET configs
  /\ document \in [status : {None, "COMPLETED"}, pc : {"none"}]
  /\ request = [r \in Requests |-> NoRequest]
  /\ alone = {} /\ lost = FALSE

\* The configurations that a request may be answered with: the one it names, or
\* the defaults of its project and the global ones.
Eligible(req, s, d, a) ==
  IF req.config # None THEN {req.config} \cap a
  ELSE {c \in d \cap a : s[c] \in {req.project, Global}}
Resolving == {"byId", "byProject", "byGlobal"}

\* What was eligible at some time and all the time since a request began to
\* resolve its model; p, s, d and a are the tables after the step.
Watch(req, p, s, d, a) ==
  IF req.pc \notin Resolving THEN req
  ELSE [req EXCEPT !.ever = @ \cup Eligible(req, s, d \cap p, a \cap p),
                   !.held = @ \cap Eligible(req, s, d \cap p, a \cap p)]
Write(r, to, p, s, d, a) ==
  /\ configs' = p /\ scope' = s /\ defaults' = d /\ active' = a
  /\ request' = [q \in Requests |->
                   IF q = r THEN to ELSE Watch(request[q], p, s, d, a)]
  /\ UNCHANGED <<document, lost>>

Go(r, pc) ==
  /\ request' = [request EXCEPT ![r].pc = pc]
  /\ UNCHANGED <<configTables, document, alone, lost>>

-----------------------------------------------------------------------------
(* Configurations *)

Begin(r, to) ==
  /\ request[r].pc = "idle"
  /\ request' = [request EXCEPT ![r] = to]
  /\ alone' = IF to.op \in {"create", "setAsDefault"} /\ to.pc # "inserting"
              THEN alone \cup {r} ELSE alone
  /\ UNCHANGED <<configTables, document, lost>>

BeginCreate(r, c, default) ==
  /\ c \notin configs
  /\ Begin(r, [NoRequest EXCEPT !.op = "create", !.config = c, !.project = scope[c],
                 !.default = default, !.pc = IF default THEN "unsetting" ELSE "inserting"])
BeginSetAsDefault(r, c) ==
  Begin(r, [NoRequest EXCEPT !.op = "setAsDefault", !.config = c, !.pc = "reading"])

\* getById; the scope is that of the configuration as it was read.
ReadConfig(r) ==
  /\ At(r, {"setAsDefault"}, "reading")
  /\ IF request[r].config \notin configs THEN Go(r, "refused")
     ELSE /\ request' = [request EXCEPT ![r].pc = "unsetting",
                                        ![r].project = scope[request[r].config]]
          /\ UNCHANGED <<configTables, document, alone, lost>>

\* unsetDefaultForScope; to spare the other defaults would leave two.
OwnDefault(c, s) == {c} \cap defaults
DefaultsOfScope(c, s) == defaults \cap InScope(s)
UnsetDefaultForScope(r) ==
  LET req == request[r] IN
  /\ At(r, {"create", "setAsDefault"}, "unsetting")
  /\ Write(r, [req EXCEPT !.pc = IF req.op = "create" THEN "inserting" ELSE "setting"],
           configs, scope, defaults \ DefaultsOfScope(req.config, req.project), active)
  /\ alone' = alone \cap {r}

\* The insertion fails if its project is gone.
InsertConfig(r) ==
  LET req == request[r] IN
  /\ At(r, {"create"}, "inserting") /\ req.config \notin configs
  /\ IF scope[req.config] # req.project THEN Go(r, "refused")
     ELSE /\ Write(r, [req EXCEPT !.pc = "done"],
                   configs \cup {req.config}, scope,
                   IF req.default THEN defaults \cup {req.config} ELSE defaults,
                   active \cup {req.config})
          /\ alone' = IF req.default THEN alone \cap {r} ELSE alone

SetDefault(r) ==
  LET req == request[r] IN
  /\ At(r, {"setAsDefault"}, "setting")
  /\ IF req.config \notin configs THEN Go(r, "refused")
     ELSE /\ Write(r, [req EXCEPT !.pc = "done"],
                   configs, scope, defaults \cup {req.config}, active)
          /\ alone' = alone \cap {r}

\* One statement each: update with isActive, delete, and the deletion of a
\* project, whose configurations become global ones, defaults included.
UpdateActive(r, c) ==
  /\ request[r].pc = "idle" /\ c \in configs
  /\ Write(r, [NoRequest EXCEPT !.op = "update", !.pc = "done"], configs, scope, defaults,
           IF c \in active THEN active \ {c} ELSE active \cup {c})
  /\ UNCHANGED alone
DeleteConfig(r, c) ==
  /\ request[r].pc = "idle" /\ c \in configs
  /\ Write(r, [NoRequest EXCEPT !.op = "delete", !.pc = "done"],
           configs \ {c}, scope, defaults \ {c}, active \ {c})
  /\ alone' = {}
DeleteProject(r, p) ==
  /\ request[r].pc = "idle"
  /\ Write(r, [NoRequest EXCEPT !.op = "deleteProject", !.pc = "done"], configs,
           [c \in Configs |-> IF scope[c] = p THEN Global ELSE scope[c]], defaults, active)
  /\ alone' = {}

-----------------------------------------------------------------------------
(* Generation *)

\* resolveModel begins: with the configuration named, or the default of the
\* project, or at once with the global one.
Resolve(req, d) ==
  LET first == [req EXCEPT !.answer = None,
         !.pc = IF req.config # None THEN "byId"
                ELSE IF req.project # None THEN "byProject" ELSE "byGlobal"]
      now == Eligible(req, scope, d, active)
  IN [first EXCEPT !.ever = now, !.held = now]

BeginGeneration(r, op, config, project, items) ==
  /\ items # <<>>
  /\ Begin(r, Resolve([NoRequest EXCEPT !.op = op, !.config = config, !.project = project,
                         !.items = items], defaults))
GenerateTestCase(r, config, project) ==
  BeginGeneration(r, "generateTestCase", config, project, <<Items[1]>>)
GenerateSecurityTests(r, config, project) ==
  BeginGeneration(r, "securityTests", config, project, Items)

\* Only a document that is ready, and no more endpoints than the limit.
IsReady == document.status = "COMPLETED"
EndpointsOf(items) == SubSeq(items, 1, IF Len(items) < Limit THEN Len(items) ELSE Limit)
GenerateFromDocument(r, config, project) ==
  /\ IsReady
  /\ BeginGeneration(r, "fromDocument", config, project, EndpointsOf(Items))

FindById(c) == {c} \cap configs \cap active
FindDefault(s) == defaults \cap active \cap InScope(s)

\* The item is done with, and the next one taken up; an error is logged and
\* costs the item, except where there is only one call: there the caller
\* gets it.
NextItem(r, cases) ==
  LET req == request[r]
      rest == [req EXCEPT !.items = Tail(@), !.cases = cases]
  IN request' = [request EXCEPT ![r] =
       IF rest.items = <<>> THEN [rest EXCEPT !.pc = "done"] ELSE Resolve(rest, defaults)]
Miss(r) ==
  IF request[r].op = "generateTestCase"
  THEN request' = [request EXCEPT ![r].pc = "refused"]
  ELSE NextItem(r, request[r].cases)

FindModel(r) ==
  LET req == request[r]
      found == CASE req.pc = "byId" -> FindById(req.config)
                 [] req.pc = "byProject" -> FindDefault(req.project)
                 [] req.pc = "byGlobal" -> FindDefault(Global)
  IN /\ req.pc \in Resolving
     /\ \/ \E c \in found :
             request' = [request EXCEPT ![r].pc = "completing", ![r].answer = c]
        \/ /\ found = {} /\ req.pc = "byProject"
           /\ request' = [request EXCEPT ![r].pc = "byGlobal"]
        \/ /\ found = {} /\ req.pc # "byProject"
           /\ request' = [request EXCEPT ![r].pc = "unresolved"]
     /\ UNCHANGED <<configTables, document, alone, lost>>

Unresolved(r) ==
  /\ request[r].pc = "unresolved"
  /\ Miss(r)
  /\ UNCHANGED <<configTables, document, alone, lost>>

Complete(r) ==
  LET req == request[r] IN
  /\ req.pc = "completing"
  /\ \/ NextItem(r, Append(req.cases, [item |-> Head(req.items), model |-> req.answer]))
     \/ Miss(r)
  /\ UNCHANGED <<configTables, document, alone, lost>>

-----------------------------------------------------------------------------
(* Documents: uploadDocument answers with a row that is PENDING, and a promise *)
(* nobody awaits works on it                                                   *)

Unattended == [status |-> "PENDING", pc |-> "none"]
Attended == [status |-> "PENDING", pc |-> "marking"]
Process(next) ==
  /\ document' = next
  /\ UNCHANGED <<configTables, request, alone, lost>>

UploadDocument == document.status = None /\ Process(Attended)
MarkProcessing ==
  /\ document.pc = "marking"
  /\ Process([status |-> "PROCESSING", pc |-> "parsing"])

\* A document that cannot be parsed is completed too, with an error in its
\* metadata; only the statement that says so can fail.
CompleteDocument ==
  /\ document.pc = "parsing"
  /\ Process([status |-> "COMPLETED", pc |-> "none"])
CompletionFails ==
  /\ document.pc = "parsing"
  /\ Process([document EXCEPT !.pc = "failing"])
FailDocument ==
  /\ document.pc = "failing"
  /\ Process([status |-> "FAILED", pc |-> "none"])

\* The database fails the statement that comes next, or the process ends: what
\* was under way is over, and nobody takes it up again.
StopProcessing ==
  /\ document.pc # "none"
  /\ document' = [document EXCEPT !.pc = "none"]
  /\ lost' = TRUE
  /\ UNCHANGED <<configTables, request, alone>>
StopRequest(r) ==
  /\ UnderWay(r)
  /\ Go(r, "refused")

ConfigRequest(r) ==
  \/ \E c \in Configs :
       \/ \E default \in BOOLEAN : BeginCreate(r, c, default)
       \/ BeginSetAsDefault(r, c) \/ UpdateActive(r, c) \/ DeleteConfig(r, c)
  \/ \E p \in Projects : DeleteProject(r, p)
  \/ ReadConfig(r) \/ UnsetDefaultForScope(r) \/ InsertConfig(r) \/ SetDefault(r)

Generation(r) ==
  \/ \E p \in Projects \cup {None}, c \in Configs \cup {None} :
       /\ c = None \/ p = None
       /\ GenerateTestCase(r, c, p) \/ GenerateSecurityTests(r, c, p)
            \/ GenerateFromDocument(r, c, p)
  \/ FindModel(r) \/ Unresolved(r) \/ Complete(r)

Documents ==
  \/ UploadDocument \/ MarkProcessing \/ CompleteDocument \/ CompletionFails
  \/ FailDocument \/ StopProcessing

GenerationNext ==
  \/ Documents
  \/ \E r \in Requests : ConfigRequest(r) \/ Generation(r) \/ StopRequest(r)

GenerationSpec == GenerationInit /\ [][GenerationNext]_generationVars

-----------------------------------------------------------------------------
(* Properties *)

\* The default of a scope: whoever set one and was not disturbed by another that
\* set one, by a deletion or by a project that went has left exactly that one in
\* its scope.
OneDefaultLeft ==
  \A r \in alone : request[r].pc = "done" =>
    LET c == request[r].config IN
    defaults \cap InScope(request[r].project) = {c}

\* A model that resolves is one that could be used while it was looked for, active
\* and named or a default; a default of the project that stood all the while goes
\* before the global one; and with any default that stood all the while there is an
\* answer.  Between the two statements of setAsDefault there may be none.
ResolvesRightly ==
  \A r \in Requests :
    /\ request[r].pc = "completing" =>
         /\ request[r].answer \in request[r].ever
         /\ (\E c \in request[r].held : scope[c] = request[r].project)
              => scope[request[r].answer] = request[r].project
    /\ request[r].pc = "unresolved" => request[r].held = {}

\* What calls of model-config.service.ts leave and find while others run beside
\* them, both in several statements.
ConfigsHold == OneDefaultLeft /\ ResolvesRightly

\* A document that was uploaded is finished, COMPLETED or FAILED, or somebody works
\* on it, unless a statement failed or the process ended: then it stays as it is.
DocumentsAttended ==
  document.status \in {"PENDING", "PROCESSING"} /\ ~lost => document.pc # "none"
=============================================================================
