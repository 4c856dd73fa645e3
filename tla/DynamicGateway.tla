---------------------------- MODULE DynamicGateway ----------------------------
(***************************************************************************)
(* The gateway's list of subgraphs                                         *)
(* (apps/gateway/src/dynamic-gateway/), and the schema composed from it    *)
(* while the gateway starts (app.module.ts, main.ts).                      *)
(*                                                                         *)
(* Every request to /gateway/reload is a load of its own: a query to the   *)
(* core service, and an assignment when the answer arrives.                *)
(***************************************************************************)
EXTENDS Integers, Sequences

CONSTANTS
  Calls,    \* the requests to /gateway/reload that may be under way
  Entries   \* the subgraphs the core service may list

Core == [name |-> "core", url |-> "CORE_SERVICE_URL"]

VARIABLES
  boot,       \* how far the gateway has started
  subgraphs,  \* the list in force
  schema,     \* the subgraphs behind /graphql
  load        \* the load of each reload request

Stages == {"down", "created", "composed", "initialised", "up"}
NoLoad == [pc |-> "idle", list |-> {}]

GatewayInit ==
  /\ boot = "down"
  /\ subgraphs = {}
  /\ schema = {}
  /\ load = [c \in Calls |-> NoLoad]

\* The core service comes first, and a plugin cannot take its name.
WithCore(list) == {Core} \cup {s \in list : s.name # "core"}

\* A load that fails falls back to the core service alone.
Loaded(list) == {WithCore(list), {Core}}

-----------------------------------------------------------------------------
(* Starting: three loads one after the other *)

\* The factory of the GraphQL module.
Create(list) ==
  /\ boot = "down"
  /\ boot' = "created"
  /\ subgraphs' \in Loaded(list)
  /\ schema' = subgraphs'
  /\ UNCHANGED load

\* bootstrap; what it composes serves the REST interface, likewise for good.
Compose(list) ==
  /\ boot = "created"
  /\ boot' = "composed"
  /\ subgraphs' \in Loaded(list)
  /\ UNCHANGED <<schema, load>>

\* onModuleInit, called by app.listen.
Initialise(list) ==
  /\ boot = "composed"
  /\ boot' = "initialised"
  /\ subgraphs' \in Loaded(list)
  /\ UNCHANGED <<schema, load>>

Listen ==
  /\ boot = "initialised"
  /\ boot' = "up"
  /\ UNCHANGED <<subgraphs, schema, load>>

\* A crash, or a schema that cannot be composed because a subgraph does not
\* answer.
Stop ==
  /\ boot # "down"
  /\ boot' = "down"
  /\ subgraphs' = {}
  /\ schema' = {}
  /\ load' = [c \in Calls |-> NoLoad]

-----------------------------------------------------------------------------
(* Reloading *)

ReceiveReload(c) ==
  /\ boot = "up"
  /\ load[c].pc = "idle"
  /\ load' = [load EXCEPT ![c].pc = "querying"]
  /\ UNCHANGED <<boot, subgraphs, schema>>

\* The core service reads its registry.
AnswerQuery(c, list) ==
  /\ load[c].pc = "querying"
  /\ load' = [load EXCEPT ![c] = [pc |-> "answered", list |-> list]]
  /\ UNCHANGED <<boot, subgraphs, schema>>

\* The answer arrives: all of it replaces the list, not only what is new.
Merged(list) == subgraphs \cup WithCore(list)
Replaced(list) == WithCore(list)

AssignSubgraphs(c) ==
  /\ load[c].pc = "answered"
  /\ subgraphs' = Replaced(load[c].list)
  /\ load' = [load EXCEPT ![c] = [pc |-> "loaded", list |-> {}]]
  /\ UNCHANGED <<boot, schema>>

FallBack(c) ==
  /\ load[c].pc = "querying"
  /\ subgraphs' = {Core}
  /\ load' = [load EXCEPT ![c] = [pc |-> "loaded", list |-> {}]]
  /\ UNCHANGED <<boot, schema>>

AnswerReload(c) ==
  /\ load[c].pc = "loaded"
  /\ load' = [load EXCEPT ![c] = NoLoad]
  /\ UNCHANGED <<boot, subgraphs, schema>>

GatewayTypeOK ==
  /\ boot \in Stages
  /\ subgraphs \subseteq Entries \cup {Core}
  /\ schema \subseteq Entries \cup {Core}
  /\ load \in [Calls -> [pc : {"idle", "querying", "answered", "loaded"},
                         list : SUBSET Entries]]

=============================================================================
