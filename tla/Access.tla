------------------------------- MODULE Access -------------------------------
(***************************************************************************)
(* Roles and permissions of the core service: the system-wide tables of    *)
(* role-permission.service.ts, the grants of one organization of           *)
(* permissions.dynamic.ts, and the seeds that fill both.                    *)
(*                                                                         *)
(* No operation runs in a transaction.  An operation is therefore the      *)
(* sequence of statements it sends, and the statements of the calls that   *)
(* run side by side alternate in every way.  A call may stop after any     *)
(* statement: the database fails it, or its process ends.                  *)
(*                                                                         *)
(* One user and one organization.  Permissions are never anything but      *)
(* ACTIVE in this code; a role is ACTIVE or not.                           *)
(***************************************************************************)
EXTENDS Integers, FiniteSets, SequencesExt

CONSTANTS
  Calls,              \* requests and seeding processes
  Keys,               \* keys of permissions
  Triple,             \* [Keys -> the unique columns resource, action, scope]
  Roles,              \* keys of system-wide roles
  KeySets,            \* the sets of keys that requests name
  OrgRoles, OrgPermissions,
  SystemPermissions,  \* a sequence of keys: what the seed upserts
  SystemRoles,        \* a sequence of [key, keys]
  GlobalRoles,        \* a sequence of [key, keys], keys a sequence: the other seed
  OrganizationGrants, \* a sequence of <<role, permission>>: the sample organization
  DefaultGrants       \* a set of <<role, permission>>: what a new organization gets

\* Two calls: a row cannot be deleted and made anew behind the back of a seed
\* that holds its id, so that a key stands for the id.
ASSUME CallsAssumption == IsFiniteSet(Calls) /\ Cardinality(Calls) \in 1..2

ASSUME RolesAssumption == IsFiniteSet(Roles)

\* The seeds have something to write, a role once, and no triple under two keys.
ASSUME SeedsAssumption ==
  /\ SystemPermissions \in Seq(Keys) \ {<< >>}
  /\ \A k, other \in ToSet(SystemPermissions) : Triple[k] = Triple[other] => k = other
  /\ SystemRoles \in Seq([key : Roles, keys : SUBSET ToSet(SystemPermissions)]) \ {<< >>}
  /\ \A i, j \in DOMAIN SystemRoles : SystemRoles[i].key = SystemRoles[j].key => i = j
  /\ GlobalRoles \in Seq([key : Roles, keys : Seq(Keys)]) \ {<< >>}
  /\ OrganizationGrants \in Seq(OrgRoles \X OrgPermissions) \ {<< >>}
  /\ DefaultGrants \subseteq OrgRoles \X OrgPermissions
  /\ KeySets \subseteq SUBSET Keys

VARIABLES
  permissions,  \* the keys in the table permissions
  role,         \* the table roles, and the permissions connected to each
  userRoles,    \* the roles connected to the user
  grants,       \* organizationRolePermission of the organization
  call,
  seen          \* history: what a call could have seen, and whether it was disturbed

tables == <<permissions, role, userRoles, grants>>
vars == <<tables, call, seen>>

-----------------------------------------------------------------------------
(* The tables *)

Absent == [status |-> "absent", system |-> FALSE, keys |-> {}]
Exists(r) == role[r].status # "absent"

\* getUserPermissions: what the active roles of the user add up to.
UserPermissions ==
  UNION {role[r].keys : r \in {q \in userRoles : role[q].status = "ACTIVE"}}

\* userHasPermission asks the database for such a user instead.
AnyStatus(key) == \E r \in userRoles : key \in role[r].keys
UserHasPermission(key) ==
  \E r \in userRoles : role[r].status = "ACTIVE" /\ key \in role[r].keys

\* No second key for the same resource, action and scope.
NeverClashes(key) == FALSE
Clashes(key) == \E other \in permissions \ {key} : Triple[other] = Triple[key]

-----------------------------------------------------------------------------
(* The statements an operation sends, in order *)

Statement(do, r, keys) == [do |-> do, role |-> r, keys |-> keys]
NoRole == "none"

SeedPermissions ==
  [i \in DOMAIN SystemPermissions |->
     Statement("upsertPermission", NoRole, {SystemPermissions[i]})]

\* Nothing is granted by a role between its third and its fourth statement.
NoClear(r, keys) ==
  << Statement("upsertRole", r, {}), Statement("findPermissions", r, keys),
     Statement("connectFound", r, {}) >>
SeedRole(r, keys) ==
  << Statement("upsertRole", r, {}), Statement("findPermissions", r, keys),
     Statement("setPermissions", r, {}), Statement("connectFound", r, {}) >>

SeedRoles ==
  FlattenSeq([i \in DOMAIN SystemRoles |->
                SeedRole(SystemRoles[i].key, SystemRoles[i].keys)])

SeedOrganization ==
  [i \in DOMAIN OrganizationGrants |->
     Statement("grant", OrganizationGrants[i][1], {OrganizationGrants[i][2]})]

\* prisma/seeds/index.ts: the roles first, then the organizations.
SeedAll == SeedPermissions \o SeedRoles \o SeedOrganization

\* The other seed of the same roles, under other keys for the same triples.
SeedGlobal ==
  FlattenSeq([i \in DOMAIN GlobalRoles |->
    LET r == GlobalRoles[i].key IN
      << Statement("touchRole", r, {}) >> \o
      FlattenSeq([j \in DOMAIN GlobalRoles[i].keys |->
         << Statement("upsertPermission", NoRole, {GlobalRoles[i].keys[j]}),
            Statement("addPermissions", r, {GlobalRoles[i].keys[j]}) >>])])

\* seedSingleOrganization creates where the other seeds upsert.
SeedSingle ==
  [i \in DOMAIN OrganizationGrants |->
     Statement("createGrant", OrganizationGrants[i][1], {OrganizationGrants[i][2]})]

\* seedOrganizationPermissions, one createMany that skips what is there.
DefaultsOf(r) == {p \in OrgPermissions : <<r, p>> \in DefaultGrants}

CreateRole(r, isSystem, keys) ==
  << Statement(IF isSystem THEN "createSystemRole" ELSE "createRole", r, {}) >>
  \o (IF keys = {} THEN << >> ELSE << Statement("addPermissions", r, keys) >>)

DeleteUnread(r) == << Statement("deleteRole", r, {}) >>
DeleteRole(r) == << Statement("refuseSystem", r, {}), Statement("deleteRole", r, {}) >>

GrantOnly(r, ps) == << Statement("grant", r, ps) >>
UpdateOrganizationRole(r, ps) ==
  << Statement("revoke", r, {}), Statement("grant", r, ps) >>

\* Operations that are one statement.
Relinking == {"setPermissions", "addPermissions", "removePermissions"}
Relabelling == {"activate", "deactivate", "assignRole", "removeRole"}

-----------------------------------------------------------------------------
(* Calls *)

NoCall == [op |-> "none", role |-> NoRole, keys |-> {}, todo |-> << >>,
           ask |-> {}, found |-> {}, outcome |-> "none"]
Running(c) == call[c].op # "none" /\ call[c].outcome = "none"

Start(c, op, r, keys, todo) ==
  /\ call[c].op = "none"
  /\ call' = [call EXCEPT ![c] = [NoCall EXCEPT !.op = op, !.role = r,
                                                !.keys = keys, !.todo = todo]]
  /\ UNCHANGED tables

StartSeed(c) == Start(c, "seed", NoRole, {}, SeedAll)
StartGlobalSeed(c) == Start(c, "globalSeed", NoRole, {}, SeedGlobal)
StartSeedSingle(c) == Start(c, "seedSingle", NoRole, {}, SeedSingle)
StartDefaults(c) ==
  Start(c, "defaults", NoRole, {}, << Statement("grantDefaults", NoRole, {}) >>)
StartClear(c) ==
  Start(c, "clear", NoRole, {}, << Statement("readRoles", NoRole, {}) >>)
StartCreateRole(c, r, isSystem, keys) ==
  Start(c, "createRole", r, keys, CreateRole(r, isSystem, keys))
StartDeleteRole(c, r) == Start(c, "deleteRole", r, {}, DeleteRole(r))
StartOne(c, op, r, keys) == Start(c, op, r, keys, << Statement(op, r, keys) >>)
StartCreatePermission(c, key) ==
  Start(c, "createPermission", NoRole, {key},
        << Statement("createPermission", NoRole, {key}) >>)
StartSetUserRoles(c, rs) ==
  Start(c, "setUserRoles", NoRole, rs, << Statement("setUserRoles", NoRole, rs) >>)
StartCreateOrganizationRole(c, r, ps) ==
  Start(c, "createOrganizationRole", r, ps, GrantOnly(r, ps))
StartUpdateOrganizationRole(c, r, ps) ==
  Start(c, "updateOrganizationRole", r, ps, UpdateOrganizationRole(r, ps))
StartDeleteOrganizationRole(c, r) ==
  Start(c, "deleteOrganizationRole", r, {}, << Statement("revoke", r, {}) >>)

\* userHasPermissions, userHasAnyPermission: one query per key, all at once;
\* checkOrganizationPermission: one query per role of the member, in turn.
StartCheck(c, op, r, asked) ==
  /\ call[c].op = "none"
  /\ call' = [call EXCEPT ![c] = [NoCall EXCEPT !.op = op, !.role = r,
                                                !.keys = asked, !.ask = asked]]
  /\ UNCHANGED tables

Doing(c, do) ==
  /\ Running(c) /\ call[c].todo # << >>
  /\ Head(call[c].todo).do = do

Ended(c, outcome) == [call EXCEPT ![c].outcome = outcome]
\* The statement succeeded; after the last one the call returns.
Continue(c, found, rest) ==
  call' = [call EXCEPT ![c].todo = rest, ![c].found = found,
                       ![c].outcome = IF rest = << >> THEN "done" ELSE "none"]
Advance(c) == Continue(c, call[c].found, Tail(call[c].todo))

\* The error is thrown on to the caller, except by seedSingleOrganization.
Refuse(c) ==
  /\ call' = Ended(c, IF call[c].op = "seedSingle" THEN "done" ELSE "refused")
  /\ UNCHANGED tables

-----------------------------------------------------------------------------
(* Statements on permissions and roles *)

UpsertPermission(c) ==
  LET key == CHOOSE k \in Head(call[c].todo).keys : TRUE IN
  /\ Doing(c, "upsertPermission")
  /\ IF Clashes(key)
     THEN Refuse(c)
     ELSE /\ permissions' = permissions \cup {key}
          /\ Advance(c) /\ UNCHANGED <<role, userRoles, grants>>

CreatePermission(c) ==
  LET key == CHOOSE k \in Head(call[c].todo).keys : TRUE IN
  /\ Doing(c, "createPermission")
  /\ IF key \in permissions \/ Clashes(key)
     THEN Refuse(c)
     ELSE /\ permissions' = permissions \cup {key}
          /\ Advance(c) /\ UNCHANGED <<role, userRoles, grants>>

\* Both seeds upsert; only one of them resets the status of a role it finds.
UpsertRole(c) ==
  LET r == Head(call[c].todo).role IN
  /\ \/ Doing(c, "upsertRole")
        /\ role' = [role EXCEPT ![r].status = "ACTIVE", ![r].system = TRUE]
     \/ Doing(c, "touchRole")
        /\ role' = [role EXCEPT ![r].status = IF Exists(r) THEN @ ELSE "ACTIVE",
                                ![r].system = TRUE]
  /\ Advance(c) /\ UNCHANGED <<permissions, userRoles, grants>>

InsertRole(c) ==
  LET r == Head(call[c].todo).role IN
  /\ Doing(c, "createRole") \/ Doing(c, "createSystemRole")
  /\ IF Exists(r)
     THEN Refuse(c)
     ELSE /\ role' = [role EXCEPT ![r] =
                        [status |-> "ACTIVE", keys |-> {},
                         system |-> Head(call[c].todo).do = "createSystemRole"]]
          /\ Advance(c) /\ UNCHANGED <<permissions, userRoles, grants>>

FindPermissions(c) ==
  /\ Doing(c, "findPermissions")
  /\ Continue(c, Head(call[c].todo).keys \cap permissions, Tail(call[c].todo))
  /\ UNCHANGED tables

\* An update of a role that is not there fails, and so does connecting a
\* permission that is not there; disconnecting one is nothing.
EditRole(c) ==
  LET s == Head(call[c].todo)
      connected == CASE s.do = "connectFound" -> call[c].found
                     [] s.do \in {"setPermissions", "addPermissions"} -> s.keys
                     [] OTHER -> {}
      row == role[s.role] IN
  /\ \E do \in {"setPermissions", "connectFound", "addPermissions",
                "removePermissions", "activate", "deactivate"} : Doing(c, do)
  /\ IF ~Exists(s.role) \/ ~(connected \subseteq permissions)
     THEN Refuse(c)
     ELSE /\ role' = [role EXCEPT ![s.role] =
               CASE s.do = "setPermissions" -> [row EXCEPT !.keys = s.keys]
                 [] s.do = "removePermissions" -> [row EXCEPT !.keys = @ \ s.keys]
                 [] s.do = "activate" -> [row EXCEPT !.status = "ACTIVE"]
                 [] s.do = "deactivate" -> [row EXCEPT !.status = "INACTIVE"]
                 [] OTHER -> [row EXCEPT !.keys = @ \cup connected]]
          /\ Advance(c) /\ UNCHANGED <<permissions, userRoles, grants>>

\* deleteRole reads the role and refuses a system role; what it read may be
\* out of date when the row goes.
RefuseSystem(c) ==
  LET r == Head(call[c].todo).role IN
  /\ Doing(c, "refuseSystem")
  /\ IF ~Exists(r) \/ role[r].system
     THEN Refuse(c)
     ELSE Advance(c) /\ UNCHANGED tables

EraseRole(c) ==
  LET r == Head(call[c].todo).role IN
  /\ Doing(c, "deleteRole")
  /\ IF ~Exists(r)
     THEN Refuse(c)
     ELSE /\ role' = [role EXCEPT ![r] = Absent]
          /\ userRoles' = userRoles \ {r}
          /\ Advance(c) /\ UNCHANGED <<permissions, grants>>

\* clearRolesAndPermissions: every role it read is disconnected by a statement
\* of its own, then the roles that are no system roles and all permissions go.
ReadRoles(c) ==
  LET there == SetToSeq({r \in Roles : Exists(r)}) IN
  /\ Doing(c, "readRoles")
  /\ Continue(c, {}, [i \in DOMAIN there |->
                        Statement("removePermissions", there[i], role[there[i]].keys)]
                     \o << Statement("deleteOrdinary", NoRole, {}),
                           Statement("deletePermissions", NoRole, {}) >>)
  /\ UNCHANGED tables

DeleteOrdinary(c) ==
  LET gone == {r \in Roles : ~role[r].system} IN
  /\ Doing(c, "deleteOrdinary")
  /\ role' = [r \in Roles |-> IF r \in gone THEN Absent ELSE role[r]]
  /\ userRoles' = userRoles \ gone
  /\ Advance(c) /\ UNCHANGED <<permissions, grants>>

DeletePermissions(c) ==
  /\ Doing(c, "deletePermissions")
  /\ permissions' = {}
  /\ role' = [r \in Roles |-> [status |-> role[r].status, system |-> role[r].system,
                              keys |-> {}]]
  /\ Advance(c) /\ UNCHANGED <<userRoles, grants>>

EditUser(c) ==
  LET s == Head(call[c].todo)
      connected == CASE s.do = "assignRole" -> {s.role}
                     [] s.do = "setUserRoles" -> s.keys
                     [] OTHER -> {} IN
  /\ \E do \in {"assignRole", "removeRole", "setUserRoles"} : Doing(c, do)
  /\ IF \E r \in connected : ~Exists(r)
     THEN Refuse(c)
     ELSE /\ userRoles' = CASE s.do = "assignRole" -> userRoles \cup connected
                            [] s.do = "removeRole" -> userRoles \ {s.role}
                            [] OTHER -> connected
          /\ Advance(c) /\ UNCHANGED <<permissions, role, grants>>

-----------------------------------------------------------------------------
(* Statements on the grants of the organization *)

Pairs(r, ps) == {<<r, p>> : p \in ps}

Grant(c) ==
  LET s == Head(call[c].todo) IN
  /\ \/ Doing(c, "grant") /\ grants' = grants \cup Pairs(s.role, s.keys)
     \/ Doing(c, "grantDefaults") /\ grants' = grants \cup DefaultGrants
  /\ Advance(c) /\ UNCHANGED <<permissions, role, userRoles>>

CreateGrant(c) ==
  LET pairs == Pairs(Head(call[c].todo).role, Head(call[c].todo).keys) IN
  /\ Doing(c, "createGrant")
  /\ IF pairs \subseteq grants
     THEN Refuse(c)
     ELSE /\ grants' = grants \cup pairs
          /\ Advance(c) /\ UNCHANGED <<permissions, role, userRoles>>

Revoke(c) ==
  /\ Doing(c, "revoke")
  /\ grants' = {g \in grants : g[1] # Head(call[c].todo).role}
  /\ Advance(c) /\ UNCHANGED <<permissions, role, userRoles>>

-----------------------------------------------------------------------------
(* Checks *)

Verdict(yes) == IF yes THEN "allowed" ELSE "denied"

\* The answers of the queries are put together when the last one is there.
AskUser(c) ==
  /\ Running(c) /\ call[c].op \in {"all", "any"}
  /\ \E key \in call[c].ask :
       LET found == call[c].found \cup (IF UserHasPermission(key) THEN {key} ELSE {})
           last == call[c].ask = {key} IN
       call' = [call EXCEPT ![c].ask = @ \ {key}, ![c].found = found,
                  ![c].outcome = IF ~last THEN "none"
                                 ELSE IF call[c].op = "all"
                                      THEN Verdict(found = call[c].keys)
                                      ELSE Verdict(found # {})]
  /\ UNCHANGED tables

\* The first role with the permission decides.
AskOrganization(c) ==
  /\ Running(c) /\ call[c].op = "organization"
  /\ \E r \in call[c].ask :
       LET has == <<r, call[c].role>> \in grants IN
       call' = [call EXCEPT ![c].ask = @ \ {r},
                  ![c].outcome = IF has \/ call[c].ask = {r} THEN Verdict(has)
                                 ELSE "none"]
  /\ UNCHANGED tables

\* The database fails the next statement, or the process ends before it.
Stop(c) ==
  /\ Running(c)
  /\ call' = Ended(c, "stopped")
  /\ UNCHANGED tables

-----------------------------------------------------------------------------
(* What a call could have seen *)

\* What was asked for and is so at this moment.
Held(c) ==
  IF call[c].op = "organization"
  THEN {r \in call[c].keys : <<r, call[c].role>> \in grants}
  ELSE call[c].keys \cap UserPermissions

\* Two runs of one seed do not disturb each other as long as both are completed.
SameSeed(c, d) == call'[c].op = call'[d].op /\ call'[c].op \in {"seed", "globalSeed"}
Disturbs(d, c) ==
  /\ call'[d] # call[d]
  /\ \/ tables' # tables /\ ~SameSeed(c, d)
     \/ call'[d].outcome \in {"stopped", "refused"}

Watch ==
  seen' = [c \in Calls |->
    LET started == call[c].op = "none" /\ call'[c].op # "none"
        check == call'[c].op \in {"all", "any", "organization"}
        held == IF check THEN Held(c)' ELSE {} IN
    IF started THEN [always |-> held, ever |-> held, kept |-> TRUE]
    ELSE [always |-> IF Running(c) THEN seen[c].always \cap held ELSE seen[c].always,
          ever |-> IF Running(c) THEN seen[c].ever \cup held ELSE seen[c].ever,
          kept |-> seen[c].kept /\ \A d \in Calls \ {c} : ~Disturbs(d, c)]]

-----------------------------------------------------------------------------
(* The specification *)

\* Nothing yet; or seeded, with an administrator; or with roles that were made
\* by requests before any seed, one of them under the name of a system role.
Init ==
  /\ \/ /\ permissions = {} /\ role = [r \in Roles |-> Absent]
        /\ userRoles = {} /\ grants = {}
     \/ /\ permissions = ToSet(SystemPermissions)
        /\ role = [r \in Roles |->
                     IF \E i \in DOMAIN SystemRoles : SystemRoles[i].key = r
                     THEN [status |-> "ACTIVE", system |-> TRUE,
                           keys |-> (CHOOSE s \in ToSet(SystemRoles) : s.key = r).keys]
                     ELSE Absent]
        /\ userRoles = {SystemRoles[1].key}
        /\ grants = ToSet(OrganizationGrants)
     \/ /\ permissions = {SystemPermissions[1]}
        /\ role = [r \in Roles |-> [status |-> "ACTIVE", system |-> FALSE,
                                    keys |-> permissions]]
        /\ userRoles = Roles
        /\ grants = DefaultGrants
  /\ call = [c \in Calls |-> NoCall]
  /\ seen = [c \in Calls |-> [always |-> {}, ever |-> {}, kept |-> TRUE]]

StartSomething(c) ==
  \/ StartSeed(c) \/ StartGlobalSeed(c) \/ StartSeedSingle(c)
  \/ StartDefaults(c) \/ StartClear(c)
  \/ \E r \in Roles :
       \/ \E isSystem \in BOOLEAN, keys \in KeySets : StartCreateRole(c, r, isSystem, keys)
       \/ StartDeleteRole(c, r)
       \/ \E op \in Relinking, keys \in KeySets : StartOne(c, op, r, keys)
       \/ \E op \in Relabelling : StartOne(c, op, r, {})
  \/ \E key \in Keys : StartCreatePermission(c, key)
  \/ \E rs \in SUBSET Roles : StartSetUserRoles(c, rs)
  \/ \E r \in OrgRoles :
       \/ \E ps \in SUBSET OrgPermissions :
            \/ StartCreateOrganizationRole(c, r, ps)
            \/ StartUpdateOrganizationRole(c, r, ps)
       \/ StartDeleteOrganizationRole(c, r)
  \/ \E op \in {"all", "any"}, keys \in KeySets \ {{}} : StartCheck(c, op, NoRole, keys)
  \/ \E p \in OrgPermissions, rs \in (SUBSET OrgRoles) \ {{}} :
       StartCheck(c, "organization", p, rs)

Execute(c) ==
  \/ UpsertPermission(c) \/ CreatePermission(c)
  \/ UpsertRole(c) \/ InsertRole(c) \/ FindPermissions(c) \/ EditRole(c)
  \/ RefuseSystem(c) \/ EraseRole(c)
  \/ ReadRoles(c) \/ DeleteOrdinary(c) \/ DeletePermissions(c)
  \/ EditUser(c)
  \/ Grant(c) \/ CreateGrant(c) \/ Revoke(c)
  \/ AskUser(c) \/ AskOrganization(c)

Next ==
  /\ \E c \in Calls : StartSomething(c) \/ Execute(c) \/ Stop(c)
  /\ Watch

Spec == Init /\ [][Next]_vars

-----------------------------------------------------------------------------
(* Properties *)

Ops == {"none", "seed", "globalSeed", "seedSingle", "defaults", "clear",
        "createRole", "deleteRole", "createPermission", "setUserRoles",
        "createOrganizationRole", "updateOrganizationRole",
        "deleteOrganizationRole", "all", "any", "organization"}
       \cup Relinking \cup Relabelling

\* The types, and what the database guarantees with its keys: a role has only
\* permissions and a user only roles that are there, and no two permissions
\* are the same triple.
TypeOK ==
  /\ permissions \subseteq Keys
  /\ \A k, other \in permissions : Triple[k] = Triple[other] => k = other
  /\ role \in [Roles -> [status : {"absent", "ACTIVE", "INACTIVE"},
                         system : BOOLEAN, keys : SUBSET permissions]]
  /\ \A r \in Roles : ~Exists(r) => role[r] = Absent
  /\ userRoles \subseteq {r \in Roles : Exists(r)}
  /\ grants \subseteq OrgRoles \X OrgPermissions
  /\ \A c \in Calls :
       /\ call[c].op \in Ops
       /\ call[c].outcome \in {"none", "done", "refused", "stopped", "allowed", "denied"}
       /\ call[c].found \subseteq Keys
       /\ Running(c) => call[c].todo # << >> \/ call[c].ask # {}

\* schema.prisma: system roles cannot be deleted.  No request, no seed and no
\* clearing takes a system role away, whatever runs beside it, except for the
\* one gap the code has: deleteRole looked at the role while it was none, and
\* a seed adopted it before the row went.
SystemRoleStays ==
  [][ \A r \in Roles : role[r].system /\ ~role'[r].system =>
        \E c \in Calls : /\ call[c].op = "deleteRole" /\ call[c].role = r
                         /\ ~seen[c].kept ]_vars

\* A check asks in several queries while roles and permissions change.  It may
\* not allow what the user did not have at any moment of it, nor deny what he
\* had all along: not even during a seed, which takes every permission of a
\* role away before it connects them again.
AnswersHeld ==
  \A c \in Calls :
    LET asked == call[c].keys
        always == seen[c].always
        ever == seen[c].ever IN
    /\ call[c].op = "all" =>
         /\ call[c].outcome = "allowed" => asked \subseteq ever
         /\ call[c].outcome = "denied" => ~(asked \subseteq always)
    /\ call[c].op \in {"any", "organization"} =>
         /\ call[c].outcome = "allowed" => ever # {}
         /\ call[c].outcome = "denied" => always = {}

\* What the last writer wanted.
Achieved(c) ==
  LET r == call[c].role
      keys == call[c].keys IN
  CASE call[c].op = "seed" ->
         /\ ToSet(SystemPermissions) \subseteq permissions
         /\ \A i \in DOMAIN SystemRoles :
              role[SystemRoles[i].key] = [status |-> "ACTIVE", system |-> TRUE,
                                          keys |-> SystemRoles[i].keys]
         /\ ToSet(OrganizationGrants) \subseteq grants
    [] call[c].op = "globalSeed" ->
         \A i \in DOMAIN GlobalRoles :
           /\ role[GlobalRoles[i].key].system
           /\ ToSet(GlobalRoles[i].keys) \subseteq role[GlobalRoles[i].key].keys
    [] call[c].op = "clear" ->
         permissions = {} /\ \A q \in Roles : Exists(q) => role[q].system
    [] call[c].op = "createRole" -> role[r].status = "ACTIVE" /\ role[r].keys = keys
    [] call[c].op = "deleteRole" -> ~Exists(r)
    [] call[c].op = "setPermissions" -> role[r].keys = keys
    [] call[c].op = "setUserRoles" -> userRoles = keys
    [] call[c].op = "updateOrganizationRole" -> {g \in grants : g[1] = r} = Pairs(r, keys)
    [] OTHER -> TRUE

\* The last writer stands: a call that returned normally, and that nobody else
\* disturbed, left exactly what it was to leave.  For the seeds this holds over
\* whatever an interrupted seed, requests or a clearing left before, and also
\* when the same seed runs twice at once, as soon as both are through.
LastWriterStands ==
  \A c \in Calls :
    /\ call[c].outcome = "done" /\ seen[c].kept
    /\ \A d \in Calls : call[d].op = call[c].op => ~Running(d)
    => Achieved(c)

=============================================================================
