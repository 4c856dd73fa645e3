------------------------------ MODULE MCAccess ------------------------------
(* The seeds of SeedTables; beside the system role one ordinary role, beside
   member one more role of the organization.  The guards of the handlers and
   the logins share no state with the tables of roles, nor with each other: a
   behaviour is one of the three. *)
EXTENDS Access, Guards, Logins, SeedTables, TLC

VARIABLE part

Rows == ToSet(SYSTEM_PERMISSIONS) \cup ToSet(GLOBAL_PERMISSIONS)
MCKeys == {entry.key : entry \in Rows}
MCTriple == [k \in MCKeys |-> (CHOOSE entry \in Rows : entry.key = k).triple]
MCRoles == {"admin", "editor"}
MCKeySets == {{}, {"user:create"}, {"user:create", "system:update"}}
MCOrgRoles == {"member", "viewer"}
MCOrgPermissions == {"comment:update", "comment:delete"}
MCSystemPermissions == [i \in DOMAIN SYSTEM_PERMISSIONS |-> SYSTEM_PERMISSIONS[i].key]

MCChains == { << "AuthGuard" >>, << "PermissionGuard" >>,
              << "AuthGuard", "PermissionGuard" >>, << "AuthPermissionGuard" >> }
MCSources == { << "none", "none", "none" >>, << "o1", "none", "o2" >>,
               << "none", "o2", "o1" >>, << "none", "none", "o2" >> }

Interchangeable == Permutations(Calls) \cup Permutations(Requests)

AllVars == <<part, vars, guardsVars, loginsVars>>
MCInit ==
  /\ part \in {"access", "guards", "logins"}
  /\ IF part = "access" THEN Init
     ELSE /\ permissions = {} /\ role = [r \in Roles |-> Absent]
          /\ userRoles = {} /\ grants = {}
          /\ call = [c \in Calls |-> NoCall]
          /\ seen = [c \in Calls |-> [always |-> {}, ever |-> {}, kept |-> TRUE]]
  /\ IF part = "guards" THEN GuardsInit
     ELSE /\ session = FALSE /\ permitted = {} /\ active = "o1"
          /\ guarded = NotYet /\ during = [valid |-> {}, may |-> {}]
  /\ IF part = "logins" THEN LoginsInit
     ELSE /\ row = [password |-> "old", status |-> "ACTIVE", attempts |-> 0,
                    lockout |-> 0, resetUntil |-> 0, twoFactor |-> FALSE]
          /\ byEmail = NotLooked /\ byId = NotLooked
          /\ now = 0 /\ started = 0 /\ restarts = 0
          /\ request = [r \in Requests |-> NoRequest]
          /\ refused = 0 /\ chosen = "old"

MCNext ==
  \/ part = "access" /\ Next /\ UNCHANGED <<part, guardsVars, loginsVars>>
  \/ part = "guards" /\ GuardsNext /\ UNCHANGED <<part, vars, loginsVars>>
  \/ part = "logins" /\ LoginsNext /\ UNCHANGED <<part, vars, guardsVars>>

MCSpec == MCInit /\ [][MCNext]_AllVars
=============================================================================
