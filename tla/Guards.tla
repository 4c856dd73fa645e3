-------------------------------- MODULE Guards --------------------------------
(***************************************************************************)
(* The guards before a handler:                                            *)
(*   shared/authorization/src/guards/auth.guard.ts, permission.guard.ts,    *)
(*     auth-permission.guard.ts                                            *)
(*   apps/core/src/auth/better-auth.service.ts, getSession                  *)
(*   apps/core/src/permissions/permissions.service.ts, hasPermission        *)
(*                                                                         *)
(* A guard decides after asking whether the session of the token is valid  *)
(* and whether its user has a permission in an organization; while it      *)
(* waits, the session may end and the permission come and go.  The guards  *)
(* of a handler run one after the other over the context of the request.   *)
(*                                                                         *)
(* One request of one user.  Better Auth is external: it answers by its    *)
(* tables, or fails.                                                       *)
(***************************************************************************)
EXTENDS Integers, SequencesExt

CONSTANTS
  Organizations,
  Chains,    \* the sequences of guards that handlers are given
  Sources    \* where requests name an organization: <<argument, input, context>>

GuardKinds == {"AuthGuard", "PermissionGuard", "AuthPermissionGuard"}
NoOrganization == "none"

ASSUME GuardsAssumption ==
  /\ Chains \subseteq Seq(GuardKinds) \ {<< >>}
  /\ \A s \in Sources : s \in [1..3 -> Organizations \cup {NoOrganization}]

VARIABLES
  session,    \* the session of the token is valid
  permitted,  \* the organizations in which its user has the permission
  active,     \* the organization the session is in
  guarded,    \* the request
  during      \* history: what was so at every, and at some, moment of the request

guardsVars == <<session, permitted, active, guarded, during>>

NotYet == [stage |-> "idle", guards |-> << >>, chain |-> << >>,
           public |-> FALSE, needs |-> FALSE, token |-> FALSE,
           sources |-> <<NoOrganization, NoOrganization, NoOrganization>>,
           user |-> FALSE, failed |-> FALSE]

GuardsInit ==
  /\ session \in BOOLEAN
  /\ permitted \in SUBSET Organizations
  /\ active \in Organizations
  /\ guarded = NotYet
  /\ during = [valid |-> {}, may |-> {}]

Request(chain, public, needs, token, sources) ==
  /\ guarded.stage = "idle"
  /\ guarded' = [guarded EXCEPT !.stage = "guard", !.guards = chain,
                   !.chain = chain, !.public = public, !.needs = needs, !.token = token,
                   !.sources = sources]
  /\ UNCHANGED <<session, permitted, active>>

-----------------------------------------------------------------------------
(* The guards *)

Guard == Head(guarded.chain)
Refuses == guarded' = [guarded EXCEPT !.stage = "refused"]
\* The next guard, or the handler after the last one.
Passes(user) ==
  guarded' = [guarded EXCEPT !.chain = Tail(guarded.chain), !.user = user,
                !.stage = IF Tail(guarded.chain) = << >> THEN "handler" ELSE "guard"]
Awaits(stage, user) == guarded' = [guarded EXCEPT !.stage = stage, !.user = user]

\* A public handler needs no session; PermissionGuard does not ask for that.
Authenticate ==
  /\ guarded.stage = "guard" /\ Guard # "PermissionGuard"
  /\ \/ guarded.public /\ Passes(guarded.user)
     \/ ~guarded.public /\ ~guarded.token /\ Refuses
     \/ ~guarded.public /\ guarded.token /\ Awaits("session", guarded.user)
  /\ UNCHANGED <<session, permitted, active>>

CheckPermission ==
  /\ guarded.stage = "guard" /\ Guard = "PermissionGuard"
  /\ \/ ~guarded.needs /\ Passes(guarded.user)
     \/ guarded.needs /\ ~guarded.token /\ Refuses
     \/ guarded.needs /\ guarded.token /\ Awaits("permission", guarded.user)
  /\ UNCHANGED <<session, permitted, active>>

\* getSession resolves to null for a token without a session, and for an error.
AnyFound(found) == TRUE
Found(found) == found

GetSession ==
  /\ guarded.stage = "session"
  /\ IF ~Found(session) THEN Refuses
     ELSE IF Guard = "AuthPermissionGuard" /\ guarded.needs
          THEN Awaits("permission", TRUE)
          ELSE Passes(TRUE)
  /\ UNCHANGED <<session, permitted, active>>

\* The first source that names an organization; else Better Auth takes the
\* one the session is in.
Named ==
  LET there == {i \in 1..3 : guarded.sources[i] # NoOrganization} IN
  IF there = {} THEN active
  ELSE guarded.sources[CHOOSE i \in there : \A j \in there : i <= j]

HasPermission ==
  /\ guarded.stage = "permission"
  /\ IF session /\ Named \in permitted THEN Passes(guarded.user) ELSE Refuses
  /\ UNCHANGED <<session, permitted, active>>

\* Whatever the error, it ends as a refusal.
BetterAuthFails ==
  /\ guarded.stage \in {"session", "permission"}
  /\ guarded' = [guarded EXCEPT !.stage = "refused", !.failed = TRUE]
  /\ UNCHANGED <<session, permitted, active>>

-----------------------------------------------------------------------------
(* The rest of the world, and the specification *)

Elsewhere ==
  /\ \/ session /\ session' = FALSE /\ UNCHANGED <<permitted, active>>
     \/ /\ \E o \in Organizations :
             permitted' \in {permitted \cup {o}, permitted \ {o}}
        /\ UNCHANGED <<session, active>>
     \/ active' \in Organizations /\ UNCHANGED <<session, permitted>>
  /\ UNCHANGED guarded

Arrive ==
  \E chain \in Chains, public, needs, token \in BOOLEAN, sources \in Sources :
    Request(chain, public, needs, token, sources)

May == session /\ Named \in permitted
Observe ==
  during' = CASE guarded.stage = "idle" -> [valid |-> {session'}, may |-> {May'}]
              [] guarded.stage \in {"handler", "refused"} -> during
              [] OTHER -> [valid |-> during.valid \cup {session'},
                           may |-> during.may \cup {May'}]

GuardsNext ==
  /\ \/ Arrive \/ Authenticate \/ CheckPermission \/ GetSession \/ HasPermission
     \/ BetterAuthFails \/ Elsewhere
  /\ Observe

GuardsSpec == GuardsInit /\ [][GuardsNext]_guardsVars

-----------------------------------------------------------------------------
(* Properties *)

\* The types; the organization a request names is one, or none.
GuardsTypeOK ==
  /\ session \in BOOLEAN /\ permitted \subseteq Organizations /\ active \in Organizations
  /\ guarded \in [stage : {"idle", "guard", "session", "permission", "handler", "refused"},
                  guards : Seq(GuardKinds), chain : Seq(GuardKinds),
                  public : BOOLEAN, needs : BOOLEAN, token : BOOLEAN,
                  sources : [1..3 -> Organizations \cup {NoOrganization}],
                  user : BOOLEAN, failed : BOOLEAN]
  /\ during \in [valid : SUBSET BOOLEAN, may : SUBSET BOOLEAN]

\* A handler runs only for a session that was valid while the guards were at
\* work and, where it needs a permission, for a user who had it then in the
\* organization the request is about, whatever was revoked between the two
\* questions; and nobody is refused, unless Better Auth failed, who gave a
\* token and had all that was needed all along.
GuardsDecideRightly ==
  LET guards == ToSet(guarded.guards)
      authenticated == guards # {"PermissionGuard"} /\ ~guarded.public
      checked == /\ guarded.needs
                 /\ \/ "PermissionGuard" \in guards
                    \/ "AuthPermissionGuard" \in guards /\ ~guarded.public IN
  /\ guarded.stage = "handler" =>
       /\ authenticated => TRUE \in during.valid /\ guarded.user
       /\ checked => TRUE \in during.may
  /\ guarded.stage = "refused" /\ ~guarded.failed =>
       \/ ~guarded.token
       \/ authenticated /\ FALSE \in during.valid
       \/ checked /\ FALSE \in during.may

=============================================================================
