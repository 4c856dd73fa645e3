----------------------------- MODULE EntryProofs -----------------------------
(***************************************************************************)
(* Theorems about modules Guards, Logins and PluginGateway, on the way in: *)
(* for every chain of guards, every set of organizations and every way a   *)
(* request may name one; for any number of requests side by side, every    *)
(* set of passwords, every number of attempts and any number of restarts;  *)
(* and for any number of plugins, urls and reloads of the gateway's list,  *)
(* whatever of the environment's troubles there may be.                    *)
(***************************************************************************)
EXTENDS Guards, Logins, PluginGateway, SequenceTheorems, TLAPS

-----------------------------------------------------------------------------
(* The invariant *)

UnderWay == guarded.stage \in {"guard", "session", "permission"}

\* The history knows the present moment of a request under way.
HistoryInv ==
  UnderWay => /\ session => TRUE \in during.valid
              /\ ~session => FALSE \in during.valid
              /\ May => TRUE \in during.may
              /\ ~May => FALSE \in during.may

\* What is left of the chain is its end, and the handler comes after all of it.
ChainInv ==
  /\ guarded.stage # "idle" =>
       /\ guarded.guards # << >>
       /\ Len(guarded.chain) <= Len(guarded.guards)
       /\ \A i \in 1..Len(guarded.chain) :
            guarded.chain[i] = guarded.guards[Len(guarded.guards) - Len(guarded.chain) + i]
  /\ UnderWay => guarded.chain # << >>
  /\ guarded.stage = "handler" => guarded.chain = << >>

\* What guard g asks of a request.
AsksSession(g) == g # "PermissionGuard" /\ ~guarded.public
AsksPermission(g) ==
  guarded.needs /\ (g = "PermissionGuard" \/ (g = "AuthPermissionGuard" /\ ~guarded.public))

Satisfied(g) ==
  /\ AsksSession(g) => TRUE \in during.valid /\ guarded.user
  /\ AsksPermission(g) => TRUE \in during.may

\* The guards behind the request had what they ask.
PassedInv ==
  UnderWay \/ guarded.stage = "handler" =>
    \A i \in 1..(Len(guarded.guards) - Len(guarded.chain)) : Satisfied(guarded.guards[i])

\* A question is put to Better Auth only by a guard that asks it, and the second
\* one after the first was answered.
QuestionInv ==
  /\ guarded.stage = "session" => AsksSession(Guard)
  /\ guarded.stage = "permission" =>
       /\ AsksPermission(Guard)
       /\ AsksSession(Guard) => TRUE \in during.valid /\ guarded.user

RefusalInv ==
  guarded.stage = "refused" =>
    \/ guarded.failed
    \/ ~guarded.token
    \/ \E i \in 1..Len(guarded.guards) :
         \/ AsksSession(guarded.guards[i]) /\ FALSE \in during.valid
         \/ AsksPermission(guarded.guards[i]) /\ FALSE \in during.may

GuardsIInv == GuardsTypeOK /\ HistoryInv /\ ChainInv /\ PassedInv /\ QuestionInv /\ RefusalInv

-----------------------------------------------------------------------------
(* Types *)

\* A request under way has a guard, the first that it has not passed.
LEMMA HeadOfChain ==
  ASSUME GuardsIInv, UnderWay
  PROVE  /\ Guard \in GuardKinds
         /\ Len(guarded.chain) \in Nat \ {0}
         /\ Len(guarded.guards) \in Nat
         /\ Tail(guarded.chain) \in Seq(GuardKinds)
         /\ Len(Tail(guarded.chain)) = Len(guarded.chain) - 1
         /\ \A i \in 1..Len(Tail(guarded.chain)) :
              Tail(guarded.chain)[i] = guarded.chain[i + 1]
         /\ Guard = guarded.guards[Len(guarded.guards) - Len(guarded.chain) + 1]
<1>1. /\ guarded.chain \in Seq(GuardKinds) /\ guarded.chain # << >>
      /\ guarded.guards \in Seq(GuardKinds)
  BY DEF GuardsIInv, GuardsTypeOK, ChainInv, UnderWay
<1>2. /\ Len(guarded.chain) \in Nat \ {0}
      /\ Len(guarded.guards) \in Nat
      /\ Guard = guarded.chain[1] /\ Guard \in GuardKinds
  BY <1>1, LenProperties, EmptySeq, ElementOfSeq DEF Guard
<1>3. guarded.chain[1] = guarded.guards[Len(guarded.guards) - Len(guarded.chain) + 1]
  <2>1. \A i \in 1..Len(guarded.chain) :
          guarded.chain[i] = guarded.guards[Len(guarded.guards) - Len(guarded.chain) + i]
    BY DEF GuardsIInv, ChainInv, UnderWay
  <2>2. 1 \in 1..Len(guarded.chain)
    BY <1>2
  <2> QED
    BY <2>1, <2>2
<1>4. /\ Tail(guarded.chain) \in Seq(GuardKinds)
      /\ Len(Tail(guarded.chain)) = Len(guarded.chain) - 1
      /\ \A i \in 1..Len(Tail(guarded.chain)) :
           Tail(guarded.chain)[i] = guarded.chain[i + 1]
  BY <1>1, <1>2, HeadTailProperties
<1> QED
  BY <1>2, <1>3, <1>4

\* A step leaves the session, the rights and the request its type.
LEMMA TypeNext == GuardsIInv /\ [GuardsNext]_guardsVars => GuardsTypeOK'
<1> SUFFICES ASSUME GuardsIInv, [GuardsNext]_guardsVars PROVE GuardsTypeOK'
  OBVIOUS
<1> USE DEF GuardsTypeOK
<1> GuardsTypeOK
  BY DEF GuardsIInv
<1>1. CASE GuardsNext
  <2>1. session' \in BOOLEAN /\ permitted' \subseteq Organizations /\ active' \in Organizations
    BY <1>1 DEF GuardsNext, Arrive, Request, Authenticate, CheckPermission, GetSession,
                HasPermission, BetterAuthFails, Elsewhere
  <2>2. during' \in [valid : SUBSET BOOLEAN, may : SUBSET BOOLEAN]
    <3>1. May' \in BOOLEAN
      BY <2>1 DEF May
    <3> QED
      BY <1>1, <2>1, <3>1 DEF GuardsNext, Observe
  <2> DEFINE Kinds == [stage : {"idle", "guard", "session", "permission", "handler", "refused"},
                  guards : Seq(GuardKinds), chain : Seq(GuardKinds),
                  public : BOOLEAN, needs : BOOLEAN, token : BOOLEAN,
                  sources : [1..3 -> Organizations \cup {NoOrganization}],
                  user : BOOLEAN, failed : BOOLEAN]
  <2>3. guarded' \in Kinds
    <3>1. CASE Arrive
      <4>1. PICK chain \in Chains, public \in BOOLEAN, needs \in BOOLEAN,
                 token \in BOOLEAN, sources \in Sources :
              Request(chain, public, needs, token, sources)
        BY <3>1 DEF Arrive
      <4>2. chain \in Seq(GuardKinds)
            /\ sources \in [1..3 -> Organizations \cup {NoOrganization}]
        BY GuardsAssumption
      <4> DEFINE placed == [guarded EXCEPT !.stage = "guard", !.guards = chain, !.chain = chain]
                 described == [placed EXCEPT !.public = public, !.needs = needs]
                 asked == [described EXCEPT !.token = token, !.sources = sources]
      <4>3. placed \in Kinds
        BY <4>2
      <4>4. described \in Kinds
        <5> HIDE DEF placed
        <5> QED
          BY <4>3
      <4>5. asked \in Kinds
        <5> HIDE DEF described
        <5> QED
          BY <4>2, <4>4
      <4>6. guarded' = asked
        BY <4>1 DEF Request
      <4> QED
        BY <4>5, <4>6
    <3>2. ASSUME UnderWay, NEW u \in BOOLEAN, Passes(u) PROVE guarded' \in Kinds
      <4>1. Tail(guarded.chain) \in Seq(GuardKinds)
        BY <3>2, HeadOfChain
      <4> QED
        BY <3>2, <4>1 DEF Passes
    <3>8. ASSUME Refuses PROVE guarded' \in Kinds
      BY <3>8 DEF Refuses
    <3>9. ASSUME NEW stage \in {"session", "permission"}, NEW u \in BOOLEAN, Awaits(stage, u)
          PROVE  guarded' \in Kinds
      BY <3>9 DEF Awaits
    <3>10. guarded.user \in BOOLEAN /\ TRUE \in BOOLEAN
      OBVIOUS
    <3>3. CASE Authenticate
      <4>1. /\ UnderWay
            /\ Refuses \/ Passes(guarded.user) \/ Awaits("session", guarded.user)
        BY <3>3 DEF Authenticate, UnderWay
      <4> QED
        BY <3>2, <3>8, <3>9, <3>10, <4>1
    <3>4. CASE CheckPermission
      <4>1. /\ UnderWay
            /\ Refuses \/ Passes(guarded.user) \/ Awaits("permission", guarded.user)
        BY <3>4 DEF CheckPermission, UnderWay
      <4> QED
        BY <3>2, <3>8, <3>9, <3>10, <4>1
    <3>5. CASE GetSession
      <4>1. /\ UnderWay
            /\ Refuses \/ Passes(TRUE) \/ Awaits("permission", TRUE)
        BY <3>5 DEF GetSession, UnderWay
      <4> QED
        BY <3>2, <3>8, <3>9, <3>10, <4>1
    <3>6. CASE HasPermission
      <4>1. UnderWay /\ (Refuses \/ Passes(guarded.user))
        BY <3>6 DEF HasPermission, UnderWay
      <4> QED
        BY <3>2, <3>8, <3>10, <4>1
    <3>7. CASE BetterAuthFails \/ Elsewhere
      <4>1. CASE BetterAuthFails
        BY <4>1 DEF BetterAuthFails
      <4>2. CASE Elsewhere
        BY <4>2 DEF Elsewhere
      <4> QED
        BY <3>7, <4>1, <4>2
    <3> QED
      BY <1>1, <3>1, <3>3, <3>4, <3>5, <3>6, <3>7 DEF GuardsNext
  <2> QED
    BY <2>1, <2>2, <2>3
<1>2. CASE UNCHANGED guardsVars
  BY <1>2 DEF guardsVars
<1> QED
  BY <1>1, <1>2

-----------------------------------------------------------------------------
(* What a step keeps *)

\* The history only grows, and knows the state a step leads to.
LEMMA HistoryNext ==
  ASSUME GuardsIInv, GuardsNext, GuardsTypeOK'
  PROVE  /\ guarded.stage # "idle" => /\ during.valid \subseteq during'.valid
                                      /\ during.may \subseteq during'.may
         /\ HistoryInv'
<1>1. during' \in [valid : SUBSET BOOLEAN, may : SUBSET BOOLEAN]
      /\ session' \in BOOLEAN /\ May' \in BOOLEAN
  BY DEF GuardsTypeOK, May
<1>2. /\ guarded.stage \in {"handler", "refused"} => during' = during
      /\ UnderWay => during' = [valid |-> during.valid \cup {session'},
                                may |-> during.may \cup {May'}]
      /\ guarded.stage = "idle" => during' = [valid |-> {session'}, may |-> {May'}]
      /\ guarded.stage \in {"idle", "guard", "session", "permission", "handler", "refused"}
  BY DEF GuardsNext, Observe, UnderWay, GuardsIInv, GuardsTypeOK
<1>3. ~(guarded.stage \in {"handler", "refused"} /\ UnderWay')
  BY DEF GuardsNext, UnderWay, Arrive, Request, Authenticate, CheckPermission, GetSession,
         HasPermission, BetterAuthFails, Elsewhere
<1>4. CASE guarded.stage \in {"handler", "refused"}
  BY <1>2, <1>3, <1>4 DEF HistoryInv
<1>5. CASE UnderWay
  <2>1. session' \in during'.valid /\ May' \in during'.may
    BY <1>2, <1>5
  <2>2. HistoryInv'
    BY <1>1, <2>1 DEF HistoryInv
  <2> QED
    BY <1>2, <1>5, <2>2
<1>6. CASE guarded.stage = "idle"
  <2>1. session' \in during'.valid /\ May' \in during'.may
    BY <1>2, <1>6
  <2> QED
    BY <1>1, <1>6, <2>1 DEF HistoryInv
<1> QED
  BY <1>2, <1>4, <1>5, <1>6 DEF UnderWay

\* Once there, a request stays the same one, and what a guard was given it keeps.
LEMMA RequestStands ==
  ASSUME GuardsIInv, GuardsNext, GuardsTypeOK', guarded.stage # "idle"
  PROVE  /\ guarded'.guards = guarded.guards /\ guarded'.public = guarded.public
         /\ guarded'.needs = guarded.needs /\ guarded'.token = guarded.token
         /\ guarded.user => guarded'.user
         /\ guarded.failed => guarded'.failed
         /\ \A g : /\ AsksSession(g)' <=> AsksSession(g)
                   /\ AsksPermission(g)' <=> AsksPermission(g)
                   /\ Satisfied(g) => Satisfied(g)'
<1> DEFINE Kept == /\ guarded'.guards = guarded.guards /\ guarded'.public = guarded.public
                   /\ guarded'.needs = guarded.needs /\ guarded'.token = guarded.token
                   /\ guarded.user => guarded'.user
                   /\ guarded.failed => guarded'.failed
<1> GuardsTypeOK
  BY DEF GuardsIInv
<1>4. Kept
  <2>1. \/ UNCHANGED guarded
        \/ Refuses
        \/ guarded' = [guarded EXCEPT !.stage = "refused", !.failed = TRUE]
        \/ \E u \in {guarded.user, TRUE} :
             Passes(u) \/ \E stage \in {"session", "permission"} : Awaits(stage, u)
    <3>1. ~Arrive
      BY DEF Arrive, Request
    <3>2. CASE Authenticate
      BY <3>2 DEF Authenticate
    <3>3. CASE CheckPermission
      BY <3>3 DEF CheckPermission
    <3>4. CASE GetSession
      BY <3>4 DEF GetSession
    <3>5. CASE HasPermission
      BY <3>5 DEF HasPermission
    <3>6. CASE BetterAuthFails \/ Elsewhere
      BY <3>6 DEF BetterAuthFails, Elsewhere
    <3> QED
      BY <3>1, <3>2, <3>3, <3>4, <3>5, <3>6 DEF GuardsNext
  <2>2. CASE UNCHANGED guarded
    BY <2>2
  <2>3. CASE Refuses \/ guarded' = [guarded EXCEPT !.stage = "refused", !.failed = TRUE]
    <3>1. /\ guarded'.guards = guarded.guards /\ guarded'.public = guarded.public
          /\ guarded'.needs = guarded.needs /\ guarded'.token = guarded.token
          /\ guarded'.user = guarded.user
          /\ guarded'.failed = guarded.failed \/ guarded'.failed = TRUE
      <4>1. CASE Refuses
        BY <4>1 DEF Refuses, GuardsTypeOK
      <4>2. CASE guarded' = [guarded EXCEPT !.stage = "refused", !.failed = TRUE]
        BY <4>2 DEF GuardsTypeOK
      <4> QED
        BY <2>3, <4>1, <4>2
    <3> QED
      BY <3>1, Zenon
  <2>4. ASSUME NEW u \in {guarded.user, TRUE},
               Passes(u) \/ \E stage \in {"session", "permission"} : Awaits(stage, u)
        PROVE  Kept
    <3>1. /\ guarded'.guards = guarded.guards /\ guarded'.public = guarded.public
          /\ guarded'.needs = guarded.needs /\ guarded'.token = guarded.token
          /\ guarded'.failed = guarded.failed
          /\ guarded'.user = u
      <4>1. CASE Passes(u)
        BY <4>1 DEF Passes, GuardsTypeOK
      <4>2. ASSUME NEW stage \in {"session", "permission"}, Awaits(stage, u)
            PROVE  /\ guarded'.guards = guarded.guards /\ guarded'.public = guarded.public
                   /\ guarded'.needs = guarded.needs /\ guarded'.token = guarded.token
                   /\ guarded'.failed = guarded.failed
                   /\ guarded'.user = u
        BY <4>2 DEF Awaits, GuardsTypeOK
      <4> QED
        BY <2>4, <4>1, <4>2
    <3>2. u = guarded.user \/ u = TRUE
      OBVIOUS
    <3> QED
      BY <3>1, <3>2, Zenon
  <2> QED
    BY <2>1, <2>2, <2>3, <2>4
<1>5. during.valid \subseteq during'.valid /\ during.may \subseteq during'.may
  BY HistoryNext
<1> QED
  BY <1>4, <1>5 DEF AsksSession, AsksPermission, Satisfied

\* A guard that had what it asks may pass the request on.
LEMMA PassNext ==
  ASSUME GuardsIInv, GuardsNext, GuardsTypeOK', UnderWay,
         NEW u \in BOOLEAN, Passes(u), NEW g, g = Guard, Satisfied(g)'
  PROVE  ChainInv' /\ PassedInv' /\ QuestionInv' /\ RefusalInv'
<1>1. /\ guarded'.chain = Tail(guarded.chain)
      /\ guarded'.stage = IF Tail(guarded.chain) = << >> THEN "handler" ELSE "guard"
  BY DEF Passes, GuardsIInv, GuardsTypeOK
<1>2. /\ guarded'.guards = guarded.guards
      /\ \A h : Satisfied(h) => Satisfied(h)'
  BY RequestStands DEF UnderWay
<1>3. /\ guarded.guards # << >>
      /\ Len(guarded.chain) <= Len(guarded.guards)
      /\ \A i \in 1..Len(guarded.chain) :
           guarded.chain[i] = guarded.guards[Len(guarded.guards) - Len(guarded.chain) + i]
      /\ \A i \in 1..(Len(guarded.guards) - Len(guarded.chain)) : Satisfied(guarded.guards[i])
  BY DEF GuardsIInv, ChainInv, PassedInv, UnderWay
<1> DEFINE done == Len(guarded.guards) - Len(guarded.chain)
<1>4. /\ Len(guarded.chain) \in Nat \ {0} /\ Len(guarded.guards) \in Nat
      /\ Len(guarded'.chain) = Len(guarded.chain) - 1
      /\ \A i \in 1..Len(guarded'.chain) : guarded'.chain[i] = guarded.chain[i + 1]
      /\ Guard = guarded.guards[done + 1]
  BY <1>1, HeadOfChain
<1>5. ChainInv'
  <2>1. ASSUME NEW i \in 1..Len(guarded'.chain)
        PROVE  guarded'.chain[i] = guarded'.guards[Len(guarded'.guards) - Len(guarded'.chain) + i]
    <3>1. ASSUME NEW before \in Nat, NEW left \in Nat, NEW k \in 1..(left - 1)
          PROVE  /\ k + 1 \in 1..left
                 /\ (before - left) + (k + 1) = before - (left - 1) + k
      OBVIOUS
    <3>2. /\ i + 1 \in 1..Len(guarded.chain)
          /\ done + (i + 1) = Len(guarded.guards) - (Len(guarded.chain) - 1) + i
      BY <1>4, <3>1
    <3>4. guarded.chain[i + 1] = guarded.guards[done + (i + 1)]
      BY <1>3, <3>2
    <3>3. guarded'.guards[Len(guarded'.guards) - Len(guarded'.chain) + i]
            = guarded.guards[done + (i + 1)]
      BY <1>2, <1>4, <3>2
    <3> QED
      BY <1>4, <3>3, <3>4
  <2>2. Len(guarded'.chain) <= Len(guarded'.guards)
    BY <1>2, <1>3, <1>4
  <2> QED
    BY <1>1, <1>2, <1>3, <2>1, <2>2 DEF ChainInv, UnderWay
<1>6. PassedInv'
  <2> SUFFICES ASSUME NEW i \in 1..(Len(guarded'.guards) - Len(guarded'.chain))
               PROVE  Satisfied(guarded.guards[i])'
    BY DEF PassedInv
  <2>1. i \in 1..(done + 1) /\ done \in Nat
    BY <1>2, <1>3, <1>4
  <2>2. CASE i = done + 1
    <3>1. guarded'.guards[i] = g
      BY <1>2, <1>4, <2>2
    <3> QED
      BY <3>1 DEF Satisfied, AsksSession, AsksPermission
  <2>3. CASE i \in 1..done
    <3>1. Satisfied(guarded.guards[i])
      BY <1>3, <2>3
    <3> QED
      BY <1>2, <3>1
  <2>4. i = done + 1 \/ i \in 1..done
    BY <2>1
  <2> QED
    BY <2>2, <2>3, <2>4
<1> QED
  BY <1>1, <1>5, <1>6 DEF QuestionInv, RefusalInv

\* A request that stays with its guard, or is refused, has passed the same guards.
LEMMA StayNext ==
  ASSUME GuardsIInv, GuardsNext, GuardsTypeOK', UnderWay,
         guarded'.chain = guarded.chain, guarded'.stage \notin {"idle", "handler"}
  PROVE  ChainInv' /\ PassedInv'
<1>1. /\ guarded'.guards = guarded.guards
      /\ \A g : Satisfied(g) => Satisfied(g)'
  BY RequestStands DEF UnderWay
<1>2. ChainInv'
  BY <1>1 DEF GuardsIInv, ChainInv, UnderWay
<1>3. PassedInv'
  <2> SUFFICES ASSUME NEW i \in 1..(Len(guarded.guards) - Len(guarded.chain))
               PROVE  Satisfied(guarded.guards[i])'
    BY <1>1 DEF PassedInv
  <2>1. Satisfied(guarded.guards[i])
    BY DEF GuardsIInv, PassedInv
  <2> QED
    BY <1>1, <2>1
<1> QED
  BY <1>2, <1>3

-----------------------------------------------------------------------------
(* The invariant is one *)

\* Before a request arrives nothing is claimed of it.
LEMMA InvInit == GuardsInit => GuardsIInv
<1> SUFFICES ASSUME GuardsInit PROVE GuardsIInv
  OBVIOUS
<1>1. << >> \in Seq(GuardKinds)
  BY EmptySeq
<1>2. GuardsTypeOK
  BY <1>1 DEF GuardsInit, GuardsTypeOK, NotYet, NoOrganization
<1>3. guarded.stage = "idle"
  BY DEF GuardsInit, NotYet
<1> QED
  BY <1>2, <1>3 DEF GuardsIInv, HistoryInv, ChainInv, PassedInv, QuestionInv, RefusalInv, UnderWay

\* What the remaining conjuncts need of a step.
Rest == ChainInv /\ PassedInv /\ QuestionInv /\ RefusalInv

\* A request arrives with the whole of its chain before it.
LEMMA ArriveNext == ASSUME GuardsIInv, Arrive, GuardsTypeOK' PROVE Rest'
<1>1. PICK chain \in Chains, public \in BOOLEAN, needs \in BOOLEAN,
           token \in BOOLEAN, sources \in Sources :
        Request(chain, public, needs, token, sources)
  BY DEF Arrive
<1>2. guarded'.stage = "guard" /\ guarded'.chain = chain /\ guarded'.guards = chain
  BY <1>1 DEF Request, GuardsIInv, GuardsTypeOK
<1>3. chain \in Seq(GuardKinds) /\ chain # << >> /\ Len(chain) \in Nat
  BY GuardsAssumption, LenProperties
<1>4. ChainInv'
  BY <1>2, <1>3 DEF ChainInv, UnderWay
<1>5. PassedInv'
  BY <1>2, <1>3 DEF PassedInv
<1> QED
  BY <1>2, <1>4, <1>5 DEF Rest, QuestionInv, RefusalInv

\* A guard of the session passes a public request on, refuses one without a token
\* and asks for the session of every other.
LEMMA AuthenticateNext ==
  ASSUME GuardsIInv, GuardsNext, Authenticate, GuardsTypeOK' PROVE Rest'
<1>1. UnderWay /\ Guard # "PermissionGuard"
  BY DEF Authenticate, UnderWay
<1>2. CASE guarded.public /\ Passes(guarded.user)
  <2>1. guarded'.public = guarded.public
    BY <1>1, RequestStands DEF UnderWay
  <2>3. ASSUME NEW g, g = Guard PROVE Satisfied(g)'
    BY <1>1, <1>2, <2>1, <2>3 DEF Satisfied, AsksSession, AsksPermission
  <2> QED
    BY <1>1, <1>2, <2>3, PassNext DEF Rest, GuardsIInv, GuardsTypeOK
<1>3. CASE ~guarded.token /\ Refuses
  <2>1. guarded'.chain = guarded.chain /\ guarded'.stage = "refused"
    BY <1>3 DEF Refuses, GuardsIInv, GuardsTypeOK
  <2>2. ~guarded'.token
    BY <1>1, <1>3, RequestStands DEF UnderWay
  <2> QED
    BY <1>1, <2>1, <2>2, StayNext DEF Rest, QuestionInv, RefusalInv
<1>4. CASE ~guarded.public /\ Awaits("session", guarded.user)
  <2>1. guarded'.chain = guarded.chain /\ guarded'.stage = "session"
    BY <1>4 DEF Awaits, GuardsIInv, GuardsTypeOK
  <2>2. ~guarded'.public
    BY <1>1, <1>4, RequestStands DEF UnderWay
  <2>3. Guard' = Guard
    BY <2>1 DEF Guard
  <2>4. QuestionInv'
    BY <1>1, <2>1, <2>2, <2>3 DEF QuestionInv, AsksSession
  <2> QED
    BY <1>1, <2>1, <2>4, StayNext DEF Rest, RefusalInv
<1> QED
  BY <1>2, <1>3, <1>4 DEF Authenticate

\* A guard of the permission alone passes on what needs none, and asks otherwise.
LEMMA CheckPermissionNext ==
  ASSUME GuardsIInv, GuardsNext, CheckPermission, GuardsTypeOK' PROVE Rest'
<1>1. UnderWay /\ Guard = "PermissionGuard"
  BY DEF CheckPermission, UnderWay
<1>2. CASE ~guarded.needs /\ Passes(guarded.user)
  <2>1. guarded'.needs = guarded.needs
    BY <1>1, RequestStands DEF UnderWay
  <2>2. ASSUME NEW g, g = Guard PROVE Satisfied(g)'
    BY <1>1, <1>2, <2>1, <2>2 DEF Satisfied, AsksSession, AsksPermission
  <2> QED
    BY <1>1, <1>2, <2>2, PassNext DEF Rest, GuardsIInv, GuardsTypeOK
<1>3. CASE ~guarded.token /\ Refuses
  <2>1. guarded'.chain = guarded.chain /\ guarded'.stage = "refused"
    BY <1>3 DEF Refuses, GuardsIInv, GuardsTypeOK
  <2>2. ~guarded'.token
    BY <1>1, <1>3, RequestStands DEF UnderWay
  <2> QED
    BY <1>1, <2>1, <2>2, StayNext DEF Rest, QuestionInv, RefusalInv
<1>4. CASE guarded.needs /\ Awaits("permission", guarded.user)
  <2>1. guarded'.chain = guarded.chain /\ guarded'.stage = "permission"
    BY <1>4 DEF Awaits, GuardsIInv, GuardsTypeOK
  <2>2. guarded'.needs
    BY <1>1, <1>4, RequestStands DEF UnderWay
  <2>3. Guard' = Guard
    BY <2>1 DEF Guard
  <2>4. QuestionInv'
    BY <1>1, <2>1, <2>2, <2>3 DEF QuestionInv, AsksSession, AsksPermission
  <2> QED
    BY <1>1, <2>1, <2>4, StayNext DEF Rest, RefusalInv
<1> QED
  BY <1>2, <1>3, <1>4 DEF CheckPermission

\* A refusal is accounted for by the guard that is told no.
LEMMA RefusedAt ==
  ASSUME GuardsIInv, GuardsNext, GuardsTypeOK', UnderWay,
         \/ AsksSession(Guard) /\ FALSE \in during.valid
         \/ AsksPermission(Guard) /\ FALSE \in during.may
  PROVE  RefusalInv'
<1>1. PICK k \in 1..Len(guarded.guards) : guarded.guards[k] = Guard
  <2>1. Len(guarded.chain) <= Len(guarded.guards)
    BY DEF GuardsIInv, ChainInv, UnderWay
  <2>2. /\ Len(guarded.chain) \in Nat \ {0} /\ Len(guarded.guards) \in Nat
        /\ Guard = guarded.guards[Len(guarded.guards) - Len(guarded.chain) + 1]
    BY HeadOfChain
  <2>3. ASSUME NEW all \in Nat, NEW left \in Nat \ {0}, left <= all
        PROVE  all - left + 1 \in 1..all
    BY <2>3
  <2>4. Len(guarded.guards) - Len(guarded.chain) + 1 \in 1..Len(guarded.guards)
    BY <2>1, <2>2, <2>3
  <2> QED
    BY <2>2, <2>4
<1>2. guarded.stage # "idle"
  BY DEF UnderWay
<1>3. /\ guarded'.guards = guarded.guards /\ guarded'.public = guarded.public
      /\ guarded'.needs = guarded.needs
  BY <1>2, RequestStands
<1>4. during.valid \subseteq during'.valid /\ during.may \subseteq during'.may
  BY <1>2, HistoryNext
<1>5. CASE AsksSession(Guard) /\ FALSE \in during.valid
  <2>1. guarded'.guards[k] # "PermissionGuard" /\ ~guarded'.public /\ FALSE \in during'.valid
    BY <1>1, <1>3, <1>4, <1>5 DEF AsksSession
  <2>2. k \in 1..Len(guarded'.guards)
    BY <1>1, <1>3
  <2> QED
    BY <2>1, <2>2 DEF RefusalInv, AsksSession
<1>6. CASE AsksPermission(Guard) /\ FALSE \in during.may
  <2>1. /\ guarded'.needs /\ FALSE \in during'.may
        /\ \/ guarded'.guards[k] = "PermissionGuard"
           \/ guarded'.guards[k] = "AuthPermissionGuard" /\ ~guarded'.public
    BY <1>1, <1>3, <1>4, <1>6 DEF AsksPermission
  <2>2. k \in 1..Len(guarded'.guards)
    BY <1>1, <1>3
  <2> QED
    BY <2>1, <2>2 DEF RefusalInv, AsksPermission
<1> QED
  BY <1>5, <1>6

\* The answer on a session: a guard that asks no more passes the request on, one
\* that needs a permission as well asks for it next.
LEMMA GetSessionNext ==
  ASSUME GuardsIInv, GuardsNext, GetSession, GuardsTypeOK' PROVE Rest'
<1>1. /\ UnderWay /\ guarded.stage = "session" /\ guarded.stage # "idle"
      /\ AsksSession(Guard) /\ Guard \in GuardKinds
  BY HeadOfChain DEF GetSession, UnderWay, GuardsIInv, QuestionInv
<1>2. CASE ~session /\ Refuses
  <2>1. guarded'.chain = guarded.chain /\ guarded'.stage = "refused"
    BY <1>2 DEF Refuses, GuardsIInv, GuardsTypeOK
  <2>2. FALSE \in during.valid
    BY <1>1, <1>2 DEF GuardsIInv, HistoryInv
  <2>3. RefusalInv'
    BY <1>1, <2>2, RefusedAt
  <2> QED
    BY <1>1, <2>1, <2>3, StayNext DEF Rest, QuestionInv
<1>3. CASE session /\ Guard = "AuthPermissionGuard" /\ guarded.needs
           /\ Awaits("permission", TRUE)
  <2>1. /\ guarded'.chain = guarded.chain /\ guarded'.stage = "permission"
        /\ guarded'.user = TRUE
    BY <1>3 DEF Awaits, GuardsIInv, GuardsTypeOK
  <2>2. Guard' = Guard
    BY <2>1 DEF Guard
  <2>3. guarded'.needs /\ ~guarded'.public
    <3>1. guarded'.public = guarded.public /\ guarded'.needs = guarded.needs
      BY <1>1, RequestStands
    <3> QED
      BY <1>1, <1>3, <3>1 DEF AsksSession
  <2>4. TRUE \in during'.valid
    <3>1. TRUE \in during.valid
      BY <1>1, <1>3 DEF GuardsIInv, HistoryInv
    <3> QED
      BY <1>1, <3>1, HistoryNext
  <2>5. QuestionInv'
    BY <1>3, <2>1, <2>2, <2>3, <2>4 DEF QuestionInv, AsksPermission
  <2> QED
    BY <1>1, <2>1, <2>5, StayNext DEF Rest, RefusalInv
<1>4. CASE session /\ ~(Guard = "AuthPermissionGuard" /\ guarded.needs) /\ Passes(TRUE)
  <2>1. guarded'.needs = guarded.needs /\ guarded'.public = guarded.public
    BY <1>1, RequestStands
  <2>2. TRUE \in during'.valid
    <3>1. TRUE \in during.valid
      BY <1>1, <1>4 DEF GuardsIInv, HistoryInv
    <3> QED
      BY <1>1, <3>1, HistoryNext
  <2>3. guarded'.user = TRUE
    BY <1>4 DEF Passes, GuardsIInv, GuardsTypeOK
  <2>4. ASSUME NEW g, g = Guard PROVE Satisfied(g)'
    BY <1>1, <1>4, <2>1, <2>2, <2>3, <2>4 DEF Satisfied, AsksSession, AsksPermission
  <2> QED
    BY <1>1, <1>4, <2>4, PassNext DEF Rest
<1> QED
  BY <1>2, <1>3, <1>4 DEF GetSession, Found

\* The answer on a permission: whoever gets past has it, whoever does not lacks it
\* or the session.
LEMMA HasPermissionNext ==
  ASSUME GuardsIInv, GuardsNext, HasPermission, GuardsTypeOK' PROVE Rest'
<1>1. /\ UnderWay /\ guarded.stage # "idle"
      /\ AsksPermission(Guard)
      /\ AsksSession(Guard) => TRUE \in during.valid /\ guarded.user
  BY DEF HasPermission, UnderWay, GuardsIInv, QuestionInv
<1>2. CASE ~May /\ Refuses
  <2>1. guarded'.chain = guarded.chain /\ guarded'.stage = "refused"
    BY <1>2 DEF Refuses, GuardsIInv, GuardsTypeOK
  <2>2. FALSE \in during.may
    BY <1>1, <1>2 DEF GuardsIInv, HistoryInv
  <2>3. RefusalInv'
    BY <1>1, <2>2, RefusedAt
  <2> QED
    BY <1>1, <2>1, <2>3, StayNext DEF Rest, QuestionInv
<1>3. CASE May /\ Passes(guarded.user)
  <2>1. TRUE \in during.may
    BY <1>1, <1>3 DEF GuardsIInv, HistoryInv
  <2>2. Satisfied(Guard)
    BY <1>1, <2>1 DEF Satisfied
  <2>3. ASSUME NEW g, g = Guard PROVE Satisfied(g)'
    BY <1>1, <2>2, <2>3, RequestStands
  <2> QED
    BY <1>1, <1>3, <2>3, PassNext DEF Rest, GuardsIInv, GuardsTypeOK
<1> QED
  BY <1>2, <1>3 DEF HasPermission, May

\* While sessions end and permissions come and go, and when Better Auth fails, the
\* request keeps what it has.
LEMMA OtherNext ==
  ASSUME GuardsIInv, GuardsNext, BetterAuthFails \/ Elsewhere, GuardsTypeOK' PROVE Rest'
<1>1. CASE BetterAuthFails
  <2>1. UnderWay
    BY <1>1 DEF BetterAuthFails, UnderWay
  <2>2. guarded' = [guarded EXCEPT !.stage = "refused", !.failed = TRUE]
    BY <1>1 DEF BetterAuthFails
  <2>3. guarded'.chain = guarded.chain /\ guarded'.stage = "refused" /\ guarded'.failed
    BY <2>2 DEF GuardsIInv, GuardsTypeOK
  <2> QED
    BY <2>1, <2>3, StayNext DEF Rest, QuestionInv, RefusalInv
<1>2. CASE Elsewhere /\ UnderWay
  <2>1. UNCHANGED guarded
    BY <1>2 DEF Elsewhere
  <2>2. ChainInv' /\ PassedInv'
    BY <1>2, <2>1, StayNext DEF UnderWay
  <2>3. QuestionInv'
    <3>1. during.valid \subseteq during'.valid
      BY <1>2, HistoryNext DEF UnderWay
    <3> QED
      BY <2>1, <3>1 DEF GuardsIInv, QuestionInv, AsksSession, AsksPermission, Guard
  <2> QED
    BY <1>2, <2>1, <2>2, <2>3 DEF Rest, RefusalInv, UnderWay
<1>3. CASE Elsewhere /\ ~UnderWay
  <2>1. UNCHANGED guarded
    BY <1>3 DEF Elsewhere
  <2>2. guarded.stage # "idle" => UNCHANGED during
    BY <1>3 DEF GuardsNext, Observe, UnderWay, GuardsIInv, GuardsTypeOK
  <2>3. CASE guarded.stage = "idle"
    BY <2>1, <2>3 DEF Rest, ChainInv, PassedInv, QuestionInv, RefusalInv, UnderWay
  <2>4. CASE guarded.stage # "idle"
    BY <2>1, <2>2, <2>4 DEF GuardsIInv, Rest, ChainInv, PassedInv, QuestionInv, RefusalInv, UnderWay,
                            Satisfied, AsksSession, AsksPermission, Guard
  <2> QED
    BY <2>3, <2>4
<1> QED
  BY <1>1, <1>2, <1>3

\* A stutter changes nothing.
LEMMA Stutter == ASSUME GuardsIInv, UNCHANGED guardsVars PROVE GuardsIInv'
<1>1. /\ session' = session /\ permitted' = permitted /\ active' = active
      /\ guarded' = guarded /\ during' = during
  BY DEF guardsVars
<1>2. May' <=> May
  BY <1>1 DEF May, Named
<1>3. HistoryInv'
  BY <1>1, <1>2 DEF GuardsIInv, HistoryInv, UnderWay
<1>4. Rest'
  BY <1>1 DEF GuardsIInv, Rest, ChainInv, PassedInv, QuestionInv, RefusalInv, UnderWay,
              Satisfied, AsksSession, AsksPermission, Guard
<1> QED
  BY <1>3, <1>4, TypeNext DEF GuardsIInv, Rest

\* The invariant is kept by every step.
LEMMA InvNext == GuardsIInv /\ [GuardsNext]_guardsVars => GuardsIInv'
<1> SUFFICES ASSUME GuardsIInv, [GuardsNext]_guardsVars PROVE GuardsIInv'
  OBVIOUS
<1>1. GuardsTypeOK'
  BY TypeNext
<1>2. CASE GuardsNext
  <2>1. Rest'
    BY <1>1, <1>2, ArriveNext, AuthenticateNext, CheckPermissionNext, GetSessionNext,
       HasPermissionNext, OtherNext DEF GuardsNext
  <2> QED
    BY <1>1, <1>2, <2>1, HistoryNext DEF GuardsIInv, Rest
<1>3. CASE UNCHANGED guardsVars
  BY <1>3, Stutter
<1> QED
  BY <1>2, <1>3

-----------------------------------------------------------------------------
(* The theorems *)

\* Every reachable state satisfies the invariant.
THEOREM GuardsInvariance == GuardsSpec => []GuardsIInv
<1>1. GuardsInit => GuardsIInv
  BY InvInit
<1>2. GuardsIInv /\ [GuardsNext]_guardsVars => GuardsIInv'
  BY InvNext
<1> QED
  BY <1>1, <1>2, PTL DEF GuardsSpec

\* What GuardsDecideRightly says of a request follows from what its guards asked.
LEMMA DecidesRightly == GuardsIInv => GuardsDecideRightly
<1> SUFFICES ASSUME GuardsIInv PROVE GuardsDecideRightly
  OBVIOUS
<1> DEFINE guards == guarded.guards
           all == ToSet(guards)
           authenticated == all # {"PermissionGuard"} /\ ~guarded.public
           checked == /\ guarded.needs
                      /\ \/ "PermissionGuard" \in all
                         \/ "AuthPermissionGuard" \in all /\ ~guarded.public
<1>1. guards \in Seq(GuardKinds) /\ Len(guards) \in Nat /\ DOMAIN guards = 1..Len(guards)
  BY LenProperties DEF GuardsIInv, GuardsTypeOK
<1>2. all = {guards[i] : i \in 1..Len(guards)}
  BY <1>1 DEF ToSet
<1>3. ASSUME guarded.stage = "handler"
      PROVE  /\ authenticated => TRUE \in during.valid /\ guarded.user
             /\ checked => TRUE \in during.may
  <2>1. guarded.chain = << >> /\ guards # << >>
    BY <1>3 DEF GuardsIInv, ChainInv
  <2>2. Len(guarded.chain) = 0
    BY <2>1
  <2>3. \A i \in 1..Len(guards) : Satisfied(guards[i])
    <3>1. \A i \in 1..(Len(guards) - Len(guarded.chain)) : Satisfied(guards[i])
      BY <1>3 DEF GuardsIInv, PassedInv
    <3>2. Len(guards) - Len(guarded.chain) = Len(guards)
      BY <1>1, <2>2
    <3> QED
      BY <3>1, <3>2
  <2>4. ASSUME authenticated PROVE TRUE \in during.valid /\ guarded.user
    <3>1. \E i \in 1..Len(guards) : guards[i] # "PermissionGuard"
      <4>1. 1 \in 1..Len(guards)
        BY <1>1, <2>1, EmptySeq
      <4> QED
        BY <1>2, <2>4, <4>1
    <3> QED
      BY <2>3, <2>4, <3>1 DEF Satisfied, AsksSession
  <2>5. ASSUME checked PROVE TRUE \in during.may
    <3>1. PICK i \in 1..Len(guards) : AsksPermission(guards[i])
      BY <1>2, <2>5 DEF AsksPermission
    <3> QED
      BY <2>3, <3>1 DEF Satisfied
  <2> QED
    BY <2>4, <2>5
<1>4. ASSUME guarded.stage = "refused", ~guarded.failed, guarded.token
      PROVE  \/ authenticated /\ FALSE \in during.valid
             \/ checked /\ FALSE \in during.may
  <2>1. PICK i \in 1..Len(guards) :
          \/ AsksSession(guards[i]) /\ FALSE \in during.valid
          \/ AsksPermission(guards[i]) /\ FALSE \in during.may
    BY <1>4 DEF GuardsIInv, RefusalInv
  <2>2. guards[i] \in all
    BY <1>2
  <2>3. AsksSession(guards[i]) => authenticated
    BY <2>2 DEF AsksSession
  <2>4. AsksPermission(guards[i]) => checked
    BY <2>2 DEF AsksPermission
  <2> QED
    BY <2>1, <2>3, <2>4
<1> QED
  BY <1>3, <1>4 DEF GuardsDecideRightly

\* The types of the request and of its history.
THEOREM GuardsTypes == GuardsSpec => []GuardsTypeOK
<1>1. GuardsIInv => GuardsTypeOK
  BY DEF GuardsIInv
<1> QED
  BY <1>1, GuardsInvariance, PTL

\* A handler runs only behind guards that were told yes while the request was under
\* way, and nobody is refused who had all along what they ask.
THEOREM GuardsAreRight == GuardsSpec => []GuardsDecideRightly
<1> QED
  BY GuardsInvariance, DecidesRightly, PTL

-----------------------------------------------------------------------------
(* The inductive invariant *)

\* What is written into the row at a time.
Columns ==
  [password : Passwords] \cup [status : {"ACTIVE", "SUSPENDED"}]
  \cup [twoFactor : BOOLEAN] \cup [resetUntil : Nat] \cup {NoColumn}
  \cup [attempts : Nat] \cup [attempts : Nat, lockout : Nat]

\* The requests that compare a password.
Judged == {"login", "validate", "change", "disableTwoFactor"}
LoginOps == Judged \cup {"none", "reset", "requestReset", "verifyTwoFactor", "refresh",
                    "setupTwoFactor", "enableTwoFactor", "edit"}
Answers == {"none", "ok", "secondFactor", "wrong", "barred", "lockedOut", "refused", "error"}

RequestRecords ==
  [op : LoginOps, given : Passwords \cup {NoWord},
   stage : {"idle", "looking", "comparing", "updating", "writing", "answered"},
   copy : UserRow \cup {NotLooked}, writes : Seq(Columns), answer : Answers,
   ever : SUBSET Passwords, stale : BOOLEAN]

\* A count of attempts and a lockout that n refused passwords account for.
Earned(columns, n) ==
  /\ "attempts" \in DOMAIN columns => columns.attempts <= n
  /\ "lockout" \in DOMAIN columns /\ columns.lockout > 0 => n >= MaxAttempts

\* What request q holds fits its stage.
StageFits(q) ==
  /\ q.stage = "comparing" => q.copy \in UserRow /\ q.op \in Judged
  /\ q.op = "reset" => q.given \in Passwords
  /\ q.stage \in {"updating", "writing"} => q.writes # NoWrites
  /\ q.stage \in {"idle", "looking"} => q.answer = "none"

\* What request q read and will write, and a login turned away, is accounted
\* for by n refused passwords.
CountFits(q, n) ==
  /\ Earned(q.copy, n)
  /\ \A k \in 1..Len(q.writes) : Earned(q.writes[k], n)
  /\ q.answer = "lockedOut" => n >= MaxAttempts

Honoured(q) ==
  q.op \in Judged /\ ~q.stale =>
    /\ q.answer \in {"ok", "secondFactor"} => q.given \in q.ever
    /\ q.answer = "wrong" => q.ever # {q.given}

\* A request under way remembers the present password, and compares with one
\* that it remembers unless its copy was stale.
MemoryFits(q, password) ==
  /\ q.stage \notin {"idle", "answered"} => password \in q.ever
  /\ q.stage = "comparing" /\ ~q.stale => q.copy.password \in q.ever
  /\ Honoured(q)

Good(q, password, n) ==
  q \in RequestRecords /\ StageFits(q) /\ CountFits(q, n) /\ MemoryFits(q, password)

TablesInv ==
  /\ row \in UserRow /\ Earned(row, refused)
  /\ chosen \in Passwords /\ row.password = chosen
  /\ \A kept \in {byEmail, byId} : kept \in UserRow \cup {NotLooked} /\ Earned(kept, refused)
  /\ now \in Nat /\ refused \in Nat

RequestsInv ==
  /\ DOMAIN request = Requests
  /\ request = [r \in Requests |-> request[r]]
  /\ \A r \in Requests : Good(request[r], row.password, refused)

LoginsIInv == TablesInv /\ RequestsInv

-----------------------------------------------------------------------------
(* Columns and copies *)

LEMMA ColumnsHold ==
  ASSUME NEW old \in UserRow, NEW columns \in Columns, NEW n \in Nat,
         Earned(old, n), Earned(columns, n)
  PROVE  /\ WithColumns(old, columns) \in UserRow
         /\ Earned(WithColumns(old, columns), n)
         /\ WithColumns(old, columns).password
              = IF "password" \in DOMAIN columns THEN columns.password ELSE old.password
<1> DEFINE new == WithColumns(old, columns)
<1>1. /\ DOMAIN old = {"password", "status", "attempts", "lockout", "resetUntil", "twoFactor"}
      /\ old.password \in Passwords /\ old.status \in {"ACTIVE", "SUSPENDED"}
      /\ old.attempts \in Nat /\ old.lockout \in Nat /\ old.resetUntil \in Nat
      /\ old.twoFactor \in BOOLEAN
  BY DEF UserRow
<1>2. /\ new = [c \in DOMAIN old |-> new[c]]
      /\ \A c \in DOMAIN old : new[c] = IF c \in DOMAIN columns THEN columns[c] ELSE old[c]
  BY DEF WithColumns
<1>3. DOMAIN columns \subseteq DOMAIN old
  BY <1>1 DEF Columns, NoColumn
<1>4. /\ "password" \in DOMAIN columns => columns["password"] \in Passwords
      /\ "status" \in DOMAIN columns => columns["status"] \in {"ACTIVE", "SUSPENDED"}
      /\ "attempts" \in DOMAIN columns => columns["attempts"] \in Nat
      /\ "lockout" \in DOMAIN columns => columns["lockout"] \in Nat
      /\ "resetUntil" \in DOMAIN columns => columns["resetUntil"] \in Nat
      /\ "twoFactor" \in DOMAIN columns => columns["twoFactor"] \in BOOLEAN
  BY DEF Columns, NoColumn
<1> HIDE DEF new
<1>5. /\ new["password"] \in Passwords /\ new["status"] \in {"ACTIVE", "SUSPENDED"}
      /\ new["attempts"] \in Nat /\ new["lockout"] \in Nat /\ new["resetUntil"] \in Nat
      /\ new["twoFactor"] \in BOOLEAN
  BY <1>1, <1>2, <1>4
<1>6. new = [password |-> new["password"], status |-> new["status"],
             attempts |-> new["attempts"], lockout |-> new["lockout"],
             resetUntil |-> new["resetUntil"], twoFactor |-> new["twoFactor"]]
  BY <1>1, <1>2
<1>7. new \in UserRow
  BY <1>5, <1>6 DEF UserRow
<1>8. Earned(new, n)
  BY <1>1, <1>2 DEF Earned
<1>9. new.password = IF "password" \in DOMAIN columns THEN columns.password ELSE old.password
  BY <1>1, <1>2
<1> QED  BY <1>7, <1>8, <1>9 DEF new

\* A loader gives out a row, of now or of earlier.
LEMMA LookHolds ==
  ASSUME TablesInv, NEW kept \in {byEmail, byId}
  PROVE  Look(kept) \in UserRow /\ Earned(Look(kept), refused)
BY DEF TablesInv, Look

-----------------------------------------------------------------------------
(* What a request becomes *)

LEMMA EarnedGrows ==
  ASSUME NEW columns \in Columns \cup UserRow \cup {NotLooked}, NEW n \in Nat, NEW m \in Nat,
         m >= n, Earned(columns, n)
  PROVE  Earned(columns, m)
<1>1. "attempts" \in DOMAIN columns => columns["attempts"] \in Nat
  BY DEF Columns, UserRow, NotLooked, NoColumn
<1> QED  BY <1>1, LoginsAssumption DEF Earned

LEMMA GoodGrows ==
  ASSUME NEW q, NEW password, NEW n \in Nat, NEW m \in Nat, m >= n, Good(q, password, n)
  PROVE  Good(q, password, m)
<1>1. q \in RequestRecords /\ CountFits(q, n)
  BY DEF Good
<1>2. Earned(q.copy, m)
  BY <1>1, EarnedGrows DEF RequestRecords, CountFits
<1>3. \A k \in 1..Len(q.writes) : Earned(q.writes[k], m)
  <2> SUFFICES ASSUME NEW k \in 1..Len(q.writes) PROVE Earned(q.writes[k], m)
    OBVIOUS
  <2>1. q.writes \in Seq(Columns)
    BY <1>1 DEF RequestRecords
  <2>2. q.writes[k] \in Columns
    BY <2>1
  <2> QED  BY <2>2, <1>1, EarnedGrows DEF CountFits
<1>4. q.answer = "lockedOut" => m >= MaxAttempts
  BY <1>1, LoginsAssumption DEF CountFits
<1> QED  BY <1>2, <1>3, <1>4 DEF Good, CountFits

\* An answer that r may be given.
Fair(r, answer) ==
  /\ answer \in Answers
  /\ answer = "lockedOut" => refused >= MaxAttempts
  /\ request[r].op \in Judged /\ ~request[r].stale =>
       /\ answer \in {"ok", "secondFactor"} => request[r].given \in request[r].ever
       /\ answer = "wrong" => request[r].ever # {request[r].given}

LEMMA AnsweredGood ==
  ASSUME LoginsIInv, NEW r \in Requests, Busy(r), NEW answer, Fair(r, answer),
         NEW n \in Nat, n >= refused
  PROVE  Good(Answered(r, answer), row.password, n)
<1>1. Good(request[r], row.password, refused)
  BY DEF LoginsIInv, RequestsInv
<1>2. /\ Answered(r, answer) \in RequestRecords
      /\ Answered(r, answer).copy = NotLooked /\ Answered(r, answer).writes = << >>
      /\ Answered(r, answer).answer = answer /\ Answered(r, answer).stage = "answered"
      /\ Answered(r, answer).op = request[r].op /\ Answered(r, answer).given = request[r].given
      /\ Answered(r, answer).ever = request[r].ever /\ Answered(r, answer).stale = request[r].stale
  <2>1. NoWrites \in Seq(Columns) /\ NoWrites = << >>
    BY DEF NoWrites
  <2> HIDE DEF NoWrites
  <2>2. request[r] \in RequestRecords /\ answer \in Answers
    BY <1>1 DEF Good, Fair
  <2> QED  BY <2>1, <2>2 DEF RequestRecords, Answered
<1>3. StageFits(Answered(r, answer))
  BY <1>1, <1>2 DEF StageFits, Good
<1>4. CountFits(Answered(r, answer), n)
  BY <1>2, LoginsAssumption DEF CountFits, Earned, NotLooked, Fair, LoginsIInv, TablesInv
<1>5. MemoryFits(Answered(r, answer), row.password)
  BY <1>2 DEF MemoryFits, Honoured, Fair
<1> QED  BY <1>2, <1>3, <1>4, <1>5 DEF Good

LEMMA ProceedGood ==
  ASSUME LoginsIInv, NEW r \in Requests, Busy(r), NEW answer, Fair(r, answer),
         NEW n \in Nat, n >= refused,
         NEW writes \in Seq(Columns), \A k \in 1..Len(writes) : Earned(writes[k], n)
  PROVE  Good(Proceed(r, writes, answer), row.password, n)
<1>1. Good(request[r], row.password, refused)
  BY DEF LoginsIInv, RequestsInv
<1>2. CASE writes = NoWrites
  BY <1>2, AnsweredGood DEF Proceed
<1>3. CASE writes # NoWrites
  <2> DEFINE q == Proceed(r, writes, answer)
  <2>1. q = [request[r] EXCEPT !.stage = "updating", !.writes = writes, !.answer = answer]
    BY <1>3 DEF Proceed
  <2>2. /\ q \in RequestRecords
        /\ q.copy = request[r].copy /\ q.writes = writes
        /\ q.answer = answer /\ q.stage = "updating"
        /\ q.op = request[r].op /\ q.given = request[r].given
        /\ q.ever = request[r].ever /\ q.stale = request[r].stale
    BY <1>1, <2>1 DEF Good, RequestRecords, Fair
  <2> HIDE DEF q
  <2>3. StageFits(q)
    BY <1>1, <1>3, <2>2 DEF StageFits, Good
  <2>4. Good(request[r], row.password, n)
    BY <1>1, GoodGrows DEF LoginsIInv, TablesInv
  <2>5. CountFits(q, n)
    BY <2>2, <2>4, LoginsAssumption DEF CountFits, Good, Fair, LoginsIInv, TablesInv
  <2>6. MemoryFits(q, row.password)
    BY <1>1, <2>2 DEF MemoryFits, Honoured, Fair, Busy, Good
  <2> QED  BY <2>2, <2>3, <2>5, <2>6 DEF Good, q
<1> QED  BY <1>2, <1>3

LEMMA OneWriteGood ==
  ASSUME LoginsIInv, NEW r \in Requests, Busy(r), NEW answer, Fair(r, answer),
         NEW n \in Nat, n >= refused, NEW columns \in Columns, Earned(columns, n)
  PROVE  Good(Proceed(r, << columns >>, answer), row.password, n)
<1> DEFINE writes == << columns >>
<1>1. writes \in Seq(Columns) /\ \A k \in 1..Len(writes) : Earned(writes[k], n)
  OBVIOUS
<1> HIDE DEF writes
<1>2. Good(Proceed(r, writes, answer), row.password, n)
  BY <1>1, ProceedGood
<1> QED  BY <1>2 DEF writes

LEMMA ComparingGood ==
  ASSUME LoginsIInv, NEW r \in Requests, Under(r, "looking"), request[r].op \in Judged,
         NEW copy \in UserRow, Earned(copy, refused)
  PROVE  Good(Comparing(r, copy), row.password, refused)
<1>1. Good(request[r], row.password, refused)
  BY DEF LoginsIInv, RequestsInv
<1> DEFINE q == Comparing(r, copy)
<1>2. /\ q \in RequestRecords
      /\ q.copy = copy /\ q.writes = request[r].writes
      /\ q.answer = request[r].answer /\ q.stage = "comparing"
      /\ q.op = request[r].op /\ q.given = request[r].given
      /\ q.ever = request[r].ever /\ q.stale = (copy.password # row.password)
  BY <1>1 DEF Good, RequestRecords, Comparing
<1> HIDE DEF q
<1>3. request[r].answer = "none"
  BY <1>1 DEF Good, StageFits, Under
<1>4. StageFits(q)
  BY <1>1, <1>2 DEF StageFits, Good
<1>5. CountFits(q, refused)
  BY <1>1, <1>2, <1>3 DEF CountFits, Good
<1>6. MemoryFits(q, row.password)
  BY <1>1, <1>2, <1>3 DEF MemoryFits, Honoured, Good, Under
<1> QED  BY <1>2, <1>4, <1>5, <1>6 DEF Good, q

\* A request that failed holds nothing.
LEMMA FailedGood ==
  ASSUME NEW password, NEW n \in Nat
  PROVE  Good(Failed, password, n)
<1>1. /\ Failed \in RequestRecords
      /\ Failed.copy = NotLooked /\ Failed.writes = << >> /\ Failed.op = "none"
      /\ Failed.answer = "error" /\ Failed.stage = "answered"
  <2>1. NoWrites \in Seq(Columns) /\ NoWrites = << >>
    BY DEF NoWrites
  <2>2. /\ NoRequest \in RequestRecords
        /\ NoRequest.copy = NotLooked /\ NoRequest.writes = NoWrites /\ NoRequest.op = "none"
    BY <2>1 DEF NoRequest, RequestRecords, LoginOps, Answers
  <2> QED  BY <2>1, <2>2 DEF Failed, RequestRecords, Answers
<1> QED
  BY <1>1 DEF Good, StageFits, CountFits, Earned, NotLooked, MemoryFits, Honoured, Judged

\* One request moves on, and the others are still right.
LEMMA SetGood ==
  ASSUME LoginsIInv, NEW r \in Requests, NEW next, Set(r, next), row' = row,
         refused' \in Nat, refused' >= refused, Good(next, row.password, refused')
  PROVE  RequestsInv'
<1>1. /\ DOMAIN request = Requests /\ request = [q \in Requests |-> request[q]]
      /\ \A q \in Requests : Good(request[q], row.password, refused)
  BY DEF LoginsIInv, RequestsInv
<1>2. /\ DOMAIN request' = Requests /\ request' = [q \in Requests |-> request'[q]]
      /\ \A q \in Requests : request'[q] = IF q = r THEN next ELSE request[q]
  BY <1>1 DEF Set
<1>3. refused \in Nat
  BY DEF LoginsIInv, TablesInv
<1>4. \A q \in Requests : Good(request'[q], row.password, refused')
  BY <1>1, <1>2, <1>3, GoodGrows
<1>5. \A q \in Requests : Good(request[q], row.password, refused)'
  <2> SUFFICES ASSUME NEW q \in Requests PROVE Good(request[q], row.password, refused)'
    OBVIOUS
  <2>1. Good(request'[q], row'.password, refused')
    BY <1>4
  <2> QED  BY <2>1 DEF Good, StageFits, CountFits, MemoryFits, Honoured, Earned, RequestRecords,
             UserRow, Columns
<1> QED  BY <1>2, <1>5 DEF RequestsInv

LEMMA TablesKept ==
  ASSUME TablesInv, row' = row, chosen' = chosen, now' \in Nat,
         refused' \in Nat, refused' >= refused,
         byEmail' \in {byEmail, Look(byEmail), NotLooked},
         byId' \in {byId, Look(byId), NotLooked}
  PROVE  TablesInv'
<1>1. \A kept \in {byEmail', byId'} : kept \in UserRow \cup {NotLooked} /\ Earned(kept, refused)
  BY LookHolds DEF TablesInv, Earned, NotLooked
<1>2. \A kept \in {byEmail', byId', row'} : Earned(kept, refused')
  BY <1>1, EarnedGrows DEF TablesInv
<1>3. /\ byEmail' \in UserRow \cup {NotLooked} /\ Earned(byEmail', refused')
      /\ byId' \in UserRow \cup {NotLooked} /\ Earned(byId', refused')
  BY <1>1, <1>2
<1>4. (row \in UserRow /\ Earned(row, refused))'
  BY <1>2 DEF Earned, UserRow, TablesInv
<1> QED  BY <1>3, <1>4 DEF TablesInv, Earned, UserRow, NotLooked

-----------------------------------------------------------------------------
(* The steps *)

LEMMA LoginsInitially ==
  ASSUME LoginsInit  PROVE  LoginsIInv
<1>1. TablesInv
  BY LoginsAssumption DEF LoginsInit, TablesInv, UserRow, Earned, NotLooked
<1>2. NoRequest \in RequestRecords
  <2>1. NoWrites \in Seq(Columns)
    BY DEF NoWrites
  <2> QED  BY <2>1 DEF NoRequest, RequestRecords, LoginOps, Answers
<1>3. Good(NoRequest, row.password, refused)
  <2>1. /\ NoRequest.copy = NotLooked /\ NoRequest.writes = << >> /\ NoRequest.op = "none"
        /\ NoRequest.answer = "none" /\ NoRequest.stage = "idle"
    BY DEF NoRequest, NoWrites
  <2> QED
    BY <1>2, <2>1 DEF Good, StageFits, CountFits, Earned, NotLooked, MemoryFits, Honoured, Judged
<1> QED  BY <1>1, <1>3 DEF LoginsInit, LoginsIInv, RequestsInv

LEMMA BeginStep ==
  ASSUME LoginsIInv, NEW r \in Requests, StartRequest(r)
  PROVE  LoginsIInv'
<1>1. PICK op \in LoginOps, given \in Passwords \cup {NoWord} :
        /\ Ask(r, op, given)
        /\ op \in {"reset"} => given \in Passwords
  BY DEF StartRequest, LoginOps, Judged
<1> DEFINE next == [NoRequest EXCEPT !.op = op, !.given = given, !.stage = "looking",
                                     !.ever = {row.password}]
<1>2. NoWrites \in Seq(Columns) /\ NoWrites = << >>
  BY DEF NoWrites
<1>3. row.password \in Passwords
  BY DEF LoginsIInv, TablesInv, UserRow
<1>4. /\ next \in RequestRecords
      /\ next.copy = NotLooked /\ next.writes = << >> /\ next.op = op /\ next.given = given
      /\ next.answer = "none" /\ next.stage = "looking" /\ next.ever = {row.password}
  BY <1>1, <1>2, <1>3 DEF NoRequest, RequestRecords, Answers
<1> HIDE DEF next
<1>5. Good(next, row.password, refused)
  BY <1>1, <1>4 DEF Good, StageFits, CountFits, Earned, NotLooked, MemoryFits, Honoured
<1>6. Set(r, next) /\ UNCHANGED <<row, process, now, refused, chosen>>
  BY <1>1 DEF Ask, next
<1>7. refused' \in Nat /\ refused' >= refused
  BY <1>6 DEF LoginsIInv, TablesInv
<1>8. Good(next, row.password, refused')
  BY <1>5, <1>6
<1>9. RequestsInv'
  BY <1>6, <1>7, <1>8, SetGood
<1>10. TablesInv'
  BY <1>6, <1>7, TablesKept DEF LoginsIInv, TablesInv, process
<1> QED  BY <1>9, <1>10 DEF LoginsIInv

\* A request under way moves on as it is allowed to, and the copies of the
\* loaders are kept or looked up.
LEMMA StepHolds ==
  ASSUME LoginsIInv, NEW r \in Requests, NEW next, Set(r, next), Good(next, row.password, refused'),
         refused' \in {refused, refused + 1}, UNCHANGED <<row, now, chosen>>,
         byEmail' \in {byEmail, Look(byEmail), NotLooked},
         byId' \in {byId, Look(byId), NotLooked}
  PROVE  LoginsIInv'
<1>1. refused \in Nat /\ now \in Nat
  BY DEF LoginsIInv, TablesInv
<1>2. refused' \in Nat /\ refused' >= refused
  BY <1>1
<1>3. RequestsInv'
  BY <1>2, SetGood
<1>4. TablesInv'
  BY <1>1, <1>2, TablesKept DEF LoginsIInv
<1> QED  BY <1>3, <1>4 DEF LoginsIInv

LEMMA LoginStep ==
  ASSUME LoginsIInv, NEW r \in Requests, Login(r)
  PROVE  LoginsIInv'
<1> DEFINE copy == Look(byEmail)
           next == CASE Barred(copy) -> Answered(r, "barred")
                     [] ~Barred(copy) /\ LockedOut(copy) -> Answered(r, "lockedOut")
                     [] OTHER -> Comparing(r, copy)
<1>1. /\ request[r].op = "login" /\ Under(r, "looking") /\ byEmail' = Look(byEmail)
      /\ UNCHANGED <<row, byId, now, refused, chosen>> /\ Set(r, next)
  BY DEF Login, FindByEmail
<1>2. copy \in UserRow /\ Earned(copy, refused)
  BY LookHolds DEF LoginsIInv
<1>3. Busy(r) /\ request[r].op \in Judged /\ refused \in Nat
  BY <1>1 DEF Busy, Under, Judged, LoginsIInv, TablesInv
<1>4. LockedOut(copy) => refused >= MaxAttempts
  BY <1>2 DEF LockedOut, Earned, UserRow, LoginsIInv, TablesInv
<1>5. CASE next = Answered(r, "barred")
  <2>1. Fair(r, "barred")
    BY DEF Fair, Answers
  <2> QED  BY <1>1, <1>3, <1>5, <2>1, AnsweredGood, StepHolds
<1>6. CASE LockedOut(copy) /\ next = Answered(r, "lockedOut")
  <2>1. Fair(r, "lockedOut")
    BY <1>4, <1>6 DEF Fair, Answers
  <2> QED  BY <1>1, <1>3, <1>6, <2>1, AnsweredGood, StepHolds
<1>7. CASE next = Comparing(r, copy)
  BY <1>1, <1>2, <1>3, <1>7, ComparingGood, StepHolds
<1> QED  BY <1>5, <1>6, <1>7

\* What may be answered whatever was compared.
LEMMA FairAnswers ==
  ASSUME NEW r, NEW answer \in {"refused", "barred"}
  PROVE  Fair(r, answer)
BY DEF Fair, Answers

LEMMA LookingStep ==
  ASSUME LoginsIInv, NEW r \in Requests,
         \/ ValidateUser(r) \/ RequestPasswordReset(r) \/ ChangePassword(r)
         \/ VerifyTwoFactor(r) \/ RefreshToken(r) \/ SetupTwoFactor(r)
         \/ EnableTwoFactor(r) \/ DisableTwoFactor(r)
  PROVE  LoginsIInv'
<1>1. /\ Under(r, "looking") /\ Busy(r)
      /\ UNCHANGED <<row, now, refused, chosen>>
      /\ byEmail' \in {byEmail, Look(byEmail)} /\ byId' \in {byId, Look(byId)}
  BY DEF ValidateUser, RequestPasswordReset, ChangePassword, VerifyTwoFactor, RefreshToken,
         SetupTwoFactor, EnableTwoFactor, DisableTwoFactor, FindByEmail, FindById, Busy, Under
<1>2. \A kept \in {byEmail, byId} : Look(kept) \in UserRow /\ Earned(Look(kept), refused)
  BY LookHolds DEF LoginsIInv
<1>3. refused \in Nat /\ refused' = refused /\ now \in Nat
  BY <1>1 DEF LoginsIInv, TablesInv
<1>4. \A next : Set(r, next) /\ Good(next, row.password, refused) => LoginsIInv'
  BY <1>1, <1>3, StepHolds
\* Comparing, answering and writing one change go on rightly.
<1>5. ASSUME NEW copy \in {Look(byEmail), Look(byId)}, request[r].op \in Judged,
             Set(r, Comparing(r, copy))
      PROVE  LoginsIInv'
  BY <1>1, <1>2, <1>4, <1>5, ComparingGood
<1>6. ASSUME NEW answer, Fair(r, answer), Set(r, Answered(r, answer))
      PROVE  LoginsIInv'
  BY <1>1, <1>3, <1>4, <1>6, AnsweredGood
<1>7. ASSUME NEW columns \in Columns, Earned(columns, refused), Fair(r, "ok"),
             Set(r, Proceed(r, << columns >>, "ok"))
      PROVE  LoginsIInv'
  <2>1. Good(Proceed(r, << columns >>, "ok"), row.password, refused)
    BY <1>1, <1>3, <1>7, OneWriteGood
  <2> QED  BY <1>4, <1>7, <2>1
<1>8. CASE ValidateUser(r)
  BY <1>5, <1>8 DEF ValidateUser, Judged
<1>9. CASE ChangePassword(r)
  BY <1>5, <1>9 DEF ChangePassword, Judged
<1>10. CASE RequestPasswordReset(r)
  <2>1. [resetUntil |-> ResetAt] \in Columns /\ Earned([resetUntil |-> ResetAt], refused)
    BY <1>3 DEF Columns, Earned, ResetAt
  <2>2. Fair(r, "ok")
    BY <1>10 DEF RequestPasswordReset, Fair, Judged, Answers
  <2> QED  BY <1>7, <1>10, <2>1, <2>2 DEF RequestPasswordReset
<1>11. CASE VerifyTwoFactor(r) \/ EnableTwoFactor(r)
  BY <1>6, <1>11, FairAnswers DEF VerifyTwoFactor, EnableTwoFactor
<1>12. CASE RefreshToken(r)
  <2>1. Fair(r, "ok")
    BY <1>12 DEF RefreshToken, Fair, Judged, Answers
  <2> QED  BY <1>6, <1>12, <2>1 DEF RefreshToken
<1>13. CASE SetupTwoFactor(r)
  <2>1. NoColumn \in Columns /\ Earned(NoColumn, refused)
    BY DEF Columns, Earned, NoColumn
  <2>2. Fair(r, "ok")
    BY <1>13 DEF SetupTwoFactor, Fair, Judged, Answers
  <2>3. CASE Look(byId).twoFactor
    BY <1>6, <1>13, <2>3, FairAnswers DEF SetupTwoFactor
  <2>4. CASE ~Look(byId).twoFactor
    BY <1>7, <1>13, <2>1, <2>2, <2>4 DEF SetupTwoFactor
  <2> QED  BY <2>3, <2>4
<1>14. CASE DisableTwoFactor(r)
  <2>1. CASE Look(byId).twoFactor
    BY <1>5, <1>14, <2>1 DEF DisableTwoFactor, Judged
  <2>2. CASE ~Look(byId).twoFactor
    BY <1>6, <1>14, <2>2, FairAnswers DEF DisableTwoFactor
  <2> QED  BY <2>1, <2>2
<1> QED  BY <1>8, <1>9, <1>10, <1>11, <1>12, <1>13, <1>14

\* A request that goes straight to the table.
LEMMA TableStep ==
  ASSUME LoginsIInv, NEW r \in Requests, ResetPassword(r) \/ Edit(r)
  PROVE  LoginsIInv'
<1>1. /\ Under(r, "looking") /\ Busy(r) /\ request[r].op \notin Judged
      /\ UNCHANGED <<row, byEmail, byId, now, refused, chosen>>
  BY DEF ResetPassword, Edit, Busy, Under, Judged, process
<1>2. Good(request[r], row.password, refused) /\ refused \in Nat
  BY DEF LoginsIInv, RequestsInv, TablesInv
<1>3. Fair(r, "ok")
  BY <1>1 DEF Fair, Answers
<1>4. ASSUME NEW columns \in Columns, Earned(columns, refused),
             Set(r, Proceed(r, << columns >>, "ok"))
      PROVE  LoginsIInv'
  <2>1. Good(Proceed(r, << columns >>, "ok"), row.password, refused)
    BY <1>1, <1>2, <1>3, <1>4, OneWriteGood
  <2> QED  BY <1>1, <1>4, <2>1, StepHolds
<1>5. CASE ResetPassword(r)
  <2>1. CASE row.resetUntil > now
    <3>1. request[r].given \in Passwords
      BY <1>2, <1>5 DEF ResetPassword, Good, StageFits
    <3>2. /\ [password |-> request[r].given] \in Columns
          /\ Earned([password |-> request[r].given], refused)
      BY <3>1 DEF Columns, Earned
    <3> QED  BY <1>4, <1>5, <2>1, <3>2 DEF ResetPassword
  <2>2. CASE ~(row.resetUntil > now)
    <3>1. Good(Answered(r, "refused"), row.password, refused)
      BY <1>1, <1>2, FairAnswers, AnsweredGood
    <3> QED  BY <1>1, <1>5, <2>2, <3>1, StepHolds DEF ResetPassword
  <2> QED  BY <2>1, <2>2
<1>6. CASE Edit(r)
  <2>1. ASSUME NEW status \in {"ACTIVE", "SUSPENDED"}
        PROVE  [status |-> status] \in Columns /\ Earned([status |-> status], refused)
    BY DEF Columns, Earned
  <2>2. [twoFactor |-> TRUE] \in Columns /\ Earned([twoFactor |-> TRUE], refused)
    BY DEF Columns, Earned
  <2> QED  BY <1>4, <1>6, <2>1, <2>2 DEF Edit
<1> QED  BY <1>5, <1>6

LEMMA CompareStep ==
  ASSUME LoginsIInv, NEW r \in Requests, Compare(r)
  PROVE  LoginsIInv'
<1> DEFINE copy == request[r].copy
           op == request[r].op
<1>1. /\ Under(r, "comparing") /\ Busy(r)
      /\ UNCHANGED <<row, byEmail, byId, now, chosen>>
  BY DEF Compare, Busy, Under, process
<1>2. Good(request[r], row.password, refused) /\ refused \in Nat /\ now \in Nat
  BY DEF LoginsIInv, RequestsInv, TablesInv
<1>3. /\ copy \in UserRow /\ Earned(copy, refused) /\ op \in Judged
      /\ ~request[r].stale => copy.password \in request[r].ever
      /\ copy.attempts \in Nat /\ copy.attempts <= refused
  BY <1>1, <1>2 DEF Good, StageFits, CountFits, MemoryFits, Under, UserRow, Earned
<1>4. CASE Matches(request[r].given, copy)
  <2>1. Fair(r, "ok") /\ Fair(r, "secondFactor")
    BY <1>3, <1>4 DEF Fair, Matches, Answers
  <2>2. refused' = refused
    BY <1>4 DEF Compare
  <2>3. \A next : Set(r, next) /\ Good(next, row.password, refused) => LoginsIInv'
    BY <1>1, <2>2, StepHolds
  <2>4. CASE op = "login"
    <3> DEFINE answer == IF copy.twoFactor THEN "secondFactor" ELSE "ok"
    <3>1. /\ AfterLogin(copy) \in Seq(Columns)
          /\ \A k \in 1..Len(AfterLogin(copy)) : Earned(AfterLogin(copy)[k], refused)
      <4> DEFINE first == IF copy.attempts > 0 THEN << [attempts |-> 0] >> ELSE NoWrites
                 second == IF copy.twoFactor THEN NoWrites ELSE << NoColumn >>
      <4>1. [attempts |-> 0] \in Columns /\ Earned([attempts |-> 0], refused)
        BY <1>2 DEF Columns, Earned
      <4>2. NoColumn \in Columns /\ Earned(NoColumn, refused)
        BY DEF Columns, Earned, NoColumn
      <4>3. /\ first \in Seq(Columns) /\ second \in Seq(Columns)
            /\ \A k \in 1..Len(first) : Earned(first[k], refused)
            /\ \A k \in 1..Len(second) : Earned(second[k], refused)
        BY <4>1, <4>2 DEF NoWrites
      <4> HIDE DEF first, second
      <4>4. /\ first \o second \in Seq(Columns)
            /\ \A k \in 1..Len(first \o second) : Earned((first \o second)[k], refused)
        BY <4>3
      <4> QED  BY <4>4 DEF AfterLogin, first, second
    <3>2. Set(r, Proceed(r, AfterLogin(copy), answer))
      BY <1>4, <2>4 DEF Compare
    <3>3. Fair(r, answer)
      BY <2>1
    <3> HIDE DEF answer
    <3>4. Good(Proceed(r, AfterLogin(copy), answer), row.password, refused)
      BY <1>1, <1>2, <3>1, <3>3, ProceedGood
    <3> QED  BY <2>3, <3>2, <3>4
  <2>5. CASE op = "validate"
    <3>1. \E answer \in {"barred", "ok"} : Set(r, Answered(r, answer))
      BY <1>4, <2>5 DEF Compare
    <3>2. Fair(r, "barred")
      BY FairAnswers
    <3> QED  BY <1>1, <1>2, <2>1, <2>3, <3>1, <3>2, AnsweredGood
  <2>6. CASE op = "disableTwoFactor"
    <3>1. Set(r, Proceed(r, << [twoFactor |-> FALSE] >>, "ok"))
      BY <1>4, <2>6 DEF Compare
    <3> DEFINE columns == [twoFactor |-> FALSE]
    <3>2. columns \in Columns /\ Earned(columns, refused)
      BY DEF Columns, Earned
    <3>3. Set(r, Proceed(r, << columns >>, "ok"))
      BY <3>1
    <3> HIDE DEF columns
    <3>4. Good(Proceed(r, << columns >>, "ok"), row.password, refused)
      BY <1>1, <1>2, <2>1, <3>2, OneWriteGood
    <3> QED  BY <2>3, <3>3, <3>4
  <2>7. CASE op = "change"
    <3>1. PICK new \in Passwords : Set(r, Proceed(r, << [password |-> new] >>, "ok"))
      BY <1>4, <2>7 DEF Compare
    <3> DEFINE columns == [password |-> new]
    <3>2. columns \in Columns /\ Earned(columns, refused)
      BY DEF Columns, Earned
    <3>3. Set(r, Proceed(r, << columns >>, "ok"))
      BY <3>1
    <3> HIDE DEF columns
    <3>4. Good(Proceed(r, << columns >>, "ok"), row.password, refused)
      BY <1>1, <1>2, <2>1, <3>2, OneWriteGood
    <3> QED  BY <2>3, <3>3, <3>4
  <2> QED  BY <1>3, <2>4, <2>5, <2>6, <2>7 DEF Judged
<1>5. CASE ~Matches(request[r].given, copy)
  <2>1. Fair(r, "wrong")
    BY <1>3, <1>5 DEF Fair, Matches, Answers
  <2>2. refused' = refused + 1
    BY <1>5 DEF Compare
  <2>3. \A next : Set(r, next) /\ Good(next, row.password, refused') => LoginsIInv'
    BY <1>1, <2>2, StepHolds
  <2>4. CASE op = "login"
    <3> DEFINE columns == HandleFailedLogin(copy)
    <3>1. columns \in Columns
      BY <1>2, <1>3 DEF HandleFailedLogin, Columns
    <3>2. Earned(columns, refused')
      BY <1>2, <1>3, <2>2, LoginsAssumption DEF HandleFailedLogin, Earned, Reaches
    <3>3. Set(r, Proceed(r, << columns >>, "wrong"))
      BY <1>5, <2>4 DEF Compare
    <3> HIDE DEF columns
    <3>4. Good(Proceed(r, << columns >>, "wrong"), row.password, refused')
      BY <1>1, <1>2, <2>1, <2>2, <3>1, <3>2, OneWriteGood
    <3> QED  BY <2>3, <3>3, <3>4
  <2>5. CASE op # "login"
    <3>1. Set(r, Answered(r, "wrong"))
      BY <1>5, <2>5 DEF Compare
    <3> QED  BY <1>1, <1>2, <2>1, <2>2, <2>3, <3>1, AnsweredGood
  <2> QED  BY <2>4, <2>5
<1> QED  BY <1>4, <1>5

LEMMA FindExistingStep ==
  ASSUME LoginsIInv, NEW r \in Requests, FindExisting(r)
  PROVE  LoginsIInv'
<1> DEFINE next == [request[r] EXCEPT !.stage = "writing"]
<1>1. Good(request[r], row.password, refused)
  BY DEF LoginsIInv, RequestsInv
<1>2. Good(next, row.password, refused)
  <2>1. next \in RequestRecords
    BY <1>1 DEF Good, RequestRecords
  <2>2. /\ next.stage = "writing" /\ request[r].stage = "updating"
        /\ next.op = request[r].op /\ next.given = request[r].given
        /\ next.copy = request[r].copy /\ next.writes = request[r].writes
        /\ next.answer = request[r].answer /\ next.ever = request[r].ever
        /\ next.stale = request[r].stale
    BY <1>1 DEF Good, RequestRecords, FindExisting, Under
  <2> HIDE DEF next
  <2> QED  BY <1>1, <2>1, <2>2 DEF Good, StageFits, CountFits, MemoryFits, Honoured
<1> QED  BY <1>2, StepHolds DEF FindExisting

LEMMA FailsStep ==
  ASSUME LoginsIInv, NEW r \in Requests, Fails(r)
  PROVE  LoginsIInv'
<1>1. refused \in Nat /\ UNCHANGED <<row, byEmail, byId, now, refused, chosen>>
  BY DEF Fails, LoginsIInv, TablesInv, process
<1>2. Good(Failed, row.password, refused)
  BY <1>1, FailedGood
<1> QED  BY <1>1, <1>2, StepHolds DEF Fails

\* A statement reaches the row: everybody under way sees the password of now.
LEMMA WriteStep ==
  ASSUME LoginsIInv, NEW r \in Requests, Write(r)
  PROVE  LoginsIInv'
<1> DEFINE writes == request[r].writes
           columns == Head(writes)
           rest == Tail(writes)
           moved == Proceed(r, rest, request[r].answer)
           next(q) == IF q = r THEN moved ELSE request[q]
           forgets(q) == \/ next(q).stage = "idle"
                         \/ next(q).stage = "answered" /\ q # r
           held(q) == [next(q) EXCEPT !.ever = IF forgets(q) THEN @
                                               ELSE @ \cup {row'.password}]
<1>1. /\ Good(request[r], row.password, refused)
      /\ refused \in Nat /\ row \in UserRow /\ Earned(row, refused)
      /\ chosen \in Passwords /\ row.password = chosen
  BY DEF LoginsIInv, RequestsInv, TablesInv
<1>2. /\ row' = Updated(columns)
      /\ chosen' = IF "password" \in DOMAIN columns THEN columns.password ELSE chosen
      /\ UNCHANGED <<byEmail, byId, now, refused>>
  BY DEF Write, process
<1>3. Busy(r) /\ writes # << >>
  <2>1. request[r].stage \in {"updating", "writing"}
    BY DEF Write, Under
  <2> QED  BY <1>1, <2>1 DEF Busy, Good, StageFits, NoWrites
<1>4. /\ writes \in Seq(Columns) /\ \A k \in 1..Len(writes) : Earned(writes[k], refused)
  BY <1>1 DEF Good, RequestRecords, CountFits
<1>5. /\ columns \in Columns /\ Earned(columns, refused)
      /\ rest \in Seq(Columns) /\ \A k \in 1..Len(rest) : Earned(rest[k], refused)
  <2>1. Len(writes) \in Nat \ {0} /\ columns = writes[1]
    BY <1>3, <1>4
  <2>2. /\ rest \in Seq(Columns) /\ Len(rest) = Len(writes) - 1
        /\ \A k \in 1..Len(rest) : rest[k] = writes[k + 1]
    BY <1>3, <1>4
  <2> QED  BY <1>4, <2>1, <2>2
<1>6. /\ row' \in UserRow /\ Earned(row', refused)
      /\ row'.password = chosen' /\ chosen' \in Passwords
  <2> HIDE DEF columns
  <2>1. /\ row' \in UserRow /\ Earned(row', refused)
        /\ row'.password = IF "password" \in DOMAIN columns THEN columns.password
                           ELSE row.password
    BY <1>1, <1>2, <1>5, ColumnsHold DEF Updated
  <2> QED  BY <1>1, <1>2, <2>1 DEF UserRow
<1>7. TablesInv'
  BY <1>2, <1>6 DEF TablesInv, LoginsIInv, Earned, UserRow, NotLooked
<1>8. Good(moved, row.password, refused)
  <2>1. Fair(r, request[r].answer)
    BY <1>1 DEF Fair, Good, RequestRecords, CountFits, MemoryFits, Honoured
  <2>2. refused >= refused
    BY <1>1
  <2>3. \A list \in Seq(Columns) : (\A k \in 1..Len(list) : Earned(list[k], refused))
          => Good(Proceed(r, list, request[r].answer), row.password, refused)
    BY <1>1, <1>3, <2>1, <2>2, ProceedGood
  <2> QED  BY <1>5, <2>3
<1>9. \A q \in Requests : Good(next(q), row.password, refused)
  BY <1>8 DEF LoginsIInv, RequestsInv
\* Whom the password of now is told has remembered an earlier one already.
<1>10. \A q \in Requests : ~forgets(q) => row.password \in next(q).ever
  <2> SUFFICES ASSUME NEW q \in Requests, ~forgets(q) PROVE row.password \in next(q).ever
    OBVIOUS
  <2>1. CASE q = r
    <3>1. request[r] \in RequestRecords /\ row.password \in request[r].ever
      BY <1>1, <1>3 DEF Good, MemoryFits, Busy
    <3>2. moved.ever = request[r].ever
      BY <3>1 DEF Proceed, Answered, RequestRecords
    <3> QED  BY <2>1, <3>1, <3>2
  <2>2. CASE q # r
    BY <1>9, <2>2 DEF Good, MemoryFits
  <2> QED  BY <2>1, <2>2
<1>11. \A q \in Requests : Good(held(q), row'.password, refused)
  <2> SUFFICES ASSUME NEW q \in Requests PROVE Good(held(q), row'.password, refused)
    OBVIOUS
  <2> DEFINE old == next(q)
             new == held(q)
  <2>1. Good(old, row.password, refused) /\ old \in RequestRecords
    BY <1>9 DEF Good
  <2>2. ~forgets(q) => row.password \in old.ever
    BY <1>10
  <2>3. row'.password \in Passwords
    BY <1>6
  <2>4. forgets(q) => old.stage \in {"idle", "answered"}
    OBVIOUS
  <2> HIDE DEF next
  <2>5. /\ new \in RequestRecords
        /\ new.op = old.op /\ new.given = old.given /\ new.stage = old.stage
        /\ new.copy = old.copy /\ new.writes = old.writes
        /\ new.answer = old.answer /\ new.stale = old.stale
        /\ new.ever = IF forgets(q) THEN old.ever ELSE old.ever \cup {row'.password}
    BY <2>1, <2>3 DEF RequestRecords
  <2> HIDE DEF forgets, new, old
  <2>6. StageFits(new) /\ CountFits(new, refused)
    BY <2>1, <2>5 DEF Good, StageFits, CountFits
  <2>7. MemoryFits(new, row'.password)
    BY <2>1, <2>2, <2>4, <2>5 DEF Good, MemoryFits, Honoured
  <2>8. Good(new, row'.password, refused)
    BY <2>5, <2>6, <2>7 DEF Good
  <2> QED  BY <2>8 DEF new
<1>12. request' = [q \in Requests |-> held(q)]
  BY DEF Write
<1>13. RequestsInv'
  <2> HIDE DEF held
  <2>1. /\ DOMAIN request' = Requests /\ request' = [q \in Requests |-> request'[q]]
        /\ \A q \in Requests : request'[q] = held(q)
    BY <1>12
  <2>2. \A q \in Requests : Good(request'[q], row'.password, refused')
    BY <1>2, <1>11, <2>1
  <2>3. \A q \in Requests : Good(request[q], row.password, refused)'
    BY <2>2 DEF Good, StageFits, CountFits, MemoryFits, Honoured, Earned, RequestRecords, UserRow,
                Columns
  <2> QED  BY <2>1, <2>3 DEF RequestsInv
<1> QED  BY <1>7, <1>13 DEF LoginsIInv

LEMMA RestartStep ==
  ASSUME LoginsIInv, Restart
  PROVE  LoginsIInv'
<1>1. /\ UNCHANGED <<row, now, refused, chosen>>
      /\ byEmail' = NotLooked /\ byId' = NotLooked
      /\ refused \in Nat /\ now \in Nat
  BY DEF Restart, LoginsIInv, TablesInv
<1>2. TablesInv'
  BY <1>1, TablesKept DEF LoginsIInv
<1>3. /\ DOMAIN request' = Requests /\ request' = [r \in Requests |-> request'[r]]
      /\ \A r \in Requests : request'[r] = IF Busy(r) THEN Failed ELSE request[r]
  BY DEF Restart
<1>4. \A r \in Requests : Good(request'[r], row'.password, refused')
  BY <1>1, <1>3, FailedGood DEF LoginsIInv, RequestsInv
<1>5. \A r \in Requests : Good(request[r], row.password, refused)'
  BY <1>4 DEF Good, StageFits, CountFits, MemoryFits, Honoured, Earned, RequestRecords, UserRow,
              Columns
<1> QED  BY <1>2, <1>3, <1>5 DEF LoginsIInv, RequestsInv

LEMMA Unchanged ==
  ASSUME LoginsIInv, UNCHANGED <<row, byEmail, byId, request, refused, chosen>>, now' \in Nat
  PROVE  LoginsIInv'
<1>1. TablesInv'
  BY TablesKept DEF LoginsIInv, TablesInv
<1>2. RequestsInv'
  BY DEF LoginsIInv, RequestsInv, Good, StageFits, CountFits, MemoryFits, Honoured, Earned,
         RequestRecords, UserRow, Columns
<1> QED  BY <1>1, <1>2 DEF LoginsIInv

LEMMA LoginsSteps ==
  ASSUME LoginsIInv, [LoginsNext]_loginsVars
  PROVE  LoginsIInv'
<1>1. ASSUME NEW r \in Requests, Handle(r)
      PROVE  LoginsIInv'
  BY <1>1, LoginStep, LookingStep, TableStep, CompareStep, FindExistingStep, WriteStep DEF Handle
<1>2. CASE TimePasses
  <2>1. now' \in Nat
    BY <1>2 DEF TimePasses, LoginsIInv, TablesInv
  <2> QED  BY <1>2, <2>1, Unchanged DEF TimePasses, process
<1>3. CASE UNCHANGED loginsVars
  <2>1. now' \in Nat
    BY <1>3 DEF loginsVars, LoginsIInv, TablesInv
  <2> QED  BY <1>3, <2>1, Unchanged DEF loginsVars, process
<1> QED  BY <1>1, <1>2, <1>3, BeginStep, FailsStep, RestartStep DEF LoginsNext

-----------------------------------------------------------------------------
(* The theorems *)

LEMMA LoginsInvariant == LoginsSpec => []LoginsIInv
BY LoginsInitially, LoginsSteps, PTL DEF LoginsSpec

\* The row, the copies of the loaders and what requests wait for keep their
\* types.
THEOREM LoginsTypes == LoginsSpec => []LoginsTypeOK
<1>1. LoginsIInv => LoginsTypeOK
  BY DEF LoginsIInv, TablesInv, RequestsInv, LoginsTypeOK, Good, StageFits, Under
<1> QED  BY <1>1, LoginsInvariant, PTL

\* A verdict agrees with a password the row had during the request, unless the
\* copy was stale; and nothing but a change or a reset touches the password:
\* login, changePassword, resetPassword and update of UsersService side by side.
THEOREM VerdictsAreHonoured == LoginsSpec => []PasswordsHonoured
<1>1. LoginsIInv => PasswordsHonoured
  BY DEF LoginsIInv, TablesInv, RequestsInv, PasswordsHonoured, Good, MemoryFits, Honoured, Judged
<1> QED  BY <1>1, LoginsInvariant, PTL

\* handleFailedLogin locks the account, and login turns somebody away, only
\* after MaxAttempts refused passwords, whatever copies the counts come from.
THEOREM LockoutsAreEarned == LoginsSpec => []LockoutIsEarned
<1>1. LoginsIInv => LockoutIsEarned
  <2> SUFFICES ASSUME LoginsIInv PROVE LockoutIsEarned
    OBVIOUS
  <2>1. row.lockout > 0 => refused >= MaxAttempts
    BY DEF LoginsIInv, TablesInv, Earned, UserRow
  <2> QED  BY <2>1 DEF LoginsIInv, RequestsInv, Good, CountFits, LockoutIsEarned
<1> QED  BY <1>1, LoginsInvariant, PTL

-----------------------------------------------------------------------------
(* The registry and the gateway (PluginGateway) *)

\* What register, update and healthCheck are about to write is a whole row.
RowsInv ==
  \A c \in Calls :
    /\ At(c, "checking") => call[c].row \in Row
    /\ At(c, "writing") /\ call[c].op # "unregister" => call[c].row \in Row

\* A load is under way exactly while somebody waits for it, and only while the
\* gateway is up.
LoadsInv ==
  \A c \in Calls :
    /\ Unloaded(c) <=> ~At(c, "notifying")
    /\ ~Unloaded(c) => boot = "up"

ReadsInv ==
  /\ \A i, j \in DOMAIN reads : reads[i] = reads[j] => i = j
  /\ \A c \in Calls :
       load[c].pc = "answered" <=> \E i \in DOMAIN reads : reads[i] = c

\* Who will yet read the registry.
ToRead(c) == At(c, "written") \/ load[c].pc = "querying"

\* A list that is behind the registry, without any trouble to blame, is going to
\* be replaced: somebody has still to read, or has read and not yet assigned.
ListInv ==
  boot # "down" /\ troubles = {} /\ ~InStep =>
    \E d \in Calls : ToRead(d) \/ load[d].pc = "answered"

\* An answer that is behind is going to be replaced likewise, by one read later.
AnswerInv ==
  \A c \in Calls :
    load[c].pc = "answered" /\ since[c] = {}
      /\ WithCore(load[c].list) # WithCore(GatewaySubgraphs)
    => \E d \in Calls : ToRead(d) \/ Before(d, c)

GatewayInv == TypeOK /\ RowsInv /\ LoadsInv /\ ReadsInv /\ ListInv /\ AnswerInv


-----------------------------------------------------------------------------
(* The registry alone *)

Handling == [pc : {"checking", "writing"}, op : Ops, plugin : Plugins,
             row : Row \cup {Absent}]

LEMMA CallFacts ==
  ASSUME TypeOK, NEW c \in Calls
  PROVE  /\ call[c] \in {Idle, Written, Notifying} \cup Handling
         /\ call[c].pc \in {"idle", "written", "notifying", "checking", "writing"}
         /\ At(c, "checking") \/ At(c, "writing") => call[c] \in Handling
BY DEF TypeOK, RegistryTypeOK, Handling, Idle, Written, Notifying, At

LEMMA Listed ==
  ASSUME RegistryTypeOK
  PROVE  GatewaySubgraphs \subseteq Entries
BY DEF RegistryTypeOK, GatewaySubgraphs, Entries, Row, Absent, Registered

\* A step of one handler, which nobody waits behind, leaves the gateway as it is.
\* It tells the gateway of what it changed.
LEMMA Kept ==
  ASSUME GatewayInv, UNCHANGED gateVars, UNCHANGED history,
         RegistryTypeOK', RowsInv', NEW c \in Calls,
         \A d \in Calls \ {c} : call'[d] = call[d],
         ~At(c, "notifying"), ~At(c, "notifying")',
         At(c, "written")' \/ (~At(c, "written") /\ GatewaySubgraphs' = GatewaySubgraphs)
  PROVE  GatewayInv'
<1> USE DEF gateVars, history
<1>1. TypeOK' /\ RowsInv'
  BY DEF GatewayInv, TypeOK, GatewayTypeOK
<1>2. LoadsInv' /\ ReadsInv'
  BY DEF GatewayInv, LoadsInv, ReadsInv, Unloaded, At
<1>3. \A d \in Calls : ToRead(d) => ToRead(d)'
  BY DEF ToRead, At
<1>4. ListInv'
  <2>1. CASE At(c, "written")'
    BY <2>1 DEF ListInv, ToRead
  <2>2. CASE GatewaySubgraphs' = GatewaySubgraphs
    BY <1>3, <2>2 DEF ListInv, GatewayInv, InStep, WithCore
  <2> QED
    BY <2>1, <2>2
<1>5. AnswerInv'
  <2>1. CASE At(c, "written")'
    BY <2>1 DEF AnswerInv, ToRead
  <2>2. CASE GatewaySubgraphs' = GatewaySubgraphs
    BY <1>3, <2>2 DEF AnswerInv, GatewayInv, Before, WithCore
  <2> QED
    BY <2>1, <2>2
<1> QED
  BY <1>1, <1>2, <1>4, <1>5 DEF GatewayInv

LEMMA HandlingBegins ==
  ASSUME GatewayInv, NEW c \in Calls, Unloaded(c), UNCHANGED gateVars, Quietly,
         NEW op \in Ops, NEW pc \in {"checking", "writing"}, NEW p \in Plugins,
         NEW new \in Row \cup {Absent}, new \in Row \/ (op = "unregister" /\ pc = "writing"),
         Begin(c, op, pc, p, new)
  PROVE  GatewayInv'
<1>1. call[c].pc = "idle" /\ ~At(c, "notifying")' /\ ~At(c, "written")'
  BY DEF Begin, Go, At, GatewayInv, TypeOK, RegistryTypeOK
<1>2. GatewaySubgraphs' = GatewaySubgraphs /\ \A d \in Calls \ {c} : call'[d] = call[d]
  BY DEF Begin, Go, GatewaySubgraphs, Registered, GatewayInv, TypeOK, RegistryTypeOK
<1>3. [pc |-> pc, op |-> op, plugin |-> p, row |-> new] \in Handling
  BY DEF Handling
<1>4. RegistryTypeOK'
  BY <1>3 DEF Begin, Go, GatewayInv, TypeOK, RegistryTypeOK, Handling
<1>5. call'[c] = [pc |-> pc, op |-> op, plugin |-> p, row |-> new]
  BY DEF Begin, Go, GatewayInv, TypeOK, RegistryTypeOK
<1>6. RowsInv'
  BY <1>2, <1>5 DEF GatewayInv, RowsInv, At
<1> QED
  BY <1>1, <1>2, <1>4, <1>6, Kept DEF At, Quietly

LEMMA ValidateStep ==
  ASSUME GatewayInv, NEW c \in Calls, UNCHANGED gateVars, Quietly, Validate(c)
  PROVE  GatewayInv'
<1>1. call[c] \in Handling /\ call[c].row \in Row /\ call[c].pc = "checking"
  BY CallFacts DEF Validate, GatewayInv, RowsInv, At
<1>2. PICK healthy \in BOOLEAN :
        /\ answered' = IF healthy THEN answered \cup {call[c].row.url} ELSE answered
        /\ IF call[c].op = "healthCheck"
           THEN call' = [call EXCEPT
                  ![c].pc = "writing",
                  ![c].row.status = IF healthy THEN "ACTIVE" ELSE "OTHER"]
           ELSE Go(c, IF healthy THEN [call[c] EXCEPT !.pc = "writing"] ELSE Idle)
  BY DEF Validate
<1> DEFINE status == IF healthy THEN "ACTIVE" ELSE "OTHER"
           probed == [call[c] EXCEPT !.pc = "writing", !.row = [@ EXCEPT !.status = status]]
           asked == [call[c] EXCEPT !.pc = "writing"]
<1>3. /\ probed \in Handling /\ probed.row \in Row
      /\ asked \in Handling /\ asked.row \in Row
      /\ probed.pc = "writing" /\ asked.pc = "writing"
  BY <1>1 DEF Handling, Row, Statuses
<1>4. /\ call'[c] \in {probed, asked, Idle}
      /\ \A d \in Calls \ {c} : call'[d] = call[d]
      /\ DOMAIN call' = Calls /\ call' = [d \in Calls |-> call'[d]]
  <2>1. CASE call[c].op = "healthCheck"
    <3>1. call' = [call EXCEPT ![c] = probed]
      BY <1>1, <1>2, <2>1 DEF Handling
    <3> QED
      BY <3>1 DEF GatewayInv, TypeOK, RegistryTypeOK
  <2>2. CASE call[c].op # "healthCheck"
    BY <1>2, <2>2 DEF Go, GatewayInv, TypeOK, RegistryTypeOK
  <2> QED
    BY <2>1, <2>2
<1>5. answered' \subseteq Urls
  BY <1>1, <1>2 DEF GatewayInv, TypeOK, RegistryTypeOK, Row
<1> HIDE DEF probed, asked
<1>6. RegistryTypeOK'
  BY <1>3, <1>4, <1>5 DEF Validate, GatewayInv, TypeOK, RegistryTypeOK, Handling
<1>7. RowsInv'
  BY <1>3, <1>4 DEF GatewayInv, RowsInv, At, Idle
<1>8. GatewaySubgraphs' = GatewaySubgraphs
  BY DEF Validate, GatewaySubgraphs, Registered
<1>9. ~At(c, "notifying") /\ ~At(c, "notifying")' /\ ~At(c, "written")
  BY <1>1, <1>3, <1>4 DEF At, Idle
<1> QED
  BY <1>4, <1>6, <1>7, <1>8, <1>9, Kept DEF Quietly

\* The statement that writes the row, or does not.
LEMMA RowStep ==
  ASSUME GatewayInv, NEW c \in Calls, UNCHANGED gateVars, Quietly,
         CreateRow(c) \/ UpdateRow(c) \/ DeleteRow(c) \/ WriteFails(c)
  PROVE  GatewayInv'
<1>1. call[c] \in Handling /\ call[c].pc = "writing"
  BY CallFacts DEF CreateRow, UpdateRow, DeleteRow, WriteFails, GatewayInv, At
<1>2. /\ call'[c] = Written \/ (call'[c] = Idle /\ registry' = registry)
      /\ \A d \in Calls \ {c} : call'[d] = call[d]
      /\ call' \in [Calls -> {Idle, Written, Notifying} \cup Handling]
  BY DEF CreateRow, UpdateRow, DeleteRow, WriteFails, Go, GatewayInv, TypeOK,
         RegistryTypeOK, Handling
<1>3. registry' \in [Plugins -> Row \cup {Absent}] /\ answered' = answered
  BY <1>1 DEF CreateRow, UpdateRow, DeleteRow, WriteFails, GatewayInv, TypeOK,
              RegistryTypeOK, Handling
<1>4. RegistryTypeOK'
  BY <1>2, <1>3 DEF GatewayInv, TypeOK, RegistryTypeOK, Handling
<1>5. RowsInv'
  BY <1>2 DEF GatewayInv, RowsInv, At, Idle, Written
<1>6. ~At(c, "notifying") /\ ~At(c, "notifying")' /\ ~At(c, "written")
  BY <1>1, <1>2 DEF At, Idle, Written
<1>7. At(c, "written")' \/ GatewaySubgraphs' = GatewaySubgraphs
  BY <1>2 DEF At, Written, GatewaySubgraphs, Registered
<1> QED
  BY <1>2, <1>4, <1>5, <1>6, <1>7, Kept DEF Quietly

LEMMA RegistryStepHolds ==
  ASSUME GatewayInv, NEW c \in Calls, RegistryStep(c)
  PROVE  GatewayInv'
<1>1. ASSUME NEW p \in Plugins, NEW new \in Row, Unloaded(c),
             Register(c, p, new) \/ Update(c, p, new)
      PROVE  GatewayInv'
  BY <1>1, HandlingBegins DEF RegistryStep, Register, Update, Checked, Ops
<1>2. ASSUME NEW p \in Plugins, Unloaded(c), Unregister(c, p)
      PROVE  GatewayInv'
  BY <1>2, HandlingBegins DEF RegistryStep, Unregister, Ops
<1>3. ASSUME NEW p \in Plugins, Unloaded(c), HealthCheck(c, p)
      PROVE  GatewayInv'
  <2>1. registry[p] \in Row
    BY <1>3 DEF HealthCheck, Registered, GatewayInv, TypeOK, RegistryTypeOK
  <2> QED
    BY <1>3, <2>1, HandlingBegins DEF RegistryStep, HealthCheck, Ops
<1> QED
  BY <1>1, <1>2, <1>3, ValidateStep, RowStep DEF RegistryStep


-----------------------------------------------------------------------------
(* What goes wrong *)

\* Nobody is still to be blamed once a trouble is on record.
LEMMA Blamed ==
  ASSUME GatewayInv, NEW kind, Trouble(kind)
  PROVE  /\ troubles' # {} /\ troubles' \subseteq Environment
         /\ since' \in [Calls -> SUBSET Environment]
         /\ \A c \in Calls : load[c].pc = "answered" => since'[c] # {}
         /\ reads' = reads
<1>1. \A c \in Calls : load[c].pc = "answered" => Contains(reads, c)
  BY LenProperties DEF GatewayInv, ReadsInv, Contains, TypeOK
<1> QED
  BY <1>1 DEF Trouble, GatewayInv, TypeOK

LEMMA SilentStep ==
  ASSUME GatewayInv, UNCHANGED gateVars, RegistryTypeOK', RowsInv', Silently,
         \/ UNCHANGED call
         \/ \E c \in Calls :
              /\ At(c, "writing") /\ ~At(c, "notifying")' /\ ~At(c, "written")'
              /\ \A d \in Calls \ {c} : call'[d] = call[d]
  PROVE  GatewayInv'
<1> USE DEF gateVars
<1>1. /\ reads' = reads /\ troubles' \subseteq Environment
      /\ since' \in [Calls -> SUBSET Environment]
  BY Blamed DEF Silently, Quietly, history, GatewayInv, TypeOK
<1>2. TypeOK'
  BY <1>1 DEF GatewayInv, TypeOK, GatewayTypeOK
<1>3. \A d \in Calls : /\ At(d, "notifying")' <=> At(d, "notifying")
                       /\ ToRead(d)' <=> ToRead(d)
  BY DEF At, ToRead
<1>4. LoadsInv' /\ ReadsInv'
  BY <1>1, <1>3 DEF GatewayInv, LoadsInv, ReadsInv, Unloaded
<1>5. ListInv' /\ AnswerInv'
  <2>1. CASE GatewaySubgraphs' = GatewaySubgraphs
    BY <1>3, <2>1 DEF Silently, Quietly, history, GatewayInv, ListInv, AnswerInv, InStep,
       WithCore, Before
  <2>2. CASE GatewaySubgraphs' # GatewaySubgraphs
    BY <2>2, Blamed DEF Silently, ListInv, AnswerInv
  <2> QED
    BY <2>1, <2>2
<1> QED
  BY <1>2, <1>4, <1>5 DEF GatewayInv

LEMMA HealthHolds ==
  ASSUME GatewayInv, NEW c \in Calls, HealthStep(c)
  PROVE  GatewayInv'
<1>1. call[c] \in Handling /\ call[c].pc = "writing" /\ call[c].row \in Row
  BY CallFacts DEF HealthStep, WriteHealth, GatewayInv, RowsInv, At
<1>2. registry[call[c].plugin] \in Row
  BY <1>1 DEF HealthStep, WriteHealth, Registered, Handling, GatewayInv, TypeOK, RegistryTypeOK
<1>3. [registry[call[c].plugin] EXCEPT !.status = call[c].row.status] \in Row
  BY <1>1, <1>2 DEF Row
<1>4. RegistryTypeOK'
  BY <1>1, <1>3 DEF HealthStep, WriteHealth, Go, GatewayInv, TypeOK, RegistryTypeOK, Handling
<1>5. call'[c] = Idle /\ \A d \in Calls \ {c} : call'[d] = call[d]
  BY DEF HealthStep, WriteHealth, Go, GatewayInv, TypeOK, RegistryTypeOK
<1>6. RowsInv'
  BY <1>5 DEF RowsInv, GatewayInv, At, Idle
<1>7. At(c, "writing") /\ ~At(c, "notifying")' /\ ~At(c, "written")'
  BY <1>1, <1>5 DEF At, Idle
<1> QED
  BY <1>4, <1>5, <1>6, <1>7, SilentStep DEF HealthStep, Silently

LEMMA StatusHolds ==
  ASSUME GatewayInv, StatusStep
  PROVE  GatewayInv'
<1>1. PICK p \in Plugins, status \in Statuses : UpdateStatus(p, status)
  BY DEF StatusStep
<1>2. registry[p] \in Row
  BY <1>1 DEF UpdateStatus, Registered, GatewayInv, TypeOK, RegistryTypeOK
<1>3. [registry[p] EXCEPT !.status = status] \in Row
  BY <1>2 DEF Row
<1>4. RegistryTypeOK' /\ RowsInv' /\ UNCHANGED call
  BY <1>1, <1>3 DEF UpdateStatus, GatewayInv, TypeOK, RegistryTypeOK, RowsInv, At
<1> QED
  BY <1>4, SilentStep DEF StatusStep, Silently

LEMMA MissHolds ==
  ASSUME GatewayInv, NEW c \in Calls, MissStep(c)
  PROVE  GatewayInv'
<1> USE DEF gateVars
<1>1. call[c].pc = "written" /\ call'[c] = Idle /\ \A d \in Calls \ {c} : call'[d] = call[d]
  BY DEF MissStep, PostFails, Go, At, GatewayInv, TypeOK, RegistryTypeOK
<1>2. TypeOK'
  BY Blamed DEF MissStep, PostFails, Go, GatewayInv, TypeOK, RegistryTypeOK, GatewayTypeOK
<1>3. RowsInv'
  BY <1>1 DEF GatewayInv, RowsInv, At, Idle
<1>4. LoadsInv' /\ ReadsInv'
  BY <1>1, Blamed DEF MissStep, GatewayInv, LoadsInv, ReadsInv, Unloaded, At, Idle
<1>5. ListInv' /\ AnswerInv'
  BY Blamed DEF MissStep, ListInv, AnswerInv
<1> QED
  BY <1>2, <1>3, <1>4, <1>5 DEF GatewayInv

LEMMA FallBackHolds ==
  ASSUME GatewayInv, NEW c \in Calls, FallBackStep(c)
  PROVE  GatewayInv'
<1> USE DEF coreVars
<1>1. /\ load[c].pc = "querying"
      /\ load'[c] = [pc |-> "loaded", list |-> {}]
      /\ \A d \in Calls \ {c} : load'[d] = load[d]
  BY DEF FallBackStep, FallBack, GatewayInv, TypeOK, GatewayTypeOK
<1>2. RegistryTypeOK' /\ RowsInv'
  BY DEF FallBackStep, GatewayInv, TypeOK, RegistryTypeOK, RowsInv, At
<1>3. GatewayTypeOK'
  BY DEF FallBackStep, FallBack, GatewayInv, TypeOK, GatewayTypeOK
<1>4. TypeOK'
  BY <1>2, <1>3, Blamed DEF FallBackStep, GatewayInv, TypeOK
<1>5. LoadsInv' /\ ReadsInv'
  BY <1>1, Blamed DEF FallBackStep, FallBack, GatewayInv, LoadsInv, ReadsInv, Unloaded, At
<1>6. ListInv' /\ AnswerInv'
  BY <1>1, Blamed DEF FallBackStep, ListInv, AnswerInv
<1> QED
  BY <1>2, <1>4, <1>5, <1>6 DEF GatewayInv

-----------------------------------------------------------------------------
(* The gateway alone *)

LEMMA BootHolds ==
  ASSUME GatewayInv, BootStep
  PROVE  GatewayInv'
<1> USE DEF coreVars
<1>1. /\ boot # "up" /\ boot' \in {"created", "composed", "initialised"}
      /\ subgraphs' \in Loaded(GatewaySubgraphs) /\ schema' \in {schema, subgraphs'}
      /\ UNCHANGED <<registry, answered, call, load>>
  BY DEF BootStep, Create, Compose, Initialise
<1>2. \A c \in Calls : load[c].pc = "idle"
  BY <1>1 DEF GatewayInv, LoadsInv, Unloaded
<1>3. GatewaySubgraphs' = GatewaySubgraphs
  BY <1>1 DEF GatewaySubgraphs, Registered
<1>4. /\ reads' = <<>> /\ since' = [c \in Calls |-> {}] /\ troubles' \subseteq Environment
      /\ troubles' = {} => subgraphs' = WithCore(GatewaySubgraphs)
  BY DEF BootStep, AfreshWith
<1>5. subgraphs' \subseteq Entries \cup {Core}
  BY <1>1, Listed DEF Loaded, WithCore, GatewayInv, TypeOK
<1>6. TypeOK' /\ RowsInv'
  BY <1>1, <1>4, <1>5 DEF GatewayInv, TypeOK, RegistryTypeOK, GatewayTypeOK, Stages,
     RowsInv, At
<1>7. LoadsInv' /\ ReadsInv'
  BY <1>1, <1>2, <1>4 DEF GatewayInv, LoadsInv, ReadsInv, Unloaded, At
<1>8. ListInv' /\ AnswerInv'
  BY <1>1, <1>2, <1>3, <1>4 DEF ListInv, AnswerInv, InStep, WithCore
<1> QED
  BY <1>6, <1>7, <1>8 DEF GatewayInv

LEMMA ListenHolds ==
  ASSUME GatewayInv, ListenStep
  PROVE  GatewayInv'
<1> USE DEF coreVars, Quietly, history, ListenStep, Listen
<1>1. TypeOK' /\ RowsInv'
  BY DEF GatewayInv, TypeOK, RegistryTypeOK, GatewayTypeOK, Stages, RowsInv, At
<1>2. LoadsInv' /\ ReadsInv'
  BY DEF GatewayInv, LoadsInv, ReadsInv, Unloaded, At
<1>3. GatewaySubgraphs' = GatewaySubgraphs
  BY DEF GatewaySubgraphs, Registered
<1>4. ListInv' /\ AnswerInv'
  BY <1>3 DEF GatewayInv, ListInv, AnswerInv, InStep, WithCore, ToRead, Before, At
<1> QED
  BY <1>1, <1>2, <1>4 DEF GatewayInv

LEMMA StopHolds ==
  ASSUME GatewayInv, StopStep
  PROVE  GatewayInv'
<1> USE DEF coreVars, StopStep, Stop, AfreshWith
<1>1. /\ call' \in [Calls -> {Idle, Written, Notifying} \cup Handling]
      /\ \A c \in Calls : call'[c] = Idle \/ (~At(c, "notifying") /\ call'[c] = call[c])
  BY CallFacts DEF GatewayInv
<1>2. TypeOK'
  BY <1>1 DEF GatewayInv, TypeOK, RegistryTypeOK, GatewayTypeOK, Stages, Handling, NoLoad
<1>3. RowsInv'
  BY <1>1 DEF GatewayInv, RowsInv, At, Idle
<1>4. LoadsInv' /\ ReadsInv'
  BY <1>1 DEF GatewayInv, LoadsInv, ReadsInv, Unloaded, At, NoLoad, Idle
<1>5. ListInv' /\ AnswerInv'
  BY DEF ListInv, AnswerInv, NoLoad
<1> QED
  BY <1>2, <1>3, <1>4, <1>5 DEF GatewayInv

-----------------------------------------------------------------------------
(* A reload, from the notification to the answer *)

LEMMA NotifyHolds ==
  ASSUME GatewayInv, NEW c \in Calls, NotifyStep(c)
  PROVE  GatewayInv'
<1> USE DEF Quietly, history
<1>1. /\ load[c].pc = "idle" /\ load'[c].pc = "querying" /\ boot = "up"
      /\ \A d \in Calls \ {c} : load'[d] = load[d]
      /\ GatewayTypeOK'
  BY DEF NotifyStep, ReceiveReload, GatewayInv, TypeOK, GatewayTypeOK
<1>2. /\ call'[c] = Notifying /\ \A d \in Calls \ {c} : call'[d] = call[d]
      /\ RegistryTypeOK'
  BY DEF NotifyStep, PostReload, RequestReload, Go, GatewayInv, TypeOK, RegistryTypeOK
<1>3. TypeOK' /\ RowsInv'
  BY <1>1, <1>2 DEF NotifyStep, GatewayInv, TypeOK, RowsInv, At, Notifying
<1>4. LoadsInv' /\ ReadsInv'
  BY <1>1, <1>2 DEF NotifyStep, ReceiveReload, GatewayInv, LoadsInv, ReadsInv, Unloaded, At,
     Notifying
<1>5. ToRead(c)'
  BY <1>1 DEF ToRead
<1>6. ListInv' /\ AnswerInv'
  BY <1>5 DEF ListInv, AnswerInv
<1> QED
  BY <1>3, <1>4, <1>6 DEF GatewayInv

LEMMA AnswerHolds ==
  ASSUME GatewayInv, NEW c \in Calls, AnswerStep(c)
  PROVE  GatewayInv'
<1> USE DEF Quietly, history
<1>1. /\ load[c].pc = "loaded" /\ load'[c] = NoLoad
      /\ \A d \in Calls \ {c} : load'[d] = load[d]
      /\ GatewayTypeOK'
  BY DEF AnswerStep, AnswerReload, NoLoad, GatewayInv, TypeOK, GatewayTypeOK
<1>2. /\ call[c].pc = "notifying" /\ call'[c] = Idle
      /\ \A d \in Calls \ {c} : call'[d] = call[d]
      /\ RegistryTypeOK'
  BY DEF AnswerStep, ReloadAnswered, Go, At, GatewayInv, TypeOK, RegistryTypeOK
<1>3. TypeOK' /\ RowsInv'
  BY <1>1, <1>2 DEF AnswerStep, GatewayInv, TypeOK, RowsInv, At, Idle
<1>4. LoadsInv' /\ ReadsInv'
  BY <1>1, <1>2 DEF AnswerStep, AnswerReload, GatewayInv, LoadsInv, ReadsInv, Unloaded, At,
     Idle, NoLoad
<1>5. \A d \in Calls : ToRead(d) => ToRead(d)'
  BY <1>1, <1>2 DEF ToRead, At
<1>6. GatewaySubgraphs' = GatewaySubgraphs
  BY DEF AnswerStep, ReloadAnswered, GatewaySubgraphs, Registered
<1>7. ListInv'
  BY <1>1, <1>5, <1>6 DEF AnswerStep, AnswerReload, GatewayInv, ListInv, InStep, WithCore
<1>8. AnswerInv'
  BY <1>1, <1>5, <1>6 DEF AnswerStep, GatewayInv, AnswerInv, WithCore, Before, NoLoad
<1> QED
  BY <1>3, <1>4, <1>7, <1>8 DEF GatewayInv

LEMMA ReadHolds ==
  ASSUME GatewayInv, NEW c \in Calls, ReadStep(c)
  PROVE  GatewayInv'
<1> USE DEF coreVars
<1>1. /\ load[c].pc = "querying"
      /\ load'[c] = [pc |-> "answered", list |-> GatewaySubgraphs]
      /\ \A d \in Calls \ {c} : load'[d] = load[d]
      /\ GatewayTypeOK'
  BY Listed DEF ReadStep, AnswerQuery, GatewayInv, TypeOK, GatewayTypeOK
<1>2. /\ reads' \in Seq(Calls) /\ Len(reads') = Len(reads) + 1 /\ reads'[Len(reads) + 1] = c
      /\ \A i \in 1..Len(reads) : reads'[i] = reads[i]
      /\ DOMAIN reads = 1..Len(reads) /\ DOMAIN reads' = 1..(Len(reads) + 1)
      /\ Len(reads) \in Nat
  BY AppendProperties, LenProperties DEF ReadStep, GatewayInv, TypeOK
<1>3. TypeOK' /\ RowsInv'
  BY <1>1, <1>2 DEF ReadStep, GatewayInv, TypeOK, RegistryTypeOK, RowsInv, At
<1>4. LoadsInv'
  BY <1>1 DEF ReadStep, AnswerQuery, GatewayInv, LoadsInv, Unloaded, At
<1>5. ReadsInv'
  BY <1>1, <1>2 DEF GatewayInv, ReadsInv
<1>6. GatewaySubgraphs' = GatewaySubgraphs
  BY DEF ReadStep, GatewaySubgraphs, Registered
<1>7. ListInv'
  BY <1>1 DEF ListInv
<1>8. \A d \in Calls \ {c} : load[d].pc = "answered" => Before(c, d)'
  <2>1. ASSUME NEW d \in Calls \ {c}, load[d].pc = "answered"
        PROVE  Before(c, d)'
    <3>1. PICK i \in 1..Len(reads) : reads[i] = d
      BY <1>2, <2>1 DEF GatewayInv, ReadsInv
    <3>2. /\ i \in DOMAIN reads' /\ Len(reads) + 1 \in DOMAIN reads' /\ i < Len(reads) + 1
          /\ reads'[i] = d /\ reads'[Len(reads) + 1] = c
      BY <1>2, <3>1
    <3> QED
      BY <3>2 DEF Before
  <2> QED
    BY <2>1
<1>9. AnswerInv'
  BY <1>1, <1>2, <1>6, <1>8 DEF AnswerInv
<1> QED
  BY <1>3, <1>4, <1>5, <1>7, <1>9 DEF GatewayInv


\* What is left of a sequence without one of its members.
LEMMA RemovedOne ==
  ASSUME NEW S, NEW s \in Seq(S), NEW k \in DOMAIN s
  PROVE  /\ RemoveAt(s, k) \in Seq(S)
         /\ DOMAIN RemoveAt(s, k) = 1..(Len(s) - 1)
         /\ \A i \in 1..(Len(s) - 1) :
              RemoveAt(s, k)[i] = s[IF i < k THEN i ELSE i + 1]
<1>1. Len(s) \in Nat /\ k \in 1..Len(s) /\ DOMAIN s = 1..Len(s)
  BY LenProperties
<1> DEFINE front == SubSeq(s, 1, k - 1)
           back == SubSeq(s, k + 1, Len(s))
<1>2. /\ front \in Seq(S) /\ Len(front) = k - 1
      /\ \A i \in 1..(k - 1) : front[i] = s[i]
  BY <1>1, SubSeqProperties
<1>3. /\ back \in Seq(S) /\ Len(back) = Len(s) - k
      /\ \A i \in 1..(Len(s) - k) : back[i] = s[k + i]
  <2>1. CASE k = Len(s)
    BY <1>1, <2>1, SubSeqProperties
  <2>2. CASE k < Len(s)
    BY <1>1, <2>2, SubSeqProperties
  <2> QED
    BY <1>1, <2>1, <2>2
<1> HIDE DEF front, back
<1>4. /\ front \o back \in Seq(S)
      /\ Len(front \o back) = Len(s) - 1
      /\ \A i \in 1..(Len(s) - 1) :
           (front \o back)[i] = IF i <= k - 1 THEN front[i] ELSE back[i - (k - 1)]
  <2>1. front \o back \in Seq(S) /\ Len(front \o back) = Len(front) + Len(back)
    BY <1>2, <1>3, ConcatProperties
  <2>2. \A i \in 1..(Len(front) + Len(back)) :
          (front \o back)[i] = IF i <= Len(front) THEN front[i] ELSE back[i - Len(front)]
    BY <1>2, <1>3, ConcatProperties
  <2> QED
    BY <1>1, <1>2, <1>3, <2>1, <2>2
<1>5. DOMAIN (front \o back) = 1..(Len(s) - 1)
  BY <1>4, LenProperties
<1>6. \A i \in 1..(Len(s) - 1) : (front \o back)[i] = s[IF i < k THEN i ELSE i + 1]
  <2> TAKE i \in 1..(Len(s) - 1)
  <2>1. CASE i < k
    BY <1>1, <1>2, <1>4, <2>1
  <2>2. CASE i >= k
    <3>1. i - (k - 1) \in 1..(Len(s) - k) /\ k + (i - (k - 1)) = i + 1
      BY <1>1, <2>2
    <3>2. back[i - (k - 1)] = s[i + 1]
      BY <1>3, <3>1
    <3> QED
      BY <1>1, <1>4, <2>2, <3>2
  <2>3. i < k \/ i >= k
    BY <1>1
  <2> QED
    BY <2>1, <2>2, <2>3
<1> QED
  BY <1>4, <1>5, <1>6 DEF RemoveAt, front, back

LEMMA AssignHolds ==
  ASSUME GatewayInv, NEW c \in Calls, AssignStep(c)
  PROVE  GatewayInv'
<1> USE DEF coreVars
<1>1. /\ load[c].pc = "answered" /\ load[c].list \subseteq Entries
      /\ subgraphs' = WithCore(load[c].list)
      /\ load'[c] = [pc |-> "loaded", list |-> {}]
      /\ \A d \in Calls \ {c} : load'[d] = load[d]
      /\ load' = [d \in Calls |-> load'[d]]
      /\ UNCHANGED <<boot, schema, registry, answered, call>>
  BY DEF AssignStep, AssignSubgraphs, Replaced, GatewayInv, TypeOK, GatewayTypeOK
<1>2. /\ troubles' = since[c]
      /\ since' = [d \in Calls |->
           IF d = c THEN {}
           ELSE since[d] \cup IF Before(c, d) THEN {"overtaken"} ELSE {}]
      /\ \A d \in Calls : Before(c, d) => "overtaken" \in Environment
  BY DEF AssignStep, InForce
<1>3. PICK k \in DOMAIN reads : reads[k] = c /\ reads' = RemoveAt(reads, k)
  BY DEF AssignStep, InForce
<1>4. /\ reads' \in Seq(Calls) /\ DOMAIN reads' = 1..(Len(reads) - 1)
      /\ \A i \in DOMAIN reads' : reads'[i] = reads[IF i < k THEN i ELSE i + 1]
      /\ Len(reads) \in Nat /\ DOMAIN reads = 1..Len(reads)
  BY <1>3, RemovedOne, LenProperties DEF GatewayInv, TypeOK
<1>5. \A i, j \in DOMAIN reads : reads[i] = reads[j] => i = j
  BY DEF GatewayInv, ReadsInv
\* Where the member at i is now.
<1> DEFINE at(i) == IF i < k THEN i ELSE i - 1
<1>6. \A i \in DOMAIN reads \ {k} :
        /\ at(i) \in DOMAIN reads' /\ reads'[at(i)] = reads[i]
        /\ \A j \in DOMAIN reads \ {k} : i < j => at(i) < at(j)
  BY <1>4
<1>7. TypeOK'
  <2>1. subgraphs' \subseteq Entries \cup {Core}
    BY <1>1 DEF WithCore
  <2>2. GatewayTypeOK'
    BY <1>1, <2>1 DEF GatewayInv, TypeOK, GatewayTypeOK
  <2>3. troubles' \subseteq Environment /\ since' \in [Calls -> SUBSET Environment]
    BY <1>2 DEF GatewayInv, TypeOK
  <2> QED
    BY <1>1, <1>4, <2>2, <2>3 DEF GatewayInv, TypeOK, RegistryTypeOK
<1>8. RowsInv' /\ LoadsInv'
  BY <1>1 DEF GatewayInv, RowsInv, LoadsInv, Unloaded, At
<1>9. ReadsInv'
  <2>1. \A i, j \in DOMAIN reads' : reads'[i] = reads'[j] => i = j
    BY <1>4, <1>5
  <2>2. \A d \in Calls : load'[d].pc = "answered" => \E i \in DOMAIN reads' : reads'[i] = d
    BY <1>1, <1>3, <1>6 DEF GatewayInv, ReadsInv
  <2>3. ASSUME NEW i \in DOMAIN reads'
        PROVE  load'[reads'[i]].pc = "answered"
    <3>1. \E j \in DOMAIN reads \ {k} : reads'[i] = reads[j]
      BY <1>4
    <3>2. reads'[i] \in Calls \ {c}
      BY <1>3, <1>4, <1>5, <3>1, ElementOfSeq
    <3> QED
      BY <1>1, <3>1, <3>2 DEF GatewayInv, ReadsInv
  <2> QED
    BY <2>1, <2>2, <2>3 DEF ReadsInv
<1>10. \A d \in Calls : ToRead(d) => ToRead(d)' /\ d # c
  <2>1. ~At(c, "written") /\ load[c].pc # "querying"
    BY <1>1 DEF GatewayInv, LoadsInv, Unloaded, At
  <2> QED
    BY <1>1, <2>1 DEF ToRead, At
\* Who read later than c is still about to assign.
<1>11. \A d \in Calls : Before(d, c) => load'[d].pc = "answered"
  <2>1. ASSUME NEW d \in Calls, Before(d, c)
        PROVE  load'[d].pc = "answered"
    <3>1. d # c /\ load[d].pc = "answered"
      BY <1>4, <1>5, <2>1 DEF Before, GatewayInv, ReadsInv
    <3> QED
      BY <1>1, <3>1
  <2> QED
    BY <2>1
<1>12. GatewaySubgraphs' = GatewaySubgraphs
  BY <1>1 DEF GatewaySubgraphs, Registered
<1>13. ListInv'
  BY <1>1, <1>2, <1>10, <1>11, <1>12 DEF GatewayInv, AnswerInv, ListInv, InStep, WithCore
<1>14. AnswerInv'
  <2>1. SUFFICES ASSUME NEW d \in Calls, load'[d].pc = "answered", since'[d] = {},
                        WithCore(load'[d].list) # WithCore(GatewaySubgraphs)
                 PROVE  \E e \in Calls : ToRead(e)' \/ Before(e, d)'
    BY <1>12 DEF AnswerInv, WithCore
  <2>2. d # c /\ load'[d] = load[d] /\ since[d] = {} /\ ~Before(c, d)
    BY <1>1, <1>2, <2>1
  <2>3. PICK e \in Calls : ToRead(e) \/ Before(e, d)
    BY <2>1, <2>2 DEF GatewayInv, AnswerInv
  <2>4. ASSUME Before(e, d)
        PROVE  Before(e, d)'
    <3>1. PICK i, j \in DOMAIN reads : i < j /\ reads[i] = d /\ reads[j] = e
      BY <2>4 DEF Before
    <3>2. e # c
      BY <2>2, <2>4
    <3>3. i # k /\ j # k
      BY <1>3, <2>2, <3>1, <3>2
    <3> QED
      BY <1>6, <3>1, <3>3 DEF Before
  <2> QED
    BY <1>10, <2>3, <2>4
<1> QED
  BY <1>7, <1>8, <1>9, <1>13, <1>14 DEF GatewayInv

-----------------------------------------------------------------------------
LEMMA GatewayInitially == Init => GatewayInv
<1> SUFFICES ASSUME Init PROVE GatewayInv
  OBVIOUS
<1>1. TypeOK
  BY DEF Init, RegistryInit, GatewayInit, TypeOK, RegistryTypeOK, GatewayTypeOK, NoLoad, Stages
<1> QED
  BY <1>1 DEF Init, RegistryInit, GatewayInit, GatewayInv, RowsInv, LoadsInv, ReadsInv,
     ListInv, AnswerInv, At, Idle, Unloaded, NoLoad

LEMMA GatewayNextInv == GatewayInv /\ [Next]_vars => GatewayInv'
<1> SUFFICES ASSUME GatewayInv, [Next]_vars PROVE GatewayInv'
  OBVIOUS
<1>1. ASSUME UNCHANGED vars
      PROVE  GatewayInv'
  BY <1>1 DEF vars, coreVars, gateVars, history, GatewayInv, TypeOK, RegistryTypeOK,
     GatewayTypeOK, RowsInv, LoadsInv, ReadsInv, ListInv, AnswerInv, At, Unloaded, ToRead,
     InStep, WithCore, GatewaySubgraphs, Registered, Before
<1> QED
  BY <1>1, RegistryStepHolds, HealthHolds, ReadHolds, AssignHolds, FallBackHolds,
     NotifyHolds, MissHolds, AnswerHolds, StatusHolds, BootHolds, ListenHolds, StopHolds
  DEF Next

\* The rows, the list, the loads and the calls keep their types.
THEOREM GatewayTypes == Spec => []TypeOK
<1>1. GatewayInv => TypeOK
  BY DEF GatewayInv
<1> QED
  BY <1>1, GatewayInitially, GatewayNextInv, PTL DEF Spec

\* Whatever overlaps, fails or overtakes: a list that no trouble since its reading
\* excuses is the registry's once everybody has been told.
THEOREM ListsComeInStep == Spec => []InStepAtRest
<1>1. GatewayInv => InStepAtRest
  <2> SUFFICES ASSUME GatewayInv, boot = "up", AtRest, troubles = {}
               PROVE  InStep
    BY DEF InStepAtRest
  <2>1. \A d \in Calls : load[d].pc = "idle" /\ ~At(d, "written")
    BY DEF AtRest, GatewayInv, LoadsInv, Unloaded
  <2> QED
    BY <2>1 DEF GatewayInv, ListInv, ToRead
<1> QED
  BY <1>1, GatewayInitially, GatewayNextInv, PTL DEF Spec


\* An endpoint about to be written has been asked, and so have all that were.
AskedInv ==
  /\ RegisteredUrlsAnswered
  /\ \A c \in Calls : At(c, "writing") /\ call[c].op \in {"register", "update"}
                        => call[c].row.url \in answered \cup {EmptyUrl}

LEMMA AskedInRegistry ==
  ASSUME GatewayInv, AskedInv, NEW c \in Calls, RegistryStep(c)
  PROVE  AskedInv'
<1>1. ASSUME NEW op \in Ops, NEW pc \in {"checking", "writing"}, NEW p \in Plugins, NEW new,
             pc = "checking" \/ op = "unregister" \/ new.url = EmptyUrl,
             Begin(c, op, pc, p, new)
      PROVE  AskedInv'
  <2>1. /\ call'[c] = [pc |-> pc, op |-> op, plugin |-> p, row |-> new]
        /\ \A d \in Calls \ {c} : call'[d] = call[d]
    BY <1>1 DEF Begin, Go, GatewayInv, TypeOK, RegistryTypeOK
  <2> QED
    BY <1>1, <2>1 DEF Begin, AskedInv, RegisteredUrlsAnswered, Registered, At
<1>2. CASE Validate(c)
  <2>1. call[c] \in Handling /\ call[c].pc = "checking"
    BY <1>2, CallFacts DEF Validate, GatewayInv, At
  <2>2. /\ answered \subseteq answered' /\ registry' = registry
        /\ \A d \in Calls \ {c} : call'[d] = call[d]
    BY <1>2 DEF Validate, Go, GatewayInv, TypeOK, RegistryTypeOK
  <2>3. At(c, "writing")' /\ call'[c].op \in {"register", "update"}
          => call'[c].row.url \in answered' \cup {EmptyUrl}
    <3>1. CASE call[c].op = "healthCheck"
      BY <1>2, <2>1, <3>1 DEF Validate, Handling, GatewayInv, TypeOK, RegistryTypeOK
    <3>2. CASE call[c].op # "healthCheck"
      BY <1>2, <2>1, <3>2 DEF Validate, Go, At, Idle, Handling, GatewayInv, TypeOK,
         RegistryTypeOK
    <3> QED
      BY <3>1, <3>2
  <2> QED
    BY <2>2, <2>3 DEF AskedInv, RegisteredUrlsAnswered, Registered, At
<1>3. CASE CreateRow(c) \/ UpdateRow(c) \/ DeleteRow(c) \/ WriteFails(c)
  <2>1. call[c] \in Handling
    BY <1>3, CallFacts DEF CreateRow, UpdateRow, DeleteRow, WriteFails, GatewayInv, At
  <2>2. /\ call'[c] \in {Written, Idle} /\ answered' = answered
        /\ \A d \in Calls \ {c} : call'[d] = call[d]
    BY <1>3 DEF CreateRow, UpdateRow, DeleteRow, WriteFails, Go, GatewayInv, TypeOK,
       RegistryTypeOK
  <2>3. RegisteredUrlsAnswered'
    BY <1>3, <2>1 DEF CreateRow, UpdateRow, DeleteRow, WriteFails, AskedInv, At,
       RegisteredUrlsAnswered, Registered, Handling, GatewayInv, TypeOK, RegistryTypeOK
  <2> QED
    BY <2>2, <2>3 DEF AskedInv, At, Written, Idle
<1> QED
  BY <1>1, <1>2, <1>3 DEF RegistryStep, Register, Update, Unregister, HealthCheck, Checked, Ops

\* What is written of a plugin on its own is its status.
LEMMA AskedOfStatus ==
  ASSUME GatewayInv, AskedInv, NEW p \in Plugins, Registered(p), NEW status,
         registry' = [registry EXCEPT ![p].status = status], answered' = answered,
         \A c \in Calls : call'[c] \in {call[c], Idle}
  PROVE  AskedInv'
<1>1. registry[p] \in Row
  BY DEF Registered, GatewayInv, TypeOK, RegistryTypeOK
<1>2. registry'[p].url = registry[p].url /\ \A q \in Plugins \ {p} : registry'[q] = registry[q]
  BY <1>1 DEF Row, GatewayInv, TypeOK, RegistryTypeOK
<1> QED
  BY <1>2 DEF AskedInv, RegisteredUrlsAnswered, Registered, At, Idle

LEMMA AskedNext == GatewayInv /\ AskedInv /\ [Next]_vars => AskedInv'
<1> SUFFICES ASSUME GatewayInv, AskedInv, [Next]_vars PROVE AskedInv'
  OBVIOUS
<1>1. ASSUME registry' = registry, answered' = answered,
             \A c \in Calls : call'[c] \in {call[c], Idle, Notifying}
      PROVE  AskedInv'
  BY <1>1 DEF AskedInv, RegisteredUrlsAnswered, Registered, At, Idle, Notifying
<1>2. ASSUME NEW c \in Calls, HealthStep(c) PROVE AskedInv'
  <2>1. call[c] \in Handling
    BY <1>2, CallFacts DEF HealthStep, WriteHealth, GatewayInv
  <2>2. \A d \in Calls : call'[d] \in {call[d], Idle}
    BY <1>2 DEF HealthStep, WriteHealth, Go, GatewayInv, TypeOK, RegistryTypeOK
  <2> QED
    BY <1>2, <2>1, <2>2, AskedOfStatus DEF HealthStep, WriteHealth, Handling
<1>3. CASE StatusStep
  BY <1>3, AskedOfStatus DEF StatusStep, UpdateStatus
<1>4. ASSUME NEW c \in Calls,
             ReadStep(c) \/ AssignStep(c) \/ FallBackStep(c) \/ NotifyStep(c)
               \/ MissStep(c) \/ AnswerStep(c)
      PROVE  AskedInv'
  <2>1. /\ registry' = registry /\ answered' = answered
        /\ \A d \in Calls : call'[d] \in {call[d], Idle, Notifying}
    BY <1>4 DEF ReadStep, AssignStep, FallBackStep, NotifyStep, MissStep, AnswerStep,
       PostReload, RequestReload, PostFails, ReloadAnswered, Go, coreVars, GatewayInv,
       TypeOK, RegistryTypeOK
  <2> QED
    BY <1>1, <2>1
<1>5. CASE BootStep \/ ListenStep \/ StopStep \/ UNCHANGED vars
  <2>1. /\ registry' = registry /\ answered' = answered
        /\ \A d \in Calls : call'[d] \in {call[d], Idle, Notifying}
    BY <1>5 DEF BootStep, ListenStep, StopStep, vars, coreVars
  <2> QED
    BY <1>1, <2>1
<1> QED
  BY <1>2, <1>3, <1>4, <1>5, AskedInRegistry DEF Next

\* No url but the empty one is in the registry that never answered the introspection
\* query, although
\* every check and its write are two steps, with other handlers in between.
THEOREM EndpointsHaveAnswered == Spec => []RegisteredUrlsAnswered
<1>1. Init => AskedInv
  BY DEF Init, RegistryInit, AskedInv, RegisteredUrlsAnswered, Registered, At, Idle
<1>2. AskedInv => RegisteredUrlsAnswered
  BY DEF AskedInv
<1> QED
  BY <1>1, <1>2, GatewayInitially, GatewayNextInv, AskedNext, PTL DEF Spec
==============================================================================
