----------------------------- MODULE AccessProofs -----------------------------
(***************************************************************************)
(* Theorems about module Access: for every set of keys, roles, key sets    *)
(* and grants, everything the seeds may write, and two calls of any kind   *)
(* whose statements alternate in every way, a check of access answers from *)
(* rows that were there while it ran, no step takes a system role away but *)
(* through the one gap that deleteRole has, and what a call that returned  *)
(* undisturbed was to leave is there.                                      *)
(***************************************************************************)
EXTENDS Access, SequenceTheorems, FiniteSetTheorems, WellFoundedInduction, TLAPS

-----------------------------------------------------------------------------
(* Numbers and sequences of sequences *)

\* A set of numbers that is not empty has a least member.
LEMMA LeastNumber ==
  ASSUME NEW T \in SUBSET Nat, T # {}
  PROVE  \E m \in T : \A k \in T : m <= k
<1>1. PICK m \in T : \A k \in T : ~(<<k, m>> \in OpToRel(<, Nat))
  BY NatLessThanWellFounded, WFMin
<1>2. \A k \in T : ~(k < m)
  BY <1>1 DEF OpToRel
<1> QED
  BY <1>2

\* What FlattenSeq says of the function it is defined with.
Flatten(f, seqs, n) ==
  f = [i \in 1..n |-> IF i = 1 THEN seqs[i] ELSE f[i - 1] \o seqs[i]]

\* The function that FlattenSeq chooses is there.
LEMMA FlattenExists ==
  ASSUME NEW n \in Nat, NEW seqs
  PROVE  \E f : Flatten(f, seqs, n)
<1> DEFINE T == {m \in Nat : ~\E f : Flatten(f, seqs, m)}
<1>1. ASSUME T # {} PROVE FALSE
  <2>1. PICK m \in T : \A k \in T : m <= k
    BY <1>1, LeastNumber
  <2>2. m # 0
    <3>1. Flatten([i \in 1..0 |-> 0], seqs, 0)
      BY DEF Flatten
    <3> QED
      BY <2>1, <3>1
  <2>3. m - 1 \in Nat /\ m - 1 \notin T
    BY <2>1, <2>2
  <2>4. PICK g : Flatten(g, seqs, m - 1)
    BY <2>3
  <2> DEFINE f == [i \in 1..m |-> IF i = m THEN (IF m = 1 THEN seqs[m] ELSE g[m - 1] \o seqs[m]) ELSE g[i]]
  <2>5. f = [i \in 1..m |-> IF i = 1 THEN seqs[i] ELSE f[i - 1] \o seqs[i]]
    <3>1. ASSUME NEW i \in 1..m
          PROVE  f[i] = IF i = 1 THEN seqs[i] ELSE f[i - 1] \o seqs[i]
      <4>1. CASE i = m
        BY <2>2, <2>3, <4>1
      <4>2. CASE i # m
        <5>1. i \in 1..(m - 1) /\ f[i] = g[i]
          BY <2>3, <4>2
        <5>2. i # 1 => f[i - 1] = g[i - 1]
          BY <2>3, <4>2
        <5> QED
          BY <2>4, <5>1, <5>2 DEF Flatten
      <4> QED
        BY <4>1, <4>2
    <3> QED
      BY <3>1
  <2> QED
    BY <2>1, <2>5 DEF Flatten
<1> QED
  BY <1>1

\* Sequences of a set's elements one after the other, built up from the first.
Builds(g, seqs, n) ==
  /\ FlattenSeq(seqs) = g[n]
  /\ g[1] = seqs[1]
  /\ \A m \in 2..n : g[m] = g[m - 1] \o seqs[m]

LEMMA FlattenParts ==
  ASSUME NEW S, NEW n \in Nat, NEW seqs \in [1..n -> Seq(S)], n # 0
  PROVE  \E g \in [1..n -> Seq(S)] : Builds(g, seqs, n)
<1>0. Len(seqs) = n
  BY LenProperties, seqs \in Seq(Seq(S))
<1> DEFINE g == CHOOSE f : Flatten(f, seqs, n)
<1>1. Flatten(g, seqs, n)
  BY FlattenExists
<1>2. FlattenSeq(seqs) = g[n]
  BY <1>0 DEF FlattenSeq, Flatten
<1> HIDE DEF g
<1>3. DOMAIN g = 1..n /\ g[1] = seqs[1]
  BY <1>1 DEF Flatten
<1>4. ASSUME NEW m \in 2..n PROVE g[m] = g[m - 1] \o seqs[m]
  BY <1>1, m # 1, m \in 1..n DEF Flatten
<1> DEFINE T == {m \in 1..n : g[m] \notin Seq(S)}
<1>5. ASSUME T # {} PROVE FALSE
  <2>0. T \in SUBSET Nat
    OBVIOUS
  <2>1. PICK m \in T : \A k \in T : m <= k
    <3> HIDE DEF T
    <3> QED
      BY <1>5, <2>0, LeastNumber
  <2>2. m \in 1..n /\ g[m] \notin Seq(S)
    OBVIOUS
  <2>3. m # 1
    BY <1>3, <2>2
  <2>4. m \in 2..n /\ m - 1 \in 1..n /\ m - 1 \notin T
    BY <2>1, <2>2, <2>3
  <2>5. g[m - 1] \in Seq(S) /\ seqs[m] \in Seq(S)
    BY <2>4
  <2>6. g[m - 1] \o seqs[m] \in Seq(S)
    BY <2>5, ConcatProperties
  <2>7. g[m] = g[m - 1] \o seqs[m]
    BY <1>4, <2>4
  <2> QED
    BY <2>2, <2>6, <2>7
<1>6. \A m \in 1..n : g[m] \in Seq(S)
  BY <1>5
<1>7. g \in [1..n -> Seq(S)]
  <2>1. g = [m \in 1..n |-> g[m]]
    BY <1>1 DEF Flatten
  <2> QED
    BY <1>6, <2>1
<1> QED
  BY <1>2, <1>3, <1>4, <1>7 DEF Builds

LEMMA FlattenTyped ==
  ASSUME NEW S, NEW n \in Nat, NEW seqs \in [1..n -> Seq(S)]
  PROVE  /\ FlattenSeq(seqs) \in Seq(S)
         /\ n > 0 /\ seqs[n] # << >> => FlattenSeq(seqs) # << >>
<1>1. CASE n = 0
  <2>1. Len(seqs) = n /\ seqs = << >>
    BY <1>1, LenProperties, EmptySeq, seqs \in Seq(Seq(S))
  <2> QED
    BY <1>1, <2>1 DEF FlattenSeq
<1>2. CASE n # 0
  <2>0. PICK g \in [1..n -> Seq(S)] : Builds(g, seqs, n)
    BY <1>2, FlattenParts
  <2>1. /\ FlattenSeq(seqs) = g[n]
        /\ g[1] = seqs[1]
        /\ \A m \in 2..n : g[m] = g[m - 1] \o seqs[m]
    BY <2>0 DEF Builds
  <2>2. ASSUME n # 1, seqs[n] # << >> PROVE g[n] # << >>
    <3>0. n \in 2..n /\ n - 1 \in 1..n /\ n \in 1..n
      BY <1>2, <2>2
    <3>1. g[n] = g[n - 1] \o seqs[n] /\ g[n - 1] \in Seq(S) /\ seqs[n] \in Seq(S)
      BY <2>1, <3>0
    <3>2. Len(g[n]) = Len(g[n - 1]) + Len(seqs[n]) /\ Len(seqs[n]) # 0
      BY <2>2, <3>1, ConcatProperties, EmptySeq
    <3> QED
      BY <3>1, <3>2, LenProperties, EmptySeq
  <2>3. CASE n = 1
    BY <2>1, <2>3
  <2>4. CASE n # 1
    <3>1. g[n] \in Seq(S)
      BY <1>2, <2>1
    <3> QED
      BY <2>1, <2>2, <2>4, <3>1
  <2> QED
    BY <2>3, <2>4
<1> QED
  BY <1>1, <1>2

-----------------------------------------------------------------------------
(* Types *)

Names == Keys \cup Roles \cup OrgRoles \cup OrgPermissions \cup {NoRole}

PermissionStatements == {"upsertPermission", "createPermission"}
EditStatements == {"findPermissions", "setPermissions", "addPermissions", "removePermissions"}
RoleStatements ==
  EditStatements \cup
  { "upsertRole", "touchRole", "createRole", "createSystemRole", "connectFound",
    "activate", "deactivate", "refuseSystem", "deleteRole", "assignRole", "removeRole" }
GrantStatements == {"grant", "createGrant", "revoke"}
PlainStatements == {"setUserRoles", "grantDefaults", "readRoles", "deleteOrdinary", "deletePermissions"}

\* A statement names what its table has.
Fits(s) ==
  /\ s.do \in PermissionStatements => \E key \in Keys : s.keys = {key}
  /\ s.do \in RoleStatements => s.role \in Roles
  /\ s.do \in EditStatements => s.keys \subseteq Keys
  /\ s.do = "setUserRoles" => s.keys \subseteq Roles
  /\ s.do \in GrantStatements => s.role \in OrgRoles /\ s.keys \subseteq OrgPermissions

Statements ==
  {s \in [do : PermissionStatements \cup RoleStatements \cup GrantStatements \cup PlainStatements,
          role : Names, keys : SUBSET Names] : Fits(s)}

Outcomes == {"none", "done", "refused", "stopped", "allowed", "denied"}

CallRecords ==
  [op : Ops, role : Names, keys : SUBSET Names, todo : Seq(Statements),
   ask : SUBSET Names, found : SUBSET Keys, outcome : Outcomes]

TablesOK ==
  /\ permissions \subseteq Keys
  /\ \A k, other \in permissions : Triple[k] = Triple[other] => k = other
  /\ role \in [Roles -> [status : {"absent", "ACTIVE", "INACTIVE"},
                         system : BOOLEAN, keys : SUBSET permissions]]
  /\ \A r \in Roles : ~Exists(r) => role[r] = Absent
  /\ userRoles \subseteq {r \in Roles : Exists(r)}
  /\ grants \subseteq OrgRoles \X OrgPermissions

Checks == {"all", "any", "organization"}
Harmless == {s \in Statements : s.do # "deleteRole"}

\* What a call has yet to send: nothing before it began, questions only as a check,
\* and only deleteRole deletes the role it was asked to.
TodoInv(k) ==
  /\ k.op = "none" => k = NoCall
  /\ IF k.op \in Checks THEN k.todo = << >> ELSE k.ask = {}
  /\ k.op # "none" /\ k.outcome = "none" => k.todo # << >> \/ k.ask # {}
  /\ IF k.op = "deleteRole"
     THEN /\ k.role \in Roles
          /\ k.todo \in {DeleteRole(k.role), DeleteUnread(k.role), << >>}
     ELSE k.todo \in Seq(Harmless)

CallsOK ==
  /\ call \in [Calls -> CallRecords]
  /\ \A c \in Calls : TodoInv(call[c])

LEMMA StatementFits ==
  ASSUME NEW do \in PermissionStatements \cup RoleStatements \cup GrantStatements \cup PlainStatements,
         NEW r \in Names, NEW keys \in SUBSET Names, Fits(Statement(do, r, keys))
  PROVE  /\ Statement(do, r, keys) \in Statements
         /\ do # "deleteRole" => Statement(do, r, keys) \in Harmless
BY DEF Statements, Harmless, Statement

\* Sequences of one and of two statements.
LEMMA Few ==
  ASSUME NEW S, NEW s \in S, NEW t \in S
  PROVE  /\ << s >> \in Seq(S) /\ << s, t >> \in Seq(S)
         /\ Len(<< s >>) = 1 /\ Len(<< s, t >>) = 2
         /\ Head(<< s >>) = s /\ Tail(<< s >>) = << >>
         /\ Head(<< s, t >>) = s /\ Tail(<< s, t >>) = << t >>
OBVIOUS

LEMMA HarmlessStatements == Harmless \subseteq Statements /\ Seq(Harmless) \subseteq Seq(Statements)
<1>1. Harmless \subseteq Statements
  BY DEF Harmless
<1> QED
  BY <1>1

\* The seeds upsert, connect and grant, and delete no role.
LEMMA SeedPartsHarmless ==
  /\ SeedPermissions \in Seq(Harmless) /\ SeedPermissions # << >>
  /\ SeedRoles \in Seq(Harmless) /\ SeedOrganization \in Seq(Harmless)
<1>1. SeedPermissions \in Seq(Harmless) /\ SeedPermissions # << >>
  <2>1. /\ SystemPermissions \in [1..Len(SystemPermissions) -> Keys] /\ Len(SystemPermissions) \in Nat
        /\ DOMAIN SystemPermissions = 1..Len(SystemPermissions) /\ Len(SystemPermissions) # 0
    BY SeedsAssumption, LenProperties, EmptySeq
  <2>2. ASSUME NEW i \in 1..Len(SystemPermissions)
        PROVE  Statement("upsertPermission", NoRole, {SystemPermissions[i]}) \in Harmless
    BY <2>1, StatementFits
       DEF Fits, Statement, PermissionStatements, RoleStatements, EditStatements, GrantStatements, Names
  <2>3. SeedPermissions \in [1..Len(SystemPermissions) -> Harmless]
    BY <2>1, <2>2 DEF SeedPermissions
  <2>4. SeedPermissions \in Seq(Harmless)
    BY <2>1, <2>3, SeqDef
  <2>5. Len(SeedPermissions) = Len(SystemPermissions)
    BY <2>1, <2>3, <2>4, LenProperties
  <2> QED
    BY <2>1, <2>4, <2>5, EmptySeq
<1>2. SeedRoles \in Seq(Harmless)
  <2>1. DOMAIN SystemRoles = 1..Len(SystemRoles) /\ Len(SystemRoles) \in Nat
    BY SeedsAssumption, LenProperties
  <2>2. ASSUME NEW i \in 1..Len(SystemRoles)
        PROVE  SeedRole(SystemRoles[i].key, SystemRoles[i].keys) \in Seq(Harmless)
    <3> DEFINE r == SystemRoles[i].key
               keys == SystemRoles[i].keys
    <3>1. r \in Roles /\ keys \subseteq Keys
      <4>1. /\ SystemPermissions \in [1..Len(SystemPermissions) -> Keys]
            /\ DOMAIN SystemPermissions = 1..Len(SystemPermissions)
        BY SeedsAssumption, LenProperties
      <4>2. ToSet(SystemPermissions) \subseteq Keys
        BY <4>1 DEF ToSet
      <4>3. SystemRoles[i] \in [key : Roles, keys : SUBSET ToSet(SystemPermissions)]
        <5>1. SystemRoles \in Seq([key : Roles, keys : SUBSET ToSet(SystemPermissions)])
          BY SeedsAssumption
        <5> QED
          BY <5>1, ElementOfSeq
      <4> QED
        BY <4>2, <4>3
    <3> HIDE DEF r, keys
    <3>2. /\ Statement("upsertRole", r, {}) \in Harmless
          /\ Statement("findPermissions", r, keys) \in Harmless
          /\ Statement("setPermissions", r, {}) \in Harmless
          /\ Statement("connectFound", r, {}) \in Harmless
      BY <3>1, StatementFits
         DEF Fits, Statement, PermissionStatements, RoleStatements, EditStatements, GrantStatements, Names
    <3>3. SeedRole(r, keys) \in Seq(Harmless)
      BY <3>2 DEF SeedRole
    <3> QED
      BY <3>3 DEF r, keys
  <2>3. [i \in DOMAIN SystemRoles |-> SeedRole(SystemRoles[i].key, SystemRoles[i].keys)]
          \in [1..Len(SystemRoles) -> Seq(Harmless)]
    BY <2>1, <2>2
  <2> QED
    BY <2>1, <2>3, FlattenTyped DEF SeedRoles
<1>3. SeedOrganization \in Seq(Harmless)
  <2>1. /\ OrganizationGrants \in [1..Len(OrganizationGrants) -> OrgRoles \X OrgPermissions]
        /\ DOMAIN OrganizationGrants = 1..Len(OrganizationGrants) /\ Len(OrganizationGrants) \in Nat
    BY SeedsAssumption, LenProperties
  <2>2. ASSUME NEW i \in 1..Len(OrganizationGrants)
        PROVE  Statement("grant", OrganizationGrants[i][1], {OrganizationGrants[i][2]}) \in Harmless
    <3>1. OrganizationGrants[i][1] \in OrgRoles /\ OrganizationGrants[i][2] \in OrgPermissions
      BY <2>1
    <3> QED
      BY <3>1, StatementFits
         DEF Fits, Statement, PermissionStatements, RoleStatements, EditStatements, GrantStatements, Names
  <2>3. SeedOrganization \in [1..Len(OrganizationGrants) -> Harmless]
    BY <2>1, <2>2 DEF SeedOrganization
  <2> QED
    BY <2>1, <2>3, SeqDef
<1> QED
  BY <1>1, <1>2, <1>3

LEMMA SeedAllHarmless == SeedAll \in Seq(Harmless) /\ SeedAll # << >>
<1>1. SeedPermissions \o SeedRoles \in Seq(Harmless) /\ Len(SeedPermissions \o SeedRoles) # 0
  BY SeedPartsHarmless, ConcatProperties, LenProperties, EmptySeq
<1> QED
  BY <1>1, SeedPartsHarmless, ConcatProperties, LenProperties, EmptySeq DEF SeedAll

LEMMA SeedGlobalHarmless == SeedGlobal \in Seq(Harmless) /\ SeedGlobal # << >>
<1> DEFINE Block(i) ==
      LET r == GlobalRoles[i].key IN
      << Statement("touchRole", r, {}) >> \o
      FlattenSeq([j \in DOMAIN GlobalRoles[i].keys |->
         << Statement("upsertPermission", NoRole, {GlobalRoles[i].keys[j]}),
            Statement("addPermissions", r, {GlobalRoles[i].keys[j]}) >>])
<1>1. DOMAIN GlobalRoles = 1..Len(GlobalRoles) /\ Len(GlobalRoles) \in Nat
  BY SeedsAssumption, LenProperties
<1>2. ASSUME NEW i \in 1..Len(GlobalRoles)
      PROVE  Block(i) \in Seq(Harmless) /\ Block(i) # << >>
  <2> DEFINE r == GlobalRoles[i].key
             keys == GlobalRoles[i].keys
  <2>1. GlobalRoles[i] \in [key : Roles, keys : Seq(Keys)]
    <3>1. GlobalRoles \in Seq([key : Roles, keys : Seq(Keys)])
      BY SeedsAssumption
    <3> QED
      BY <3>1, ElementOfSeq
  <2>2. r \in Roles /\ keys \in Seq(Keys)
    BY <2>1
  <2> HIDE DEF r, keys
  <2>3. DOMAIN keys = 1..Len(keys) /\ Len(keys) \in Nat
    BY <2>2, LenProperties
  <2>4. ASSUME NEW j \in 1..Len(keys)
        PROVE  << Statement("upsertPermission", NoRole, {keys[j]}),
                  Statement("addPermissions", r, {keys[j]}) >> \in Seq(Harmless)
    <3>1. keys[j] \in Keys
      BY <2>2, ElementOfSeq
    <3>2. /\ Statement("upsertPermission", NoRole, {keys[j]}) \in Harmless
          /\ Statement("addPermissions", r, {keys[j]}) \in Harmless
      BY <2>2, <3>1, StatementFits
         DEF Fits, Statement, PermissionStatements, RoleStatements, EditStatements, GrantStatements, Names
    <3> QED
      BY <3>2
  <2>5. [j \in DOMAIN keys |-> << Statement("upsertPermission", NoRole, {keys[j]}),
                                  Statement("addPermissions", r, {keys[j]}) >>]
          \in [1..Len(keys) -> Seq(Harmless)]
    BY <2>3, <2>4
  <2>6. FlattenSeq([j \in DOMAIN keys |-> << Statement("upsertPermission", NoRole, {keys[j]}),
                                  Statement("addPermissions", r, {keys[j]}) >>]) \in Seq(Harmless)
    BY <2>3, <2>5, FlattenTyped
  <2>7. /\ << Statement("touchRole", r, {}) >> \in Seq(Harmless)
        /\ Len(<< Statement("touchRole", r, {}) >>) = 1
    <3>1. Statement("touchRole", r, {}) \in Harmless
      BY <2>2, StatementFits
         DEF Fits, Statement, PermissionStatements, RoleStatements, EditStatements, GrantStatements, Names
    <3> QED
      BY <3>1
  <2>8. ASSUME NEW s \in Seq(Harmless), NEW u \in Seq(Harmless), Len(s) = 1
        PROVE  s \o u \in Seq(Harmless) /\ s \o u # << >>
    <3>1. s \o u \in Seq(Harmless) /\ Len(s \o u) = 1 + Len(u) /\ Len(u) \in Nat
      BY <2>8, ConcatProperties, LenProperties
    <3> QED
      BY <3>1, EmptySeq
  <2> QED
    BY <2>6, <2>7, <2>8 DEF r, keys
<1> HIDE DEF Block
<1>3. [i \in DOMAIN GlobalRoles |-> Block(i)] \in [1..Len(GlobalRoles) -> Seq(Harmless)]
  BY <1>1, <1>2
<1>4. SeedGlobal = FlattenSeq([i \in DOMAIN GlobalRoles |-> Block(i)])
  BY DEF SeedGlobal, Block
<1>5. Len(GlobalRoles) > 0 /\ [i \in DOMAIN GlobalRoles |-> Block(i)][Len(GlobalRoles)] # << >>
  BY <1>1, <1>2, SeedsAssumption, EmptySeq
<1> QED
  BY <1>1, <1>3, <1>4, <1>5, FlattenTyped

\* The roles that clearing reads, each once.
LEMMA RolesInTurn ==
  ASSUME NEW S \in SUBSET Roles
  PROVE  /\ SetToSeq(S) \in Seq(S) /\ DOMAIN SetToSeq(S) = 1..Len(SetToSeq(S))
         /\ Len(SetToSeq(S)) \in Nat
<1>1. IsFiniteSet(S) /\ Cardinality(S) \in Nat
  BY RolesAssumption, FS_Subset, FS_CardinalityType
<1>2. IsFiniteSet(1..Cardinality(S)) /\ Cardinality(1..Cardinality(S)) = Cardinality(S)
  BY <1>1, FS_Interval
<1>3. PICK f : f \in Bijection(1..Cardinality(S), S)
  BY <1>1, <1>2, FS_SameCardinalityBij DEF ExistsBijection
<1>4. f \in [1..Cardinality(S) -> S] /\ IsInjective(f)
  BY <1>3 DEF Bijection, Injection
<1>5. SetToSeq(S) \in [1..Cardinality(S) -> S]
  BY <1>4 DEF SetToSeq
<1>6. SetToSeq(S) \in Seq(S)
  BY <1>1, <1>5, SeqDef
<1> QED
  BY <1>6, LenProperties

-----------------------------------------------------------------------------
(* Steps of calls *)

AccessTypes == TablesOK /\ CallsOK

\* A call as it was asked for.
Fresh(k) ==
  /\ k.op # "none" /\ k.outcome = "none" /\ k.found = {}
  /\ k.op \in Checks => k.ask = k.keys /\ k.keys # {}
  /\ k.op = "seed" => k.todo = SeedAll
  /\ k.op = "globalSeed" => k.todo = SeedGlobal
  /\ k.op = "clear" => k.todo = << Statement("readRoles", NoRole, {}) >>
  /\ k.op = "createRole" =>
       k.role \in Roles /\ \E isSystem \in BOOLEAN : k.todo = CreateRole(k.role, isSystem, k.keys)
  /\ k.op = "deleteRole" => k.todo = DeleteRole(k.role)
  /\ k.op = "setPermissions" =>
       k.role \in Roles /\ k.todo = << Statement("setPermissions", k.role, k.keys) >>
  /\ k.op = "setUserRoles" => k.todo = << Statement("setUserRoles", NoRole, k.keys) >>
  /\ k.op = "updateOrganizationRole" => k.todo = UpdateOrganizationRole(k.role, k.keys)

Begins(c, k) ==
  /\ call[c] = NoCall /\ call' = [call EXCEPT ![c] = k]
  /\ UNCHANGED tables

Begun(c, k, op, r, keys, todo) ==
  /\ Begins(c, k)
  /\ k.op = op /\ k.role = r /\ k.keys = keys /\ k.todo = todo
  /\ k.ask = {} /\ k.found = {} /\ k.outcome = "none"

LEMMA StartHolds ==
  ASSUME CallsOK, NEW c \in Calls, NEW op \in Ops, NEW r \in Names, NEW keys \in SUBSET Names,
         NEW todo \in Seq(Statements), Start(c, op, r, keys, todo)
  PROVE  \E k \in CallRecords : Begun(c, k, op, r, keys, todo)
<1> DEFINE k == [NoCall EXCEPT !.op = op, !.role = r, !.keys = keys, !.todo = todo]
<1>1. call[c] = NoCall
  BY DEF Start, CallsOK, TodoInv
<1>2. /\ k.op = op /\ k.role = r /\ k.keys = keys /\ k.todo = todo
      /\ k.ask = {} /\ k.found = {} /\ k.outcome = "none"
  BY DEF NoCall
<1>3. k \in CallRecords
  BY DEF NoCall, NoRole, Names, CallRecords, Outcomes
<1>4. Begins(c, k)
  BY <1>1 DEF Start, Begins
<1> HIDE DEF k
<1>5. Begun(c, k, op, r, keys, todo)
  BY <1>2, <1>4 DEF Begun
<1> QED
  BY <1>3, <1>5

LEMMA TwoInTurn ==
  ASSUME NEW S, NEW s \in S, NEW u \in S
  PROVE  << s >> \o << u >> = << s, u >>
<1>1. /\ << s >> \in Seq(S) /\ << u >> \in Seq(S) /\ << s, u >> \in Seq(S)
      /\ Len(<< s >>) = 1 /\ Len(<< u >>) = 1 /\ Len(<< s, u >>) = 2
  OBVIOUS
<1>2. /\ << s >> \o << u >> \in Seq(S) /\ Len(<< s >> \o << u >>) = 2
      /\ (<< s >> \o << u >>)[1] = s /\ (<< s >> \o << u >>)[2] = u
  BY <1>1, ConcatProperties
<1>3. \A i \in 1..2 : (<< s >> \o << u >>)[i] = << s, u >>[i]
  BY <1>2
<1> QED
  BY <1>1, <1>2, <1>3, SeqEqual

\* The requests of one statement, and the lists of few.
LEMMA ShortLists ==
  ASSUME NEW r \in Roles, NEW keys \in SUBSET Keys
  PROVE  /\ \A do \in EditStatements : Statement(do, r, keys) \in Harmless
         /\ \A do \in RoleStatements \ (EditStatements \cup {"deleteRole"}) :
              Statement(do, r, {}) \in Harmless
         /\ Statement("deleteRole", r, {}) \in Statements
         /\ \A isSystem \in BOOLEAN : CreateRole(r, isSystem, keys) \in Seq(Harmless) \ {<< >>}
<1>1. ASSUME NEW do \in EditStatements PROVE Statement(do, r, keys) \in Harmless
  BY StatementFits
     DEF Fits, Statement, PermissionStatements, RoleStatements, EditStatements, GrantStatements, Names
<1>2. ASSUME NEW do \in RoleStatements \ (EditStatements \cup {"deleteRole"})
      PROVE  Statement(do, r, {}) \in Harmless
  BY StatementFits
     DEF Fits, Statement, PermissionStatements, RoleStatements, EditStatements, GrantStatements, Names
<1>3. Statement("deleteRole", r, {}) \in Statements
  BY StatementFits
     DEF Fits, Statement, PermissionStatements, RoleStatements, EditStatements, GrantStatements, Names
<1>4. ASSUME NEW isSystem \in BOOLEAN
      PROVE  CreateRole(r, isSystem, keys) \in Seq(Harmless) \ {<< >>}
  <2> DEFINE s == Statement(IF isSystem THEN "createSystemRole" ELSE "createRole", r, {})
             u == Statement("addPermissions", r, keys)
  <2>1. s \in Harmless /\ u \in Harmless
    BY <1>1, <1>2 DEF RoleStatements, EditStatements
  <2> HIDE DEF s, u
  <2>2. << s >> \in Seq(Harmless) \ {<< >>} /\ << s, u >> \in Seq(Harmless) \ {<< >>}
    BY <2>1
  <2>4. << s >> \o << >> = << s >> /\ << s >> \o << u >> = << s, u >>
    BY <2>1, <2>2, ConcatEmptySeq, TwoInTurn
  <2>3. CreateRole(r, isSystem, keys) \in {<< s >> \o << >>, << s >> \o << u >>}
    BY DEF CreateRole, s, u
  <2> QED
    BY <2>2, <2>3, <2>4
<1> QED
  BY <1>1, <1>2, <1>3, <1>4

LEMMA GrantLists ==
  ASSUME NEW r \in OrgRoles, NEW ps \in SUBSET OrgPermissions
  PROVE  /\ GrantOnly(r, ps) \in Seq(Harmless) \ {<< >>}
         /\ UpdateOrganizationRole(r, ps) \in Seq(Harmless) \ {<< >>}
         /\ << Statement("revoke", r, {}) >> \in Seq(Harmless) \ {<< >>}
<1>1. Statement("grant", r, ps) \in Harmless /\ Statement("revoke", r, {}) \in Harmless
  BY StatementFits
     DEF Fits, Statement, PermissionStatements, RoleStatements, EditStatements, GrantStatements, Names
<1> QED
  BY <1>1 DEF GrantOnly, UpdateOrganizationRole

LEMMA SingleHarmless ==
  /\ SeedSingle \in Seq(Harmless) /\ SeedSingle # << >>
  /\ << Statement("grantDefaults", NoRole, {}) >> \in Seq(Harmless) \ {<< >>}
  /\ << Statement("readRoles", NoRole, {}) >> \in Seq(Harmless) \ {<< >>}
  /\ Statement("deleteOrdinary", NoRole, {}) \in Harmless
  /\ Statement("deletePermissions", NoRole, {}) \in Harmless
  /\ \A key \in Keys : << Statement("createPermission", NoRole, {key}) >> \in Seq(Harmless) \ {<< >>}
  /\ \A rs \in SUBSET Roles :
       << Statement("setUserRoles", NoRole, rs) >> \in Seq(Harmless) \ {<< >>}
<1>1. SeedSingle \in Seq(Harmless) /\ SeedSingle # << >>
  <2>1. /\ OrganizationGrants \in [1..Len(OrganizationGrants) -> OrgRoles \X OrgPermissions]
        /\ DOMAIN OrganizationGrants = 1..Len(OrganizationGrants) /\ Len(OrganizationGrants) \in Nat
        /\ Len(OrganizationGrants) # 0
    BY SeedsAssumption, LenProperties, EmptySeq
  <2>2. ASSUME NEW i \in 1..Len(OrganizationGrants)
        PROVE  Statement("createGrant", OrganizationGrants[i][1], {OrganizationGrants[i][2]}) \in Harmless
    <3>1. OrganizationGrants[i][1] \in OrgRoles /\ OrganizationGrants[i][2] \in OrgPermissions
      BY <2>1
    <3> QED
      BY <3>1, StatementFits
         DEF Fits, Statement, PermissionStatements, RoleStatements, EditStatements, GrantStatements, Names
  <2>3. SeedSingle \in [1..Len(OrganizationGrants) -> Harmless]
    BY <2>1, <2>2 DEF SeedSingle
  <2>4. SeedSingle \in Seq(Harmless)
    BY <2>1, <2>3, SeqDef
  <2>5. Len(SeedSingle) = Len(OrganizationGrants)
    BY <2>1, <2>3, <2>4, LenProperties
  <2> QED
    BY <2>1, <2>4, <2>5, EmptySeq
<1>2. \A do \in {"grantDefaults", "readRoles", "deleteOrdinary", "deletePermissions"} :
        Statement(do, NoRole, {}) \in Harmless
  BY StatementFits
     DEF Fits, Statement, PermissionStatements, RoleStatements, EditStatements, GrantStatements,
         PlainStatements, Names
<1>3. ASSUME NEW key \in Keys PROVE Statement("createPermission", NoRole, {key}) \in Harmless
  BY StatementFits
     DEF Fits, Statement, PermissionStatements, RoleStatements, EditStatements, GrantStatements, Names
<1>4. ASSUME NEW rs \in SUBSET Roles PROVE Statement("setUserRoles", NoRole, rs) \in Harmless
  BY StatementFits
     DEF Fits, Statement, PermissionStatements, RoleStatements, EditStatements, GrantStatements,
         PlainStatements, Names
<1> QED
  BY <1>1, <1>2, <1>3, <1>4
\* A call that is asked for, with a list of statements that become it.
Sends(op, todo) ==
  /\ op \in Ops /\ op \notin Checks /\ op # "none" /\ op # "deleteRole"
  /\ todo \in Seq(Harmless) /\ todo # << >>

LEMMA StartFits ==
  ASSUME CallsOK, NEW c \in Calls, NEW op \in Ops, NEW r \in Names, NEW keys \in SUBSET Names,
         NEW todo, Sends(op, todo),
         Start(c, op, r, keys, todo)
  PROVE  \E k \in CallRecords : Begun(c, k, op, r, keys, todo) /\ TodoInv(k)
<1>0. todo \in Seq(Statements)
  BY HarmlessStatements DEF Sends
<1>1. PICK k \in CallRecords : Begun(c, k, op, r, keys, todo)
  BY <1>0, StartHolds
<1>2. TodoInv(k)
  BY <1>1 DEF TodoInv, Sends, Begun
<1> QED
  BY <1>1, <1>2

LEMMA SeedStarts ==
  ASSUME CallsOK, NEW c \in Calls,
         \/ StartSeed(c) \/ StartGlobalSeed(c) \/ StartSeedSingle(c)
         \/ StartDefaults(c) \/ StartClear(c)
         \/ \E key \in Keys : StartCreatePermission(c, key)
         \/ \E rs \in SUBSET Roles : StartSetUserRoles(c, rs)
  PROVE  \E k \in CallRecords : Begins(c, k) /\ TodoInv(k) /\ Fresh(k)
<1>0. /\ \A op \in {"seed", "globalSeed", "seedSingle", "defaults", "clear", "createPermission",
                   "setUserRoles"} :
           op \in Ops /\ \A todo \in Seq(Harmless) : todo # << >> => Sends(op, todo)
      /\ NoRole \in Names /\ {} \in SUBSET Names
      /\ \A key \in Keys : {key} \in SUBSET Names
      /\ \A rs \in SUBSET Roles : rs \in SUBSET Names
  BY DEF Ops, Checks, Names, Sends
<1>1. CASE StartSeed(c)
  <2>1. Sends("seed", SeedAll)
    BY <1>0, SeedAllHarmless
  <2>2. PICK k \in CallRecords : Begun(c, k, "seed", NoRole, {}, SeedAll) /\ TodoInv(k)
    BY <1>0, <1>1, <2>1, StartFits DEF StartSeed
  <2> QED
    BY <2>2 DEF Begun, Fresh, Checks
<1>2. CASE StartGlobalSeed(c)
  <2>1. Sends("globalSeed", SeedGlobal)
    BY <1>0, SeedGlobalHarmless
  <2>2. PICK k \in CallRecords : Begun(c, k, "globalSeed", NoRole, {}, SeedGlobal) /\ TodoInv(k)
    BY <1>0, <1>2, <2>1, StartFits DEF StartGlobalSeed
  <2> QED
    BY <2>2 DEF Begun, Fresh, Checks
<1>3. CASE StartSeedSingle(c)
  <2>1. Sends("seedSingle", SeedSingle)
    BY <1>0, SingleHarmless
  <2>2. PICK k \in CallRecords : Begun(c, k, "seedSingle", NoRole, {}, SeedSingle) /\ TodoInv(k)
    BY <1>0, <1>3, <2>1, StartFits DEF StartSeedSingle
  <2> QED
    BY <2>2 DEF Begun, Fresh, Checks
<1>4. CASE StartDefaults(c)
  <2> DEFINE todo == << Statement("grantDefaults", NoRole, {}) >>
  <2>1. Sends("defaults", todo)
    BY <1>0, SingleHarmless
  <2>2. Start(c, "defaults", NoRole, {}, todo)
    BY <1>4 DEF StartDefaults
  <2> HIDE DEF todo
  <2>3. PICK k \in CallRecords : Begun(c, k, "defaults", NoRole, {}, todo) /\ TodoInv(k)
    BY <1>0, <2>1, <2>2, StartFits
  <2> QED
    BY <2>3 DEF Begun, Fresh, Checks
<1>5. CASE StartClear(c)
  <2> DEFINE todo == << Statement("readRoles", NoRole, {}) >>
  <2>1. Sends("clear", todo)
    BY <1>0, SingleHarmless
  <2>2. Start(c, "clear", NoRole, {}, todo)
    BY <1>5 DEF StartClear
  <2> HIDE DEF todo
  <2>3. PICK k \in CallRecords : Begun(c, k, "clear", NoRole, {}, todo) /\ TodoInv(k)
    BY <1>0, <2>1, <2>2, StartFits
  <2> QED
    BY <2>3 DEF Begun, Fresh, Checks, todo
<1>6. ASSUME NEW key \in Keys, StartCreatePermission(c, key)
      PROVE  \E k \in CallRecords : Begins(c, k) /\ TodoInv(k) /\ Fresh(k)
  <2> DEFINE todo == << Statement("createPermission", NoRole, {key}) >>
  <2>1. Sends("createPermission", todo)
    BY <1>0, SingleHarmless
  <2>2. Start(c, "createPermission", NoRole, {key}, todo)
    BY <1>6 DEF StartCreatePermission
  <2> HIDE DEF todo
  <2>3. PICK k \in CallRecords : Begun(c, k, "createPermission", NoRole, {key}, todo) /\ TodoInv(k)
    BY <1>0, <2>1, <2>2, StartFits
  <2> QED
    BY <2>3 DEF Begun, Fresh, Checks
<1>7. ASSUME NEW rs \in SUBSET Roles, StartSetUserRoles(c, rs)
      PROVE  \E k \in CallRecords : Begins(c, k) /\ TodoInv(k) /\ Fresh(k)
  <2> DEFINE todo == << Statement("setUserRoles", NoRole, rs) >>
  <2>1. Sends("setUserRoles", todo)
    BY <1>0, SingleHarmless
  <2>2. Start(c, "setUserRoles", NoRole, rs, todo)
    BY <1>7 DEF StartSetUserRoles
  <2> HIDE DEF todo
  <2>3. PICK k \in CallRecords : Begun(c, k, "setUserRoles", NoRole, rs, todo) /\ TodoInv(k)
    BY <1>0, <2>1, <2>2, StartFits
  <2> QED
    BY <2>3 DEF Begun, Fresh, Checks, todo
<1> QED
  BY <1>1, <1>2, <1>3, <1>4, <1>5, <1>6, <1>7

LEMMA RoleStarts ==
  ASSUME CallsOK, NEW c \in Calls, NEW r \in Roles, NEW keys \in SUBSET Keys,
         \/ \E isSystem \in BOOLEAN : StartCreateRole(c, r, isSystem, keys)
         \/ StartDeleteRole(c, r)
         \/ \E op \in Relinking : StartOne(c, op, r, keys)
         \/ \E op \in Relabelling : StartOne(c, op, r, {})
  PROVE  \E k \in CallRecords : Begins(c, k) /\ TodoInv(k) /\ Fresh(k)
<1>0. /\ \A op \in {"createRole"} \cup Relinking \cup Relabelling :
           op \in Ops /\ \A todo \in Seq(Harmless) : todo # << >> => Sends(op, todo)
      /\ r \in Names /\ keys \in SUBSET Names /\ {} \in SUBSET Names
  BY DEF Ops, Checks, Names, Sends, Relinking, Relabelling
<1>1. ASSUME NEW isSystem \in BOOLEAN, StartCreateRole(c, r, isSystem, keys)
      PROVE  \E k \in CallRecords : Begins(c, k) /\ TodoInv(k) /\ Fresh(k)
  <2> DEFINE todo == CreateRole(r, isSystem, keys)
  <2>1. Sends("createRole", todo)
    BY <1>0, ShortLists
  <2>2. Start(c, "createRole", r, keys, todo)
    BY <1>1 DEF StartCreateRole
  <2> HIDE DEF todo
  <2>3. PICK k \in CallRecords : Begun(c, k, "createRole", r, keys, todo) /\ TodoInv(k)
    BY <1>0, <2>1, <2>2, StartFits
  <2> QED
    BY <2>3 DEF Begun, Fresh, Checks, todo
<1>2. CASE StartDeleteRole(c, r)
  <2> DEFINE todo == DeleteRole(r)
  <2>1. todo \in Seq(Statements) /\ todo # << >>
    <3>1. Statement("refuseSystem", r, {}) \in Statements /\ Statement("deleteRole", r, {}) \in Statements
      BY ShortLists, HarmlessStatements DEF RoleStatements, EditStatements
    <3> QED
      BY <3>1 DEF DeleteRole
  <2>2. Start(c, "deleteRole", r, {}, todo)
    BY <1>2 DEF StartDeleteRole
  <2> HIDE DEF todo
  <2>3. PICK k \in CallRecords : Begun(c, k, "deleteRole", r, {}, todo)
    BY <1>0, <2>1, <2>2, StartHolds, "deleteRole" \in Ops DEF Ops
  <2>4. TodoInv(k) /\ Fresh(k)
    BY <2>1, <2>3 DEF Begun, Fresh, TodoInv, Checks, todo
  <2> QED
    BY <2>3, <2>4 DEF Begun
<1>3. ASSUME NEW op \in Relinking, StartOne(c, op, r, keys)
      PROVE  \E k \in CallRecords : Begins(c, k) /\ TodoInv(k) /\ Fresh(k)
  <2> DEFINE todo == << Statement(op, r, keys) >>
  <2>1. Sends(op, todo)
    <3>1. Statement(op, r, keys) \in Harmless
      BY ShortLists DEF Relinking, EditStatements
    <3>2. todo \in Seq(Harmless) /\ todo # << >>
      BY <3>1
    <3> QED
      BY <1>0, <3>2
  <2>2. Start(c, op, r, keys, todo)
    BY <1>3 DEF StartOne
  <2> HIDE DEF todo
  <2>3. PICK k \in CallRecords : Begun(c, k, op, r, keys, todo) /\ TodoInv(k)
    BY <1>0, <2>1, <2>2, StartFits
  <2> QED
    BY <2>3 DEF Begun, Fresh, Checks, todo, Relinking
<1>4. ASSUME NEW op \in Relabelling, StartOne(c, op, r, {})
      PROVE  \E k \in CallRecords : Begins(c, k) /\ TodoInv(k) /\ Fresh(k)
  <2> DEFINE todo == << Statement(op, r, {}) >>
  <2>1. Sends(op, todo)
    <3>1. Statement(op, r, {}) \in Harmless
      BY ShortLists DEF Relabelling, RoleStatements, EditStatements
    <3>2. todo \in Seq(Harmless) /\ todo # << >>
      BY <3>1
    <3> QED
      BY <1>0, <3>2
  <2>2. Start(c, op, r, {}, todo)
    BY <1>4 DEF StartOne
  <2> HIDE DEF todo
  <2>3. PICK k \in CallRecords : Begun(c, k, op, r, {}, todo) /\ TodoInv(k)
    BY <1>0, <2>1, <2>2, StartFits
  <2> QED
    BY <2>3 DEF Begun, Fresh, Checks, Relabelling
<1> QED
  BY <1>1, <1>2, <1>3, <1>4

LEMMA GrantStarts ==
  ASSUME CallsOK, NEW c \in Calls, NEW r \in OrgRoles,
         \/ \E ps \in SUBSET OrgPermissions :
              StartCreateOrganizationRole(c, r, ps) \/ StartUpdateOrganizationRole(c, r, ps)
         \/ StartDeleteOrganizationRole(c, r)
  PROVE  \E k \in CallRecords : Begins(c, k) /\ TodoInv(k) /\ Fresh(k)
<1>0. /\ \A op \in {"createOrganizationRole", "updateOrganizationRole", "deleteOrganizationRole"} :
           op \in Ops /\ \A todo \in Seq(Harmless) : todo # << >> => Sends(op, todo)
      /\ r \in Names /\ {} \in SUBSET Names /\ SUBSET OrgPermissions \subseteq SUBSET Names
  BY DEF Ops, Checks, Names, Sends
<1>1. ASSUME NEW ps \in SUBSET OrgPermissions, StartCreateOrganizationRole(c, r, ps)
      PROVE  \E k \in CallRecords : Begins(c, k) /\ TodoInv(k) /\ Fresh(k)
  <2> DEFINE todo == GrantOnly(r, ps)
  <2>1. Sends("createOrganizationRole", todo)
    BY <1>0, GrantLists
  <2>2. Start(c, "createOrganizationRole", r, ps, todo)
    BY <1>1 DEF StartCreateOrganizationRole
  <2> HIDE DEF todo
  <2>3. PICK k \in CallRecords : Begun(c, k, "createOrganizationRole", r, ps, todo) /\ TodoInv(k)
    BY <1>0, <2>1, <2>2, StartFits
  <2> QED
    BY <2>3 DEF Begun, Fresh, Checks
<1>2. ASSUME NEW ps \in SUBSET OrgPermissions, StartUpdateOrganizationRole(c, r, ps)
      PROVE  \E k \in CallRecords : Begins(c, k) /\ TodoInv(k) /\ Fresh(k)
  <2> DEFINE todo == UpdateOrganizationRole(r, ps)
  <2>1. Sends("updateOrganizationRole", todo)
    BY <1>0, GrantLists
  <2>2. Start(c, "updateOrganizationRole", r, ps, todo)
    BY <1>2 DEF StartUpdateOrganizationRole
  <2> HIDE DEF todo
  <2>3. PICK k \in CallRecords : Begun(c, k, "updateOrganizationRole", r, ps, todo) /\ TodoInv(k)
    BY <1>0, <2>1, <2>2, StartFits
  <2> QED
    BY <2>3 DEF Begun, Fresh, Checks, todo
<1>3. CASE StartDeleteOrganizationRole(c, r)
  <2> DEFINE todo == << Statement("revoke", r, {}) >>
  <2>0. todo \in Seq(Harmless) \ {<< >>}
    BY GrantLists, {} \in SUBSET OrgPermissions
  <2>1. Sends("deleteOrganizationRole", todo)
    BY <1>0, <2>0
  <2>2. Start(c, "deleteOrganizationRole", r, {}, todo)
    BY <1>3 DEF StartDeleteOrganizationRole
  <2> HIDE DEF todo
  <2>3. PICK k \in CallRecords : Begun(c, k, "deleteOrganizationRole", r, {}, todo) /\ TodoInv(k)
    BY <1>0, <2>1, <2>2, StartFits
  <2> QED
    BY <2>3 DEF Begun, Fresh, Checks
<1> QED
  BY <1>1, <1>2, <1>3

LEMMA CheckStarts ==
  ASSUME CallsOK, NEW c \in Calls, NEW op \in Checks, NEW r \in Names,
         NEW asked \in SUBSET Names, asked # {}, StartCheck(c, op, r, asked)
  PROVE  \E k \in CallRecords : Begins(c, k) /\ TodoInv(k) /\ Fresh(k)
<1> DEFINE k == [NoCall EXCEPT !.op = op, !.role = r, !.keys = asked, !.ask = asked]
<1>1. call[c] = NoCall
  BY DEF StartCheck, CallsOK, TodoInv
<1>2. /\ k.op = op /\ k.role = r /\ k.keys = asked /\ k.todo = << >>
      /\ k.ask = asked /\ k.found = {} /\ k.outcome = "none"
  BY DEF NoCall
<1>3. k \in CallRecords
  <2>1. op \in Ops
    BY DEF Ops, Checks
  <2>2. << >> \in Seq(Statements) /\ {} \in SUBSET Keys /\ "none" \in Outcomes
    BY DEF Outcomes
  <2> QED
    BY <2>1, <2>2 DEF NoCall, CallRecords
<1>4. Begins(c, k)
  BY <1>1 DEF StartCheck, Begins
<1> HIDE DEF k
<1>5. TodoInv(k) /\ Fresh(k)
  BY <1>2 DEF TodoInv, Fresh, Checks
<1> QED
  BY <1>3, <1>4, <1>5

LEMMA SomethingStarts ==
  ASSUME CallsOK, NEW c \in Calls, StartSomething(c)
  PROVE  \E k \in CallRecords : Begins(c, k) /\ TodoInv(k) /\ Fresh(k)
<1>0. /\ KeySets \subseteq SUBSET Keys /\ {} \in SUBSET Keys /\ NoRole \in Names
      /\ SUBSET Keys \subseteq SUBSET Names /\ SUBSET OrgRoles \subseteq SUBSET Names
      /\ OrgPermissions \subseteq Names
  BY SeedsAssumption DEF Names
<1>1. CASE \E r \in Roles :
             \/ \E isSystem \in BOOLEAN, keys \in KeySets : StartCreateRole(c, r, isSystem, keys)
             \/ StartDeleteRole(c, r)
             \/ \E op \in Relinking, keys \in KeySets : StartOne(c, op, r, keys)
             \/ \E op \in Relabelling : StartOne(c, op, r, {})
  BY <1>0, <1>1, RoleStarts
<1>2. CASE \E r \in OrgRoles :
             \/ \E ps \in SUBSET OrgPermissions :
                  \/ StartCreateOrganizationRole(c, r, ps)
                  \/ StartUpdateOrganizationRole(c, r, ps)
             \/ StartDeleteOrganizationRole(c, r)
  BY <1>2, GrantStarts
<1>3. CASE \E op \in {"all", "any"}, keys \in KeySets \ {{}} : StartCheck(c, op, NoRole, keys)
  BY <1>0, <1>3, CheckStarts DEF Checks
<1>4. ASSUME NEW p \in OrgPermissions, NEW rs \in (SUBSET OrgRoles) \ {{}},
             StartCheck(c, "organization", p, rs)
      PROVE  \E k \in CallRecords : Begins(c, k) /\ TodoInv(k) /\ Fresh(k)
  <2>0. rs \in SUBSET OrgRoles /\ rs # {}
    OBVIOUS
  <2>1. "organization" \in Checks /\ p \in Names /\ rs \in SUBSET Names
    BY <2>0 DEF Checks, Names
  <2> QED
    BY <1>4, <2>0, <2>1, CheckStarts
<1> QED
  BY <1>1, <1>2, <1>3, <1>4, SeedStarts DEF StartSomething

\* What is left to send fits the operation.
Remains(op, r, rest) ==
  /\ rest \in Seq(Statements)
  /\ IF op = "deleteRole" THEN rest \in {DeleteUnread(r), << >>} ELSE rest \in Seq(Harmless)

Sending(c) ==
  /\ call[c].op \notin Checks /\ call[c].op # "none" /\ call[c].outcome = "none"
  /\ call[c].ask = {}

\* A call goes on, or ends.
Moves(c, k) ==
  /\ call' = [call EXCEPT ![c] = k] /\ TodoInv(k)
  /\ k.op = call[c].op /\ k.role = call[c].role /\ k.keys = call[c].keys
  /\ call[c].op # "none" /\ call[c].outcome = "none"

\* What the next statement of a call can be.
LEMMA DoingHolds ==
  ASSUME CallsOK, NEW c \in Calls, NEW do, Doing(c, do)
  PROVE  /\ call[c] \in CallRecords /\ Sending(c)
         /\ Head(call[c].todo) \in Statements /\ Head(call[c].todo).do = do
         /\ Remains(call[c].op, call[c].role, Tail(call[c].todo))
         /\ do = "deleteRole" => call[c].op = "deleteRole" /\ Head(call[c].todo).role = call[c].role
         /\ call[c].op = "deleteRole" => do \in {"refuseSystem", "deleteRole"}
<1>1. /\ call[c] \in CallRecords /\ TodoInv(call[c])
      /\ call[c].op # "none" /\ call[c].outcome = "none" /\ call[c].todo # << >>
      /\ Head(call[c].todo).do = do
  BY DEF CallsOK, Doing, Running
<1>2. Sending(c)
  BY <1>1 DEF TodoInv, Sending
<1> DEFINE todo == call[c].todo
<1>3. todo \in Seq(Statements)
  BY <1>1 DEF CallRecords
<1> HIDE DEF todo
<1>4. Head(todo) \in Statements /\ Tail(todo) \in Seq(Statements)
  BY <1>1, <1>3, HeadTailProperties DEF todo
<1>5. CASE call[c].op = "deleteRole"
  <2> DEFINE r == call[c].role
  <2>1. r \in Roles /\ todo \in {DeleteRole(r), DeleteUnread(r)}
    BY <1>1, <1>5 DEF TodoInv, todo
  <2> HIDE DEF r
  <2> DEFINE s == Statement("refuseSystem", r, {})
             u == Statement("deleteRole", r, {})
  <2>2. s.do = "refuseSystem" /\ u.do = "deleteRole" /\ u.role = r /\ s.role = r
    BY DEF Statement
  <2>3. DeleteRole(r) = << s, u >> /\ DeleteUnread(r) = << u >>
    BY DEF DeleteRole, DeleteUnread
  <2> HIDE DEF s, u
  <2>4. /\ Head(DeleteRole(r)) = s /\ Tail(DeleteRole(r)) = DeleteUnread(r)
        /\ Head(DeleteUnread(r)) = u /\ Tail(DeleteUnread(r)) = << >>
    BY <2>3
  <2>5. CASE todo = DeleteRole(r)
    BY <1>1, <1>2, <1>4, <1>5, <2>2, <2>4, <2>5 DEF Remains, todo, r
  <2>6. CASE todo = DeleteUnread(r)
    BY <1>1, <1>2, <1>4, <1>5, <2>2, <2>4, <2>6 DEF Remains, todo, r
  <2> QED
    BY <2>1, <2>5, <2>6
<1>6. CASE call[c].op # "deleteRole"
  <2>1. todo \in Seq(Harmless)
    BY <1>1, <1>6 DEF TodoInv, todo
  <2>2. Head(todo) \in Harmless /\ Tail(todo) \in Seq(Harmless)
    BY <1>1, <2>1, HeadTailProperties DEF todo
  <2>3. do # "deleteRole"
    BY <1>1, <2>2 DEF Harmless, todo
  <2> QED
    BY <1>1, <1>2, <1>4, <1>6, <2>2, <2>3 DEF Remains, todo
<1> QED
  BY <1>5, <1>6

LEMMA ContinueHolds ==
  ASSUME CallsOK, NEW c \in Calls, Sending(c), NEW found \in SUBSET Keys, NEW rest,
         Remains(call[c].op, call[c].role, rest), Continue(c, found, rest)
  PROVE  \E k \in CallRecords : /\ Moves(c, k) /\ k.todo = rest /\ k.found = found
                                /\ k.outcome \in {"none", "done"}
                                /\ k.outcome = "done" <=> rest = << >>
<1>1. call[c] \in CallRecords /\ TodoInv(call[c]) /\ call \in [Calls -> CallRecords]
  BY DEF CallsOK
<1> DEFINE o == IF rest = << >> THEN "done" ELSE "none"
           k == [call[c] EXCEPT !.todo = rest, !.found = found, !.outcome = o]
<1>2. rest \in Seq(Statements) /\ o \in Outcomes /\ o \in {"none", "done"}
  BY DEF Remains, Outcomes
<1>7. (o = "done" <=> rest = << >>) /\ (o = "none" <=> rest # << >>)
  OBVIOUS
<1>3. call' = [call EXCEPT ![c] = k]
  BY <1>1 DEF Continue
<1> HIDE DEF o
<1>4. k \in CallRecords
  BY <1>1, <1>2 DEF CallRecords
<1>5. /\ k.op = call[c].op /\ k.role = call[c].role /\ k.keys = call[c].keys
      /\ k.todo = rest /\ k.found = found /\ k.outcome = o /\ k.ask = call[c].ask
  BY <1>1 DEF CallRecords
<1> HIDE DEF k
<1>6. TodoInv(k)
  BY <1>1, <1>2, <1>5, <1>7 DEF TodoInv, Sending, Remains
<1> QED
  BY <1>2, <1>3, <1>4, <1>5, <1>6, <1>7 DEF Moves, Sending

LEMMA AdvanceHolds ==
  ASSUME CallsOK, NEW c \in Calls, NEW do, Doing(c, do), Advance(c)
  PROVE  \E k \in CallRecords : /\ Moves(c, k) /\ k.todo = Tail(call[c].todo)
                                /\ k.found = call[c].found
                                /\ k.outcome \in {"none", "done"}
                                /\ k.outcome = "done" <=> Tail(call[c].todo) = << >>
<1> DEFINE rest == Tail(call[c].todo)
           found == call[c].found
<1>1. Sending(c) /\ Remains(call[c].op, call[c].role, rest) /\ call[c] \in CallRecords
  BY DoingHolds
<1>2. found \in SUBSET Keys
  BY <1>1 DEF CallRecords
<1>3. Continue(c, found, rest)
  BY DEF Advance
<1> HIDE DEF rest, found
<1>4. PICK k \in CallRecords : /\ Moves(c, k) /\ k.todo = rest /\ k.found = found
                               /\ k.outcome \in {"none", "done"}
                               /\ k.outcome = "done" <=> rest = << >>
  BY <1>1, <1>2, <1>3, ContinueHolds
<1> QED
  BY <1>4 DEF rest, found

LEMMA EndedHolds ==
  ASSUME CallsOK, NEW c \in Calls, call[c].op # "none", call[c].outcome = "none",
         NEW outcome \in Outcomes \ {"none"}, call' = Ended(c, outcome)
  PROVE  \E k \in CallRecords : /\ Moves(c, k) /\ k.todo = call[c].todo /\ k.ask = call[c].ask
                                /\ k.outcome = outcome
<1>1. call[c] \in CallRecords /\ TodoInv(call[c]) /\ call \in [Calls -> CallRecords]
  BY DEF CallsOK
<1> DEFINE k == [call[c] EXCEPT !.outcome = outcome]
<1>2. call' = [call EXCEPT ![c] = k]
  BY <1>1 DEF Ended
<1>3. k \in CallRecords
  BY <1>1 DEF CallRecords
<1>4. /\ k.op = call[c].op /\ k.role = call[c].role /\ k.keys = call[c].keys
      /\ k.todo = call[c].todo /\ k.outcome = outcome /\ k.ask = call[c].ask
  BY <1>1 DEF CallRecords
<1> HIDE DEF k
<1>5. TodoInv(k)
  BY <1>1, <1>4 DEF TodoInv
<1> QED
  BY <1>2, <1>3, <1>4, <1>5 DEF Moves

LEMMA RefuseHolds ==
  ASSUME CallsOK, NEW c \in Calls, NEW do, Doing(c, do), Refuse(c)
  PROVE  /\ UNCHANGED tables
         /\ \E k \in CallRecords :
              /\ Moves(c, k) /\ k.todo = call[c].todo /\ k.ask = call[c].ask
              /\ k.outcome \in {"done", "refused"}
              /\ k.outcome = "done" => call[c].op = "seedSingle"
<1>1. call[c].op # "none" /\ call[c].outcome = "none"
  BY DoingHolds DEF Sending
<1> DEFINE o == IF call[c].op = "seedSingle" THEN "done" ELSE "refused"
<1>2. o \in Outcomes \ {"none"} /\ o \in {"done", "refused"}
      /\ (o = "done" => call[c].op = "seedSingle")
  BY DEF Outcomes
<1>3. call' = Ended(c, o) /\ UNCHANGED tables
  BY DEF Refuse
<1> HIDE DEF o
<1>4. PICK k \in CallRecords : /\ Moves(c, k) /\ k.todo = call[c].todo /\ k.ask = call[c].ask
                               /\ k.outcome = o
  BY <1>1, <1>2, <1>3, EndedHolds
<1> QED
  BY <1>2, <1>3, <1>4

\* A step of a call that has begun.
StepHolds(c) == TablesOK' /\ \E k \in CallRecords : Moves(c, k)

LEMMA TablesStand == ASSUME TablesOK, UNCHANGED tables PROVE TablesOK'
BY DEF TablesOK, tables, Exists

LEMMA RefuseStep ==
  ASSUME AccessTypes, NEW c \in Calls, NEW do, Doing(c, do), Refuse(c)
  PROVE  StepHolds(c)
BY RefuseHolds, TablesStand DEF AccessTypes, StepHolds

LEMMA AdvanceStep ==
  ASSUME CallsOK, NEW c \in Calls, NEW do, Doing(c, do), Advance(c), TablesOK'
  PROVE  StepHolds(c)
BY AdvanceHolds DEF StepHolds

Rows == [status : {"absent", "ACTIVE", "INACTIVE"}, system : BOOLEAN, keys : SUBSET permissions]

\* A row of the roles is written.
LEMMA RowWritten ==
  ASSUME TablesOK, NEW r \in Roles, NEW row \in Rows, row.status # "absent",
         role' = [role EXCEPT ![r] = row], UNCHANGED <<permissions, userRoles, grants>>
  PROVE  TablesOK'
<1>1. role \in [Roles -> Rows] /\ \A q \in Roles : role[q].status = "absent" => role[q] = Absent
  BY DEF TablesOK, Rows, Exists
<1>2. role' \in [Roles -> Rows] /\ \A q \in Roles : role'[q] = IF q = r THEN row ELSE role[q]
  BY <1>1
<1>3. \A q \in Roles : role'[q].status = "absent" => role'[q] = Absent
  BY <1>1, <1>2
<1>4. userRoles \subseteq {q \in Roles : role'[q].status # "absent"}
  BY <1>2 DEF TablesOK, Exists
<1> QED
  BY <1>2, <1>3, <1>4 DEF TablesOK, Rows, Exists

\* A permission that clashes with none is added.
LEMMA PermissionAdded ==
  ASSUME TablesOK, NEW key \in Keys, ~Clashes(key), permissions' = permissions \cup {key},
         UNCHANGED <<role, userRoles, grants>>
  PROVE  TablesOK'
<1>1. permissions' \subseteq Keys
  BY DEF TablesOK
<1>2. \A k, other \in permissions' : Triple[k] = Triple[other] => k = other
  BY DEF TablesOK, Clashes
<1>3. role \in [Roles -> [status : {"absent", "ACTIVE", "INACTIVE"},
                          system : BOOLEAN, keys : SUBSET permissions]]
  BY DEF TablesOK
<1>4. [status : {"absent", "ACTIVE", "INACTIVE"}, system : BOOLEAN, keys : SUBSET permissions]
        \subseteq [status : {"absent", "ACTIVE", "INACTIVE"}, system : BOOLEAN, keys : SUBSET permissions']
  OBVIOUS
<1>5. role' \in [Roles -> [status : {"absent", "ACTIVE", "INACTIVE"},
                          system : BOOLEAN, keys : SUBSET permissions']]
  BY <1>3, <1>4
<1> QED
  BY <1>1, <1>2, <1>5 DEF TablesOK, Exists

\* The key a statement on permissions names.
LEMMA OneKey ==
  ASSUME NEW s \in Statements, s.do \in PermissionStatements
  PROVE  (CHOOSE k \in s.keys : TRUE) \in Keys /\ s.keys = {CHOOSE k \in s.keys : TRUE}
<1>1. PICK key \in Keys : s.keys = {key}
  BY DEF Statements, Fits
<1>2. (CHOOSE k \in s.keys : TRUE) \in s.keys
  BY <1>1
<1> QED
  BY <1>1, <1>2

LEMMA PermissionSteps ==
  ASSUME AccessTypes, NEW c \in Calls, UpsertPermission(c) \/ CreatePermission(c)
  PROVE  StepHolds(c)
<1> DEFINE s == Head(call[c].todo)
           key == CHOOSE k \in s.keys : TRUE
<1>1. PICK do \in PermissionStatements :
        /\ Doing(c, do)
        /\ \/ Refuse(c)
           \/ /\ ~Clashes(key) /\ permissions' = permissions \cup {key}
              /\ Advance(c) /\ UNCHANGED <<role, userRoles, grants>>
  BY DEF UpsertPermission, CreatePermission, PermissionStatements
<1>2. s \in Statements /\ s.do = do
  BY <1>1, DoingHolds DEF AccessTypes
<1>3. key \in Keys
  BY <1>1, <1>2, OneKey
<1> HIDE DEF key, s
<1>4. CASE ~Refuse(c)
  <2>1. TablesOK'
    BY <1>1, <1>3, <1>4, PermissionAdded DEF AccessTypes
  <2> QED
    BY <1>1, <1>4, <2>1, AdvanceStep DEF AccessTypes
<1> QED
  BY <1>1, <1>4, RefuseStep

LEMMA UpsertRoleStep ==
  ASSUME AccessTypes, NEW c \in Calls, UpsertRole(c)
  PROVE  StepHolds(c)
<1> DEFINE s == Head(call[c].todo)
           r == s.role
<1>1. PICK do \in {"upsertRole", "touchRole"} :
        /\ Doing(c, do) /\ Advance(c) /\ UNCHANGED <<permissions, userRoles, grants>>
  BY DEF UpsertRole
<1>2. PICK status \in {"ACTIVE", role[r].status} :
        /\ Exists(r) \/ status = "ACTIVE"
        /\ role' = [role EXCEPT ![r].status = status, ![r].system = TRUE]
  BY DEF UpsertRole
<1>3. s \in Statements /\ s.do = do
  BY <1>1, DoingHolds DEF AccessTypes
<1>4. r \in Roles
  BY <1>3 DEF Statements, Fits, RoleStatements
<1> HIDE DEF r, s
<1>5. role \in [Roles -> Rows]
  BY DEF AccessTypes, TablesOK, Rows
<1> DEFINE row == [role[r] EXCEPT !.status = status, !.system = TRUE]
<1>6. role' = [role EXCEPT ![r] = row]
  BY <1>2, <1>4, <1>5
<1>7. row \in Rows /\ row.status = status
  BY <1>2, <1>4, <1>5 DEF Rows
<1>8. status # "absent"
  BY <1>2, <1>4, <1>5 DEF Rows, Exists
<1> HIDE DEF row
<1>9. TablesOK'
  BY <1>1, <1>4, <1>6, <1>7, <1>8, RowWritten DEF AccessTypes
<1> QED
  BY <1>1, <1>9, AdvanceStep DEF AccessTypes

LEMMA InsertRoleStep ==
  ASSUME AccessTypes, NEW c \in Calls, InsertRole(c)
  PROVE  StepHolds(c)
<1> DEFINE s == Head(call[c].todo)
           r == s.role
           row == [status |-> "ACTIVE", keys |-> {}, system |-> s.do = "createSystemRole"]
<1>1. PICK do \in {"createRole", "createSystemRole"} :
        /\ Doing(c, do)
        /\ \/ Refuse(c)
           \/ /\ role' = [role EXCEPT ![r] = row]
              /\ Advance(c) /\ UNCHANGED <<permissions, userRoles, grants>>
  BY DEF InsertRole
<1>2. s \in Statements /\ s.do = do
  BY <1>1, DoingHolds DEF AccessTypes
<1>3. r \in Roles
  BY <1>2 DEF Statements, Fits, RoleStatements
<1>4. row \in Rows /\ row.status # "absent"
  BY DEF Rows
<1> HIDE DEF r, s, row
<1>5. CASE ~Refuse(c)
  <2>1. TablesOK'
    BY <1>1, <1>3, <1>4, <1>5, RowWritten DEF AccessTypes
  <2> QED
    BY <1>1, <1>5, <2>1, AdvanceStep DEF AccessTypes
<1> QED
  BY <1>1, <1>5, RefuseStep

LEMMA FindPermissionsStep ==
  ASSUME AccessTypes, NEW c \in Calls, FindPermissions(c)
  PROVE  StepHolds(c)
<1> DEFINE found == Head(call[c].todo).keys \cap permissions
           rest == Tail(call[c].todo)
<1>1. Doing(c, "findPermissions") /\ Continue(c, found, rest) /\ UNCHANGED tables
  BY DEF FindPermissions
<1>2. Sending(c) /\ Remains(call[c].op, call[c].role, rest)
  BY <1>1, DoingHolds DEF AccessTypes
<1>3. found \in SUBSET Keys
  BY DEF AccessTypes, TablesOK
<1> HIDE DEF found, rest
<1>4. \E k \in CallRecords : Moves(c, k)
  BY <1>1, <1>2, <1>3, ContinueHolds DEF AccessTypes
<1> QED
  BY <1>1, <1>4, TablesStand DEF AccessTypes, StepHolds

Edits == {"setPermissions", "connectFound", "addPermissions", "removePermissions",
          "activate", "deactivate"}

\* The permissions that an edit connects.
Connected(s, found) ==
  CASE s.do = "connectFound" -> found
    [] s.do \in {"setPermissions", "addPermissions"} -> s.keys
    [] OTHER -> {}

\* An edit leaves a row of the table, and a system role a system role.
Edited(row, s, found) ==
  CASE s.do = "setPermissions" -> [row EXCEPT !.keys = s.keys]
    [] s.do = "removePermissions" -> [row EXCEPT !.keys = @ \ s.keys]
    [] s.do = "activate" -> [row EXCEPT !.status = "ACTIVE"]
    [] s.do = "deactivate" -> [row EXCEPT !.status = "INACTIVE"]
    [] OTHER -> [row EXCEPT !.keys = @ \cup Connected(s, found)]

LEMMA EditedHolds ==
  ASSUME NEW row \in Rows, row.status # "absent", NEW s \in Statements, s.do \in Edits,
         NEW found, Connected(s, found) \subseteq permissions
  PROVE  /\ Edited(row, s, found) \in Rows /\ Edited(row, s, found).status # "absent"
         /\ Edited(row, s, found).system = row.system
<1> DEFINE new == Edited(row, s, found)
<1>1. CASE s.do = "setPermissions"
  <2>1. new = [row EXCEPT !.keys = s.keys]
    BY <1>1 DEF Edited
  <2>2. s.keys \subseteq permissions
    BY <1>1 DEF Connected
  <2> QED
    BY <2>1, <2>2 DEF Rows
<1>2. CASE s.do = "removePermissions"
  <2>1. new = [row EXCEPT !.keys = @ \ s.keys]
    BY <1>2 DEF Edited
  <2>2. row.keys \ s.keys \subseteq permissions
    BY DEF Rows
  <2> QED
    BY <2>1, <2>2 DEF Rows
<1>3. CASE s.do = "activate"
  <2>1. new = [row EXCEPT !.status = "ACTIVE"]
    BY <1>3 DEF Edited
  <2> QED
    BY <2>1 DEF Rows
<1>4. CASE s.do = "deactivate"
  <2>1. new = [row EXCEPT !.status = "INACTIVE"]
    BY <1>4 DEF Edited
  <2> QED
    BY <2>1 DEF Rows
<1>5. CASE s.do \in {"connectFound", "addPermissions"}
  <2>1. new = [row EXCEPT !.keys = @ \cup Connected(s, found)]
    BY <1>5 DEF Edited
  <2>2. row.keys \cup Connected(s, found) \subseteq permissions
    BY DEF Rows
  <2> QED
    BY <2>1, <2>2 DEF Rows
<1> QED
  BY <1>1, <1>2, <1>3, <1>4, <1>5 DEF Edits

LEMMA EditRoleStep ==
  ASSUME AccessTypes, NEW c \in Calls, EditRole(c)
  PROVE  StepHolds(c)
<1> DEFINE s == Head(call[c].todo)
           r == s.role
           found == call[c].found
           row == Edited(role[r], s, found)
<1>1. PICK do \in Edits :
        /\ Doing(c, do)
        /\ \/ Refuse(c)
           \/ /\ Exists(r) /\ Connected(s, found) \subseteq permissions
              /\ role' = [role EXCEPT ![r] = row]
              /\ Advance(c) /\ UNCHANGED <<permissions, userRoles, grants>>
  BY DEF EditRole, Edits, Edited, Connected
<1>2. s \in Statements /\ s.do = do
  BY <1>1, DoingHolds DEF AccessTypes
<1>3. r \in Roles
  BY <1>2 DEF Statements, Fits, RoleStatements, EditStatements, Edits
<1>4. role[r] \in Rows
  BY <1>3 DEF AccessTypes, TablesOK, Rows
<1> HIDE DEF s, found
<1>5. CASE ~Refuse(c)
  <2>1. role[r].status # "absent" /\ Connected(s, found) \subseteq permissions
    BY <1>1, <1>5 DEF Exists
  <2>2. row \in Rows /\ row.status # "absent"
    BY <1>2, <1>4, <2>1, EditedHolds
  <2>3. role' = [role EXCEPT ![r] = row] /\ UNCHANGED <<permissions, userRoles, grants>>
    BY <1>1, <1>5
  <2> HIDE DEF row, r
  <2>4. TablesOK'
    BY <1>3, <2>2, <2>3, RowWritten DEF AccessTypes
  <2> QED
    BY <1>1, <1>5, <2>4, AdvanceStep DEF AccessTypes
<1> QED
  BY <1>1, <1>5, RefuseStep

LEMMA RefuseSystemStep ==
  ASSUME AccessTypes, NEW c \in Calls, RefuseSystem(c)
  PROVE  StepHolds(c)
<1>1. /\ Doing(c, "refuseSystem")
      /\ \/ Refuse(c)
         \/ Advance(c) /\ UNCHANGED tables
  BY DEF RefuseSystem
<1>2. CASE Advance(c) /\ UNCHANGED tables
  BY <1>1, <1>2, AdvanceStep, TablesStand DEF AccessTypes
<1> QED
  BY <1>1, <1>2, RefuseStep

\* Roles go, with their rows and their links to the user.
LEMMA RolesGone ==
  ASSUME TablesOK, NEW gone \in SUBSET Roles,
         role' = [r \in Roles |-> IF r \in gone THEN Absent ELSE role[r]],
         userRoles' = userRoles \ gone, UNCHANGED <<permissions, grants>>
  PROVE  TablesOK'
<1>1. Absent \in Rows /\ Absent.status = "absent"
  BY DEF Absent, Rows
<1>2. role \in [Roles -> Rows] /\ \A r \in Roles : role[r].status = "absent" => role[r] = Absent
  BY DEF TablesOK, Rows, Exists
<1> HIDE DEF Rows
<1>3. /\ role' \in [Roles -> Rows]
      /\ \A r \in Roles : role'[r] = IF r \in gone THEN Absent ELSE role[r]
  BY <1>1, <1>2
<1>4. \A r \in Roles : role'[r].status = "absent" => role'[r] = Absent
  BY <1>2, <1>3
<1>5. userRoles' \subseteq {r \in Roles : role'[r].status # "absent"}
  BY <1>3 DEF TablesOK, Exists
<1> QED
  BY <1>3, <1>4, <1>5 DEF TablesOK, Rows, Exists

LEMMA EraseRoleStep ==
  ASSUME AccessTypes, NEW c \in Calls, EraseRole(c)
  PROVE  StepHolds(c)
<1> DEFINE s == Head(call[c].todo)
           r == s.role
<1>1. /\ Doing(c, "deleteRole")
      /\ \/ Refuse(c)
         \/ /\ role' = [role EXCEPT ![r] = Absent] /\ userRoles' = userRoles \ {r}
            /\ Advance(c) /\ UNCHANGED <<permissions, grants>>
  BY DEF EraseRole
<1>2. s \in Statements /\ s.do = "deleteRole"
  BY <1>1, DoingHolds DEF AccessTypes
<1>3. r \in Roles
  BY <1>2 DEF Statements, Fits, RoleStatements
<1> HIDE DEF r, s
<1>4. CASE ~Refuse(c)
  <2>1. role \in [Roles -> Rows]
    BY DEF AccessTypes, TablesOK, Rows
  <2>2. role' = [q \in Roles |-> IF q \in {r} THEN Absent ELSE role[q]]
    BY <1>1, <1>4, <2>1
  <2>3. TablesOK'
    BY <1>1, <1>3, <1>4, <2>2, {r} \in SUBSET Roles, RolesGone DEF AccessTypes
  <2> QED
    BY <1>1, <1>4, <2>3, AdvanceStep DEF AccessTypes
<1> QED
  BY <1>1, <1>4, RefuseStep

LEMMA DeleteOrdinaryStep ==
  ASSUME AccessTypes, NEW c \in Calls, DeleteOrdinary(c)
  PROVE  StepHolds(c)
<1> DEFINE gone == {r \in Roles : ~role[r].system}
<1>1. /\ Doing(c, "deleteOrdinary") /\ Advance(c)
      /\ role' = [r \in Roles |-> IF r \in gone THEN Absent ELSE role[r]]
      /\ userRoles' = userRoles \ gone /\ UNCHANGED <<permissions, grants>>
  BY DEF DeleteOrdinary
<1>2. gone \in SUBSET Roles
  OBVIOUS
<1> HIDE DEF gone
<1>3. TablesOK'
  BY <1>1, <1>2, RolesGone DEF AccessTypes
<1> QED
  BY <1>1, <1>3, AdvanceStep DEF AccessTypes

LEMMA DeletePermissionsStep ==
  ASSUME AccessTypes, NEW c \in Calls, DeletePermissions(c)
  PROVE  StepHolds(c)
<1>1. /\ Doing(c, "deletePermissions") /\ Advance(c) /\ permissions' = {}
      /\ role' = [r \in Roles |-> [status |-> role[r].status, system |-> role[r].system,
                                  keys |-> {}]]
      /\ UNCHANGED <<userRoles, grants>>
  BY DEF DeletePermissions
<1>2. /\ role \in [Roles -> Rows]
      /\ \A r \in Roles : role[r].status = "absent" => role[r] = Absent
  BY DEF AccessTypes, TablesOK, Rows, Exists
<1>3. ASSUME NEW r \in Roles
      PROVE  /\ role'[r] \in [status : {"absent", "ACTIVE", "INACTIVE"}, system : BOOLEAN, keys : SUBSET {}]
             /\ role'[r].status = role[r].status
             /\ role[r].status = "absent" => role'[r] = Absent
  <2>1. /\ role[r] \in Rows
        /\ role'[r] = [status |-> role[r].status, system |-> role[r].system, keys |-> {}]
    BY <1>1, <1>2
  <2>2. /\ role'[r] \in [status : {"absent", "ACTIVE", "INACTIVE"}, system : BOOLEAN, keys : SUBSET {}]
        /\ role'[r].status = role[r].status
    BY <2>1 DEF Rows
  <2>3. role[r].status = "absent" => role'[r] = Absent
    <3>1. ASSUME role[r] = Absent PROVE role[r].status = "absent" /\ role[r].system = FALSE
      BY <3>1 DEF Absent
    <3>2. ASSUME role[r] = Absent
          PROVE  role'[r] = [status |-> "absent", system |-> FALSE, keys |-> {}]
      BY <2>1, <3>1, <3>2, Zenon
    <3> QED
      BY <1>2, <3>2 DEF Absent
  <2> QED
    BY <2>2, <2>3
<1>4. role' \in [Roles -> [status : {"absent", "ACTIVE", "INACTIVE"}, system : BOOLEAN, keys : SUBSET {}]]
  BY <1>1, <1>3
<1>5. TablesOK'
  BY <1>1, <1>3, <1>4 DEF AccessTypes, TablesOK, Exists
<1> QED
  BY <1>1, <1>5, AdvanceStep DEF AccessTypes

\* ReadRoles makes one statement of every role it read, and two more.
LEMMA ReadRolesStep ==
  ASSUME AccessTypes, NEW c \in Calls, ReadRoles(c)
  PROVE  StepHolds(c)
<1> DEFINE there == SetToSeq({r \in Roles : Exists(r)})
           cuts == [i \in DOMAIN there |->
                      Statement("removePermissions", there[i], role[there[i]].keys)]
           ends == << Statement("deleteOrdinary", NoRole, {}),
                      Statement("deletePermissions", NoRole, {}) >>
<1>1. Doing(c, "readRoles") /\ Continue(c, {}, cuts \o ends) /\ UNCHANGED tables
  BY DEF ReadRoles
<1>2. call[c] \in CallRecords /\ Sending(c) /\ call[c].op # "deleteRole"
  BY <1>1, DoingHolds DEF AccessTypes
<1>3. /\ there \in Seq({r \in Roles : Exists(r)}) /\ DOMAIN there = 1..Len(there)
      /\ Len(there) \in Nat
  BY RolesInTurn
<1> HIDE DEF there
<1>4. ASSUME NEW i \in 1..Len(there)
      PROVE  Statement("removePermissions", there[i], role[there[i]].keys) \in Harmless
  <2>1. there[i] \in {r \in Roles : Exists(r)}
    BY <1>3, ElementOfSeq
  <2>2. there[i] \in Roles /\ role[there[i]].keys \in SUBSET Keys
    BY <2>1 DEF AccessTypes, TablesOK
  <2> QED
    BY <2>2, ShortLists DEF EditStatements
<1>5. cuts \in [1..Len(there) -> Harmless]
  BY <1>3, <1>4
<1>6. cuts \in Seq(Harmless)
  BY <1>3, <1>5, SeqDef
<1>7. ends \in Seq(Harmless)
  BY SingleHarmless
<1> HIDE DEF cuts, ends
<1>8. cuts \o ends \in Seq(Harmless)
  BY <1>6, <1>7, ConcatProperties
<1>9. Remains(call[c].op, call[c].role, cuts \o ends)
  BY <1>2, <1>8, HarmlessStatements DEF Remains
<1>10. \E k \in CallRecords : Moves(c, k)
  BY <1>1, <1>2, <1>9, {} \in SUBSET Keys, ContinueHolds DEF AccessTypes
<1> QED
  BY <1>1, <1>10, TablesStand DEF AccessTypes, StepHolds

LEMMA EditUserStep ==
  ASSUME AccessTypes, NEW c \in Calls, EditUser(c)
  PROVE  StepHolds(c)
<1> DEFINE s == Head(call[c].todo)
           connected == CASE s.do = "assignRole" -> {s.role}
                          [] s.do = "setUserRoles" -> s.keys
                          [] OTHER -> {}
<1>1. PICK do \in {"assignRole", "removeRole", "setUserRoles"} :
        /\ Doing(c, do)
        /\ \/ Refuse(c)
           \/ /\ ~\E r \in connected : ~Exists(r)
              /\ userRoles' = CASE s.do = "assignRole" -> userRoles \cup connected
                                [] s.do = "removeRole" -> userRoles \ {s.role}
                                [] OTHER -> connected
              /\ Advance(c) /\ UNCHANGED <<permissions, role, grants>>
  BY DEF EditUser
<1>2. s \in Statements /\ s.do = do
  BY <1>1, DoingHolds DEF AccessTypes
<1> HIDE DEF s
<1>3. connected \subseteq Roles
  BY <1>2 DEF Statements, Fits, RoleStatements
<1> HIDE DEF connected
<1>4. CASE ~Refuse(c)
  <2>1. connected \subseteq {r \in Roles : Exists(r)}
    BY <1>1, <1>3, <1>4
  <2>2. userRoles \subseteq {r \in Roles : Exists(r)}
    BY DEF AccessTypes, TablesOK
  <2>3. userRoles' \subseteq {r \in Roles : Exists(r)}
    BY <1>1, <1>4, <2>1, <2>2
  <2>4. TablesOK'
    BY <1>1, <1>4, <2>3 DEF AccessTypes, TablesOK, Exists
  <2> QED
    BY <1>1, <1>4, <2>4, AdvanceStep DEF AccessTypes
<1> QED
  BY <1>1, <1>4, RefuseStep

LEMMA PairsFit ==
  ASSUME NEW s \in Statements, s.do \in GrantStatements
  PROVE  Pairs(s.role, s.keys) \subseteq OrgRoles \X OrgPermissions
BY DEF Statements, Fits, Pairs

LEMMA GrantsWritten ==
  ASSUME TablesOK, grants' \subseteq OrgRoles \X OrgPermissions,
         UNCHANGED <<permissions, role, userRoles>>
  PROVE  TablesOK'
BY DEF TablesOK, Exists

LEMMA GrantSteps ==
  ASSUME AccessTypes, NEW c \in Calls, Grant(c) \/ CreateGrant(c) \/ Revoke(c)
  PROVE  StepHolds(c)
<1> DEFINE s == Head(call[c].todo)
           added == IF s.do = "grantDefaults" THEN DefaultGrants ELSE Pairs(s.role, s.keys)
<1>1. PICK do \in GrantStatements \cup {"grantDefaults"} :
        /\ Doing(c, do)
        /\ \/ Refuse(c)
           \/ /\ grants' \in {grants \cup added, {g \in grants : g[1] # s.role}}
              /\ Advance(c) /\ UNCHANGED <<permissions, role, userRoles>>
  <2>1. CASE Doing(c, "grant") /\ grants' = grants \cup Pairs(s.role, s.keys)
             /\ Advance(c) /\ UNCHANGED <<permissions, role, userRoles>>
    BY <2>1, DoingHolds DEF AccessTypes, GrantStatements
  <2>2. CASE Doing(c, "grantDefaults") /\ grants' = grants \cup DefaultGrants
             /\ Advance(c) /\ UNCHANGED <<permissions, role, userRoles>>
    BY <2>2, DoingHolds DEF AccessTypes
  <2>3. CASE CreateGrant(c)
    BY <2>3, DoingHolds DEF AccessTypes, CreateGrant, GrantStatements
  <2>4. CASE Revoke(c)
    BY <2>4 DEF Revoke, GrantStatements
  <2> QED
    BY <2>1, <2>2, <2>3, <2>4 DEF Grant
<1>2. s \in Statements /\ s.do = do
  BY <1>1, DoingHolds DEF AccessTypes
<1>3. added \subseteq OrgRoles \X OrgPermissions
  BY <1>1, <1>2, PairsFit, SeedsAssumption
<1> HIDE DEF s, added
<1>4. CASE ~Refuse(c)
  <2>1. grants \subseteq OrgRoles \X OrgPermissions
    BY DEF AccessTypes, TablesOK
  <2>2. grants' \subseteq OrgRoles \X OrgPermissions
    BY <1>1, <1>3, <1>4, <2>1
  <2>3. TablesOK'
    BY <1>1, <1>4, <2>2, GrantsWritten DEF AccessTypes
  <2> QED
    BY <1>1, <1>4, <2>3, AdvanceStep DEF AccessTypes
<1> QED
  BY <1>1, <1>4, RefuseStep

\* An answer to one question of a check.
Asks(c, k, q, found) ==
  /\ Moves(c, k) /\ q \in call[c].ask
  /\ k.ask = call[c].ask \ {q} /\ k.found = found

Answers(c, q, found, outcome) ==
  call' = [call EXCEPT ![c].ask = @ \ {q}, ![c].found = found, ![c].outcome = outcome]

LEMMA AnswerHolds ==
  ASSUME CallsOK, NEW c \in Calls, call[c].op \in Checks, call[c].outcome = "none",
         NEW q \in call[c].ask, NEW found \in SUBSET Keys,
         NEW outcome \in {"none", "allowed", "denied"},
         outcome = "none" => call[c].ask # {q}, Answers(c, q, found, outcome)
  PROVE  \E k \in CallRecords : Asks(c, k, q, found) /\ k.outcome = outcome
<1>1. call[c] \in CallRecords /\ TodoInv(call[c]) /\ call \in [Calls -> CallRecords]
      /\ call[c].op # "none" /\ call[c].op # "deleteRole"
  BY DEF CallsOK, Checks
<1> DEFINE left == call[c].ask \ {q}
           k == [call[c] EXCEPT !.ask = left, !.found = found, !.outcome = outcome]
<1>2. call' = [call EXCEPT ![c] = k]
  BY <1>1 DEF Answers
<1>3. left \in SUBSET Names /\ outcome \in Outcomes /\ (outcome = "none" => left # {})
  BY <1>1 DEF CallRecords, Outcomes
<1>4. k \in CallRecords
  BY <1>1, <1>3 DEF CallRecords
<1>5. /\ k.op = call[c].op /\ k.role = call[c].role /\ k.keys = call[c].keys
      /\ k.todo = call[c].todo /\ k.outcome = outcome /\ k.ask = left /\ k.found = found
  BY <1>1 DEF CallRecords
<1> HIDE DEF k
<1>6. TodoInv(k)
  BY <1>1, <1>3, <1>5 DEF TodoInv
<1> QED
  BY <1>1, <1>2, <1>4, <1>5, <1>6 DEF Moves, Asks

\* The organization's check asks for one role after the other and keeps no list.
LEMMA RoleAnswerHolds ==
  ASSUME CallsOK, NEW c \in Calls, call[c].op \in Checks, call[c].outcome = "none",
         NEW q \in call[c].ask, NEW outcome \in {"none", "allowed", "denied"},
         outcome = "none" => call[c].ask # {q},
         call' = [call EXCEPT ![c].ask = @ \ {q}, ![c].outcome = outcome]
  PROVE  \E k \in CallRecords : Asks(c, k, q, call[c].found) /\ k.outcome = outcome
<1>1. call[c] \in CallRecords /\ TodoInv(call[c]) /\ call \in [Calls -> CallRecords]
      /\ call[c].op # "none" /\ call[c].op # "deleteRole"
  BY DEF CallsOK, Checks
<1> DEFINE left == call[c].ask \ {q}
           k == [call[c] EXCEPT !.ask = left, !.outcome = outcome]
<1>2. call' = [call EXCEPT ![c] = k]
  BY <1>1
<1>3. left \in SUBSET Names /\ outcome \in Outcomes /\ (outcome = "none" => left # {})
  BY <1>1 DEF CallRecords, Outcomes
<1>4. k \in CallRecords
  BY <1>1, <1>3 DEF CallRecords
<1>5. /\ k.op = call[c].op /\ k.role = call[c].role /\ k.keys = call[c].keys
      /\ k.todo = call[c].todo /\ k.outcome = outcome /\ k.ask = left /\ k.found = call[c].found
  BY <1>1 DEF CallRecords
<1> HIDE DEF k
<1>6. TodoInv(k)
  BY <1>1, <1>3, <1>5 DEF TodoInv
<1> QED
  BY <1>1, <1>2, <1>4, <1>5, <1>6 DEF Moves, Asks

FoundNow(c, q) == call[c].found \cup (IF UserHasPermission(q) THEN {q} ELSE {})
UserVerdict(c, q) ==
  IF call[c].ask # {q} THEN "none"
  ELSE IF call[c].op = "all" THEN Verdict(FoundNow(c, q) = call[c].keys)
       ELSE Verdict(FoundNow(c, q) # {})
RoleVerdict(c, q) ==
  LET has == <<q, call[c].role>> \in grants IN
  IF has \/ call[c].ask = {q} THEN Verdict(has) ELSE "none"

LEMMA AskUserHolds ==
  ASSUME AccessTypes, NEW c \in Calls, AskUser(c)
  PROVE  /\ call[c].op \in {"all", "any"} /\ UNCHANGED tables
         /\ \E q \in call[c].ask, k \in CallRecords :
              Asks(c, k, q, FoundNow(c, q)) /\ k.outcome = UserVerdict(c, q)
<1>1. /\ Running(c) /\ call[c].op \in {"all", "any"} /\ UNCHANGED tables
  BY DEF AskUser
<1>2. PICK q \in call[c].ask :
        call' = [call EXCEPT ![c].ask = @ \ {q}, ![c].found = FoundNow(c, q),
                   ![c].outcome = UserVerdict(c, q)]
  <2>1. PICK q \in call[c].ask :
        call' = [call EXCEPT ![c].ask = @ \ {q}, ![c].found = FoundNow(c, q),
                   ![c].outcome = IF ~(call[c].ask = {q}) THEN "none"
                                  ELSE IF call[c].op = "all"
                                       THEN Verdict(FoundNow(c, q) = call[c].keys)
                                       ELSE Verdict(FoundNow(c, q) # {})]
    BY DEF AskUser, FoundNow
  <2> QED
    BY <2>1 DEF UserVerdict
<1>3. FoundNow(c, q) \in SUBSET Keys
  <2>1. call[c].found \subseteq Keys
    BY DEF AccessTypes, CallsOK, CallRecords
  <2>2. UserHasPermission(q) => q \in Keys
    BY DEF AccessTypes, TablesOK, UserHasPermission
  <2> QED
    BY <2>1, <2>2 DEF FoundNow
<1>4. /\ UserVerdict(c, q) \in {"none", "allowed", "denied"}
      /\ UserVerdict(c, q) = "none" => call[c].ask # {q}
  BY DEF UserVerdict, Verdict
<1>5. call[c].op \in Checks /\ call[c].outcome = "none"
  BY <1>1 DEF Running, Checks
<1>6. \E k \in CallRecords : Asks(c, k, q, FoundNow(c, q)) /\ k.outcome = UserVerdict(c, q)
  <2> DEFINE f == FoundNow(c, q)
             v == UserVerdict(c, q)
  <2>1. /\ f \in SUBSET Keys /\ v \in {"none", "allowed", "denied"}
        /\ v = "none" => call[c].ask # {q}
        /\ Answers(c, q, f, v)
    BY <1>2, <1>3, <1>4 DEF Answers
  <2> HIDE DEF f, v
  <2>2. \E k \in CallRecords : Asks(c, k, q, f) /\ k.outcome = v
    BY <1>5, <2>1, AnswerHolds DEF AccessTypes
  <2> QED
    BY <2>2 DEF f, v
<1> QED
  BY <1>1, <1>6

LEMMA AskOrganizationHolds ==
  ASSUME AccessTypes, NEW c \in Calls, AskOrganization(c)
  PROVE  /\ call[c].op = "organization" /\ UNCHANGED tables
         /\ \E q \in call[c].ask, k \in CallRecords :
              Asks(c, k, q, call[c].found) /\ k.outcome = RoleVerdict(c, q)
<1>1. /\ Running(c) /\ call[c].op = "organization" /\ UNCHANGED tables
  BY DEF AskOrganization
<1>2. PICK q \in call[c].ask :
        call' = [call EXCEPT ![c].ask = @ \ {q}, ![c].outcome = RoleVerdict(c, q)]
  BY DEF AskOrganization, RoleVerdict
<1>4. /\ RoleVerdict(c, q) \in {"none", "allowed", "denied"}
      /\ RoleVerdict(c, q) = "none" => call[c].ask # {q}
  BY DEF RoleVerdict, Verdict
<1>5. call[c].op \in Checks /\ call[c].outcome = "none"
  BY <1>1 DEF Running, Checks
<1>6. \E k \in CallRecords : Asks(c, k, q, call[c].found) /\ k.outcome = RoleVerdict(c, q)
  BY <1>2, <1>4, <1>5, RoleAnswerHolds DEF AccessTypes
<1> QED
  BY <1>1, <1>6

LEMMA StopHolds ==
  ASSUME CallsOK, NEW c \in Calls, Stop(c)
  PROVE  /\ UNCHANGED tables
         /\ \E k \in CallRecords : /\ Moves(c, k) /\ k.todo = call[c].todo /\ k.ask = call[c].ask
                                   /\ k.outcome = "stopped"
<1>1. /\ call[c].op # "none" /\ call[c].outcome = "none" /\ call' = Ended(c, "stopped")
      /\ UNCHANGED tables
  BY DEF Stop, Running
<1>2. "stopped" \in Outcomes \ {"none"}
  BY DEF Outcomes
<1> QED
  BY <1>1, <1>2, EndedHolds

LEMMA ExecuteHolds ==
  ASSUME AccessTypes, NEW c \in Calls, Execute(c)
  PROVE  StepHolds(c)
<1>1. CASE AskUser(c)
  <2>1. UNCHANGED tables /\ \E k \in CallRecords : Moves(c, k)
    BY <1>1, AskUserHolds DEF Asks
  <2> QED
    BY <2>1, TablesStand DEF AccessTypes, StepHolds
<1>2. CASE AskOrganization(c)
  <2>1. UNCHANGED tables /\ \E k \in CallRecords : Moves(c, k)
    BY <1>2, AskOrganizationHolds DEF Asks
  <2> QED
    BY <2>1, TablesStand DEF AccessTypes, StepHolds
<1> QED
  BY <1>1, <1>2, PermissionSteps, UpsertRoleStep, InsertRoleStep, FindPermissionsStep, EditRoleStep,
     RefuseSystemStep, EraseRoleStep, ReadRolesStep, DeleteOrdinaryStep, DeletePermissionsStep,
     EditUserStep, GrantSteps DEF Execute

\* A call begins, as it was asked for, or goes on.
CallSteps(c, k) ==
  \/ Begins(c, k) /\ TodoInv(k) /\ Fresh(k)
  \/ Moves(c, k)

LEMMA AccessStep ==
  ASSUME AccessTypes, NEW c \in Calls, StartSomething(c) \/ Execute(c) \/ Stop(c)
  PROVE  TablesOK' /\ \E k \in CallRecords : CallSteps(c, k)
<1>1. CASE StartSomething(c)
  BY <1>1, SomethingStarts, TablesStand DEF AccessTypes, CallSteps, Begins
<1>2. CASE Execute(c)
  BY <1>2, ExecuteHolds DEF StepHolds, CallSteps
<1>3. CASE Stop(c)
  BY <1>3, StopHolds, TablesStand DEF AccessTypes, CallSteps
<1> QED
  BY <1>1, <1>2, <1>3

LEMMA AccessTypesNext == ASSUME AccessTypes, [Next]_vars PROVE AccessTypes'
<1>1. CASE UNCHANGED vars
  BY <1>1 DEF AccessTypes, TablesOK, CallsOK, vars, tables, Exists
<1>2. CASE Next
  <2>1. PICK c \in Calls : StartSomething(c) \/ Execute(c) \/ Stop(c)
    BY <1>2 DEF Next
  <2>2. PICK k \in CallRecords : CallSteps(c, k)
    BY <2>1, AccessStep
  <2>3. call' = [call EXCEPT ![c] = k] /\ TodoInv(k)
    BY <2>2 DEF CallSteps, Begins, Moves
  <2>4. CallsOK'
    BY <2>3 DEF AccessTypes, CallsOK
  <2> QED
    BY <2>1, <2>4, AccessStep DEF AccessTypes
<1> QED
  BY <1>1, <1>2

LEMMA AccessInitially == Init => AccessTypes
<1> SUFFICES ASSUME Init PROVE AccessTypes
  OBVIOUS
<1>1. CallsOK
  <2>1. NoCall \in CallRecords
    <3>1. << >> \in Seq(Statements) /\ {} \in SUBSET Keys /\ {} \in SUBSET Names
          /\ "none" \in Outcomes /\ "none" \in Ops /\ NoRole \in Names
      BY DEF Outcomes, Ops, Names
    <3> QED
      BY <3>1 DEF NoCall, CallRecords
  <2>2. TodoInv(NoCall)
    BY DEF TodoInv, NoCall, Checks
  <2> HIDE DEF NoCall
  <2> QED
    BY <2>1, <2>2 DEF Init, CallsOK
<1>2. /\ SystemPermissions \in [1..Len(SystemPermissions) -> Keys]
      /\ DOMAIN SystemPermissions = 1..Len(SystemPermissions) /\ Len(SystemPermissions) \in Nat
      /\ Len(SystemPermissions) # 0
  BY SeedsAssumption, LenProperties, EmptySeq
<1>3. ToSet(SystemPermissions) \subseteq Keys /\ SystemPermissions[1] \in Keys
  BY <1>2 DEF ToSet
<1>4. /\ DOMAIN SystemRoles = 1..Len(SystemRoles) /\ Len(SystemRoles) \in Nat
      /\ Len(SystemRoles) # 0
      /\ \A i \in DOMAIN SystemRoles :
           SystemRoles[i] \in [key : Roles, keys : SUBSET ToSet(SystemPermissions)]
  <2>1. SystemRoles \in Seq([key : Roles, keys : SUBSET ToSet(SystemPermissions)])
        /\ SystemRoles # << >>
    BY SeedsAssumption
  <2> QED
    BY <2>1, LenProperties, EmptySeq, ElementOfSeq
<1>5. Absent.status = "absent" /\ \A ps : Absent \in [status : {"absent", "ACTIVE", "INACTIVE"},
                         system : BOOLEAN, keys : SUBSET ps]
  BY DEF Absent
<1>6. CASE /\ permissions = {} /\ role = [r \in Roles |-> Absent]
           /\ userRoles = {} /\ grants = {}
  <2> HIDE DEF Absent
  <2> QED
    BY <1>1, <1>5, <1>6 DEF AccessTypes, TablesOK
<1>7. CASE /\ permissions = ToSet(SystemPermissions)
        /\ role = [r \in Roles |->
                     IF \E i \in DOMAIN SystemRoles : SystemRoles[i].key = r
                     THEN [status |-> "ACTIVE", system |-> TRUE,
                           keys |-> (CHOOSE s \in ToSet(SystemRoles) : s.key = r).keys]
                     ELSE Absent]
        /\ userRoles = {SystemRoles[1].key}
        /\ grants = ToSet(OrganizationGrants)
  <2>1. ASSUME NEW r \in Roles, \E i \in DOMAIN SystemRoles : SystemRoles[i].key = r
        PROVE  (CHOOSE s \in ToSet(SystemRoles) : s.key = r).keys \subseteq permissions
    <3> DEFINE s == CHOOSE s \in ToSet(SystemRoles) : s.key = r
    <3>1. \E t \in ToSet(SystemRoles) : t.key = r
      BY <2>1 DEF ToSet
    <3>2. s \in ToSet(SystemRoles)
      BY <3>1
    <3> HIDE DEF s
    <3>3. PICK i \in DOMAIN SystemRoles : s = SystemRoles[i]
      BY <3>2 DEF ToSet
    <3>4. s.keys \subseteq permissions
      BY <1>4, <1>7, <3>3
    <3> QED
      BY <3>4 DEF s
  <2> HIDE DEF Absent
  <2>2. role \in [Roles -> [status : {"absent", "ACTIVE", "INACTIVE"},
                         system : BOOLEAN, keys : SUBSET permissions]]
    BY <1>5, <1>7, <2>1
  <2>3. \A r \in Roles : role[r].status = "absent" => role[r] = Absent
    BY <1>7
  <2>4. userRoles \subseteq {r \in Roles : role[r].status # "absent"}
    BY <1>4, <1>7
  <2>5. grants \subseteq OrgRoles \X OrgPermissions
    BY <1>7, SeedsAssumption, ElementOfSeq, LenProperties DEF ToSet
  <2> QED
    BY <1>1, <1>3, <1>7, <2>2, <2>3, <2>4, <2>5, SeedsAssumption DEF AccessTypes, TablesOK, Exists
<1>8. CASE /\ permissions = {SystemPermissions[1]}
        /\ role = [r \in Roles |-> [status |-> "ACTIVE", system |-> FALSE,
                                    keys |-> permissions]]
        /\ userRoles = Roles
        /\ grants = DefaultGrants
  BY <1>1, <1>3, <1>8, SeedsAssumption DEF AccessTypes, TablesOK, Exists
<1> QED
  BY <1>6, <1>7, <1>8 DEF Init

LEMMA AccessTyped == AccessTypes => TypeOK
BY DEF AccessTypes, TablesOK, CallsOK, CallRecords, TodoInv, Outcomes, TypeOK, Running, Checks

\* The tables, their keys and their links hold whatever runs side by side.
THEOREM TablesHold == Spec => []TypeOK
<1>1. AccessTypes /\ [Next]_vars => AccessTypes'
  BY AccessTypesNext
<1> QED
  BY <1>1, AccessInitially, AccessTyped, PTL DEF Spec

-----------------------------------------------------------------------------
(* Checks *)

\* What a call could see at the end of a step.
HeldNext(c) == IF call'[c].op \in Checks THEN Held(c)' ELSE {}

LEMMA Watched ==
  ASSUME Watch, NEW c \in Calls
  PROVE  /\ call[c].op = "none" /\ call'[c].op # "none" =>
              seen'[c].always = HeldNext(c) /\ seen'[c].ever = HeldNext(c)
         /\ call[c].op # "none" /\ Running(c) =>
              /\ seen'[c].always = seen[c].always \cap HeldNext(c)
              /\ seen'[c].ever = seen[c].ever \cup HeldNext(c)
         /\ call[c].op # "none" /\ ~Running(c) =>
              seen'[c].always = seen[c].always /\ seen'[c].ever = seen[c].ever
<1> DEFINE started == call[c].op = "none" /\ call'[c].op # "none"
           held == IF call'[c].op \in {"all", "any", "organization"} THEN Held(c)' ELSE {}
           kept == seen[c].kept /\ \A d \in Calls \ {c} : ~Disturbs(d, c)
<1>1. seen'[c] = IF started THEN [always |-> held, ever |-> held, kept |-> TRUE]
                 ELSE [always |-> IF Running(c) THEN seen[c].always \cap held ELSE seen[c].always,
                       ever |-> IF Running(c) THEN seen[c].ever \cup held ELSE seen[c].ever,
                       kept |-> kept]
  BY DEF Watch
<1>2. held = HeldNext(c)
  BY DEF HeldNext, Checks
<1> HIDE DEF held, kept
<1>3. CASE started
  BY <1>1, <1>2, <1>3
<1>4. CASE ~started
  BY <1>1, <1>2, <1>4
<1> QED
  BY <1>3, <1>4

\* What the questions that were answered show of what was so during the check.
AnswerInv(c) ==
  /\ call[c].ask \subseteq call[c].keys
  /\ seen[c].always \subseteq call[c].keys
  /\ call[c].op \in {"all", "any"} =>
       /\ call[c].found \subseteq call[c].keys \cap seen[c].ever
       /\ \A q \in call[c].keys \ (call[c].ask \cup call[c].found) : q \notin seen[c].always
       /\ call[c].outcome \in {"allowed", "denied"} => call[c].ask = {}
  /\ call[c].op = "all" =>
       /\ call[c].outcome = "allowed" => call[c].found = call[c].keys
       /\ call[c].outcome = "denied" => call[c].found # call[c].keys
  /\ call[c].op = "any" =>
       /\ call[c].outcome = "allowed" => call[c].found # {}
       /\ call[c].outcome = "denied" => call[c].found = {}
  /\ call[c].op = "organization" =>
       /\ call[c].outcome \in {"none", "stopped"} =>
            \A q \in call[c].keys \ call[c].ask : q \notin seen[c].always
       /\ call[c].outcome = "allowed" => seen[c].ever # {}
       /\ call[c].outcome = "denied" => seen[c].always = {}

CheckInv == \A c \in Calls : call[c].op \in Checks => AnswerInv(c)

LEMMA ChecksDecideRightly == ASSUME CheckInv PROVE AnswersHeld
<1> SUFFICES ASSUME NEW c \in Calls, call[c].op \in Checks
             PROVE  /\ call[c].op = "all" =>
                         /\ call[c].outcome = "allowed" => call[c].keys \subseteq seen[c].ever
                         /\ call[c].outcome = "denied" => ~(call[c].keys \subseteq seen[c].always)
                    /\ call[c].op \in {"any", "organization"} =>
                         /\ call[c].outcome = "allowed" => seen[c].ever # {}
                         /\ call[c].outcome = "denied" => seen[c].always = {}
  BY DEF AnswersHeld, Checks
<1>1. AnswerInv(c)
  BY DEF CheckInv
<1> QED
  BY <1>1 DEF AnswerInv, Checks

\* The two ways of asking for the permissions of the user agree.
LEMMA QueriesAgree == \A key : UserHasPermission(key) <=> key \in UserPermissions
BY DEF UserHasPermission, UserPermissions

LEMMA HeldAsked ==
  ASSUME NEW c \in Calls
  PROVE  /\ HeldNext(c) \subseteq call'[c].keys
         /\ call'[c].op \in {"all", "any"} => HeldNext(c) = call'[c].keys \cap UserPermissions'
         /\ call'[c].op = "organization" =>
              HeldNext(c) = {r \in call'[c].keys : <<r, call'[c].role>> \in grants'}
BY DEF HeldNext, Held, Checks

\* A call that makes no step of its own sees more, and less of it all the time.
LEMMA OthersWatch ==
  ASSUME CheckInv, Watch, NEW c \in Calls, call[c].op \in Checks, call'[c] = call[c]
  PROVE  AnswerInv(c)'
<1>1. AnswerInv(c) /\ call[c].op # "none"
  BY DEF CheckInv, Checks
<1>2. seen'[c].always \subseteq seen[c].always /\ seen[c].ever \subseteq seen'[c].ever
  BY <1>1, Watched
<1>3. seen[c].ever # {} => seen'[c].ever # {}
  BY <1>2
<1> QED
  BY <1>1, <1>2, <1>3 DEF AnswerInv

LEMMA CheckBegins ==
  ASSUME CallsOK, Watch, NEW c \in Calls, NEW k \in CallRecords, Begins(c, k), Fresh(k), k.op \in Checks
  PROVE  AnswerInv(c)'
<1>1. call[c].op = "none" /\ call'[c] = k /\ k.op # "none"
  BY DEF Begins, NoCall, CallsOK, Fresh
<1>2. seen'[c].always = HeldNext(c) /\ HeldNext(c) \subseteq k.keys
  BY <1>1, Watched, HeldAsked
<1>3. k.ask = k.keys /\ k.found = {} /\ k.outcome = "none"
  BY DEF Fresh
<1> QED
  BY <1>1, <1>2, <1>3 DEF AnswerInv

LEMMA UserAnswers ==
  ASSUME AccessTypes, CheckInv, Watch, NEW c \in Calls, AskUser(c)
  PROVE  AnswerInv(c)'
<1>1. call[c].op \in {"all", "any"} /\ call[c].op \in Checks /\ UNCHANGED tables
  BY AskUserHolds DEF Checks
<1>2. PICK q \in call[c].ask, k \in CallRecords :
        Asks(c, k, q, FoundNow(c, q)) /\ k.outcome = UserVerdict(c, q)
  BY AskUserHolds
<1>3. /\ call'[c] = k /\ k.op = call[c].op /\ k.keys = call[c].keys /\ Running(c) /\ call[c].op # "none"
      /\ k.ask = call[c].ask \ {q} /\ k.found = FoundNow(c, q)
  BY <1>2 DEF Asks, Moves, AccessTypes, CallsOK, Running
<1>4. AnswerInv(c)
  BY <1>1 DEF CheckInv
<1>5. UserPermissions' = UserPermissions
  BY <1>1 DEF UserPermissions, tables
<1>6. /\ HeldNext(c) = call[c].keys \cap UserPermissions
      /\ seen'[c].always = seen[c].always \cap HeldNext(c)
      /\ seen'[c].ever = seen[c].ever \cup HeldNext(c)
  BY <1>1, <1>3, <1>5, HeldAsked, Watched
<1>7. k.found = IF q \in UserPermissions THEN call[c].found \cup {q} ELSE call[c].found
  BY <1>3, QueriesAgree DEF FoundNow
<1>8. /\ k.found \subseteq k.keys \cap seen'[c].ever
      /\ k.ask \subseteq k.keys /\ seen'[c].always \subseteq k.keys
      /\ \A p \in k.keys \ (k.ask \cup k.found) : p \notin seen'[c].always
  BY <1>1, <1>2, <1>3, <1>4, <1>6, <1>7 DEF AnswerInv
<1>9. /\ k.outcome \in {"allowed", "denied"} => k.ask = {}
      /\ k.op = "all" => /\ k.outcome = "allowed" => k.found = k.keys
                         /\ k.outcome = "denied" => k.found # k.keys
      /\ k.op = "any" => /\ k.outcome = "allowed" => k.found # {}
                         /\ k.outcome = "denied" => k.found = {}
  BY <1>1, <1>2, <1>3 DEF UserVerdict, Verdict
<1>10. k.op # "organization"
  BY <1>1, <1>3
<1> QED
  BY <1>3, <1>8, <1>9, <1>10 DEF AnswerInv

LEMMA OrganizationAnswers ==
  ASSUME AccessTypes, CheckInv, Watch, NEW c \in Calls, AskOrganization(c)
  PROVE  AnswerInv(c)'
<1>1. call[c].op = "organization" /\ call[c].op \in Checks /\ UNCHANGED tables
  BY AskOrganizationHolds DEF Checks
<1>2. PICK q \in call[c].ask, k \in CallRecords :
        Asks(c, k, q, call[c].found) /\ k.outcome = RoleVerdict(c, q)
  BY AskOrganizationHolds
<1>3. /\ call'[c] = k /\ k.op = call[c].op /\ k.keys = call[c].keys /\ k.role = call[c].role
      /\ Running(c) /\ call[c].op # "none" /\ call[c].outcome = "none"
      /\ k.ask = call[c].ask \ {q}
  BY <1>2 DEF Asks, Moves, AccessTypes, CallsOK, Running
<1>4. AnswerInv(c)
  BY <1>1 DEF CheckInv
<1>5. /\ HeldNext(c) = {r \in call[c].keys : <<r, call[c].role>> \in grants}
      /\ seen'[c].always = seen[c].always \cap HeldNext(c)
      /\ seen'[c].ever = seen[c].ever \cup HeldNext(c)
  BY <1>1, <1>3, HeldAsked, Watched DEF tables
<1> DEFINE has == <<q, call[c].role>> \in grants
<1>6. /\ has <=> q \in HeldNext(c)
      /\ k.outcome = "allowed" => has
      /\ k.outcome = "denied" => ~has /\ call[c].ask = {q}
      /\ k.outcome \in {"none", "stopped"} => ~has
  BY <1>2, <1>3, <1>4, <1>5 DEF AnswerInv, RoleVerdict, Verdict
<1> HIDE DEF has
<1>7. /\ k.ask \subseteq k.keys /\ seen'[c].always \subseteq k.keys
      /\ ~has => \A p \in k.keys \ k.ask : p \notin seen'[c].always
      /\ has => seen'[c].ever # {}
  BY <1>1, <1>2, <1>3, <1>4, <1>5, <1>6 DEF AnswerInv
<1>8. k.outcome = "denied" => seen'[c].always = {}
  BY <1>3, <1>6, <1>7
<1>9. k.op = "organization" /\ k.op \notin {"all", "any"}
  BY <1>1, <1>3
<1> QED
  BY <1>3, <1>6, <1>7, <1>8, <1>9 DEF AnswerInv

LEMMA StoppedCheck ==
  ASSUME AccessTypes, CheckInv, Watch, NEW c \in Calls, Stop(c), call[c].op \in Checks
  PROVE  AnswerInv(c)'
<1>1. PICK k \in CallRecords : /\ Moves(c, k) /\ k.todo = call[c].todo /\ k.ask = call[c].ask
                               /\ k.outcome = "stopped"
  BY StopHolds DEF AccessTypes
<1>2. /\ call'[c] = k /\ k.op = call[c].op /\ k.keys = call[c].keys
      /\ Running(c) /\ call[c].op # "none" /\ call[c].outcome = "none"
  BY <1>1 DEF Moves, AccessTypes, CallsOK, Running
<1>3. call'[c].found = call[c].found
  BY DEF Stop, Ended, AccessTypes, CallsOK, CallRecords
<1>4. seen'[c].always \subseteq seen[c].always /\ seen[c].ever \subseteq seen'[c].ever
  BY <1>2, Watched
<1>5. AnswerInv(c)
  BY DEF CheckInv
<1> QED
  BY <1>1, <1>2, <1>3, <1>4, <1>5 DEF AnswerInv

\* A check sends no statement.
LEMMA ChecksOnlyAsk ==
  ASSUME AccessTypes, NEW c \in Calls, Execute(c), call[c].op \in Checks
  PROVE  AskUser(c) \/ AskOrganization(c)
<1>1. \A do : ~Doing(c, do)
  BY DoingHolds DEF AccessTypes, Sending
<1> QED
  BY <1>1 DEF Execute, UpsertPermission, CreatePermission, UpsertRole, InsertRole, FindPermissions,
     EditRole, RefuseSystem, EraseRole, ReadRoles, DeleteOrdinary, DeletePermissions, EditUser,
     Grant, CreateGrant, Revoke

LEMMA CheckInvNext == ASSUME AccessTypes, CheckInv, [Next]_vars PROVE CheckInv'
<1>1. CASE UNCHANGED vars
  BY <1>1 DEF CheckInv, AnswerInv, vars
<1>2. CASE Next
  <2>1. PICK d \in Calls : StartSomething(d) \/ Execute(d) \/ Stop(d)
    BY <1>2 DEF Next
  <2>2. Watch
    BY <1>2 DEF Next
  <2>3. PICK k \in CallRecords : CallSteps(d, k)
    BY <2>1, AccessStep
  <2>4. call' = [call EXCEPT ![d] = k] /\ call \in [Calls -> CallRecords]
    BY <2>3 DEF CallSteps, Begins, Moves, AccessTypes, CallsOK
  <2>5. ASSUME NEW c \in Calls, call'[c].op \in Checks, c # d PROVE AnswerInv(c)'
    BY <2>2, <2>4, <2>5, OthersWatch
  <2>6. ASSUME call'[d].op \in Checks PROVE AnswerInv(d)'
    <3>1. CASE Begins(d, k) /\ Fresh(k)
      BY <2>2, <2>4, <2>6, <3>1, CheckBegins DEF AccessTypes
    <3>2. CASE Moves(d, k)
      <4>1. call[d].op \in Checks /\ call[d].op # "none"
        BY <2>4, <2>6, <3>2 DEF Moves
      <4>2. ~StartSomething(d)
        BY <4>1, SomethingStarts DEF AccessTypes, Begins, NoCall
      <4> QED
        BY <2>1, <2>2, <4>1, <4>2, ChecksOnlyAsk, UserAnswers, OrganizationAnswers, StoppedCheck
    <3> QED
      BY <2>3, <3>1, <3>2 DEF CallSteps
  <2> QED
    BY <2>5, <2>6 DEF CheckInv
<1> QED
  BY <1>1, <1>2

LEMMA CheckInvInitially == Init => CheckInv
BY DEF Init, CheckInv, NoCall, Checks

\* No check allows what was so at no moment of it, or denies what was so all along.
THEOREM ChecksAreHonest == Spec => []AnswersHeld
<1>1. AccessTypes /\ CheckInv /\ [Next]_vars => AccessTypes' /\ CheckInv'
  BY AccessTypesNext, CheckInvNext
<1> QED
  BY <1>1, AccessInitially, CheckInvInitially, ChecksDecideRightly, PTL DEF Spec

-----------------------------------------------------------------------------
(* System roles *)

LEMMA WatchedKept ==
  ASSUME Watch, NEW c \in Calls, call[c].op # "none", seen'[c].kept
  PROVE  seen[c].kept /\ \A d \in Calls \ {c} : ~Disturbs(d, c)
<1> DEFINE started == call[c].op = "none" /\ call'[c].op # "none"
           held == IF call'[c].op \in {"all", "any", "organization"} THEN Held(c)' ELSE {}
           kept == seen[c].kept /\ \A d \in Calls \ {c} : ~Disturbs(d, c)
           always == IF Running(c) THEN seen[c].always \cap held ELSE seen[c].always
           ever == IF Running(c) THEN seen[c].ever \cup held ELSE seen[c].ever
<1>1. seen'[c] = IF started THEN [always |-> held, ever |-> held, kept |-> TRUE]
                 ELSE [always |-> always, ever |-> ever, kept |-> kept]
  BY DEF Watch
<1> HIDE DEF held, kept, always, ever
<1>2. seen'[c] = [always |-> always, ever |-> ever, kept |-> kept]
  BY <1>1
<1>3. seen'[c].kept = kept
  BY <1>2
<1>4. kept
  BY <1>3
<1> QED
  BY <1>4 DEF kept

\* Nobody but a run of the same seed writes beside a call that is left undisturbed.
LEMMA LeftAlone ==
  ASSUME Watch, NEW c \in Calls, call[c].op # "none", seen'[c].kept,
         NEW d \in Calls, c # d, call'[d] # call[d], ~SameSeed(c, d)
  PROVE  seen[c].kept /\ UNCHANGED tables
BY WatchedKept DEF Disturbs

\* Only a statement that goes through writes.
Writes(c, do) == Doing(c, do) /\ Advance(c)

LEMMA OnlyAdvanceWrites ==
  ASSUME AccessTypes, NEW c \in Calls, StartSomething(c) \/ Execute(c) \/ Stop(c), tables' # tables
  PROVE  \E do : Writes(c, do)
<1>1. ~StartSomething(c)
  BY SomethingStarts DEF AccessTypes, Begins
<1>2. ~Stop(c) /\ ~Refuse(c)
  BY DEF Stop, Refuse
<1>3. Execute(c)
  BY <1>1, <1>2
<1>4. UpsertPermission(c) \/ CreatePermission(c) => \E do : Writes(c, do)
  BY <1>2 DEF UpsertPermission, CreatePermission, Writes
<1>5. UpsertRole(c) \/ InsertRole(c) => \E do : Writes(c, do)
  BY <1>2 DEF UpsertRole, InsertRole, Writes
<1>6. EditRole(c) => \E do : Writes(c, do)
  BY <1>2 DEF EditRole, Writes
<1>7. EraseRole(c) \/ DeleteOrdinary(c) \/ DeletePermissions(c) => \E do : Writes(c, do)
  BY <1>2 DEF EraseRole, DeleteOrdinary, DeletePermissions, Writes
<1>8. EditUser(c) => \E do : Writes(c, do)
  BY <1>2 DEF EditUser, Writes
<1>9. Grant(c) \/ CreateGrant(c) \/ Revoke(c) => \E do : Writes(c, do)
  BY <1>2 DEF Grant, CreateGrant, Revoke, Writes
<1>10. ~FindPermissions(c) /\ ~RefuseSystem(c) /\ ~ReadRoles(c) /\ ~AskUser(c) /\ ~AskOrganization(c)
  BY <1>2 DEF FindPermissions, RefuseSystem, ReadRoles, AskUser, AskOrganization
<1> QED
  BY <1>3, <1>4, <1>5, <1>6, <1>7, <1>8, <1>9, <1>10 DEF Execute

LEMMA ShorterTail ==
  ASSUME NEW S, NEW s \in Seq(S), s # << >>
  PROVE  Tail(s) # s
BY HeadTailProperties, LenProperties, EmptySeq

LEMMA WritingShows ==
  ASSUME AccessTypes, NEW c \in Calls, NEW do, Writes(c, do)
  PROVE  call'[c] # call[c]
<1>1. PICK k \in CallRecords : Moves(c, k) /\ k.todo = Tail(call[c].todo)
  BY AdvanceHolds DEF Writes, AccessTypes
<1>2. call[c] \in CallRecords /\ call[c].todo # << >> /\ call'[c] = k
  BY <1>1 DEF Moves, Writes, Doing, AccessTypes, CallsOK
<1>3. call[c].todo \in Seq(Statements)
  BY <1>2 DEF CallRecords
<1> QED
  BY <1>1, <1>2, <1>3, ShorterTail

\* A step beside a call that is left undisturbed changes nothing of it.
LEMMA QuietStep ==
  ASSUME AccessTypes, Watch, NEW c \in Calls, call[c].op # "none", seen'[c].kept,
         NEW d \in Calls, c # d, StartSomething(d) \/ Execute(d) \/ Stop(d), ~SameSeed(c, d)
  PROVE  seen[c].kept /\ UNCHANGED tables
<1>1. CASE tables' = tables
  BY <1>1, WatchedKept
<1>2. CASE tables' # tables
  BY <1>2, OnlyAdvanceWrites, WritingShows, LeftAlone
<1> QED
  BY <1>1, <1>2

\* Only deleteRole makes a system role none.
LEMMA SystemKept ==
  ASSUME AccessTypes, NEW c \in Calls, StartSomething(c) \/ Execute(c) \/ Stop(c),
         NEW r \in Roles, role[r].system, ~role'[r].system
  PROVE  /\ Doing(c, "deleteRole") /\ call[c].op = "deleteRole" /\ call[c].role = r
<1>0. role \in [Roles -> Rows] /\ role' # role /\ tables' # tables
  BY DEF AccessTypes, TablesOK, Rows, tables
<1>1. ~StartSomething(c) /\ ~Stop(c) /\ ~Refuse(c)
  BY <1>0, SomethingStarts DEF AccessTypes, Begins, Stop, Refuse
<1> DEFINE s == Head(call[c].todo)
<1>2. ~UpsertPermission(c) /\ ~CreatePermission(c)
  BY <1>0, <1>1 DEF UpsertPermission, CreatePermission
<1>3. ~UpsertRole(c)
  <2>1. ASSUME NEW status, role' = [role EXCEPT ![s.role].status = status, ![s.role].system = TRUE]
        PROVE  FALSE
    BY <1>0, <2>1 DEF Rows
  <2> QED
    BY <2>1 DEF UpsertRole
<1>4. ~InsertRole(c)
  <2>1. ASSUME InsertRole(c) PROVE FALSE
    <3>1. ~Exists(s.role) /\ \E row : role' = [role EXCEPT ![s.role] = row]
      BY <1>1, <2>1 DEF InsertRole
    <3>2. r # s.role
      <4>1. ~Exists(r) => role[r] = Absent
        BY DEF AccessTypes, TablesOK
      <4> QED
        BY <3>1, <4>1 DEF Absent
    <3> QED
      BY <1>0, <3>1, <3>2
  <2> QED
    BY <2>1
<1>5. ~EditRole(c)
  <2>1. ASSUME EditRole(c) PROVE FALSE
    <3> DEFINE found == call[c].found
               row == Edited(role[s.role], s, found)
    <3>1. PICK do \in Edits :
            /\ Doing(c, do)
            /\ Exists(s.role) /\ Connected(s, found) \subseteq permissions
            /\ role' = [role EXCEPT ![s.role] = row]
      BY <1>1, <2>1 DEF EditRole, Edits, Edited, Connected
    <3>2. s \in Statements /\ s.do = do
      BY <3>1, DoingHolds DEF AccessTypes
    <3> HIDE DEF s, found
    <3>3. r = s.role
      BY <1>0, <3>1
    <3>4. row.system = role[s.role].system
      BY <1>0, <3>1, <3>2, <3>3, EditedHolds DEF Exists
    <3> HIDE DEF row
    <3>5. role'[r] = row
      BY <1>0, <3>1, <3>3
    <3> QED
      BY <3>3, <3>4, <3>5
  <2> QED
    BY <2>1
<1>6. ~DeleteOrdinary(c)
  BY DEF DeleteOrdinary
<1>7. ~DeletePermissions(c)
  BY DEF DeletePermissions
<1>8. ~FindPermissions(c) /\ ~RefuseSystem(c) /\ ~ReadRoles(c) /\ ~AskUser(c) /\ ~AskOrganization(c)
  BY <1>0, <1>1 DEF FindPermissions, RefuseSystem, ReadRoles, AskUser, AskOrganization
<1>9. ~EditUser(c) /\ ~Grant(c) /\ ~CreateGrant(c) /\ ~Revoke(c)
  BY <1>0, <1>1 DEF EditUser, Grant, CreateGrant, Revoke
<1>10. EraseRole(c)
  BY <1>1, <1>2, <1>3, <1>4, <1>5, <1>6, <1>7, <1>8, <1>9 DEF Execute
<1>11. Doing(c, "deleteRole") /\ role' = [role EXCEPT ![s.role] = Absent]
  BY <1>1, <1>10 DEF EraseRole
<1>12. call[c].op = "deleteRole" /\ s.role = call[c].role
  BY <1>11, DoingHolds DEF AccessTypes
<1>13. r = s.role
  BY <1>0, <1>11
<1> QED
  BY <1>11, <1>12, <1>13

\* deleteRole is to delete what was no system role when it looked.
EraseInv ==
  \A c \in Calls :
    /\ call[c].op = "deleteRole" /\ call[c].outcome = "none" /\ seen[c].kept
    /\ call[c].todo = DeleteUnread(call[c].role)
    => ~role[call[c].role].system

LEMMA EraseInvNext == ASSUME AccessTypes, EraseInv, [Next]_vars PROVE EraseInv'
<1>1. CASE UNCHANGED vars
  BY <1>1 DEF EraseInv, vars, tables
<1>2. CASE Next
  <2>1. PICK d \in Calls : StartSomething(d) \/ Execute(d) \/ Stop(d)
    BY <1>2 DEF Next
  <2>2. Watch
    BY <1>2 DEF Next
  <2>3. PICK k \in CallRecords : CallSteps(d, k)
    BY <2>1, AccessStep
  <2>4. call' = [call EXCEPT ![d] = k] /\ call \in [Calls -> CallRecords]
    BY <2>3 DEF CallSteps, Begins, Moves, AccessTypes, CallsOK
  <2> SUFFICES ASSUME NEW c \in Calls,
                      call'[c].op = "deleteRole", call'[c].outcome = "none", seen'[c].kept,
                      call'[c].todo = DeleteUnread(call'[c].role)
               PROVE  ~role'[call'[c].role].system
    BY DEF EraseInv
  <2>5. CASE c # d
    <3>1. call'[c] = call[c] /\ call[c].op # "none" /\ ~SameSeed(c, d)
      BY <2>4, <2>5 DEF SameSeed
    <3>2. seen[c].kept /\ UNCHANGED tables
      BY <2>1, <2>2, <2>5, <3>1, QuietStep
    <3> QED
      BY <3>1, <3>2 DEF EraseInv, tables
  <2>6. CASE c = d
    <3> DEFINE r == k.role
               s == Statement("refuseSystem", r, {})
               u == Statement("deleteRole", r, {})
    <3>0. call'[c] = k /\ k.op = "deleteRole" /\ k.outcome = "none" /\ k.todo = DeleteUnread(r)
      BY <2>4, <2>6
    <3>1. Len(DeleteUnread(r)) = 1 /\ Len(DeleteRole(r)) = 2
      BY DEF DeleteUnread, DeleteRole
    <3>2. ~Begins(d, k) \/ ~Fresh(k)
      BY <3>0, <3>1 DEF Fresh
    <3>3. Moves(d, k)
      BY <2>3, <3>2 DEF CallSteps
    <3>4. call[d].op = "deleteRole" /\ call[d].role = r /\ call[d].outcome = "none"
      BY <3>0, <3>3 DEF Moves
    <3>5. ~StartSomething(d)
      BY <3>4, SomethingStarts DEF AccessTypes, Begins, NoCall
    <3>6. ~Stop(d)
      BY <2>4, <2>6, <3>0, StopHolds DEF AccessTypes, Moves
    <3>7. Execute(d) /\ ~AskUser(d) /\ ~AskOrganization(d)
      BY <2>1, <3>4, <3>5, <3>6, AskUserHolds, AskOrganizationHolds
    <3>8. PICK do : Doing(d, do)
      BY <3>7 DEF Execute, UpsertPermission, CreatePermission, UpsertRole, InsertRole,
         FindPermissions, EditRole, RefuseSystem, EraseRole, ReadRoles, DeleteOrdinary,
         DeletePermissions, EditUser, Grant, CreateGrant, Revoke
    <3>9. do \in {"refuseSystem", "deleteRole"} /\ Head(call[d].todo).do = do
      BY <3>4, <3>8, DoingHolds DEF AccessTypes
    <3>10. ~Refuse(d)
      BY <2>4, <2>6, <3>0, <3>8, RefuseHolds DEF AccessTypes, Moves
    <3>11. /\ ~UpsertPermission(d) /\ ~CreatePermission(d) /\ ~UpsertRole(d) /\ ~InsertRole(d)
           /\ ~FindPermissions(d) /\ ~EditRole(d) /\ ~ReadRoles(d) /\ ~DeleteOrdinary(d)
           /\ ~DeletePermissions(d) /\ ~EditUser(d) /\ ~Grant(d) /\ ~CreateGrant(d) /\ ~Revoke(d)
      BY <3>9 DEF Doing, UpsertPermission, CreatePermission, UpsertRole, InsertRole,
         FindPermissions, EditRole, ReadRoles, DeleteOrdinary,
         DeletePermissions, EditUser, Grant, CreateGrant, Revoke
    <3>12. RefuseSystem(d) \/ EraseRole(d)
      BY <3>7, <3>11 DEF Execute
    <3>13. Advance(d)
      BY <3>10, <3>12 DEF RefuseSystem, EraseRole
    <3>14. PICK l \in CallRecords : Moves(d, l) /\ l.todo = Tail(call[d].todo)
      BY <3>8, <3>13, AdvanceHolds DEF AccessTypes
    <3>15. k.todo = Tail(call[d].todo)
      BY <2>4, <2>6, <3>0, <3>14 DEF Moves
    <3>16. call[d].todo \in {DeleteRole(r), DeleteUnread(r), << >>}
      BY <3>4 DEF AccessTypes, CallsOK, TodoInv
    <3>17. call[d].todo = DeleteRole(r)
      <4>1. Tail(DeleteUnread(r)) = << >> /\ call[d].todo # << >>
        BY <3>8 DEF DeleteUnread, Doing
      <4>2. DeleteUnread(r) # << >>
        BY DEF DeleteUnread
      <4> QED
        BY <3>0, <3>15, <3>16, <4>1, <4>2
    <3>18. Head(call[d].todo).do = "refuseSystem" /\ Head(call[d].todo).role = r
      BY <3>17 DEF DeleteRole, Statement
    <3>19. RefuseSystem(d)
      BY <3>12, <3>18 DEF EraseRole, Doing
    <3>20. ~role[r].system /\ UNCHANGED tables
      BY <3>10, <3>18, <3>19 DEF RefuseSystem
    <3> QED
      BY <3>0, <3>20 DEF tables
  <2> QED
    BY <2>5, <2>6
<1> QED
  BY <1>1, <1>2

LEMMA EraseInvInitially == Init => EraseInv
BY DEF Init, EraseInv, NoCall

\* No step takes a system role away, except for the one gap deleteRole has.
THEOREM SystemRolesStay == Spec => SystemRoleStays
<1>1. AccessTypes /\ EraseInv /\ [Next]_vars =>
        [ \A r \in Roles : role[r].system /\ ~role'[r].system =>
            \E c \in Calls : /\ call[c].op = "deleteRole" /\ call[c].role = r
                             /\ ~seen[c].kept ]_vars
  <2> SUFFICES ASSUME AccessTypes, EraseInv, Next, NEW r \in Roles, role[r].system, ~role'[r].system
               PROVE  \E c \in Calls : /\ call[c].op = "deleteRole" /\ call[c].role = r
                                       /\ ~seen[c].kept
    OBVIOUS
  <2>1. PICK d \in Calls : StartSomething(d) \/ Execute(d) \/ Stop(d)
    BY DEF Next
  <2>2. Doing(d, "deleteRole") /\ call[d].op = "deleteRole" /\ call[d].role = r
    BY <2>1, SystemKept
  <2>3. call[d].todo = DeleteUnread(r) /\ call[d].outcome = "none"
    <3>1. /\ call[d].todo \in {DeleteRole(r), DeleteUnread(r), << >>} /\ call[d].todo # << >>
          /\ Head(call[d].todo).do = "deleteRole" /\ call[d].outcome = "none"
      BY <2>2 DEF AccessTypes, CallsOK, TodoInv, Doing, Running
    <3>2. Head(DeleteRole(r)).do = "refuseSystem"
      BY DEF DeleteRole, Statement
    <3> QED
      BY <3>1, <3>2
  <2> QED
    BY <2>2, <2>3 DEF EraseInv
<1>2. AccessTypes /\ EraseInv /\ [Next]_vars => AccessTypes' /\ EraseInv'
  BY AccessTypesNext, EraseInvNext
<1> QED
  BY <1>1, <1>2, AccessInitially, EraseInvInitially, PTL DEF Spec, SystemRoleStays

-----------------------------------------------------------------------------
(* Lists of statements *)

LEMMA MembersTail ==
  ASSUME NEW S, NEW s \in Seq(S), s # << >>
  PROVE  ToSet(s) = {Head(s)} \cup ToSet(Tail(s))
<1>1. /\ Len(s) \in Nat /\ Len(s) # 0 /\ DOMAIN s = 1..Len(s)
      /\ Tail(s) \in Seq(S) /\ Len(Tail(s)) = Len(s) - 1 /\ Head(s) = s[1]
      /\ DOMAIN Tail(s) = 1..(Len(s) - 1)
      /\ \A i \in 1..(Len(s) - 1) : Tail(s)[i] = s[i + 1]
  BY HeadTailProperties, LenProperties, EmptySeq
<1>2. ASSUME NEW i \in 1..Len(s) PROVE s[i] \in {Head(s)} \cup ToSet(Tail(s))
  <2>1. CASE i = 1
    BY <1>1, <2>1
  <2>2. CASE i # 1
    <3>1. i - 1 \in 1..(Len(s) - 1) /\ Tail(s)[i - 1] = s[i]
      BY <1>1, <2>2
    <3> QED
      BY <1>1, <3>1 DEF ToSet
  <2> QED
    BY <2>1, <2>2
<1>3. ASSUME NEW i \in 1..(Len(s) - 1) PROVE Tail(s)[i] \in ToSet(s)
  BY <1>1, i + 1 \in 1..Len(s) DEF ToSet
<1>4. Head(s) \in ToSet(s)
  BY <1>1, 1 \in 1..Len(s) DEF ToSet
<1>5. ToSet(s) \subseteq {Head(s)} \cup ToSet(Tail(s))
  BY <1>1, <1>2 DEF ToSet
<1>6. ToSet(Tail(s)) \subseteq ToSet(s)
  BY <1>1, <1>3 DEF ToSet
<1> QED
  BY <1>4, <1>5, <1>6

LEMMA MembersConcat ==
  ASSUME NEW S, NEW s \in Seq(S), NEW u \in Seq(S)
  PROVE  ToSet(s \o u) = ToSet(s) \cup ToSet(u)
<1>1. /\ Len(s) \in Nat /\ DOMAIN s = 1..Len(s)
      /\ Len(u) \in Nat /\ DOMAIN u = 1..Len(u)
      /\ s \o u \in Seq(S) /\ Len(s \o u) = Len(s) + Len(u)
      /\ DOMAIN (s \o u) = 1..(Len(s) + Len(u))
      /\ \A i \in 1..(Len(s) + Len(u)) :
           (s \o u)[i] = IF i <= Len(s) THEN s[i] ELSE u[i - Len(s)]
  BY ConcatProperties, LenProperties
<1>2. ASSUME NEW i \in 1..(Len(s) + Len(u)) PROVE (s \o u)[i] \in ToSet(s) \cup ToSet(u)
  <2>1. CASE i <= Len(s)
    BY <1>1, <2>1, i \in 1..Len(s) DEF ToSet
  <2>2. CASE i > Len(s)
    BY <1>1, <2>2, i - Len(s) \in 1..Len(u) DEF ToSet
  <2> QED
    BY <1>1, <2>1, <2>2
<1>3. ASSUME NEW i \in 1..Len(s) PROVE s[i] \in ToSet(s \o u)
  BY <1>1, i \in 1..(Len(s) + Len(u)), (s \o u)[i] = s[i] DEF ToSet
<1>4. ASSUME NEW i \in 1..Len(u) PROVE u[i] \in ToSet(s \o u)
  <2>1. i + Len(s) \in 1..(Len(s) + Len(u)) /\ (i + Len(s)) - Len(s) = i /\ ~(i + Len(s) <= Len(s))
    BY <1>1
  <2>2. (s \o u)[i + Len(s)] = u[i]
    BY <1>1, <2>1
  <2> QED
    BY <1>1, <2>1, <2>2 DEF ToSet
<1>5. ToSet(s \o u) \subseteq ToSet(s) \cup ToSet(u)
  BY <1>1, <1>2 DEF ToSet
<1>6. ToSet(s) \subseteq ToSet(s \o u)
  BY <1>1, <1>3 DEF ToSet
<1>7. ToSet(u) \subseteq ToSet(s \o u)
  BY <1>1, <1>4 DEF ToSet
<1> QED
  BY <1>5, <1>6, <1>7

\* The members of sequences one after the other are those of each of them.
LEMMA FlattenMembers ==
  ASSUME NEW S, NEW n \in Nat, NEW seqs \in [1..n -> Seq(S)]
  PROVE  /\ FlattenSeq(seqs) \in Seq(S)
         /\ \A i \in 1..n : ToSet(seqs[i]) \subseteq ToSet(FlattenSeq(seqs))
         /\ \A x \in ToSet(FlattenSeq(seqs)) : \E i \in 1..n : x \in ToSet(seqs[i])
<1>0. FlattenSeq(seqs) \in Seq(S)
  BY FlattenTyped
<1>1. CASE n = 0
  <2>1. Len(seqs) = n /\ seqs = << >>
    BY <1>1, LenProperties, EmptySeq, seqs \in Seq(Seq(S))
  <2>2. FlattenSeq(seqs) = << >>
    BY <1>1, <2>1 DEF FlattenSeq
  <2> QED
    BY <1>0, <1>1, <2>2 DEF ToSet
<1>2. CASE n # 0
  <2>0. PICK g \in [1..n -> Seq(S)] : Builds(g, seqs, n)
    BY <1>2, FlattenParts
  <2>1. /\ FlattenSeq(seqs) = g[n]
        /\ g[1] = seqs[1]
        /\ \A m \in 2..n : g[m] = g[m - 1] \o seqs[m]
    BY <2>0 DEF Builds
  <2> DEFINE Good(m) == /\ \A i \in 1..m : ToSet(seqs[i]) \subseteq ToSet(g[m])
                        /\ \A x \in ToSet(g[m]) : \E i \in 1..m : x \in ToSet(seqs[i])
             T == {m \in 1..n : ~Good(m)}
  <2> HIDE DEF Good
  <2>2. ASSUME T # {} PROVE FALSE
    <3>0. T \in SUBSET Nat
      OBVIOUS
    <3>1. PICK m \in T : \A k \in T : m <= k
      <4> HIDE DEF T
      <4> QED
        BY <2>2, <3>0, LeastNumber
    <3>2. m \in 1..n /\ ~Good(m)
      OBVIOUS
    <3>3. m # 1
      BY <2>1, <3>2 DEF Good
    <3>4. m \in 2..n /\ m - 1 \in 1..n /\ m - 1 \notin T
      BY <3>1, <3>2, <3>3
    <3>5. Good(m - 1)
      BY <3>4
    <3>6. g[m - 1] \in Seq(S) /\ seqs[m] \in Seq(S) /\ g[m] = g[m - 1] \o seqs[m]
      BY <2>1, <3>4
    <3>7. ToSet(g[m]) = ToSet(g[m - 1]) \cup ToSet(seqs[m])
      BY <3>6, MembersConcat
    <3>8. 1..m = (1..(m - 1)) \cup {m}
      BY <3>4
    <3>9. Good(m)
      BY <3>5, <3>7, <3>8 DEF Good
    <3> QED
      BY <3>2, <3>9
  <2>3. Good(n)
    BY <1>2, <2>2, n \in 1..n
  <2> QED
    BY <1>0, <2>1, <2>3 DEF Good
<1> QED
  BY <1>1, <1>2

-----------------------------------------------------------------------------
(* The list of the seed *)

SeedKinds == {"upsertPermission", "upsertRole", "findPermissions", "setPermissions",
              "connectFound", "grant"}

\* A role is found, emptied and filled in a row.
Linked(t) ==
  \A i \in 1..Len(t) :
    /\ t[i].do = "findPermissions" =>
         i + 1 \in 1..Len(t) /\ t[i + 1] = Statement("setPermissions", t[i].role, {})
    /\ t[i].do = "setPermissions" =>
         i + 1 \in 1..Len(t) /\ t[i + 1] = Statement("connectFound", t[i].role, {})
    /\ i + 1 \in 1..Len(t) /\ t[i + 1].do = "setPermissions" =>
         t[i].do = "findPermissions" /\ t[i].role = t[i + 1].role
    /\ i + 1 \in 1..Len(t) /\ t[i + 1].do = "connectFound" =>
         t[i].do = "setPermissions" /\ t[i].role = t[i + 1].role

Headed(t) == t # << >> => t[1].do \notin {"setPermissions", "connectFound"}

\* The permissions are upserted first.
Ordered(t) ==
  \A i, j \in 1..Len(t) :
    i < j /\ t[j].do = "upsertPermission" => t[i].do = "upsertPermission"

\* The statements are those of the seed.
Seeding(s) ==
  /\ s.do \in SeedKinds
  /\ s.do \in {"upsertRole", "findPermissions", "setPermissions", "connectFound"} =>
       \E i \in DOMAIN SystemRoles :
         /\ s.role = SystemRoles[i].key
         /\ s.do = "findPermissions" => s.keys = SystemRoles[i].keys
  /\ s.do = "setPermissions" => s.keys = {}

SeedTodo(t) ==
  /\ t \in Seq(Statements) /\ Linked(t) /\ Ordered(t)
  /\ \A s \in ToSet(t) : Seeding(s)

LEMMA LinkedConcat ==
  ASSUME NEW s \in Seq(Statements), NEW u \in Seq(Statements), Linked(s), Linked(u), Headed(u)
  PROVE  Linked(s \o u)
<1>1. /\ Len(s) \in Nat /\ Len(u) \in Nat /\ Len(s \o u) = Len(s) + Len(u)
      /\ \A i \in 1..(Len(s) + Len(u)) :
           (s \o u)[i] = IF i <= Len(s) THEN s[i] ELSE u[i - Len(s)]
  BY ConcatProperties, LenProperties
<1> DEFINE t == s \o u
           n == Len(s)
           l == Len(u)
<1> HIDE DEF t
<1>2. /\ n \in Nat /\ l \in Nat /\ Len(t) = n + l
      /\ \A i \in 1..n : i \in 1..(n + l) /\ t[i] = s[i]
      /\ \A i \in 1..l : i + n \in 1..(n + l) /\ t[i + n] = u[i]
  <2>1. ASSUME NEW i \in 1..n PROVE i \in 1..(n + l) /\ t[i] = s[i]
    BY <1>1 DEF t
  <2>2. ASSUME NEW i \in 1..l PROVE i + n \in 1..(n + l) /\ t[i + n] = u[i]
    <3>1. i + n \in 1..(n + l) /\ ~(i + n <= n) /\ (i + n) - n = i
      BY <1>1
    <3> QED
      BY <1>1, <3>1 DEF t
  <2> QED
    BY <1>1, <2>1, <2>2 DEF t
<1> HIDE DEF n, l
<1>3. ASSUME NEW i \in 1..(n + l)
      PROVE  /\ t[i].do = "findPermissions" =>
                  i + 1 \in 1..(n + l) /\ t[i + 1] = Statement("setPermissions", t[i].role, {})
             /\ t[i].do = "setPermissions" =>
                  i + 1 \in 1..(n + l) /\ t[i + 1] = Statement("connectFound", t[i].role, {})
             /\ i + 1 \in 1..(n + l) /\ t[i + 1].do = "setPermissions" =>
                  t[i].do = "findPermissions" /\ t[i].role = t[i + 1].role
             /\ i + 1 \in 1..(n + l) /\ t[i + 1].do = "connectFound" =>
                  t[i].do = "setPermissions" /\ t[i].role = t[i + 1].role
  <2>1. CASE i <= n
    <3>1. i \in 1..n /\ t[i] = s[i]
      BY <1>2, <2>1
    <3>2. CASE i + 1 \in 1..n
      <4>1. t[i + 1] = s[i + 1] /\ i + 1 \in 1..(n + l)
        BY <1>2, <3>2
      <4> QED
        BY <3>1, <3>2, <4>1 DEF Linked, n
    <3>3. CASE i = n /\ l # 0
      <4>1. 1 \in 1..l /\ t[1 + n] = u[1] /\ i + 1 = 1 + n /\ i + 1 \notin 1..n
        BY <1>2, <3>3
      <4>2. u # << >>
        BY <3>3 DEF l
      <4> QED
        BY <3>1, <4>1, <4>2 DEF Linked, n, Headed
    <3>4. CASE i = n /\ l = 0
      <4>1. i + 1 \notin 1..(n + l) /\ i + 1 \notin 1..n
        BY <1>2, <3>4
      <4> QED
        BY <3>1, <4>1 DEF Linked, n
    <3> QED
      BY <1>2, <2>1, <3>2, <3>3, <3>4
  <2>2. CASE i > n
    <3>1. PICK j \in 1..l : i = j + n
      <4>1. i - n \in 1..l /\ i = (i - n) + n
        BY <1>2, <2>2
      <4> QED
        BY <4>1
    <3>2. t[i] = u[j]
      BY <1>2, <3>1
    <3>3. CASE j + 1 \in 1..l
      <4>1. i + 1 = (j + 1) + n /\ i + 1 \in 1..(n + l) /\ t[i + 1] = u[j + 1]
        BY <1>2, <3>1, <3>3
      <4> QED
        BY <3>1, <3>2, <3>3, <4>1 DEF Linked, l
    <3>4. CASE j + 1 \notin 1..l
      <4>1. i + 1 \notin 1..(n + l)
        BY <1>2, <3>1, <3>4
      <4> QED
        BY <3>1, <3>2, <3>4, <4>1 DEF Linked, l
    <3> QED
      BY <3>3, <3>4
  <2> QED
    BY <1>2, <2>1, <2>2
<1> QED
  BY <1>2, <1>3 DEF Linked, t

LEMMA HeadedConcat ==
  ASSUME NEW s \in Seq(Statements), NEW u \in Seq(Statements), s # << >>, Headed(s)
  PROVE  Headed(s \o u) /\ s \o u # << >> /\ s \o u \in Seq(Statements)
<1>1. /\ Len(s) \in Nat /\ Len(s) # 0 /\ Len(u) \in Nat /\ Len(s \o u) = Len(s) + Len(u)
      /\ (s \o u)[1] = s[1] /\ s \o u \in Seq(Statements)
  BY ConcatProperties, LenProperties, EmptySeq
<1>2. s \o u # << >>
  BY <1>1, EmptySeq
<1> QED
  BY <1>1, <1>2 DEF Headed

\* What is left after a statement is a list of the seed too.
LEMMA SeedTodoTail ==
  ASSUME NEW t, SeedTodo(t), t # << >>
  PROVE  /\ SeedTodo(Tail(t)) /\ Seeding(Head(t))
         /\ Head(t).do = "findPermissions" =>
              /\ Tail(t) # << >>
              /\ Head(Tail(t)) = Statement("setPermissions", Head(t).role, {})
              /\ \A s \in ToSet(t) : s.do # "upsertPermission"
         /\ Head(t).do = "setPermissions" =>
              Statement("connectFound", Head(t).role, {}) \in ToSet(Tail(t))
         /\ Tail(t) # << >> =>
              /\ Head(Tail(t)).do = "setPermissions" =>
                   Head(t).do = "findPermissions" /\ Head(t).role = Head(Tail(t)).role
              /\ Head(Tail(t)).do = "connectFound" =>
                   Head(t).do = "setPermissions" /\ Head(t).role = Head(Tail(t)).role
<1> DEFINE u == Tail(t)
           n == Len(t)
<1>1. /\ t \in Seq(Statements) /\ n \in Nat /\ n # 0 /\ Head(t) = t[1]
      /\ u \in Seq(Statements) /\ Len(u) = n - 1
      /\ \A i \in 1..(n - 1) : u[i] = t[i + 1]
      /\ DOMAIN t = 1..n /\ DOMAIN u = 1..(n - 1)
  BY HeadTailProperties, LenProperties, EmptySeq DEF SeedTodo
<1>2. ToSet(t) = {Head(t)} \cup ToSet(u)
  BY <1>1, MembersTail
<1>3. u # << >> => n - 1 # 0 /\ Head(u) = u[1] /\ u[1] = t[2]
  BY <1>1, HeadTailProperties, EmptySeq
<1> HIDE DEF u
<1>4. n # 1 => u # << >>
  <2>1. ASSUME u = << >> PROVE Len(u) = 0
    BY <2>1
  <2> QED
    BY <1>1, <2>1
<1>5. Linked(u)
  <2> SUFFICES ASSUME NEW i \in 1..(n - 1)
               PROVE  /\ u[i].do = "findPermissions" =>
                           i + 1 \in 1..(n - 1) /\ u[i + 1] = Statement("setPermissions", u[i].role, {})
                      /\ u[i].do = "setPermissions" =>
                           i + 1 \in 1..(n - 1) /\ u[i + 1] = Statement("connectFound", u[i].role, {})
                      /\ i + 1 \in 1..(n - 1) /\ u[i + 1].do = "setPermissions" =>
                           u[i].do = "findPermissions" /\ u[i].role = u[i + 1].role
                      /\ i + 1 \in 1..(n - 1) /\ u[i + 1].do = "connectFound" =>
                           u[i].do = "setPermissions" /\ u[i].role = u[i + 1].role
    BY <1>1 DEF Linked
  <2>1. u[i] = t[i + 1] /\ i + 1 \in 1..n
    BY <1>1
  <2>2. (i + 1) + 1 \in 1..n <=> i + 1 \in 1..(n - 1)
    BY <1>1
  <2>3. i + 1 \in 1..(n - 1) => u[i + 1] = t[(i + 1) + 1]
    BY <1>1
  <2> QED
    BY <2>1, <2>2, <2>3 DEF SeedTodo, Linked
<1>6. Ordered(u)
  <2> SUFFICES ASSUME NEW i \in 1..(n - 1), NEW j \in 1..(n - 1), i < j, u[j].do = "upsertPermission"
               PROVE  u[i].do = "upsertPermission"
    BY <1>1 DEF Ordered
  <2>1. u[i] = t[i + 1] /\ i + 1 \in 1..n /\ u[j] = t[j + 1] /\ j + 1 \in 1..n /\ i + 1 < j + 1
    BY <1>1
  <2> QED
    BY <2>1 DEF SeedTodo, Ordered
<1>7. SeedTodo(u) /\ Seeding(Head(t))
  BY <1>1, <1>2, <1>5, <1>6 DEF SeedTodo
<1>8. ASSUME t[1].do = "findPermissions"
      PROVE  /\ u # << >> /\ Head(u) = Statement("setPermissions", t[1].role, {})
             /\ \A s \in ToSet(t) : s.do # "upsertPermission"
  <2>1. 1 + 1 \in 1..n /\ t[1 + 1] = Statement("setPermissions", t[1].role, {})
    BY <1>1, <1>8, 1 \in 1..n DEF SeedTodo, Linked
  <2>2. ASSUME NEW j \in 1..n, t[j].do = "upsertPermission" PROVE FALSE
    <3>1. j # 1 /\ 1 < j /\ 1 \in 1..n
      BY <1>1, <1>8, <2>2
    <3> QED
      BY <1>1, <1>8, <2>2, <3>1 DEF SeedTodo, Ordered
  <2> QED
    BY <1>1, <1>3, <1>4, <2>1, <2>2 DEF ToSet
<1>9. ASSUME t[1].do = "setPermissions"
      PROVE  Statement("connectFound", t[1].role, {}) \in ToSet(u)
  <2>1. 1 + 1 \in 1..n /\ t[1 + 1] = Statement("connectFound", t[1].role, {})
    BY <1>1, <1>9, 1 \in 1..n DEF SeedTodo, Linked
  <2>2. u[1] = t[2] /\ 1 \in 1..(n - 1)
    BY <1>1, <2>1
  <2> QED
    BY <1>1, <2>1, <2>2 DEF ToSet
<1>10. ASSUME u # << >>
       PROVE  /\ Head(u).do = "setPermissions" =>
                   t[1].do = "findPermissions" /\ t[1].role = Head(u).role
              /\ Head(u).do = "connectFound" =>
                   t[1].do = "setPermissions" /\ t[1].role = Head(u).role
  <2>1. 1 \in 1..n /\ 1 + 1 \in 1..n /\ Head(u) = t[1 + 1]
    BY <1>1, <1>3, <1>10
  <2> QED
    BY <2>1 DEF SeedTodo, Linked
<1> QED
  BY <1>1, <1>7, <1>8, <1>9, <1>10 DEF u

RoleBlock(i) == SeedRole(SystemRoles[i].key, SystemRoles[i].keys)

LEMMA BlockLinked ==
  ASSUME NEW i \in DOMAIN SystemRoles
  PROVE  /\ RoleBlock(i) \in Seq(Statements) /\ RoleBlock(i) # << >>
         /\ Linked(RoleBlock(i)) /\ Headed(RoleBlock(i))
         /\ \A s \in ToSet(RoleBlock(i)) : Seeding(s) /\ s.do # "upsertPermission"
         /\ \A do \in {"upsertRole", "setPermissions", "connectFound"} :
              Statement(do, SystemRoles[i].key, {}) \in ToSet(RoleBlock(i))
<1> DEFINE r == SystemRoles[i].key
           keys == SystemRoles[i].keys
           a == Statement("upsertRole", r, {})
           b == Statement("findPermissions", r, keys)
           e == Statement("setPermissions", r, {})
           f == Statement("connectFound", r, {})
<1>1. r \in Roles /\ keys \in SUBSET Keys
  <2>1. /\ SystemPermissions \in [1..Len(SystemPermissions) -> Keys]
        /\ DOMAIN SystemPermissions = 1..Len(SystemPermissions)
    BY SeedsAssumption, LenProperties
  <2>2. ToSet(SystemPermissions) \subseteq Keys
    BY <2>1 DEF ToSet
  <2>3. SystemRoles \in Seq([key : Roles, keys : SUBSET ToSet(SystemPermissions)])
    BY SeedsAssumption
  <2>4. DOMAIN SystemRoles = 1..Len(SystemRoles)
    BY <2>3, LenProperties
  <2>5. SystemRoles[i] \in [key : Roles, keys : SUBSET ToSet(SystemPermissions)]
    BY <2>3, <2>4, ElementOfSeq
  <2> QED
    BY <2>2, <2>5
<1> HIDE DEF r, keys
<1>2. a \in Statements /\ b \in Statements /\ e \in Statements /\ f \in Statements
  BY <1>1, ShortLists, HarmlessStatements, {} \in SUBSET Keys DEF RoleStatements, EditStatements
<1>3. /\ a.do = "upsertRole" /\ b.do = "findPermissions" /\ e.do = "setPermissions"
      /\ f.do = "connectFound" /\ a.role = r /\ b.role = r /\ e.role = r /\ f.role = r
      /\ b.keys = keys /\ e.keys = {}
      /\ e = Statement("setPermissions", b.role, {}) /\ f = Statement("connectFound", e.role, {})
  BY DEF Statement
<1>4. RoleBlock(i) = << a, b, e, f >>
  BY DEF RoleBlock, SeedRole, r, keys
<1>5. Seeding(a) /\ Seeding(b) /\ Seeding(e) /\ Seeding(f)
  <2>1. r = SystemRoles[i].key /\ keys = SystemRoles[i].keys
    BY DEF r, keys
  <2> HIDE DEF a, b, e, f
  <2> QED
    BY <1>3, <2>1 DEF Seeding, SeedKinds
<1> DEFINE t == << a, b, e, f >>
<1>11. Statement("upsertRole", r, {}) = a /\ Statement("setPermissions", r, {}) = e
       /\ Statement("connectFound", r, {}) = f
  OBVIOUS
<1> HIDE DEF a, b, e, f
<1>6. /\ t \in Seq(Statements) /\ Len(t) = 4 /\ t # << >> /\ DOMAIN t = 1..4
      /\ t[1] = a /\ t[2] = b /\ t[3] = e /\ t[4] = f
  BY <1>2
<1> HIDE DEF t
<1>7. 1..4 = {1, 2, 3, 4}
  OBVIOUS
<1>8. Linked(t) /\ Headed(t)
  <2>1. ASSUME NEW j \in 1..4
        PROVE  /\ t[j].do = "findPermissions" =>
                    j + 1 \in 1..4 /\ t[j + 1] = Statement("setPermissions", t[j].role, {})
               /\ t[j].do = "setPermissions" =>
                    j + 1 \in 1..4 /\ t[j + 1] = Statement("connectFound", t[j].role, {})
               /\ j + 1 \in 1..4 /\ t[j + 1].do = "setPermissions" =>
                    t[j].do = "findPermissions" /\ t[j].role = t[j + 1].role
               /\ j + 1 \in 1..4 /\ t[j + 1].do = "connectFound" =>
                    t[j].do = "setPermissions" /\ t[j].role = t[j + 1].role
    <3>1. CASE j = 1
      BY <1>3, <1>6, <3>1
    <3>2. CASE j = 2
      BY <1>3, <1>6, <3>2
    <3>3. CASE j = 3
      BY <1>3, <1>6, <3>3
    <3>4. CASE j = 4
      BY <1>3, <1>6, <3>4
    <3> QED
      BY <1>7, <3>1, <3>2, <3>3, <3>4
  <2> QED
    BY <1>3, <1>6, <2>1 DEF Linked, Headed
<1>9. ToSet(t) = {a, b, e, f}
  BY <1>6, <1>7 DEF ToSet
<1>10. /\ \A s \in ToSet(t) : Seeding(s) /\ s.do # "upsertPermission"
       /\ \A do \in {"upsertRole", "setPermissions", "connectFound"} :
            Statement(do, r, {}) \in ToSet(t)
  BY <1>3, <1>5, <1>9, <1>11
<1> QED
  BY <1>4, <1>6, <1>8, <1>10 DEF t, r

\* The blocks of all roles, one after the other.
LEMMA RolesLinked ==
  /\ SeedRoles \in Seq(Statements) /\ Linked(SeedRoles) /\ Headed(SeedRoles)
  /\ \A s \in ToSet(SeedRoles) : Seeding(s) /\ s.do # "upsertPermission"
  /\ \A i \in DOMAIN SystemRoles, do \in {"upsertRole", "setPermissions", "connectFound"} :
       Statement(do, SystemRoles[i].key, {}) \in ToSet(SeedRoles)
<1> DEFINE n == Len(SystemRoles)
           blocks == [i \in 1..n |-> RoleBlock(i)]
<1>1. DOMAIN SystemRoles = 1..n /\ n \in Nat /\ n # 0
  BY SeedsAssumption, LenProperties, EmptySeq
<1>2. SeedRoles = FlattenSeq(blocks)
  BY <1>1 DEF SeedRoles, RoleBlock
<1> HIDE DEF n
<1>3. /\ blocks \in [1..n -> Seq(Statements)]
      /\ \A i \in 1..n : blocks[i] = RoleBlock(i)
  BY <1>1, BlockLinked
<1> HIDE DEF blocks
<1>4. PICK g \in [1..n -> Seq(Statements)] : Builds(g, blocks, n)
  BY <1>1, <1>3, FlattenParts
<1> DEFINE Good(m) == g[m] # << >> /\ Linked(g[m]) /\ Headed(g[m])
           T == {m \in 1..n : ~Good(m)}
<1> HIDE DEF Good
<1>5. ASSUME T # {} PROVE FALSE
  <2>0. T \in SUBSET Nat
    OBVIOUS
  <2>1. PICK m \in T : \A k \in T : m <= k
    <3> HIDE DEF T
    <3> QED
      BY <1>5, <2>0, LeastNumber
  <2>2. m \in 1..n /\ ~Good(m)
    OBVIOUS
  <2>3. m # 1
    <3>1. g[1] = RoleBlock(1) /\ 1 \in DOMAIN SystemRoles
      BY <1>1, <1>3, <1>4, 1 \in 1..n DEF Builds
    <3> QED
      BY <2>2, <3>1, BlockLinked DEF Good
  <2>4. m \in 2..n /\ m - 1 \in 1..n /\ ~(m <= m - 1)
    BY <1>1, <2>2, <2>3
  <2>5. Good(m - 1)
    BY <2>1, <2>4
  <2>6. g[m] = g[m - 1] \o RoleBlock(m) /\ g[m - 1] \in Seq(Statements) /\ m \in DOMAIN SystemRoles
    BY <1>1, <1>3, <1>4, <2>4 DEF Builds
  <2>7. /\ RoleBlock(m) \in Seq(Statements) /\ Linked(RoleBlock(m)) /\ Headed(RoleBlock(m))
    BY <2>6, BlockLinked
  <2>8. Good(m)
    BY <2>5, <2>6, <2>7, LinkedConcat, HeadedConcat DEF Good
  <2> QED
    BY <2>2, <2>8
<1>6. Good(n)
  BY <1>1, <1>5, n \in 1..n
<1>7. Linked(SeedRoles) /\ Headed(SeedRoles)
  BY <1>2, <1>4, <1>6 DEF Good, Builds
<1>8. /\ SeedRoles \in Seq(Statements)
      /\ \A i \in 1..n : ToSet(blocks[i]) \subseteq ToSet(SeedRoles)
      /\ \A x \in ToSet(SeedRoles) : \E i \in 1..n : x \in ToSet(blocks[i])
  BY <1>1, <1>2, <1>3, FlattenMembers
<1>9. \A s \in ToSet(SeedRoles) : Seeding(s) /\ s.do # "upsertPermission"
  BY <1>1, <1>3, <1>8, BlockLinked
<1>10. \A i \in DOMAIN SystemRoles, do \in {"upsertRole", "setPermissions", "connectFound"} :
         Statement(do, SystemRoles[i].key, {}) \in ToSet(SeedRoles)
  BY <1>1, <1>3, <1>8, BlockLinked
<1> QED
  BY <1>7, <1>8, <1>9, <1>10

\* A list of statements of one kind that is no part of a block.
LEMMA PlainLinked ==
  ASSUME NEW t \in Seq(Statements), NEW do, do \notin {"findPermissions", "setPermissions", "connectFound"},
         \A s \in ToSet(t) : s.do = do
  PROVE  Linked(t) /\ Headed(t)
<1>1. DOMAIN t = 1..Len(t) /\ Len(t) \in Nat /\ (t # << >> => 1 \in 1..Len(t))
  BY LenProperties, EmptySeq
<1>2. \A i \in 1..Len(t) : t[i].do = do
  BY <1>1 DEF ToSet
<1> QED
  BY <1>1, <1>2 DEF Linked, Headed

LEMMA SeedAllTodo ==
  /\ SeedTodo(SeedAll) /\ Headed(SeedAll)
  /\ \A key \in ToSet(SystemPermissions) :
       Statement("upsertPermission", NoRole, {key}) \in ToSet(SeedAll)
  /\ \A i \in DOMAIN SystemRoles, do \in {"upsertRole", "setPermissions", "connectFound"} :
       Statement(do, SystemRoles[i].key, {}) \in ToSet(SeedAll)
  /\ \A g \in ToSet(OrganizationGrants) : Statement("grant", g[1], {g[2]}) \in ToSet(SeedAll)
<1> DEFINE p == SeedPermissions
           r == SeedRoles
           o == SeedOrganization
<1>1. /\ p \in Seq(Statements) /\ r \in Seq(Statements) /\ o \in Seq(Statements)
      /\ \A s \in ToSet(p) : s.do = "upsertPermission" /\ Seeding(s)
      /\ \A s \in ToSet(o) : s.do = "grant" /\ Seeding(s)
      /\ \A key \in ToSet(SystemPermissions) : Statement("upsertPermission", NoRole, {key}) \in ToSet(p)
      /\ \A g \in ToSet(OrganizationGrants) : Statement("grant", g[1], {g[2]}) \in ToSet(o)
  <2>1. p \in Seq(Harmless) /\ r \in Seq(Harmless) /\ o \in Seq(Harmless)
    BY SeedPartsHarmless
  <2>2. DOMAIN p = DOMAIN SystemPermissions /\ DOMAIN o = DOMAIN OrganizationGrants
    BY DEF SeedPermissions, SeedOrganization
  <2>3. /\ \A i \in DOMAIN SystemPermissions :
             p[i] = Statement("upsertPermission", NoRole, {SystemPermissions[i]})
        /\ \A i \in DOMAIN OrganizationGrants :
             o[i] = Statement("grant", OrganizationGrants[i][1], {OrganizationGrants[i][2]})
    BY DEF SeedPermissions, SeedOrganization
  <2> HIDE DEF p, o
  <2>6. \A s \in ToSet(p) : s.do = "upsertPermission" /\ Seeding(s)
    <3>1. ASSUME NEW i \in DOMAIN p PROVE p[i].do = "upsertPermission" /\ Seeding(p[i])
      <4> DEFINE u == Statement("upsertPermission", NoRole, {SystemPermissions[i]})
      <4>1. p[i] = u
        BY <2>2, <2>3
      <4>2. u.do = "upsertPermission" /\ Seeding(u)
        BY DEF Statement, Seeding, SeedKinds
      <4> HIDE DEF u
      <4> QED
        BY <4>1, <4>2
    <3> QED
      BY <3>1 DEF ToSet
  <2>7. \A s \in ToSet(o) : s.do = "grant" /\ Seeding(s)
    <3>1. ASSUME NEW i \in DOMAIN o PROVE o[i].do = "grant" /\ Seeding(o[i])
      <4> DEFINE u == Statement("grant", OrganizationGrants[i][1], {OrganizationGrants[i][2]})
      <4>1. o[i] = u
        BY <2>2, <2>3
      <4>2. u.do = "grant" /\ Seeding(u)
        BY DEF Statement, Seeding, SeedKinds
      <4> HIDE DEF u
      <4> QED
        BY <4>1, <4>2
    <3> QED
      BY <3>1 DEF ToSet
  <2>8. \A key \in ToSet(SystemPermissions) : Statement("upsertPermission", NoRole, {key}) \in ToSet(p)
    BY <2>2, <2>3 DEF ToSet
  <2>9. \A g \in ToSet(OrganizationGrants) : Statement("grant", g[1], {g[2]}) \in ToSet(o)
    BY <2>2, <2>3 DEF ToSet
  <2> QED
    BY <2>1, <2>6, <2>7, <2>8, <2>9, HarmlessStatements
<1> HIDE DEF p, r, o
<1>2. /\ Linked(r) /\ Headed(r)
      /\ \A s \in ToSet(r) : Seeding(s) /\ s.do # "upsertPermission"
      /\ \A i \in DOMAIN SystemRoles, do \in {"upsertRole", "setPermissions", "connectFound"} :
           Statement(do, SystemRoles[i].key, {}) \in ToSet(r)
  BY RolesLinked DEF r
<1>3. Linked(p) /\ Linked(o) /\ Headed(o)
  <2>1. Linked(p)
    BY <1>1, PlainLinked
  <2>2. Linked(o) /\ Headed(o)
    BY <1>1, PlainLinked
  <2> QED
    BY <2>1, <2>2
<1>4. p \o r \in Seq(Statements) /\ Linked(p \o r)
  BY <1>1, <1>2, <1>3, LinkedConcat, ConcatProperties
<1> DEFINE t == (p \o r) \o o
<1>5. t \in Seq(Statements) /\ Linked(t)
  BY <1>1, <1>3, <1>4, LinkedConcat, ConcatProperties
<1>6. ToSet(t) = ToSet(p) \cup ToSet(r) \cup ToSet(o)
  <2>1. ToSet(p \o r) = ToSet(p) \cup ToSet(r)
    BY <1>1, MembersConcat
  <2>2. ToSet((p \o r) \o o) = ToSet(p \o r) \cup ToSet(o)
    <3> DEFINE q == p \o r
    <3>1. q \in Seq(Statements) /\ o \in Seq(Statements)
      BY <1>1, <1>4
    <3> HIDE DEF q
    <3>2. ToSet(q \o o) = ToSet(q) \cup ToSet(o)
      BY <3>1, MembersConcat
    <3> QED
      BY <3>2 DEF q
  <2> QED
    BY <2>1, <2>2
<1>7. Ordered(t)
  <2> DEFINE q == p \o r
             a == Len(p)
             b == Len(r)
             e == Len(o)
  <2>1. /\ a \in Nat /\ b \in Nat /\ e \in Nat /\ Len(q) = a + b /\ Len(t) = a + b + e
        /\ \A i \in 1..(a + b) : q[i] = IF i <= a THEN p[i] ELSE r[i - a]
        /\ \A i \in 1..(a + b + e) : t[i] = IF i <= a + b THEN q[i] ELSE o[i - (a + b)]
        /\ DOMAIN p = 1..a /\ DOMAIN r = 1..b /\ DOMAIN o = 1..e
    BY <1>1, <1>4, ConcatProperties, LenProperties
  <2> HIDE DEF a, b, e, q, t
  <2>2. ASSUME NEW i \in 1..(a + b + e), i <= a PROVE t[i].do = "upsertPermission"
    <3>1. i \in 1..a /\ i \in 1..(a + b) /\ i <= a + b
      BY <2>1, <2>2
    <3>2. t[i] = p[i]
      BY <2>1, <2>2, <3>1
    <3> QED
      BY <1>1, <2>1, <3>1, <3>2 DEF ToSet
  <2>3. ASSUME NEW i \in 1..(a + b + e), i > a PROVE t[i].do # "upsertPermission"
    <3>1. CASE i <= a + b
      <4>1. i - a \in 1..b /\ i \in 1..(a + b) /\ ~(i <= a)
        BY <2>1, <2>3, <3>1
      <4>2. t[i] = r[i - a]
        BY <2>1, <2>3, <3>1, <4>1
      <4> QED
        BY <1>2, <2>1, <4>1, <4>2 DEF ToSet
    <3>2. CASE ~(i <= a + b)
      <4>1. i - (a + b) \in 1..e
        BY <2>1, <2>3, <3>2
      <4>2. t[i] = o[i - (a + b)]
        BY <2>1, <2>3, <3>2, <4>1
      <4> QED
        BY <1>1, <2>1, <4>1, <4>2 DEF ToSet
    <3> QED
      BY <3>1, <3>2
  <2>4. ASSUME NEW i \in 1..(a + b + e), NEW j \in 1..(a + b + e), i < j,
               t[j].do = "upsertPermission"
        PROVE  t[i].do = "upsertPermission"
    <3>1. j <= a
      BY <2>1, <2>3, <2>4
    <3>2. i <= a
      BY <2>1, <2>4, <3>1
    <3> QED
      BY <2>2, <3>2
  <2> QED
    BY <2>1, <2>4 DEF Ordered
<1>8. t = SeedAll
  BY DEF p, r, o, SeedAll
<1>10. Headed(t)
  <2>1. p # << >> /\ Headed(p)
    BY <1>1, SeedPartsHarmless, PlainLinked DEF p
  <2>2. Headed(p \o r) /\ p \o r # << >>
    BY <1>1, <2>1, HeadedConcat
  <2> QED
    BY <1>1, <1>4, <2>2, HeadedConcat
<1> HIDE DEF t
<1>9. SeedTodo(t)
  BY <1>1, <1>2, <1>5, <1>6, <1>7 DEF SeedTodo
<1> QED
  BY <1>1, <1>2, <1>6, <1>8, <1>9, <1>10

-----------------------------------------------------------------------------
(* The lists of the other seed and of the clearing *)

GlobalTodo(t) ==
  /\ t \in Seq(Statements)
  /\ \A s \in ToSet(t) : s.do \in {"touchRole", "upsertPermission", "addPermissions"}

ClearTodo(t) ==
  /\ t \in Seq(Statements)
  /\ \A s \in ToSet(t) :
       s.do \in {"readRoles", "removePermissions", "deleteOrdinary", "deletePermissions"}

LEMMA GlobalTodoTail ==
  ASSUME NEW t, GlobalTodo(t), t # << >>
  PROVE  GlobalTodo(Tail(t)) /\ Head(t).do \in {"touchRole", "upsertPermission", "addPermissions"}
<1>1. t \in Seq(Statements) /\ Tail(t) \in Seq(Statements)
  BY HeadTailProperties DEF GlobalTodo
<1>2. ToSet(t) = {Head(t)} \cup ToSet(Tail(t))
  BY <1>1, MembersTail
<1> QED
  BY <1>1, <1>2 DEF GlobalTodo

LEMMA ClearTodoTail ==
  ASSUME NEW t, ClearTodo(t), t # << >>
  PROVE  /\ ClearTodo(Tail(t))
         /\ Head(t).do \in {"readRoles", "removePermissions", "deleteOrdinary", "deletePermissions"}
<1>1. t \in Seq(Statements) /\ Tail(t) \in Seq(Statements)
  BY HeadTailProperties DEF ClearTodo
<1>2. ToSet(t) = {Head(t)} \cup ToSet(Tail(t))
  BY <1>1, MembersTail
<1> QED
  BY <1>1, <1>2 DEF ClearTodo

GlobalBlock(i) ==
  LET r == GlobalRoles[i].key IN
  << Statement("touchRole", r, {}) >> \o
  FlattenSeq([j \in DOMAIN GlobalRoles[i].keys |->
     << Statement("upsertPermission", NoRole, {GlobalRoles[i].keys[j]}),
        Statement("addPermissions", r, {GlobalRoles[i].keys[j]}) >>])

LEMMA GlobalBlockHas ==
  ASSUME NEW i \in DOMAIN GlobalRoles
  PROVE  /\ GlobalTodo(GlobalBlock(i))
         /\ Statement("touchRole", GlobalRoles[i].key, {}) \in ToSet(GlobalBlock(i))
         /\ \A key \in ToSet(GlobalRoles[i].keys) :
              Statement("addPermissions", GlobalRoles[i].key, {key}) \in ToSet(GlobalBlock(i))
<1> DEFINE r == GlobalRoles[i].key
           keys == GlobalRoles[i].keys
           head == Statement("touchRole", r, {})
           Pair(j) == << Statement("upsertPermission", NoRole, {keys[j]}),
                         Statement("addPermissions", r, {keys[j]}) >>
           pairs == [j \in DOMAIN keys |-> Pair(j)]
<1>1. r \in Roles /\ keys \in Seq(Keys)
  <2>1. GlobalRoles \in Seq([key : Roles, keys : Seq(Keys)])
    BY SeedsAssumption
  <2>2. DOMAIN GlobalRoles = 1..Len(GlobalRoles)
    BY <2>1, LenProperties
  <2>3. GlobalRoles[i] \in [key : Roles, keys : Seq(Keys)]
    BY <2>1, <2>2, ElementOfSeq
  <2> QED
    BY <2>3
<1>2. GlobalBlock(i) = << head >> \o FlattenSeq(pairs)
  BY DEF GlobalBlock
<1> HIDE DEF r, keys
<1>3. DOMAIN keys = 1..Len(keys) /\ Len(keys) \in Nat
  BY <1>1, LenProperties
<1>4. ASSUME NEW j \in DOMAIN keys
      PROVE  /\ Pair(j) \in Seq(Statements)
             /\ ToSet(Pair(j)) = {Statement("upsertPermission", NoRole, {keys[j]}),
                                  Statement("addPermissions", r, {keys[j]})}
  <2>1. keys[j] \in Keys
    BY <1>1, <1>3, ElementOfSeq
  <2> DEFINE a == Statement("upsertPermission", NoRole, {keys[j]})
             b == Statement("addPermissions", r, {keys[j]})
  <2>2. a \in Statements /\ b \in Statements
    BY <1>1, <2>1, StatementFits
       DEF Fits, Statement, PermissionStatements, RoleStatements, EditStatements, GrantStatements, Names
  <2> HIDE DEF a, b
  <2>3. /\ << a, b >> \in Seq(Statements) /\ DOMAIN << a, b >> = {1, 2}
        /\ << a, b >>[1] = a /\ << a, b >>[2] = b
    BY <2>2
  <2>4. ToSet(<< a, b >>) = {a, b}
    BY <2>3 DEF ToSet
  <2> QED
    BY <2>3, <2>4 DEF a, b
<1>5. /\ head \in Statements /\ << head >> \in Seq(Statements) /\ ToSet(<< head >>) = {head}
      /\ head.do = "touchRole"
  <2>1. head \in Statements /\ head.do = "touchRole"
    BY <1>1, StatementFits
       DEF Fits, Statement, PermissionStatements, RoleStatements, EditStatements, GrantStatements, Names
  <2> HIDE DEF head
  <2>2. << head >> \in Seq(Statements) /\ DOMAIN << head >> = {1} /\ << head >>[1] = head
    BY <2>1
  <2> QED
    BY <2>1, <2>2 DEF ToSet
<1> HIDE DEF Pair
<1>6. /\ pairs \in [1..Len(keys) -> Seq(Statements)]
      /\ \A j \in 1..Len(keys) : pairs[j] = Pair(j)
  BY <1>3, <1>4
<1> HIDE DEF pairs
<1> DEFINE flat == FlattenSeq(pairs)
<1>7. /\ flat \in Seq(Statements)
      /\ \A j \in 1..Len(keys) : ToSet(pairs[j]) \subseteq ToSet(flat)
      /\ \A x \in ToSet(flat) : \E j \in 1..Len(keys) : x \in ToSet(pairs[j])
  BY <1>3, <1>6, FlattenMembers
<1> HIDE DEF flat, head
<1>8. /\ << head >> \o flat \in Seq(Statements)
      /\ ToSet(<< head >> \o flat) = {head} \cup ToSet(flat)
  <2> DEFINE h == << head >>
  <2>1. h \in Seq(Statements) /\ ToSet(h) = {head}
    BY <1>5
  <2> HIDE DEF h
  <2>2. h \o flat \in Seq(Statements) /\ ToSet(h \o flat) = ToSet(h) \cup ToSet(flat)
    BY <1>7, <2>1, ConcatProperties, MembersConcat
  <2> QED
    BY <2>1, <2>2 DEF h
<1>9. ASSUME NEW x \in ToSet(flat) PROVE x.do \in {"touchRole", "upsertPermission", "addPermissions"}
  <2>1. PICK j \in 1..Len(keys) : x \in ToSet(pairs[j])
    BY <1>7
  <2>2. x \in {Statement("upsertPermission", NoRole, {keys[j]}),
               Statement("addPermissions", r, {keys[j]})}
    BY <1>3, <1>4, <1>6, <2>1
  <2> QED
    BY <2>2 DEF Statement
<1>10. ASSUME NEW key \in ToSet(keys) PROVE Statement("addPermissions", r, {key}) \in ToSet(flat)
  <2>1. PICK j \in DOMAIN keys : key = keys[j]
    BY DEF ToSet
  <2>2. Statement("addPermissions", r, {key}) \in ToSet(pairs[j])
    BY <1>3, <1>4, <1>6, <2>1
  <2> QED
    BY <1>3, <1>7, <2>2
<1>11. GlobalBlock(i) = << head >> \o flat
  BY <1>2 DEF flat
<1> QED
  BY <1>5, <1>8, <1>9, <1>10, <1>11 DEF GlobalTodo, head, r, keys

LEMMA SeedGlobalTodo ==
  /\ GlobalTodo(SeedGlobal)
  /\ \A i \in DOMAIN GlobalRoles :
       /\ Statement("touchRole", GlobalRoles[i].key, {}) \in ToSet(SeedGlobal)
       /\ \A key \in ToSet(GlobalRoles[i].keys) :
            Statement("addPermissions", GlobalRoles[i].key, {key}) \in ToSet(SeedGlobal)
<1> DEFINE n == Len(GlobalRoles)
           blocks == [i \in 1..n |-> GlobalBlock(i)]
<1>1. DOMAIN GlobalRoles = 1..n /\ n \in Nat
  BY SeedsAssumption, LenProperties
<1>2. SeedGlobal = FlattenSeq(blocks)
  BY <1>1 DEF SeedGlobal, GlobalBlock
<1> HIDE DEF n
<1>3. /\ blocks \in [1..n -> Seq(Statements)]
      /\ \A i \in 1..n : blocks[i] = GlobalBlock(i)
  BY <1>1, GlobalBlockHas DEF GlobalTodo
<1> HIDE DEF blocks
<1>4. /\ SeedGlobal \in Seq(Statements)
      /\ \A i \in 1..n : ToSet(blocks[i]) \subseteq ToSet(SeedGlobal)
      /\ \A x \in ToSet(SeedGlobal) : \E i \in 1..n : x \in ToSet(blocks[i])
  BY <1>1, <1>2, <1>3, FlattenMembers
<1>5. \A s \in ToSet(SeedGlobal) : s.do \in {"touchRole", "upsertPermission", "addPermissions"}
  BY <1>1, <1>3, <1>4, GlobalBlockHas DEF GlobalTodo
<1>6. ASSUME NEW i \in DOMAIN GlobalRoles
      PROVE  /\ Statement("touchRole", GlobalRoles[i].key, {}) \in ToSet(SeedGlobal)
             /\ \A key \in ToSet(GlobalRoles[i].keys) :
                  Statement("addPermissions", GlobalRoles[i].key, {key}) \in ToSet(SeedGlobal)
  BY <1>1, <1>3, <1>4, GlobalBlockHas
<1> QED
  BY <1>4, <1>5, <1>6 DEF GlobalTodo

-----------------------------------------------------------------------------
(* What a statement does *)

\* Each action is one kind of statement.
LEMMA ActionsDo ==
  ASSUME AccessTypes, NEW c \in Calls, NEW do, Doing(c, do)
  PROVE  /\ UpsertPermission(c) => do = "upsertPermission"
         /\ CreatePermission(c) => do = "createPermission"
         /\ UpsertRole(c) => do \in {"upsertRole", "touchRole"}
         /\ InsertRole(c) => do \in {"createRole", "createSystemRole"}
         /\ FindPermissions(c) => do = "findPermissions"
         /\ EditRole(c) => do \in Edits
         /\ RefuseSystem(c) => do = "refuseSystem"
         /\ EraseRole(c) => do = "deleteRole"
         /\ ReadRoles(c) => do = "readRoles"
         /\ DeleteOrdinary(c) => do = "deleteOrdinary"
         /\ DeletePermissions(c) => do = "deletePermissions"
         /\ EditUser(c) => do \in {"assignRole", "removeRole", "setUserRoles"}
         /\ Grant(c) => do \in {"grant", "grantDefaults"}
         /\ CreateGrant(c) => do = "createGrant"
         /\ Revoke(c) => do = "revoke"
         /\ ~AskUser(c) /\ ~AskOrganization(c)
<1>1. ASSUME NEW other, Doing(c, other) PROVE do = other
  BY <1>1 DEF Doing
<1>2. ~AskUser(c) /\ ~AskOrganization(c)
  BY DoingHolds, AskUserHolds, AskOrganizationHolds DEF AccessTypes, Sending, Checks
<1>3. EditRole(c) => do \in Edits
  <2>1. ASSUME EditRole(c) PROVE do \in Edits
    <3>1. PICK other \in Edits : Doing(c, other)
      BY <2>1 DEF EditRole, Edits
    <3> QED
      BY <1>1, <3>1
  <2> QED
    BY <2>1
<1>4. EditUser(c) => do \in {"assignRole", "removeRole", "setUserRoles"}
  BY <1>1 DEF EditUser
<1>5. /\ UpsertPermission(c) => do = "upsertPermission"
      /\ CreatePermission(c) => do = "createPermission"
      /\ FindPermissions(c) => do = "findPermissions"
  BY <1>1 DEF UpsertPermission, CreatePermission, FindPermissions
<1>6. /\ UpsertRole(c) => do \in {"upsertRole", "touchRole"}
      /\ InsertRole(c) => do \in {"createRole", "createSystemRole"}
  BY <1>1 DEF UpsertRole, InsertRole
<1>7. /\ RefuseSystem(c) => do = "refuseSystem"
      /\ EraseRole(c) => do = "deleteRole"
      /\ ReadRoles(c) => do = "readRoles"
      /\ DeleteOrdinary(c) => do = "deleteOrdinary"
      /\ DeletePermissions(c) => do = "deletePermissions"
  BY <1>1 DEF RefuseSystem, EraseRole, ReadRoles, DeleteOrdinary, DeletePermissions
<1>8. /\ Grant(c) => do \in {"grant", "grantDefaults"}
      /\ CreateGrant(c) => do = "createGrant"
      /\ Revoke(c) => do = "revoke"
  BY <1>1 DEF Grant, CreateGrant, Revoke
<1> QED
  BY <1>2, <1>3, <1>4, <1>5, <1>6, <1>7, <1>8

\* A statement that was not refused went through.
LEMMA NotRefused ==
  ASSUME AccessTypes, NEW c \in Calls, NEW do, Doing(c, do), call[c].op # "seedSingle",
         call'[c].outcome \in {"none", "done"}
  PROVE  ~Refuse(c)
<1>1. ASSUME Refuse(c) PROVE FALSE
  <2>1. PICK k \in CallRecords :
              /\ Moves(c, k) /\ k.outcome \in {"done", "refused"}
              /\ k.outcome = "done" => call[c].op = "seedSingle"
    BY <1>1, RefuseHolds DEF AccessTypes
  <2>2. call'[c] = k
    BY <2>1 DEF Moves, AccessTypes, CallsOK
  <2> QED
    BY <2>1, <2>2
<1> QED
  BY <1>1

\* The call after a statement that went through.
Passed(c) ==
  /\ call'[c].op = call[c].op /\ call'[c].role = call[c].role /\ call'[c].keys = call[c].keys
  /\ call'[c].todo = Tail(call[c].todo)
  /\ call'[c].outcome = "done" <=> call'[c].todo = << >>

LEMMA AdvancePasses ==
  ASSUME AccessTypes, NEW c \in Calls, NEW do, Doing(c, do), Advance(c)
  PROVE  Passed(c) /\ call'[c].found = call[c].found
<1>1. PICK k \in CallRecords : /\ Moves(c, k) /\ k.todo = Tail(call[c].todo)
                               /\ k.found = call[c].found
                               /\ k.outcome \in {"none", "done"}
                               /\ k.outcome = "done" <=> Tail(call[c].todo) = << >>
  BY AdvanceHolds DEF AccessTypes
<1>2. call'[c] = k
  BY <1>1 DEF Moves, AccessTypes, CallsOK
<1> QED
  BY <1>1, <1>2 DEF Passed, Moves

RoleKinds == {"upsertRole", "touchRole", "setPermissions", "connectFound", "addPermissions"}

\* What the statements of the seeds do to the roles.
RoleWrites(s, found) ==
  /\ \A r \in Roles : r # s.role => role'[r] = role[r]
  /\ s.do = "upsertRole" => role'[s.role].status = "ACTIVE"
  /\ s.do \in {"upsertRole", "touchRole"} =>
       role'[s.role].system /\ role'[s.role].keys = role[s.role].keys
  /\ s.do \in {"setPermissions", "connectFound", "addPermissions"} =>
       /\ role'[s.role].status = role[s.role].status
       /\ role[s.role].system => role'[s.role].system
  /\ s.do = "setPermissions" => role'[s.role].keys = s.keys
  /\ s.do = "connectFound" => role'[s.role].keys = role[s.role].keys \cup found
  /\ s.do = "addPermissions" => role'[s.role].keys = role[s.role].keys \cup s.keys

\* What a statement of the seeds does.
SeedWrites(c, s) ==
  /\ Passed(c) /\ s \in Statements /\ s = Head(call[c].todo) /\ call[c].todo # << >>
  /\ s.do = "findPermissions" => call'[c].found = s.keys \cap permissions
  /\ s.do # "findPermissions" => call'[c].found = call[c].found
  /\ s.do = "upsertPermission" => permissions' = permissions \cup s.keys
  /\ s.do # "upsertPermission" => permissions' = permissions
  /\ s.do = "grant" => grants' = grants \cup Pairs(s.role, s.keys)
  /\ s.do # "grant" => grants' = grants
  /\ s.do \in RoleKinds => s.role \in Roles /\ RoleWrites(s, call[c].found)
  /\ s.do \notin RoleKinds => role' = role

LEMMA UpsertRoleWrites ==
  ASSUME AccessTypes, NEW c \in Calls, UpsertRole(c)
  PROVE  RoleWrites(Head(call[c].todo), call[c].found)
<1> DEFINE s == Head(call[c].todo)
           r == s.role
<1>1. PICK do \in {"upsertRole", "touchRole"} : Doing(c, do)
  BY DEF UpsertRole
<1>2. s \in Statements /\ s.do = do
  BY <1>1, DoingHolds DEF AccessTypes
<1>3. r \in Roles
  BY <1>2 DEF Statements, Fits, RoleStatements
<1>4. PICK status : /\ role' = [role EXCEPT ![r].status = status, ![r].system = TRUE]
                    /\ s.do = "upsertRole" => status = "ACTIVE"
  BY <1>1 DEF UpsertRole, Doing
<1> HIDE DEF s
<1>5. role \in [Roles -> Rows]
  BY DEF AccessTypes, TablesOK, Rows
<1>6. \A q \in Roles : q # r => role'[q] = role[q]
  BY <1>3, <1>4, <1>5
<1>7. role'[r].status = status /\ role'[r].system /\ role'[r].keys = role[r].keys
  BY <1>3, <1>4, <1>5 DEF Rows
<1> QED
  BY <1>1, <1>2, <1>4, <1>6, <1>7 DEF RoleWrites, s

LEMMA EditRoleWrites ==
  ASSUME AccessTypes, NEW c \in Calls, EditRole(c), ~Refuse(c)
  PROVE  /\ Advance(c) /\ UNCHANGED <<permissions, userRoles, grants>>
         /\ Head(call[c].todo).role \in Roles
         /\ RoleWrites(Head(call[c].todo), call[c].found)
         /\ Exists(Head(call[c].todo).role)
         /\ Head(call[c].todo).do = "removePermissions" =>
              \A r \in Roles : /\ role'[r].status = role[r].status
                               /\ role[r].system => role'[r].system
<1> DEFINE s == Head(call[c].todo)
           r == s.role
           found == call[c].found
           row == Edited(role[r], s, found)
<1>1. PICK do \in Edits :
        /\ Doing(c, do)
        /\ Exists(r) /\ Connected(s, found) \subseteq permissions
        /\ role' = [role EXCEPT ![r] = row]
        /\ Advance(c) /\ UNCHANGED <<permissions, userRoles, grants>>
  BY DEF EditRole, Edits, Edited, Connected
<1>2. s \in Statements /\ s.do = do
  BY <1>1, DoingHolds DEF AccessTypes
<1>3. r \in Roles
  BY <1>2 DEF Statements, Fits, RoleStatements, EditStatements, Edits
<1>4. role[r] \in Rows /\ role \in [Roles -> Rows]
  BY <1>3 DEF AccessTypes, TablesOK, Rows
<1> HIDE DEF s, found
<1>5. row.system = role[r].system
  BY <1>1, <1>2, <1>4, EditedHolds DEF Exists
<1>6. s.do = "setPermissions" => row.keys = s.keys /\ row.status = role[r].status
  BY <1>4 DEF Edited, Rows
<1>7. s.do = "connectFound" => row.keys = role[r].keys \cup found /\ row.status = role[r].status
  BY <1>4 DEF Edited, Connected, Rows
<1>8. s.do = "addPermissions" => row.keys = role[r].keys \cup s.keys /\ row.status = role[r].status
  BY <1>4 DEF Edited, Connected, Rows
<1>9. s.do = "removePermissions" => row.status = role[r].status
  BY <1>4 DEF Edited, Rows
<1> HIDE DEF row, r
<1>10. role'[r] = row /\ \A q \in Roles : q # r => role'[q] = role[q]
  BY <1>1, <1>3, <1>4
<1>11. s.do \notin {"upsertRole", "touchRole"}
  BY <1>1, <1>2 DEF Edits
<1>12. RoleWrites(s, found)
  BY <1>5, <1>6, <1>7, <1>8, <1>10, <1>11 DEF RoleWrites, r
<1>13. s.do = "removePermissions" =>
         \A q \in Roles : /\ role'[q].status = role[q].status
                          /\ role[q].system => role'[q].system
  <2> SUFFICES ASSUME s.do = "removePermissions", NEW q \in Roles
               PROVE  /\ role'[q].status = role[q].status
                      /\ role[q].system => role'[q].system
    OBVIOUS
  <2>1. CASE q = r
    BY <1>5, <1>9, <1>10, <2>1
  <2>2. CASE q # r
    BY <1>10, <2>2
  <2> QED
    BY <2>1, <2>2
<1> QED
  BY <1>1, <1>3, <1>12, <1>13 DEF s, r, found

LEMMA SeedWritten ==
  ASSUME AccessTypes, NEW c \in Calls, Execute(c), call[c].op \in {"seed", "globalSeed"},
         NEW do \in SeedKinds \cup {"touchRole", "addPermissions"}, Doing(c, do),
         call'[c].outcome \in {"none", "done"}
  PROVE  SeedWrites(c, Head(call[c].todo))
<1> DEFINE s == Head(call[c].todo)
<1>1. s \in Statements /\ s.do = do /\ call[c].todo # << >>
  BY DoingHolds DEF AccessTypes, Doing
<1>2. ~Refuse(c)
  BY NotRefused
<1>3. CASE do = "upsertPermission"
  <2>1. UpsertPermission(c)
    BY <1>3, ActionsDo DEF Execute, Edits
  <2>2. /\ permissions' = permissions \cup {CHOOSE k \in s.keys : TRUE}
        /\ Advance(c) /\ UNCHANGED <<role, userRoles, grants>>
    BY <1>2, <2>1 DEF UpsertPermission
  <2>3. s.keys = {CHOOSE k \in s.keys : TRUE}
    BY <1>1, <1>3, OneKey DEF PermissionStatements
  <2> QED
    BY <1>1, <1>3, <2>2, <2>3, AdvancePasses DEF SeedWrites, RoleKinds
<1>4. CASE do \in {"upsertRole", "touchRole"}
  <2>1. UpsertRole(c)
    BY <1>4, ActionsDo DEF Execute, Edits
  <2>2. Advance(c) /\ UNCHANGED <<permissions, userRoles, grants>>
    BY <2>1 DEF UpsertRole
  <2>3. s.role \in Roles
    BY <1>1, <1>4 DEF Statements, Fits, RoleStatements
  <2> QED
    BY <1>1, <1>4, <2>1, <2>2, <2>3, UpsertRoleWrites, AdvancePasses DEF SeedWrites, RoleKinds
<1>5. CASE do = "findPermissions"
  <2>1. FindPermissions(c)
    BY <1>5, ActionsDo DEF Execute, Edits
  <2> DEFINE found == s.keys \cap permissions
             rest == Tail(call[c].todo)
  <2>2. Continue(c, found, rest) /\ UNCHANGED tables
    BY <2>1 DEF FindPermissions
  <2>3. Sending(c) /\ Remains(call[c].op, call[c].role, rest)
    BY DoingHolds DEF AccessTypes
  <2>4. found \in SUBSET Keys
    BY DEF AccessTypes, TablesOK
  <2> HIDE DEF found, rest
  <2>5. PICK k \in CallRecords : /\ Moves(c, k) /\ k.todo = rest /\ k.found = found
                                 /\ k.outcome \in {"none", "done"}
                                 /\ k.outcome = "done" <=> rest = << >>
    BY <2>2, <2>3, <2>4, ContinueHolds DEF AccessTypes
  <2>6. call'[c] = k
    BY <2>5 DEF Moves, AccessTypes, CallsOK
  <2>7. Passed(c) /\ call'[c].found = s.keys \cap permissions
    BY <2>5, <2>6 DEF Passed, Moves, found, rest
  <2> QED
    BY <1>1, <1>5, <2>2, <2>7 DEF SeedWrites, RoleKinds, tables
<1>6. CASE do \in {"setPermissions", "connectFound", "addPermissions"}
  <2>1. EditRole(c)
    BY <1>6, ActionsDo DEF Execute
  <2>2. /\ Advance(c) /\ UNCHANGED <<permissions, userRoles, grants>>
        /\ s.role \in Roles /\ RoleWrites(s, call[c].found)
    BY <1>2, <2>1, EditRoleWrites
  <2> QED
    BY <1>1, <1>6, <2>2, AdvancePasses DEF SeedWrites, RoleKinds
<1>7. CASE do = "grant"
  <2>1. Grant(c)
    BY <1>7, ActionsDo DEF Execute, Edits
  <2>2. Advance(c) /\ UNCHANGED <<permissions, role, userRoles>>
        /\ grants' = grants \cup Pairs(s.role, s.keys)
    BY <1>1, <1>7, <2>1 DEF Grant, Doing
  <2> QED
    BY <1>1, <1>7, <2>2, AdvancePasses DEF SeedWrites, RoleKinds
<1> QED
  BY <1>3, <1>4, <1>5, <1>6, <1>7 DEF SeedKinds

-----------------------------------------------------------------------------
(* The shape of the lists, and who is left undisturbed *)

ShapeInv ==
  \A c \in Calls :
    /\ call[c].op = "seed" => SeedTodo(call[c].todo)
    /\ call[c].op = "globalSeed" => GlobalTodo(call[c].todo)
    /\ call[c].outcome = "done" /\ call[c].op # "seedSingle" => call[c].todo = << >>

LEMMA StatementPasses ==
  ASSUME AccessTypes, NEW c \in Calls, Execute(c), NEW do, Doing(c, do),
         call[c].op # "seedSingle", call'[c].outcome \in {"none", "done"}
  PROVE  /\ call'[c].op = call[c].op /\ call'[c].role = call[c].role
         /\ call'[c].keys = call[c].keys
         /\ call'[c].outcome = "done" <=> call'[c].todo = << >>
         /\ do # "readRoles" => Passed(c)
<1>1. ~Refuse(c)
  BY NotRefused
<1>2. CASE Advance(c)
  BY <1>2, AdvancePasses DEF Passed
<1>3. CASE FindPermissions(c) \/ ReadRoles(c)
  <2>1. PICK found, rest : /\ Continue(c, found, rest)
                           /\ do # "readRoles" => rest = Tail(call[c].todo)
    BY <1>3, ActionsDo DEF FindPermissions, ReadRoles
  <2>2. call[c] \in CallRecords /\ call \in [Calls -> CallRecords]
    BY DEF AccessTypes, CallsOK
  <2>3. /\ call'[c].op = call[c].op /\ call'[c].role = call[c].role
        /\ call'[c].keys = call[c].keys /\ call'[c].todo = rest
        /\ call'[c].outcome = IF rest = << >> THEN "done" ELSE "none"
    BY <2>1, <2>2 DEF Continue, CallRecords
  <2> QED
    BY <2>1, <2>3 DEF Passed
<1>4. Advance(c) \/ FindPermissions(c) \/ ReadRoles(c)
  <2>1. UpsertPermission(c) \/ CreatePermission(c) \/ UpsertRole(c) \/ InsertRole(c) => Advance(c)
    BY <1>1 DEF UpsertPermission, CreatePermission, UpsertRole, InsertRole
  <2>2. EditRole(c) \/ EditUser(c) => Advance(c)
    BY <1>1 DEF EditRole, EditUser
  <2>3. RefuseSystem(c) \/ EraseRole(c) \/ DeleteOrdinary(c) \/ DeletePermissions(c) => Advance(c)
    BY <1>1 DEF RefuseSystem, EraseRole, DeleteOrdinary, DeletePermissions
  <2>4. Grant(c) \/ CreateGrant(c) \/ Revoke(c) => Advance(c)
    BY <1>1 DEF Grant, CreateGrant, Revoke
  <2>5. ~AskUser(c) /\ ~AskOrganization(c)
    BY ActionsDo
  <2> QED
    BY <2>1, <2>2, <2>3, <2>4, <2>5 DEF Execute
<1> QED
  BY <1>2, <1>3, <1>4

\* A step is a beginning, an answer, a refusal, a stop, or a statement that passes.
LEMMA StepKinds ==
  ASSUME AccessTypes, NEW d \in Calls, StartSomething(d) \/ Execute(d) \/ Stop(d)
  PROVE  \/ \E k \in CallRecords : Begins(d, k) /\ TodoInv(k) /\ Fresh(k)
         \/ /\ call[d].op \in Checks /\ call'[d].op = call[d].op /\ UNCHANGED tables
         \/ /\ UNCHANGED tables /\ call'[d].todo = call[d].todo /\ call'[d].op = call[d].op
            /\ call[d].op # "none" /\ call[d].outcome = "none"
            /\ \/ call'[d].outcome \in {"stopped", "refused"}
               \/ call[d].op = "seedSingle"
         \/ /\ call[d].op \notin Checks /\ call[d].op # "none" /\ call[d].outcome = "none"
            /\ Execute(d) /\ call'[d].op = call[d].op
            /\ call'[d].outcome \in {"none", "done"} /\ \E do : Doing(d, do)
<1>1. CASE StartSomething(d)
  BY <1>1, SomethingStarts DEF AccessTypes
<1>2. CASE Stop(d)
  <2>1. PICK k \in CallRecords : /\ Moves(d, k) /\ k.todo = call[d].todo
                                 /\ k.outcome = "stopped"
    BY <1>2, StopHolds DEF AccessTypes
  <2>2. call'[d] = k
    BY <2>1 DEF Moves, AccessTypes, CallsOK
  <2> QED
    BY <1>2, <2>1, <2>2, StopHolds DEF AccessTypes, Moves
<1>3. CASE AskUser(d) \/ AskOrganization(d)
  <2>1. /\ call[d].op \in Checks /\ UNCHANGED tables
        /\ \E k \in CallRecords : Moves(d, k)
    BY <1>3, AskUserHolds, AskOrganizationHolds DEF Checks, Asks
  <2> QED
    BY <2>1 DEF Moves, AccessTypes, CallsOK
<1>4. ASSUME NEW do, Doing(d, do), Refuse(d)
      PROVE  /\ UNCHANGED tables /\ call'[d].todo = call[d].todo /\ call'[d].op = call[d].op
             /\ call[d].op # "none" /\ call[d].outcome = "none"
             /\ \/ call'[d].outcome \in {"stopped", "refused"}
                \/ call[d].op = "seedSingle"
  <2>1. PICK k \in CallRecords :
              /\ Moves(d, k) /\ k.todo = call[d].todo
              /\ k.outcome \in {"done", "refused"}
              /\ k.outcome = "done" => call[d].op = "seedSingle"
    BY <1>4, RefuseHolds DEF AccessTypes
  <2>2. call'[d] = k
    BY <2>1 DEF Moves, AccessTypes, CallsOK
  <2> QED
    BY <1>4, <2>1, <2>2, RefuseHolds DEF AccessTypes, Moves
<1>5. ASSUME NEW do, Doing(d, do), Execute(d), ~Refuse(d)
      PROVE  /\ call[d].op \notin Checks /\ call[d].op # "none" /\ call[d].outcome = "none"
             /\ call'[d].op = call[d].op /\ call'[d].outcome \in {"none", "done"}
  <2>1. call[d].op \notin Checks /\ call[d].op # "none" /\ call[d].outcome = "none"
    BY <1>5, DoingHolds DEF AccessTypes, Sending
  <2>2. \E found, rest : Continue(d, found, rest)
    <3>1. Advance(d) => \E found, rest : Continue(d, found, rest)
      BY DEF Advance
    <3>2. FindPermissions(d) \/ ReadRoles(d) => \E found, rest : Continue(d, found, rest)
      BY DEF FindPermissions, ReadRoles
    <3>3. UpsertPermission(d) \/ CreatePermission(d) \/ UpsertRole(d) \/ InsertRole(d) => Advance(d)
      BY <1>5 DEF UpsertPermission, CreatePermission, UpsertRole, InsertRole
    <3>4. EditRole(d) \/ EditUser(d) => Advance(d)
      BY <1>5 DEF EditRole, EditUser
    <3>5. RefuseSystem(d) \/ EraseRole(d) \/ DeleteOrdinary(d) \/ DeletePermissions(d) => Advance(d)
      BY <1>5 DEF RefuseSystem, EraseRole, DeleteOrdinary, DeletePermissions
    <3>6. Grant(d) \/ CreateGrant(d) \/ Revoke(d) => Advance(d)
      BY <1>5 DEF Grant, CreateGrant, Revoke
    <3>7. ~AskUser(d) /\ ~AskOrganization(d)
      BY <1>5, ActionsDo
    <3> QED
      BY <1>5, <3>1, <3>2, <3>3, <3>4, <3>5, <3>6, <3>7 DEF Execute
  <2>3. PICK found, rest : Continue(d, found, rest)
    BY <2>2
  <2>4. call[d] \in CallRecords /\ call \in [Calls -> CallRecords]
    BY DEF AccessTypes, CallsOK
  <2>5. /\ call'[d].op = call[d].op
        /\ call'[d].outcome = IF rest = << >> THEN "done" ELSE "none"
    BY <2>3, <2>4 DEF Continue, CallRecords
  <2> QED
    BY <2>1, <2>5
<1>6. Execute(d) => AskUser(d) \/ AskOrganization(d) \/ \E do : Doing(d, do)
  BY DEF Execute, UpsertPermission, CreatePermission, UpsertRole, InsertRole, FindPermissions,
     EditRole, RefuseSystem, EraseRole, ReadRoles, DeleteOrdinary, DeletePermissions, EditUser,
     Grant, CreateGrant, Revoke
<1> QED
  BY <1>1, <1>2, <1>3, <1>4, <1>5, <1>6

Seeds == {"seed", "globalSeed"}

\* Nobody else is there but runs of the same seed that go well.
Peaceful(c) ==
  \A d \in Calls \ {c} :
    \/ call[d].op = "none"
    \/ /\ call[c].op \in Seeds /\ call[d].op = call[c].op
       /\ call[d].outcome \in {"none", "done"}

KeptInv == \A c \in Calls : call[c].op # "none" /\ Peaceful(c) => seen[c].kept

\* Only the call that takes a step changes, and it keeps what it is.
LEMMA OneCallSteps ==
  ASSUME AccessTypes, NEW d \in Calls, StartSomething(d) \/ Execute(d) \/ Stop(d)
  PROVE  /\ \A e \in Calls \ {d} : call'[e] = call[e]
         /\ call'[d].op # "none"
         /\ call[d].op # "none" => call'[d].op = call[d].op /\ call[d].outcome = "none"
<1>1. PICK k \in CallRecords : CallSteps(d, k)
  BY AccessStep
<1>2. /\ call' = [call EXCEPT ![d] = k] /\ k.op # "none"
      /\ call[d].op # "none" => k.op = call[d].op /\ call[d].outcome = "none"
  BY <1>1 DEF CallSteps, Begins, Moves, Fresh, NoCall
<1> QED
  BY <1>2 DEF AccessTypes, CallsOK

LEMMA KeptWatched ==
  ASSUME Watch, NEW c \in Calls
  PROVE  /\ call[c].op = "none" /\ call'[c].op # "none" => seen'[c].kept
         /\ seen[c].kept /\ (\A d \in Calls \ {c} : ~Disturbs(d, c)) => seen'[c].kept
<1> DEFINE started == call[c].op = "none" /\ call'[c].op # "none"
           held == IF call'[c].op \in {"all", "any", "organization"} THEN Held(c)' ELSE {}
           kept == seen[c].kept /\ \A d \in Calls \ {c} : ~Disturbs(d, c)
           always == IF Running(c) THEN seen[c].always \cap held ELSE seen[c].always
           ever == IF Running(c) THEN seen[c].ever \cup held ELSE seen[c].ever
<1>1. seen'[c] = IF started THEN [always |-> held, ever |-> held, kept |-> TRUE]
                 ELSE [always |-> always, ever |-> ever, kept |-> kept]
  BY DEF Watch
<1> HIDE DEF held, kept, always, ever
<1>2. CASE started
  BY <1>1, <1>2
<1>3. CASE ~started
  <2>1. seen'[c] = [always |-> always, ever |-> ever, kept |-> kept]
    BY <1>1, <1>3
  <2>2. seen'[c].kept = kept
    BY <2>1
  <2> QED
    BY <1>3, <2>2 DEF kept
<1> QED
  BY <1>2, <1>3

LEMMA ShapeInvNext ==
  ASSUME AccessTypes, ShapeInv, NEW d \in Calls, StartSomething(d) \/ Execute(d) \/ Stop(d)
  PROVE  ShapeInv'
<1> DEFINE Shape(k) == /\ k.op = "seed" => SeedTodo(k.todo)
                       /\ k.op = "globalSeed" => GlobalTodo(k.todo)
                       /\ k.outcome = "done" /\ k.op # "seedSingle" => k.todo = << >>
<1>0. \A c \in Calls : Shape(call[c])
  BY DEF ShapeInv
<1>1. ASSUME NEW k \in CallRecords, Begins(d, k), Fresh(k)
      PROVE  Shape(call'[d])
  <2>1. call'[d] = k
    BY <1>1 DEF Begins, AccessTypes, CallsOK
  <2>2. Shape(k)
    BY <1>1, SeedAllTodo, SeedGlobalTodo DEF Fresh
  <2> QED
    BY <2>1, <2>2
<1>2. ASSUME call[d].op \in Checks, call'[d].op = call[d].op
      PROVE  Shape(call'[d])
  <2>1. call'[d].todo = << >>
    <3>1. PICK k \in CallRecords : CallSteps(d, k)
      BY AccessStep
    <3>2. Moves(d, k)
      BY <1>2, <3>1 DEF CallSteps, Begins, NoCall, Checks
    <3>3. call'[d] = k /\ TodoInv(k)
      BY <3>2 DEF Moves, AccessTypes, CallsOK
    <3> QED
      BY <1>2, <3>3 DEF TodoInv
  <2> QED
    BY <1>2, <2>1 DEF Checks
<1>3. ASSUME call'[d].todo = call[d].todo, call'[d].op = call[d].op,
             \/ call'[d].outcome \in {"stopped", "refused"}
             \/ call[d].op = "seedSingle"
      PROVE  Shape(call'[d])
  BY <1>0, <1>3
<1>4. ASSUME Execute(d), call'[d].op = call[d].op, call'[d].outcome \in {"none", "done"},
             NEW do, Doing(d, do)
      PROVE  Shape(call'[d])
  <2>1. CASE call[d].op = "seedSingle"
    BY <1>4, <2>1
  <2>2. CASE call[d].op # "seedSingle"
    <3>1. /\ call'[d].outcome = "done" <=> call'[d].todo = << >>
          /\ do # "readRoles" => call'[d].todo = Tail(call[d].todo)
      BY <1>4, <2>2, StatementPasses DEF Passed
    <3>2. call[d].todo # << >> /\ Head(call[d].todo).do = do
      BY <1>4 DEF Doing
    <3>3. call[d].op = "seed" => SeedTodo(call'[d].todo)
      <4> HAVE call[d].op = "seed"
      <4>1. SeedTodo(Tail(call[d].todo)) /\ do \in SeedKinds
        BY <1>0, <3>2, SeedTodoTail DEF Seeding
      <4> QED
        BY <3>1, <4>1 DEF SeedKinds
    <3>4. call[d].op = "globalSeed" => GlobalTodo(call'[d].todo)
      <4> HAVE call[d].op = "globalSeed"
      <4>1. GlobalTodo(Tail(call[d].todo)) /\ do # "readRoles"
        BY <1>0, <3>2, GlobalTodoTail
      <4> QED
        BY <3>1, <4>1
    <3> QED
      BY <1>4, <3>1, <3>3, <3>4
  <2> QED
    BY <2>1, <2>2
<1>5. Shape(call'[d])
  <2> HIDE DEF Shape
  <2> QED
    BY <1>1, <1>2, <1>3, <1>4, StepKinds
<1>6. \A c \in Calls : Shape(call'[c])
  <2> HIDE DEF Shape
  <2> QED
    BY <1>0, <1>5, OneCallSteps
<1> QED
  BY <1>6 DEF ShapeInv

LEMMA KeptInvNext ==
  ASSUME AccessTypes, KeptInv, Watch, NEW d \in Calls, StartSomething(d) \/ Execute(d) \/ Stop(d)
  PROVE  KeptInv'
<1> SUFFICES ASSUME NEW c \in Calls, call'[c].op # "none", Peaceful(c)'
             PROVE  seen'[c].kept
  BY DEF KeptInv
<1>1. CASE call[c].op = "none"
  BY <1>1, KeptWatched
<1>2. CASE call[c].op # "none"
  <2>1. call'[c].op = call[c].op
    BY <1>2, OneCallSteps
  <2>2. \A e \in Calls \ {c} :
           \/ call'[e].op = "none"
           \/ /\ call'[c].op \in Seeds /\ call'[e].op = call'[c].op
              /\ call'[e].outcome \in {"none", "done"}
    BY DEF Peaceful
  <2>3. Peaceful(c)
    <3> SUFFICES ASSUME NEW e \in Calls \ {c}, call[e].op # "none"
                 PROVE  /\ call[c].op \in Seeds /\ call[e].op = call[c].op
                        /\ call[e].outcome \in {"none", "done"}
      BY DEF Peaceful
    <3>1. /\ call'[e].op = call[e].op
          /\ call[e].outcome = call'[e].outcome \/ call[e].outcome = "none"
      BY OneCallSteps
    <3> QED
      BY <2>1, <2>2, <3>1
  <2>4. seen[c].kept
    BY <1>2, <2>3 DEF KeptInv
  <2>5. ASSUME NEW e \in Calls \ {c}, Disturbs(e, c) PROVE FALSE
    <3>1. e = d /\ call'[e].op # "none"
      BY <2>5, OneCallSteps DEF Disturbs
    <3>2. SameSeed(c, e) /\ call'[e].outcome \in {"none", "done"}
      BY <2>2, <3>1 DEF SameSeed, Seeds
    <3> QED
      BY <2>5, <3>2 DEF Disturbs
  <2> QED
    BY <2>4, <2>5, KeptWatched
<1> QED
  BY <1>1, <1>2

\* There are two calls at most.
LEMMA TwoCalls ==
  ASSUME NEW c \in Calls, NEW d \in Calls, c # d, NEW e \in Calls
  PROVE  e = c \/ e = d
<1> SUFFICES ASSUME e # c, e # d PROVE FALSE
  OBVIOUS
<1>1. IsFiniteSet({}) /\ Cardinality({}) = 0
  BY FS_EmptySet
<1>2. IsFiniteSet({c}) /\ Cardinality({c}) = 1
  BY FS_Singleton
<1>3. /\ IsFiniteSet({c} \cup {d}) /\ Cardinality({c} \cup {d}) = 2
  BY <1>2, FS_AddElement
<1>4. /\ IsFiniteSet(({c} \cup {d}) \cup {e}) /\ Cardinality(({c} \cup {d}) \cup {e}) = 3
  BY <1>3, FS_AddElement
<1>5. Cardinality(({c} \cup {d}) \cup {e}) <= Cardinality(Calls)
  BY CallsAssumption, FS_Subset
<1> QED
  BY <1>4, <1>5, CallsAssumption

\* Whom a run of the same seed leaves undisturbed leaves that run undisturbed.
LEMMA BothUndisturbed ==
  ASSUME KeptInv, NEW c \in Calls, NEW d \in Calls, c # d,
         call[c].op \in Seeds, call[d].op = call[c].op, call[c].outcome \in {"none", "done"}
  PROVE  seen[d].kept
<1>1. \A e \in Calls \ {d} : e = c
  BY TwoCalls
<1>2. Peaceful(d)
  BY <1>1 DEF Peaceful
<1> QED
  BY <1>2 DEF KeptInv, Seeds

-----------------------------------------------------------------------------
(* What an undisturbed call has left so far *)

Pending(c) == ToSet(call[c].todo)

\* Somebody who runs the seed is still to connect the permissions of the role.
Connecting(r) ==
  \E e \in Calls : /\ call[e].op = "seed" /\ call[e].outcome = "none"
                   /\ Statement("connectFound", r, {}) \in Pending(e)

\* A role of the seed is as it should be, or the statement that makes it so is to come.
RoleLeft(c, i) ==
  LET r == SystemRoles[i].key
      keys == SystemRoles[i].keys IN
  /\ \/ role[r].status = "ACTIVE" /\ role[r].system
     \/ Statement("upsertRole", r, {}) \in Pending(c)
  /\ role[r].keys \subseteq keys \/ Statement("setPermissions", r, {}) \in Pending(c)
  /\ keys \subseteq role[r].keys \/ Connecting(r)

\* Between its look for the permissions of a role and their connection the seed
\* holds all of them.
FoundRight(c) ==
  call[c].todo # << >> /\ Head(call[c].todo).do \in {"setPermissions", "connectFound"} =>
    \E i \in DOMAIN SystemRoles :
      Head(call[c].todo).role = SystemRoles[i].key /\ call[c].found = SystemRoles[i].keys

SeedLeft(c) ==
  /\ \A key \in ToSet(SystemPermissions) :
       key \in permissions \/ Statement("upsertPermission", NoRole, {key}) \in Pending(c)
  /\ \A i \in DOMAIN SystemRoles : RoleLeft(c, i)
  /\ \A g \in ToSet(OrganizationGrants) :
       g \in grants \/ Statement("grant", g[1], {g[2]}) \in Pending(c)
  /\ FoundRight(c)

GlobalLeft(c) ==
  \A i \in DOMAIN GlobalRoles :
    LET r == GlobalRoles[i].key IN
    /\ role[r].system \/ Statement("touchRole", r, {}) \in Pending(c)
    /\ \A key \in ToSet(GlobalRoles[i].keys) :
         key \in role[r].keys \/ Statement("addPermissions", r, {key}) \in Pending(c)

Plain(do) == Statement(do, NoRole, {})

ClearLeft(c) ==
  /\ ClearTodo(call[c].todo)
  /\ \/ {Plain("readRoles"), Plain("deleteOrdinary")} \cap Pending(c) # {}
     \/ \A q \in Roles : Exists(q) => role[q].system
  /\ \/ {Plain("readRoles"), Plain("deletePermissions")} \cap Pending(c) # {}
     \/ permissions = {}

CreateLeft(c) ==
  LET r == call[c].role
      keys == call[c].keys IN
  \/ \E isSystem \in BOOLEAN : call[c].todo = CreateRole(r, isSystem, keys)
  \/ /\ call[c].todo = << Statement("addPermissions", r, keys) >>
     /\ role[r].status = "ACTIVE" /\ role[r].keys = {}
  \/ call[c].todo = << >> /\ role[r].status = "ACTIVE" /\ role[r].keys = keys

UpdateLeft(c) ==
  LET r == call[c].role
      of == {g \in grants : g[1] = r} IN
  \/ call[c].todo = UpdateOrganizationRole(r, call[c].keys)
  \/ call[c].todo = GrantOnly(r, call[c].keys) /\ of = {}
  \/ call[c].todo = << >> /\ of = Pairs(r, call[c].keys)

\* An operation of one statement.
OneLeft(c, s, is) == call[c].todo = << s >> \/ (call[c].todo = << >> /\ is)

Left(c) ==
  LET r == call[c].role
      keys == call[c].keys IN
  /\ call[c].op = "seed" => SeedLeft(c)
  /\ call[c].op = "globalSeed" => GlobalLeft(c)
  /\ call[c].op = "clear" => ClearLeft(c)
  /\ call[c].op = "createRole" => r \in Roles /\ CreateLeft(c)
  /\ call[c].op = "deleteRole" => call[c].todo # << >> \/ ~Exists(r)
  /\ call[c].op = "setPermissions" =>
       r \in Roles /\ OneLeft(c, Statement("setPermissions", r, keys), role[r].keys = keys)
  /\ call[c].op = "setUserRoles" =>
       OneLeft(c, Statement("setUserRoles", NoRole, keys), userRoles = keys)
  /\ call[c].op = "updateOrganizationRole" => UpdateLeft(c)

Sound(c) == seen[c].kept /\ call[c].outcome \in {"none", "done"}

LastInv == \A c \in Calls : Sound(c) => Left(c)

-----------------------------------------------------------------------------
(* The seed *)

\* What the seed's statement makes of a role.
LEMMA RoleLater ==
  ASSUME NEW m \in Calls, NEW s, SeedWrites(m, s), Seeding(s), NEW r \in Roles
  PROVE  /\ role[r].status = "ACTIVE" /\ role[r].system => role'[r].status = "ACTIVE" /\ role'[r].system
         /\ s.do = "upsertRole" /\ s.role = r => role'[r].status = "ACTIVE" /\ role'[r].system
         /\ s.do = "setPermissions" /\ s.role = r => role'[r].keys = {}
         /\ s.do = "connectFound" /\ s.role = r => role'[r].keys = role[r].keys \cup call[m].found
         /\ \/ s.role = r /\ s.do \in {"setPermissions", "connectFound"}
            \/ role'[r].keys = role[r].keys
<1> DEFINE found == call[m].found
<1>1. /\ s.do \in SeedKinds
      /\ s.do = "setPermissions" => s.keys = {}
      /\ s.do \in RoleKinds => s.role \in Roles /\ RoleWrites(s, found)
      /\ s.do \notin RoleKinds => role' = role
  BY DEF SeedWrites, Seeding
<1> HIDE DEF found
<1>2. CASE s.do \notin RoleKinds
  BY <1>1, <1>2 DEF RoleKinds
<1>3. CASE s.do \in RoleKinds /\ s.role # r
  BY <1>1, <1>3 DEF RoleWrites
<1>4. CASE s.do \in RoleKinds /\ s.role = r
  <2>1. RoleWrites(s, found) /\ s.role = r
        /\ s.do \in {"upsertRole", "setPermissions", "connectFound"}
    BY <1>1, <1>4 DEF RoleKinds, SeedKinds
  <2>2. CASE s.do = "upsertRole"
    BY <2>1, <2>2 DEF RoleWrites
  <2>3. CASE s.do = "setPermissions"
    BY <1>1, <2>1, <2>3 DEF RoleWrites
  <2>4. CASE s.do = "connectFound"
    BY <2>1, <2>4 DEF RoleWrites, found
  <2> QED
    BY <2>1, <2>2, <2>3, <2>4
<1> QED
  BY <1>2, <1>3, <1>4

\* A statement of the seed has been sent, the others are still to come.
LEMMA SeedSent ==
  ASSUME ShapeInv, NEW m \in Calls, NEW s, SeedWrites(m, s), call[m].op = "seed",
         call'[m].outcome \in {"none", "done"}, \A e \in Calls \ {m} : call'[e] = call[e]
  PROVE  /\ \A e \in Calls : Pending(e) \subseteq Pending(e)' \cup (IF e = m THEN {s} ELSE {})
         /\ Seeding(s) /\ call'[m].op = "seed"
         /\ Pending(m)' # {} => call'[m].outcome = "none"
         /\ s.do = "setPermissions" => Statement("connectFound", s.role, {}) \in Pending(m)'
<1> DEFINE t == call[m].todo
<1>1. SeedTodo(t) /\ t # << >> /\ s = Head(t) /\ call'[m].todo = Tail(t) /\ call'[m].op = "seed"
      /\ (call'[m].outcome = "done" <=> call'[m].todo = << >>)
  BY DEF ShapeInv, SeedWrites, Passed
<1> HIDE DEF t
<1>2. t \in Seq(Statements)
  BY <1>1 DEF SeedTodo
<1>3. ToSet(t) = {s} \cup ToSet(Tail(t))
  BY <1>1, <1>2, MembersTail
<1>4. Seeding(s) /\ (s.do = "setPermissions" => Statement("connectFound", s.role, {}) \in ToSet(Tail(t)))
  BY <1>1, SeedTodoTail
<1>5. Pending(m) = ToSet(t) /\ Pending(m)' = ToSet(Tail(t))
  BY <1>1 DEF Pending, t
<1>6. \A e \in Calls \ {m} : Pending(e)' = Pending(e)
  BY DEF Pending
<1>7. Pending(m)' # {} => call'[m].outcome = "none"
  <2> SUFFICES ASSUME call'[m].todo = << >> PROVE Pending(m)' = {}
    BY <1>1
  <2> QED
    BY DEF Pending, ToSet
<1> QED
  BY <1>1, <1>3, <1>4, <1>5, <1>6, <1>7

LEMMA PermissionsLater ==
  ASSUME NEW m \in Calls, NEW s, SeedWrites(m, s)
  PROVE  /\ permissions \subseteq permissions' /\ grants \subseteq grants'
         /\ \A key : s = Statement("upsertPermission", NoRole, {key}) => key \in permissions'
         /\ \A g, h : s = Statement("grant", g, {h}) => << g, h >> \in grants'
BY DEF SeedWrites, Statement, Pairs

LEMMA RoleLeftLater ==
  ASSUME AccessTypes, ShapeInv, NEW m \in Calls, NEW s, SeedWrites(m, s), call[m].op = "seed",
         call'[m].outcome \in {"none", "done"}, \A e \in Calls \ {m} : call'[e] = call[e],
         FoundRight(m), NEW c \in Calls, NEW i \in DOMAIN SystemRoles, RoleLeft(c, i)
  PROVE  RoleLeft(c, i)'
<1> DEFINE r == SystemRoles[i].key
           keys == SystemRoles[i].keys
<1>1. r \in Roles /\ \A j \in DOMAIN SystemRoles : SystemRoles[j].key = r => j = i
  <2>1. SystemRoles \in Seq([key : Roles, keys : SUBSET ToSet(SystemPermissions)])
    BY SeedsAssumption
  <2>2. SystemRoles[i] \in [key : Roles, keys : SUBSET ToSet(SystemPermissions)]
    BY <2>1, ElementOfSeq, LenProperties
  <2> QED
    BY <2>2, SeedsAssumption
<1>2. /\ \A e \in Calls : \A x \in Pending(e) : x \in Pending(e)' \/ (e = m /\ x = s)
      /\ Seeding(s) /\ call'[m].op = "seed"
      /\ Pending(m)' # {} => call'[m].outcome = "none"
      /\ s.do = "setPermissions" => Statement("connectFound", s.role, {}) \in Pending(m)'
  <2>1. \A e \in Calls : Pending(e) \subseteq Pending(e)' \cup (IF e = m THEN {s} ELSE {})
    BY SeedSent
  <2>2. \A e \in Calls : \A x \in Pending(e) : x \in Pending(e)' \/ (e = m /\ x = s)
    BY <2>1
  <2> QED
    BY <2>2, SeedSent
<1>3. s.do = "connectFound" /\ s.role = r => call[m].found = keys
  <2> HAVE s.do = "connectFound" /\ s.role = r
  <2>1. call[m].todo # << >> /\ s = Head(call[m].todo)
    BY DEF SeedWrites
  <2>2. PICK j \in DOMAIN SystemRoles : s.role = SystemRoles[j].key /\ call[m].found = SystemRoles[j].keys
    BY <2>1 DEF FoundRight
  <2> QED
    BY <1>1, <2>2
<1> DEFINE up == Statement("upsertRole", r, {})
           set == Statement("setPermissions", r, {})
           connect == Statement("connectFound", r, {})
<1>4. /\ \/ role[r].status = "ACTIVE" /\ role[r].system
         \/ up \in Pending(c)
      /\ role[r].keys \subseteq keys \/ set \in Pending(c)
      /\ \/ keys \subseteq role[r].keys
         \/ \E e \in Calls : call[e].op = "seed" /\ call[e].outcome = "none" /\ connect \in Pending(e)
  BY DEF RoleLeft, Connecting
<1>5. /\ up.do = "upsertRole" /\ up.role = r
      /\ set.do = "setPermissions" /\ set.role = r
      /\ connect.do = "connectFound" /\ connect.role = r
  BY DEF Statement
<1>6. s.do = "setPermissions" /\ s.role = r => connect \in Pending(m)'
  BY <1>2
<1> HIDE DEF r, keys, up, set, connect
<1>7. \/ role'[r].status = "ACTIVE" /\ role'[r].system
      \/ up \in Pending(c)'
  BY <1>1, <1>2, <1>4, <1>5, RoleLater
<1>8. role'[r].keys \subseteq keys \/ set \in Pending(c)'
  <2>1. CASE s.do \in {"setPermissions", "connectFound"} /\ s.role = r
    BY <1>1, <1>2, <1>3, <1>4, <1>5, <2>1, RoleLater
  <2>2. CASE ~(s.do \in {"setPermissions", "connectFound"} /\ s.role = r)
    BY <1>1, <1>2, <1>4, <1>5, <2>2, RoleLater
  <2> QED
    BY <2>1, <2>2
<1>9. \/ keys \subseteq role'[r].keys
      \/ \E e \in Calls : call'[e].op = "seed" /\ call'[e].outcome = "none" /\ connect \in Pending(e)'
  <2>1. CASE s.do = "connectFound" /\ s.role = r
    BY <1>1, <1>2, <1>3, <2>1, RoleLater
  <2>2. CASE s.do = "setPermissions" /\ s.role = r
    BY <1>2, <1>6, <2>2
  <2>3. CASE ~(s.do \in {"setPermissions", "connectFound"} /\ s.role = r)
    <3>1. role'[r].keys = role[r].keys /\ connect # s
      BY <1>1, <1>2, <1>5, <2>3, RoleLater
    <3>2. ASSUME NEW e \in Calls, call[e].op = "seed", call[e].outcome = "none", connect \in Pending(e)
          PROVE  call'[e].op = "seed" /\ call'[e].outcome = "none" /\ connect \in Pending(e)'
      BY <1>2, <3>1, <3>2
    <3> QED
      BY <1>4, <3>1, <3>2
  <2> QED
    BY <2>1, <2>2, <2>3
<1> QED
  BY <1>7, <1>8, <1>9 DEF RoleLeft, Connecting, r, keys, up, set, connect

LEMMA FoundLater ==
  ASSUME ShapeInv, NEW m \in Calls, NEW s, SeedWrites(m, s), call[m].op = "seed", SeedLeft(m)
  PROVE  FoundRight(m)'
<1> DEFINE t == call[m].todo
           u == call'[m].todo
<1>1. /\ SeedTodo(t) /\ t # << >> /\ s = Head(t) /\ u = Tail(t)
      /\ s.do = "findPermissions" => call'[m].found = s.keys \cap permissions
      /\ s.do # "findPermissions" => call'[m].found = call[m].found
  BY DEF ShapeInv, SeedWrites, Passed
<1> SUFFICES ASSUME u # << >>, Head(u).do \in {"setPermissions", "connectFound"}
             PROVE  \E i \in DOMAIN SystemRoles :
                      Head(u).role = SystemRoles[i].key /\ call'[m].found = SystemRoles[i].keys
  BY DEF FoundRight
<1> HIDE DEF t, u
<1>2. /\ Seeding(s)
      /\ s.do = "findPermissions" => \A x \in ToSet(t) : x.do # "upsertPermission"
      /\ Head(u).do = "setPermissions" => s.do = "findPermissions" /\ s.role = Head(u).role
      /\ Head(u).do = "connectFound" => s.do = "setPermissions" /\ s.role = Head(u).role
  BY <1>1, SeedTodoTail
<1>3. CASE Head(u).do = "setPermissions"
  <2>1. s.do = "findPermissions" /\ s.role = Head(u).role
    BY <1>2, <1>3
  <2>2. PICK i \in DOMAIN SystemRoles : s.role = SystemRoles[i].key /\ s.keys = SystemRoles[i].keys
    BY <1>2, <2>1 DEF Seeding
  <2>3. ToSet(SystemPermissions) \subseteq permissions
    <3> SUFFICES ASSUME NEW key \in ToSet(SystemPermissions), key \notin permissions
                 PROVE  FALSE
      OBVIOUS
    <3>1. Statement("upsertPermission", NoRole, {key}) \in ToSet(t)
      BY DEF SeedLeft, Pending, t
    <3>2. Statement("upsertPermission", NoRole, {key}).do = "upsertPermission"
      BY DEF Statement
    <3> QED
      BY <1>2, <2>1, <3>1, <3>2
  <2>4. SystemRoles[i] \in [key : Roles, keys : SUBSET ToSet(SystemPermissions)]
    <3>1. SystemRoles \in Seq([key : Roles, keys : SUBSET ToSet(SystemPermissions)])
      BY SeedsAssumption
    <3> QED
      BY <3>1, ElementOfSeq, LenProperties
  <2>5. call'[m].found = SystemRoles[i].keys
    BY <1>1, <2>1, <2>2, <2>3, <2>4
  <2> QED
    BY <2>1, <2>2, <2>5
<1>4. CASE Head(u).do = "connectFound"
  <2>1. s.do = "setPermissions" /\ s.role = Head(u).role
    BY <1>2, <1>4
  <2>2. PICK i \in DOMAIN SystemRoles : s.role = SystemRoles[i].key /\ call[m].found = SystemRoles[i].keys
    BY <1>1, <2>1 DEF SeedLeft, FoundRight, t
  <2> QED
    BY <1>1, <2>1, <2>2
<1> QED
  BY <1>3, <1>4

\* A statement of a seed leaves what every undisturbed run of it has left, its own
\* and that of another call.
LEMMA SeedLeftLater ==
  ASSUME AccessTypes, ShapeInv, NEW m \in Calls, NEW s, SeedWrites(m, s), call[m].op = "seed",
         call'[m].outcome \in {"none", "done"}, \A e \in Calls \ {m} : call'[e] = call[e],
         SeedLeft(m), NEW c \in Calls, SeedLeft(c)
  PROVE  SeedLeft(c)'
<1>1. \A e \in Calls : \A x \in Pending(e) : x \in Pending(e)' \/ (e = m /\ x = s)
  <2>1. \A e \in Calls : Pending(e) \subseteq Pending(e)' \cup (IF e = m THEN {s} ELSE {})
    BY SeedSent
  <2> QED
    BY <2>1
<1>2. ASSUME NEW key \in ToSet(SystemPermissions)
      PROVE  key \in permissions' \/ Statement("upsertPermission", NoRole, {key}) \in Pending(c)'
  BY <1>1, PermissionsLater DEF SeedLeft
<1>3. ASSUME NEW i \in DOMAIN SystemRoles
      PROVE  RoleLeft(c, i)'
  <2>1. FoundRight(m) /\ RoleLeft(c, i)
    BY DEF SeedLeft
  <2> QED
    BY <2>1, RoleLeftLater
<1>4. ASSUME NEW g \in ToSet(OrganizationGrants)
      PROVE  g \in grants' \/ Statement("grant", g[1], {g[2]}) \in Pending(c)'
  <2>1. g = << g[1], g[2] >>
    <3>1. OrganizationGrants \in Seq(OrgRoles \X OrgPermissions)
      BY SeedsAssumption
    <3>2. g \in OrgRoles \X OrgPermissions
      BY <3>1, ElementOfSeq, LenProperties DEF ToSet
    <3> QED
      BY <3>2
  <2>2. g \in grants \/ Statement("grant", g[1], {g[2]}) \in Pending(c)
    BY DEF SeedLeft
  <2>3. s = Statement("grant", g[1], {g[2]}) => g \in grants'
    BY <2>1, PermissionsLater
  <2>4. grants \subseteq grants'
    BY PermissionsLater
  <2> QED
    BY <1>1, <2>2, <2>3, <2>4
<1>5. FoundRight(c)'
  <2>1. CASE c = m
    BY <2>1, FoundLater
  <2>2. CASE c # m
    BY <2>2 DEF SeedLeft, FoundRight
  <2> QED
    BY <2>1, <2>2
<1> QED
  BY <1>2, <1>3, <1>4, <1>5 DEF SeedLeft

-----------------------------------------------------------------------------
(* The other seed *)

LEMMA GlobalLeftLater ==
  ASSUME AccessTypes, ShapeInv, NEW m \in Calls, NEW s, SeedWrites(m, s), call[m].op = "globalSeed",
         \A e \in Calls \ {m} : call'[e] = call[e],
         NEW c \in Calls, GlobalLeft(c)
  PROVE  GlobalLeft(c)'
<1> DEFINE t == call[m].todo
<1>1. GlobalTodo(t) /\ t # << >> /\ s = Head(t) /\ call'[m].todo = Tail(t)
  BY DEF ShapeInv, SeedWrites, Passed
<1> HIDE DEF t
<1>2. t \in Seq(Statements) /\ s.do \in {"touchRole", "upsertPermission", "addPermissions"}
  BY <1>1, GlobalTodoTail DEF GlobalTodo
<1>3. ToSet(t) = {s} \cup ToSet(Tail(t))
  BY <1>1, <1>2, MembersTail
<1>4. \A x \in Pending(c) : x \in Pending(c)' \/ x = s
  <2>1. CASE c = m
    <3>1. Pending(c) = ToSet(t) /\ Pending(c)' = ToSet(Tail(t))
      BY <1>1, <2>1 DEF Pending, t
    <3> QED
      BY <1>3, <3>1
  <2>2. CASE c # m
    BY <2>2 DEF Pending
  <2> QED
    BY <2>1, <2>2
<1>5. ASSUME NEW r \in Roles
      PROVE  /\ role[r].system => role'[r].system
             /\ role[r].keys \subseteq role'[r].keys
             /\ s = Statement("touchRole", r, {}) => role'[r].system
             /\ \A key : s = Statement("addPermissions", r, {key}) => key \in role'[r].keys
  <2>1. CASE s.do = "upsertPermission"
    BY <2>1 DEF SeedWrites, RoleKinds, Statement
  <2>2. CASE s.do \in {"touchRole", "addPermissions"} /\ s.role # r
    BY <2>2 DEF SeedWrites, RoleKinds, RoleWrites, Statement
  <2>3. CASE s.do = "touchRole" /\ s.role = r
    BY <2>3 DEF SeedWrites, RoleKinds, RoleWrites, Statement
  <2>4. CASE s.do = "addPermissions" /\ s.role = r
    BY <2>4 DEF SeedWrites, RoleKinds, RoleWrites, Statement
  <2> QED
    BY <1>2, <2>1, <2>2, <2>3, <2>4
<1>6. ASSUME NEW i \in DOMAIN GlobalRoles
      PROVE  LET r == GlobalRoles[i].key IN
             /\ role'[r].system \/ Statement("touchRole", r, {}) \in Pending(c)'
             /\ \A key \in ToSet(GlobalRoles[i].keys) :
                  key \in role'[r].keys \/ Statement("addPermissions", r, {key}) \in Pending(c)'
  <2> DEFINE r == GlobalRoles[i].key
  <2>1. r \in Roles
    <3>1. GlobalRoles \in Seq([key : Roles, keys : Seq(Keys)])
      BY SeedsAssumption
    <3>2. GlobalRoles[i] \in [key : Roles, keys : Seq(Keys)]
      BY <3>1, ElementOfSeq, LenProperties
    <3> QED
      BY <3>2
  <2>2. /\ role[r].system \/ Statement("touchRole", r, {}) \in Pending(c)
        /\ \A key \in ToSet(GlobalRoles[i].keys) :
             key \in role[r].keys \/ Statement("addPermissions", r, {key}) \in Pending(c)
    BY DEF GlobalLeft
  <2> HIDE DEF r
  <2>3. /\ role'[r].system \/ Statement("touchRole", r, {}) \in Pending(c)'
        /\ \A key \in ToSet(GlobalRoles[i].keys) :
             key \in role'[r].keys \/ Statement("addPermissions", r, {key}) \in Pending(c)'
    BY <1>4, <1>5, <2>1, <2>2
  <2> QED
    BY <2>3 DEF r
<1> QED
  BY <1>6 DEF GlobalLeft

-----------------------------------------------------------------------------
(* The operations of one call *)

\* What is to come after the roles were read: every statement of the clearing.
LEMMA ClearingRead ==
  ASSUME AccessTypes, NEW c \in Calls, ReadRoles(c)
  PROVE  /\ ClearTodo(call'[c].todo) /\ UNCHANGED tables
         /\ {Plain("deleteOrdinary"), Plain("deletePermissions")} \subseteq Pending(c)'
<1> DEFINE there == SetToSeq({r \in Roles : Exists(r)})
           cuts == [i \in DOMAIN there |->
                      Statement("removePermissions", there[i], role[there[i]].keys)]
           ends == << Plain("deleteOrdinary"), Plain("deletePermissions") >>
<1>1. Continue(c, {}, cuts \o ends) /\ UNCHANGED tables
  BY DEF ReadRoles, Plain
<1>2. /\ there \in Seq({r \in Roles : Exists(r)}) /\ DOMAIN there = 1..Len(there)
      /\ Len(there) \in Nat
  BY RolesInTurn
<1> HIDE DEF there
<1>3. ASSUME NEW i \in 1..Len(there)
      PROVE  /\ Statement("removePermissions", there[i], role[there[i]].keys) \in Statements
             /\ Statement("removePermissions", there[i], role[there[i]].keys).do = "removePermissions"
  <2>1. there[i] \in {r \in Roles : Exists(r)}
    BY <1>2, ElementOfSeq
  <2>2. there[i] \in Roles /\ role[there[i]].keys \in SUBSET Keys
    BY <2>1 DEF AccessTypes, TablesOK
  <2>3. Statement("removePermissions", there[i], role[there[i]].keys) \in Harmless
    BY <2>2, ShortLists DEF EditStatements
  <2> QED
    BY <2>3 DEF Harmless, Statement
<1>4. /\ cuts \in [1..Len(there) -> Statements]
      /\ \A i \in 1..Len(there) : cuts[i].do = "removePermissions"
  BY <1>2, <1>3
<1> HIDE DEF cuts
<1>5. cuts \in Seq(Statements)
  BY <1>2, <1>4, SeqDef
<1>6. \A s \in ToSet(cuts) : s.do = "removePermissions"
  BY <1>4 DEF ToSet
<1>7. /\ Plain("deleteOrdinary") \in Statements /\ Plain("deletePermissions") \in Statements
      /\ Plain("deleteOrdinary").do = "deleteOrdinary"
      /\ Plain("deletePermissions").do = "deletePermissions"
  <2>1. /\ Fits(Plain("deleteOrdinary")) /\ Fits(Plain("deletePermissions"))
        /\ NoRole \in Names /\ {} \in SUBSET Names
    BY DEF Fits, Plain, Statement, Names, PermissionStatements, RoleStatements, EditStatements,
       GrantStatements
  <2> QED
    BY <2>1 DEF Plain, Statements, Statement, PlainStatements
<1>8. ends \in Seq(Statements) /\ ToSet(ends) = {Plain("deleteOrdinary"), Plain("deletePermissions")}
  <2> DEFINE a == Plain("deleteOrdinary")
             b == Plain("deletePermissions")
  <2>1. a \in Statements /\ b \in Statements
    BY <1>7
  <2> HIDE DEF a, b
  <2>2. << a, b >> \in Seq(Statements) /\ DOMAIN << a, b >> = 1..2
        /\ << a, b >>[1] = a /\ << a, b >>[2] = b
    BY <2>1
  <2>3. ToSet(<< a, b >>) = {a, b}
    BY <2>2 DEF ToSet
  <2> QED
    BY <2>2, <2>3 DEF a, b
<1> HIDE DEF ends
<1>9. cuts \o ends \in Seq(Statements) /\ ToSet(cuts \o ends) = ToSet(cuts) \cup ToSet(ends)
  BY <1>5, <1>8, ConcatProperties, MembersConcat
<1> DEFINE rest == cuts \o ends
<1> HIDE DEF rest
<1>10. call'[c].todo = rest
  <2>1. call[c] \in CallRecords /\ call \in [Calls -> CallRecords] /\ Continue(c, {}, rest)
    BY <1>1 DEF AccessTypes, CallsOK, rest
  <2> QED
    BY <2>1 DEF Continue, CallRecords
<1>11. ClearTodo(rest) /\ ToSet(rest) = ToSet(cuts) \cup {Plain("deleteOrdinary"), Plain("deletePermissions")}
  BY <1>6, <1>7, <1>8, <1>9 DEF ClearTodo, rest
<1> QED
  BY <1>1, <1>10, <1>11 DEF Pending

LEMMA ClearLater ==
  ASSUME AccessTypes, NEW c \in Calls, call[c].op = "clear", ClearLeft(c), Execute(c),
         NEW do, Doing(c, do), call'[c].outcome \in {"none", "done"}
  PROVE  ClearLeft(c)'
<1> DEFINE t == call[c].todo
           s == Head(t)
<1>1. ClearTodo(t) /\ t # << >> /\ s.do = do
  BY DEF ClearLeft, Doing
<1> HIDE DEF t
<1>2. /\ ClearTodo(Tail(t))
      /\ do \in {"readRoles", "removePermissions", "deleteOrdinary", "deletePermissions"}
  BY <1>1, ClearTodoTail
<1>3. t \in Seq(Statements) /\ ToSet(t) = {s} \cup ToSet(Tail(t))
  BY <1>1, MembersTail DEF ClearTodo
<1>4. ~Refuse(c) /\ (do # "readRoles" => Passed(c))
  BY NotRefused, StatementPasses
<1>5. CASE do = "readRoles"
  <2>1. ReadRoles(c)
    BY <1>5, ActionsDo DEF Execute, Edits
  <2> QED
    BY <2>1, ClearingRead DEF ClearLeft
<1>6. CASE do # "readRoles"
  <2>1. call'[c].todo = Tail(t)
    BY <1>4, <1>6 DEF Passed, t
  <2>2. \A x \in Pending(c) : x \in Pending(c)' \/ x = s
    BY <1>3, <2>1 DEF Pending, t
  <2>3. \A kind : Plain(kind).do = kind
    BY DEF Plain, Statement
  <2>4. s # Plain("readRoles") /\ (s = Plain("deleteOrdinary") => do = "deleteOrdinary")
        /\ (s = Plain("deletePermissions") => do = "deletePermissions")
    BY <1>1, <1>6, <2>3
  <2>5. CASE do = "removePermissions"
    <3>1. EditRole(c)
      BY <2>5, ActionsDo DEF Execute, Edits
    <3>2. permissions' = permissions /\ \A r \in Roles : /\ role'[r].status = role[r].status
                                                         /\ role[r].system => role'[r].system
      BY <1>1, <1>4, <2>5, <3>1, EditRoleWrites DEF t
    <3>3. (\A q \in Roles : Exists(q) => role[q].system) => \A q \in Roles : Exists(q)' => role'[q].system
      BY <3>2 DEF Exists
    <3>4. s # Plain("deleteOrdinary") /\ s # Plain("deletePermissions")
      BY <2>4, <2>5
    <3> QED
      BY <1>2, <2>1, <2>2, <2>4, <3>2, <3>3, <3>4 DEF ClearLeft
  <2>6. CASE do = "deleteOrdinary"
    <3>1. DeleteOrdinary(c)
      BY <2>6, ActionsDo DEF Execute, Edits
    <3>2. permissions' = permissions /\ role' = [r \in Roles |-> IF ~role[r].system THEN Absent ELSE role[r]]
      BY <3>1 DEF DeleteOrdinary
    <3>3. ASSUME NEW q \in Roles, Exists(q)' PROVE role'[q].system
      <4>1. role'[q] = IF ~role[q].system THEN Absent ELSE role[q]
        BY <3>2
      <4>2. role'[q] # Absent
        BY <3>3 DEF Exists, Absent
      <4> QED
        BY <4>1, <4>2
    <3>4. s # Plain("deletePermissions")
      BY <2>4, <2>6
    <3> QED
      BY <1>2, <2>1, <2>2, <2>4, <3>2, <3>3, <3>4 DEF ClearLeft
  <2>7. CASE do = "deletePermissions"
    <3>1. DeletePermissions(c)
      BY <2>7, ActionsDo DEF Execute, Edits
    <3>2. permissions' = {} /\ \A r \in Roles : /\ role'[r].status = role[r].status
                                               /\ role'[r].system = role[r].system
      BY <3>1 DEF DeletePermissions
    <3>3. (\A q \in Roles : Exists(q) => role[q].system) => \A q \in Roles : Exists(q)' => role'[q].system
      BY <3>2 DEF Exists
    <3>4. s # Plain("deleteOrdinary")
      BY <2>4, <2>7
    <3> QED
      BY <1>2, <2>1, <2>2, <2>4, <3>2, <3>3, <3>4 DEF ClearLeft
  <2> QED
    BY <1>2, <1>6, <2>5, <2>6, <2>7
<1> QED
  BY <1>5, <1>6

\* The list that creates a role: the role, then its permissions if there are any.
Creating(t, r, keys) ==
  /\ t # << >>
  /\ Head(t).do \in {"createRole", "createSystemRole"} /\ Head(t).role = r
  /\ Tail(t) = IF keys = {} THEN << >> ELSE << Statement("addPermissions", r, keys) >>

LEMMA CreateLists ==
  ASSUME NEW r, NEW isSystem \in BOOLEAN, NEW keys
  PROVE  Creating(CreateRole(r, isSystem, keys), r, keys)
<1> DEFINE do == IF isSystem THEN "createSystemRole" ELSE "createRole"
           s == Statement(do, r, {})
           u == Statement("addPermissions", r, keys)
<1>1. s.do \in {"createRole", "createSystemRole"} /\ s.role = r
  BY DEF Statement
<1>2. CreateRole(r, isSystem, keys) = << s >> \o (IF keys = {} THEN << >> ELSE << u >>)
  BY DEF CreateRole
<1> HIDE DEF s, u
<1>3. << s >> \o << >> = << s >>
  BY << s >> \in Seq({s}), ConcatEmptySeq
<1>4. << s >> \o << u >> = << s, u >>
  BY s \in {s, u}, u \in {s, u}, TwoInTurn
<1>5. /\ Head(<< s >>) = s /\ Tail(<< s >>) = << >>
      /\ Head(<< s, u >>) = s /\ Tail(<< s, u >>) = << u >>
      /\ << s >> # << >> /\ << s, u >> # << >>
  BY s \in {s, u}, u \in {s, u}, Few
<1>6. CASE keys = {}
  BY <1>1, <1>2, <1>3, <1>5, <1>6 DEF Creating
<1>7. CASE keys # {}
  BY <1>1, <1>2, <1>4, <1>5, <1>7 DEF u, Creating
<1> QED
  BY <1>6, <1>7

LEMMA CreateLater ==
  ASSUME AccessTypes, NEW c \in Calls, call[c].op = "createRole", call[c].role \in Roles,
         CreateLeft(c), Execute(c), NEW do, Doing(c, do), call'[c].outcome \in {"none", "done"}
  PROVE  call'[c].role \in Roles /\ CreateLeft(c)'
<1> DEFINE t == call[c].todo
           r == call[c].role
           keys == call[c].keys
           add == Statement("addPermissions", r, keys)
<1>1. t # << >> /\ Head(t).do = do /\ ~Refuse(c) /\ role \in [Roles -> Rows]
  BY NotRefused DEF Doing, AccessTypes, TablesOK, Rows
<1>2. \/ \E isSystem \in BOOLEAN : t = CreateRole(r, isSystem, keys)
      \/ t = << add >> /\ role[r].status = "ACTIVE" /\ role[r].keys = {}
  BY <1>1 DEF CreateLeft
<1>3. do # "readRoles" => /\ call'[c].role = r /\ call'[c].keys = keys
                          /\ call'[c].todo = Tail(t)
  BY StatementPasses DEF Passed
<1>4. add.do = "addPermissions" /\ add.role = r /\ add.keys = keys /\ r \in Roles
  BY DEF Statement
<1> HIDE DEF t, r, keys
<1>5. CASE \E isSystem \in BOOLEAN : t = CreateRole(r, isSystem, keys)
  <2>1. /\ do \in {"createRole", "createSystemRole"} /\ Head(t).role = r
        /\ Tail(t) = IF keys = {} THEN << >> ELSE << add >>
    <3>1. PICK isSystem \in BOOLEAN : t = CreateRole(r, isSystem, keys)
      BY <1>5
    <3>2. Creating(t, r, keys)
      BY <3>1, CreateLists
    <3> QED
      BY <1>1, <3>2 DEF Creating
  <2>2. InsertRole(c)
    BY <2>1, ActionsDo DEF Execute, Edits
  <2>3. role' = [role EXCEPT ![r] = [status |-> "ACTIVE", keys |-> {},
                                     system |-> Head(t).do = "createSystemRole"]]
    BY <1>1, <2>1, <2>2 DEF InsertRole, t
  <2>4. role'[r].status = "ACTIVE" /\ role'[r].keys = {}
    BY <1>1, <1>4, <2>3
  <2>5. call'[c].role = r /\ call'[c].keys = keys /\ call'[c].todo = Tail(t)
    BY <1>3, <2>1
  <2> QED
    BY <1>4, <2>1, <2>4, <2>5 DEF CreateLeft
<1>6. CASE t = << add >> /\ role[r].status = "ACTIVE" /\ role[r].keys = {}
  <2> HIDE DEF add
  <2>1. Head(t) = add /\ Tail(t) = << >> /\ do = "addPermissions"
    BY <1>1, <1>4, <1>6
  <2>2. EditRole(c)
    BY <2>1, ActionsDo DEF Execute
  <2>3. RoleWrites(add, call[c].found)
    BY <1>1, <2>1, <2>2, EditRoleWrites DEF t
  <2>4. role'[r].status = "ACTIVE" /\ role'[r].keys = keys
    BY <1>4, <1>6, <2>3 DEF RoleWrites
  <2>5. call'[c].role = r /\ call'[c].keys = keys /\ call'[c].todo = Tail(t)
    BY <1>3, <2>1
  <2> QED
    BY <1>4, <2>1, <2>4, <2>5 DEF CreateLeft
<1> QED
  BY <1>2, <1>5, <1>6

LEMMA DeleteLater ==
  ASSUME AccessTypes, NEW c \in Calls, call[c].op = "deleteRole",
         Execute(c), NEW do, Doing(c, do), call'[c].outcome \in {"none", "done"},
         call'[c].todo = << >>
  PROVE  ~Exists(call[c].role)'
<1> DEFINE t == call[c].todo
           r == call[c].role
<1>1. /\ do \in {"refuseSystem", "deleteRole"} /\ ~Refuse(c) /\ t # << >> /\ Head(t).do = do
      /\ role \in [Roles -> Rows] /\ r \in Roles
      /\ t \in {DeleteRole(r), DeleteUnread(r)}
      /\ do = "deleteRole" => Head(t).role = r
  BY DoingHolds, NotRefused DEF Doing, AccessTypes, TablesOK, Rows, CallsOK, TodoInv
<1>2. call'[c].role = r /\ call'[c].todo = Tail(t)
  BY <1>1, StatementPasses DEF Passed
<1>3. do = "deleteRole"
  <2>1. ASSUME do = "refuseSystem" PROVE FALSE
    <3> DEFINE s == Statement("refuseSystem", r, {})
               u == Statement("deleteRole", r, {})
    <3>1. DeleteRole(r) = << s, u >> /\ DeleteUnread(r) = << u >> /\ u.do = "deleteRole"
      BY DEF DeleteRole, DeleteUnread, Statement
    <3> HIDE DEF s, u
    <3>2. /\ Tail(<< s, u >>) = << u >> /\ Head(<< u >>) = u /\ << u >> # << >>
      BY s \in {s, u}, u \in {s, u}, Few
    <3> HIDE DEF t
    <3>3. t = << s, u >>
      BY <1>1, <2>1, <3>1, <3>2
    <3> QED
      BY <1>2, <3>2, <3>3
  <2> QED
    BY <1>1, <2>1
<1>4. EraseRole(c)
  BY <1>3, ActionsDo DEF Execute, Edits
<1> HIDE DEF r
<1>5. role' = [role EXCEPT ![r] = Absent]
  BY <1>1, <1>3, <1>4 DEF EraseRole
<1>6. role'[r].status = "absent"
  BY <1>1, <1>5 DEF Absent
<1> QED
  BY <1>2, <1>6 DEF Exists

LEMMA SetLater ==
  ASSUME AccessTypes, NEW c \in Calls, call[c].op = "setPermissions", Left(c),
         Execute(c), NEW do, Doing(c, do), call'[c].outcome \in {"none", "done"}
  PROVE  /\ call'[c].role \in Roles /\ call'[c].todo = << >>
         /\ role'[call'[c].role].keys = call'[c].keys
<1> DEFINE t == call[c].todo
           r == call[c].role
           keys == call[c].keys
           s == Statement("setPermissions", r, keys)
<1>1. t # << >> /\ Head(t).do = do /\ ~Refuse(c) /\ r \in Roles /\ t = << s >>
  BY NotRefused DEF Doing, Left, OneLeft
<1>2. s.do = "setPermissions" /\ s.role = r /\ s.keys = keys
  BY DEF Statement
<1> HIDE DEF s
<1>3. Head(<< s >>) = s /\ Tail(<< s >>) = << >>
  BY s \in {s}, Few
<1>4. Head(t) = s /\ Tail(t) = << >> /\ do = "setPermissions"
  <2> HIDE DEF t
  <2> QED
    BY <1>1, <1>2, <1>3
<1>5. /\ call'[c].role = r /\ call'[c].keys = keys /\ call'[c].todo = << >>
  BY <1>4, StatementPasses DEF Passed
<1>6. EditRole(c)
  BY <1>4, ActionsDo DEF Execute
<1>7. RoleWrites(s, call[c].found)
  BY <1>1, <1>4, <1>6, EditRoleWrites
<1>8. role'[r].keys = keys
  BY <1>2, <1>7 DEF RoleWrites
<1> QED
  BY <1>1, <1>5, <1>8

LEMMA SetUserLater ==
  ASSUME AccessTypes, NEW c \in Calls, call[c].op = "setUserRoles", Left(c),
         Execute(c), NEW do, Doing(c, do), call'[c].outcome \in {"none", "done"}
  PROVE  call'[c].todo = << >> /\ userRoles' = call'[c].keys
<1> DEFINE t == call[c].todo
           keys == call[c].keys
           s == Statement("setUserRoles", NoRole, keys)
<1>1. t # << >> /\ Head(t).do = do /\ ~Refuse(c) /\ t = << s >>
  BY NotRefused DEF Doing, Left, OneLeft
<1>2. s.do = "setUserRoles" /\ s.keys = keys
  BY DEF Statement
<1> HIDE DEF s
<1>3. Head(<< s >>) = s /\ Tail(<< s >>) = << >>
  BY s \in {s}, Few
<1>4. Head(t) = s /\ Tail(t) = << >> /\ do = "setUserRoles"
  <2> HIDE DEF t
  <2> QED
    BY <1>1, <1>2, <1>3
<1>5. /\ call'[c].keys = keys /\ call'[c].todo = << >>
  BY <1>4, StatementPasses DEF Passed
<1>6. EditUser(c)
  BY <1>4, ActionsDo DEF Execute, Edits
<1>7. userRoles' = keys
  BY <1>1, <1>2, <1>4, <1>6 DEF EditUser
<1> QED
  BY <1>5, <1>7

LEMMA UpdateLater ==
  ASSUME AccessTypes, NEW c \in Calls, call[c].op = "updateOrganizationRole", UpdateLeft(c),
         Execute(c), NEW do, Doing(c, do), call'[c].outcome \in {"none", "done"}
  PROVE  UpdateLeft(c)'
<1> DEFINE t == call[c].todo
           r == call[c].role
           keys == call[c].keys
           s == Statement("revoke", r, {})
           u == Statement("grant", r, keys)
<1>1. t # << >> /\ Head(t).do = do /\ ~Refuse(c)
  BY NotRefused DEF Doing
<1>2. /\ UpdateOrganizationRole(r, keys) = << s, u >> /\ GrantOnly(r, keys) = << u >>
      /\ s.do = "revoke" /\ s.role = r /\ u.do = "grant" /\ u.role = r /\ u.keys = keys
  BY DEF UpdateOrganizationRole, GrantOnly, Statement
<1>3. t = << s, u >> \/ (t = << u >> /\ {g \in grants : g[1] = r} = {})
  BY <1>1, <1>2 DEF UpdateLeft
<1> HIDE DEF s, u
<1>4. /\ Head(<< s, u >>) = s /\ Tail(<< s, u >>) = << u >>
      /\ Head(<< u >>) = u /\ Tail(<< u >>) = << >>
  BY s \in {s, u}, u \in {s, u}, Few
<1>5. do # "readRoles" => /\ call'[c].role = r /\ call'[c].keys = keys
                          /\ call'[c].todo = Tail(t)
  BY StatementPasses DEF Passed
<1> HIDE DEF t, r, keys
<1>6. CASE t = << s, u >>
  <2>1. Head(t) = s /\ Tail(t) = << u >> /\ do = "revoke"
    BY <1>1, <1>2, <1>4, <1>6
  <2>2. Revoke(c)
    BY <2>1, ActionsDo DEF Execute, Edits
  <2>3. grants' = {g \in grants : g[1] # r}
    BY <1>2, <2>1, <2>2 DEF Revoke, t
  <2>4. {g \in grants' : g[1] = r} = {}
    BY <2>3
  <2>5. call'[c].role = r /\ call'[c].keys = keys /\ call'[c].todo = << u >>
    BY <1>5, <2>1
  <2> QED
    BY <1>2, <2>4, <2>5 DEF UpdateLeft
<1>7. CASE t = << u >> /\ {g \in grants : g[1] = r} = {}
  <2>1. Head(t) = u /\ Tail(t) = << >> /\ do = "grant"
    BY <1>1, <1>2, <1>4, <1>7
  <2>2. Grant(c)
    BY <2>1, ActionsDo DEF Execute, Edits
  <2>3. grants' = grants \cup Pairs(r, keys)
    BY <1>1, <1>2, <2>1, <2>2 DEF Grant, t, Doing
  <2>4. {g \in grants' : g[1] = r} = Pairs(r, keys)
    <3>1. \A g \in Pairs(r, keys) : g[1] = r
      BY DEF Pairs
    <3> QED
      BY <1>7, <2>3, <3>1
  <2>5. call'[c].role = r /\ call'[c].keys = keys /\ call'[c].todo = << >>
    BY <1>5, <2>1
  <2> QED
    BY <2>4, <2>5 DEF UpdateLeft
<1> QED
  BY <1>3, <1>6, <1>7

-----------------------------------------------------------------------------
(* Every step *)

\* A call that begins has everything to come.
LEMMA FreshSeedLeft ==
  ASSUME NEW d \in Calls, call'[d].op = "seed", call'[d].outcome = "none", call'[d].todo = SeedAll
  PROVE  SeedLeft(d)'
<1>1. Pending(d)' = ToSet(SeedAll)
  BY DEF Pending
<1>2. ASSUME NEW i \in DOMAIN SystemRoles
      PROVE  RoleLeft(d, i)'
  <2>1. /\ Statement("upsertRole", SystemRoles[i].key, {}) \in Pending(d)'
        /\ Statement("setPermissions", SystemRoles[i].key, {}) \in Pending(d)'
        /\ Statement("connectFound", SystemRoles[i].key, {}) \in Pending(d)'
    BY <1>1, SeedAllTodo
  <2> QED
    BY <2>1 DEF RoleLeft, Connecting
<1>3. FoundRight(d)'
  <2>1. SeedAll # << >> => Head(SeedAll).do \notin {"setPermissions", "connectFound"}
    BY SeedAllTodo DEF Headed, SeedTodo
  <2> QED
    BY <2>1 DEF FoundRight
<1> QED
  BY <1>1, <1>2, <1>3, SeedAllTodo DEF SeedLeft

LEMMA FreshClearLeft ==
  ASSUME NEW d \in Calls, call'[d].todo = << Plain("readRoles") >>
  PROVE  ClearLeft(d)'
<1> DEFINE s == Plain("readRoles")
<1>1. s \in Statements /\ s.do = "readRoles"
  <2>1. Fits(s) /\ NoRole \in Names /\ {} \in SUBSET Names
    BY DEF Fits, Plain, Statement, Names, PermissionStatements, RoleStatements, EditStatements,
       GrantStatements
  <2> QED
    BY <2>1 DEF Plain, Statements, Statement, PlainStatements
<1> HIDE DEF s
<1>2. << s >> \in Seq(Statements) /\ DOMAIN << s >> = 1..1 /\ << s >>[1] = s
  BY <1>1
<1>3. ToSet(<< s >>) = {s}
  BY <1>2 DEF ToSet
<1>4. ClearTodo(<< s >>)
  BY <1>1, <1>2, <1>3 DEF ClearTodo
<1>5. call'[d].todo = << s >>
  BY DEF s
<1>6. s \in Pending(d)'
  BY <1>3, <1>5 DEF Pending
<1> QED
  BY <1>4, <1>5, <1>6 DEF ClearLeft, s

LEMMA FreshLeft ==
  ASSUME AccessTypes, NEW d \in Calls, NEW k \in CallRecords, Begins(d, k), Fresh(k)
  PROVE  Left(d)'
<1>1. call'[d] = k
  BY DEF Begins, AccessTypes, CallsOK
<1>2. k.op = "seed" => SeedLeft(d)'
  BY <1>1, FreshSeedLeft DEF Fresh
<1>3. k.op = "globalSeed" => GlobalLeft(d)'
  BY <1>1, SeedGlobalTodo DEF Fresh, GlobalLeft, Pending
<1>4. k.op = "clear" => ClearLeft(d)'
  BY <1>1, FreshClearLeft DEF Fresh, Plain
<1>5. k.op = "createRole" => k.role \in Roles /\ CreateLeft(d)'
  BY <1>1 DEF Fresh, CreateLeft
<1>6. k.op = "deleteRole" => k.todo # << >>
  <2> DEFINE s == Statement("refuseSystem", k.role, {})
             u == Statement("deleteRole", k.role, {})
  <2>1. DeleteRole(k.role) = << s, u >>
    BY DEF DeleteRole
  <2> HIDE DEF s, u
  <2>2. << s, u >> # << >>
    BY s \in {s, u}, u \in {s, u}, Few
  <2> QED
    BY <2>1, <2>2 DEF Fresh
<1>7. k.op = "updateOrganizationRole" => UpdateLeft(d)'
  BY <1>1 DEF Fresh, UpdateLeft
<1>8. /\ k.op = "setPermissions" =>
           k.role \in Roles /\ k.todo = << Statement("setPermissions", k.role, k.keys) >>
      /\ k.op = "setUserRoles" => k.todo = << Statement("setUserRoles", NoRole, k.keys) >>
  BY DEF Fresh
<1> QED
  BY <1>1, <1>2, <1>3, <1>4, <1>5, <1>6, <1>7, <1>8 DEF Left, OneLeft

\* A step that writes no table and touches no running seed leaves it at that.
LEMMA StillLeft ==
  ASSUME UNCHANGED tables, NEW c \in Calls, call'[c] = call[c], Left(c),
         call[c].op = "seed" =>
           \A e \in Calls : call[e].op = "seed" => call'[e] = call[e]
  PROVE  Left(c)'
<1>0. permissions' = permissions /\ role' = role /\ userRoles' = userRoles /\ grants' = grants
  BY DEF tables
<1>1. Pending(c)' = Pending(c)
  BY DEF Pending
<1>2. call[c].op = "seed" => SeedLeft(c)'
  <2> HAVE call[c].op = "seed"
  <2>1. \A r : Connecting(r) => Connecting(r)'
    BY DEF Connecting, Pending
  <2>2. SeedLeft(c)
    BY DEF Left
  <2>3. \A i \in DOMAIN SystemRoles : RoleLeft(c, i) => RoleLeft(c, i)'
    BY <1>0, <1>1, <2>1 DEF RoleLeft
  <2>4. FoundRight(c)'
    BY <2>2 DEF SeedLeft, FoundRight
  <2> QED
    BY <1>0, <1>1, <2>2, <2>3, <2>4 DEF SeedLeft
<1>3. call[c].op = "globalSeed" => GlobalLeft(c)'
  BY <1>0, <1>1 DEF Left, GlobalLeft
<1>4. call[c].op = "clear" => ClearLeft(c)'
  BY <1>0, <1>1 DEF Left, ClearLeft, Exists
<1>5. call[c].op = "createRole" => CreateLeft(c)'
  BY <1>0 DEF Left, CreateLeft
<1>6. call[c].op = "updateOrganizationRole" => UpdateLeft(c)'
  BY <1>0 DEF Left, UpdateLeft
<1>7. call[c].op = "deleteRole" => call[c].todo # << >> \/ ~Exists(call[c].role)'
  BY <1>0 DEF Left, Exists
<1> QED
  BY <1>0, <1>2, <1>3, <1>4, <1>5, <1>6, <1>7 DEF Left, OneLeft, Exists

LEMMA SeedPasses ==
  ASSUME AccessTypes, ShapeInv, NEW m \in Calls, call[m].op \in Seeds, Execute(m),
         NEW do, Doing(m, do), call'[m].outcome \in {"none", "done"}
  PROVE  SeedWrites(m, Head(call[m].todo))
<1>1. call[m].todo # << >> /\ Head(call[m].todo).do = do
  BY DEF Doing
<1>2. do \in SeedKinds \cup {"touchRole", "addPermissions"}
  <2>1. CASE call[m].op = "seed"
    BY <1>1, <2>1, SeedTodoTail DEF ShapeInv, Seeding
  <2>2. CASE call[m].op = "globalSeed"
    BY <1>1, <2>2, GlobalTodoTail DEF ShapeInv, SeedKinds
  <2> QED
    BY <2>1, <2>2 DEF Seeds
<1> QED
  BY <1>2, SeedWritten DEF Seeds

\* A statement of one's own, or of another run of the same seed.
LEMMA SeedsLeft ==
  ASSUME AccessTypes, ShapeInv, NEW m \in Calls, call[m].op \in Seeds, Execute(m),
         NEW do, Doing(m, do), call'[m].outcome \in {"none", "done"}, Left(m),
         NEW c \in Calls, call[c].op = call[m].op, call'[c].op = call[c].op, Left(c)
  PROVE  Left(c)'
<1> DEFINE s == Head(call[m].todo)
<1>1. SeedWrites(m, s)
  BY SeedPasses
<1>2. \A e \in Calls \ {m} : call'[e] = call[e]
  BY OneCallSteps
<1> HIDE DEF s
<1>3. CASE call[m].op = "seed"
  <2>1. SeedLeft(m) /\ SeedLeft(c)
    BY <1>3 DEF Left
  <2>2. SeedLeft(c)'
    BY <1>1, <1>2, <1>3, <2>1, SeedLeftLater
  <2> QED
    BY <1>3, <2>2 DEF Left
<1>4. CASE call[m].op = "globalSeed"
  <2>1. GlobalLeft(c)
    BY <1>4 DEF Left
  <2>2. GlobalLeft(c)'
    BY <1>1, <1>2, <1>4, <2>1, GlobalLeftLater
  <2> QED
    BY <1>4, <2>2 DEF Left
<1> QED
  BY <1>3, <1>4 DEF Seeds

LEMMA OwnLeft ==
  ASSUME AccessTypes, ShapeInv, NEW c \in Calls, Execute(c), call'[c].op = call[c].op,
         NEW do, Doing(c, do), call'[c].outcome \in {"none", "done"}, Left(c)
  PROVE  Left(c)'
<1>1. CASE call[c].op \in Seeds
  BY <1>1, SeedsLeft
<1>2. CASE call[c].op = "clear"
  BY <1>2, ClearLater DEF Left
<1>3. CASE call[c].op = "createRole"
  BY <1>3, CreateLater DEF Left
<1>4. CASE call[c].op = "deleteRole"
  <2>1. call'[c].role = call[c].role
    BY <1>4, StatementPasses
  <2>2. call'[c].todo = << >> => ~Exists(call[c].role)'
    BY <1>4, DeleteLater
  <2> QED
    BY <1>4, <2>1, <2>2 DEF Left, Exists
<1>5. CASE call[c].op = "setPermissions"
  BY <1>5, SetLater DEF Left, OneLeft
<1>6. CASE call[c].op = "setUserRoles"
  BY <1>6, SetUserLater DEF Left, OneLeft
<1>7. CASE call[c].op = "updateOrganizationRole"
  BY <1>7, UpdateLater DEF Left
<1> QED
  BY <1>1, <1>2, <1>3, <1>4, <1>5, <1>6, <1>7 DEF Left, Seeds

LEMMA LastInvNext ==
  ASSUME AccessTypes, ShapeInv, KeptInv, LastInv, Watch,
         NEW d \in Calls, StartSomething(d) \/ Execute(d) \/ Stop(d)
  PROVE  LastInv'
<1> SUFFICES ASSUME NEW c \in Calls, seen'[c].kept, call'[c].outcome \in {"none", "done"}
             PROVE  Left(c)'
  BY DEF LastInv, Sound
<1>1. CASE c = d
  <2>1. CASE \E k \in CallRecords : Begins(d, k) /\ Fresh(k)
    BY <1>1, <2>1, FreshLeft
  <2>2. CASE call[d].op \in Checks \cup {"seedSingle"} /\ call'[d].op = call[d].op
    BY <1>1, <2>2 DEF Left, Checks
  <2>3. CASE /\ call[d].op # "none" /\ call[d].outcome = "none" /\ call'[d].op = call[d].op
             /\ Execute(d) /\ \E do : Doing(d, do)
    <3>1. Left(d)
      BY <1>1, <2>3, WatchedKept DEF LastInv, Sound
    <3> QED
      BY <1>1, <2>3, <3>1, OwnLeft
  <2> QED
    BY <1>1, <2>1, <2>2, <2>3, StepKinds
<1>2. CASE c # d
  <2>1. call'[c] = call[c]
    BY <1>2, OneCallSteps
  <2>2. CASE call[c].op = "none"
    BY <2>1, <2>2 DEF Left
  <2>3. CASE call[c].op # "none"
    <3>1. seen[c].kept /\ ~Disturbs(d, c)
      BY <1>2, <2>3, WatchedKept
    <3>2. Left(c)
      BY <2>1, <3>1 DEF LastInv, Sound
    <3>3. CASE UNCHANGED tables /\ ~(call[c].op = "seed" /\ call[d].op = "seed")
      <4>1. call[c].op = "seed" => \A e \in Calls : call[e].op = "seed" => call'[e] = call[e]
        BY <3>3, OneCallSteps
      <4> QED
        BY <2>1, <3>2, <3>3, <4>1, StillLeft
    <3>4. CASE ~SameSeed(c, d)
      <4>1. UNCHANGED tables
        BY <1>2, <2>3, <3>4, QuietStep
      <4>2. ~(call[c].op = "seed" /\ call[d].op = "seed")
        BY <2>1, <3>4, OneCallSteps DEF SameSeed
      <4> QED
        BY <3>3, <4>1, <4>2
    <3>5. CASE SameSeed(c, d)
      <4>1. call[c].op \in Seeds /\ call'[d].op = call[c].op
        BY <2>1, <3>5 DEF SameSeed, Seeds
      <4>2. CASE \E k \in CallRecords : Begins(d, k)
        BY <3>3, <4>2 DEF Begins, NoCall
      <4>3. CASE /\ call[d].op # "none" /\ call[d].outcome = "none" /\ call'[d].op = call[d].op
                 /\ Execute(d) /\ call'[d].outcome \in {"none", "done"} /\ \E do : Doing(d, do)
        <5>1. seen[d].kept
          BY <1>2, <2>1, <4>1, <4>3, BothUndisturbed
        <5>2. Left(d)
          BY <4>3, <5>1 DEF LastInv, Sound
        <5> QED
          BY <2>1, <3>2, <4>1, <4>3, <5>2, SeedsLeft
      <4>4. ~(/\ call[d].outcome = "none" /\ call'[d].outcome \in {"stopped", "refused"})
        BY <3>1 DEF Disturbs
      <4> QED
        BY <4>1, <4>2, <4>3, <4>4, StepKinds DEF Seeds, Checks
    <3> QED
      BY <3>4, <3>5
  <2> QED
    BY <2>2, <2>3
<1> QED
  BY <1>1, <1>2

-----------------------------------------------------------------------------
(* The last writer stands *)

LEMMA SeedAchieved ==
  ASSUME AccessTypes, NEW c \in Calls, call[c].op = "seed", call[c].todo = << >>, SeedLeft(c),
         \A d \in Calls : call[d].op = "seed" => ~Running(d)
  PROVE  /\ ToSet(SystemPermissions) \subseteq permissions
         /\ \A i \in DOMAIN SystemRoles :
              role[SystemRoles[i].key] = [status |-> "ACTIVE", system |-> TRUE,
                                          keys |-> SystemRoles[i].keys]
         /\ ToSet(OrganizationGrants) \subseteq grants
<1>1. Pending(c) = {}
  BY DEF Pending, ToSet
<1>2. \A r : ~Connecting(r)
  BY DEF Connecting, Running
<1>3. ASSUME NEW i \in DOMAIN SystemRoles
      PROVE  role[SystemRoles[i].key] = [status |-> "ACTIVE", system |-> TRUE,
                                         keys |-> SystemRoles[i].keys]
  <2> DEFINE r == SystemRoles[i].key
             keys == SystemRoles[i].keys
  <2>1. r \in Roles
    <3>1. SystemRoles \in Seq([key : Roles, keys : SUBSET ToSet(SystemPermissions)])
      BY SeedsAssumption
    <3>2. SystemRoles[i] \in [key : Roles, keys : SUBSET ToSet(SystemPermissions)]
      BY <3>1, ElementOfSeq, LenProperties
    <3> QED
      BY <3>2
  <2>2. role[r].status = "ACTIVE" /\ role[r].system /\ role[r].keys = keys
    BY <1>1, <1>2 DEF SeedLeft, RoleLeft
  <2>3. role[r] \in Rows
    BY <2>1 DEF AccessTypes, TablesOK, Rows
  <2> HIDE DEF r, keys
  <2>4. role[r] = [status |-> "ACTIVE", system |-> TRUE, keys |-> keys]
    BY <2>2, <2>3 DEF Rows
  <2> QED
    BY <2>4 DEF r, keys
<1> QED
  BY <1>1, <1>3 DEF SeedLeft

LEMMA Stands ==
  ASSUME AccessTypes, ShapeInv, LastInv, NEW c \in Calls,
         call[c].outcome = "done", seen[c].kept,
         \A d \in Calls : call[d].op = call[c].op => ~Running(d)
  PROVE  Achieved(c)
<1>1. Left(c) /\ (call[c].op # "seedSingle" => call[c].todo = << >>)
  BY DEF LastInv, Sound, ShapeInv
<1>2. \A s : << s >> # << >>
  OBVIOUS
<1>3. call[c].op # "seedSingle" => Pending(c) = {}
  BY <1>1 DEF Pending, ToSet
<1>4. CASE call[c].op = "seed"
  BY <1>1, <1>4, SeedAchieved DEF Left, Achieved
<1>5. CASE call[c].op = "globalSeed"
  BY <1>1, <1>3, <1>5 DEF Left, GlobalLeft, Achieved
<1>6. CASE call[c].op = "clear"
  BY <1>1, <1>3, <1>6 DEF Left, ClearLeft, Achieved
<1>7. CASE call[c].op = "createRole"
  <2>1. \A isSystem \in BOOLEAN : CreateRole(call[c].role, isSystem, call[c].keys) # << >>
    <3>1. \A isSystem \in BOOLEAN :
            Creating(CreateRole(call[c].role, isSystem, call[c].keys), call[c].role, call[c].keys)
      BY CreateLists
    <3> QED
      BY <3>1 DEF Creating
  <2> QED
    BY <1>1, <1>2, <1>7, <2>1 DEF Left, CreateLeft, Achieved
<1>8. CASE call[c].op = "deleteRole"
  BY <1>1, <1>8 DEF Left, Achieved
<1>9. CASE call[c].op = "setPermissions"
  BY <1>1, <1>2, <1>9 DEF Left, OneLeft, Achieved
<1>10. CASE call[c].op = "setUserRoles"
  BY <1>1, <1>2, <1>10 DEF Left, OneLeft, Achieved
<1>11. CASE call[c].op = "updateOrganizationRole"
  <2>1. UpdateOrganizationRole(call[c].role, call[c].keys) # << >>
        /\ GrantOnly(call[c].role, call[c].keys) # << >>
    <3> DEFINE s == Statement("revoke", call[c].role, {})
               u == Statement("grant", call[c].role, call[c].keys)
    <3>1. UpdateOrganizationRole(call[c].role, call[c].keys) = << s, u >>
          /\ GrantOnly(call[c].role, call[c].keys) = << u >>
      BY DEF UpdateOrganizationRole, GrantOnly
    <3> HIDE DEF s, u
    <3>2. << s, u >> # << >>
      BY s \in {s, u}, u \in {s, u}, Few
    <3> QED
      BY <1>2, <3>1, <3>2
  <2> QED
    BY <1>1, <1>11, <2>1 DEF Left, UpdateLeft, Achieved
<1> QED
  BY <1>4, <1>5, <1>6, <1>7, <1>8, <1>9, <1>10, <1>11 DEF Achieved

LastStandInv == AccessTypes /\ ShapeInv /\ KeptInv /\ LastInv

LEMMA LastStandNext == ASSUME LastStandInv, [Next]_vars PROVE LastStandInv'
<1>1. CASE UNCHANGED vars
  <2>1. AccessTypes'
    BY AccessTypesNext DEF LastStandInv
  <2>2. ShapeInv' /\ KeptInv'
    BY <1>1 DEF LastStandInv, ShapeInv, KeptInv, Peaceful, vars
  <2>3. UNCHANGED tables /\ call' = call /\ seen' = seen
    BY <1>1 DEF vars
  <2>4. \A c \in Calls : Left(c) => Left(c)'
    BY <2>3, StillLeft
  <2> QED
    BY <2>1, <2>2, <2>3, <2>4 DEF LastStandInv, LastInv, Sound
<1>2. CASE Next
  BY <1>2, AccessTypesNext, ShapeInvNext, KeptInvNext, LastInvNext DEF LastStandInv, Next
<1> QED
  BY <1>1, <1>2

LEMMA LastStandInitially == Init => LastStandInv
<1> SUFFICES ASSUME Init PROVE LastStandInv
  OBVIOUS
<1>1. AccessTypes
  BY AccessInitially
<1>2. \A c \in Calls : call[c] = NoCall /\ NoCall.op = "none" /\ NoCall.outcome = "none"
  BY DEF Init, NoCall
<1>3. ShapeInv /\ KeptInv /\ LastInv
  BY <1>2 DEF ShapeInv, KeptInv, LastInv, Left
<1> QED
  BY <1>1, <1>3 DEF LastStandInv

\* A call that returned and that nobody disturbed has left what it was to leave, a
\* seed also when the same seed ran beside it.
THEOREM LastWritersStand == Spec => []LastWriterStands
<1>1. LastStandInv /\ [Next]_vars => LastStandInv'
  BY LastStandNext
<1>2. LastStandInv => LastWriterStands
  BY Stands DEF LastStandInv, LastWriterStands
<1> QED
  BY <1>1, <1>2, LastStandInitially, PTL DEF Spec
=============================================================================
