----------------------------- MODULE AccountsProofs -----------------------------
(***************************************************************************)
(* Theorems about module Accounts, for any number of calls, sagas, users   *)
(* and emails, whatever usernames these make, and everything that          *)
(* infrastructure may do: nobody is served as somebody else, the outcome   *)
(* of a registration is the truth about its user, and a saga erases no     *)
(* user but its own.                                                       *)
(***************************************************************************)
EXTENDS Accounts, SequenceTheorems, WellFoundedInduction, TLAPS

-----------------------------------------------------------------------------
(* The inductive invariant *)

UserRecords ==
  [state : {"none", "live", "deleted", "erased"}, email : Emails \cup {NobodyYet},
   by : Makers, role : BOOLEAN]
Answers == {"none", "exists", "registered", "unknown", "refused", "loggedIn", "failed", "lost"}
CallRecords ==
  [op : {"none", "register", "login"}, email : Emails \cup {NobodyYet},
   stage : {"idle", "asking", "creating", "checking", "answered"},
   user : Ids \cup {Nobody}, answer : Answers, had : BOOLEAN]
SagaStages == {"idle", "removingRole", "erasing", "ended"} \cup Writing
SagaRecords ==
  [email : Emails \cup {NobodyYet}, stage : SagaStages, promises : SUBSET Writing,
   user : Ids \cup {Nobody}, outcome : {"none", "completed", "failed", "lost"}]

\* A row has a maker from its insertion on.  A saga makes one row at most, and
\* only a saga that failed has its row erased.
RowsInv ==
  \A id \in Ids :
    /\ users[id].state = "none" => users[id].by = NobodyYet
    /\ users[id].state = "erased" =>
         users[id].by \in Sagas /\ saga[users[id].by].outcome = "failed"
    /\ users[id].by \in Sagas =>
         /\ saga[users[id].by].stage # "idle"
         /\ "creating" \notin saga[users[id].by].promises

\* The row that a lookup found, or a call acts for, is one of that email.
Has(id, email) == id \in Ids /\ users[id].state # "none" /\ users[id].email = email

LoaderInv ==
  \A email \in DOMAIN byEmail : byEmail[email] # Nobody => Has(byEmail[email], email)

CallsInv ==
  \A c \in Calls :
    /\ call[c].stage # "answered" => call[c].answer = "none"
    /\ call[c].user # Nobody => Has(call[c].user, call[c].email)
    /\ call[c].answer = "registered" => call[c].user # Nobody /\ users[call[c].user].by = c
    /\ call[c].answer = "exists" => \E id \in Ids : Has(id, call[c].email)

\* What a saga has achieved by the stage it has come to.
Owns(s) == saga[s].user \in Ids /\ users[saga[s].user].by = s
SagaHolds(s) ==
  /\ saga[s].stage = "idle" => saga[s].promises = {}
  /\ saga[s].outcome = "none" <=> saga[s].stage # "ended"
  /\ \/ saga[s].stage \in {"assigning", "publishing", "removingRole", "erasing"}
     \/ saga[s].promises \cap {"assigning", "publishing"} # {}
     \/ saga[s].outcome = "completed"
     => Owns(s)
  /\ saga[s].stage = "publishing" \/ saga[s].outcome = "completed" =>
       users[saga[s].user].role
  /\ saga[s].outcome = "completed" => saga[s].user \in announced
SagasInv == \A s \in Sagas : SagaHolds(s)

\* As long as nothing timed out or failed, no promise outlives its step, a
\* failure leaves no row, and only completed sagas announced their users.
Calm == troubles \cap {"timeout", "failure"} = {}
CalmHolds(s) ==
  /\ saga[s].promises = (IF saga[s].stage \in Writing THEN {saga[s].stage} ELSE {})
  /\ saga[s].stage # "removingRole"
  /\ \A id \in Ids : users[id].by = s =>
       /\ id = saga[s].user
       /\ saga[s].outcome = "failed" => users[id].state = "erased"
CalmInv ==
  Calm => /\ \A s \in Sagas : CalmHolds(s)
          /\ \A id \in announced :
               users[id].by \in Sagas /\ saga[users[id].by].outcome = "completed"

TypesInv ==
  /\ users \in [Ids -> UserRecords]
  /\ DOMAIN byEmail \subseteq Emails
  /\ \A email \in DOMAIN byEmail : byEmail[email] \in Ids \cup {Nobody}
  /\ asked \in Seq(Emails) /\ \A i, j \in DOMAIN asked : asked[i] = asked[j] => i = j
  /\ call \in [Calls -> CallRecords]
  /\ saga \in [Sagas -> SagaRecords]
  /\ announced \subseteq Ids /\ troubles \subseteq Environment

IInv == TypesInv /\ RowsInv /\ LoaderInv /\ CallsInv /\ SagasInv /\ CalmInv

-----------------------------------------------------------------------------
(* Rows *)

LEMMA NextIdHolds ==
  ASSUME Unused # {}  PROVE  NextId \in Unused
<1>1. Unused \subseteq Nat
  BY UsersAssumption DEF Unused, Ids
<1>2. PICK id \in Unused : \A other \in Unused : ~(<<other, id>> \in OpToRel(<, Nat))
  BY <1>1, NatLessThanWellFounded, WFMin
<1>3. \A other \in Unused : ~(other < id)
  BY <1>1, <1>2 DEF OpToRel
<1>4. \A other \in Unused : id <= other
  BY <1>1, <1>3
<1> QED  BY <1>4 DEF NextId

LEMMA NobodyHolds ==
  /\ Nobody \notin Ids /\ NobodyYet \notin Calls /\ NobodyYet \notin Sagas
  /\ \A c \in Calls : c \notin Sagas
BY UsersAssumption, MakersAssumption DEF Nobody, NobodyYet, Ids

\* What a row is keeps what it names: its maker and its email.
Kept ==
  \A id \in Ids : users[id].state # "none" =>
    /\ users'[id].state # "none"
    /\ users'[id].by = users[id].by /\ users'[id].email = users[id].email

LEMMA InsertHolds ==
  ASSUME TypesInv, RowsInv, Unused # {}, NEW email \in Emails \cup {NobodyYet},
         NEW maker \in Calls \cup Sagas,
         Insert(email, maker)
  PROVE  \E id \in Ids :
           /\ id = NextId /\ users[id].state = "none" /\ users[id].by = NobodyYet
           /\ users'[id] = [state |-> "live", email |-> email, by |-> maker, role |-> FALSE]
           /\ \A other \in Ids \ {id} : users'[other] = users[other]
           /\ users' \in [Ids -> UserRecords] /\ Kept
<1>1. NextId \in Ids /\ users[NextId].state = "none" /\ users[NextId].by = NobodyYet
  BY NextIdHolds DEF Unused, RowsInv
<1>2. [state |-> "live", email |-> email, by |-> maker, role |-> FALSE] \in UserRecords
  BY DEF UserRecords, Makers
<1> QED  BY <1>1, <1>2 DEF Insert, TypesInv, Kept

\* A row that changes in another column than its maker and email.
LEMMA LookupsKept ==
  ASSUME LoaderInv, CallsInv, Kept, UNCHANGED <<byEmail, call>>
  PROVE  LoaderInv' /\ CallsInv'
<1>1. \A id, email : Has(id, email) => Has(id, email)'
  BY DEF Has, Kept
<1>2. LoaderInv'
  BY <1>1 DEF LoaderInv
<1>3. CallsInv'
  BY <1>1 DEF CallsInv, Has, Kept
<1> QED  BY <1>2, <1>3

\* One call moves on.
LEMMA OneCall ==
  ASSUME TypesInv, LoaderInv, CallsInv, Kept, NEW c \in Calls, NEW next \in CallRecords,
         call' = [call EXCEPT ![c] = next], byEmail' = byEmail,
         next.stage # "answered" => next.answer = "none",
         next.user # Nobody => Has(next.user, next.email)',
         next.answer = "registered" => next.user # Nobody /\ users'[next.user].by = c,
         next.answer = "exists" => \E id \in Ids : Has(id, next.email)'
  PROVE  /\ call' \in [Calls -> CallRecords] /\ LoaderInv' /\ CallsInv'
<1>1. /\ call' \in [Calls -> CallRecords]
      /\ \A d \in Calls : call'[d] = IF d = c THEN next ELSE call[d]
  BY DEF TypesInv
<1>2. \A id, email : Has(id, email) => Has(id, email)'
  BY DEF Has, Kept
<1>3. LoaderInv'
  BY <1>2 DEF LoaderInv
<1>4. ASSUME NEW d \in Calls
      PROVE  /\ call'[d].stage # "answered" => call'[d].answer = "none"
             /\ call'[d].user # Nobody => Has(call[d].user, call[d].email)'
             /\ call'[d].answer = "registered" =>
                  call'[d].user # Nobody /\ users'[call'[d].user].by = d
             /\ call'[d].answer = "exists" => \E id \in Ids : Has(id, call[d].email)'
  <2>1. CASE d = c
    BY <1>1, <2>1 DEF Has
  <2>2. CASE d # c
    <3>1. call'[d] = call[d]
      BY <1>1, <2>2
    <3> QED  BY <3>1 DEF CallsInv, Has, Kept
  <2> QED  BY <2>1, <2>2
<1>5. CallsInv'
  BY <1>4 DEF CallsInv, Has
<1> QED  BY <1>1, <1>3, <1>5

\* Where only rows change that no saga made.
LEMMA SagasKept ==
  ASSUME TypesInv, RowsInv, SagasInv, CalmInv, UNCHANGED <<saga, announced>>,
         troubles \subseteq troubles', users' \in [Ids -> UserRecords],
         \A id \in Ids :
           \/ users'[id] = users[id]
           \/ /\ users[id].state \notin {"none", "erased"}
              /\ users'[id].state \notin {"none", "erased"}
              /\ users'[id].by = users[id].by /\ users'[id].role = users[id].role
           \/ /\ users[id].state = "none" /\ users'[id].state = "live"
              /\ users'[id].by \in Calls
  PROVE  RowsInv' /\ SagasInv' /\ CalmInv'
<1>1. \A id \in Ids : /\ users'[id].by \in Sagas <=> users[id].by \in Sagas
                      /\ users'[id].state = "erased" <=> users[id].state = "erased"
                      /\ users[id].by \in Sagas =>
                           users'[id].by = users[id].by /\ users'[id].role = users[id].role
                      /\ users'[id].state = "none" => users'[id] = users[id]
  BY NobodyHolds DEF RowsInv
<1>2. RowsInv'
  BY <1>1, NobodyHolds DEF RowsInv
<1>3. ASSUME NEW s \in Sagas  PROVE  SagaHolds(s)'
  <2>1. SagaHolds(s) /\ (Owns(s) => Owns(s)')
    BY <1>1 DEF SagasInv, Owns
  <2> QED  BY <1>1, <2>1 DEF SagaHolds, Owns
<1>4. ASSUME Calm'
      PROVE  /\ \A s \in Sagas : CalmHolds(s)'
             /\ \A id \in announced :
                  users'[id].by \in Sagas /\ saga[users'[id].by].outcome = "completed"
  <2>1. Calm
    BY <1>4 DEF Calm
  <2>2. \A s \in Sagas : CalmHolds(s)'
    BY <1>1, <2>1 DEF CalmInv, CalmHolds
  <2>3. announced \subseteq Ids
    BY DEF TypesInv
  <2> QED  BY <1>1, <2>1, <2>2, <2>3 DEF CalmInv
<1>5. CalmInv'
  BY <1>4 DEF CalmInv
<1>6. SagasInv'
  BY <1>3 DEF SagasInv
<1> QED  BY <1>2, <1>5, <1>6

-----------------------------------------------------------------------------
(* The loader and the calls *)

LEMMA InitInv ==
  ASSUME Init  PROVE  IInv
<1>1. /\ \A id \in Ids : users[id] = [state |-> "none", email |-> NobodyYet,
                                     by |-> NobodyYet, role |-> FALSE]
      /\ \A c \in Calls : call[c].user = Nobody /\ call[c].answer = "none"
      /\ \A s \in Sagas : saga[s] = [email |-> NobodyYet, stage |-> "idle",
                                    promises |-> {}, user |-> Nobody, outcome |-> "none"]
      /\ announced = {} /\ troubles = {} /\ DOMAIN byEmail = {} /\ asked = <<>>
  BY DEF Init
<1>2. users \in [Ids -> UserRecords]
  BY DEF Init, UserRecords, Makers
<1>3. call \in [Calls -> CallRecords]
  BY DEF Init, CallRecords, Answers
<1>4. saga \in [Sagas -> SagaRecords]
  BY DEF Init, SagaRecords, SagaStages, Writing
<1>5. TypesInv
  BY <1>1, <1>2, <1>3, <1>4 DEF TypesInv
<1>6. RowsInv
  BY <1>1, NobodyHolds DEF RowsInv
<1>7. LoaderInv /\ CallsInv
  BY <1>1 DEF LoaderInv, CallsInv
<1>8. SagasInv
  BY <1>1 DEF SagasInv, SagaHolds
<1>9. CalmInv
  <2>1. \A s \in Sagas, id \in Ids : users[id].by # s
    BY <1>1, NobodyHolds
  <2>2. \A s \in Sagas : saga[s].promises = {} /\ saga[s].stage = "idle"
    BY <1>1
  <2>3. \A s \in Sagas : CalmHolds(s)
    BY <2>1, <2>2 DEF CalmHolds, Writing
  <2> QED  BY <1>1, <2>3 DEF CalmInv
<1> QED  BY <1>5, <1>6, <1>7, <1>8, <1>9 DEF IInv

LEMMA KeptAlone ==
  ASSUME UNCHANGED users  PROVE  Kept
BY DEF Kept

LEMMA FindByEmailHolds ==
  ASSUME IInv, NEW c \in Calls, NEW op \in {"register", "login"}, NEW email \in Emails,
         FindByEmail(c, op, email)
  PROVE  IInv'
<1> USE DEF IInv
<1>1. PICK had \in BOOLEAN :
        call' = [call EXCEPT ![c] = [op |-> op, email |-> email, stage |-> "asking",
                                     user |-> Nobody, answer |-> "none", had |-> had]]
  BY DEF FindByEmail
<1>2. PICK next \in CallRecords :
        /\ next.stage = "asking" /\ next.user = Nobody /\ next.answer = "none"
        /\ call' = [call EXCEPT ![c] = next]
  BY <1>1 DEF CallRecords, Answers
<1>3. UNCHANGED <<users, byEmail, saga, announced, troubles>> /\ Kept
  BY KeptAlone DEF FindByEmail
<1>4. call' \in [Calls -> CallRecords] /\ LoaderInv' /\ CallsInv'
  BY <1>2, <1>3, OneCall
<1>5. asked' = asked \/ asked' = AskedOnce(email)
  BY DEF FindByEmail
<1>6. asked' \in Seq(Emails) /\ \A i, j \in DOMAIN asked' : asked'[i] = asked'[j] => i = j
  <2>1. asked \in Seq(Emails) /\ \A i, j \in DOMAIN asked : asked[i] = asked[j] => i = j
    BY DEF TypesInv
  <2>2. CASE asked' = asked
    BY <2>1, <2>2
  <2>3. CASE asked' = Append(asked, email) /\ \A i \in DOMAIN asked : asked[i] # email
    <3>1. /\ asked' \in Seq(Emails) /\ Len(asked') = Len(asked) + 1
          /\ \A i \in 1..Len(asked) : asked'[i] = asked[i]
          /\ asked'[Len(asked) + 1] = email
      BY <2>1, <2>3
    <3>2. Len(asked) \in Nat /\ DOMAIN asked = 1..Len(asked) /\ DOMAIN asked' = 1..(Len(asked) + 1)
      BY <2>1, <3>1
    <3> QED  BY <2>1, <2>3, <3>1, <3>2
  <2> QED  BY <1>5, <2>2, <2>3 DEF AskedOnce
<1>7. TypesInv'
  BY <1>3, <1>4, <1>6 DEF TypesInv
<1>8. RowsInv' /\ SagasInv' /\ CalmInv'
  BY <1>3, SagasKept DEF TypesInv
<1> QED  BY <1>4, <1>7, <1>8

LEMMA LoadEmailsHolds ==
  ASSUME IInv, LoadEmails  PROVE  IInv'
<1> USE DEF IInv
<1>1. UNCHANGED <<users, call, saga, announced, troubles>> /\ asked' = <<>> /\ Kept
  BY KeptAlone DEF LoadEmails
<1>2. \A i \in DOMAIN asked : asked[i] \in Emails
  <2>1. asked \in Seq(Emails)
    BY DEF TypesInv
  <2> QED  BY <2>1, ElementOfSeq
<1>3. /\ DOMAIN ByKey(asked) \subseteq Emails
      /\ \A email \in DOMAIN ByKey(asked) :
           ByKey(asked)[email] = Nobody \/ Has(ByKey(asked)[email], email)
  <2>1. \A email : Holders(email) # {} =>
          (CHOOSE id \in Holders(email) : TRUE) \in Holders(email)
    OBVIOUS
  <2>2. \A email, id : id \in Holders(email) => Has(id, email)
    BY DEF Holders, LiveUsers, Has
  <2> QED  BY <1>2, <2>1, <2>2 DEF ByKey
<1>4. /\ DOMAIN byEmail' = DOMAIN ByKey(asked) \cup DOMAIN byEmail
      /\ \A email \in DOMAIN byEmail' :
           byEmail'[email] = (IF email \in DOMAIN ByKey(asked) THEN ByKey(asked)[email]
                                                               ELSE byEmail[email])
  BY DEF LoadEmails
<1>5. /\ DOMAIN byEmail' \subseteq Emails
      /\ \A email \in DOMAIN byEmail' : byEmail'[email] = Nobody \/ Has(byEmail'[email], email)
  BY <1>3, <1>4 DEF TypesInv, LoaderInv
<1>6. TypesInv'
  BY <1>1, <1>5 DEF TypesInv, Has
<1>7. LoaderInv'
  BY <1>1, <1>5 DEF LoaderInv, Has
<1>8. CallsInv'
  BY <1>1 DEF CallsInv, Has
<1>9. RowsInv' /\ SagasInv' /\ CalmInv'
  BY <1>1, SagasKept DEF TypesInv
<1> QED  BY <1>6, <1>7, <1>8, <1>9

LEMMA AnswerHolds ==
  ASSUME TypesInv, NEW c \in Calls, NEW answer \in Answers
  PROVE  /\ Answer(c, answer) \in CallRecords /\ Answer(c, answer).answer = answer
         /\ Answer(c, answer).stage = "answered"
         /\ Answer(c, answer).user = call[c].user /\ Answer(c, answer).email = call[c].email
<1>1. call[c] \in CallRecords
  BY DEF TypesInv
<1> QED  BY <1>1 DEF Answer, CallRecords

\* Some calls are told of a failure.
LEMMA CallsTold ==
  ASSUME TypesInv, CallsInv, UNCHANGED users, DOMAIN call' = Calls,
         call' = [c \in Calls |-> call'[c]],
         \A c \in Calls : \/ call'[c] = call[c]
                          \/ call'[c] = Answer(c, "failed") \/ call'[c] = Answer(c, "lost")
  PROVE  call' \in [Calls -> CallRecords] /\ CallsInv'
<1>1. ASSUME NEW c \in Calls
      PROVE  /\ call'[c] \in CallRecords
             /\ call'[c].user = call[c].user /\ call'[c].email = call[c].email
             /\ \/ call'[c] = call[c]
                \/ /\ call'[c].stage = "answered"
                   /\ call'[c].answer \in {"failed", "lost"}
  <2>1. "failed" \in Answers /\ "lost" \in Answers
    BY DEF Answers
  <2>2. call[c] \in CallRecords
    BY DEF TypesInv
  <2> QED  BY <2>1, <2>2, AnswerHolds
<1>2. call' \in [Calls -> CallRecords]
  BY <1>1
<1>3. CallsInv'
  BY <1>1 DEF CallsInv, Has
<1> QED  BY <1>2, <1>3

LEMMA LoadFailsHolds ==
  ASSUME IInv, LoadFails  PROVE  IInv'
<1> USE DEF IInv
<1>1. /\ UNCHANGED <<users, byEmail, saga, announced>> /\ asked' = <<>>
      /\ troubles \subseteq troubles' /\ troubles' \subseteq Environment
  BY DEF LoadFails, Trouble, TypesInv
<1>2. call' \in [Calls -> CallRecords] /\ CallsInv'
  <2>1. /\ DOMAIN call' = Calls /\ call' = [c \in Calls |-> call'[c]]
        /\ \A c \in Calls : call'[c] = call[c] \/ call'[c] = Answer(c, "failed")
    BY DEF LoadFails
  <2> QED  BY <1>1, <2>1, CallsTold
<1>3. TypesInv'
  BY <1>1, <1>2 DEF TypesInv
<1>4. LoaderInv'
  BY <1>1 DEF LoaderInv, Has
<1>5. RowsInv' /\ SagasInv' /\ CalmInv'
  BY <1>1, SagasKept DEF TypesInv
<1> QED  BY <1>2, <1>3, <1>4, <1>5

\* One call moves on, and no row changes.
LEMMA CallMovesOn ==
  ASSUME IInv, UNCHANGED <<users, loader, saga, announced>>,
         troubles \subseteq troubles', troubles' \subseteq Environment,
         NEW c \in Calls, NEW next \in CallRecords, call' = [call EXCEPT ![c] = next],
         next.stage # "answered" => next.answer = "none",
         next.user # Nobody => Has(next.user, next.email),
         next.answer = "registered" => next.user # Nobody /\ users[next.user].by = c,
         next.answer = "exists" => \E id \in Ids : Has(id, next.email)
  PROVE  IInv'
<1> USE DEF IInv
<1>1. Kept /\ byEmail' = byEmail /\ asked' = asked
  BY KeptAlone DEF loader
<1>2. \A id, email : Has(id, email) <=> Has(id, email)'
  BY DEF Has
<1>3. call' \in [Calls -> CallRecords] /\ LoaderInv' /\ CallsInv'
  BY <1>1, <1>2, OneCall
<1>4. TypesInv'
  BY <1>1, <1>3 DEF TypesInv
<1>5. RowsInv' /\ SagasInv' /\ CalmInv'
  BY SagasKept DEF TypesInv
<1> QED  BY <1>3, <1>4, <1>5

LEMMA TroubleHolds ==
  ASSUME TypesInv, NEW kind, Trouble(kind) \/ UNCHANGED troubles
  PROVE  troubles \subseteq troubles' /\ troubles' \subseteq Environment
BY DEF Trouble, TypesInv

\* A call that is told no more than that there was nothing for it.
LEMMA CallRefused ==
  ASSUME IInv, UNCHANGED <<users, loader, saga, announced>>,
         troubles \subseteq troubles', troubles' \subseteq Environment,
         NEW c \in Calls, NEW answer \in Answers \ {"registered", "exists"},
         call' = [call EXCEPT ![c] = Answer(c, answer)]
  PROVE  IInv'
<1> USE DEF IInv
<1>1. PICK next \in CallRecords : next = Answer(c, answer) /\ next.answer = answer
        /\ next.stage = "answered" /\ next.user = call[c].user /\ next.email = call[c].email
  BY AnswerHolds
<1>2. next.user # Nobody => Has(next.user, next.email)
  BY <1>1 DEF CallsInv
<1> QED  BY <1>1, <1>2, CallMovesOn

LEMMA LooksUpHolds ==
  ASSUME IInv, NEW c \in Calls, RegisterLooksUp(c) \/ LoginLooksUp(c)
  PROVE  IInv'
<1> USE DEF IInv
<1>1. /\ UNCHANGED <<users, loader, saga, announced>>
      /\ troubles \subseteq troubles' /\ troubles' \subseteq Environment
  BY DEF RegisterLooksUp, LoginLooksUp, TypesInv
<1>2. /\ call[c] \in CallRecords /\ call[c].answer = "none"
      /\ call[c].user # Nobody => Has(call[c].user, call[c].email)
  BY DEF TypesInv, CallsInv, RegisterLooksUp, LoginLooksUp
<1>3. /\ call[c].email \in DOMAIN byEmail
      /\ Found(c) # Nobody => Has(Found(c), call[c].email)
      /\ Found(c) \in Ids \cup {Nobody}
  BY DEF RegisterLooksUp, LoginLooksUp, LoaderInv, TypesInv, Found
<1>4. CASE call' = [call EXCEPT ![c] = [call[c] EXCEPT !.stage = "creating"]]
  <2> DEFINE next == [call[c] EXCEPT !.stage = "creating"]
  <2>1. /\ next \in CallRecords /\ next.answer = "none"
        /\ next.user = call[c].user /\ next.email = call[c].email
    BY <1>2 DEF CallRecords
  <2> HIDE DEF next
  <2>2. call' = [call EXCEPT ![c] = next]
    BY <1>4 DEF next
  <2> QED  BY <1>1, <1>2, <2>1, <2>2, CallMovesOn
<1>5. CASE Found(c) # Nobody /\ call' = [call EXCEPT ![c] = Answer(c, "exists")]
  <2>1. PICK next \in CallRecords : next = Answer(c, "exists") /\ next.answer = "exists"
          /\ next.stage = "answered" /\ next.user = call[c].user
          /\ next.email = call[c].email
    BY AnswerHolds DEF Answers
  <2>2. \E id \in Ids : Has(id, next.email)
    BY <1>3, <1>5, <2>1 DEF Has
  <2> QED  BY <1>1, <1>2, <1>5, <2>1, <2>2, CallMovesOn
<1>6. CASE call' = [call EXCEPT ![c] = Answer(c, "unknown")]
  <2>1. "unknown" \in Answers \ {"registered", "exists"}
    BY DEF Answers
  <2> QED  BY <1>1, <1>6, <2>1, CallRefused
<1>7. CASE /\ Found(c) # Nobody
           /\ call' = [call EXCEPT ![c] = [call[c] EXCEPT !.stage = "checking",
                                                          !.user = Found(c)]]
  <2> DEFINE next == [call[c] EXCEPT !.stage = "checking", !.user = Found(c)]
  <2>1. /\ next \in CallRecords /\ next.answer = "none"
        /\ next.user = Found(c) /\ next.email = call[c].email
    BY <1>2, <1>3 DEF CallRecords
  <2> HIDE DEF next
  <2>2. call' = [call EXCEPT ![c] = next]
    BY <1>7 DEF next
  <2> QED  BY <1>1, <1>3, <2>1, <2>2, CallMovesOn
<1>8. \/ RegisterLooksUp(c) /\ Found(c) = Nobody
      \/ RegisterLooksUp(c) /\ Found(c) # Nobody
      \/ LoginLooksUp(c) /\ Found(c) = Nobody
      \/ LoginLooksUp(c) /\ Found(c) # Nobody
  OBVIOUS
<1>9. CASE RegisterLooksUp(c) /\ Found(c) = Nobody
  BY <1>4, <1>9 DEF RegisterLooksUp
<1>10. CASE RegisterLooksUp(c) /\ Found(c) # Nobody
  BY <1>5, <1>10 DEF RegisterLooksUp
<1>11. CASE LoginLooksUp(c) /\ Found(c) = Nobody
  BY <1>6, <1>11 DEF LoginLooksUp
<1>12. CASE LoginLooksUp(c) /\ Found(c) # Nobody
  BY <1>7, <1>12 DEF LoginLooksUp
<1> QED
  BY <1>8, <1>9, <1>10, <1>11, <1>12

LEMMA LoginHolds ==
  ASSUME IInv, NEW c \in Calls, Login(c)
  PROVE  IInv'
<1>1. /\ UNCHANGED <<users, loader, saga, announced>>
      /\ troubles \subseteq troubles' /\ troubles' \subseteq Environment
  BY DEF Login, Trouble, IInv, TypesInv
<1>2. \E answer \in {"refused", "loggedIn", "failed"} :
        call' = [call EXCEPT ![c] = Answer(c, answer)]
  BY DEF Login
<1>3. {"refused", "loggedIn", "failed"} \subseteq Answers \ {"registered", "exists"}
  BY DEF Answers
<1> QED  BY <1>1, <1>2, <1>3, CallRefused

\* The row of a call is there, and the call is told so or not.
LEMMA CreateHolds ==
  ASSUME IInv, NEW c \in Calls, Create(c)
  PROVE  IInv'
<1> USE DEF IInv
<1>1. /\ UNCHANGED <<loader, saga, announced>>
      /\ troubles \subseteq troubles' /\ troubles' \subseteq Environment
  BY DEF Create, Trouble, TypesInv
<1>2. "failed" \in Answers \ {"registered", "exists"} /\ "registered" \in Answers
  BY DEF Answers
<1>3. CASE UNCHANGED users /\ call' = [call EXCEPT ![c] = Answer(c, "failed")]
  BY <1>1, <1>2, <1>3, CallRefused
<1>4. CASE /\ Unused # {} /\ Insert(call[c].email, c)
           /\ \/ call' = [call EXCEPT ![c] = [Answer(c, "registered") EXCEPT !.user = NextId]]
              \/ call' = [call EXCEPT ![c] = Answer(c, "failed")]
  <2>1. call[c].email \in Emails \cup {NobodyYet}
    BY DEF TypesInv, CallRecords
  <2>2. PICK id \in Ids :
          /\ id = NextId /\ users[id].state = "none" /\ users[id].by = NobodyYet
          /\ users'[id] = [state |-> "live", email |-> call[c].email, by |-> c, role |-> FALSE]
          /\ \A other \in Ids \ {id} : users'[other] = users[other]
          /\ users' \in [Ids -> UserRecords] /\ Kept
    BY <1>4, <2>1, InsertHolds
  <2>3. Has(id, call[c].email)'
    <3>1. users'[id].state = "live" /\ users'[id].email = call[c].email
      BY <2>2
    <3>2. users'[id].email = call'[c].email
      <4>1. /\ call \in [Calls -> CallRecords]
            /\ Answer(c, "registered").email = call[c].email
            /\ Answer(c, "failed").email = call[c].email
            /\ Answer(c, "registered") \in CallRecords
        BY <1>2, AnswerHolds DEF TypesInv
      <4>2. [Answer(c, "registered") EXCEPT !.user = NextId].email = call[c].email
        BY <4>1 DEF CallRecords
      <4> QED  BY <1>4, <3>1, <4>1, <4>2
    <3> QED  BY <3>1, <3>2 DEF Has
  <2>4. PICK next \in CallRecords :
          /\ call' = [call EXCEPT ![c] = next]
          /\ next.stage = "answered" /\ next.email = call[c].email
          /\ \/ next.answer = "registered" /\ next.user = id
             \/ next.answer = "failed" /\ next.user = call[c].user
    <3>1. CASE call' = [call EXCEPT ![c] = Answer(c, "failed")]
      BY <1>2, <3>1, AnswerHolds
    <3>2. CASE call' = [call EXCEPT ![c] = [Answer(c, "registered") EXCEPT !.user = NextId]]
      <4> DEFINE next == [Answer(c, "registered") EXCEPT !.user = NextId]
      <4>1. /\ Answer(c, "registered") \in CallRecords
            /\ Answer(c, "registered").stage = "answered"
            /\ Answer(c, "registered").answer = "registered"
            /\ Answer(c, "registered").email = call[c].email
        BY <1>2, AnswerHolds
      <4>2. /\ next \in CallRecords /\ next.stage = "answered" /\ next.answer = "registered"
            /\ next.email = call[c].email /\ next.user = id
        BY <2>2, <4>1 DEF CallRecords
      <4> QED  BY <3>2, <4>2
    <3> QED  BY <1>4, <3>1, <3>2
  <2>5. next.email = call'[c].email
    BY <2>4 DEF TypesInv
  <2>6. Has(id, next.email)'
    <3>1. users'[id].state # "none" /\ users'[id].email = next.email
      BY <2>2, <2>4
    <3> QED  BY <3>1 DEF Has
  <2>7. next.user # Nobody => Has(next.user, next.email)'
    <3>1. CASE next.answer = "registered"
      BY <2>4, <2>6, <3>1
    <3>2. CASE next.answer = "failed"
      BY <2>2, <2>4, <3>2 DEF CallsInv, Has, Kept
    <3> QED  BY <2>4, <3>1, <3>2
  <2>8. next.answer = "registered" => next.user # Nobody /\ users'[next.user].by = c
    BY <2>2, <2>4, NobodyHolds
  <2>9. call' \in [Calls -> CallRecords] /\ LoaderInv' /\ CallsInv'
    BY <1>1, <2>2, <2>4, <2>7, <2>8, OneCall DEF loader
  <2>10. TypesInv'
    BY <1>1, <2>2, <2>9 DEF TypesInv, loader
  <2>11. RowsInv' /\ SagasInv' /\ CalmInv'
    <3>1. \A other \in Ids :
            \/ users'[other] = users[other]
            \/ /\ users[other].state = "none" /\ users'[other].state = "live"
               /\ users'[other].by \in Calls
      BY <2>2
    <3> QED  BY <1>1, <2>2, <3>1, SagasKept
  <2> QED  BY <2>9, <2>10, <2>11
<1> QED
  BY <1>3, <1>4 DEF Create

LEMMA DeleteHolds ==
  ASSUME IInv, NEW id \in Ids, Delete(id)
  PROVE  IInv'
<1> USE DEF IInv
<1>1. UNCHANGED <<byEmail, asked, call, saga, announced, troubles>>
  BY DEF Delete, loader
<1>2. users[id] \in UserRecords /\ users[id].state \in {"live", "deleted"}
  BY DEF TypesInv, Delete, InTable
<1>3. users' = [users EXCEPT ![id] = [users[id] EXCEPT !.state = "deleted"]]
  BY DEF Delete
<1> DEFINE row == [users[id] EXCEPT !.state = "deleted"]
<1>4. /\ row \in UserRecords /\ row.state = "deleted"
      /\ row.by = users[id].by /\ row.email = users[id].email /\ row.role = users[id].role
  BY <1>2 DEF UserRecords
<1>5. users' \in [Ids -> UserRecords] /\ \A other \in Ids :
        IF other = id THEN users'[id] = row ELSE users'[other] = users[other]
  BY <1>3, <1>4 DEF TypesInv
<1> HIDE DEF row
<1>6. Kept
  BY <1>4, <1>5 DEF Kept
<1>7. LoaderInv' /\ CallsInv'
  BY <1>1, <1>6, LookupsKept
<1>8. TypesInv'
  BY <1>1, <1>5 DEF TypesInv
<1>9. RowsInv' /\ SagasInv' /\ CalmInv'
  BY <1>1, <1>2, <1>4, <1>5, SagasKept
<1> QED  BY <1>7, <1>8, <1>9

-----------------------------------------------------------------------------
(* The saga *)

LEMMA GoToHolds ==
  ASSUME NEW r \in SagaRecords, NEW stage \in SagaStages
  PROVE  /\ GoTo(r, stage) \in SagaRecords
         /\ GoTo(r, stage).stage = stage
         /\ GoTo(r, stage).user = r.user /\ GoTo(r, stage).email = r.email
         /\ GoTo(r, stage).promises =
              (IF stage \in Writing THEN r.promises \cup {stage} ELSE r.promises)
         /\ GoTo(r, stage).outcome = (IF stage = "ended" THEN "failed" ELSE r.outcome)
BY DEF GoTo, SagaRecords, SagaStages, Writing

LEMMA BacksOutHolds ==
  ASSUME NEW r \in SagaRecords, NEW stage \in {"removingRole", "erasing", "ended"}
  PROVE  /\ GoTo(r, stage) \in SagaRecords /\ GoTo(r, stage).stage = stage
         /\ GoTo(r, stage).user = r.user /\ GoTo(r, stage).promises = r.promises
         /\ GoTo(r, stage).outcome = (IF stage = "ended" THEN "failed" ELSE r.outcome)
<1>1. stage \in SagaStages /\ stage \notin Writing
  BY DEF SagaStages, Writing
<1> QED  BY <1>1 DEF GoTo, SagaRecords

\* The promise of a step that settles.
LEMMA SettleHolds ==
  ASSUME NEW r \in SagaRecords, NEW step \in Writing, NEW next \in SagaStages
  PROVE  /\ Settle(r, step, next) \in SagaRecords
         /\ Settle(r, step, next).user = r.user /\ Settle(r, step, next).email = r.email
         /\ Settle(r, step, next).stage = (IF r.stage = step THEN next ELSE r.stage)
         /\ Settle(r, step, next).promises =
              (r.promises \ {step}) \cup (IF r.stage = step THEN {next} \cap Writing ELSE {})
         /\ Settle(r, step, next).outcome =
              (IF r.stage = step /\ next = "ended" THEN "failed" ELSE r.outcome)
<1> DEFINE kept == [r EXCEPT !.promises = @ \ {step}]
<1>1. /\ kept \in SagaRecords /\ kept.user = r.user /\ kept.email = r.email
      /\ kept.stage = r.stage /\ kept.promises = r.promises \ {step}
      /\ kept.outcome = r.outcome
  BY DEF SagaRecords
<1>2. Settle(r, step, next) = (IF r.stage = step THEN GoTo(kept, next) ELSE kept)
  BY DEF Settle
<1> HIDE DEF kept
<1>3. CASE r.stage = step
  <2>1. PICK gone \in SagaRecords : gone = GoTo(kept, next) /\ gone.stage = next
          /\ gone.user = kept.user /\ gone.email = kept.email
          /\ gone.promises = (IF next \in Writing THEN kept.promises \cup {next}
                                                  ELSE kept.promises)
          /\ gone.outcome = (IF next = "ended" THEN "failed" ELSE kept.outcome)
    BY <1>1, GoToHolds
  <2>2. gone.promises = kept.promises \cup ({next} \cap Writing)
    BY <2>1
  <2> QED  BY <1>1, <1>2, <1>3, <2>1, <2>2
<1>4. CASE r.stage # step
  BY <1>1, <1>2, <1>4
<1> QED  BY <1>3, <1>4

LEMMA FulfilHolds ==
  ASSUME NEW r \in SagaRecords, NEW step \in Writing
  PROVE  /\ Fulfil(r, step) \in SagaRecords
         /\ Fulfil(r, step).user = r.user /\ Fulfil(r, step).email = r.email
         /\ Fulfil(r, step).stage = (IF r.stage = step THEN After(step) ELSE r.stage)
         /\ Fulfil(r, step).promises =
              (r.promises \ {step}) \cup (IF r.stage = step THEN {After(step)} \cap Writing ELSE {})
         /\ Fulfil(r, step).outcome =
              (IF r.stage = step /\ step = "publishing" THEN "completed" ELSE r.outcome)
<1>1. After(step) \in SagaStages /\ (After(step) = "ended" <=> step = "publishing")
  BY DEF After, Writing, SagaStages
<1>2. PICK next \in SagaRecords :
         /\ next = Settle(r, step, After(step))
         /\ next.user = r.user /\ next.email = r.email
         /\ next.stage = (IF r.stage = step THEN After(step) ELSE r.stage)
         /\ next.promises =
              (r.promises \ {step}) \cup (IF r.stage = step THEN {After(step)} \cap Writing ELSE {})
         /\ next.outcome = (IF r.stage = step /\ After(step) = "ended" THEN "failed" ELSE r.outcome)
  BY <1>1, SettleHolds
<1>3. Fulfil(r, step) = (IF r.stage = step /\ step = "publishing"
                         THEN [next EXCEPT !.outcome = "completed"] ELSE next)
  BY <1>1, <1>2 DEF Fulfil, LastStep
<1>4. CASE r.stage = step /\ step = "publishing"
  BY <1>2, <1>3, <1>4 DEF SagaRecords
<1>5. CASE ~(r.stage = step /\ step = "publishing")
  BY <1>1, <1>2, <1>3, <1>5
<1> QED  BY <1>4, <1>5

\* A saga moves on to next and leaves the rows of others alone.
MovesOn(s, next) ==
  /\ saga' = [saga EXCEPT ![s] = next]
  /\ UNCHANGED <<loader, call>>
  /\ users' \in [Ids -> UserRecords]
  /\ \A id \in Ids :
       \/ users'[id] = users[id]
       \/ /\ users[id].by = s /\ users[id].state # "none"
          /\ users'[id].by = s /\ users'[id].email = users[id].email
          /\ users'[id].state \in {"live", "deleted", "erased"}
       \/ users[id].state = "none" /\ users'[id].by = s /\ users'[id].state = "live"
  /\ announced \subseteq announced' /\ announced' \subseteq Ids
  /\ troubles \subseteq troubles' /\ troubles' \subseteq Environment
  /\ next.stage # "idle"
  /\ saga[s].outcome # "none" => next.outcome = saga[s].outcome
  /\ \A id \in Ids :
       /\ users'[id].by = s => "creating" \notin next.promises
       /\ users'[id].state = "erased" =>
            \/ users[id].state = "erased"
            \/ users[id].by = s /\ next.outcome = "failed"

LEMMA OneSaga ==
  ASSUME IInv, NEW s \in Sagas, NEW next \in SagaRecords, MovesOn(s, next),
         SagaHolds(s)', Calm' => CalmHolds(s)',
         Calm' => \A id \in announced' \ announced :
                    users'[id].by = s /\ next.outcome = "completed"
  PROVE  IInv'
<1> USE DEF IInv
<1>1. /\ saga' \in [Sagas -> SagaRecords] /\ saga'[s] = next
      /\ \A d \in Sagas : d # s => saga'[d] = saga[d]
  BY DEF TypesInv, MovesOn
<1>2. TypesInv'
  BY <1>1 DEF TypesInv, MovesOn, loader
<1>3. ASSUME NEW id \in Ids
      PROVE  /\ users[id].by # NobodyYet =>
                  users'[id].by = users[id].by /\ users'[id].state # "none"
             /\ users'[id].by = users[id].by \/ users'[id].by = s
             /\ users[id].by # s /\ users'[id].by # s => users'[id] = users[id]
             /\ users[id].state = "none" => users[id].by = NobodyYet
  BY NobodyHolds DEF MovesOn, RowsInv
<1>4. Kept
  <2>1. ASSUME NEW id \in Ids, users[id].state # "none"
        PROVE  /\ users'[id].state # "none"
               /\ users'[id].by = users[id].by /\ users'[id].email = users[id].email
    BY <2>1 DEF MovesOn
  <2> QED  BY <2>1 DEF Kept
<1>5. LoaderInv' /\ CallsInv'
  BY <1>4, LookupsKept DEF MovesOn, loader
<1>6. RowsInv'
  <2>1. ASSUME NEW id \in Ids  PROVE  users'[id].state = "none" => users'[id].by = NobodyYet
    BY <1>3, <2>1 DEF MovesOn, RowsInv
  <2>2. ASSUME NEW id \in Ids, users'[id].state = "erased"
        PROVE  users'[id].by \in Sagas /\ saga'[users'[id].by].outcome = "failed"
    <3>1. CASE users[id].state = "erased"
      <4>1. users[id].by \in Sagas /\ saga[users[id].by].outcome = "failed"
        BY <3>1 DEF RowsInv
      <4>2. users'[id].by = users[id].by
        BY <1>3, <4>1, NobodyHolds
      <4> QED  BY <1>1, <4>1, <4>2 DEF MovesOn
    <3>2. CASE users[id].by = s /\ next.outcome = "failed"
      BY <1>1, <1>3, <3>2, NobodyHolds
    <3> QED  BY <2>2, <3>1, <3>2 DEF MovesOn
  <2>3. ASSUME NEW id \in Ids, users'[id].by \in Sagas
        PROVE  /\ saga'[users'[id].by].stage # "idle"
               /\ "creating" \notin saga'[users'[id].by].promises
    <3>1. CASE users'[id].by = s
      BY <1>1, <3>1 DEF MovesOn
    <3>2. CASE users'[id].by # s
      <4>1. users'[id].by = users[id].by
        BY <1>3, <3>2
      <4> QED  BY <1>1, <2>3, <3>2, <4>1 DEF RowsInv
    <3> QED  BY <3>1, <3>2
  <2> QED  BY <2>1, <2>2, <2>3 DEF RowsInv
<1>7. SagasInv'
  <2>1. ASSUME NEW d \in Sagas, d # s  PROVE  SagaHolds(d)'
    <3>1. SagaHolds(d) /\ saga'[d] = saga[d] /\ d # NobodyYet
      BY <1>1, <2>1, NobodyHolds DEF SagasInv
    <3>2. Owns(d) => Owns(d)' /\ users'[saga[d].user] = users[saga[d].user]
      <4>1. ASSUME Owns(d)
            PROVE  /\ saga'[d].user \in Ids /\ users'[saga'[d].user].by = d
                   /\ users'[saga[d].user] = users[saga[d].user]
        BY <1>3, <2>1, <3>1, <4>1 DEF Owns
      <4> QED  BY <4>1 DEF Owns
    <3>3. announced \subseteq announced'
      BY DEF MovesOn
    <3> QED  BY <3>1, <3>2, <3>3 DEF SagaHolds
  <2> QED  BY <2>1 DEF SagasInv
<1>8. ASSUME Calm'
      PROVE  /\ \A d \in Sagas : CalmHolds(d)'
             /\ \A id \in announced' :
                  users'[id].by \in Sagas /\ saga'[users'[id].by].outcome = "completed"
  <2>1. Calm
    BY <1>8 DEF Calm, MovesOn
  <2>2. ASSUME NEW d \in Sagas, d # s  PROVE  CalmHolds(d)'
    <3>1. CalmHolds(d) /\ saga'[d] = saga[d] /\ d # NobodyYet
      BY <1>1, <2>1, <2>2, NobodyHolds DEF CalmInv
    <3>2. \A id \in Ids : users'[id].by = d => users'[id] = users[id]
      BY <1>3, <2>2
    <3> QED  BY <3>1, <3>2 DEF CalmHolds
  <2>3. ASSUME NEW id \in announced'
        PROVE  users'[id].by \in Sagas /\ saga'[users'[id].by].outcome = "completed"
    <3>1. CASE id \in announced
      <4>1. id \in Ids /\ users[id].by \in Sagas /\ saga[users[id].by].outcome = "completed"
        BY <2>1, <3>1 DEF CalmInv, TypesInv
      <4>2. users'[id].by = users[id].by
        BY <1>3, <4>1, NobodyHolds
      <4> QED  BY <1>1, <4>1, <4>2 DEF MovesOn
    <3>2. CASE id \notin announced
      BY <1>1, <1>8, <3>2
    <3> QED  BY <3>1, <3>2
  <2> QED  BY <1>8, <2>2, <2>3
<1>9. CalmInv'
  BY <1>8 DEF CalmInv
<1> QED  BY <1>2, <1>5, <1>6, <1>7, <1>9

\* Where no row changes.
LEMMA RowsStay ==
  ASSUME TypesInv, UNCHANGED <<users, loader, call, announced>>,
         troubles \subseteq troubles', troubles' \subseteq Environment,
         NEW s \in Sagas, NEW next \in SagaRecords, saga' = [saga EXCEPT ![s] = next],
         next.stage # "idle", saga[s].outcome # "none" => next.outcome = saga[s].outcome,
         \A id \in Ids : users[id].by = s => "creating" \notin next.promises
  PROVE  MovesOn(s, next) /\ announced' = announced
<1>1. users' = users /\ announced' = announced /\ UNCHANGED <<loader, call>>
  OBVIOUS
<1>2. users' \in [Ids -> UserRecords] /\ announced' \subseteq Ids
  BY <1>1 DEF TypesInv
<1> QED  BY <1>1, <1>2 DEF MovesOn

\* What is known of a saga before it takes a step.
LEMMA SagaBefore ==
  ASSUME IInv, NEW s \in Sagas
  PROVE  /\ saga[s] \in SagaRecords /\ SagaHolds(s) /\ (Calm => CalmHolds(s))
         /\ saga[s].stage = "idle" \/ "creating" \in saga[s].promises =>
              \A id \in Ids : users[id].by # s
BY DEF IInv, TypesInv, SagasInv, CalmInv, RowsInv
LEMMA RegisterHolds ==
  ASSUME IInv, NEW s \in Sagas, NEW email \in Emails, Register(s, email)
  PROVE  IInv'
<1>1. /\ saga[s] \in SagaRecords /\ SagaHolds(s) /\ (Calm => CalmHolds(s))
      /\ \A id \in Ids : users[id].by # s
      /\ saga[s].stage = "idle" /\ saga[s].outcome = "none"
  BY SagaBefore DEF Register, SagaHolds
<1> DEFINE asking == [saga[s] EXCEPT !.email = email]
<1> DEFINE stage == IF Holders(email) = {} THEN "creating" ELSE "ended"
<1>2. /\ asking \in SagaRecords /\ asking.user = saga[s].user
      /\ asking.promises = saga[s].promises /\ asking.outcome = "none"
  BY <1>1 DEF SagaRecords
<1>3. stage \in SagaStages
  BY DEF SagaStages, Writing
<1>4. saga' = [saga EXCEPT ![s] = GoTo(asking, stage)]
  BY DEF Register
<1>5. PICK next \in SagaRecords : /\ next = GoTo(asking, stage) /\ next.user = saga[s].user
        /\ next.stage = stage
        /\ next.promises = (IF stage \in Writing THEN saga[s].promises \cup {stage}
                                                ELSE saga[s].promises)
        /\ next.outcome = (IF stage = "ended" THEN "failed" ELSE "none")
  <2> HIDE DEF asking, stage
  <2>1. /\ GoTo(asking, stage) \in SagaRecords /\ GoTo(asking, stage).stage = stage
        /\ GoTo(asking, stage).user = asking.user
        /\ GoTo(asking, stage).promises =
             (IF stage \in Writing THEN asking.promises \cup {stage} ELSE asking.promises)
        /\ GoTo(asking, stage).outcome = (IF stage = "ended" THEN "failed" ELSE asking.outcome)
    BY <1>2, <1>3, GoToHolds
  <2> QED  BY <1>2, <2>1
<1>6. stage \in {"creating", "ended"}
  OBVIOUS
<1> HIDE DEF asking, stage
<1>7. saga' = [saga EXCEPT ![s] = next] /\ saga'[s] = next
  BY <1>4, <1>5 DEF IInv, TypesInv
<1>8. /\ UNCHANGED <<users, loader, call, announced, troubles>>
      /\ troubles \subseteq troubles' /\ troubles' \subseteq Environment
  BY DEF Register, IInv, TypesInv
<1>9. ~Owns(s) /\ saga[s].promises \cap {"assigning", "publishing"} = {}
  BY <1>1 DEF Owns, SagaHolds
<1>10. MovesOn(s, next) /\ announced' = announced
  BY <1>1, <1>5, <1>6, <1>7, <1>8, RowsStay DEF IInv, Writing
<1>11. SagaHolds(s)'
  BY <1>5, <1>6, <1>7, <1>9 DEF SagaHolds, Writing
<1>12. Calm' => CalmHolds(s)'
  BY <1>1, <1>5, <1>6, <1>7, <1>8 DEF Calm, CalmHolds, Writing
<1> QED  BY <1>10, <1>11, <1>12, OneSaga

\* A saga that gives the step up, or had given it up before.
GivesUp(s, step, next) ==
  /\ next.user = saga[s].user /\ next.promises \subseteq saga[s].promises
  /\ \/ next.stage = saga[s].stage /\ next.outcome = saga[s].outcome
     \/ /\ saga[s].stage = step /\ next.stage = OnFailure(step)
        /\ next.outcome = (IF OnFailure(step) = "ended" THEN "failed" ELSE saga[s].outcome)

\* What the saga owns stays its own.
StillOwns(s) ==
  Owns(s) => /\ users'[saga[s].user].by = s
             /\ users[saga[s].user].role => users'[saga[s].user].role

LEMMA GivesUpHolds ==
  ASSUME IInv, NEW s \in Sagas, NEW step \in Writing, NEW next \in SagaRecords,
         GivesUp(s, step, next), saga'[s] = next, announced \subseteq announced',
         saga[s].stage # "idle", StillOwns(s)
  PROVE  /\ SagaHolds(s)' /\ next.stage # "idle"
         /\ saga[s].outcome # "none" => next.outcome = saga[s].outcome
<1>1. /\ saga[s].outcome = "none" <=> saga[s].stage # "ended"
      /\ \/ saga[s].stage \in {"assigning", "publishing", "removingRole", "erasing"}
         \/ saga[s].promises \cap {"assigning", "publishing"} # {}
         \/ saga[s].outcome = "completed"
         => Owns(s)
      /\ saga[s].stage = "publishing" \/ saga[s].outcome = "completed" =>
           users[saga[s].user].role
      /\ saga[s].outcome = "completed" => saga[s].user \in announced
  BY DEF IInv, SagasInv, SagaHolds
<1>2. /\ OnFailure(step) \in {"removingRole", "erasing", "ended"}
      /\ OnFailure(step) # "ended" => step \in {"assigning", "publishing"}
  BY DEF OnFailure, Writing
<1>3. Owns(s) => Owns(s)'
  BY DEF Owns, GivesUp, StillOwns
<1>4. CASE next.stage = saga[s].stage /\ next.outcome = saga[s].outcome
  BY <1>1, <1>3, <1>4 DEF GivesUp, SagaHolds, Owns, StillOwns
<1>5. CASE /\ saga[s].stage = step /\ next.stage = OnFailure(step)
           /\ next.outcome = (IF OnFailure(step) = "ended" THEN "failed" ELSE saga[s].outcome)
  <2>1. saga[s].outcome = "none"
    BY <1>1, <1>5 DEF Writing
  <2>2. next.outcome = "none" <=> next.stage # "ended"
    BY <1>2, <1>5, <2>1
  <2>3. next.outcome # "completed" /\ next.stage # "publishing" /\ next.stage # "idle"
    BY <1>2, <1>5, <2>1
  <2>4. next.stage # "ended" => Owns(s)
    BY <1>1, <1>2, <1>5
  <2>5. next.promises \cap {"assigning", "publishing"} # {} => Owns(s)
    BY <1>1 DEF GivesUp
  <2> QED  BY <1>2, <1>3, <1>5, <2>1, <2>2, <2>3, <2>4, <2>5 DEF SagaHolds
<1> QED  BY <1>4, <1>5 DEF GivesUp

LEMMA RejectedGivesUp ==
  ASSUME NEW s \in Sagas, saga[s] \in SagaRecords, NEW step \in Writing
  PROVE  \E next \in SagaRecords :
           /\ next = Settle(saga[s], step, OnFailure(step)) /\ GivesUp(s, step, next)
           /\ next.promises = saga[s].promises \ {step}
           /\ next.email = saga[s].email
           /\ next.stage = (IF saga[s].stage = step THEN OnFailure(step) ELSE saga[s].stage)
<1>1. OnFailure(step) \in SagaStages /\ {OnFailure(step)} \cap Writing = {}
  BY DEF OnFailure, SagaStages, Writing
<1>2. PICK next \in SagaRecords :
         /\ next = Settle(saga[s], step, OnFailure(step))
         /\ next.user = saga[s].user /\ next.email = saga[s].email
         /\ next.stage = (IF saga[s].stage = step THEN OnFailure(step) ELSE saga[s].stage)
         /\ next.promises = (saga[s].promises \ {step})
              \cup (IF saga[s].stage = step THEN {OnFailure(step)} \cap Writing ELSE {})
         /\ next.outcome = (IF saga[s].stage = step /\ OnFailure(step) = "ended"
                            THEN "failed" ELSE saga[s].outcome)
  BY <1>1, SettleHolds
<1>3. next.promises = saga[s].promises \ {step}
  BY <1>1, <1>2
<1> QED  BY <1>2, <1>3 DEF GivesUp

LEMMA StepTimesOutHolds ==
  ASSUME IInv, NEW s \in Sagas, StepTimesOut(s)
  PROVE  IInv'
<1>1. saga[s] \in SagaRecords /\ saga[s].stage \in Writing
  BY SagaBefore DEF StepTimesOut
<1>2. PICK stage \in {"removingRole", "erasing", "ended"} : stage = OnFailure(saga[s].stage)
  BY DEF OnFailure
<1>3. PICK next \in SagaRecords :
        /\ next = GoTo(saga[s], stage) /\ next.stage = stage /\ next.user = saga[s].user
        /\ next.promises = saga[s].promises
        /\ next.outcome = (IF stage = "ended" THEN "failed" ELSE saga[s].outcome)
  BY <1>1, BacksOutHolds
<1>4. GivesUp(s, saga[s].stage, next)
  BY <1>2, <1>3 DEF GivesUp
<1>5. saga' = [saga EXCEPT ![s] = next] /\ saga'[s] = next
  BY <1>2, <1>3 DEF StepTimesOut, IInv, TypesInv
<1>6. /\ UNCHANGED <<users, loader, call, announced>>
      /\ troubles \subseteq troubles' /\ troubles' \subseteq Environment /\ ~Calm'
  BY DEF StepTimesOut, Trouble, IInv, TypesInv, Calm
<1>7. /\ SagaHolds(s)' /\ next.stage # "idle"
      /\ saga[s].outcome # "none" => next.outcome = saga[s].outcome
  <2>1. StillOwns(s) /\ announced \subseteq announced'
    BY <1>6 DEF Owns, StillOwns
  <2>2. saga[s].stage # "idle"
    BY <1>1 DEF Writing
  <2> QED  BY <1>1, <1>4, <1>5, <2>1, <2>2, GivesUpHolds
<1>8. \A id \in Ids : users[id].by = s => "creating" \notin next.promises
  BY <1>3, SagaBefore
<1>9. MovesOn(s, next) /\ announced' = announced
  BY <1>5, <1>6, <1>7, <1>8, RowsStay DEF IInv
<1> QED  BY <1>6, <1>7, <1>9, OneSaga

LEMMA StepRejectsHolds ==
  ASSUME IInv, NEW s \in Sagas, NEW step \in Writing, StepRejects(s, step)
  PROVE  IInv'
<1>1. /\ saga[s] \in SagaRecords /\ SagaHolds(s) /\ (Calm => CalmHolds(s))
      /\ step \in saga[s].promises
      /\ step = "creating" => \A id \in Ids : users[id].by # s
  BY SagaBefore DEF StepRejects
<1>2. PICK next \in SagaRecords :
        /\ next = Settle(saga[s], step, OnFailure(step)) /\ GivesUp(s, step, next)
        /\ next.promises = saga[s].promises \ {step}
        /\ next.stage = (IF saga[s].stage = step THEN OnFailure(step) ELSE saga[s].stage)
  BY <1>1, RejectedGivesUp
<1>3. saga' = [saga EXCEPT ![s] = next] /\ saga'[s] = next
  BY <1>2 DEF StepRejects, IInv, TypesInv
<1>4. /\ UNCHANGED <<users, loader, call, announced>>
      /\ troubles \subseteq troubles' /\ troubles' \subseteq Environment
      /\ Calm' => Calm /\ step # "publishing"
  BY DEF StepRejects, Trouble, IInv, TypesInv, Calm
<1>5. /\ SagaHolds(s)' /\ next.stage # "idle"
      /\ saga[s].outcome # "none" => next.outcome = saga[s].outcome
  <2>1. saga[s].stage # "idle"
    BY <1>1 DEF SagaHolds
  <2>2. StillOwns(s) /\ announced \subseteq announced'
    BY <1>4 DEF Owns, StillOwns
  <2> QED  BY <1>2, <1>3, <2>1, <2>2, GivesUpHolds
<1>6. \A id \in Ids : users[id].by = s => "creating" \notin next.promises
  BY <1>2, SagaBefore
<1>7. MovesOn(s, next) /\ announced' = announced
  BY <1>3, <1>4, <1>5, <1>6, RowsStay DEF IInv
<1>8. Calm' => CalmHolds(s)'
  <2>1. CASE Calm'
    <3>1. /\ CalmHolds(s) /\ saga[s].stage = step
          /\ step = "creating" \/ step = "assigning"
      BY <1>1, <1>4, <2>1 DEF CalmHolds, Writing
    <3>2. next.stage = OnFailure(step) /\ next.promises = {} /\ next.user = saga[s].user
      BY <1>1, <1>2, <3>1 DEF CalmHolds, GivesUp, Writing
    <3>3. step = "assigning" => next.outcome # "failed"
      BY <1>1, <1>2, <3>1 DEF GivesUp, OnFailure, SagaHolds
    <3>4. next.stage = "ended" \/ next.stage = "erasing"
      BY <3>1, <3>2 DEF OnFailure
    <3>5. \A id \in Ids : users'[id].by = s =>
            /\ id = next.user
            /\ next.outcome = "failed" => users'[id].state = "erased"
      BY <1>1, <1>4, <3>1, <3>2, <3>3 DEF CalmHolds
    <3> QED  BY <1>3, <3>2, <3>4, <3>5 DEF CalmHolds, Writing
  <2> QED  BY <2>1
<1> QED  BY <1>7, <1>8, <1>5, OneSaga

LEMMA CreateUserHolds ==
  ASSUME IInv, NEW s \in Sagas, CreateUser(s)
  PROVE  IInv'
<1>1. /\ saga[s] \in SagaRecords /\ SagaHolds(s) /\ (Calm => CalmHolds(s))
      /\ "creating" \in saga[s].promises /\ \A id \in Ids : users[id].by # s
  BY SagaBefore DEF CreateUser
<1>2. UNCHANGED <<loader, call, announced, troubles>>
  BY DEF CreateUser
<1>3. PICK id \in Ids :
        /\ id = NextId /\ users[id].state = "none" /\ users[id].by = NobodyYet
        /\ users'[id] = [state |-> "live", email |-> saga[s].email, by |-> s, role |-> FALSE]
        /\ \A other \in Ids \ {id} : users'[other] = users[other]
        /\ users' \in [Ids -> UserRecords] /\ Kept
  <2>1. saga[s].email \in Emails \cup {NobodyYet}
    BY <1>1 DEF SagaRecords
  <2> QED  BY <2>1, InsertHolds DEF CreateUser, IInv
<1>4. /\ users'[id].state = "live" /\ users'[id].by = s
      /\ \A other \in Ids : other # id => users'[other] = users[other] /\ users'[other].by # s
  BY <1>1, <1>3
<1>5. PICK next \in SagaRecords :
        /\ saga' = [saga EXCEPT ![s] = next]
        /\ next.user = (IF saga[s].stage = "creating" THEN id ELSE saga[s].user)
        /\ next.stage = (IF saga[s].stage = "creating" THEN "assigning" ELSE saga[s].stage)
        /\ next.promises = (saga[s].promises \ {"creating"})
             \cup (IF saga[s].stage = "creating" THEN {"assigning"} ELSE {})
        /\ next.outcome = saga[s].outcome
  <2>1. PICK kept \in SagaRecords :
          /\ kept = Fulfil(saga[s], "creating") /\ kept.user = saga[s].user
          /\ kept.stage = (IF saga[s].stage = "creating" THEN "assigning" ELSE saga[s].stage)
          /\ kept.promises = (saga[s].promises \ {"creating"})
               \cup (IF saga[s].stage = "creating" THEN {"assigning"} ELSE {})
          /\ kept.outcome = saga[s].outcome
    <3>1. /\ "creating" \in Writing /\ After("creating") = "assigning"
          /\ {"assigning"} \cap Writing = {"assigning"}
      BY DEF Writing, After
    <3>2. PICK r \in SagaRecords :
            /\ r = Fulfil(saga[s], "creating") /\ r.user = saga[s].user
            /\ r.stage = (IF saga[s].stage = "creating" THEN After("creating")
                                                        ELSE saga[s].stage)
            /\ r.promises = (saga[s].promises \ {"creating"})
                 \cup (IF saga[s].stage = "creating" THEN {After("creating")} \cap Writing
                                                     ELSE {})
            /\ r.outcome = saga[s].outcome
      BY <1>1, <3>1, FulfilHolds
    <3> QED  BY <3>1, <3>2
  <2> DEFINE next == [kept EXCEPT !.user = IF saga[s].stage = "creating" THEN id ELSE kept.user]
  <2>2. /\ next \in SagaRecords /\ next.stage = kept.stage /\ next.promises = kept.promises
        /\ next.outcome = kept.outcome
        /\ next.user = (IF saga[s].stage = "creating" THEN id ELSE kept.user)
    BY <1>3 DEF SagaRecords
  <2>3. saga' = [saga EXCEPT ![s] = next]
    <3>1. saga' = [saga EXCEPT ![s] =
                     [Fulfil(saga[s], "creating") EXCEPT
                        !.user = IF saga[s].stage = "creating" THEN NextId
                                 ELSE Fulfil(saga[s], "creating").user]]
      BY DEF CreateUser
    <3> QED  BY <1>3, <2>1, <3>1
  <2> HIDE DEF next
  <2> QED  BY <2>1, <2>2, <2>3
<1>6. saga'[s] = next /\ "creating" \notin next.promises
  BY <1>5 DEF IInv, TypesInv
<1>7. ~Owns(s) /\ saga[s].stage # "idle"
  BY <1>1 DEF Owns, SagaHolds
<1>8. next.stage # "idle"
  BY <1>5, <1>7
<1>9. MovesOn(s, next)
  <2>1. \A other \in Ids :
          \/ users'[other] = users[other]
          \/ users[other].state = "none" /\ users'[other].by = s /\ users'[other].state = "live"
    BY <1>3, <1>4
  <2>2. announced' = announced /\ announced' \subseteq Ids /\ troubles' = troubles
          /\ troubles' \subseteq Environment
    BY <1>2 DEF IInv, TypesInv
  <2>3. \A other \in Ids : users'[other].state = "erased" => users[other].state = "erased"
    BY <1>4
  <2> QED  BY <1>2, <1>3, <1>5, <1>6, <1>8, <2>1, <2>2, <2>3 DEF MovesOn
<1>10. SagaHolds(s)'
  <2>1. CASE saga[s].stage = "creating"
    <3>1. saga[s].outcome = "none" /\ next.outcome = "none" /\ next.stage = "assigning"
      BY <1>1, <1>5, <2>1 DEF SagaHolds
    <3>2. Owns(s)'
      BY <1>4, <1>5, <1>6, <2>1 DEF Owns
    <3> QED  BY <1>6, <3>1, <3>2 DEF SagaHolds
  <2>2. CASE saga[s].stage # "creating"
    BY <1>1, <1>5, <1>6, <1>7, <2>2 DEF SagaHolds
  <2> QED  BY <2>1, <2>2
<1>11. Calm' => CalmHolds(s)'
  <2>1. CASE Calm'
    <3>1. CalmHolds(s)
      BY <1>1, <1>2, <2>1 DEF Calm
    <3>2. saga[s].stage = "creating" /\ saga[s].promises = {"creating"}
      BY <1>1, <3>1 DEF CalmHolds
    <3>3. saga[s].outcome = "none"
      BY <1>1, <3>2 DEF SagaHolds
    <3>4. /\ next.stage = "assigning" /\ next.promises = {"assigning"} /\ next.user = id
          /\ next.outcome = "none"
      BY <1>5, <3>2, <3>3
    <3> QED  BY <1>4, <1>6, <3>4 DEF CalmHolds, Writing
  <2> QED  BY <2>1
<1>12. announced' \ announced = {}
  BY <1>2
<1> QED  BY <1>9, <1>10, <1>11, <1>12, OneSaga

\* A change of the row that a saga owns, to a state or a role of it.
OwnRowChanges(s, state, role) ==
  /\ saga[s].user \in Ids /\ users' \in [Ids -> UserRecords]
  /\ \A other \in Ids : other # saga[s].user => users'[other] = users[other]
  /\ users'[saga[s].user].by = s
  /\ users'[saga[s].user].email = users[saga[s].user].email
  /\ users'[saga[s].user].state = state /\ users'[saga[s].user].role = role

LEMMA RoleChanges ==
  ASSUME IInv, NEW s \in Sagas, Owns(s), NEW role \in BOOLEAN,
         users' = [users EXCEPT ![saga[s].user].role = role]
  PROVE  OwnRowChanges(s, users[saga[s].user].state, role)
<1>1. PICK id \in Ids : id = saga[s].user /\ users[id] \in UserRecords /\ users[id].by = s
  BY DEF IInv, TypesInv, Owns
<1> DEFINE row == [users[id] EXCEPT !.role = role]
<1>2. /\ row \in UserRecords /\ row.by = s /\ row.email = users[id].email
      /\ row.state = users[id].state /\ row.role = role
  BY <1>1 DEF UserRecords
<1>3. users' = [users EXCEPT ![id] = row]
  BY <1>1
<1> HIDE DEF row
<1>4. users \in [Ids -> UserRecords]
  BY DEF IInv, TypesInv
<1>5. /\ users' \in [Ids -> UserRecords] /\ users'[id] = row
      /\ \A other \in Ids : other # id => users'[other] = users[other]
  BY <1>2, <1>3, <1>4
<1> QED  BY <1>1, <1>2, <1>5 DEF OwnRowChanges

\* What a saga may do to its own row and its record.
LEMMA OwnRowMoves ==
  ASSUME IInv, NEW s \in Sagas, Owns(s), NEW next \in SagaRecords,
         saga' = [saga EXCEPT ![s] = next], UNCHANGED <<loader, call>>,
         NEW role, NEW state, OwnRowChanges(s, state, role),
         state = users[saga[s].user].state \/ (state = "erased" /\ next.outcome = "failed"),
         announced \subseteq announced', announced' \subseteq Ids,
         troubles \subseteq troubles', troubles' \subseteq Environment,
         next.stage # "idle", saga[s].outcome # "none" => next.outcome = saga[s].outcome,
         "creating" \notin next.promises
  PROVE  MovesOn(s, next)
<1>1. /\ saga[s].user \in Ids /\ users[saga[s].user].by = s
      /\ users[saga[s].user].state # "none"
  BY NobodyHolds DEF IInv, RowsInv, Owns
<1>2. users[saga[s].user].state \in {"live", "deleted", "erased"}
  BY <1>1 DEF IInv, TypesInv, UserRecords
<1>3. ASSUME NEW id \in Ids
      PROVE  /\ \/ users'[id] = users[id]
                \/ /\ users[id].by = s /\ users[id].state # "none"
                   /\ users'[id].by = s /\ users'[id].email = users[id].email
                   /\ users'[id].state \in {"live", "deleted", "erased"}
             /\ users'[id].state = "erased" =>
                  \/ users[id].state = "erased"
                  \/ users[id].by = s /\ next.outcome = "failed"
  <2>1. CASE id = saga[s].user
    BY <1>1, <1>2, <2>1 DEF OwnRowChanges
  <2>2. CASE id # saga[s].user
    BY <2>2 DEF OwnRowChanges
  <2> QED  BY <2>1, <2>2
<1> QED  BY <1>3 DEF MovesOn, OwnRowChanges

LEMMA AssignRoleHolds ==
  ASSUME IInv, NEW s \in Sagas, AssignRole(s)
  PROVE  IInv'
<1>1. /\ saga[s] \in SagaRecords /\ SagaHolds(s) /\ (Calm => CalmHolds(s))
      /\ "assigning" \in saga[s].promises
      /\ "creating" \in saga[s].promises => \A id \in Ids : users[id].by # s
  BY SagaBefore DEF AssignRole
<1>2. /\ UNCHANGED <<loader, call>> /\ announced' = announced /\ troubles' = troubles
      /\ announced' \subseteq Ids /\ troubles' \subseteq Environment
  BY DEF AssignRole, IInv, TypesInv
<1>3. Owns(s) /\ "creating" \notin saga[s].promises /\ saga[s].stage # "idle"
  BY <1>1 DEF SagaHolds, Owns
<1>4. PICK next \in SagaRecords :
        /\ next = Fulfil(saga[s], "assigning") /\ next.user = saga[s].user
        /\ next.stage = (IF saga[s].stage = "assigning" THEN "publishing" ELSE saga[s].stage)
        /\ next.promises = (saga[s].promises \ {"assigning"})
             \cup (IF saga[s].stage = "assigning" THEN {"publishing"} ELSE {})
        /\ next.outcome = saga[s].outcome
  <2>1. /\ "assigning" \in Writing /\ After("assigning") = "publishing"
        /\ {"publishing"} \cap Writing = {"publishing"}
    BY DEF Writing, After
  <2>2. PICK r \in SagaRecords :
          /\ r = Fulfil(saga[s], "assigning") /\ r.user = saga[s].user
          /\ r.stage = (IF saga[s].stage = "assigning" THEN After("assigning")
                                                       ELSE saga[s].stage)
          /\ r.promises = (saga[s].promises \ {"assigning"})
               \cup (IF saga[s].stage = "assigning" THEN {After("assigning")} \cap Writing
                                                    ELSE {})
          /\ r.outcome = saga[s].outcome
    BY <1>1, <2>1, FulfilHolds
  <2> QED  BY <2>1, <2>2
<1>5. saga' = [saga EXCEPT ![s] = next] /\ saga'[s] = next
  BY <1>4 DEF AssignRole, IInv, TypesInv
<1>6. OwnRowChanges(s, users[saga[s].user].state, TRUE)
  BY <1>3, RoleChanges DEF AssignRole
<1>7. next.stage # "idle" /\ "creating" \notin next.promises
  BY <1>3, <1>4
<1>8. MovesOn(s, next)
  BY <1>2, <1>3, <1>4, <1>5, <1>6, <1>7, OwnRowMoves
<1>9. SagaHolds(s)'
  <2>1. Owns(s)' /\ users'[saga'[s].user].role = TRUE
    BY <1>4, <1>5, <1>6 DEF Owns, OwnRowChanges
  <2>2. next.outcome = "none" <=> next.stage # "ended"
    BY <1>1, <1>4 DEF SagaHolds
  <2> QED  BY <1>1, <1>2, <1>4, <1>5, <1>7, <2>1, <2>2 DEF SagaHolds
<1>10. Calm' => CalmHolds(s)'
  <2>1. CASE Calm'
    <3>1. CalmHolds(s)
      BY <1>1, <1>2, <2>1 DEF Calm
    <3>2. saga[s].stage = "assigning" /\ saga[s].promises = {"assigning"}
      BY <1>1, <3>1 DEF CalmHolds
    <3>3. saga[s].outcome = "none"
      BY <1>1, <3>2 DEF SagaHolds
    <3>4. /\ next.stage = "publishing" /\ next.promises = {"publishing"}
          /\ next.user = saga[s].user /\ next.outcome = "none"
      BY <1>4, <3>2, <3>3
    <3>5. \A id \in Ids : users'[id].by = s => id = next.user
      BY <1>6, <3>1, <3>4 DEF CalmHolds, OwnRowChanges
    <3> QED  BY <1>5, <3>4, <3>5 DEF CalmHolds, Writing
  <2> QED  BY <2>1
<1>11. announced' \ announced = {}
  BY <1>2
<1> QED  BY <1>8, <1>9, <1>10, <1>11, OneSaga

LEMMA PublishEventHolds ==
  ASSUME IInv, NEW s \in Sagas, PublishEvent(s)
  PROVE  IInv'
<1>1. /\ saga[s] \in SagaRecords /\ SagaHolds(s) /\ (Calm => CalmHolds(s))
      /\ "publishing" \in saga[s].promises
      /\ "creating" \in saga[s].promises => \A id \in Ids : users[id].by # s
  BY SagaBefore DEF PublishEvent
<1>2. Owns(s) /\ "creating" \notin saga[s].promises /\ saga[s].stage # "idle"
  BY <1>1 DEF SagaHolds, Owns
<1>3. /\ UNCHANGED <<users, loader, call>> /\ troubles' = troubles
      /\ announced' = announced \cup {saga[s].user}
      /\ announced' \subseteq Ids /\ troubles' \subseteq Environment
  BY <1>2 DEF PublishEvent, IInv, TypesInv, Owns
<1>4. PICK next \in SagaRecords :
        /\ next = Fulfil(saga[s], "publishing") /\ next.user = saga[s].user
        /\ next.stage = (IF saga[s].stage = "publishing" THEN "ended" ELSE saga[s].stage)
        /\ next.promises = saga[s].promises \ {"publishing"}
        /\ next.outcome = (IF saga[s].stage = "publishing" THEN "completed"
                                                          ELSE saga[s].outcome)
  <2>1. /\ "publishing" \in Writing /\ After("publishing") = "ended"
        /\ {"ended"} \cap Writing = {}
    BY DEF Writing, After
  <2>2. PICK r \in SagaRecords :
          /\ r = Fulfil(saga[s], "publishing") /\ r.user = saga[s].user
          /\ r.stage = (IF saga[s].stage = "publishing" THEN After("publishing")
                                                        ELSE saga[s].stage)
          /\ r.promises = (saga[s].promises \ {"publishing"})
               \cup (IF saga[s].stage = "publishing" THEN {After("publishing")} \cap Writing
                                                     ELSE {})
          /\ r.outcome = (IF saga[s].stage = "publishing" THEN "completed"
                                                         ELSE saga[s].outcome)
    BY <1>1, <2>1, FulfilHolds
  <2> QED  BY <2>1, <2>2
<1>5. saga' = [saga EXCEPT ![s] = next] /\ saga'[s] = next
  BY <1>4 DEF PublishEvent, IInv, TypesInv
<1>6. next.stage # "idle" /\ "creating" \notin next.promises
  BY <1>2, <1>4
<1>7. saga[s].outcome # "none" => next.outcome = saga[s].outcome
  BY <1>1, <1>4 DEF SagaHolds
<1>8. MovesOn(s, next)
  <2>1. users' = users /\ users' \in [Ids -> UserRecords]
    BY <1>3 DEF IInv, TypesInv
  <2> QED  BY <1>3, <1>5, <1>6, <1>7, <2>1 DEF MovesOn
<1>9. SagaHolds(s)'
  <2>1. /\ Owns(s)' /\ saga'[s].user \in announced'
        /\ saga[s].stage = "publishing" \/ saga[s].outcome = "completed" =>
             users'[saga'[s].user].role
    BY <1>1, <1>2, <1>3, <1>4, <1>5 DEF Owns, SagaHolds
  <2>2. next.outcome = "none" <=> next.stage # "ended"
    BY <1>1, <1>4 DEF SagaHolds
  <2>3. next.stage = "publishing" \/ next.outcome = "completed" =>
          saga[s].stage = "publishing" \/ saga[s].outcome = "completed"
    BY <1>4
  <2> QED  BY <1>5, <1>6, <2>1, <2>2, <2>3 DEF SagaHolds
<1>10. ASSUME Calm'
       PROVE  /\ CalmHolds(s)'
              /\ \A id \in announced' \ announced :
                   users'[id].by = s /\ next.outcome = "completed"
  <2>1. CalmHolds(s)
    BY <1>1, <1>3, <1>10 DEF Calm
  <2>2. saga[s].stage = "publishing" /\ saga[s].promises = {"publishing"}
    BY <1>1, <2>1 DEF CalmHolds
  <2>3. /\ next.stage = "ended" /\ next.promises = {}
        /\ next.user = saga[s].user /\ next.outcome = "completed"
    BY <1>4, <2>2
  <2>4. CalmHolds(s)'
    BY <1>3, <1>5, <2>1, <2>3 DEF CalmHolds, Writing
  <2> QED  BY <1>2, <1>3, <2>3, <2>4 DEF Owns
<1> QED  BY <1>8, <1>9, <1>10, OneSaga

LEMMA AnswerIsLostHolds ==
  ASSUME IInv, NEW s \in Sagas, AnswerIsLost(s)
  PROVE  IInv'
<1>1. /\ saga[s] \in SagaRecords /\ SagaHolds(s)
      /\ "creating" \in saga[s].promises => \A id \in Ids : users[id].by # s
  BY SagaBefore
<1>2. /\ UNCHANGED <<loader, call>> /\ ~Calm'
      /\ troubles \subseteq troubles' /\ troubles' \subseteq Environment
  BY DEF AnswerIsLost, Trouble, Calm, IInv, TypesInv
<1>3. PICK step \in Writing :
        /\ step \in saga[s].promises
        /\ saga' = [saga EXCEPT ![s] = Settle(saga[s], step, OnFailure(step))]
        /\ \/ /\ step = "creating" /\ announced' = announced
              /\ Unused # {} /\ Insert(saga[s].email, s)
           \/ /\ step = "assigning" /\ announced' = announced
              /\ users' = [users EXCEPT ![saga[s].user].role = TRUE]
           \/ /\ step = "publishing" /\ users' = users
              /\ announced' = announced \cup {saga[s].user}
  <2>1. /\ OnFailure("creating") = "ended" /\ OnFailure("assigning") = "erasing"
        /\ OnFailure("publishing") = "removingRole"
        /\ Writing = {"creating", "assigning", "publishing"}
    BY DEF OnFailure, Writing
  <2> QED  BY <2>1 DEF AnswerIsLost
<1>4. PICK next \in SagaRecords :
        /\ next = Settle(saga[s], step, OnFailure(step)) /\ GivesUp(s, step, next)
        /\ next.promises = saga[s].promises \ {step}
  BY <1>1, RejectedGivesUp
<1>5. saga' = [saga EXCEPT ![s] = next] /\ saga'[s] = next
  BY <1>3, <1>4 DEF IInv, TypesInv
<1>6. saga[s].stage # "idle"
  BY <1>1, <1>3 DEF SagaHolds
<1>7. step # "creating" => Owns(s) /\ "creating" \notin saga[s].promises
  BY <1>1, <1>3 DEF SagaHolds, Owns, Writing
<1>8. StillOwns(s) /\ announced \subseteq announced' /\ announced' \subseteq Ids
  <2>1. announced \subseteq Ids
    BY DEF IInv, TypesInv
  <2>2. CASE step = "creating"
    <3>1. ~Owns(s)
      BY <1>1, <1>3, <2>2 DEF Owns
    <3> QED  BY <1>3, <2>1, <2>2, <3>1 DEF StillOwns
  <2>3. CASE step = "assigning"
    <3>1. OwnRowChanges(s, users[saga[s].user].state, TRUE)
      BY <1>3, <1>7, <2>3, RoleChanges
    <3> QED  BY <1>3, <2>1, <2>3, <3>1 DEF StillOwns, OwnRowChanges
  <2>4. CASE step = "publishing"
    BY <1>3, <1>7, <2>1, <2>4 DEF StillOwns, Owns
  <2> QED  BY <2>2, <2>3, <2>4 DEF Writing
<1>9. /\ SagaHolds(s)' /\ next.stage # "idle"
      /\ saga[s].outcome # "none" => next.outcome = saga[s].outcome
  BY <1>4, <1>5, <1>6, <1>8, GivesUpHolds
<1>10. "creating" \notin next.promises
  <2>1. CASE step = "creating"
    BY <1>4, <2>1
  <2>2. CASE step # "creating"
    BY <1>4, <1>7, <2>2
  <2> QED  BY <2>1, <2>2
<1>11. MovesOn(s, next)
  <2>1. CASE step = "creating"
    <3>1. saga[s].email \in Emails \cup {NobodyYet}
      BY <1>1 DEF SagaRecords
    <3>2. PICK id \in Ids :
            /\ id = NextId /\ users[id].state = "none" /\ users[id].by = NobodyYet
            /\ users'[id] = [state |-> "live", email |-> saga[s].email, by |-> s, role |-> FALSE]
            /\ \A other \in Ids \ {id} : users'[other] = users[other]
            /\ users' \in [Ids -> UserRecords] /\ Kept
      BY <1>3, <2>1, <3>1, InsertHolds DEF IInv
    <3>3. users'[id].state = "live" /\ users'[id].by = s
      BY <3>2
    <3>4. \A other \in Ids :
            /\ \/ users'[other] = users[other]
               \/ /\ users[other].state = "none" /\ users'[other].by = s
                  /\ users'[other].state = "live"
            /\ users'[other].state = "erased" => users[other].state = "erased"
      BY <3>2, <3>3
    <3> QED  BY <1>2, <1>5, <1>8, <1>9, <1>10, <3>2, <3>4 DEF MovesOn
  <2>2. CASE step = "assigning"
    <3>1. OwnRowChanges(s, users[saga[s].user].state, TRUE)
      BY <1>3, <1>7, <2>2, RoleChanges
    <3> QED  BY <1>2, <1>5, <1>7, <1>8, <1>9, <1>10, <2>2, <3>1, OwnRowMoves
  <2>3. CASE step = "publishing"
    <3>1. users' = users /\ users' \in [Ids -> UserRecords]
      BY <1>3, <2>3 DEF IInv, TypesInv
    <3> QED  BY <1>2, <1>5, <1>8, <1>9, <1>10, <3>1 DEF MovesOn
  <2> QED  BY <2>1, <2>2, <2>3 DEF Writing
<1> QED  BY <1>2, <1>9, <1>11, OneSaga

LEMMA RemoveRoleHolds ==
  ASSUME IInv, NEW s \in Sagas, RemoveRole(s)
  PROVE  IInv'
<1>1. /\ saga[s] \in SagaRecords /\ SagaHolds(s) /\ (Calm => CalmHolds(s))
      /\ saga[s].stage = "removingRole"
      /\ "creating" \in saga[s].promises => \A id \in Ids : users[id].by # s
  BY SagaBefore DEF RemoveRole
<1>2. /\ Owns(s) /\ "creating" \notin saga[s].promises /\ saga[s].outcome = "none"
  BY <1>1 DEF SagaHolds, Owns
<1>3. /\ UNCHANGED <<loader, call>> /\ announced' = announced /\ announced' \subseteq Ids
      /\ troubles \subseteq troubles' /\ troubles' \subseteq Environment
  BY DEF RemoveRole, Trouble, IInv, TypesInv
<1>4. PICK next \in SagaRecords :
        /\ next = GoTo(saga[s], "erasing") /\ next.stage = "erasing"
        /\ next.user = saga[s].user /\ next.promises = saga[s].promises
        /\ next.outcome = "none"
  BY <1>1, <1>2, BacksOutHolds
<1>5. saga' = [saga EXCEPT ![s] = next] /\ saga'[s] = next
  BY <1>4 DEF RemoveRole, IInv, TypesInv
<1>6. MovesOn(s, next) /\ Owns(s)'
  <2>1. CASE users' = users
    <3>1. users' \in [Ids -> UserRecords]
      BY <2>1 DEF IInv, TypesInv
    <3> QED  BY <1>2, <1>3, <1>4, <1>5, <2>1, <3>1 DEF MovesOn, Owns
  <2>2. CASE users' = [users EXCEPT ![saga[s].user].role = FALSE]
    <3>1. OwnRowChanges(s, users[saga[s].user].state, FALSE)
      BY <1>2, <2>2, RoleChanges
    <3>2. Owns(s)'
      BY <1>4, <1>5, <3>1 DEF Owns, OwnRowChanges
    <3>3. next.stage # "idle" /\ "creating" \notin next.promises
            /\ announced \subseteq announced' /\ next.outcome = saga[s].outcome
      BY <1>2, <1>3, <1>4
    <3> QED  BY <1>2, <1>3, <1>5, <3>1, <3>2, <3>3, OwnRowMoves
  <2> QED  BY <2>1, <2>2 DEF RemoveRole
<1>7. SagaHolds(s)'
  BY <1>4, <1>5, <1>6 DEF SagaHolds
<1>8. ~Calm'
  BY <1>1, <1>3 DEF Calm, CalmHolds
<1> QED  BY <1>6, <1>7, <1>8, OneSaga

LEMMA EraseUserHolds ==
  ASSUME IInv, NEW s \in Sagas, EraseUser(s)
  PROVE  IInv'
<1>1. /\ saga[s] \in SagaRecords /\ SagaHolds(s) /\ (Calm => CalmHolds(s))
      /\ saga[s].stage = "erasing"
      /\ "creating" \in saga[s].promises => \A id \in Ids : users[id].by # s
  BY SagaBefore DEF EraseUser
<1>2. /\ Owns(s) /\ "creating" \notin saga[s].promises /\ saga[s].outcome = "none"
  BY <1>1 DEF SagaHolds, Owns
<1>3. /\ UNCHANGED <<loader, call>> /\ announced' = announced /\ announced' \subseteq Ids
      /\ troubles \subseteq troubles' /\ troubles' \subseteq Environment
  BY DEF EraseUser, Trouble, IInv, TypesInv
<1>4. PICK next \in SagaRecords :
        /\ next = GoTo(saga[s], "ended") /\ next.stage = "ended"
        /\ next.user = saga[s].user /\ next.promises = saga[s].promises
        /\ next.outcome = "failed"
  BY <1>1, BacksOutHolds
<1>5. saga' = [saga EXCEPT ![s] = next] /\ saga'[s] = next
  BY <1>4 DEF EraseUser, IInv, TypesInv
<1>6. /\ saga[s].user \in Ids /\ users[saga[s].user] \in UserRecords
      /\ users[saga[s].user].by = s /\ users[saga[s].user].state # "none"
  BY <1>2, NobodyHolds DEF IInv, TypesInv, RowsInv, Owns
<1>7. \/ users' = users /\ "failure" \in troubles'
      \/ OwnRowChanges(s, "erased", users[saga[s].user].role)
  <2>1. CASE users' = [id \in Ids |-> IF id \in Created(s)
                                      THEN [users[id] EXCEPT !.state = "erased"]
                                      ELSE users[id]]
    <3>1. CASE InTable(saga[s].user)
      <4> DEFINE row == [users[saga[s].user] EXCEPT !.state = "erased"]
      <4>1. /\ row \in UserRecords /\ row.state = "erased"
            /\ row.by = users[saga[s].user].by /\ row.email = users[saga[s].user].email
            /\ row.role = users[saga[s].user].role
        BY <1>6 DEF UserRecords
      <4>2. Created(s) = {saga[s].user}
        BY <1>6, <3>1 DEF Created
      <4>3. users'[saga[s].user] = row
        BY <1>6, <2>1, <4>2
      <4> HIDE DEF row
      <4>4. \A id \in Ids : id # saga[s].user => users'[id] = users[id]
        BY <2>1, <4>2
      <4>5. users' \in [Ids -> UserRecords]
        <5>1. \A id \in Ids : users'[id] \in UserRecords
          BY <4>1, <4>3, <4>4 DEF IInv, TypesInv
        <5>2. users' = [id \in Ids |-> users'[id]]
          BY <2>1
        <5> QED  BY <5>1, <5>2
      <4> QED  BY <1>6, <4>1, <4>3, <4>4, <4>5 DEF OwnRowChanges
    <3>2. CASE ~InTable(saga[s].user)
      <4>1. Created(s) = {}
        BY <3>2 DEF Created
      <4>2. users' = users /\ users \in [Ids -> UserRecords]
        BY <2>1, <4>1 DEF IInv, TypesInv
      <4>3. users[saga[s].user].state = "erased"
        BY <1>6, <3>2 DEF InTable, UserRecords
      <4> QED  BY <1>6, <4>2, <4>3 DEF OwnRowChanges
    <3> QED  BY <3>1, <3>2
  <2>2. CASE users' = users /\ Trouble("failure")
    BY <2>2 DEF Trouble
  <2> QED  BY <2>1, <2>2 DEF EraseUser
<1>8. MovesOn(s, next) /\ Owns(s)'
  <2>1. CASE users' = users
    <3>1. users' \in [Ids -> UserRecords]
      BY <2>1 DEF IInv, TypesInv
    <3> QED  BY <1>2, <1>3, <1>4, <1>5, <2>1, <3>1 DEF MovesOn, Owns
  <2>2. CASE OwnRowChanges(s, "erased", users[saga[s].user].role)
    <3>1. Owns(s)'
      BY <1>4, <1>5, <2>2 DEF Owns, OwnRowChanges
    <3>2. next.stage # "idle" /\ "creating" \notin next.promises
            /\ announced \subseteq announced'
      BY <1>2, <1>3, <1>4
    <3> QED  BY <1>2, <1>3, <1>4, <1>5, <2>2, <3>1, <3>2, OwnRowMoves
  <2> QED  BY <1>7, <2>1, <2>2
<1>9. SagaHolds(s)'
  BY <1>4, <1>5, <1>8 DEF SagaHolds
<1>10. Calm' => CalmHolds(s)'
  <2>1. CASE Calm'
    <3>1. CalmHolds(s) /\ OwnRowChanges(s, "erased", users[saga[s].user].role)
      BY <1>1, <1>3, <1>7, <2>1 DEF Calm
    <3>2. next.promises = {}
      BY <1>1, <1>4, <3>1 DEF CalmHolds, Writing
    <3>3. \A id \in Ids : users'[id].by = s =>
            id = next.user /\ users'[id].state = "erased"
      BY <1>4, <3>1 DEF CalmHolds, OwnRowChanges
    <3> QED  BY <1>4, <1>5, <3>2, <3>3 DEF CalmHolds, Writing
  <2> QED  BY <2>1
<1>11. announced' \ announced = {}
  BY <1>3
<1> QED  BY <1>8, <1>9, <1>10, <1>11, OneSaga

-----------------------------------------------------------------------------
(* The whole *)

LEMMA CrashHolds ==
  ASSUME IInv, Crash
  PROVE  IInv'
<1> USE DEF IInv
<1>1. /\ UNCHANGED <<users, announced>> /\ byEmail' = <<>> /\ asked' = <<>>
      /\ troubles \subseteq troubles' /\ troubles' \subseteq Environment
      /\ Calm' => Calm
  BY DEF Crash, Trouble, TypesInv, Calm
<1>2. call' \in [Calls -> CallRecords] /\ CallsInv'
  <2>1. /\ DOMAIN call' = Calls /\ call' = [c \in Calls |-> call'[c]]
        /\ \A c \in Calls : call'[c] = call[c] \/ call'[c] = Answer(c, "lost")
    BY DEF Crash
  <2> QED  BY <1>1, <2>1, CallsTold
<1>3. ASSUME NEW s \in Sagas
      PROVE  /\ saga'[s] \in SagaRecords /\ saga'[s].user = saga[s].user
             /\ saga'[s].promises = {}
             /\ saga'[s].stage = (IF saga[s].stage = "idle" THEN "idle" ELSE "ended")
             /\ saga'[s].outcome = (IF saga[s].stage \in {"idle", "ended"}
                                    THEN saga[s].outcome ELSE "lost")
  <2>1. saga[s] \in SagaRecords
    BY DEF TypesInv
  <2> QED  BY <2>1 DEF Crash, SagaRecords, SagaStages
<1>4. saga' \in [Sagas -> SagaRecords]
  <2>1. saga' = [s \in Sagas |-> saga'[s]]
    BY DEF Crash
  <2> QED  BY <1>3, <2>1
<1>5. DOMAIN byEmail' = {} /\ asked' \in Seq(Emails) /\ DOMAIN asked' = {}
  BY <1>1
<1>6. TypesInv'
  BY <1>1, <1>2, <1>4, <1>5 DEF TypesInv
<1>7. LoaderInv'
  BY <1>5 DEF LoaderInv
<1>8. ASSUME NEW s \in Sagas
      PROVE  /\ saga'[s].outcome \in {"completed", "failed"} =>
                  saga'[s].outcome = saga[s].outcome
             /\ saga[s].outcome # "none" => saga'[s].outcome = saga[s].outcome
             /\ saga'[s].stage = "idle" <=> saga[s].stage = "idle"
  <2>1. SagaHolds(s)
    BY DEF SagasInv
  <2> QED  BY <1>3, <2>1 DEF SagaHolds
<1>9. RowsInv'
  BY <1>1, <1>3, <1>8 DEF RowsInv
<1>10. ASSUME NEW s \in Sagas  PROVE  SagaHolds(s)'
  <2>1. SagaHolds(s) /\ (Owns(s) => Owns(s)')
    BY <1>1, <1>3 DEF SagasInv, Owns
  <2> QED  BY <1>1, <1>3, <1>8, <2>1 DEF SagaHolds
<1>11. ASSUME Calm'
       PROVE  /\ \A s \in Sagas : CalmHolds(s)'
              /\ \A id \in announced' :
                   users'[id].by \in Sagas /\ saga'[users'[id].by].outcome = "completed"
  <2>1. \A s \in Sagas : CalmHolds(s)
    BY <1>1, <1>11 DEF CalmInv
  <2>2. ASSUME NEW s \in Sagas  PROVE  CalmHolds(s)'
    <3>1. saga'[s].promises = {} /\ saga'[s].stage \in {"idle", "ended"}
      BY <1>3
    <3>2. \A id \in Ids : users'[id].by = s =>
            /\ id = saga'[s].user
            /\ saga'[s].outcome = "failed" => users'[id].state = "erased"
      <4>1. \A id \in Ids : users[id].by = s =>
              /\ id = saga[s].user
              /\ saga[s].outcome = "failed" => users[id].state = "erased"
        BY <2>1 DEF CalmHolds
      <4>2. /\ saga'[s].user = saga[s].user
            /\ saga'[s].outcome = "failed" => saga[s].outcome = "failed"
        BY <1>3, <1>8
      <4> QED  BY <1>1, <4>1, <4>2
    <3> QED  BY <3>1, <3>2 DEF CalmHolds, Writing
  <2> QED  BY <1>1, <1>8, <1>11, <2>2 DEF CalmInv
<1>12. SagasInv' /\ CalmInv'
  BY <1>10, <1>11 DEF SagasInv, CalmInv
<1> QED  BY <1>2, <1>6, <1>7, <1>9, <1>12

LEMMA NextInv ==
  ASSUME IInv, [Next]_vars
  PROVE  IInv'
<1>1. ASSUME NEW c \in Calls, NEW e \in Emails, NEW op \in {"register", "login"},
             FindByEmail(c, op, e)
      PROVE  IInv'
  BY <1>1, FindByEmailHolds
<1>2. CASE LoadEmails \/ LoadFails
  BY <1>2, LoadEmailsHolds, LoadFailsHolds
<1>3. ASSUME NEW c \in Calls, CallStep(c)  PROVE  IInv'
  BY <1>3, LooksUpHolds, CreateHolds, LoginHolds DEF CallStep
<1>4. ASSUME NEW s \in Sagas, NEW e \in Emails, Register(s, e)  PROVE  IInv'
  BY <1>4, RegisterHolds
<1>5. ASSUME NEW s \in Sagas, SagaStep(s)  PROVE  IInv'
  <2>1. CASE CreateUser(s) \/ AssignRole(s) \/ PublishEvent(s)
    BY <2>1, CreateUserHolds, AssignRoleHolds, PublishEventHolds
  <2>2. CASE \E step \in Writing : StepRejects(s, step)
    BY <2>2, StepRejectsHolds
  <2>3. CASE AnswerIsLost(s) \/ StepTimesOut(s)
    BY <2>3, AnswerIsLostHolds, StepTimesOutHolds
  <2>4. CASE RemoveRole(s) \/ EraseUser(s)
    BY <2>4, RemoveRoleHolds, EraseUserHolds
  <2> QED  BY <1>5, <2>1, <2>2, <2>3, <2>4 DEF SagaStep
<1>6. ASSUME NEW id \in Ids, Delete(id)  PROVE  IInv'
  BY <1>6, DeleteHolds
<1>7. CASE Crash
  BY <1>7, CrashHolds
<1>8. CASE UNCHANGED vars
  <2>1. UNCHANGED <<users, byEmail, asked, call, saga, announced, troubles>>
    BY <1>8 DEF vars, loader
  <2>2. TypesInv' /\ Kept
    BY <2>1, KeptAlone DEF IInv, TypesInv
  <2>3. LoaderInv' /\ CallsInv'
    BY <2>1, <2>2, LookupsKept DEF IInv
  <2>4. RowsInv' /\ SagasInv' /\ CalmInv'
    BY <2>1, <2>2, SagasKept DEF IInv, TypesInv
  <2> QED  BY <2>2, <2>3, <2>4 DEF IInv
<1> QED  BY <1>1, <1>2, <1>3, <1>4, <1>5, <1>6, <1>7, <1>8 DEF Next

LEMMA Invariance == Spec => []IInv
<1>1. Init => IInv
  BY InitInv
<1>2. IInv /\ [Next]_vars => IInv'
  BY NextInv
<1> QED  BY <1>1, <1>2, PTL DEF Spec

\* The table, the loader, the calls and the sagas keep their shape.
THEOREM AccountsTypes == Spec => []TypeOK
<1>1. IInv => TypeOK
  BY DEF IInv, TypesInv, TypeOK, UserRecords, CallRecords, Answers, SagaRecords, SagaStages
<1> QED  BY <1>1, Invariance, PTL

\* AuthService serves nobody as somebody else: a call acts for a user that was
\* registered under its email, whatever the loader of emails still keeps.
THEOREM ServedAsThemselves == Spec => []OwnUserOnly
<1>1. IInv => OwnUserOnly
  BY DEF IInv, CallsInv, Has, OwnUserOnly
<1> QED  BY <1>1, Invariance, PTL

\* The outcome of UserRegistrationSaga is the truth about its user: completed,
\* he is there with his role and was announced; failed, no row of his is left
\* unless a step timed out or a write failed on the way.
THEOREM OutcomesAreTrue == Spec => []OutcomeIsTruth
<1>1. ASSUME IInv  PROVE  CompletedIsRegistered
  <2>1. ASSUME NEW s \in Sagas, saga[s].outcome = "completed"
        PROVE  /\ saga[s].user \in announced /\ users[saga[s].user].by = s
               /\ users[saga[s].user].role
               /\ users[saga[s].user].state \in {"live", "deleted"}
    <3>1. Owns(s) /\ saga[s].user \in announced /\ users[saga[s].user].role
      BY <1>1, <2>1 DEF IInv, SagasInv, SagaHolds
    <3>2. users[saga[s].user].state # "none" /\ users[saga[s].user].state # "erased"
      BY <1>1, <2>1, <3>1, NobodyHolds DEF IInv, RowsInv, Owns
    <3>3. users[saga[s].user].state \in {"none", "live", "deleted", "erased"}
      BY <1>1, <3>1 DEF IInv, TypesInv, UserRecords, Owns
    <3> QED  BY <3>1, <3>2, <3>3 DEF Owns
  <2> QED  BY <2>1 DEF CompletedIsRegistered
<1>2. ASSUME IInv  PROVE  FailedLeavesNothing
  <2>1. ASSUME Calm
        PROVE  /\ \A s \in Sagas, id \in Ids :
                    saga[s].outcome = "failed" /\ users[id].by = s => users[id].state = "erased"
               /\ \A id \in announced : users[id].state # "erased"
    <3>1. \A s \in Sagas : CalmHolds(s)
      BY <1>2, <2>1 DEF IInv, CalmInv
    <3>2. ASSUME NEW id \in announced  PROVE  users[id].state # "erased"
      <4>1. id \in Ids /\ users[id].by \in Sagas /\ saga[users[id].by].outcome = "completed"
        BY <1>2, <2>1 DEF IInv, CalmInv, TypesInv
      <4> QED  BY <1>2, <4>1 DEF IInv, RowsInv
    <3> QED  BY <3>1, <3>2 DEF CalmHolds
  <2> QED  BY <2>1 DEF FailedLeavesNothing, Calm
<1> QED  BY <1>1, <1>2, Invariance, PTL DEF OutcomeIsTruth

\* The compensation of CreateUser erases the row that its own saga inserted,
\* while that saga fails, and nothing else ever erases a row.
THEOREM OnlyTheirOwnErased == Spec => OnlyOwnUserErased
<1> DEFINE Erases(id) == users'[id].state = "erased" /\ users[id].state # "erased"
<1> DEFINE ByItsSaga(id) == \E s \in Sagas : /\ users[id].by = s
                                            /\ saga[s].outcome = "none"
                                            /\ saga'[s].outcome = "failed"
<1>1. ASSUME IInv, [Next]_vars, NEW id \in Ids, Erases(id)
      PROVE  ByItsSaga(id)
  <2>1. users \in [Ids -> UserRecords]
    BY <1>1 DEF IInv, TypesInv
  <2>2. users' # users
    BY <1>1
  <2>3. ASSUME NEW other, users' = [users EXCEPT ![other].state = "deleted"]  PROVE  FALSE
    BY <1>1, <2>1, <2>3 DEF UserRecords
  <2>4. ASSUME NEW email, NEW maker, Insert(email, maker)  PROVE  FALSE
    BY <1>1, <2>1, <2>4 DEF Insert
  <2>5. ASSUME NEW other, NEW role, users' = [users EXCEPT ![other].role = role]  PROVE  FALSE
    BY <1>1, <2>1, <2>5 DEF UserRecords
  <2>6. PICK s \in Sagas : EraseUser(s)
    <3>1. ASSUME NEW c \in Calls, CallStep(c)  PROVE  FALSE
      BY <2>2, <2>4, <3>1 DEF CallStep, RegisterLooksUp, LoginLooksUp, Login, Create
    <3>2. ASSUME NEW s \in Sagas, SagaStep(s)  PROVE  EraseUser(s)
      BY <2>2, <2>4, <2>5, <3>2 DEF SagaStep, CreateUser, AssignRole, PublishEvent,
         StepRejects, AnswerIsLost, StepTimesOut, RemoveRole
    <3>3. ~(LoadEmails \/ LoadFails \/ Crash \/ UNCHANGED vars)
      BY <2>2 DEF LoadEmails, LoadFails, Crash, vars
    <3>4. ASSUME NEW other \in Ids, Delete(other)  PROVE  FALSE
      BY <2>3, <3>4 DEF Delete
    <3>5. ASSUME NEW c \in Calls, NEW e \in Emails, NEW op \in {"register", "login"},
                 FindByEmail(c, op, e)
          PROVE  FALSE
      BY <2>2, <3>5 DEF FindByEmail
    <3>6. ASSUME NEW s \in Sagas, NEW e \in Emails, Register(s, e)  PROVE  FALSE
      BY <2>2, <3>6 DEF Register
    <3> QED  BY <1>1, <3>1, <3>2, <3>3, <3>4, <3>5, <3>6 DEF Next
  <2>7. /\ saga[s] \in SagaRecords /\ Owns(s) /\ saga[s].outcome = "none"
    <3>1. saga[s] \in SagaRecords /\ SagaHolds(s)
      BY <1>1, SagaBefore
    <3> QED  BY <2>6, <3>1 DEF EraseUser, SagaHolds
  <2>8. saga'[s].outcome = "failed"
    <3>1. GoTo(saga[s], "ended").outcome = "failed"
      BY <2>7, GoToHolds DEF SagaStages
    <3> QED  BY <1>1, <2>6, <3>1 DEF EraseUser, IInv, TypesInv
  <2>9. id = saga[s].user
    BY <1>1, <2>2, <2>6 DEF EraseUser, Created
  <2> QED  BY <2>7, <2>8, <2>9 DEF Owns
<1>2. IInv /\ [Next]_vars =>
        [ \A id \in Ids :
            users'[id].state = "erased" /\ users[id].state # "erased" =>
              \E s \in Sagas : /\ users[id].by = s
                               /\ saga[s].outcome = "none"
                               /\ saga'[s].outcome = "failed" ]_vars
  BY <1>1
<1> QED  BY <1>2, Invariance, PTL DEF Spec, OnlyOwnUserErased
================================================================================
