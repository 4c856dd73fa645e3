------------------------------- MODULE Accounts -------------------------------
(***************************************************************************)
(* How user accounts come to be and are found again in the core service:   *)
(*   apps/core/src/auth/auth.service.ts                                    *)
(*   apps/core/src/users/users.service.ts, users.dataloader.service.ts     *)
(*   apps/core/src/saga/user-registration.saga.ts                          *)
(*                                                                         *)
(* A call registers a user or logs one in.  Both look the email up in a    *)
(* loader of the users service, which batches the lookups of one tick and  *)
(* keeps every answer, that there is no such user too, until the process   *)
(* ends.  A registration saga does the same work in five steps, of which   *)
(* the first two only read and compute; each is raced against a timeout    *)
(* (module Saga has the orchestration in general) and its promise goes on  *)
(* after it lost the race.                                                 *)
(*                                                                         *)
(* Left out: passwords and the checks of a login, which succeed or fail;   *)
(* the loader of users by id, which decides only the roles in a token; the *)
(* events of users.service.ts (module SearchIndexing).                     *)
(***************************************************************************)
EXTENDS Integers, Sequences, FiniteSets

CONSTANTS
  Emails,
  Username(_),  \* the username made from an email, its part before the @
  Calls,        \* calls of register and login
  Sagas,        \* runs of the registration saga
  MaxUsers,     \* a bound on the users ever created
  Environment   \* what infrastructure may do

EnvironmentKinds ==
  { "timeout",   \* a step of a saga may outlast the timeout
    "failure",   \* the database or Kafka may reject, having done it or not
    "unseeded",  \* the role of new users may be missing
    "crash" }    \* the process may stop and start again

ASSUME EnvironmentAssumption == Environment \subseteq EnvironmentKinds
ASSUME UsersAssumption == MaxUsers \in Nat
ASSUME MakersAssumption == Calls \cap Sagas = {} /\ "nobody" \notin Calls \cup Sagas

VARIABLES
  users,      \* the rows of the table
  byEmail,    \* what the loader keeps: a function on the emails looked up
  asked,      \* the emails of the loader's batch, in the order of the calls
  call,       \* each call
  saga,       \* each saga
  announced,  \* the users whose creation a saga has published
  troubles    \* history: what of Environment has happened

vars == <<users, byEmail, asked, call, saga, announced, troubles>>
loader == <<byEmail, asked>>

Ids == 1..MaxUsers
Nobody == 0
NobodyYet == "nobody"

\* A deleted row keeps its id but gives its email and username up, an erased
\* one is gone.  email is the email of the registration, by who made it.
Init ==
  /\ users = [id \in Ids |-> [state |-> "none", email |-> NobodyYet,
                              by |-> NobodyYet, role |-> FALSE]]
  /\ byEmail = <<>>
  /\ asked = <<>>
  /\ call = [c \in Calls |-> [op |-> "none", email |-> NobodyYet,
                              stage |-> "idle", user |-> Nobody,
                              answer |-> "none", had |-> FALSE]]
  /\ saga = [s \in Sagas |-> [email |-> NobodyYet, stage |-> "idle",
                              promises |-> {}, user |-> Nobody,
                              outcome |-> "none"]]
  /\ announced = {}
  /\ troubles = {}

Trouble(kind) ==
  /\ kind \in Environment
  /\ troubles' = troubles \cup {kind}

-----------------------------------------------------------------------------
(* The table and its unique columns *)

LiveUsers == {id \in Ids : users[id].state = "live"}
InTable(id) == users[id].state \in {"live", "deleted"}
Holders(email) == {id \in LiveUsers : users[id].email = email}

Taken(email) ==
  \E id \in LiveUsers : \/ users[id].email = email
                        \/ Username(users[id].email) = Username(email)

Unused == {id \in Ids : users[id].state = "none"}
NextId == CHOOSE id \in Unused : \A other \in Unused : id <= other

Insert(email, maker) ==
  users' = [users EXCEPT ![NextId] =
              [state |-> "live", email |-> email, by |-> maker, role |-> FALSE]]

\* UsersService.delete; the saga's compensation erases instead.
Delete(id) ==
  /\ InTable(id)
  /\ users' = [users EXCEPT ![id].state = "deleted"]
  /\ UNCHANGED <<loader, call, saga, announced, troubles>>

-----------------------------------------------------------------------------
(* The loader of users by email *)

\* One query finds the rows in an order of its own; the answers must be in
\* the order of the keys.
Rows(emails) == {id \in LiveUsers : \E i \in DOMAIN emails :
                                      emails[i] = users[id].email}

ByPosition(emails) ==
  LET position(id) == Cardinality({other \in Rows(emails) : other <= id})
  IN  [ email \in {emails[i] : i \in DOMAIN emails} |->
          LET here == {id \in Rows(emails) : emails[position(id)] = email}
          IN  IF here = {} THEN Nobody ELSE CHOOSE id \in here : TRUE ]

ByKey(emails) ==
  [ email \in {emails[i] : i \in DOMAIN emails} |->
      IF Holders(email) = {} THEN Nobody
                             ELSE CHOOSE id \in Holders(email) : TRUE ]

LoadEmails ==
  /\ asked # <<>>
  /\ byEmail' = [email \in DOMAIN ByKey(asked) \cup DOMAIN byEmail |->
                  IF email \in DOMAIN ByKey(asked) THEN ByKey(asked)[email]
                                                  ELSE byEmail[email]]
  /\ asked' = <<>>
  /\ UNCHANGED <<users, call, saga, announced, troubles>>

Answer(c, answer) ==
  [call[c] EXCEPT !.stage = "answered", !.answer = answer]

Asking(email) == {c \in Calls : call[c].stage = "asking" /\ call[c].email = email}

\* A query that rejects is not kept, and everybody who asked is told.
NobodyTold == {}
Told == UNION {Asking(asked[i]) : i \in DOMAIN asked}

LoadFails ==
  /\ asked # <<>>
  /\ Trouble("failure")
  /\ asked' = <<>>
  /\ call' = [c \in Calls |-> IF c \in Told THEN Answer(c, "failed") ELSE call[c]]
  /\ UNCHANGED <<users, byEmail, saga, announced>>

-----------------------------------------------------------------------------
(* register and login of AuthService *)

\* An email is in the batch once, whoever asks for it.
AskedAgain(email) == Append(asked, email)
AskedOnce(email) ==
  IF \E i \in DOMAIN asked : asked[i] = email THEN asked ELSE Append(asked, email)

\* findByEmail, with which both begin.  had: the user was there when he came to
\* log in.
FindByEmail(c, op, email) ==
  /\ call[c].stage = "idle"
  /\ call' = [call EXCEPT ![c] = [op |-> op, email |-> email,
                                  stage |-> "asking", user |-> Nobody,
                                  answer |-> "none",
                                  had |-> op = "login" /\ Holders(email) # {}]]
  /\ asked' = IF email \in DOMAIN byEmail THEN asked ELSE AskedOnce(email)
  /\ UNCHANGED <<users, byEmail, saga, announced, troubles>>

Found(c) == byEmail[call[c].email]

RegisterLooksUp(c) ==
  /\ call[c].op = "register" /\ call[c].stage = "asking"
  /\ call[c].email \in DOMAIN byEmail
  /\ call' = [call EXCEPT ![c] = IF Found(c) = Nobody
                                 THEN [@ EXCEPT !.stage = "creating"]
                                 ELSE Answer(c, "exists")]
  /\ UNCHANGED <<users, loader, saga, announced, troubles>>

\* The unique columns reject, or the row is inserted and tokens are made for
\* it, which may fail with the row in place.
Create(c) ==
  /\ call[c].stage = "creating"
  /\ \/ /\ Taken(call[c].email)
        /\ call' = [call EXCEPT ![c] = Answer(c, "failed")]
        /\ UNCHANGED <<users, troubles>>
     \/ /\ ~Taken(call[c].email) /\ Unused # {}
        /\ Insert(call[c].email, c)
        /\ \/ /\ call' = [call EXCEPT ![c] = [Answer(c, "registered")
                                                EXCEPT !.user = NextId]]
              /\ UNCHANGED troubles
           \/ call' = [call EXCEPT ![c] = Answer(c, "failed")] /\ Trouble("failure")
     \/ /\ call' = [call EXCEPT ![c] = Answer(c, "failed")]
        /\ Trouble("failure")
        /\ UNCHANGED users
  /\ UNCHANGED <<loader, saga, announced>>

LoginLooksUp(c) ==
  /\ call[c].op = "login" /\ call[c].stage = "asking"
  /\ call[c].email \in DOMAIN byEmail
  /\ call' = [call EXCEPT ![c] = IF Found(c) = Nobody THEN Answer(c, "unknown")
                                 ELSE [@ EXCEPT !.stage = "checking",
                                                !.user = Found(c)]]
  /\ UNCHANGED <<users, loader, saga, announced, troubles>>

\* The checks refuse, or the last login is written, for which the row must
\* still be there, and tokens are made.
Login(c) ==
  /\ call[c].stage = "checking"
  /\ \/ call' = [call EXCEPT ![c] = Answer(c, "refused")] /\ UNCHANGED troubles
     \/ /\ call' = [call EXCEPT ![c] =
                      Answer(c, IF InTable(call[c].user) THEN "loggedIn"
                                                         ELSE "failed")]
        /\ UNCHANGED troubles
     \/ call' = [call EXCEPT ![c] = Answer(c, "failed")] /\ Trouble("failure")
  /\ UNCHANGED <<users, loader, saga, announced>>

-----------------------------------------------------------------------------
(* The registration saga *)

Writing == {"creating", "assigning", "publishing"}

\* The order of the steps.
After(step) ==
  [creating |-> "assigning", assigning |-> "publishing", publishing |-> "ended"][step]

\* The steps that completed are compensated in reverse order.
NothingToUndo(step) == "ended"
OnFailure(step) ==
  CASE step = "publishing" -> "removingRole"
    [] step = "assigning" -> "erasing"
    [] OTHER -> "ended"

GoTo(s, stage) ==
  [s EXCEPT !.stage = stage,
            !.promises = IF stage \in Writing THEN @ \cup {stage} ELSE @,
            !.outcome = IF stage = "ended" THEN "failed" ELSE @]

\* A step settles.  The saga goes on if it still awaits it; otherwise it has
\* given the step up.
Settle(s, step, next) ==
  IF s.stage = step THEN GoTo([s EXCEPT !.promises = @ \ {step}], next)
                    ELSE [s EXCEPT !.promises = @ \ {step}]

\* Were a saga to go by its last promise alone, it would report a success
\* that it has taken back.
LastPromise(s, step) == After(step) = "ended"
LastStep(s, step) == After(step) = "ended" /\ s.stage = step

Fulfil(s, step) ==
  LET next == Settle(s, step, After(step))
  IN  IF LastStep(s, step) THEN [next EXCEPT !.outcome = "completed"] ELSE next

\* ValidateUser looks the email up in the table; HashPassword computes.
Register(s, email) ==
  /\ saga[s].stage = "idle"
  /\ saga' = [saga EXCEPT ![s] =
                GoTo([@ EXCEPT !.email = email],
                     IF Holders(email) = {} THEN "creating" ELSE "ended")]
  /\ UNCHANGED <<users, loader, call, announced, troubles>>

StepTimesOut(s) ==
  /\ saga[s].stage \in Writing
  /\ Trouble("timeout")
  /\ saga' = [saga EXCEPT ![s] = GoTo(@, OnFailure(@.stage))]
  /\ UNCHANGED <<users, loader, call, announced>>

CreateUser(s) ==
  /\ "creating" \in saga[s].promises
  /\ ~Taken(saga[s].email) /\ Unused # {}
  /\ Insert(saga[s].email, s)
  /\ saga' = [saga EXCEPT ![s] =
                [Fulfil(saga[s], "creating") EXCEPT
                   !.user = IF saga[s].stage = "creating" THEN NextId ELSE @]]
  /\ UNCHANGED <<loader, call, announced, troubles>>

AssignRole(s) ==
  /\ "assigning" \in saga[s].promises
  /\ InTable(saga[s].user)
  /\ users' = [users EXCEPT ![saga[s].user].role = TRUE]
  /\ saga' = [saga EXCEPT ![s] = Fulfil(@, "assigning")]
  /\ UNCHANGED <<loader, call, announced, troubles>>

PublishEvent(s) ==
  /\ "publishing" \in saga[s].promises
  /\ announced' = announced \cup {saga[s].user}
  /\ saga' = [saga EXCEPT ![s] = Fulfil(@, "publishing")]
  /\ UNCHANGED <<users, loader, call, troubles>>

\* The email or username is taken, the row is gone or the role is missing.
StepRejects(s, step) ==
  /\ step \in saga[s].promises
  /\ \/ step = "creating" /\ Taken(saga[s].email) /\ UNCHANGED troubles
     \/ step = "assigning" /\ ~InTable(saga[s].user) /\ UNCHANGED troubles
     \/ step = "assigning" /\ Trouble("unseeded")
     \/ Trouble("failure")
  /\ saga' = [saga EXCEPT ![s] = Settle(@, step, OnFailure(step))]
  /\ UNCHANGED <<users, loader, call, announced>>

\* The database or Kafka does the work, and the answer is lost.
AnswerIsLost(s) ==
  /\ Trouble("failure")
  /\ \/ /\ "creating" \in saga[s].promises
        /\ ~Taken(saga[s].email) /\ Unused # {}
        /\ Insert(saga[s].email, s)
        /\ saga' = [saga EXCEPT ![s] = Settle(@, "creating", "ended")]
        /\ UNCHANGED announced
     \/ /\ "assigning" \in saga[s].promises /\ InTable(saga[s].user)
        /\ users' = [users EXCEPT ![saga[s].user].role = TRUE]
        /\ saga' = [saga EXCEPT ![s] = Settle(@, "assigning", "erasing")]
        /\ UNCHANGED announced
     \/ /\ "publishing" \in saga[s].promises
        /\ announced' = announced \cup {saga[s].user}
        /\ saga' = [saga EXCEPT ![s] = Settle(@, "publishing", "removingRole")]
        /\ UNCHANGED users
  /\ UNCHANGED <<loader, call>>

\* A compensation that fails is logged and counts as done.
RemoveRole(s) ==
  /\ saga[s].stage = "removingRole"
  /\ \/ users' = [users EXCEPT ![saga[s].user].role = FALSE] /\ UNCHANGED troubles
     \/ UNCHANGED users /\ Trouble("failure")
  /\ saga' = [saga EXCEPT ![s] = GoTo(@, "erasing")]
  /\ UNCHANGED <<loader, call, announced>>

\* The compensation of CreateUser deletes the row by its id.
WithEmail(s) == {id \in Ids : InTable(id) /\ users[id].email = saga[s].email}
Created(s) == {id \in Ids : InTable(id) /\ id = saga[s].user}

EraseUser(s) ==
  /\ saga[s].stage = "erasing"
  /\ \/ /\ users' = [id \in Ids |-> IF id \in Created(s)
                                    THEN [users[id] EXCEPT !.state = "erased"]
                                    ELSE users[id]]
        /\ UNCHANGED troubles
     \/ UNCHANGED users /\ Trouble("failure")
  /\ saga' = [saga EXCEPT ![s] = GoTo(@, "ended")]
  /\ UNCHANGED <<loader, call, announced>>

-----------------------------------------------------------------------------
\* The process stops and starts again: only the table and Kafka remain.
Crash ==
  /\ Trouble("crash")
  /\ byEmail' = <<>> /\ asked' = <<>>
  /\ call' = [c \in Calls |-> IF call[c].stage \in {"idle", "answered"}
                              THEN call[c] ELSE Answer(c, "lost")]
  /\ saga' = [s \in Sagas |->
                [saga[s] EXCEPT
                   !.promises = {},
                   !.stage = IF @ = "idle" THEN @ ELSE "ended",
                   !.outcome = IF saga[s].stage \in {"idle", "ended"}
                               THEN @ ELSE "lost"]]
  /\ UNCHANGED <<users, announced>>

CallStep(c) ==
  \/ RegisterLooksUp(c) \/ Create(c)
  \/ LoginLooksUp(c) \/ Login(c)

SagaStep(s) ==
  \/ CreateUser(s) \/ AssignRole(s) \/ PublishEvent(s)
  \/ \E step \in Writing : StepRejects(s, step)
  \/ AnswerIsLost(s)
  \/ StepTimesOut(s)
  \/ RemoveRole(s) \/ EraseUser(s)

Next ==
  \/ \E c \in Calls, e \in Emails, op \in {"register", "login"} : FindByEmail(c, op, e)
  \/ LoadEmails \/ LoadFails
  \/ \E c \in Calls : CallStep(c)
  \/ \E s \in Sagas, e \in Emails : Register(s, e)
  \/ \E s \in Sagas : SagaStep(s)
  \/ \E id \in Ids : Delete(id)
  \/ Crash

Spec == Init /\ [][Next]_vars

\* The event loop dispatches the batch and runs what can go on, and the
\* database answers a call in the end.
Fairness ==
  /\ WF_vars(LoadEmails)
  /\ \A c \in Calls : WF_vars(CallStep(c))

FairSpec == Spec /\ Fairness

-----------------------------------------------------------------------------
(* Properties *)

Makers == Calls \cup Sagas \cup {NobodyYet}

TypeOK ==
  /\ users \in [Ids -> [state : {"none", "live", "deleted", "erased"},
                        email : Emails \cup {NobodyYet}, by : Makers,
                        role : BOOLEAN]]
  /\ DOMAIN byEmail \subseteq Emails
  /\ \A email \in DOMAIN byEmail : byEmail[email] \in Ids \cup {Nobody}
  /\ asked \in Seq(Emails)
  /\ \A i, j \in DOMAIN asked : asked[i] = asked[j] => i = j
  /\ call \in [Calls -> [op : {"none", "register", "login"},
                         email : Emails \cup {NobodyYet},
                         stage : {"idle", "asking", "creating", "checking", "answered"},
                         user : Ids \cup {Nobody},
                         answer : {"none", "exists", "registered", "unknown", "refused",
                                   "loggedIn", "failed", "lost"},
                         had : BOOLEAN]]
  /\ saga \in [Sagas -> [email : Emails \cup {NobodyYet},
                         stage : {"idle", "removingRole", "erasing", "ended"} \cup Writing,
                         promises : SUBSET Writing,
                         user : Ids \cup {Nobody},
                         outcome : {"none", "completed", "failed", "lost"}]]
  /\ announced \subseteq Ids
  /\ troubles \subseteq Environment

\* Nobody is served as somebody else, however the lookups of a tick are
\* batched, emails are given up and registered anew, and rows are erased: a
\* call acts for a user registered under the email it named, and whoever is
\* told that the email exists is told of such a user.
OwnUserOnly ==
  \A c \in Calls :
    /\ call[c].user # Nobody => users[call[c].user].email = call[c].email
    /\ call[c].answer = "registered" => users[call[c].user].by = c
    /\ call[c].answer = "exists" =>
         \E id \in Ids : users[id].email = call[c].email

\* A saga that gives up erases the row it created and no other, although its
\* user may have been deleted and the email registered by somebody else in
\* the meantime; a user whose registration completed is never erased.
OnlyOwnUserErased ==
  [][ \A id \in Ids :
        users'[id].state = "erased" /\ users[id].state # "erased" =>
          \E s \in Sagas : /\ users[id].by = s
                           /\ saga[s].outcome = "none"
                           /\ saga'[s].outcome = "failed" ]_vars

\* A saga that reports success left a user with the role and announced it,
\* whatever timed out or failed beside it; nothing of a step it gave up
\* makes it go on.
CompletedIsRegistered ==
  \A s \in Sagas : saga[s].outcome = "completed" =>
    LET id == saga[s].user IN
      /\ id \in announced
      /\ users[id].by = s /\ users[id].role
      /\ users[id].state \in {"live", "deleted"}

\* A saga that reports failure leaves no user behind, and no user is announced
\* and then erased, which the search index would keep: the event goes out last.
\* The exceptions are a step that timed out and takes effect afterwards, and a
\* database that fails the compensation or Kafka the event.
FailedLeavesNothing ==
  troubles \cap {"timeout", "failure"} = {} =>
    /\ \A s \in Sagas, id \in Ids :
         saga[s].outcome = "failed" /\ users[id].by = s => users[id].state = "erased"
    /\ \A id \in announced : users[id].state # "erased"

\* The outcome of a registration saga is the truth about its user.
OutcomeIsTruth == CompletedIsRegistered /\ FailedLeavesNothing

\* Every call is answered, also when the lookup it shares with others fails.
CallsAnswered ==
  \A c \in Calls : (call[c].stage # "idle") ~> (call[c].stage = "answered")

\* apps/core/docs/DATALOADER.md:11 "Caches results within a single request":
\* whoever has a user when he logs in is not told that there is none.
FreshWithinRequest ==
  \A c \in Calls : call[c].answer = "unknown" => ~call[c].had

=============================================================================
