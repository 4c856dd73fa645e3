-------------------------------- MODULE Logins --------------------------------
(***************************************************************************)
(* What happens to one account after its registration: logging in, failing *)
(* to, changing and resetting the password, two-factor authentication.      *)
(*   apps/core/src/auth/auth.service.ts, two-factor.service.ts              *)
(*   apps/core/src/users/users.service.ts, users.dataloader.service.ts      *)
(*                                                                         *)
(* The users service keeps what it found by email and by id until the      *)
(* process ends.  Every check of AuthService reads such a copy, and every  *)
(* write goes to the row, column by column.  Between the two lie the       *)
(* comparison of a password, the lookup inside update and the statement    *)
(* itself, where other requests step in.                                   *)
(*                                                                         *)
(* One account, whose row stays (module Accounts has registration and      *)
(* deletion).  Nothing ever stores a two-factor secret, so that the row    *)
(* has none; the token of a reset is the same for everybody.  Left out:    *)
(* the tokens that are signed, the events that are published.              *)
(***************************************************************************)
EXTENDS Integers, Sequences

CONSTANTS
  Requests,     \* slots for requests under way
  Passwords,
  MaxAttempts,  \* MAX_LOGIN_ATTEMPTS
  Horizon,      \* a bound on the half hours that pass
  MaxStarted,   \* a bound on the requests
  MaxRestarts   \* a bound on the restarts

ASSUME LoginsAssumption ==
  /\ {MaxAttempts, Horizon, MaxStarted} \subseteq Nat \ {0}
  /\ MaxRestarts \in Nat

VARIABLES
  row,       \* the columns of the account these requests read or write
  byEmail, byId,  \* what the two loaders keep
  now,       \* half hours
  request,
  started, restarts,
  refused,   \* history: how many passwords were refused
  chosen     \* history: the password that was last set on purpose

process == <<byEmail, byId>>
loginsVars == <<row, process, now, request, started, restarts, refused, chosen>>

NoWord == "none"
NotLooked == [password |-> NoWord]
NoWrites == << >>
NoColumn == [c \in {} |-> 0]

\* ever: the passwords the row had during the request; stale: the
\* copy it was given was out of date already.
NoRequest == [op |-> "none", given |-> NoWord, stage |-> "idle", copy |-> NotLooked,
              writes |-> NoWrites, answer |-> "none", ever |-> {}, stale |-> FALSE]

LoginsInit ==
  \E p \in Passwords, n \in 0..MaxAttempts - 1 :
    /\ row = [password |-> p, status |-> "ACTIVE", attempts |-> n, lockout |-> 0,
              resetUntil |-> 0, twoFactor |-> FALSE]
    /\ byEmail = NotLooked /\ byId = NotLooked
    /\ now = 0 /\ started = 0 /\ restarts = 0
    /\ request = [r \in Requests |-> NoRequest]
    /\ refused = n /\ chosen = p

-----------------------------------------------------------------------------
(* Looking the account up *)

Look(kept) == IF kept = NotLooked THEN row ELSE kept

Under(r, stage) == request[r].stage = stage
Answered(r, answer) ==
  [request[r] EXCEPT !.stage = "answered", !.answer = answer,
                     !.copy = NotLooked, !.writes = NoWrites]

Failed == [NoRequest EXCEPT !.stage = "answered", !.answer = "error"]

\* The request goes on with these writes, and is answered after the last one.
Proceed(r, writes, answer) ==
  IF writes = NoWrites THEN Answered(r, answer)
  ELSE [request[r] EXCEPT !.stage = "updating", !.writes = writes, !.answer = answer]

\* A copy is at hand; the password given is compared with the one in it.
Comparing(r, copy) ==
  [request[r] EXCEPT !.stage = "comparing", !.copy = copy,
                     !.stale = copy.password # row.password]

Set(r, next) == request' = [request EXCEPT ![r] = next]

Ask(r, op, given) ==
  /\ request[r].stage \in {"idle", "answered"} /\ started < MaxStarted
  /\ started' = started + 1
  /\ Set(r, [NoRequest EXCEPT !.op = op, !.given = given, !.stage = "looking",
                              !.ever = {row.password}])
  /\ UNCHANGED <<row, process, now, restarts, refused, chosen>>

FindByEmail(r) ==
  /\ Under(r, "looking")
  /\ byEmail' = Look(byEmail)
  /\ UNCHANGED <<row, byId, now, started, restarts, refused, chosen>>

FindById(r) ==
  /\ Under(r, "looking")
  /\ byId' = Look(byId)
  /\ UNCHANGED <<row, byEmail, now, started, restarts, refused, chosen>>

LockedOut(copy) == copy.lockout > now
\* LOCKED is refused like SUSPENDED.
Barred(copy) == copy.status = "SUSPENDED"

Login(r) ==
  LET copy == Look(byEmail) IN
  /\ request[r].op = "login"
  /\ FindByEmail(r)
  /\ Set(r, CASE Barred(copy) -> Answered(r, "barred")
              [] ~Barred(copy) /\ LockedOut(copy) -> Answered(r, "lockedOut")
              [] OTHER -> Comparing(r, copy))

\* The local strategy compares first and looks at the status afterwards.
ValidateUser(r) ==
  /\ request[r].op = "validate"
  /\ FindByEmail(r)
  /\ Set(r, Comparing(r, Look(byEmail)))

ResetAt == now + 2
RequestPasswordReset(r) ==
  /\ request[r].op = "requestReset"
  /\ FindByEmail(r)
  /\ Set(r, Proceed(r, << [resetUntil |-> ResetAt] >>, "ok"))

ChangePassword(r) ==
  /\ request[r].op = "change"
  /\ FindById(r)
  /\ Set(r, Comparing(r, Look(byId)))

\* The placeholder that verifies a token has none to compare it with.
VerifyTwoFactor(r) ==
  /\ request[r].op = "verifyTwoFactor"
  /\ FindById(r)
  /\ Set(r, Answered(r, "refused"))

RefreshToken(r) ==
  /\ request[r].op = "refresh"
  /\ FindById(r)
  /\ Set(r, Answered(r, "ok"))

\* setupTwoFactor sends an update of no column.
SetupTwoFactor(r) ==
  /\ request[r].op = "setupTwoFactor"
  /\ FindById(r)
  /\ Set(r, IF Look(byId).twoFactor THEN Answered(r, "refused")
            ELSE Proceed(r, << NoColumn >>, "ok"))

\* Enabled already, or, as no secret is ever stored, not set up.
EnableTwoFactor(r) ==
  /\ request[r].op = "enableTwoFactor"
  /\ FindById(r)
  /\ Set(r, Answered(r, "refused"))

DisableTwoFactor(r) ==
  /\ request[r].op = "disableTwoFactor"
  /\ FindById(r)
  /\ Set(r, IF Look(byId).twoFactor THEN Comparing(r, Look(byId))
            ELSE Answered(r, "refused"))

\* The one lookup that goes to the table; a request with another token finds
\* nobody.
ResetPassword(r) ==
  /\ request[r].op = "reset" /\ Under(r, "looking")
  /\ Set(r, IF row.resetUntil > now
            THEN Proceed(r, << [password |-> request[r].given] >>, "ok")
            ELSE Answered(r, "refused"))
  /\ UNCHANGED <<row, process, now, started, restarts, refused, chosen>>

\* UsersService.update for others: a status, or two-factor authentication.
Edit(r) ==
  /\ request[r].op = "edit" /\ Under(r, "looking")
  /\ \/ \E status \in {"ACTIVE", "SUSPENDED"} :
          Set(r, Proceed(r, << [status |-> status] >>, "ok"))
     \/ Set(r, Proceed(r, << [twoFactor |-> TRUE] >>, "ok"))
  /\ UNCHANGED <<row, process, now, started, restarts, refused, chosen>>

-----------------------------------------------------------------------------
(* Comparing the password *)

\* The comparison is a promise, and a promise is always true.
NotAwaited(given, copy) == TRUE
Matches(given, copy) == given = copy.password

\* The attempt that reaches MaxAttempts locks the account for half an hour;
\* before that the column is left alone.
OneBefore(attempts) == attempts + 1 >= MaxAttempts
Reaches(attempts) == attempts >= MaxAttempts
HandleFailedLogin(copy) ==
  LET attempts == copy.attempts + 1 IN
  IF Reaches(attempts) THEN [attempts |-> attempts, lockout |-> now + 1]
  ELSE [attempts |-> attempts]

AfterLogin(copy) ==
  (IF copy.attempts > 0 THEN << [attempts |-> 0] >> ELSE NoWrites)
  \o (IF copy.twoFactor THEN NoWrites ELSE << NoColumn >>)

\* The other password of a change is any one.
Compare(r) ==
  LET copy == request[r].copy
      op == request[r].op IN
  /\ Under(r, "comparing")
  /\ IF Matches(request[r].given, copy)
     THEN /\ CASE op = "login" ->
                    Set(r, Proceed(r, AfterLogin(copy),
                                   IF copy.twoFactor THEN "secondFactor" ELSE "ok"))
               [] op = "validate" ->
                    Set(r, Answered(r, IF Barred(copy) THEN "barred" ELSE "ok"))
               [] op = "disableTwoFactor" ->
                    Set(r, Proceed(r, << [twoFactor |-> FALSE] >>, "ok"))
               [] op = "change" ->
                    \E new \in Passwords :
                      Set(r, Proceed(r, << [password |-> new] >>, "ok"))
          /\ UNCHANGED refused
     ELSE /\ Set(r, IF op = "login"
                    THEN Proceed(r, << HandleFailedLogin(copy) >>, "wrong")
                    ELSE Answered(r, "wrong"))
          /\ refused' = refused + 1
  /\ UNCHANGED <<row, process, now, started, restarts, chosen>>

-----------------------------------------------------------------------------
(* Writing *)

\* AuthService writes these with a statement of its own, without update.
Direct(r) == request[r].op \in {"change", "reset", "disableTwoFactor", "setupTwoFactor"}

FindExisting(r) ==
  /\ Under(r, "updating") /\ ~Direct(r)
  /\ byId' = Look(byId)
  /\ Set(r, [request[r] EXCEPT !.stage = "writing"])
  /\ UNCHANGED <<row, byEmail, now, started, restarts, refused, chosen>>

\* The user it found, with the new values spread over him.
WithColumns(old, columns) ==
  [c \in DOMAIN old |-> IF c \in DOMAIN columns THEN columns[c] ELSE old[c]]
Spread(columns) == WithColumns(Look(byId), columns)
Updated(columns) == WithColumns(row, columns)

Write(r) ==
  LET columns == Head(request[r].writes)
      rest == Tail(request[r].writes) IN
  /\ Under(r, "writing") \/ (Under(r, "updating") /\ Direct(r))
  /\ row' = Updated(columns)
  /\ chosen' = IF "password" \in DOMAIN columns THEN columns.password ELSE chosen
  /\ request' = [q \in Requests |->
       LET next == IF q = r THEN Proceed(r, rest, request[r].answer) ELSE request[q]
       IN [next EXCEPT !.ever = IF next.stage = "idle" \/ (next.stage = "answered" /\ q # r)
                                THEN @ ELSE @ \cup {row'.password}]]
  /\ UNCHANGED <<process, now, started, restarts, refused>>

-----------------------------------------------------------------------------
(* The rest of the world *)

Busy(r) == request[r].stage \notin {"idle", "answered"}

\* The database rejects the statement under way.
Fails(r) ==
  /\ Busy(r) /\ ~Under(r, "comparing")
  /\ Set(r, Failed)
  /\ UNCHANGED <<row, process, now, started, restarts, refused, chosen>>

Restart ==
  /\ restarts < MaxRestarts
  /\ restarts' = restarts + 1
  /\ byEmail' = NotLooked /\ byId' = NotLooked
  /\ request' = [r \in Requests |-> IF Busy(r) THEN Failed ELSE request[r]]
  /\ UNCHANGED <<row, now, started, refused, chosen>>

TimePasses ==
  /\ now < Horizon
  /\ now' = now + 1
  /\ UNCHANGED <<row, process, request, started, restarts, refused, chosen>>

StartRequest(r) ==
  \/ \E op \in {"login", "validate", "change", "reset", "disableTwoFactor"},
        p \in Passwords : Ask(r, op, p)
  \/ \E op \in {"requestReset", "verifyTwoFactor", "refresh", "setupTwoFactor",
                "enableTwoFactor", "edit"} : Ask(r, op, NoWord)

Handle(r) ==
  \/ Login(r) \/ ValidateUser(r) \/ RequestPasswordReset(r) \/ ChangePassword(r)
  \/ VerifyTwoFactor(r) \/ RefreshToken(r) \/ SetupTwoFactor(r)
  \/ EnableTwoFactor(r) \/ DisableTwoFactor(r) \/ ResetPassword(r) \/ Edit(r)
  \/ Compare(r) \/ FindExisting(r) \/ Write(r)

LoginsNext ==
  \/ \E r \in Requests : StartRequest(r) \/ Handle(r) \/ Fails(r)
  \/ Restart \/ TimePasses

LoginsSpec == LoginsInit /\ [][LoginsNext]_loginsVars

-----------------------------------------------------------------------------
(* Properties *)

UserRow == [password : Passwords, status : {"ACTIVE", "SUSPENDED"}, attempts : Nat,
            lockout : Nat, resetUntil : Nat, twoFactor : BOOLEAN]

\* The types; a copy is a row, and a request under way knows what it waits for.
LoginsTypeOK ==
  /\ row \in UserRow /\ chosen \in Passwords
  /\ \A kept \in {byEmail, byId} : kept = NotLooked \/ kept \in UserRow
  /\ \A r \in Requests : Under(r, "updating") \/ Under(r, "writing")
                           => request[r].writes # NoWrites

\* The verdict on a password agrees with a password the row had at some moment
\* of the request, unless the loader handed out a copy from before the last
\* change; and the password is always the one last set on purpose, although
\* counters, lockouts, statuses and resets are written beside it.
PasswordsHonoured ==
  /\ \A r \in Requests :
       request[r].op \in {"login", "validate", "change", "disableTwoFactor"}
         /\ ~request[r].stale =>
         /\ request[r].answer \in {"ok", "secondFactor"} => request[r].given \in request[r].ever
         /\ request[r].answer = "wrong" => request[r].ever # {request[r].given}
  /\ row.password = chosen

\* Whatever copies the count is taken from, the account is locked, and a login
\* turned away for that, only after MaxAttempts refused passwords.
LockoutIsEarned ==
  /\ row.lockout > 0 => refused >= MaxAttempts
  /\ \A r \in Requests : request[r].answer = "lockedOut" => refused >= MaxAttempts

=============================================================================
