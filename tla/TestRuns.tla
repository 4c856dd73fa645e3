------------------------------- MODULE TestRuns -------------------------------
(***************************************************************************)
(* The execution of a test run in the testing plugin:                      *)
(*   plugins/ai-agent-testing/src/application/sagas/execute-test-run.saga.ts *)
(*   .../services/test-run.service.ts, test-case.service.ts                *)
(*   .../infrastructure/runner/web-runner.ts, api-runner.ts                *)
(*                                                                         *)
(* An execution is one call of executeTestRun: a saga of four steps, each  *)
(* raced against a timeout of five minutes (module Saga has the            *)
(* orchestration in general).  A step that loses the race goes on: its     *)
(* promise still works through the test cases or writes the row of the run *)
(* after the saga has ended.  Nothing ties a run to one execution.         *)
(*                                                                         *)
(* The run and its test cases exist from the start.                        *)
(***************************************************************************)
EXTENDS Integers, FiniteSets

CONSTANTS
  Cases,       \* the test cases of the project
  Executions,  \* the calls of executeTestRun for the run
  Environment  \* what callers and infrastructure may do

EnvironmentKinds ==
  { "overlap",  \* an execution may start while another one is under way
    "timeout",  \* a step may outlast the timeout, a request of it may hang
    "removed",  \* the run or a test case may be deleted
    "failure",  \* a call of the database may reject
    "crash" }   \* the process may stop

ASSUME EnvironmentAssumption == Environment \subseteq EnvironmentKinds
ASSUME CasesAssumption == IsFiniteSet(Cases) /\ "none" \notin Cases

VARIABLES
  run,       \* the row of the run
  present,   \* the test cases that have not been deleted
  result,    \* the status of the result row of each execution and test case
  stage,     \* the step the saga of each execution awaits
  promises,  \* the steps whose promises have not settled
  todo,      \* the loaded test cases that ExecuteTests has yet to take up
  current,   \* the test case it is at
  count,     \* passedTests and failedTests of ExecuteTests
  clock,     \* how often the time has been taken
  taken,     \* the time that StartTestRun or CompleteTestRun is about to write
  troubles   \* history: what of Environment has happened

rows == <<run, present, result>>
tests == <<todo, current, count>>
times == <<clock, taken>>
vars == <<rows, stage, promises, tests, times, troubles>>

Verdicts == {"PASSED", "FAILED", "PARTIAL", "ERROR"}
RunStatus == {"PENDING", "RUNNING", "deleted"} \cup Verdicts
\* FAILED stands for ERROR too, which counts the same.
ResultStatus == {"none", "RUNNING", "PASSED", "FAILED"}

\* The steps after LoadData, which only reads.
Writing == {"starting", "testing", "completing"}
Stages == {"idle", "loading", "reverting", "ended"} \cup Writing

\* A time of 0 is none.
Init ==
  /\ run = [status |-> "PENDING", passed |-> 0, failed |-> 0,
            startedAt |-> 0, finishedAt |-> 0]
  /\ present = Cases
  /\ result = [x \in Executions |-> [c \in Cases |-> "none"]]
  /\ stage = [x \in Executions |-> "idle"]
  /\ promises = [x \in Executions |-> {}]
  /\ todo = [x \in Executions |-> {}]
  /\ current = [x \in Executions |-> "none"]
  /\ count = [x \in Executions |-> [passed |-> 0, failed |-> 0]]
  /\ clock = 0
  /\ taken = [x \in Executions |-> 0]
  /\ troubles = {}

Trouble(kind) ==
  /\ kind \in Environment
  /\ troubles' = troubles \cup {kind}

Quiet ==
  \A x \in Executions : stage[x] \in {"idle", "ended"} /\ promises[x] = {}

RunExists == run.status # "deleted"
RowExists(x) == current[x] # "none" /\ result[x][current[x]] # "none"

-----------------------------------------------------------------------------
(* The saga around the steps *)

\* The variables of a step are gone with it.
Forget(x) ==
  /\ todo' = [todo EXCEPT ![x] = {}]
  /\ current' = [current EXCEPT ![x] = "none"]
  /\ count' = [count EXCEPT ![x] = [passed |-> 0, failed |-> 0]]

\* new Date() is evaluated when the step starts, before the row is written.
TakeTime(x) ==
  /\ clock' = clock + 1
  /\ taken' = [taken EXCEPT ![x] = clock + 1]

\* A step settles: the saga goes on with the next one if it still awaits this.
Settle(x, step, next) ==
  /\ IF stage[x] = step
     THEN /\ stage' = [stage EXCEPT ![x] = next]
          /\ promises' = [promises EXCEPT ![x] = {next} \cap Writing]
          /\ IF next \in Writing THEN UNCHANGED tests ELSE Forget(x)
     ELSE /\ promises' = [promises EXCEPT ![x] = @ \ {step}]
          /\ Forget(x)
          /\ UNCHANGED stage
  /\ IF stage[x] = step /\ next = "completing"
     THEN TakeTime(x)
     ELSE taken' = [taken EXCEPT ![x] = 0] /\ UNCHANGED clock

\* The steps before the failed one are compensated, which changes something
\* once StartTestRun is among them.  Were the failed step compensated too,
\* a run would be reverted by an execution that never got to it.
AlwaysRevert(step) == "reverting"
OnFailure(step) ==
  IF step \in {"testing", "completing"} THEN "reverting" ELSE "ended"

\* Were the tests not timed, one request that hangs would hold the saga.
TimedUnlessTesting(x) == stage[x] \in {"loading", "starting", "completing"}
Timed(x) == stage[x] \in {"loading"} \cup Writing

StepTimesOut(x) ==
  /\ Timed(x)
  /\ Trouble("timeout")
  /\ stage' = [stage EXCEPT ![x] = OnFailure(stage[x])]
  /\ UNCHANGED <<rows, promises, tests, times>>

\* StartTestRun's compensation.  startedAt: undefined leaves the column alone.
Reverted == [run EXCEPT !.status = "PENDING"]

Revert(x) ==
  /\ stage[x] = "reverting"
  /\ stage' = [stage EXCEPT ![x] = "ended"]
  /\ \/ run' = (IF RunExists THEN Reverted ELSE run) /\ UNCHANGED troubles
     \/ UNCHANGED run /\ Trouble("failure")
  /\ UNCHANGED <<present, result, promises, tests, times>>

-----------------------------------------------------------------------------
(* LoadData and StartTestRun *)

ExecuteTestRun(x) ==
  /\ stage[x] = "idle"
  /\ IF Quiet THEN UNCHANGED troubles ELSE Trouble("overlap")
  /\ stage' = [stage EXCEPT ![x] = "loading"]
  /\ UNCHANGED <<rows, promises, tests, times>>

\* The requested test cases that exist, each once; there must be one.
LoadData(x) ==
  /\ stage[x] = "loading"
  /\ RunExists
  /\ \E wanted \in SUBSET present :
       /\ wanted # {}
       /\ todo' = [todo EXCEPT ![x] = wanted]
  /\ stage' = [stage EXCEPT ![x] = "starting"]
  /\ promises' = [promises EXCEPT ![x] = {"starting"}]
  /\ TakeTime(x)
  /\ UNCHANGED <<rows, current, count, troubles>>

\* No such run, or none of the test cases, which a caller may always ask for.
LoadFails(x) ==
  /\ stage[x] = "loading"
  /\ stage' = [stage EXCEPT ![x] = OnFailure("loading")]
  /\ UNCHANGED <<rows, promises, tests, times, troubles>>

StartTestRun(x) ==
  /\ "starting" \in promises[x]
  /\ RunExists
  /\ run' = [run EXCEPT !.status = "RUNNING", !.startedAt = taken[x]]
  /\ Settle(x, "starting", "testing")
  /\ UNCHANGED <<present, result, troubles>>

-----------------------------------------------------------------------------
(* ExecuteTests *)

\* createResult for the next test case, in whatever order they were loaded.
CreateResult(x, c) ==
  /\ "testing" \in promises[x]
  /\ current[x] = "none" /\ c \in todo[x]
  /\ RunExists /\ c \in present
  /\ result' = [result EXCEPT ![x][c] = "RUNNING"]
  /\ current' = [current EXCEPT ![x] = c]
  /\ UNCHANGED <<run, present, stage, promises, todo, count, times, troubles>>

\* The loop moves on to the next test case.
NotTakenOff(x) == todo[x]
TakenOff(x) == todo[x] \ {current[x]}

\* updateResult and the counters.
Record(x, status) ==
  /\ RowExists(x)
  /\ result' = [result EXCEPT ![x][current[x]] = status]
  /\ count' = IF status = "PASSED" THEN [count EXCEPT ![x].passed = @ + 1]
                                   ELSE [count EXCEPT ![x].failed = @ + 1]
  /\ todo' = [todo EXCEPT ![x] = TakenOff(x)]
  /\ current' = [current EXCEPT ![x] = "none"]
  /\ UNCHANGED <<run, present, stage, promises, times>>

\* The runner stops at the first step that fails; none reports SKIPPED.
RunTestCase(x) ==
  /\ \E status \in {"PASSED", "FAILED"} : Record(x, status)
  /\ UNCHANGED troubles

\* The first updateResult rejects, the one of the catch block does not.
UpdateFails(x) ==
  /\ Record(x, "FAILED")
  /\ Trouble("failure")

EndTests(x) ==
  /\ "testing" \in promises[x]
  /\ current[x] = "none" /\ todo[x] = {}
  /\ Settle(x, "testing", "completing")
  /\ UNCHANGED <<rows, troubles>>

\* A row to be created needs the run and the test case, and a row to be
\* updated may have been deleted with one of them.
CannotGoOn(x) ==
  \/ current[x] = "none" /\ \E c \in todo[x] : ~RunExists \/ c \notin present
  \/ current[x] # "none" /\ ~RowExists(x)

-----------------------------------------------------------------------------
(* CompleteTestRun *)

\* The final status.  LoadData leaves no execution without a test case, so the
\* last case is never reached.
FewFailures(passed, failed) ==
  IF passed >= failed THEN "PASSED" ELSE "FAILED"
Verdict(passed, failed) ==
  CASE failed = 0 /\ passed > 0 -> "PASSED"
    [] passed = 0 /\ failed > 0 -> "FAILED"
    [] passed > 0 /\ failed > 0 -> "PARTIAL"
    [] OTHER -> "ERROR"

\* The counters are set, not added to those of an earlier execution.
AddedCounts(x) == [passed |-> run.passed + count[x].passed,
                   failed |-> run.failed + count[x].failed]
Counts(x) == count[x]

CompleteTestRun(x) ==
  /\ "completing" \in promises[x]
  /\ RunExists
  /\ run' = [run EXCEPT !.status = Verdict(Counts(x).passed, Counts(x).failed),
                        !.passed = Counts(x).passed, !.failed = Counts(x).failed,
                        !.finishedAt = taken[x]]
  /\ Settle(x, "completing", "ended")
  /\ UNCHANGED <<present, result, troubles>>

\* A step rejects: its row is gone, or the database fails.
StepRejects(x, step) ==
  /\ step \in promises[x]
  /\ \/ /\ IF step = "testing" THEN CannotGoOn(x) ELSE ~RunExists
        /\ UNCHANGED troubles
     \/ Trouble("failure")
  /\ Settle(x, step, OnFailure(step))
  /\ UNCHANGED rows

-----------------------------------------------------------------------------
(* Deletions and the end of the process *)

\* Deleting a run or a test case deletes its results with it.
DeleteTestRun ==
  /\ RunExists
  /\ Trouble("removed")
  /\ run' = [run EXCEPT !.status = "deleted"]
  /\ result' = [x \in Executions |-> [c \in Cases |-> "none"]]
  /\ UNCHANGED <<present, stage, promises, tests, times>>

DeleteTestCase(c) ==
  /\ c \in present
  /\ Trouble("removed")
  /\ present' = present \ {c}
  /\ result' = [x \in Executions |-> [result[x] EXCEPT ![c] = "none"]]
  /\ UNCHANGED <<run, stage, promises, tests, times>>

Crash ==
  /\ ~Quiet
  /\ Trouble("crash")
  /\ stage' = [x \in Executions |->
                 IF stage[x] = "idle" THEN "idle" ELSE "ended"]
  /\ promises' = [x \in Executions |-> {}]
  /\ todo' = [x \in Executions |-> {}]
  /\ current' = [x \in Executions |-> "none"]
  /\ count' = [x \in Executions |-> [passed |-> 0, failed |-> 0]]
  /\ taken' = [x \in Executions |-> 0]
  /\ UNCHANGED <<rows, clock>>

-----------------------------------------------------------------------------
Saga(x) ==
  \/ ExecuteTestRun(x)
  \/ LoadData(x) \/ LoadFails(x)
  \/ StepTimesOut(x)
  \/ Revert(x)

Step(x) ==
  \/ StartTestRun(x)
  \/ \E c \in Cases : CreateResult(x, c)
  \/ RunTestCase(x)
  \/ UpdateFails(x)
  \/ EndTests(x)
  \/ CompleteTestRun(x)
  \/ \E step \in Writing : StepRejects(x, step)

Next ==
  \/ \E x \in Executions : Saga(x) \/ Step(x)
  \/ DeleteTestRun
  \/ \E c \in Cases : DeleteTestCase(c)
  \/ Crash

Spec == Init /\ [][Next]_vars

\* The timer of each step fires, and the compensation's update returns.
\* Nothing is assumed of the requests that test cases make: fetch has no
\* timeout, and the runners do not use theirs.
Fairness ==
  \A x \in Executions : WF_vars(StepTimesOut(x) \/ Revert(x))

FairSpec == Spec /\ Fairness

-----------------------------------------------------------------------------
(* Properties *)

Counters == 0..Cardinality(Cases)

TypeOK ==
  /\ run \in [status : RunStatus, passed : Counters, failed : Counters,
              startedAt : 0..clock, finishedAt : 0..clock]
  /\ present \subseteq Cases
  /\ result \in [Executions -> [Cases -> ResultStatus]]
  /\ stage \in [Executions -> Stages]
  /\ promises \in [Executions -> SUBSET Writing]
  /\ todo \in [Executions -> SUBSET Cases]
  /\ current \in [Executions -> Cases \cup {"none"}]
  /\ count \in [Executions -> [passed : Counters, failed : Counters]]
  /\ clock \in Nat /\ taken \in [Executions -> 0..clock]
  /\ troubles \subseteq Environment

\* Whoever finds a verdict on a run finds the counters that belong to it and
\* both times, whichever executions overlap, time out or break off in between
\* (two updates that each write status and times).  Each update writes the time
\* at which its step started, so that the duration is positive as long as no
\* execution begins while an earlier one, or a step of it that timed out, is
\* still at work.
VerdictIsConsistent ==
  run.status \in Verdicts =>
    /\ run.passed + run.failed > 0
    /\ run.status = "PASSED" <=> run.failed = 0
    /\ run.status = "FAILED" <=> run.passed = 0
    /\ run.startedAt # 0 /\ run.finishedAt # 0
    /\ "overlap" \notin troubles => run.startedAt < run.finishedAt

ResultsOf(x, status) == Cardinality({c \in Cases : result[x][c] = status})

\* The counters of a run are those of one execution and count its result rows
\* exactly, although the rows of all its executions, unfinished ones among
\* them, share the run; only deleting the rows takes them apart.
SummaryOfOneExecution ==
  run.passed + run.failed > 0 /\ "removed" \notin troubles =>
    \E x \in Executions :
      /\ run.passed = ResultsOf(x, "PASSED")
      /\ run.failed = ResultsOf(x, "FAILED")

\* Once nothing executes any more, neither the run nor one of its results
\* says RUNNING, even if executions overlapped or the run or its test cases
\* were deleted under them, unless a step timed out, the database failed or
\* the process stopped (nothing resumes or sweeps what they left).
NothingLeftRunning ==
  Quiet /\ troubles \cap {"timeout", "failure", "crash"} = {} =>
    /\ run.status # "RUNNING"
    /\ \A x \in Executions, c \in Cases : result[x][c] # "RUNNING"

\* What a run says of itself: its verdict agrees with its counters, these with
\* the results of one execution, and it is RUNNING only while something runs.
RunIsTruthful == VerdictIsConsistent /\ SummaryOfOneExecution /\ NothingLeftRunning

\* A verdict is only ever replaced by way of RUNNING: an execution that fails
\* before it set the run RUNNING leaves the run as it was, unless an earlier
\* one still runs beside it.
VerdictStands ==
  [][ troubles' \cap {"overlap", "timeout"} = {} =>
        (run.status \in Verdicts =>
           run' = run \/ run'.status \in {"RUNNING", "deleted"}) ]_vars

\* Every call of executeTestRun is answered, even if its test cases hang.
ExecutionsEnd ==
  \A x \in Executions : (stage[x] # "idle") ~> (stage[x] = "ended")

=============================================================================
