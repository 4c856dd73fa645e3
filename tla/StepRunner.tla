----------------------------- MODULE StepRunner -----------------------------
(***************************************************************************)
(* How one test case is carried out                                        *)
(* (plugins/ai-agent-testing/src/infrastructure/runner: api-runner.ts and  *)
(* web-runner.ts): step after step, until one throws.                      *)
(*                                                                         *)
(* The API runner keeps the last response for the assertions that follow.  *)
(* The web runner is a simulation, whose steps only wait and never throw,  *)
(* assertions about the page among them.  A step of a type that its runner *)
(* does not know passes with no more than a warning.  Neither looks at the *)
(* timeout of its context: a step that waits for a response that does not  *)
(* come waits for good.                                                    *)
(*                                                                         *)
(* The server under test is external and may answer anything, and so is    *)
(* the page: an assertion about it says whether it would hold.             *)
(***************************************************************************)
EXTENDS Integers, Sequences

CONSTANTS
  MaxSteps,   \* bound: the steps of a test case
  Statuses,   \* the HTTP statuses a server answers with
  Bodies      \* the values at the path that assertions look at

\* null, and undefined where the path leads nowhere.
Nullish == {"null", "undefined"}
Operators == {"equals", "contains", "exists", "notNull", "unknown"}

ASSUME MaxStepsAssumption == MaxSteps \in Nat
ASSUME BodiesAssumption == Nullish \subseteq Bodies

VARIABLES
  steps,      \* the test case
  kind,       \* its type, which chooses the runner
  last,       \* lastResponse
  results,    \* stepResults
  verdict,    \* the status of the result, or "running"
  heard       \* history: the response each step had before it

runnerVars == <<steps, kind, last, results, verdict, heard>>

NoResponse == [status |-> "none", body |-> "none"]
Response == [status : Statuses, body : Bodies]

TestStep ==
  [type : {"HTTP_REQUEST"}]
  \cup [type : {"ASSERT_STATUS"}, expected : Statuses]
  \cup [type : {"ASSERT_RESPONSE"}, operator : Operators, expected : Bodies]
  \cup [type : {"ASSERT_PAGE"}, met : BOOLEAN]  \* ASSERT_TEXT, ASSERT_ELEMENT, ASSERT_URL
  \cup [type : {"ASSERT_NOTHING", "OTHER"}]  \* no assertion in its options; not an assertion

RunnerInit ==
  /\ \E n \in 0..MaxSteps : steps \in [1..n -> TestStep]
  /\ kind \in {"API", "WEB"}
  /\ last = NoResponse
  /\ results = <<>> /\ heard = <<>>
  /\ verdict = "running"

Current == steps[Len(results) + 1]
MoreSteps == verdict = "running" /\ Len(results) < Len(steps)

\* The types of steps that a runner may throw at: none, for the one that simulates.
Evaluated ==
  IF kind = "API" THEN {"HTTP_REQUEST", "ASSERT_STATUS", "ASSERT_RESPONSE", "ASSERT_NOTHING"} ELSE {}
AtStep(type) == MoreSteps /\ Current.type = type /\ type \in Evaluated

Pass(response) ==
  /\ results' = Append(results, "PASSED")
  /\ heard' = Append(heard, response)
  /\ UNCHANGED <<steps, kind, verdict>>

\* A step that throws is the last one; a runner that went on would overlook it.
GoOn(v) == "running"
FailFast(v) == v
Fail ==
  /\ results' = Append(results, "FAILED")
  /\ heard' = Append(heard, last)
  /\ verdict' = FailFast("FAILED")
  /\ UNCHANGED <<steps, kind, last>>

\* The request may be refused, and the response replaces the one before.
HttpRequest ==
  /\ AtStep("HTTP_REQUEST")
  /\ \/ \E response \in Response : last' = response /\ Pass(response)
     \/ Fail

Includes(actual, expected) ==
  actual = expected \/ <<actual, expected>> = <<"abc", "b">>
Holds(operator, actual, expected) ==
  CASE operator = "equals" -> actual = expected
    [] operator = "contains" -> Includes(actual, expected)
    [] operator = "exists" -> actual # "undefined"
    [] operator = "notNull" -> actual \notin Nullish
    [] operator = "unknown" -> FALSE

CheckThat(passed) ==
  IF last # NoResponse /\ passed THEN Pass(last) /\ UNCHANGED last ELSE Fail

AssertStatus == AtStep("ASSERT_STATUS") /\ CheckThat(last.status = Current.expected)
AssertResponse ==
  /\ AtStep("ASSERT_RESPONSE")
  /\ CheckThat(Holds(Current.operator, last.body, Current.expected))
AssertNothing == AtStep("ASSERT_NOTHING") /\ Fail

\* All other steps pass, whatever they say.
SkipStep ==
  /\ MoreSteps /\ Current.type \notin Evaluated
  /\ Pass(last) /\ UNCHANGED last

Finish ==
  /\ verdict = "running" /\ Len(results) = Len(steps)
  /\ verdict' = "PASSED"
  /\ UNCHANGED <<steps, kind, last, results, heard>>

RunnerNext ==
  \/ HttpRequest \/ AssertStatus \/ AssertResponse \/ AssertNothing \/ SkipStep \/ Finish

RunnerSpec == RunnerInit /\ [][RunnerNext]_runnerVars

-----------------------------------------------------------------------------
(* Properties *)

\* Whether step i was right in what it heard.
Right(i) ==
  CASE steps[i].type = "ASSERT_STATUS" -> heard[i].status = steps[i].expected
    [] steps[i].type = "ASSERT_RESPONSE" -> Holds(steps[i].operator, heard[i].body, steps[i].expected)
    [] steps[i].type = "ASSERT_NOTHING" -> FALSE
    [] steps[i].type = "ASSERT_PAGE" -> steps[i].met
    [] OTHER -> TRUE

\* PASSED means that every step was taken, and of an API test that every assertion
\* about a response held of the response to the last request before it, of which
\* there was one; FAILED that the first step that could not be taken, or did not
\* hold, was the last one.  Only API tests fail, and only at what their runner
\* evaluates: of all other steps PASSED says nothing.
VerdictIsEarned ==
  /\ verdict = "PASSED" =>
       \A i \in DOMAIN steps :
         /\ i \in DOMAIN results
         /\ steps[i].type \in Evaluated => Right(i)
         /\ steps[i].type \in Evaluated \cap {"ASSERT_STATUS", "ASSERT_RESPONSE"} =>
              \E j \in 1..(i - 1) :
                /\ steps[j].type = "HTTP_REQUEST" /\ heard[j] = heard[i]
                /\ \A k \in (j + 1)..(i - 1) : steps[k].type # "HTTP_REQUEST"
  /\ verdict = "FAILED" =>
       /\ \A i \in DOMAIN results : results[i] = "FAILED" <=> i = Len(results)
       /\ kind = "API" /\ steps[Len(results)].type \in Evaluated
       /\ steps[Len(results)].type = "HTTP_REQUEST"
            \/ heard[Len(results)] = NoResponse \/ ~Right(Len(results))

=============================================================================
