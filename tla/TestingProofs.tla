---------------------------- MODULE TestingProofs ----------------------------
(***************************************************************************)
(* Proofs about the plugin that generates tests and runs them: verdicts    *)
(* are earned by the checks that gave them (StepRunner); configurations of *)
(* models keep one default per scope, and documents are attended to until  *)
(* they are finished (TestGeneration); and what a run says of itself is    *)
(* what its results say, however executions overlap (TestRuns).            *)
(***************************************************************************)
EXTENDS StepRunner, TestGeneration, TestRuns, SequenceTheorems,
  FiniteSetTheorems, TLAPS

-----------------------------------------------------------------------------
(* How one test case is carried out (StepRunner) *)

Asserting == {"ASSERT_STATUS", "ASSERT_RESPONSE"}

RunnerTypes ==
  /\ steps \in Seq(TestStep)
  /\ last \in Response \cup {NoResponse}
  /\ results \in Seq({"PASSED", "FAILED"})
  /\ heard \in Seq(Response \cup {NoResponse})
  /\ Len(heard) = Len(results) /\ Len(results) <= Len(steps)
  /\ verdict \in {"running", "PASSED", "FAILED"}
  /\ kind \in {"API", "WEB"}
  /\ kind = "WEB" => last = NoResponse

\* Step j asked for the response, and no step from there up to k asked again.
AskedLast(j, k, response) ==
  /\ steps[j].type = "HTTP_REQUEST" /\ heard[j] = response
  /\ \A i \in (j + 1)..k : steps[i].type # "HTTP_REQUEST"

\* Why a step passed.
PassedRightly(i) ==
  /\ steps[i].type \in Evaluated => Right(i)
  /\ steps[i].type \in Evaluated \cap Asserting =>
       \E j \in 1..(i - 1) : AskedLast(j, i - 1, heard[i])

RunnerInv ==
  /\ RunnerTypes
  /\ \A i \in 1..Len(results) : results[i] = "PASSED" => PassedRightly(i)
  /\ verdict = "running" =>
       /\ \A i \in 1..Len(results) : results[i] = "PASSED"
       /\ last # NoResponse =>
            \E j \in 1..Len(results) : AskedLast(j, Len(results), last)
  /\ verdict = "PASSED" =>
       /\ Len(results) = Len(steps)
       /\ \A i \in 1..Len(results) : results[i] = "PASSED"
  /\ verdict = "FAILED" =>
       /\ Len(results) > 0
       /\ \A i \in 1..Len(results) : results[i] = "FAILED" <=> i = Len(results)
       /\ kind = "API" /\ steps[Len(results)].type \in Evaluated
       /\ \/ steps[Len(results)].type = "HTTP_REQUEST"
          \/ heard[Len(results)] = NoResponse
          \/ ~Right(Len(results))

LEMMA RunnerInitially == RunnerInit => RunnerInv
<1> SUFFICES ASSUME RunnerInit PROVE RunnerInv
  OBVIOUS
<1>1. PICK n \in 0..MaxSteps : steps \in [1..n -> TestStep]
  BY DEF RunnerInit
<1>2. n \in Nat
  BY <1>1, MaxStepsAssumption
<1>3. steps \in Seq(TestStep) /\ Len(steps) = n
  BY <1>1, <1>2, LenProperties, SeqDef
<1> QED
  BY <1>2, <1>3 DEF RunnerInit, RunnerInv, RunnerTypes

\* What a step that was taken adds to the results leaves the ones before alone.
LEMMA StepTaken ==
  ASSUME RunnerInv, verdict = "running", Len(results) < Len(steps),
         steps' = steps, kind' = kind,
         NEW n, n = Len(results) + 1,
         NEW response \in Response \cup {NoResponse}, heard' = Append(heard, response),
         NEW r \in {"PASSED", "FAILED"}, results' = Append(results, r)
  PROVE  /\ n \in Nat /\ Len(results') = n /\ Len(heard') = n /\ n <= Len(steps')
         /\ results' \in Seq({"PASSED", "FAILED"})
         /\ heard' \in Seq(Response \cup {NoResponse})
         /\ heard'[n] = response /\ results'[n] = r
         /\ \A i \in 1..Len(results) :
              /\ heard'[i] = heard[i] /\ results'[i] = results[i] /\ results'[i] = "PASSED"
              /\ PassedRightly(i)'
<1>1. /\ n \in Nat /\ Len(results') = n /\ Len(heard') = n /\ n <= Len(steps')
      /\ results' \in Seq({"PASSED", "FAILED"})
      /\ heard' \in Seq(Response \cup {NoResponse})
      /\ heard'[n] = response /\ results'[n] = r
      /\ \A i \in 1..Len(results) : heard'[i] = heard[i] /\ results'[i] = results[i]
  BY AppendProperties, LenProperties DEF RunnerInv, RunnerTypes
<1>2. ASSUME NEW i \in 1..Len(results) PROVE results[i] = "PASSED" /\ PassedRightly(i)'
  <2>1. results[i] = "PASSED" /\ PassedRightly(i)
    BY DEF RunnerInv
  <2>2. (steps[i].type \in Evaluated => Right(i))'
    BY <1>1, <2>1 DEF PassedRightly, Right, Evaluated
  <2>3. ASSUME (steps[i].type \in Evaluated \cap Asserting)'
        PROVE  \E j \in 1..(i - 1) : AskedLast(j, i - 1, heard[i])'
    <3>1. PICK j \in 1..(i - 1) : AskedLast(j, i - 1, heard[i])
      BY <2>1, <2>3 DEF PassedRightly, Evaluated
    <3>2. AskedLast(j, i - 1, heard[i])'
      BY <1>1, <3>1 DEF AskedLast
    <3> QED
      BY <3>2
  <2> QED
    BY <2>1, <2>2, <2>3 DEF PassedRightly
<1> QED
  BY <1>1, <1>2

\* A step passes rightly when it hears the last response and is right about it.
LEMMA PassHolds ==
  ASSUME RunnerInv, verdict = "running", Len(results) < Len(steps),
         NEW n, n = Len(results) + 1,
         NEW response \in Response \cup {NoResponse}, Pass(response),
         last' \in Response \cup {NoResponse},
         Current.type \in Evaluated => Right(n)',
         \/ Current.type = "HTTP_REQUEST" /\ kind = "API" /\ last' = response
         \/ /\ last' = last /\ response = last
            /\ Current.type = "HTTP_REQUEST" => kind = "WEB"
            /\ Current.type \in Evaluated \cap Asserting => last # NoResponse
  PROVE  RunnerInv'
<1>1. /\ n \in Nat /\ Len(results') = n /\ Len(heard') = n /\ n <= Len(steps')
      /\ results' \in Seq({"PASSED", "FAILED"})
      /\ heard' \in Seq(Response \cup {NoResponse})
      /\ heard'[n] = response /\ results'[n] = "PASSED"
      /\ \A i \in 1..Len(results) :
           /\ heard'[i] = heard[i] /\ results'[i] = results[i] /\ results'[i] = "PASSED"
           /\ PassedRightly(i)'
  BY StepTaken DEF Pass
<1>2. RunnerTypes' /\ kind' = kind
  BY <1>1 DEF RunnerInv, RunnerTypes, Pass
<1>3. last' # NoResponse => \E j \in 1..n : AskedLast(j, n, last)'
  <2> SUFFICES ASSUME last' # NoResponse PROVE \E j \in 1..n : AskedLast(j, n, last)'
    OBVIOUS
  <2>1. CASE Current.type = "HTTP_REQUEST" /\ kind = "API" /\ last' = response
    <3>1. AskedLast(n, n, last)'
      BY <1>1, <2>1 DEF AskedLast, Current, Pass
    <3> QED
      BY <1>1, <3>1
  <2>2. CASE /\ last' = last
             /\ Current.type = "HTTP_REQUEST" => kind = "WEB"
    <3>1. PICK j \in 1..Len(results) : AskedLast(j, Len(results), last)
      BY <2>2 DEF RunnerInv
    <3>2. Current.type # "HTTP_REQUEST"
      BY <2>2 DEF RunnerInv, RunnerTypes
    <3>3. AskedLast(j, n, last)'
      BY <1>1, <2>2, <3>1, <3>2 DEF AskedLast, Current, Pass
    <3> QED
      BY <1>1, <3>3
  <2> QED
    BY <2>1, <2>2
<1>4. PassedRightly(n)'
  <2>1. ASSUME (steps[n].type \in Evaluated \cap Asserting)'
        PROVE  \E j \in 1..(n - 1) : AskedLast(j, n - 1, heard[n])'
    <3>1. last # NoResponse /\ response = last
      BY <2>1 DEF Current, Asserting, Evaluated, Pass
    <3>2. PICK j \in 1..Len(results) : AskedLast(j, Len(results), last)
      BY <3>1 DEF RunnerInv
    <3>3. AskedLast(j, n - 1, heard[n])'
      BY <1>1, <3>1, <3>2 DEF AskedLast, Pass
    <3> QED
      BY <1>1, <3>3
  <2> QED
    BY <1>1, <2>1 DEF PassedRightly, Pass, Current, Evaluated
<1>5. \A i \in 1..n : results'[i] = "PASSED" /\ PassedRightly(i)'
  BY <1>1, <1>4
<1>6. verdict' = "running"
  BY DEF Pass
<1> QED
  BY <1>1, <1>2, <1>3, <1>5, <1>6 DEF RunnerInv

\* The step that fails is the last, for a reason.
LEMMA FailHolds ==
  ASSUME RunnerInv, verdict = "running", Len(results) < Len(steps), Fail,
         NEW n, n = Len(results) + 1,
         Current.type \in Evaluated,
         \/ Current.type = "HTTP_REQUEST"
         \/ last = NoResponse
         \/ ~Right(n)'
  PROVE  RunnerInv'
<1>0. last \in Response \cup {NoResponse}
  BY DEF RunnerInv, RunnerTypes
<1>1. /\ n \in Nat /\ Len(results') = n /\ Len(heard') = n /\ n <= Len(steps')
      /\ results' \in Seq({"PASSED", "FAILED"})
      /\ heard' \in Seq(Response \cup {NoResponse})
      /\ heard'[n] = last /\ results'[n] = "FAILED"
      /\ \A i \in 1..Len(results) :
           /\ heard'[i] = heard[i] /\ results'[i] = results[i] /\ results'[i] = "PASSED"
           /\ PassedRightly(i)'
  BY <1>0, StepTaken DEF Fail
<1>2. verdict' = "FAILED" /\ RunnerTypes' /\ kind' = kind
  BY <1>1 DEF RunnerInv, RunnerTypes, Fail, FailFast
<1>3. \A i \in 1..n : results'[i] = "FAILED" <=> i = n
  BY <1>1
<1>4. \A i \in 1..n : results'[i] = "PASSED" => PassedRightly(i)'
  BY <1>1
<1>5. \/ (steps[n].type = "HTTP_REQUEST")'
      \/ heard'[n] = NoResponse
      \/ ~Right(n)'
  BY <1>1 DEF Current, Fail
<1>6. kind' = "API" /\ (steps[n].type \in Evaluated)'
  BY <1>1, <1>2 DEF Current, Fail, Evaluated
<1> QED
  BY <1>1, <1>2, <1>3, <1>4, <1>5, <1>6 DEF RunnerInv

LEMMA CheckHolds ==
  ASSUME RunnerInv, verdict = "running", Len(results) < Len(steps),
         NEW n, n = Len(results) + 1,
         NEW passed \in BOOLEAN, CheckThat(passed),
         Current.type \in Evaluated \cap Asserting,
         heard'[n] = last => (Right(n)' <=> passed)
  PROVE  RunnerInv'
<1>0. last \in Response \cup {NoResponse}
  BY DEF RunnerInv, RunnerTypes
<1>1. heard'[n] = last
  BY <1>0, StepTaken DEF CheckThat, Pass, Fail
<1>2. CASE last # NoResponse /\ passed
  <2>1. Pass(last) /\ last' = last /\ Right(n)'
    BY <1>1, <1>2 DEF CheckThat
  <2>2. Current.type # "HTTP_REQUEST"
    BY DEF Asserting
  <2> QED
    BY <1>0, <1>2, <2>1, <2>2, PassHolds
<1>3. CASE ~(last # NoResponse /\ passed)
  <2>1. Fail
    BY <1>3 DEF CheckThat
  <2> QED
    BY <1>1, <1>3, <2>1, FailHolds
<1> QED
  BY <1>2, <1>3

LEMMA RunnerSteps == RunnerInv /\ [RunnerNext]_runnerVars => RunnerInv'
<1> SUFFICES ASSUME RunnerInv, [RunnerNext]_runnerVars PROVE RunnerInv'
  OBVIOUS
<1>0. last \in Response \cup {NoResponse} /\ Len(results) \in Nat
  BY LenProperties DEF RunnerInv, RunnerTypes
<1>n. PICK n : n = Len(results) + 1
  OBVIOUS
<1>1. CASE HttpRequest
  <2>1. CASE \E response \in Response : last' = response /\ Pass(response)
    <3>1. PICK response \in Response : last' = response /\ Pass(response)
      BY <2>1
    <3>2. Right(n)' /\ kind = "API"
      BY <1>n, <1>1, <3>1 DEF HttpRequest, AtStep, MoreSteps, Current, Evaluated, Pass, Right
    <3> QED
      BY <1>n, <1>1, <3>1, <3>2, PassHolds DEF HttpRequest, AtStep, MoreSteps
  <2>2. CASE Fail
    BY <1>n, <1>1, <2>2, FailHolds DEF HttpRequest, AtStep, MoreSteps
  <2> QED
    BY <1>n, <1>1, <2>1, <2>2 DEF HttpRequest
<1>2. CASE AssertStatus
  <2> DEFINE passed == last.status = Current.expected
  <2>1. steps' = steps
    BY <1>2 DEF AssertStatus, CheckThat, Pass, Fail
  <2>2. heard'[n] = last => (Right(n)' <=> passed)
    BY <1>n, <1>2, <2>1 DEF AssertStatus, AtStep, Right, Current
  <2>3. /\ verdict = "running" /\ Len(results) < Len(steps)
        /\ CheckThat(passed) /\ passed \in BOOLEAN
        /\ Current.type = "ASSERT_STATUS" /\ Current.type \in Evaluated
    BY <1>2 DEF AssertStatus, AtStep, MoreSteps
  <2> HIDE DEF passed
  <2> QED
    BY <1>n, <2>2, <2>3, CheckHolds DEF Asserting
<1>3. CASE AssertResponse
  <2> DEFINE passed == Holds(Current.operator, last.body, Current.expected)
  <2>1. steps' = steps
    BY <1>3 DEF AssertResponse, CheckThat, Pass, Fail
  <2>2. /\ verdict = "running" /\ Len(results) < Len(steps)
        /\ CheckThat(passed)
        /\ Current.type = "ASSERT_RESPONSE" /\ Current.type \in Evaluated
    BY <1>3 DEF AssertResponse, AtStep, MoreSteps
  <2>3. heard'[n] = last => (Right(n)' <=> passed)
    BY <1>n, <2>1, <2>2 DEF Right, Current
  <2>4. Current.operator \in Operators
    BY <1>0, <2>2, ElementOfSeq DEF RunnerInv, RunnerTypes, TestStep, Current
  <2>5. passed \in BOOLEAN
    BY <2>4 DEF Holds, Includes, Operators
  <2> HIDE DEF passed
  <2> QED
    BY <1>n, <2>2, <2>3, <2>5, CheckHolds DEF Asserting
<1>4. CASE AssertNothing
  <2>1. ~Right(n)'
    BY <1>n, <1>4 DEF AssertNothing, AtStep, MoreSteps, Current, Fail, Right
  <2> QED
    BY <1>n, <1>4, <2>1, FailHolds DEF AssertNothing, AtStep, MoreSteps
<1>5. CASE SkipStep
  <2>1. Current.type = "HTTP_REQUEST" => kind = "WEB"
    BY <1>0, <1>5 DEF SkipStep, Evaluated, RunnerInv, RunnerTypes
  <2> QED
    BY <1>n, <1>0, <1>5, <2>1, PassHolds DEF SkipStep, MoreSteps
<1>6. CASE Finish
  BY <1>6 DEF Finish, RunnerInv, RunnerTypes, PassedRightly, AskedLast, Right, Evaluated
<1>7. CASE UNCHANGED runnerVars
  BY <1>7 DEF runnerVars, RunnerInv, RunnerTypes, PassedRightly, AskedLast, Right, Evaluated
<1> QED
  BY <1>1, <1>2, <1>3, <1>4, <1>5, <1>6, <1>7 DEF RunnerNext

\* A test case passes only when each assertion that its runner evaluates held of the
\* response to the last request before it, and fails only at a step that had to fail;
\* a web test never does.
THEOREM VerdictsAreEarned == RunnerSpec => []VerdictIsEarned
<1>1. RunnerSpec => []RunnerInv
  BY RunnerInitially, RunnerSteps, PTL DEF RunnerSpec
<1>2. RunnerInv => VerdictIsEarned
  <2> SUFFICES ASSUME RunnerInv PROVE VerdictIsEarned
    OBVIOUS
  <2>0. /\ DOMAIN steps = 1..Len(steps) /\ DOMAIN results = 1..Len(results)
        /\ Len(results) \in Nat
    BY LenProperties DEF RunnerInv, RunnerTypes
  <2>1. verdict = "PASSED" => \A i \in 1..Len(results) : results[i] = "PASSED" /\ PassedRightly(i)
    BY DEF RunnerInv
  <2> QED
    BY <2>0, <2>1 DEF RunnerInv, PassedRightly, AskedLast, Asserting, VerdictIsEarned
<1> QED
  BY <1>1, <1>2, PTL

-----------------------------------------------------------------------------
(* Model configurations, generation and documents (TestGeneration) *)

ItemSet == {Items[i] : i \in DOMAIN Items}
Scopes == Projects \cup {Global}
Setting == {"create", "setAsDefault"}
GenerateOps == {"generateTestCase", "securityTests", "fromDocument"}
Generating == Resolving \cup {"completing", "unresolved"}

RequestRecords ==
  [op : {None, "update", "delete", "deleteProject"} \cup Setting \cup GenerateOps,
   pc : {"idle", "done", "refused", "reading", "unsetting", "inserting", "setting"}
          \cup Generating,
   config : Configs \cup {None}, project : Scopes \cup {None}, default : BOOLEAN,
   items : Seq(ItemSet), cases : Seq([item : ItemSet, model : Configs \cup {None}]),
   answer : Configs \cup {None}, ever : SUBSET Configs, held : SUBSET Configs]

TablesInv ==
  /\ configs \subseteq Configs /\ defaults \subseteq configs /\ active \subseteq configs
  /\ scope \in [Configs -> Scopes]

\* What a request that generates is at; s, d and a are the tables.
GenerationHolds(req, s, d, a) ==
  /\ req.pc \in Generating =>
       /\ req.op \in GenerateOps /\ req.items # <<>> /\ req.project # Global
       /\ req.config = None \/ req.project = None
       /\ req.pc # "completing" \/ req.answer \in req.ever
  /\ req.pc = "byId" => req.config # None
  /\ req.pc \in {"byProject", "byGlobal"} => req.config = None
  /\ req.pc \in Resolving =>
       Eligible(req, s, d, a) \subseteq req.ever /\ req.held \subseteq Eligible(req, s, d, a)
  /\ req.pc = "byGlobal" => \A c \in req.held : s[c] # req.project
  /\ req.pc = "completing" =>
       \A c \in req.held : s[c] = req.project => s[req.answer] = req.project
  /\ req.pc = "unresolved" => req.held = {}

\* What one that sets a default, and was not disturbed, is at.
DefaultsIn(x, s, d) == {c \in d : s[c] = x}
AloneHolds(req, s, d) ==
  /\ req.op \in Setting /\ req.pc # "idle"
  /\ req.pc \in {"unsetting", "inserting", "setting", "done"} =>
       /\ req.config \in Configs /\ s[req.config] = req.project
       /\ req.op = "create" => req.default
  /\ req.pc \in {"inserting", "setting"} => DefaultsIn(req.project, s, d) = {}
  /\ req.pc = "done" => DefaultsIn(req.project, s, d) = {req.config}

\* A request that sets a default names a configuration.
Named(req) ==
  /\ req.pc = "idle" => req.op = None
  /\ req.op \in Setting => req.config \in Configs

GenerationInv ==
  /\ TablesInv
  /\ request \in [Requests -> RequestRecords]
  /\ \A r \in Requests : GenerationHolds(request[r], scope, defaults, active)
  /\ \A r \in Requests : Named(request[r])
  /\ alone \subseteq Requests
  /\ \A r \in alone : AloneHolds(request[r], scope, defaults)

DocumentInv ==
  /\ document \in [status : {None, "PENDING", "PROCESSING", "COMPLETED", "FAILED"},
                   pc : {"none", "marking", "parsing", "failing"}]
  /\ lost \in BOOLEAN
  /\ DocumentsAttended

-----------------------------------------------------------------------------
(* Documents *)

LEMMA DocumentInitially == GenerationInit => DocumentInv
BY DEF GenerationInit, DocumentInv, DocumentsAttended, None

LEMMA DocumentNextInv == DocumentInv /\ [GenerationNext]_generationVars => DocumentInv'
<1>. SUFFICES ASSUME DocumentInv, [GenerationNext]_generationVars PROVE DocumentInv'
  OBVIOUS
<1>1. CASE Documents
  <2>. USE DEF DocumentInv, DocumentsAttended, Process, None
  <2>1. CASE UploadDocument \/ MarkProcessing
    BY <2>1 DEF UploadDocument, Attended, MarkProcessing
  <2>2. CASE CompleteDocument \/ CompletionFails
    BY <2>2 DEF CompleteDocument, CompletionFails
  <2>3. CASE FailDocument
    BY <2>3 DEF FailDocument
  <2>4. CASE StopProcessing
    BY <2>4 DEF StopProcessing
  <2>5. QED
    BY <1>1, <2>1, <2>2, <2>3, <2>4 DEF Documents
<1>2. ASSUME NEW r \in Requests, ConfigRequest(r) \/ Generation(r) \/ StopRequest(r)
      PROVE  UNCHANGED <<document, lost>>
  <2>1. CASE ConfigRequest(r)
    BY <2>1 DEF ConfigRequest, BeginCreate, BeginSetAsDefault, Begin, UpdateActive, Write,
       DeleteConfig, DeleteProject, ReadConfig, Go, UnsetDefaultForScope, InsertConfig,
       SetDefault
  <2>2. CASE Generation(r)
    BY <2>2 DEF Generation, GenerateTestCase, GenerateSecurityTests, GenerateFromDocument,
       BeginGeneration, Begin, FindModel, Unresolved, Complete
  <2>3. CASE StopRequest(r)
    BY <2>3 DEF StopRequest, Go
  <2>4. QED
    BY <1>2, <2>1, <2>2, <2>3
<1>3. CASE UNCHANGED generationVars
  BY <1>3 DEF generationVars, DocumentInv, DocumentsAttended
<1>4. QED
  BY <1>1, <1>2, <1>3 DEF GenerationNext, DocumentInv, DocumentsAttended

\* A document that was uploaded is finished or worked on, whichever steps fail,
\* unless its processing was stopped.
THEOREM DocumentsFinished == GenerationSpec => []DocumentsAttended
<1>1. DocumentInv => DocumentsAttended
  BY DEF DocumentInv
<1>2. QED
  BY DocumentInitially, DocumentNextInv, <1>1, PTL DEF GenerationSpec

-----------------------------------------------------------------------------
(* Requests *)

LEMMA NoRequestType ==
  /\ NoRequest \in RequestRecords
  /\ NoRequest.pc = "idle" /\ NoRequest.op = None /\ NoRequest.config = None
  /\ NoRequest.project = None /\ NoRequest.default = FALSE
<1>1. << >> \in Seq(ItemSet) /\ << >> \in Seq([item : ItemSet, model : Configs \cup {None}])
  BY EmptySeq
<1>2. QED
  BY <1>1 DEF NoRequest, RequestRecords

LEMMA Eligibles ==
  ASSUME NEW req \in RequestRecords, NEW s \in [Configs -> Scopes],
         NEW d \in SUBSET Configs, NEW a \in SUBSET Configs
  PROVE  Eligible(req, s, d, a) \in SUBSET Configs
BY DEF Eligible, RequestRecords

\* A statement that changes the tables leaves a request beside it in order.
LEMMA WatchHolds ==
  ASSUME NEW req \in RequestRecords, NEW p2 \in SUBSET Configs,
         NEW s \in [Configs -> Scopes], NEW d, NEW a,
         NEW s2 \in [Configs -> Scopes], NEW d2 \in SUBSET p2, NEW a2 \in SUBSET p2,
         GenerationHolds(req, s, d, a),
         \A c \in Configs : s2[c] = s[c] \/ s2[c] = Global,
         \A c, e \in Configs : s[c] = s[e] => s2[c] = s2[e]
  PROVE  /\ Watch(req, p2, s2, d2, a2) \in RequestRecords
         /\ GenerationHolds(Watch(req, p2, s2, d2, a2), s2, d2, a2)
         /\ Watch(req, p2, s2, d2, a2).pc = req.pc /\ Watch(req, p2, s2, d2, a2).op = req.op
         /\ req.op \in Setting => Watch(req, p2, s2, d2, a2) = req
<1>. DEFINE w == Watch(req, p2, s2, d2, a2)
<1>. DEFINE now == Eligible(req, s2, d2, a2)
<1>0. /\ d2 \cap p2 = d2 /\ a2 \cap p2 = a2
      /\ d2 \in SUBSET Configs /\ a2 \in SUBSET Configs
  OBVIOUS
<1>1. now \in SUBSET Configs
  BY <1>0, Eligibles
<1>2. CASE req.pc \notin Resolving
  <2>1. w = req
    BY <1>2 DEF Watch
  <2>2. req.pc = "completing" =>
          /\ req.answer \in Configs /\ req.held \subseteq Configs
          /\ req.project # Global
    BY DEF GenerationHolds, RequestRecords, Generating
  <2>3. req.pc = "completing" =>
          \A c \in req.held : s2[c] = req.project => s2[req.answer] = req.project
    <3>. SUFFICES ASSUME req.pc = "completing", NEW c \in req.held, s2[c] = req.project
                  PROVE  s2[req.answer] = req.project
      OBVIOUS
    <3>1. c \in Configs /\ req.answer \in Configs /\ s[c] = req.project
      BY <2>2
    <3>2. s[req.answer] = s[c]
      BY <3>1 DEF GenerationHolds
    <3>3. QED
      BY <3>1, <3>2
  <2>4. req.pc \notin {"byId", "byProject", "byGlobal"}
    BY <1>2 DEF Resolving
  <2>5. GenerationHolds(req, s2, d2, a2)
    BY <1>2, <2>3, <2>4 DEF GenerationHolds
  <2>6. QED
    BY <2>1, <2>5
<1>3. CASE req.pc \in Resolving
  <2>1. w = [req EXCEPT !.ever = @ \cup now, !.held = @ \cap now]
    BY <1>0, <1>3 DEF Watch
  <2>. HIDE DEF w
  <2>2. /\ w \in RequestRecords /\ w.pc = req.pc /\ w.op = req.op /\ w.items = req.items
        /\ w.project = req.project /\ w.config = req.config
        /\ w.ever = req.ever \cup now /\ w.held = req.held \cap now
    BY <1>1, <2>1 DEF RequestRecords
  <2>3. Eligible(w, s2, d2, a2) = now
    BY <2>2 DEF Eligible
  <2>. HIDE DEF now
  <2>4. req.pc \in Generating /\ req.pc # "completing" /\ req.pc # "unresolved"
    BY <1>3 DEF Generating, Resolving
  <2>5. req.pc = "byGlobal" => \A c \in w.held : s2[c] # w.project
    <3>. SUFFICES ASSUME req.pc = "byGlobal", NEW c \in w.held, s2[c] = w.project
                  PROVE  FALSE
      OBVIOUS
    <3>1. c \in req.held /\ c \in Configs /\ req.project # Global
      BY <2>2, <2>4 DEF RequestRecords, GenerationHolds
    <3>2. s[c] = req.project
      BY <2>2, <3>1
    <3>3. QED
      BY <3>1, <3>2 DEF GenerationHolds
  <2>6. req.op \notin Setting
    BY <2>4 DEF GenerationHolds, GenerateOps, Setting
  <2>7. GenerationHolds(w, s2, d2, a2)
    BY <2>2, <2>3, <2>4, <2>5 DEF GenerationHolds
  <2>8. QED
    BY <2>2, <2>6, <2>7 DEF w
<1>4. QED
  BY <1>2, <1>3

\* A request that begins to resolve its model.
LEMMA ResolveHolds ==
  ASSUME TablesInv, NEW req \in RequestRecords, req.op \in GenerateOps,
         req.items # <<>>, req.project # Global, req.config = None \/ req.project = None
  PROVE  /\ Resolve(req, defaults) \in RequestRecords
         /\ GenerationHolds(Resolve(req, defaults), scope, defaults, active)
         /\ Resolve(req, defaults).pc \in Resolving /\ Resolve(req, defaults).op = req.op
<1>. DEFINE first == [req EXCEPT !.answer = None,
         !.pc = IF req.config # None THEN "byId"
                ELSE IF req.project # None THEN "byProject" ELSE "byGlobal"]
            now == Eligible(req, scope, defaults, active)
            to == Resolve(req, defaults)
<1>1. to = [first EXCEPT !.ever = now, !.held = now]
  BY DEF Resolve
<1>2. now \in SUBSET Configs
  <2>1. /\ scope \in [Configs -> Scopes]
        /\ defaults \in SUBSET Configs /\ active \in SUBSET Configs
    BY DEF TablesInv
  <2>2. QED
    BY <2>1, Eligibles
<1>3. /\ first \in RequestRecords /\ first.op = req.op /\ first.items = req.items
      /\ first.project = req.project /\ first.config = req.config
      /\ first.pc = IF req.config # None THEN "byId"
                    ELSE IF req.project # None THEN "byProject" ELSE "byGlobal"
  BY DEF RequestRecords, Generating, Resolving
<1>. HIDE DEF first, now, to
<1>4. /\ to \in RequestRecords /\ to.op = req.op /\ to.items = req.items
      /\ to.project = req.project /\ to.config = req.config /\ to.pc = first.pc
      /\ to.ever = now /\ to.held = now
  BY <1>1, <1>2, <1>3 DEF RequestRecords
<1>5. Eligible(to, scope, defaults, active) = now
  BY <1>4 DEF Eligible, now
<1>6. to.pc = "byGlobal" => \A c \in to.held : scope[c] # to.project
  BY <1>2, <1>3, <1>4, NamesAssumption DEF TablesInv, Scopes, None, Global
<1>7. to.pc \in Resolving
  BY <1>3, <1>4 DEF Resolving
<1>8. GenerationHolds(to, scope, defaults, active)
  BY <1>3, <1>4, <1>5, <1>6, <1>7 DEF GenerationHolds, Generating, Resolving
<1>9. QED
  BY <1>4, <1>7, <1>8 DEF to

\* A step that changes one request and no configuration.
LEMMA RequestStep ==
  ASSUME GenerationInv, NEW r \in Requests, NEW to \in RequestRecords,
         UNCHANGED configTables, request' = [request EXCEPT ![r] = to],
         GenerationHolds(to, scope, defaults, active),
         Named(to),
         alone' \subseteq alone \cup {r},
         r \in alone' => AloneHolds(to, scope, defaults)
  PROVE  GenerationInv'
<1>1. /\ request'[r] = to /\ request' \in [Requests -> RequestRecords]
      /\ \A q \in Requests : q # r => request'[q] = request[q]
  BY DEF GenerationInv
<1>2. UNCHANGED <<configs, scope, defaults, active>>
  BY DEF configTables
<1>3. \A q \in Requests : GenerationHolds(request'[q], scope', defaults', active')
  BY <1>1, <1>2 DEF GenerationInv
<1>4. \A q \in alone' : q \in Requests /\ AloneHolds(request'[q], scope', defaults')
  BY <1>1, <1>2 DEF GenerationInv
<1>5. QED
  BY <1>1, <1>2, <1>3, <1>4 DEF GenerationInv, TablesInv

\* One that changes the tables.
LEMMA WriteStep ==
  ASSUME GenerationInv, NEW r \in Requests, NEW to \in RequestRecords,
         NEW p \in SUBSET Configs, NEW s \in [Configs -> Scopes],
         NEW d \in SUBSET p, NEW a \in SUBSET p,
         Write(r, to, p, s, d, a),
         to.pc \notin Generating, Named(to),
         \A c \in Configs : s[c] = scope[c] \/ s[c] = Global,
         \A c, e \in Configs : scope[c] = scope[e] => s[c] = s[e],
         alone' \subseteq alone,
         r \in alone' => AloneHolds(to, s, d),
         \A q \in alone' \ {r} : AloneHolds(request[q], s, d)
  PROVE  GenerationInv'
<1>1. /\ configs' = p /\ scope' = s /\ defaults' = d /\ active' = a
      /\ request' = [q \in Requests |-> IF q = r THEN to ELSE Watch(request[q], p, s, d, a)]
  BY DEF Write
<1>2. TablesInv'
  BY <1>1 DEF TablesInv
<1>3. GenerationHolds(to, s, d, a)
  BY DEF GenerationHolds, Generating, Resolving
<1>4. ASSUME NEW q \in Requests, q # r
      PROVE  /\ request'[q] \in RequestRecords
             /\ GenerationHolds(request'[q], s, d, a)
             /\ request'[q].pc = request[q].pc /\ request'[q].op = request[q].op
             /\ request[q].op \in Setting => request'[q] = request[q]
  <2>1. /\ request[q] \in RequestRecords /\ scope \in [Configs -> Scopes]
        /\ GenerationHolds(request[q], scope, defaults, active)
    BY DEF GenerationInv, TablesInv
  <2>2. request'[q] = Watch(request[q], p, s, d, a)
    BY <1>1, <1>4
  <2>3. QED
    BY <2>1, <2>2, WatchHolds
<1>5. request'[r] = to
  BY <1>1
<1>6. request' \in [Requests -> RequestRecords]
  BY <1>1, <1>4, <1>5
<1>7. \A q \in alone' : AloneHolds(request'[q], s, d)
  BY <1>4, <1>5 DEF GenerationInv, AloneHolds
<1>8. QED
  BY <1>1, <1>2, <1>3, <1>4, <1>5, <1>6, <1>7 DEF GenerationInv, Named

\* One that ends in a refusal.
LEMMA RefuseStep ==
  ASSUME GenerationInv, NEW r \in Requests,
         UNCHANGED <<configTables, alone>>,
         request' = [request EXCEPT ![r].pc = "refused"]
  PROVE  GenerationInv'
<1>. DEFINE to == [request[r] EXCEPT !.pc = "refused"]
<1>1. /\ request[r] \in RequestRecords /\ Named(request[r])
      /\ r \in alone => AloneHolds(request[r], scope, defaults)
  BY DEF GenerationInv
<1>2. request' = [request EXCEPT ![r] = to]
  OBVIOUS
<1>3. /\ to \in RequestRecords /\ to.pc = "refused" /\ to.op = request[r].op
      /\ to.config = request[r].config
  BY <1>1 DEF RequestRecords
<1>. HIDE DEF to
<1>4. GenerationHolds(to, scope, defaults, active)
  BY <1>3 DEF GenerationHolds, Generating, Resolving
<1>5. r \in alone => AloneHolds(to, scope, defaults)
  BY <1>1, <1>3 DEF AloneHolds
<1>6. UNCHANGED configTables /\ alone' \subseteq alone \cup {r} /\ (r \in alone' => r \in alone)
  OBVIOUS
<1>7. Named(to)
  BY <1>1, <1>3 DEF Named
<1>8. QED
  BY <1>2, <1>3, <1>4, <1>5, <1>6, <1>7, RequestStep

-----------------------------------------------------------------------------
(* Configurations *)

\* A request that was idle sets no default, and none that another disturbed.
LEMMA IdleIsNotAlone ==
  ASSUME GenerationInv, NEW r \in Requests, request[r].pc = "idle"
  PROVE  r \notin alone
BY DEF GenerationInv, AloneHolds, Named, None, Setting

LEMMA BeginConfigStep ==
  ASSUME GenerationInv, NEW r \in Requests, NEW c \in Configs,
         (\E default \in BOOLEAN : BeginCreate(r, c, default)) \/ BeginSetAsDefault(r, c)
  PROVE  GenerationInv'
<1>0. scope[c] \in Scopes
  BY DEF GenerationInv, TablesInv
<1>1. ASSUME NEW default \in BOOLEAN, BeginCreate(r, c, default) PROVE GenerationInv'
  <2>. DEFINE to == [NoRequest EXCEPT !.op = "create", !.config = c, !.project = scope[c],
                 !.default = default, !.pc = IF default THEN "unsetting" ELSE "inserting"]
  <2>1. /\ to \in RequestRecords /\ to.op = "create" /\ to.config = c /\ to.project = scope[c]
        /\ to.default = default /\ to.pc = IF default THEN "unsetting" ELSE "inserting"
    BY <1>0, NoRequestType DEF RequestRecords, Setting
  <2>2. Begin(r, to)
    BY <1>1 DEF BeginCreate
  <2>. HIDE DEF to
  <2>3. /\ request[r].pc = "idle" /\ UNCHANGED configTables
        /\ request' = [request EXCEPT ![r] = to]
        /\ alone' \subseteq alone \cup {r}
        /\ r \in alone' => to.pc # "inserting"
    BY <2>2, IdleIsNotAlone DEF Begin
  <2>4. GenerationHolds(to, scope, defaults, active)
    BY <2>1 DEF GenerationHolds, Generating, Resolving
  <2>5. r \in alone' => AloneHolds(to, scope, defaults)
    BY <2>1, <2>3 DEF AloneHolds, Setting
  <2>6. Named(to)
    BY <2>1 DEF Named
  <2>7. QED
    BY <2>1, <2>3, <2>4, <2>5, <2>6, RequestStep
<1>2. CASE BeginSetAsDefault(r, c)
  <2>. DEFINE to == [NoRequest EXCEPT !.op = "setAsDefault", !.config = c, !.pc = "reading"]
  <2>1. /\ to \in RequestRecords /\ to.op = "setAsDefault" /\ to.pc = "reading"
        /\ to.config = c
    BY NoRequestType DEF RequestRecords, Setting
  <2>2. Begin(r, to)
    BY <1>2 DEF BeginSetAsDefault
  <2>. HIDE DEF to
  <2>3. /\ UNCHANGED configTables /\ request' = [request EXCEPT ![r] = to]
        /\ alone' \subseteq alone \cup {r}
    BY <2>2 DEF Begin
  <2>4. GenerationHolds(to, scope, defaults, active)
    BY <2>1 DEF GenerationHolds, Generating, Resolving
  <2>5. AloneHolds(to, scope, defaults)
    BY <2>1 DEF AloneHolds, Setting
  <2>6. Named(to)
    BY <2>1 DEF Named
  <2>7. QED
    BY <2>1, <2>3, <2>4, <2>5, <2>6, RequestStep
<1>3. QED
  BY <1>1, <1>2

LEMMA ReadConfigStep ==
  ASSUME GenerationInv, NEW r \in Requests, ReadConfig(r) PROVE GenerationInv'
<1>1. CASE request[r].config \notin configs
  BY <1>1, RefuseStep DEF ReadConfig, Go
<1>2. CASE request[r].config \in configs
  <2>. DEFINE to == [request[r] EXCEPT !.pc = "unsetting",
                                       !.project = scope[request[r].config]]
  <2>1. /\ request[r] \in RequestRecords /\ request[r].op = "setAsDefault"
        /\ request[r].config \in Configs /\ scope[request[r].config] \in Scopes
    BY <1>2 DEF ReadConfig, At, GenerationInv, TablesInv
  <2>2. /\ to \in RequestRecords /\ to.op = "setAsDefault" /\ to.pc = "unsetting"
        /\ to.config = request[r].config /\ to.project = scope[to.config]
    BY <2>1 DEF RequestRecords
  <2>3. /\ request' = [request EXCEPT ![r] = to]
        /\ UNCHANGED configTables /\ alone' = alone
    BY <1>2, <2>1 DEF ReadConfig
  <2>. HIDE DEF to
  <2>4. GenerationHolds(to, scope, defaults, active)
    BY <2>2 DEF GenerationHolds, Generating, Resolving
  <2>5. AloneHolds(to, scope, defaults)
    BY <2>1, <2>2 DEF AloneHolds, Setting
  <2>6. Named(to)
    BY <2>1, <2>2 DEF Named
  <2>7. QED
    BY <2>2, <2>3, <2>4, <2>5, <2>6, RequestStep
<1>3. QED
  BY <1>1, <1>2

LEMMA UnsetStep ==
  ASSUME GenerationInv, NEW r \in Requests, UnsetDefaultForScope(r) PROVE GenerationInv'
<1>. DEFINE req == request[r]
            to == [req EXCEPT !.pc = IF req.op = "create" THEN "inserting" ELSE "setting"]
            d == defaults \ DefaultsOfScope(req.config, req.project)
<1>1. /\ req \in RequestRecords /\ req.op \in Setting /\ req.pc = "unsetting"
      /\ req.config \in Configs
      /\ configs \in SUBSET Configs /\ defaults \subseteq configs /\ active \in SUBSET configs
      /\ scope \in [Configs -> Scopes]
      /\ r \in alone => AloneHolds(req, scope, defaults)
  BY DEF UnsetDefaultForScope, At, GenerationInv, TablesInv, Setting, Named
<1>2. /\ to \in RequestRecords /\ to.op = req.op /\ to.config = req.config
      /\ to.project = req.project /\ to.default = req.default
      /\ to.pc \in {"inserting", "setting"}
  BY <1>1 DEF RequestRecords
<1>3. Write(r, to, configs, scope, d, active) /\ alone' = alone \cap {r}
  BY DEF UnsetDefaultForScope
<1>4. d \in SUBSET configs /\ DefaultsIn(req.project, scope, d) = {}
  BY <1>1 DEF DefaultsOfScope, DefaultsIn, InScope
<1>. HIDE DEF to, d
<1>5. r \in alone' => AloneHolds(to, scope, d)
  BY <1>1, <1>2, <1>3, <1>4 DEF AloneHolds
<1>6. /\ to.pc \notin Generating /\ Named(to)
      /\ alone' \subseteq alone /\ alone' \ {r} = {}
  BY <1>1, <1>2, <1>3 DEF Generating, Resolving, Named
<1>7. QED
  BY <1>1, <1>2, <1>3, <1>4, <1>5, <1>6, WriteStep

LEMMA InsertStep ==
  ASSUME GenerationInv, NEW r \in Requests, InsertConfig(r) PROVE GenerationInv'
<1>. DEFINE req == request[r]
            to == [req EXCEPT !.pc = "done"]
            d == IF req.default THEN defaults \cup {req.config} ELSE defaults
            p == configs \cup {req.config}
            a == active \cup {req.config}
<1>1. /\ req \in RequestRecords /\ req.op = "create" /\ req.pc = "inserting"
      /\ req.config \in Configs
      /\ configs \in SUBSET Configs /\ defaults \subseteq configs /\ active \subseteq configs
      /\ scope \in [Configs -> Scopes] /\ req.config \notin configs
      /\ r \in alone => AloneHolds(req, scope, defaults)
      /\ \A q \in alone : AloneHolds(request[q], scope, defaults)
  BY DEF InsertConfig, At, GenerationInv, TablesInv, Named, Setting
<1>2. CASE scope[req.config] # req.project
  BY <1>2, RefuseStep DEF InsertConfig, Go
<1>3. CASE scope[req.config] = req.project
  <2>1. /\ to \in RequestRecords /\ to.op = "create" /\ to.config = req.config
        /\ to.project = req.project /\ to.default = req.default /\ to.pc = "done"
    BY <1>1 DEF RequestRecords
  <2>2. /\ Write(r, to, p, scope, d, a)
        /\ alone' = IF req.default THEN alone \cap {r} ELSE alone
    BY <1>3 DEF InsertConfig
  <2>3. p \in SUBSET Configs /\ d \in SUBSET p /\ a \in SUBSET p
    BY <1>1, <1>3
  <2>4. r \in alone => req.default /\ DefaultsIn(req.project, scope, defaults) = {}
    BY <1>1 DEF AloneHolds
  <2>5. r \in alone' => AloneHolds(to, scope, d)
    <3>. SUFFICES ASSUME r \in alone PROVE AloneHolds(to, scope, d)
      BY <2>2
    <3>1. DefaultsIn(req.project, scope, d) = {req.config}
      BY <1>3, <2>4 DEF DefaultsIn
    <3>2. QED
      BY <1>1, <1>3, <2>1, <2>4, <3>1 DEF AloneHolds, Setting
  <2>6. \A q \in alone' \ {r} : AloneHolds(request[q], scope, d)
    BY <1>1, <2>2
  <2>. HIDE DEF to, d, p, a
  <2>7. to.pc \notin Generating /\ Named(to) /\ alone' \subseteq alone
    BY <1>1, <2>1, <2>2 DEF Generating, Resolving, Named
  <2>8. QED
    BY <1>1, <2>1, <2>2, <2>3, <2>5, <2>6, <2>7, WriteStep
<1>4. QED
  BY <1>2, <1>3 DEF InsertConfig

LEMMA SetDefaultStep ==
  ASSUME GenerationInv, NEW r \in Requests, SetDefault(r) PROVE GenerationInv'
<1>. DEFINE req == request[r]
            to == [req EXCEPT !.pc = "done"]
            d == defaults \cup {req.config}
<1>1. /\ req \in RequestRecords /\ req.op = "setAsDefault" /\ req.pc = "setting"
      /\ req.config \in Configs
      /\ configs \in SUBSET Configs /\ defaults \subseteq configs /\ active \in SUBSET configs
      /\ scope \in [Configs -> Scopes]
      /\ r \in alone => AloneHolds(req, scope, defaults)
  BY DEF SetDefault, At, GenerationInv, TablesInv, Setting, Named
<1>2. CASE req.config \notin configs
  BY <1>2, RefuseStep DEF SetDefault, Go
<1>3. CASE req.config \in configs
  <2>1. /\ to \in RequestRecords /\ to.op = "setAsDefault" /\ to.config = req.config
        /\ to.project = req.project /\ to.pc = "done"
    BY <1>1 DEF RequestRecords
  <2>2. Write(r, to, configs, scope, d, active) /\ alone' = alone \cap {r}
    BY <1>3 DEF SetDefault
  <2>3. d \in SUBSET configs
    BY <1>1, <1>3
  <2>4. r \in alone => AloneHolds(to, scope, d)
    <3>. SUFFICES ASSUME r \in alone PROVE AloneHolds(to, scope, d)
      OBVIOUS
    <3>1. scope[req.config] = req.project /\ DefaultsIn(req.project, scope, defaults) = {}
      BY <1>1 DEF AloneHolds
    <3>2. DefaultsIn(req.project, scope, d) = {req.config}
      BY <3>1 DEF DefaultsIn
    <3>3. QED
      BY <1>1, <2>1, <3>1, <3>2 DEF AloneHolds, Setting
  <2>. HIDE DEF to, d
  <2>5. /\ to.pc \notin Generating /\ Named(to)
        /\ alone' \subseteq alone /\ alone' \ {r} = {} /\ (r \in alone' => r \in alone)
    BY <1>1, <2>1, <2>2 DEF Generating, Resolving, Named
  <2>6. QED
    BY <1>1, <2>1, <2>2, <2>3, <2>4, <2>5, WriteStep
<1>4. QED
  BY <1>2, <1>3

\* The operations of one statement.
LEMMA StatementStep ==
  ASSUME GenerationInv, NEW r \in Requests,
         \/ \E c \in Configs : UpdateActive(r, c) \/ DeleteConfig(r, c)
         \/ \E p \in Projects : DeleteProject(r, p)
  PROVE  GenerationInv'
<1>1. /\ configs \in SUBSET Configs /\ defaults \in SUBSET configs /\ active \in SUBSET configs
      /\ scope \in [Configs -> Scopes]
      /\ \A q \in alone : AloneHolds(request[q], scope, defaults)
  BY DEF GenerationInv, TablesInv
<1>2. ASSUME NEW c \in Configs, UpdateActive(r, c) PROVE GenerationInv'
  <2>. DEFINE to == [NoRequest EXCEPT !.op = "update", !.pc = "done"]
              a == IF c \in active THEN active \ {c} ELSE active \cup {c}
  <2>1. /\ to \in RequestRecords /\ to.pc \notin Generating /\ Named(to)
    BY NoRequestType DEF RequestRecords, Generating, Resolving, Named, Setting
  <2>2. /\ Write(r, to, configs, scope, defaults, a) /\ a \in SUBSET configs
        /\ alone' = alone /\ r \notin alone
    BY <1>1, <1>2, IdleIsNotAlone DEF UpdateActive
  <2>. HIDE DEF to, a
  <2>3. alone' \subseteq alone /\ (r \in alone' => AloneHolds(to, scope, defaults))
    BY <2>2
  <2>4. QED
    BY <1>1, <2>1, <2>2, <2>3, WriteStep
<1>3. ASSUME NEW c \in Configs, DeleteConfig(r, c) PROVE GenerationInv'
  <2>. DEFINE to == [NoRequest EXCEPT !.op = "delete", !.pc = "done"]
              p == configs \ {c}
              d == defaults \ {c}
              a == active \ {c}
  <2>1. /\ to \in RequestRecords /\ to.pc \notin Generating /\ Named(to)
    BY NoRequestType DEF RequestRecords, Generating, Resolving, Named, Setting
  <2>2. /\ Write(r, to, p, scope, d, a) /\ alone' = {}
        /\ p \in SUBSET Configs /\ d \in SUBSET p /\ a \in SUBSET p
    BY <1>1, <1>3 DEF DeleteConfig
  <2>. HIDE DEF to, p, d, a
  <2>3. alone' \subseteq alone /\ (r \in alone' => AloneHolds(to, scope, d))
    BY <2>2
  <2>4. QED
    BY <1>1, <2>1, <2>2, <2>3, WriteStep
<1>4. ASSUME NEW p \in Projects, DeleteProject(r, p) PROVE GenerationInv'
  <2>. DEFINE to == [NoRequest EXCEPT !.op = "deleteProject", !.pc = "done"]
              s == [c \in Configs |-> IF scope[c] = p THEN Global ELSE scope[c]]
  <2>1. /\ to \in RequestRecords /\ to.pc \notin Generating /\ Named(to)
    BY NoRequestType DEF RequestRecords, Generating, Resolving, Named, Setting
  <2>2. /\ Write(r, to, configs, s, defaults, active) /\ alone' = {}
    BY <1>4 DEF DeleteProject
  <2>3. s \in [Configs -> Scopes]
    BY <1>1 DEF Scopes
  <2>4. \A c \in Configs : s[c] = IF scope[c] = p THEN Global ELSE scope[c]
    OBVIOUS
  <2>. HIDE DEF to, s
  <2>5. /\ \A c \in Configs : s[c] = scope[c] \/ s[c] = Global
        /\ \A c, e \in Configs : scope[c] = scope[e] => s[c] = s[e]
    BY <2>4
  <2>6. alone' \subseteq alone /\ (r \in alone' => AloneHolds(to, s, defaults))
    BY <2>2
  <2>7. QED
    BY <1>1, <2>1, <2>2, <2>3, <2>5, <2>6, WriteStep
<1>5. QED
  BY <1>2, <1>3, <1>4

-----------------------------------------------------------------------------
(* Generation *)

\* A request whose project, items and answers are in order goes on to resolve.
LEMMA ResolveStep ==
  ASSUME GenerationInv, NEW r \in Requests, NEW req \in RequestRecords,
         req.op \in GenerateOps, req.items # <<>>, req.project # Global,
         req.config = None \/ req.project = None,
         UNCHANGED <<configTables, alone>>, r \notin alone,
         request' = [request EXCEPT ![r] = Resolve(req, defaults)]
  PROVE  GenerationInv'
<1>. DEFINE to == Resolve(req, defaults)
<1>1. TablesInv
  BY DEF GenerationInv
<1>2. /\ to \in RequestRecords /\ GenerationHolds(to, scope, defaults, active)
      /\ to.pc \in Resolving /\ to.op = req.op
  BY <1>1, ResolveHolds
<1>3. request' = [request EXCEPT ![r] = to]
  OBVIOUS
<1>. HIDE DEF to
<1>4. Named(to)
  BY <1>2 DEF Named, Resolving, Setting, GenerateOps
<1>5. /\ UNCHANGED configTables /\ alone' \subseteq alone \cup {r}
      /\ r \in alone' => AloneHolds(to, scope, defaults)
  OBVIOUS
<1>6. QED
  BY <1>2, <1>3, <1>4, <1>5, RequestStep

LEMMA BeginGenerationStep ==
  ASSUME GenerationInv, NEW r \in Requests,
         NEW p \in Projects \cup {None}, NEW c \in Configs \cup {None}, c = None \/ p = None,
         GenerateTestCase(r, c, p) \/ GenerateSecurityTests(r, c, p)
           \/ GenerateFromDocument(r, c, p)
  PROVE  GenerationInv'
<1>1. ASSUME NEW op \in GenerateOps, NEW items \in Seq(ItemSet),
             BeginGeneration(r, op, c, p, items)
      PROVE  GenerationInv'
  <2>. DEFINE req == [NoRequest EXCEPT !.op = op, !.config = c, !.project = p,
                        !.items = items]
  <2>1. /\ req \in RequestRecords /\ req.op = op /\ req.config = c /\ req.project = p
        /\ req.items = items
    BY NoRequestType DEF RequestRecords, Scopes
  <2>2. Begin(r, Resolve(req, defaults)) /\ items # <<>>
    BY <1>1 DEF BeginGeneration
  <2>3. /\ req.project # Global
        /\ req.config = None \/ req.project = None
    BY <2>1, NamesAssumption DEF None, Global
  <2>. HIDE DEF req
  <2>4. Resolve(req, defaults).op = op
    <3>1. TablesInv
      BY DEF GenerationInv
    <3>2. QED
      BY <1>1, <2>1, <2>2, <2>3, <3>1, ResolveHolds
  <2>5. /\ request[r].pc = "idle" /\ UNCHANGED <<configTables, alone>>
        /\ request' = [request EXCEPT ![r] = Resolve(req, defaults)]
    BY <2>2, <2>4 DEF Begin, GenerateOps
  <2>6. r \notin alone
    BY <2>5, IdleIsNotAlone
  <2>7. QED
    BY <1>1, <2>1, <2>2, <2>3, <2>5, <2>6, ResolveStep
<1>2. Items \in Seq(ItemSet) /\ Len(Items) \in Nat /\ Len(Items) > 0
  BY ItemsAssumption, EmptySeq DEF ItemSet
<1>3. Items[1] \in ItemSet /\ <<Items[1]>> \in Seq(ItemSet)
  BY <1>2, ElementOfSeq
<1>4. EndpointsOf(Items) \in Seq(ItemSet)
  BY <1>2, LimitAssumption, SubSeqProperties DEF EndpointsOf
<1>5. QED
  BY <1>1, <1>2, <1>3, <1>4
     DEF GenerateTestCase, GenerateSecurityTests, GenerateFromDocument, GenerateOps

\* A request that generates is not one of those that set a default.
LEMMA GeneratingIsNotAlone ==
  ASSUME GenerationInv, NEW r \in Requests, request[r].pc \in Generating
  PROVE  r \notin alone
BY DEF GenerationInv, AloneHolds, GenerationHolds, Setting, GenerateOps

CaseRecords == [item : ItemSet, model : Configs \cup {None}]

LEMMA NextItemStep ==
  ASSUME GenerationInv, NEW r \in Requests, request[r].pc \in Generating,
         NEW cases \in Seq(CaseRecords), NextItem(r, cases),
         UNCHANGED <<configTables, alone>>
  PROVE  GenerationInv'
<1>. DEFINE req == request[r]
            rest == [req EXCEPT !.items = Tail(@), !.cases = cases]
<1>1. /\ req \in RequestRecords /\ req.op \in GenerateOps
      /\ req.items # <<>> /\ req.project # Global
      /\ req.config = None \/ req.project = None
  BY DEF GenerationInv, GenerationHolds
<1>2. Tail(req.items) \in Seq(ItemSet)
  <2>1. req.items \in Seq(ItemSet)
    BY <1>1 DEF RequestRecords
  <2>2. QED
    BY <1>1, <2>1, HeadTailProperties
<1>3. /\ rest \in RequestRecords /\ rest.op = req.op /\ rest.project = req.project
      /\ rest.config = req.config
  BY <1>1, <1>2 DEF RequestRecords, CaseRecords
<1>4. request' = [request EXCEPT ![r] =
       IF rest.items = <<>> THEN [rest EXCEPT !.pc = "done"] ELSE Resolve(rest, defaults)]
  BY DEF NextItem
<1>5. r \notin alone
  BY GeneratingIsNotAlone
<1>. HIDE DEF rest
<1>6. CASE rest.items = <<>>
  <2>. DEFINE to == [rest EXCEPT !.pc = "done"]
  <2>1. /\ to \in RequestRecords /\ to.pc = "done" /\ to.op = req.op
    BY <1>3 DEF RequestRecords
  <2>2. request' = [request EXCEPT ![r] = to]
    BY <1>4, <1>6
  <2>. HIDE DEF to
  <2>3. /\ GenerationHolds(to, scope, defaults, active) /\ Named(to)
    BY <1>1, <2>1 DEF GenerationHolds, Generating, Resolving, Named, GenerateOps, Setting
  <2>4. /\ UNCHANGED configTables /\ alone' \subseteq alone \cup {r}
        /\ r \in alone' => AloneHolds(to, scope, defaults)
    BY <1>5
  <2>5. QED
    BY <2>1, <2>2, <2>3, <2>4, RequestStep
<1>7. CASE rest.items # <<>>
  <2>1. request' = [request EXCEPT ![r] = Resolve(rest, defaults)]
    BY <1>4, <1>7
  <2>2. /\ rest.op \in GenerateOps /\ rest.project # Global
        /\ rest.config = None \/ rest.project = None
    BY <1>1, <1>3
  <2>3. QED
    BY <1>3, <1>5, <1>7, <2>1, <2>2, ResolveStep
<1>8. QED
  BY <1>6, <1>7

LEMMA MissStep ==
  ASSUME GenerationInv, NEW r \in Requests, request[r].pc \in Generating, Miss(r),
         UNCHANGED <<configTables, alone>>
  PROVE  GenerationInv'
<1>1. request[r].cases \in Seq(CaseRecords)
  BY DEF GenerationInv, RequestRecords, CaseRecords
<1>2. CASE request[r].op = "generateTestCase"
  <2>1. request' = [request EXCEPT ![r].pc = "refused"]
    BY <1>2 DEF Miss
  <2>2. QED
    BY <2>1, RefuseStep
<1>3. CASE request[r].op # "generateTestCase"
  <2>1. NextItem(r, request[r].cases)
    BY <1>3 DEF Miss
  <2>2. QED
    BY <1>1, <2>1, NextItemStep
<1>4. QED
  BY <1>2, <1>3

LEMMA CompleteStep ==
  ASSUME GenerationInv, NEW r \in Requests, Complete(r) PROVE GenerationInv'
<1>. DEFINE req == request[r]
            cases == Append(req.cases, [item |-> Head(req.items), model |-> req.answer])
<1>1. /\ req.pc \in Generating /\ UNCHANGED <<configTables, alone>>
      /\ NextItem(r, cases) \/ Miss(r)
  BY DEF Complete, Generating
<1>2. /\ req \in RequestRecords /\ req.items # <<>>
  BY <1>1 DEF GenerationInv, GenerationHolds
<1>3. Head(req.items) \in ItemSet /\ req.answer \in Configs \cup {None}
      /\ req.cases \in Seq(CaseRecords)
  BY <1>2, HeadTailProperties DEF RequestRecords, CaseRecords
<1>4. cases \in Seq(CaseRecords)
  BY <1>3, AppendProperties DEF CaseRecords
<1>. HIDE DEF cases
<1>5. QED
  BY <1>1, <1>4, NextItemStep, MissStep

LEMMA FindModelStep ==
  ASSUME GenerationInv, NEW r \in Requests, FindModel(r) PROVE GenerationInv'
<1>. DEFINE req == request[r]
            eligible == Eligible(req, scope, defaults, active)
            found == CASE req.pc = "byId" -> FindById(req.config)
                       [] req.pc = "byProject" -> FindDefault(req.project)
                       [] req.pc = "byGlobal" -> FindDefault(Global)
<1>1. /\ req \in RequestRecords /\ req.pc \in Resolving
      /\ UNCHANGED <<configTables, alone>>
      /\ \/ \E c \in found :
              request' = [request EXCEPT ![r].pc = "completing", ![r].answer = c]
         \/ /\ found = {} /\ req.pc = "byProject"
            /\ request' = [request EXCEPT ![r].pc = "byGlobal"]
         \/ /\ found = {} /\ req.pc # "byProject"
            /\ request' = [request EXCEPT ![r].pc = "unresolved"]
  BY DEF FindModel, GenerationInv
<1>2. /\ configs \subseteq Configs /\ defaults \subseteq configs /\ active \subseteq configs
      /\ GenerationHolds(req, scope, defaults, active)
  BY DEF GenerationInv, TablesInv
<1>3. /\ req.op \in GenerateOps /\ req.items # <<>> /\ req.project # Global
      /\ req.config = None \/ req.project = None
      /\ req.pc = "byId" => req.config # None
      /\ req.pc \in {"byProject", "byGlobal"} => req.config = None
      /\ eligible \subseteq req.ever /\ req.held \subseteq eligible
      /\ req.pc = "byGlobal" => \A c \in req.held : scope[c] # req.project
  BY <1>1, <1>2 DEF GenerationHolds, Generating
<1>4. req.pc \in {"byId", "byProject", "byGlobal"}
  BY <1>1 DEF Resolving
<1>5. /\ req.pc = "byId" => found = eligible /\ eligible \subseteq {req.config}
      /\ req.pc = "byProject" => found = {c \in eligible : scope[c] = req.project}
      /\ req.pc = "byGlobal" => found = {c \in eligible : scope[c] = Global}
      /\ found \subseteq eligible
      /\ req.config = None => \A c \in eligible : scope[c] \in {req.project, Global}
  <2>1. CASE req.pc = "byId"
    BY <1>2, <1>3, <2>1 DEF FindById, Eligible
  <2>2. CASE req.pc = "byProject"
    BY <1>2, <1>3, <2>2 DEF FindDefault, Eligible, InScope
  <2>3. CASE req.pc = "byGlobal"
    BY <1>2, <1>3, <2>3 DEF FindDefault, Eligible, InScope
  <2>4. QED
    BY <1>4, <2>1, <2>2, <2>3
<1>6. eligible \subseteq Configs
  BY <1>2 DEF Eligible
<1>7. r \notin alone
  BY <1>1, GeneratingIsNotAlone DEF Generating
<1>. HIDE DEF found, eligible
<1>8. ASSUME NEW to \in RequestRecords, to.op = req.op, to.pc # "idle",
             GenerationHolds(to, scope, defaults, active),
             request' = [request EXCEPT ![r] = to]
      PROVE  GenerationInv'
  <2>1. Named(to)
    BY <1>3, <1>8 DEF Named, GenerateOps, Setting
  <2>2. /\ UNCHANGED configTables /\ alone' \subseteq alone \cup {r}
        /\ r \in alone' => AloneHolds(to, scope, defaults)
    BY <1>1, <1>7
  <2>3. QED
    BY <1>8, <2>1, <2>2, RequestStep
<1>9. ASSUME NEW c \in found,
             request' = [request EXCEPT ![r].pc = "completing", ![r].answer = c]
      PROVE  GenerationInv'
  <2>. DEFINE to == [req EXCEPT !.pc = "completing", !.answer = c]
  <2>1. c \in Configs
    BY <1>5, <1>6
  <2>2. /\ to \in RequestRecords /\ to.op = req.op /\ to.pc = "completing"
        /\ to.answer = c /\ to.items = req.items /\ to.project = req.project
        /\ to.config = req.config /\ to.ever = req.ever /\ to.held = req.held
    BY <1>1, <2>1 DEF RequestRecords, Generating
  <2>3. request' = [request EXCEPT ![r] = to]
    BY <1>1, <1>9 DEF GenerationInv
  <2>. HIDE DEF to
  <2>4. \A e \in req.held : scope[e] = req.project => scope[c] = req.project
    <3>1. CASE req.pc = "byId"
      BY <1>3, <1>5, <3>1
    <3>2. CASE req.pc # "byId"
      BY <1>3, <1>4, <1>5, <3>2
    <3>3. QED
      BY <3>1, <3>2
  <2>5. GenerationHolds(to, scope, defaults, active)
    BY <1>3, <1>5, <2>2, <2>4 DEF GenerationHolds, Resolving
  <2>6. QED
    BY <1>8, <2>2, <2>3, <2>5
<1>10. CASE /\ found = {} /\ req.pc = "byProject"
            /\ request' = [request EXCEPT ![r].pc = "byGlobal"]
  <2>. DEFINE to == [req EXCEPT !.pc = "byGlobal"]
  <2>2. /\ to \in RequestRecords /\ to.op = req.op /\ to.pc = "byGlobal"
        /\ to.items = req.items /\ to.project = req.project
        /\ to.config = req.config /\ to.ever = req.ever /\ to.held = req.held
    BY <1>1 DEF RequestRecords, Generating, Resolving
  <2>3. request' = [request EXCEPT ![r] = to]
    BY <1>10
  <2>. HIDE DEF to
  <2>4. Eligible(to, scope, defaults, active) = eligible
    BY <2>2 DEF Eligible, eligible
  <2>5. \A c \in req.held : scope[c] # req.project
    BY <1>3, <1>5, <1>10
  <2>6. GenerationHolds(to, scope, defaults, active)
    BY <1>3, <1>10, <2>2, <2>4, <2>5 DEF GenerationHolds
  <2>7. QED
    BY <1>8, <2>2, <2>3, <2>6
<1>11. CASE /\ found = {} /\ req.pc # "byProject"
            /\ request' = [request EXCEPT ![r].pc = "unresolved"]
  <2>. DEFINE to == [req EXCEPT !.pc = "unresolved"]
  <2>2. /\ to \in RequestRecords /\ to.op = req.op /\ to.pc = "unresolved"
        /\ to.items = req.items /\ to.project = req.project
        /\ to.config = req.config /\ to.ever = req.ever /\ to.held = req.held
    BY <1>1 DEF RequestRecords, Generating, Resolving
  <2>3. request' = [request EXCEPT ![r] = to]
    BY <1>11
  <2>. HIDE DEF to
  <2>4. req.held = {}
    <3>1. CASE req.pc = "byId"
      BY <1>3, <1>5, <1>11, <3>1
    <3>2. CASE req.pc = "byGlobal"
      BY <1>3, <1>5, <1>11, <3>2
    <3>3. QED
      BY <1>4, <1>11, <3>1, <3>2
  <2>5. GenerationHolds(to, scope, defaults, active)
    BY <1>3, <2>2, <2>4 DEF GenerationHolds, Resolving
  <2>6. QED
    BY <1>8, <2>2, <2>3, <2>5
<1>12. QED
  BY <1>1, <1>9, <1>10, <1>11

-----------------------------------------------------------------------------
(* The theorem *)

LEMMA GenerationInitially == GenerationInit => GenerationInv
<1>. SUFFICES ASSUME GenerationInit PROVE GenerationInv
  OBVIOUS
<1>1. \A r \in Requests : request[r] = NoRequest
  BY DEF GenerationInit
<1>2. TablesInv
  BY DEF GenerationInit, TablesInv, Scopes
<1>3. request \in [Requests -> RequestRecords]
  BY NoRequestType DEF GenerationInit
<1>4. GenerationHolds(NoRequest, scope, defaults, active) /\ Named(NoRequest)
  BY NoRequestType DEF GenerationHolds, Generating, Resolving, Named, Setting, None
<1>5. QED
  BY <1>1, <1>2, <1>3, <1>4 DEF GenerationInit, GenerationInv

LEMMA GenerationNextInv ==
  GenerationInv /\ [GenerationNext]_generationVars => GenerationInv'
<1>. SUFFICES ASSUME GenerationInv, [GenerationNext]_generationVars PROVE GenerationInv'
  OBVIOUS
<1>1. CASE UNCHANGED <<configTables, request, alone>>
  BY <1>1 DEF GenerationInv, TablesInv, configTables
<1>2. CASE Documents \/ UNCHANGED generationVars
  BY <1>1, <1>2 DEF Documents, UploadDocument, Process, MarkProcessing, CompleteDocument,
     CompletionFails, FailDocument, StopProcessing, generationVars
<1>3. ASSUME NEW r \in Requests, ConfigRequest(r) PROVE GenerationInv'
  BY <1>3, BeginConfigStep, ReadConfigStep, UnsetStep, InsertStep, SetDefaultStep, StatementStep
     DEF ConfigRequest
<1>4. ASSUME NEW r \in Requests, Generation(r) PROVE GenerationInv'
  <2>1. CASE Unresolved(r)
    BY <2>1, MissStep DEF Unresolved, Generating
  <2>2. QED
    BY <1>4, <2>1, BeginGenerationStep, FindModelStep, CompleteStep DEF Generation
<1>5. ASSUME NEW r \in Requests, StopRequest(r) PROVE GenerationInv'
  BY <1>5, RefuseStep DEF StopRequest, Go
<1>6. QED
  BY <1>2, <1>3, <1>4, <1>5 DEF GenerationNext

\* Whoever sets a default undisturbed leaves it the only one of its scope, and a
\* model that stood while it was looked for is found, the project's before the
\* global one, however many calls of model-config.service.ts interleave.
THEOREM ConfigsKept == GenerationSpec => []ConfigsHold
<1>1. GenerationInv => ConfigsHold
  <2>. SUFFICES ASSUME GenerationInv PROVE ConfigsHold
    OBVIOUS
  <2>1. OneDefaultLeft
    <3>. SUFFICES ASSUME NEW r \in alone, request[r].pc = "done"
                  PROVE  defaults \cap InScope(request[r].project) = {request[r].config}
      BY DEF OneDefaultLeft
    <3>1. /\ defaults \subseteq configs
          /\ DefaultsIn(request[r].project, scope, defaults) = {request[r].config}
      BY DEF GenerationInv, TablesInv, AloneHolds
    <3>2. QED
      BY <3>1 DEF DefaultsIn, InScope
  <2>2. ResolvesRightly
    <3>. SUFFICES ASSUME NEW r \in Requests
                  PROVE  /\ request[r].pc = "completing" =>
                              /\ request[r].answer \in request[r].ever
                              /\ (\E c \in request[r].held : scope[c] = request[r].project)
                                   => scope[request[r].answer] = request[r].project
                         /\ request[r].pc = "unresolved" => request[r].held = {}
      BY DEF ResolvesRightly
    <3>1. GenerationHolds(request[r], scope, defaults, active)
      BY DEF GenerationInv
    <3>2. QED
      BY <3>1 DEF GenerationHolds, Generating
  <2>3. QED
    BY <2>1, <2>2 DEF ConfigsHold
<1>2. QED
  BY GenerationInitially, GenerationNextInv, <1>1, PTL DEF GenerationSpec

-----------------------------------------------------------------------------
(* Test runs (TestRuns) *)

RunTypes ==
  /\ run \in [status : RunStatus, passed : Nat, failed : Nat,
              startedAt : Nat, finishedAt : Nat]
  /\ present \subseteq Cases
  /\ result \in [Executions -> [Cases -> ResultStatus]]
  /\ stage \in [Executions -> Stages]
  /\ promises \in [Executions -> SUBSET Writing]
  /\ todo \in [Executions -> SUBSET Cases]
  /\ current \in [Executions -> Cases \cup {"none"}]
  /\ count \in [Executions -> [passed : Nat, failed : Nat]]
  /\ clock \in Nat /\ taken \in [Executions -> Nat]
  /\ troubles \subseteq EnvironmentKinds

Zero == [passed |-> 0, failed |-> 0]
Rows(res, status) == Cardinality({c \in Cases : res[c] = status})
Counted(co, res) ==
  co.passed = Rows(res, "PASSED") /\ co.failed = Rows(res, "FAILED")

\* Where the promise of an execution is, and its test cases, counters and rows
\* with it; tr are the troubles.
PromiseHolds(st, pr, tr) ==
  /\ st \in {"idle", "loading"} => pr = {}
  /\ st \in Writing => pr = {st}
  /\ \A p, q \in pr : p = q
  /\ "timeout" \notin tr /\ st \in {"reverting", "ended"} => pr = {}
TestsHold(pr, td, cu, co) ==
  /\ pr = {} => td = {} /\ cu = "none" /\ co = Zero
  /\ "starting" \in pr => td # {} /\ cu = "none" /\ co = Zero
  /\ "testing" \in pr => td # {} \/ co.passed + co.failed > 0
  /\ "completing" \in pr => td = {} /\ cu = "none" /\ co.passed + co.failed > 0
  /\ cu # "none" => cu \in td
RowsHold(st, pr, td, cu, co, res, tr) ==
  /\ st \in {"idle", "loading"} \/ "starting" \in pr => \A c \in Cases : res[c] = "none"
  /\ \A c \in td : res[c] = "none" \/ (c = cu /\ res[c] = "RUNNING")
  /\ "removed" \notin tr /\ cu # "none" => res[cu] = "RUNNING"
  /\ "removed" \notin tr /\ pr # {} => Counted(co, res)
  /\ tr \cap {"failure", "crash"} = {} => \A c \in Cases : res[c] = "RUNNING" => c = cu

Works(x) ==
  /\ PromiseHolds(stage[x], promises[x], troubles)
  /\ TestsHold(promises[x], todo[x], current[x], count[x])
  /\ RowsHold(stage[x], promises[x], todo[x], current[x], count[x], result[x], troubles)

\* The counters of the run are those of an execution that is over.
SummaryInv ==
  run.passed + run.failed > 0 /\ "removed" \notin troubles =>
    \E x \in Executions :
      /\ stage[x] \notin {"idle", "loading"} /\ promises[x] = {}
      /\ Counted(run, result[x])

\* A run is RUNNING on account of an execution, which has changed it last if it
\* is the only one.
Underway(x) == stage[x] \in {"testing", "completing", "reverting"}
RunningInv ==
  troubles \cap {"timeout", "failure", "crash"} = {} /\ run.status = "RUNNING" =>
    \E x \in Executions : Underway(x)

Resting(x) == stage[x] \in {"idle", "ended"} /\ promises[x] = {}
OneAtATime ==
  /\ "overlap" \notin troubles =>
       \A x, y \in Executions : x = y \/ Resting(x) \/ Resting(y)
  /\ troubles \cap {"overlap", "timeout"} = {} =>
       \A x \in Executions : Underway(x) => run.status \in {"RUNNING", "deleted"}

\* The times that are about to be written, and the one that tests started at.
TimesInv ==
  /\ run.startedAt <= clock
  /\ \A x \in Executions :
       /\ taken[x] <= clock
       /\ {"starting", "completing"} \cap promises[x] # {} => taken[x] # 0
       /\ {"testing", "completing"} \cap promises[x] # {} => run.startedAt # 0
       /\ "overlap" \notin troubles /\ "completing" \in promises[x] => run.startedAt < taken[x]

RunInv ==
  /\ RunTypes
  /\ \A x \in Executions : Works(x)
  /\ VerdictIsConsistent /\ SummaryInv /\ RunningInv /\ OneAtATime /\ TimesInv

-----------------------------------------------------------------------------
(* One execution at a time *)

SameAt(y) ==
  /\ stage'[y] = stage[y] /\ promises'[y] = promises[y] /\ todo'[y] = todo[y]
  /\ current'[y] = current[y] /\ count'[y] = count[y] /\ result'[y] = result[y]

\* What a step of execution x has to see to of the run as a whole.
RunningKept(x) ==
  troubles' \cap {"timeout", "failure", "crash"} = {} /\ run'.status = "RUNNING" =>
    Underway(x)' \/ (run.status = "RUNNING" /\ ~Underway(x))
TurnKept(x) ==
  /\ "overlap" \notin troubles' => Quiet \/ ~Resting(x)
  /\ troubles' \cap {"overlap", "timeout"} = {} =>
       (Underway(x)' => run'.status \in {"RUNNING", "deleted"})
SummaryKept(x) ==
  /\ run'.passed = run.passed /\ run'.failed = run.failed
  /\ promises[x] = {} /\ stage[x] \notin {"idle", "loading"} =>
       promises'[x] = {} /\ stage'[x] \notin {"idle", "loading"} /\ result'[x] = result[x]

LEMMA WorksSame ==
  ASSUME NEW y \in Executions, Works(y), SameAt(y), troubles \subseteq troubles'
  PROVE  Works(y)'
BY DEF Works, SameAt, PromiseHolds, TestsHold, RowsHold

\* No time is taken or written.
LEMMA TimesSame ==
  ASSUME RunTypes, TimesInv, clock' = clock, run'.startedAt = run.startedAt,
         troubles \subseteq troubles',
         \A y \in Executions : \/ promises'[y] = {} /\ taken'[y] \in {taken[y], 0}
                               \/ promises'[y] = promises[y] /\ taken'[y] = taken[y]
  PROVE  TimesInv'
BY DEF RunTypes, TimesInv

LEMMA SummaryStep ==
  ASSUME NEW x \in Executions, SummaryInv, SummaryKept(x), troubles \subseteq troubles',
         \A y \in Executions \ {x} : SameAt(y)
  PROVE  SummaryInv'
<1>. SUFFICES ASSUME run'.passed + run'.failed > 0, "removed" \notin troubles'
              PROVE  \E y \in Executions :
                       /\ stage'[y] \notin {"idle", "loading"} /\ promises'[y] = {}
                       /\ Counted(run', result'[y])
  BY DEF SummaryInv
<1>1. PICK y \in Executions :
        /\ stage[y] \notin {"idle", "loading"} /\ promises[y] = {}
        /\ Counted(run, result[y])
  BY DEF SummaryInv, SummaryKept
<1>2. /\ stage'[y] \notin {"idle", "loading"} /\ promises'[y] = {}
      /\ result'[y] = result[y]
  BY <1>1 DEF SummaryKept, SameAt
<1>3. Counted(run', result'[y])
  BY <1>1, <1>2 DEF SummaryKept, Counted
<1>4. QED
  BY <1>2, <1>3

LEMMA ExecutionStep ==
  ASSUME RunInv, NEW x \in Executions, RunTypes', Works(x)', troubles \subseteq troubles',
         \A y \in Executions \ {x} : SameAt(y),
         VerdictIsConsistent', SummaryInv', TimesInv', RunningKept(x), TurnKept(x)
  PROVE  RunInv'
<1>1. \A y \in Executions : Works(y)'
  BY WorksSame DEF RunInv
<1>2. RunningInv'
  <2>. SUFFICES ASSUME troubles' \cap {"timeout", "failure", "crash"} = {},
                       run'.status = "RUNNING"
                PROVE  \E y \in Executions : Underway(y)'
    BY DEF RunningInv
  <2>1. CASE Underway(x)'
    BY <2>1
  <2>2. CASE ~Underway(x)'
    <3>1. run.status = "RUNNING" /\ ~Underway(x)
      BY <2>2 DEF RunningKept
    <3>2. troubles \cap {"timeout", "failure", "crash"} = {}
      OBVIOUS
    <3>3. PICK y \in Executions : Underway(y)
      BY <3>1, <3>2 DEF RunInv, RunningInv
    <3>4. SameAt(y)
      BY <3>1, <3>3
    <3>5. Underway(y)'
      BY <3>3, <3>4 DEF Underway, SameAt
    <3>6. QED
      BY <3>5
  <2>3. QED
    BY <2>1, <2>2
<1>3. OneAtATime'
  <2>. SUFFICES ASSUME "overlap" \notin troubles'
                PROVE  /\ \A y, z \in Executions : y = z \/ Resting(y)' \/ Resting(z)'
                       /\ "timeout" \notin troubles' => \A y \in Executions :
                            Underway(y)' => run'.status \in {"RUNNING", "deleted"}
    BY DEF OneAtATime
  <2>1. "overlap" \notin troubles
    OBVIOUS
  <2>2. \A y \in Executions \ {x} : Resting(y)
    BY <2>1 DEF RunInv, OneAtATime, TurnKept, Quiet, Resting
  <2>3. \A y \in Executions \ {x} : Resting(y)' /\ ~Underway(y)'
    BY <2>2 DEF Resting, Underway, SameAt
  <2>4. QED
    BY <2>3 DEF TurnKept
<1>4. QED
  BY <1>1, <1>2, <1>3 DEF RunInv

LEMMA TroubleTypes ==
  ASSUME RunTypes, NEW trouble, UNCHANGED troubles \/ Trouble(trouble)
  PROVE  troubles \subseteq troubles' /\ troubles' \subseteq EnvironmentKinds
BY EnvironmentAssumption DEF RunTypes, Trouble

\* A step of x settles, its saga goes on to the next one if it still awaited it.
SettledAs(x, step, next) ==
  /\ stage' \in [Executions -> Stages]
  /\ promises' \in [Executions -> SUBSET Writing]
  /\ todo' \in [Executions -> SUBSET Cases]
  /\ current' \in [Executions -> Cases \cup {"none"}]
  /\ count' \in [Executions -> [passed : Nat, failed : Nat]]
  /\ \A y \in Executions \ {x} :
       /\ stage'[y] = stage[y] /\ promises'[y] = promises[y] /\ todo'[y] = todo[y]
       /\ current'[y] = current[y] /\ count'[y] = count[y]
  /\ stage'[x] = IF stage[x] = step THEN next ELSE stage[x]
  /\ promises'[x] = IF stage[x] = step THEN {next} \cap Writing ELSE promises[x] \ {step}
  /\ IF stage[x] = step /\ next \in Writing
     THEN todo'[x] = todo[x] /\ current'[x] = current[x] /\ count'[x] = count[x]
     ELSE todo'[x] = {} /\ current'[x] = "none" /\ count'[x] = Zero
  /\ taken' \in [Executions -> Nat] /\ clock' \in Nat
  /\ \A y \in Executions \ {x} : taken'[y] = taken[y]
  /\ IF stage[x] = step /\ next = "completing"
     THEN clock' = clock + 1 /\ taken'[x] = clock + 1
     ELSE clock' = clock /\ taken'[x] = 0

LEMMA SettleEffect ==
  ASSUME RunTypes, NEW x \in Executions, NEW step \in Writing,
         NEW next \in {"testing", "completing", "reverting", "ended"}, Settle(x, step, next)
  PROVE  SettledAs(x, step, next)
<1>1. next \in Stages /\ Zero \in [passed : Nat, failed : Nat]
  BY DEF Stages, Writing, Zero
<1>0. /\ taken' \in [Executions -> Nat] /\ clock' \in Nat
      /\ \A y \in Executions \ {x} : taken'[y] = taken[y]
      /\ IF stage[x] = step /\ next = "completing"
         THEN clock' = clock + 1 /\ taken'[x] = clock + 1
         ELSE clock' = clock /\ taken'[x] = 0
  BY DEF Settle, TakeTime, RunTypes
<1>2. CASE stage[x] = step /\ next \in Writing
  <2>1. /\ stage' = [stage EXCEPT ![x] = next]
        /\ promises' = [promises EXCEPT ![x] = {next} \cap Writing]
        /\ UNCHANGED <<todo, current, count>>
    BY <1>2 DEF Settle, tests
  <2>2. QED
    BY <1>0, <1>1, <1>2, <2>1 DEF RunTypes, SettledAs
<1>3. CASE ~(stage[x] = step /\ next \in Writing)
  <2>0. Forget(x)
    BY <1>3 DEF Settle
  <2>1. /\ todo' \in [Executions -> SUBSET Cases]
        /\ current' \in [Executions -> Cases \cup {"none"}]
        /\ \A y \in Executions \ {x} : todo'[y] = todo[y] /\ current'[y] = current[y]
        /\ todo'[x] = {} /\ current'[x] = "none"
    BY <2>0 DEF RunTypes, Forget
  <2>2. /\ count' = [count EXCEPT ![x] = Zero]
        /\ count \in [Executions -> [passed : Nat, failed : Nat]]
    BY <2>0 DEF RunTypes, Forget, Zero
  <2>3. /\ count' \in [Executions -> [passed : Nat, failed : Nat]]
        /\ \A y \in Executions \ {x} : count'[y] = count[y]
        /\ count'[x] = Zero
    BY <1>1, <2>2
  <2>4. /\ stage' \in [Executions -> Stages]
        /\ promises' \in [Executions -> SUBSET Writing]
        /\ \A y \in Executions \ {x} : stage'[y] = stage[y] /\ promises'[y] = promises[y]
        /\ stage'[x] = IF stage[x] = step THEN next ELSE stage[x]
        /\ promises'[x] = IF stage[x] = step THEN {next} \cap Writing
                                             ELSE promises[x] \ {step}
    <3>1. CASE stage[x] = step
      <4>1. /\ stage' = [stage EXCEPT ![x] = next]
            /\ promises' = [promises EXCEPT ![x] = {next} \cap Writing]
        BY <3>1 DEF Settle
      <4>2. QED
        BY <1>1, <3>1, <4>1 DEF RunTypes
    <3>2. CASE stage[x] # step
      <4>1. stage' = stage /\ promises' = [promises EXCEPT ![x] = @ \ {step}]
        BY <3>2 DEF Settle
      <4>2. QED
        BY <3>2, <4>1 DEF RunTypes
    <3>3. QED
      BY <3>1, <3>2
  <2>5. QED
    BY <1>0, <1>3, <2>1, <2>3, <2>4 DEF SettledAs
<1>4. QED
  BY <1>2, <1>3

LEMMA NoRows ==
  ASSUME NEW res, \A c \in Cases : res[c] = "none"
  PROVE  Counted(Zero, res)
<1>1. \A status \in {"PASSED", "FAILED"} : {c \in Cases : res[c] = status} = {}
  OBVIOUS
<1>2. QED
  BY <1>1, FS_EmptySet DEF Counted, Rows, Zero

\* A settled step leaves an execution in order that works on nothing any more.
LEMMA ForgottenHolds ==
  ASSUME NEW st \in {"reverting", "ended"}, NEW res, NEW tr,
         tr \cap {"failure", "crash"} = {} => \A c \in Cases : res[c] # "RUNNING"
  PROVE  PromiseHolds(st, {}, tr) /\ TestsHold({}, {}, "none", Zero)
         /\ RowsHold(st, {}, {}, "none", Zero, res, tr)
BY DEF PromiseHolds, TestsHold, RowsHold, Writing

-----------------------------------------------------------------------------
(* The saga around the steps *)

LEMMA ExecuteStep ==
  ASSUME RunInv, NEW x \in Executions, ExecuteTestRun(x) PROVE RunInv'
<1>1. /\ stage[x] = "idle" /\ stage' = [stage EXCEPT ![x] = "loading"]
      /\ UNCHANGED <<run, present, result, promises, todo, current, count, clock, taken>>
      /\ UNCHANGED troubles \/ Trouble("overlap")
      /\ "overlap" \notin troubles' => Quiet
  BY DEF ExecuteTestRun, rows, tests, times, Trouble
<1>2. troubles \subseteq troubles' /\ troubles' \subseteq EnvironmentKinds
  BY <1>1, TroubleTypes DEF RunInv
<1>3. RunTypes' /\ stage'[x] = "loading"
  BY <1>1, <1>2 DEF RunInv, RunTypes, Stages
<1>4. Works(x)'
  BY <1>1, <1>2, <1>3 DEF RunInv, RunTypes, Works, PromiseHolds, TestsHold, RowsHold, Writing
<1>5. \A y \in Executions \ {x} : SameAt(y)
  BY <1>1 DEF RunInv, RunTypes, SameAt
<1>6. SummaryInv'
  BY <1>1, <1>2, <1>5, SummaryStep DEF RunInv, SummaryKept
<1>7. VerdictIsConsistent' /\ RunningKept(x) /\ TurnKept(x)
  BY <1>1, <1>2, <1>3 DEF RunInv, VerdictIsConsistent, RunningKept, TurnKept, Underway
<1>9. TimesInv'
  BY <1>1, <1>2, TimesSame DEF RunInv
<1>8. QED
  BY <1>2, <1>3, <1>4, <1>5, <1>6, <1>7, <1>9, ExecutionStep

LEMMA LoadDataStep ==
  ASSUME RunInv, NEW x \in Executions, LoadData(x) PROVE RunInv'
<1>1. PICK wanted \in SUBSET present :
        /\ stage[x] = "loading" /\ wanted # {} /\ todo' = [todo EXCEPT ![x] = wanted]
        /\ stage' = [stage EXCEPT ![x] = "starting"]
        /\ promises' = [promises EXCEPT ![x] = {"starting"}]
        /\ clock' = clock + 1 /\ taken' = [taken EXCEPT ![x] = clock + 1]
        /\ UNCHANGED <<run, present, result, current, count, troubles>>
  BY DEF LoadData, rows, TakeTime
<1>2. troubles' = troubles /\ troubles \subseteq troubles'
  BY <1>1
<1>3. /\ RunTypes' /\ stage'[x] = "starting" /\ promises'[x] = {"starting"}
      /\ todo'[x] = wanted /\ wanted \subseteq Cases
  BY <1>1 DEF RunInv, RunTypes, Stages, Writing
<1>4. /\ promises[x] = {} /\ current'[x] = "none" /\ count'[x] = Zero
      /\ \A c \in Cases : result'[x][c] = "none"
  BY <1>1 DEF RunInv, Works, PromiseHolds, TestsHold, RowsHold
<1>5. Works(x)'
  <2>1. Counted(Zero, result'[x])
    BY <1>4, NoRows
  <2>2. QED
    BY <1>1, <1>3, <1>4, <2>1 DEF Works, PromiseHolds, TestsHold, RowsHold
<1>6. \A y \in Executions \ {x} : SameAt(y)
  BY <1>1 DEF RunInv, RunTypes, SameAt
<1>7. SummaryInv'
  BY <1>1, <1>2, <1>6, SummaryStep DEF RunInv, SummaryKept
<1>8. VerdictIsConsistent' /\ RunningKept(x) /\ TurnKept(x)
  BY <1>1, <1>3 DEF RunInv, VerdictIsConsistent, RunningKept, TurnKept, Underway, Resting
<1>9. TimesInv'
  <2>1. /\ clock \in Nat /\ run.startedAt \in Nat /\ taken'[x] = clock + 1
        /\ \A y \in Executions : y # x => taken'[y] = taken[y] /\ promises'[y] = promises[y]
        /\ \A y \in Executions : taken[y] \in Nat
    BY <1>1 DEF RunInv, RunTypes
  <2>2. QED
    BY <1>1, <1>3, <2>1 DEF RunInv, TimesInv
<1>10. QED
  BY <1>2, <1>3, <1>5, <1>6, <1>7, <1>8, <1>9, ExecutionStep

LEMMA LoadFailsStep ==
  ASSUME RunInv, NEW x \in Executions, LoadFails(x) PROVE RunInv'
<1>1. /\ stage[x] = "loading" /\ stage' = [stage EXCEPT ![x] = "ended"]
      /\ UNCHANGED <<run, present, result, promises, todo, current, count, clock, taken>>
      /\ UNCHANGED troubles
  BY DEF LoadFails, OnFailure, rows, tests, times
<1>2. troubles' = troubles /\ troubles \subseteq troubles'
  BY <1>1
<1>3. RunTypes' /\ stage'[x] = "ended"
  BY <1>1 DEF RunInv, RunTypes, Stages
<1>4. Works(x)'
  BY <1>1, <1>3 DEF RunInv, RunTypes, Works, PromiseHolds, TestsHold, RowsHold, Writing
<1>5. \A y \in Executions \ {x} : SameAt(y)
  BY <1>1 DEF RunInv, RunTypes, SameAt
<1>6. SummaryInv'
  BY <1>1, <1>2, <1>5, SummaryStep DEF RunInv, SummaryKept
<1>7. VerdictIsConsistent' /\ RunningKept(x) /\ TurnKept(x)
  BY <1>1, <1>3 DEF RunInv, VerdictIsConsistent, RunningKept, TurnKept, Underway, Resting
<1>8. TimesInv'
  BY <1>1, <1>2, TimesSame DEF RunInv
<1>9. QED
  BY <1>2, <1>3, <1>4, <1>5, <1>6, <1>7, <1>8, ExecutionStep

LEMMA TimeOutStep ==
  ASSUME RunInv, NEW x \in Executions, StepTimesOut(x) PROVE RunInv'
<1>1. /\ stage[x] \in {"loading"} \cup Writing /\ Trouble("timeout")
      /\ stage' = [stage EXCEPT ![x] = OnFailure(stage[x])]
      /\ UNCHANGED <<run, present, result, promises, todo, current, count, clock, taken>>
  BY DEF StepTimesOut, Timed, rows, tests, times
<1>2. /\ troubles \subseteq troubles' /\ troubles' \subseteq EnvironmentKinds
      /\ "timeout" \in troubles'
  BY <1>1, TroubleTypes DEF RunInv, Trouble
<1>3. /\ RunTypes' /\ stage'[x] = OnFailure(stage[x])
      /\ stage'[x] \in {"reverting", "ended"}
  BY <1>1, <1>2 DEF RunInv, RunTypes, Stages, OnFailure
<1>4. Works(x)'
  BY <1>1, <1>2, <1>3 DEF RunInv, RunTypes, Works, PromiseHolds, TestsHold, RowsHold, Writing
<1>5. \A y \in Executions \ {x} : SameAt(y)
  BY <1>1 DEF RunInv, RunTypes, SameAt
<1>6. SummaryInv'
  <2>1. SummaryKept(x)
    BY <1>1, <1>3 DEF SummaryKept
  <2>2. QED
    BY <1>2, <1>5, <2>1, SummaryStep DEF RunInv
<1>7. VerdictIsConsistent' /\ RunningKept(x) /\ TurnKept(x)
  BY <1>1, <1>2
  DEF RunInv, VerdictIsConsistent, RunningKept, TurnKept, Resting, Writing
<1>8. TimesInv'
  BY <1>1, <1>2, TimesSame DEF RunInv
<1>9. QED
  BY <1>2, <1>3, <1>4, <1>5, <1>6, <1>7, <1>8, ExecutionStep

LEMMA RevertStep ==
  ASSUME RunInv, NEW x \in Executions, Revert(x) PROVE RunInv'
<1>1. /\ stage[x] = "reverting" /\ stage' = [stage EXCEPT ![x] = "ended"]
      /\ UNCHANGED <<present, result, promises, todo, current, count, clock, taken>>
      /\ UNCHANGED troubles \/ Trouble("failure")
      /\ \/ run' = run /\ ("failure" \in troubles' \/ run.status = "deleted")
         \/ run' = [run EXCEPT !.status = "PENDING"]
  BY DEF Revert, tests, times, Reverted, RunExists, Trouble
<1>2. troubles \subseteq troubles' /\ troubles' \subseteq EnvironmentKinds
  BY <1>1, TroubleTypes DEF RunInv
<1>3. /\ run' \in [status : RunStatus, passed : Nat, failed : Nat,
                   startedAt : Nat, finishedAt : Nat]
      /\ run'.passed = run.passed /\ run'.failed = run.failed
      /\ run'.startedAt = run.startedAt
      /\ run' = run \/ run'.status = "PENDING"
  BY <1>1 DEF RunInv, RunTypes, RunStatus
<1>4. RunTypes' /\ stage'[x] = "ended"
  BY <1>1, <1>2, <1>3 DEF RunInv, RunTypes, Stages
<1>5. Works(x)'
  <2>1. Works(x) /\ stage[x] = "reverting"
    BY <1>1 DEF RunInv
  <2>2. UNCHANGED <<result, promises, todo, current, count>>
    BY <1>1
  <2>3. PromiseHolds(stage[x], promises[x], troubles)'
    BY <1>2, <1>4, <2>1, <2>2 DEF Works, PromiseHolds, Writing
  <2>4. RowsHold(stage[x], promises[x], todo[x], current[x], count[x], result[x], troubles)'
    BY <1>2, <1>4, <2>1, <2>2 DEF Works, RowsHold
  <2>5. QED
    BY <2>1, <2>2, <2>3, <2>4 DEF Works
<1>6. \A y \in Executions \ {x} : SameAt(y)
  BY <1>1 DEF RunInv, RunTypes, SameAt
<1>7. SummaryInv'
  <2>1. SummaryKept(x)
    BY <1>1, <1>3, <1>4 DEF SummaryKept
  <2>2. QED
    BY <1>2, <1>6, <2>1, SummaryStep DEF RunInv
<1>8. VerdictIsConsistent' /\ RunningKept(x) /\ TurnKept(x)
  BY <1>1, <1>2, <1>3, <1>4
     DEF RunInv, VerdictIsConsistent, RunningKept, TurnKept, Underway, Resting, Verdicts
<1>9. TimesInv'
  BY <1>1, <1>2, <1>3, TimesSame DEF RunInv
<1>10. QED
  BY <1>2, <1>4, <1>5, <1>6, <1>7, <1>8, <1>9, ExecutionStep

-----------------------------------------------------------------------------
(* The steps *)

\* The one promise that has not settled.
LEMMA OnePromise ==
  ASSUME RunInv, NEW x \in Executions, NEW step \in promises[x]
  PROVE  /\ step \in Writing /\ promises[x] = {step}
         /\ stage[x] = step \/ (stage[x] \in {"reverting", "ended"} /\ "timeout" \in troubles)
         /\ stage[x] \notin {"idle", "loading"} /\ ~Resting(x)
         /\ "removed" \notin troubles => Counted(count[x], result[x])
<1>1. /\ step \in Writing /\ stage[x] \in Stages
      /\ PromiseHolds(stage[x], promises[x], troubles)
      /\ "removed" \notin troubles => Counted(count[x], result[x])
  BY DEF RunInv, RunTypes, Works, RowsHold
<1>2. promises[x] = {step}
  BY <1>1 DEF PromiseHolds
<1>3. QED
  BY <1>1, <1>2 DEF PromiseHolds, Stages, Resting

LEMMA StartRunStep ==
  ASSUME RunInv, NEW x \in Executions, StartTestRun(x) PROVE RunInv'
<1>1. /\ "starting" \in promises[x] /\ Settle(x, "starting", "testing")
      /\ run' = [run EXCEPT !.status = "RUNNING", !.startedAt = taken[x]]
      /\ UNCHANGED <<present, result, troubles>>
  BY DEF StartTestRun
<1>2. /\ run' \in [status : RunStatus, passed : Nat, failed : Nat,
                   startedAt : Nat, finishedAt : Nat]
      /\ run'.passed = run.passed /\ run'.failed = run.failed /\ run'.status = "RUNNING"
      /\ run'.startedAt = taken[x] /\ taken[x] \in Nat
  BY <1>1 DEF RunInv, RunTypes, RunStatus
<1>3. /\ promises[x] = {"starting"} /\ ~Resting(x)
      /\ stage[x] = "starting" \/ (stage[x] \in {"reverting", "ended"} /\ "timeout" \in troubles)
  BY <1>1, OnePromise
<1>4. /\ RunTypes'
      /\ \A y \in Executions \ {x} : SameAt(y)
      /\ stage'[x] = IF stage[x] = "starting" THEN "testing" ELSE stage[x]
      /\ promises'[x] = IF stage[x] = "starting" THEN {"testing"} ELSE {}
      /\ IF stage[x] = "starting"
         THEN todo'[x] = todo[x] /\ current'[x] = current[x] /\ count'[x] = count[x]
         ELSE todo'[x] = {} /\ current'[x] = "none" /\ count'[x] = Zero
      /\ clock' = clock /\ taken'[x] = 0
      /\ \A y \in Executions \ {x} : taken'[y] = taken[y]
  <2>1. SettledAs(x, "starting", "testing")
    <3>1. "starting" \in Writing /\ RunTypes
      BY DEF Writing, RunInv
    <3>2. QED
      BY <1>1, <3>1, SettleEffect
  <2>2. RunTypes'
    BY <1>1, <1>2, <2>1 DEF RunInv, RunTypes, SettledAs
  <2>3. QED
    BY <1>1, <1>3, <2>1, <2>2 DEF SameAt, SettledAs, Writing
<1>5. Works(x) /\ result'[x] = result[x] /\ troubles' = troubles
  BY <1>1 DEF RunInv
<1>6. Works(x)'
  <2>1. CASE stage[x] = "starting"
    BY <1>3, <1>4, <1>5, <2>1 DEF Works, PromiseHolds, TestsHold, RowsHold, Writing
  <2>2. CASE stage[x] # "starting"
    <3>1. \A c \in Cases : result[x][c] # "RUNNING"
      BY <1>1, <1>5 DEF Works, RowsHold
    <3>2. /\ stage'[x] \in {"reverting", "ended"} /\ promises'[x] = {}
          /\ todo'[x] = {} /\ current'[x] = "none" /\ count'[x] = Zero
      BY <1>3, <1>4, <2>2
    <3>3. QED
      BY <1>5, <3>1, <3>2, ForgottenHolds DEF Works
  <2>3. QED
    BY <2>1, <2>2
<1>7. SummaryInv'
  <2>1. SummaryKept(x)
    BY <1>2, <1>3 DEF SummaryKept
  <2>2. QED
    BY <1>4, <1>5, <2>1, SummaryStep DEF RunInv
<1>8. VerdictIsConsistent' /\ RunningKept(x) /\ TurnKept(x)
  BY <1>2, <1>3, <1>4, <1>5
     DEF VerdictIsConsistent, Verdicts, RunningKept, TurnKept, Underway
\* Without overlap no other execution is about to complete the run.
<1>9. TimesInv'
  <2>1. taken[x] # 0 /\ taken[x] <= clock /\ clock \in Nat
    BY <1>1 DEF RunInv, TimesInv, RunTypes
  <2>2. "overlap" \notin troubles => \A y \in Executions \ {x} : promises[y] = {}
    BY <1>3 DEF RunInv, OneAtATime, Resting
  <2>3. \A y \in Executions \ {x} : promises'[y] = promises[y]
    BY <1>4 DEF SameAt
  <2>4. "completing" \notin promises'[x] /\ "starting" \notin promises'[x]
    BY <1>4
  <2>5. ASSUME NEW y \in Executions \ {x}
        PROVE  /\ taken'[y] <= clock'
               /\ {"starting", "completing"} \cap promises'[y] # {} => taken'[y] # 0
               /\ "overlap" \notin troubles' => "completing" \notin promises'[y]
    BY <1>4, <1>5, <2>2, <2>3 DEF RunInv, TimesInv
  <2>6. QED
    BY <1>2, <1>4, <2>1, <2>4, <2>5 DEF TimesInv
<1>10. QED
  BY <1>4, <1>5, <1>6, <1>7, <1>8, <1>9, ExecutionStep

LEMMA CreateResultStep ==
  ASSUME RunInv, NEW x \in Executions, NEW c \in Cases, CreateResult(x, c) PROVE RunInv'
<1>. DEFINE res == result[x]
<1>1. /\ "testing" \in promises[x] /\ current[x] = "none" /\ c \in todo[x]
      /\ result' = [result EXCEPT ![x] = [res EXCEPT ![c] = "RUNNING"]]
      /\ current' = [current EXCEPT ![x] = c]
      /\ UNCHANGED <<run, present, stage, promises, todo, count, clock, taken, troubles>>
  BY DEF CreateResult, times
<1>2. troubles' = troubles /\ troubles \subseteq troubles' /\ res \in [Cases -> ResultStatus]
  BY <1>1 DEF RunInv, RunTypes
<1>3. /\ promises[x] = {"testing"} /\ ~Resting(x) /\ c # "none"
      /\ PromiseHolds(stage[x], promises[x], troubles)
      /\ TestsHold(promises[x], todo[x], current[x], count[x])
      /\ RowsHold(stage[x], promises[x], todo[x], current[x], count[x], res, troubles)
  BY <1>1, OnePromise, CasesAssumption DEF RunInv, Works
<1>4. /\ result'[x] = [res EXCEPT ![c] = "RUNNING"] /\ result'[x][c] = "RUNNING"
      /\ \A d \in Cases : d # c => result'[x][d] = res[d]
      /\ result' \in [Executions -> [Cases -> ResultStatus]]
      /\ current'[x] = c /\ current' \in [Executions -> Cases \cup {"none"}]
  BY <1>1, <1>2 DEF RunInv, RunTypes, ResultStatus
<1>5. RunTypes'
  BY <1>1, <1>4 DEF RunInv, RunTypes
<1>6. res[c] = "none" /\ \A d \in todo[x] : res[d] = "none"
  BY <1>1, <1>3, CasesAssumption DEF RowsHold, RunInv, RunTypes
<1>7. Works(x)'
  <2>1. Counted(count[x], res) => Counted(count[x], result'[x])
    <3>1. \A status \in {"PASSED", "FAILED"} :
            {d \in Cases : res[d] = status} = {d \in Cases : result'[x][d] = status}
      BY <1>4, <1>6
    <3>2. QED
      BY <3>1 DEF Counted, Rows
  <2>2. RowsHold(stage[x], promises[x], todo[x], c, count[x], result'[x], troubles)
    <3>1. "starting" \notin promises[x] /\ stage[x] \notin {"idle", "loading"}
      BY <1>1, <1>3, OnePromise
    <3>2. \A d \in todo[x] : result'[x][d] = "none" \/ (d = c /\ result'[x][d] = "RUNNING")
      BY <1>4, <1>6 DEF RunInv, RunTypes
    <3>3. "removed" \notin troubles /\ promises[x] # {} => Counted(count[x], result'[x])
      BY <1>3, <2>1 DEF RowsHold
    <3>4. troubles \cap {"failure", "crash"} = {} =>
            \A d \in Cases : result'[x][d] = "RUNNING" => d = c
      BY <1>1, <1>3, <1>4, CasesAssumption DEF RowsHold
    <3>5. QED
      BY <1>4, <3>1, <3>2, <3>3, <3>4 DEF RowsHold
  <2>3. TestsHold(promises[x], todo[x], c, count[x])
    BY <1>1, <1>3 DEF TestsHold
  <2>4. QED
    BY <1>1, <1>3, <1>4, <2>2, <2>3 DEF Works
<1>8. \A y \in Executions \ {x} : SameAt(y)
  BY <1>1 DEF RunInv, RunTypes, SameAt
<1>9. SummaryInv'
  BY <1>1, <1>2, <1>8, SummaryStep DEF RunInv, SummaryKept
<1>10. VerdictIsConsistent' /\ RunningKept(x) /\ TurnKept(x)
  BY <1>1, <1>3 DEF RunInv, VerdictIsConsistent, RunningKept, TurnKept, Underway, OneAtATime
<1>11. TimesInv'
  BY <1>1, <1>2, TimesSame DEF RunInv
<1>12. QED
  BY <1>2, <1>5, <1>7, <1>8, <1>9, <1>10, <1>11, ExecutionStep

\* One row more says what was RUNNING before.
LEMMA OneRowMore ==
  ASSUME NEW res \in [Cases -> ResultStatus], NEW c \in Cases, res[c] = "RUNNING",
         NEW status \in {"PASSED", "FAILED"}
  PROVE  /\ Rows([res EXCEPT ![c] = status], status) = Rows(res, status) + 1
         /\ \A other \in {"PASSED", "FAILED"} \ {status} :
              Rows([res EXCEPT ![c] = status], other) = Rows(res, other)
<1>. DEFINE after == [res EXCEPT ![c] = status]
<1>1. /\ after[c] = status /\ \A d \in Cases : d # c => after[d] = res[d]
  OBVIOUS
<1>. HIDE DEF after
<1>2. {d \in Cases : after[d] = status} = {d \in Cases : res[d] = status} \cup {c}
  BY <1>1
<1>3. IsFiniteSet({d \in Cases : res[d] = status}) /\ c \notin {d \in Cases : res[d] = status}
  BY CasesAssumption, FS_Subset
<1>4. Rows(after, status) = Rows(res, status) + 1
  BY <1>2, <1>3, FS_AddElement DEF Rows
<1>5. \A other \in {"PASSED", "FAILED"} \ {status} :
        {d \in Cases : after[d] = other} = {d \in Cases : res[d] = other}
  BY <1>1
<1>6. QED
  BY <1>4, <1>5 DEF Rows, after

LEMMA RecordStep ==
  ASSUME RunInv, NEW x \in Executions, NEW status \in {"PASSED", "FAILED"},
         Record(x, status), UNCHANGED troubles \/ Trouble("failure")
  PROVE  RunInv'
<1>. DEFINE res == result[x]
            c == current[x]
            co == IF status = "PASSED" THEN [count[x] EXCEPT !.passed = @ + 1]
                                       ELSE [count[x] EXCEPT !.failed = @ + 1]
<1>1. /\ c # "none" /\ result[x][c] # "none"
      /\ result' = [result EXCEPT ![x] = [res EXCEPT ![c] = status]]
      /\ count' = [count EXCEPT ![x] = co]
      /\ todo' = [todo EXCEPT ![x] = todo[x] \ {c}]
      /\ current' = [current EXCEPT ![x] = "none"]
      /\ UNCHANGED <<run, present, stage, promises, clock, taken>>
  BY DEF Record, RowExists, TakenOff, RunInv, RunTypes, times
<1>2. /\ troubles \subseteq troubles' /\ troubles' \subseteq EnvironmentKinds
      /\ res \in [Cases -> ResultStatus] /\ c \in Cases
      /\ count[x] \in [passed : Nat, failed : Nat] /\ todo[x] \subseteq Cases
  BY <1>1, TroubleTypes DEF RunInv, RunTypes
<1>3. /\ PromiseHolds(stage[x], promises[x], troubles)
      /\ TestsHold(promises[x], todo[x], c, count[x])
      /\ RowsHold(stage[x], promises[x], todo[x], c, count[x], res, troubles)
  BY DEF RunInv, Works
<1>4. promises[x] = {"testing"} /\ ~Resting(x) /\ c \in todo[x] /\ res[c] = "RUNNING"
  <2>1. c \in todo[x] /\ "testing" \in promises[x]
    <3>1. promises[x] \subseteq Writing
      BY DEF RunInv, RunTypes
    <3>2. promises[x] # {} /\ "starting" \notin promises[x] /\ "completing" \notin promises[x]
      BY <1>1, <1>3 DEF TestsHold
    <3>3. QED
      BY <1>1, <1>3, <3>1, <3>2 DEF TestsHold, Writing
  <2>2. res[c] = "RUNNING"
    BY <1>1, <1>3, <2>1 DEF RowsHold
  <2>3. QED
    BY <2>1, <2>2, OnePromise
<1>5. /\ co \in [passed : Nat, failed : Nat] /\ co.passed + co.failed > 0
      /\ co.passed = (IF status = "PASSED" THEN count[x].passed + 1 ELSE count[x].passed)
      /\ co.failed = (IF status = "PASSED" THEN count[x].failed ELSE count[x].failed + 1)
  BY <1>2
<1>6. /\ result'[x] = [res EXCEPT ![c] = status] /\ result'[x][c] = status
      /\ \A d \in Cases : d # c => result'[x][d] = res[d]
      /\ result' \in [Executions -> [Cases -> ResultStatus]]
  BY <1>1, <1>2 DEF RunInv, RunTypes, ResultStatus
<1>7. Counted(count[x], res) => Counted(co, result'[x])
  <2>. HIDE DEF res, c, co
  <2>1. /\ Rows(result'[x], status) = Rows(res, status) + 1
        /\ \A other \in {"PASSED", "FAILED"} \ {status} :
             Rows(result'[x], other) = Rows(res, other)
    <3>. DEFINE after == [res EXCEPT ![c] = status]
    <3>1. res \in [Cases -> ResultStatus] /\ c \in Cases /\ res[c] = "RUNNING"
      BY <1>2, <1>4
    <3>2. /\ Rows(after, status) = Rows(res, status) + 1
          /\ \A other \in {"PASSED", "FAILED"} \ {status} : Rows(after, other) = Rows(res, other)
      BY <3>1, OneRowMore
    <3>3. result'[x] = after
      BY <1>6
    <3>. HIDE DEF after
    <3>4. QED
      BY <3>2, <3>3
  <2>2. CASE status = "PASSED"
    BY <1>5, <2>1, <2>2 DEF Counted
  <2>3. CASE status = "FAILED"
    BY <1>5, <2>1, <2>3 DEF Counted
  <2>4. QED
    BY <2>2, <2>3
<1>. HIDE DEF co
<1>8. /\ count'[x] = co /\ todo'[x] = todo[x] \ {c} /\ current'[x] = "none"
      /\ RunTypes'
  BY <1>1, <1>2, <1>5, <1>6 DEF RunInv, RunTypes
<1>9. Works(x)'
  <2>1. TestsHold(promises[x], todo[x] \ {c}, "none", co)
    BY <1>4, <1>5 DEF TestsHold
  <2>2. RowsHold(stage[x], promises[x], todo[x] \ {c}, "none", co, result'[x], troubles')
    <3>1. "starting" \notin promises[x] /\ stage[x] \notin {"idle", "loading"}
      BY <1>4, OnePromise
    <3>2. \A d \in todo[x] \ {c} : result'[x][d] = "none"
      BY <1>2, <1>3, <1>6 DEF RowsHold
    <3>3. "removed" \notin troubles' => Counted(co, result'[x])
      BY <1>2, <1>3, <1>4, <1>7 DEF RowsHold
    <3>4. troubles' \cap {"failure", "crash"} = {} =>
            \A d \in Cases : result'[x][d] # "RUNNING"
      BY <1>2, <1>3, <1>6 DEF RowsHold
    <3>5. QED
      BY <3>1, <3>2, <3>3, <3>4 DEF RowsHold
  <2>3. PromiseHolds(stage[x], promises[x], troubles')
    BY <1>2, <1>3 DEF PromiseHolds
  <2>4. QED
    BY <1>1, <1>8, <2>1, <2>2, <2>3 DEF Works
<1>10. \A y \in Executions \ {x} : SameAt(y)
  BY <1>1 DEF RunInv, RunTypes, SameAt
<1>11. SummaryInv'
  <2>1. SummaryKept(x)
    BY <1>1, <1>4 DEF SummaryKept
  <2>2. QED
    BY <1>2, <1>10, <2>1, SummaryStep DEF RunInv
<1>12. VerdictIsConsistent' /\ RunningKept(x) /\ TurnKept(x)
  BY <1>1, <1>2, <1>4 DEF RunInv, VerdictIsConsistent, RunningKept, TurnKept, Underway, OneAtATime
<1>13. TimesInv'
  BY <1>1, <1>2, TimesSame DEF RunInv
<1>14. QED
  BY <1>2, <1>8, <1>9, <1>10, <1>11, <1>12, <1>13, ExecutionStep

LEMMA EndTestsStep ==
  ASSUME RunInv, NEW x \in Executions, EndTests(x) PROVE RunInv'
<1>1. /\ "testing" \in promises[x] /\ current[x] = "none" /\ todo[x] = {}
      /\ Settle(x, "testing", "completing")
      /\ UNCHANGED <<run, present, result, troubles>>
  BY DEF EndTests, rows
<1>2. troubles' = troubles /\ troubles \subseteq troubles' /\ Works(x)
  BY <1>1 DEF RunInv
<1>3. /\ promises[x] = {"testing"} /\ ~Resting(x)
      /\ stage[x] = "testing" \/ (stage[x] \in {"reverting", "ended"} /\ "timeout" \in troubles)
  BY <1>1, OnePromise
<1>4. SettledAs(x, "testing", "completing")
  <2>1. "testing" \in Writing /\ RunTypes
    BY DEF Writing, RunInv
  <2>2. QED
    BY <1>1, <2>1, SettleEffect
<1>5. RunTypes'
  BY <1>1, <1>4 DEF RunInv, RunTypes, SettledAs
<1>6. /\ \A y \in Executions \ {x} : SameAt(y)
      /\ stage'[x] = IF stage[x] = "testing" THEN "completing" ELSE stage[x]
      /\ promises'[x] = IF stage[x] = "testing" THEN {"completing"} ELSE {}
      /\ IF stage[x] = "testing"
         THEN todo'[x] = todo[x] /\ current'[x] = current[x] /\ count'[x] = count[x]
         ELSE todo'[x] = {} /\ current'[x] = "none" /\ count'[x] = Zero
  BY <1>1, <1>3, <1>4 DEF SettledAs, SameAt, Writing
<1>7. result'[x] = result[x]
  BY <1>1
<1>8. Works(x)'
  <2>1. CASE stage[x] = "testing"
    <3>1. TestsHold({"completing"}, {}, "none", count[x])
      BY <1>1, <1>2, <1>3 DEF Works, TestsHold
    <3>2. PromiseHolds("completing", {"completing"}, troubles)
      BY DEF PromiseHolds, Writing
    <3>3. RowsHold("completing", {"completing"}, {}, "none", count[x], result[x], troubles)
      BY <1>1, <1>2, <1>3 DEF Works, RowsHold
    <3>4. QED
      BY <1>1, <1>2, <1>6, <1>7, <2>1, <3>1, <3>2, <3>3 DEF Works
  <2>2. CASE stage[x] # "testing"
    <3>1. troubles \cap {"failure", "crash"} = {} => \A c \in Cases : result[x][c] # "RUNNING"
      BY <1>1, <1>2, CasesAssumption DEF Works, RowsHold
    <3>2. /\ stage'[x] \in {"reverting", "ended"} /\ promises'[x] = {}
          /\ todo'[x] = {} /\ current'[x] = "none" /\ count'[x] = Zero
      BY <1>3, <1>6, <2>2
    <3>3. QED
      BY <1>2, <1>7, <3>1, <3>2, ForgottenHolds DEF Works
  <2>3. QED
    BY <2>1, <2>2
<1>9. SummaryInv'
  <2>1. SummaryKept(x)
    BY <1>1, <1>3 DEF SummaryKept
  <2>2. QED
    BY <1>2, <1>6, <2>1, SummaryStep DEF RunInv
<1>10. VerdictIsConsistent' /\ RunningKept(x) /\ TurnKept(x)
  BY <1>1, <1>2, <1>3, <1>6
     DEF RunInv, VerdictIsConsistent, RunningKept, TurnKept, Underway, OneAtATime
<1>11. TimesInv'
  <2>0. run' = run
    BY <1>1
  <2>1. CASE stage[x] = "testing"
    <3>1. /\ clock \in Nat /\ run.startedAt \in Nat /\ run.startedAt # 0
          /\ clock' = clock + 1 /\ taken'[x] = clock + 1
          /\ \A y \in Executions \ {x} :
               taken'[y] = taken[y] /\ promises'[y] = promises[y] /\ taken[y] \in Nat
      BY <1>3, <1>4, <2>1 DEF SettledAs, RunInv, RunTypes, TimesInv
    <3>2. run.startedAt < taken'[x] /\ taken'[x] # 0 /\ taken'[x] <= clock'
      BY <3>1 DEF RunInv, TimesInv
    <3>3. ASSUME NEW y \in Executions \ {x}
          PROVE  /\ taken'[y] <= clock'
                 /\ {"starting", "completing"} \cap promises'[y] # {} => taken'[y] # 0
                 /\ "overlap" \notin troubles' /\ "completing" \in promises'[y] =>
                      run.startedAt < taken'[y]
      BY <1>2, <3>1 DEF RunInv, TimesInv
    <3>4. run.startedAt <= clock'
      BY <3>1 DEF RunInv, TimesInv
    <3>5. QED
      BY <2>0, <3>1, <3>2, <3>3, <3>4 DEF TimesInv
  <2>2. CASE stage[x] # "testing"
    <3>1. clock' = clock /\ taken'[x] = 0 /\ promises'[x] = {}
      BY <1>4, <1>6, <2>2 DEF SettledAs
    <3>2. \A y \in Executions \ {x} : promises'[y] = promises[y] /\ taken'[y] = taken[y]
      BY <1>4 DEF SettledAs
    <3>3. QED
      BY <1>2, <2>0, <3>1, <3>2, TimesSame DEF RunInv
  <2>3. QED
    BY <2>1, <2>2
<1>12. QED
  BY <1>2, <1>5, <1>6, <1>8, <1>9, <1>10, <1>11, ExecutionStep

LEMMA CompleteRunStep ==
  ASSUME RunInv, NEW x \in Executions, CompleteTestRun(x) PROVE RunInv'
<1>. DEFINE co == count[x]
<1>1. /\ "completing" \in promises[x] /\ Settle(x, "completing", "ended")
      /\ run' = [run EXCEPT !.status = Verdict(co.passed, co.failed), !.passed = co.passed,
                            !.failed = co.failed, !.finishedAt = taken[x]]
      /\ UNCHANGED <<present, result, troubles>>
  BY DEF CompleteTestRun, Counts
<1>2. troubles' = troubles /\ troubles \subseteq troubles' /\ Works(x)
  BY <1>1 DEF RunInv
<1>3. /\ promises[x] = {"completing"} /\ ~Resting(x)
      /\ \/ stage[x] = "completing"
         \/ stage[x] \in {"reverting", "ended"} /\ "timeout" \in troubles
      /\ "removed" \notin troubles => Counted(co, result[x])
  BY <1>1, OnePromise
<1>4. /\ co \in [passed : Nat, failed : Nat] /\ co.passed + co.failed > 0
      /\ todo[x] = {} /\ current[x] = "none"
  BY <1>1, <1>2 DEF Works, TestsHold, RunInv, RunTypes
<1>5. /\ Verdict(co.passed, co.failed) \in {"PASSED", "FAILED", "PARTIAL"}
      /\ Verdict(co.passed, co.failed) = "PASSED" <=> co.failed = 0
      /\ Verdict(co.passed, co.failed) = "FAILED" <=> co.passed = 0
  BY <1>4 DEF Verdict
<1>6. /\ run'.passed = co.passed /\ run'.failed = co.failed /\ run'.finishedAt = taken[x]
      /\ run'.startedAt = run.startedAt
      /\ run'.status = Verdict(co.passed, co.failed)
      /\ run' \in [status : RunStatus, passed : Nat, failed : Nat,
                   startedAt : Nat, finishedAt : Nat]
  BY <1>1, <1>4, <1>5 DEF RunStatus, Verdicts, RunInv, RunTypes
<1>. HIDE DEF co
<1>7. SettledAs(x, "completing", "ended")
  <2>1. "completing" \in Writing /\ RunTypes
    BY DEF Writing, RunInv
  <2>2. QED
    BY <1>1, <2>1, SettleEffect
<1>8. RunTypes'
  BY <1>1, <1>6, <1>7 DEF RunInv, RunTypes, SettledAs
<1>9. /\ \A y \in Executions \ {x} : SameAt(y)
      /\ stage'[x] = IF stage[x] = "completing" THEN "ended" ELSE stage[x]
      /\ promises'[x] = {} /\ todo'[x] = {} /\ current'[x] = "none" /\ count'[x] = Zero
  BY <1>1, <1>3, <1>7 DEF SettledAs, SameAt, Writing
<1>10. stage'[x] \in {"reverting", "ended"} /\ result'[x] = result[x]
  BY <1>1, <1>3, <1>9
<1>11. Works(x)'
  <2>1. troubles \cap {"failure", "crash"} = {} => \A c \in Cases : result[x][c] # "RUNNING"
    BY <1>2, <1>4, CasesAssumption DEF Works, RowsHold
  <2>2. QED
    BY <1>2, <1>9, <1>10, <2>1, ForgottenHolds DEF Works
<1>12. SummaryInv'
  <2>1. "removed" \notin troubles' => Counted(run', result'[x])
    BY <1>2, <1>3, <1>6, <1>10 DEF Counted
  <2>2. QED
    BY <1>9, <1>10, <2>1 DEF SummaryInv
<1>13. VerdictIsConsistent'
  <2>1. /\ run.startedAt # 0 /\ taken[x] # 0
        /\ "overlap" \notin troubles => run.startedAt < taken[x]
    BY <1>3 DEF RunInv, TimesInv
  <2>2. QED
    BY <1>2, <1>4, <1>5, <1>6, <2>1 DEF VerdictIsConsistent
<1>16. TimesInv'
  <2>1. clock' = clock /\ taken'[x] = 0
    BY <1>7 DEF SettledAs
  <2>2. \A y \in Executions \ {x} : promises'[y] = promises[y] /\ taken'[y] = taken[y]
    BY <1>7 DEF SettledAs
  <2>3. QED
    BY <1>2, <1>6, <1>9, <2>1, <2>2, TimesSame DEF RunInv
<1>14. RunningKept(x) /\ TurnKept(x)
  <2>1. run'.status # "RUNNING"
    BY <1>5, <1>6
  <2>2. "timeout" \notin troubles' => ~Underway(x)'
    BY <1>2, <1>3, <1>9 DEF Underway
  <2>3. QED
    BY <1>2, <1>3, <2>1, <2>2 DEF RunningKept, TurnKept
<1>15. QED
  BY <1>2, <1>8, <1>9, <1>11, <1>12, <1>13, <1>14, <1>16, ExecutionStep

LEMMA RejectStep ==
  ASSUME RunInv, NEW x \in Executions, NEW step \in Writing, StepRejects(x, step)
  PROVE  RunInv'
<1>. DEFINE next == OnFailure(step)
<1>1. /\ step \in promises[x] /\ Settle(x, step, next)
      /\ UNCHANGED <<run, present, result>>
      /\ UNCHANGED troubles \/ Trouble("failure")
      /\ "failure" \notin troubles' /\ step = "testing" => CannotGoOn(x)
  BY DEF StepRejects, rows, Trouble
<1>2. /\ troubles \subseteq troubles' /\ troubles' \subseteq EnvironmentKinds
      /\ Works(x)
  BY <1>1, TroubleTypes DEF RunInv
<1>3. /\ promises[x] = {step} /\ ~Resting(x)
      /\ \/ stage[x] = step
         \/ stage[x] \in {"reverting", "ended"} /\ "timeout" \in troubles
  BY <1>1, OnePromise
<1>4. /\ next \in {"reverting", "ended"} /\ next \notin Writing
      /\ step \in {"testing", "completing"} => next = "reverting"
  BY DEF OnFailure, Writing
<1>. HIDE DEF next
<1>5. SettledAs(x, step, next)
  <2>1. RunTypes
    BY DEF RunInv
  <2>2. QED
    BY <1>1, <1>4, <2>1, SettleEffect
<1>6. RunTypes'
  BY <1>1, <1>2, <1>5 DEF RunInv, RunTypes, SettledAs
<1>7. /\ \A y \in Executions \ {x} : SameAt(y)
      /\ stage'[x] = IF stage[x] = step THEN next ELSE stage[x]
      /\ promises'[x] = {} /\ todo'[x] = {} /\ current'[x] = "none" /\ count'[x] = Zero
  BY <1>1, <1>3, <1>4, <1>5 DEF SettledAs, SameAt
<1>8. stage'[x] \in {"reverting", "ended"} /\ result'[x] = result[x]
  BY <1>1, <1>3, <1>4, <1>7
<1>9. Works(x)'
  <2>1. ASSUME troubles' \cap {"failure", "crash"} = {}, NEW c \in Cases,
               result[x][c] = "RUNNING"
        PROVE  FALSE
    <3>1. c = current[x] /\ c # "none"
      BY <1>2, <2>1, CasesAssumption DEF Works, RowsHold
    <3>2. step = "testing"
      BY <1>2, <1>3, <3>1 DEF Works, TestsHold, Writing
    <3>3. CannotGoOn(x)
      BY <1>1, <2>1, <3>2
    <3>4. QED
      BY <2>1, <3>1, <3>3 DEF CannotGoOn, RowExists
  <2>2. troubles' \cap {"failure", "crash"} = {} => \A c \in Cases : result[x][c] # "RUNNING"
    BY <2>1
  <2>3. QED
    BY <1>7, <1>8, <2>2, ForgottenHolds DEF Works
<1>10. SummaryInv'
  <2>1. SummaryKept(x)
    BY <1>1, <1>3 DEF SummaryKept
  <2>2. QED
    BY <1>2, <1>7, <2>1, SummaryStep DEF RunInv
<1>11. VerdictIsConsistent' /\ TimesInv'
  <2>1. clock' = clock /\ taken'[x] = 0
    BY <1>4, <1>5 DEF SettledAs
  <2>2. \A y \in Executions \ {x} : promises'[y] = promises[y] /\ taken'[y] = taken[y]
    BY <1>5 DEF SettledAs
  <2>3. TimesInv'
    BY <1>1, <1>2, <1>7, <2>1, <2>2, TimesSame DEF RunInv
  <2>4. QED
    BY <1>1, <1>2, <2>3 DEF RunInv, VerdictIsConsistent
<1>12. RunningKept(x)
  <2>. SUFFICES ASSUME "timeout" \notin troubles', run'.status = "RUNNING", ~Underway(x)'
                PROVE  run.status = "RUNNING" /\ ~Underway(x)
    BY DEF RunningKept
  <2>1. stage[x] = step /\ stage'[x] = next /\ next # "reverting"
    BY <1>2, <1>3, <1>7 DEF Underway
  <2>2. step = "starting"
    BY <1>4, <2>1 DEF Writing
  <2>3. QED
    BY <1>1, <2>1, <2>2 DEF Underway
<1>13. TurnKept(x)
  <2>. SUFFICES ASSUME troubles' \cap {"overlap", "timeout"} = {}, Underway(x)'
                PROVE  run'.status \in {"RUNNING", "deleted"}
    BY <1>3 DEF TurnKept
  <2>1. stage[x] = step /\ next = "reverting"
    BY <1>2, <1>3, <1>4, <1>7 DEF Underway
  <2>2. Underway(x)
    BY <2>1 DEF Underway, Writing, next, OnFailure
  <2>3. QED
    BY <1>1, <1>2, <2>2 DEF RunInv, OneAtATime
<1>14. QED
  BY <1>2, <1>6, <1>7, <1>9, <1>10, <1>11, <1>12, <1>13, ExecutionStep

-----------------------------------------------------------------------------
(* Deletions and the end of the process *)

LEMMA DeleteStep ==
  ASSUME RunInv, DeleteTestRun \/ \E c \in Cases : DeleteTestCase(c)
  PROVE  RunInv'
<1>1. /\ Trouble("removed")
      /\ UNCHANGED <<stage, promises, todo, current, count, clock, taken>>
      /\ \/ /\ run' = [run EXCEPT !.status = "deleted"] /\ present' = present
            /\ result' = [x \in Executions |-> [c \in Cases |-> "none"]]
         \/ /\ run' = run /\ present' \subseteq present
            /\ \E c \in Cases :
                 result' = [x \in Executions |-> [result[x] EXCEPT ![c] = "none"]]
  BY DEF DeleteTestRun, DeleteTestCase, tests, times
<1>2. /\ troubles \subseteq troubles' /\ troubles' \subseteq EnvironmentKinds
      /\ "removed" \in troubles' /\ troubles' = troubles \cup {"removed"}
  BY <1>1, TroubleTypes DEF RunInv, Trouble
<1>3. /\ result' \in [Executions -> [Cases -> ResultStatus]]
      /\ \A x \in Executions : \A c \in Cases :
           result'[x][c] = result[x][c] \/ result'[x][c] = "none"
  <2>1. \A x \in Executions : result[x] \in [Cases -> ResultStatus]
    BY DEF RunInv, RunTypes
  <2>2. QED
    BY <1>1, <2>1 DEF ResultStatus
<1>4. /\ run' \in [status : RunStatus, passed : Nat, failed : Nat,
                   startedAt : Nat, finishedAt : Nat]
      /\ run' = run \/ run'.status = "deleted"
      /\ run'.startedAt = run.startedAt
  BY <1>1 DEF RunInv, RunTypes, RunStatus
<1>5. RunTypes'
  BY <1>1, <1>2, <1>3, <1>4 DEF RunInv, RunTypes
<1>6. ASSUME NEW x \in Executions PROVE Works(x)'
  <2>1. Works(x)
    BY DEF RunInv
  <2>2. /\ stage'[x] = stage[x] /\ promises'[x] = promises[x] /\ todo'[x] = todo[x]
        /\ current'[x] = current[x] /\ count'[x] = count[x] /\ todo[x] \subseteq Cases
    BY <1>1 DEF RunInv, RunTypes
  <2>3. RowsHold(stage[x], promises[x], todo[x], current[x], count[x], result'[x], troubles')
    BY <1>2, <1>3, <2>1, <2>2 DEF Works, RowsHold
  <2>4. PromiseHolds(stage[x], promises[x], troubles')
    BY <1>2, <2>1 DEF Works, PromiseHolds
  <2>5. QED
    BY <2>1, <2>2, <2>3, <2>4 DEF Works
<1>7. VerdictIsConsistent' /\ SummaryInv'
  BY <1>2, <1>4 DEF RunInv, VerdictIsConsistent, SummaryInv, Verdicts
<1>8. RunningInv'
  BY <1>1, <1>2, <1>4 DEF RunInv, RunningInv, Underway
<1>9. OneAtATime'
  BY <1>1, <1>2, <1>4 DEF RunInv, OneAtATime, Underway, Resting
<1>10. TimesInv'
  BY <1>1, <1>2, <1>4, TimesSame DEF RunInv
<1>11. QED
  BY <1>5, <1>6, <1>7, <1>8, <1>9, <1>10 DEF RunInv

LEMMA CrashStep == RunInv /\ Crash => RunInv'
<1>. SUFFICES ASSUME RunInv, Crash PROVE RunInv'
  OBVIOUS
<1>1. /\ Trouble("crash") /\ UNCHANGED <<run, present, result, clock>>
      /\ taken' = [x \in Executions |-> 0]
      /\ stage' = [x \in Executions |-> IF stage[x] = "idle" THEN "idle" ELSE "ended"]
      /\ promises' = [x \in Executions |-> {}] /\ todo' = [x \in Executions |-> {}]
      /\ current' = [x \in Executions |-> "none"] /\ count' = [x \in Executions |-> Zero]
  BY DEF Crash, rows, Zero
<1>2. /\ troubles \subseteq troubles' /\ troubles' \subseteq EnvironmentKinds
      /\ "crash" \in troubles'
  BY <1>1, TroubleTypes DEF RunInv, Trouble
<1>3. RunTypes'
  BY <1>1, <1>2 DEF RunInv, RunTypes, Stages, Zero
<1>4. ASSUME NEW x \in Executions PROVE Works(x)'
  <2>1. /\ stage'[x] = (IF stage[x] = "idle" THEN "idle" ELSE "ended")
        /\ promises'[x] = {} /\ todo'[x] = {} /\ current'[x] = "none" /\ count'[x] = Zero
        /\ result'[x] = result[x]
    BY <1>1
  <2>2. stage[x] = "idle" => \A c \in Cases : result[x][c] = "none"
    BY DEF RunInv, Works, RowsHold
  <2>3. PromiseHolds(stage'[x], {}, troubles') /\ TestsHold({}, {}, "none", Zero)
    BY <2>1 DEF PromiseHolds, TestsHold, Writing
  <2>4. RowsHold(stage'[x], {}, {}, "none", Zero, result[x], troubles')
    BY <1>2, <2>1, <2>2 DEF RowsHold
  <2>5. QED
    BY <2>1, <2>3, <2>4 DEF Works
<1>5. VerdictIsConsistent' /\ RunningInv' /\ OneAtATime'
  BY <1>1, <1>2 DEF RunInv, VerdictIsConsistent, RunningInv, OneAtATime, Underway, Resting
<1>6. SummaryInv'
  <2>. SUFFICES ASSUME run.passed + run.failed > 0, "removed" \notin troubles
                PROVE  \E x \in Executions :
                         /\ stage'[x] \notin {"idle", "loading"} /\ promises'[x] = {}
                         /\ Counted(run', result'[x])
    BY <1>1, <1>2 DEF SummaryInv
  <2>1. PICK x \in Executions : stage[x] \notin {"idle", "loading"} /\ Counted(run, result[x])
    BY DEF RunInv, SummaryInv
  <2>2. QED
    BY <1>1, <2>1
<1>7. TimesInv'
  BY <1>1, <1>2, TimesSame DEF RunInv
<1>8. QED
  BY <1>3, <1>4, <1>5, <1>6, <1>7 DEF RunInv

-----------------------------------------------------------------------------
(* The theorems *)

LEMMA RunInitially == Init => RunInv
<1>. SUFFICES ASSUME Init PROVE RunInv
  OBVIOUS
<1>1. RunTypes /\ VerdictIsConsistent
  BY DEF Init, RunTypes, RunStatus, ResultStatus, Stages, VerdictIsConsistent, Verdicts
<1>2. ASSUME NEW x \in Executions PROVE Works(x)
  BY DEF Init, Works, PromiseHolds, TestsHold, RowsHold, Writing, Zero
<1>3. SummaryInv /\ RunningInv /\ OneAtATime /\ TimesInv
  BY DEF Init, SummaryInv, RunningInv, OneAtATime, Underway, Resting, TimesInv
<1>4. QED
  BY <1>1, <1>2, <1>3 DEF RunInv

LEMMA RunNextInv == RunInv /\ [Next]_vars => RunInv'
<1>. SUFFICES ASSUME RunInv, [Next]_vars PROVE RunInv'
  OBVIOUS
<1>1. ASSUME NEW x \in Executions, Saga(x) PROVE RunInv'
  BY <1>1, ExecuteStep, LoadDataStep, LoadFailsStep, TimeOutStep, RevertStep DEF Saga
<1>2. ASSUME NEW x \in Executions, Step(x) PROVE RunInv'
  <2>1. CASE RunTestCase(x) \/ UpdateFails(x)
    BY <2>1, RecordStep DEF RunTestCase, UpdateFails
  <2>2. QED
    BY <1>2, <2>1, StartRunStep, CreateResultStep, EndTestsStep, CompleteRunStep, RejectStep
       DEF Step
<1>3. CASE UNCHANGED vars
  <2>1. \A y \in Executions : SameAt(y)
    BY <1>3 DEF vars, rows, tests, SameAt
  <2>2. /\ UNCHANGED <<run, present, result, stage, promises, todo, current, count, troubles>>
        /\ UNCHANGED <<clock, taken>>
    BY <1>3 DEF vars, rows, tests, times
  <2>3. \A y \in Executions : Works(y)'
    BY <2>1, <2>2, WorksSame DEF RunInv
  <2>4. RunTypes' /\ VerdictIsConsistent'
    BY <2>2 DEF RunInv, RunTypes, VerdictIsConsistent
  <2>5. SummaryInv'
    BY <2>2 DEF RunInv, SummaryInv, Counted
  <2>6. RunningInv' /\ OneAtATime'
    BY <2>2 DEF RunInv, RunningInv, OneAtATime, Underway, Resting
  <2>7. TimesInv'
    BY <2>2, TimesSame DEF RunInv
  <2>8. QED
    BY <2>3, <2>4, <2>5, <2>6, <2>7 DEF RunInv
<1>4. QED
  BY <1>1, <1>2, <1>3, DeleteStep, CrashStep DEF Next

LEMMA RunInvariant == Spec => []RunInv
BY RunInitially, RunNextInv, PTL DEF Spec

\* Whichever executions of a run overlap, time out or break off: its verdict
\* agrees with its counters, these with the rows of one execution, and RUNNING
\* with something that runs.
THEOREM RunsTellTheTruth == Spec => []RunIsTruthful
<1>1. RunInv => RunIsTruthful
  <2>. SUFFICES ASSUME RunInv PROVE RunIsTruthful
    OBVIOUS
  <2>1. SummaryOfOneExecution
    BY DEF RunInv, SummaryInv, SummaryOfOneExecution, Counted, Rows, ResultsOf
  <2>2. NothingLeftRunning
    <3>. SUFFICES ASSUME Quiet, troubles \cap {"timeout", "failure", "crash"} = {}
                  PROVE  /\ run.status # "RUNNING"
                         /\ \A x \in Executions, c \in Cases : result[x][c] # "RUNNING"
      BY DEF NothingLeftRunning
    <3>1. \A x \in Executions : ~Underway(x) /\ promises[x] = {}
      BY DEF Quiet, Underway
    <3>2. run.status # "RUNNING"
      BY <3>1 DEF RunInv, RunningInv
    <3>3. \A x \in Executions : current[x] = "none"
      BY <3>1 DEF RunInv, Works, TestsHold
    <3>4. \A x \in Executions, c \in Cases : result[x][c] # "RUNNING"
      BY <3>3, CasesAssumption DEF RunInv, Works, RowsHold
    <3>5. QED
      BY <3>2, <3>4
  <2>3. QED
    BY <2>1, <2>2 DEF RunInv, RunIsTruthful
<1>2. QED
  BY RunInvariant, <1>1, PTL

\* Executions that neither overlap nor time out replace a verdict only by way of
\* RUNNING, or with the run.
THEOREM VerdictsStand == Spec => VerdictStands
<1>1. RunInv /\ [Next]_vars =>
        (troubles' \cap {"overlap", "timeout"} = {} =>
           (run.status \in Verdicts => run' = run \/ run'.status \in {"RUNNING", "deleted"}))
  <2>. SUFFICES ASSUME RunInv, [Next]_vars, troubles' \cap {"overlap", "timeout"} = {},
                       run.status \in Verdicts
                PROVE  run' = run \/ run'.status \in {"RUNNING", "deleted"}
    OBVIOUS
  <2>1. troubles \subseteq troubles'
    BY DEF Next, Saga, Step, ExecuteTestRun, LoadData, LoadFails, StepTimesOut, Revert,
       StartTestRun, CreateResult, RunTestCase, UpdateFails, EndTests, CompleteTestRun,
       StepRejects, DeleteTestRun, DeleteTestCase, Crash, Trouble, vars
  <2>2. \A x \in Executions : ~Underway(x)
    BY <2>1 DEF RunInv, OneAtATime, Verdicts
  <2>3. \A x \in Executions : "completing" \notin promises[x]
    <3>1. ASSUME NEW x \in Executions, "completing" \in promises[x] PROVE FALSE
      BY <2>1, <2>2, <3>1, OnePromise DEF Underway
    <3>2. QED
      BY <3>1
  <2>4. ASSUME NEW x \in Executions, Saga(x) PROVE run' = run
    BY <2>2, <2>4 DEF Saga, ExecuteTestRun, LoadData, LoadFails, StepTimesOut, Revert, rows,
       Underway
  <2>5. ASSUME NEW x \in Executions, Step(x)
        PROVE  run' = run \/ run'.status \in {"RUNNING", "deleted"}
    <3>1. CASE StartTestRun(x)
      BY <3>1 DEF StartTestRun, RunInv, RunTypes
    <3>2. CASE ~StartTestRun(x)
      BY <2>3, <2>5, <3>2 DEF Step, CreateResult, RunTestCase, UpdateFails, Record, EndTests,
         CompleteTestRun, StepRejects, rows
    <3>3. QED
      BY <3>1, <3>2
  <2>6. CASE DeleteTestRun
    BY <2>6 DEF DeleteTestRun, RunInv, RunTypes
  <2>7. QED
    BY <2>4, <2>5, <2>6 DEF Next, DeleteTestCase, Crash, rows, vars
<1>2. QED
  BY RunInvariant, <1>1, PTL DEF Spec, VerdictStands
==============================================================================
