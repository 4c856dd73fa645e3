-------------------------------- MODULE Saga --------------------------------
(***************************************************************************)
(* One execution of SagaOrchestrator.execute                               *)
(* (shared/common/src/saga/saga-orchestrator.service.ts).                  *)
(*                                                                         *)
(* The orchestrator is one async function.  It runs the steps one after    *)
(* the other, racing each step's promise against the saga's timeout, and   *)
(* on the first failure compensates the steps it counts as completed.  A   *)
(* step that loses the race is not cancelled: its promise keeps running    *)
(* beside the orchestrator and may still take effect.  That promise, the   *)
(* compensations, the optional hooks and the state store are the           *)
(* orchestrator's environment; Faults says which of them misbehave.        *)
(*                                                                         *)
(* Step i is the i-th step of sortSteps(steps).                            *)
(***************************************************************************)
EXTENDS Integers, Sequences, SequencesExt

CONSTANTS
  N,          \* the number of steps
  Effectful,  \* the steps that change something outside the saga
  HasStore,   \* whether the optional stateStore was injected
  Faults      \* what the environment may do wrong, see FaultKinds

FaultKinds ==
  { "timeout",       \* config.timeout is set and may fire
    "partial",       \* a step or a compensation may reject after it took effect
    "hook",          \* onStepComplete may throw
    "compensation",  \* a step's compensate may throw
    "swallow",       \* a step's compensate may catch its error and return
    "store",         \* stateStore.save or update may throw
    "crash" }        \* the process may stop

ASSUME NAssumption == N \in Nat
ASSUME EffectfulAssumption == Effectful \subseteq 1..N
ASSUME StoreAssumption == HasStore \in BOOLEAN
ASSUME FaultsAssumption == Faults \subseteq FaultKinds

VARIABLES
  pc,          \* where execute (or executeStep, compensate) is suspended
  completed,   \* completedSteps
  todo,        \* the steps compensate has not reached yet
  failedStep,  \* failedStep, 0 while undefined
  recorded,    \* the keys of context.stepResults
  status,      \* the status of the SagaResult, "none" before it is decided
  stored,      \* the status in the state store, "none" without an entry
  events,      \* the events published so far
  promise,     \* the promise of each step's execute
  effect,      \* what each step has changed outside the saga
  uncompensated \* history: the steps whose compensate did not do its work

orchestrator == <<completed, todo, failedStep, recorded, status, stored, events>>
outside == <<promise, effect, uncompensated>>
vars == <<pc, orchestrator, outside>>

Steps == 1..N

Suspended == { "idle", "loop", "awaitStep", "hook", "stepFailed",
               "compensating", "awaitCompensation", "decide", "saving" }
Stopped == { "returned", "threw", "crashed" }

SagaEvents == { "SAGA_STARTED", "SAGA_COMPLETED", "SAGA_FAILED",
                "SAGA_COMPENSATING", "SAGA_COMPENSATED" }
StepEvents == { "STEP_STARTED", "STEP_COMPLETED", "STEP_FAILED",
                "STEP_COMPENSATING", "STEP_COMPENSATED" }
Event == [type: SagaEvents \cup StepEvents, step: 0..N]

SagaEvent(t) == [type |-> t, step |-> 0]
StepEvent(t, i) == [type |-> t, step |-> i]
Published(t) == \E k \in DOMAIN events : events[k].type = t

\* The step the for loop is at: it stops at the first failure, so this is
\* the one after the completed ones.
current == Len(completed) + 1

Init ==
  /\ pc = "idle"
  /\ completed = <<>>
  /\ todo = <<>>
  /\ failedStep = 0
  /\ recorded = {}
  /\ status = "none"
  /\ stored = "none"
  /\ events = <<>>
  /\ promise = [i \in Steps |-> "idle"]
  /\ effect = [i \in Steps |-> "none"]
  /\ uncompensated = {}

-----------------------------------------------------------------------------
(* The orchestrator *)

\* SAGA_STARTED, then the initial save, which is outside the try block.
Start ==
  /\ pc = "idle"
  /\ events' = Append(events, SagaEvent("SAGA_STARTED"))
  /\ \/ /\ pc' = "loop"
        /\ stored' = IF HasStore THEN "IN_PROGRESS" ELSE stored
     \/ /\ HasStore /\ "store" \in Faults
        /\ pc' = "threw"
        /\ UNCHANGED stored
  /\ UNCHANGED <<completed, todo, failedStep, recorded, status, outside>>

\* The for loop has a step left; counting one too many would run off the end.
OneStepTooMany == current \in 1..(N + 1)
MoreSteps == current \in Steps

\* executeStep up to the race: the step's promise is now running.
StartStep ==
  /\ pc = "loop"
  /\ MoreSteps
  /\ pc' = "awaitStep"
  /\ events' = Append(events, StepEvent("STEP_STARTED", current))
  /\ promise' = [promise EXCEPT ![current] = "running"]
  /\ UNCHANGED <<completed, todo, failedStep, recorded, status, stored,
                 effect, uncompensated>>

\* Every step gets a timer of its own; one timer for the saga as a whole
\* would guard its first step only.
OnlyFirstStepTimed == "timeout" \in Faults /\ completed = <<>>
Timed == "timeout" \in Faults

\* The timer of executeWithTimeout wins the race.
Timeout ==
  /\ pc = "awaitStep"
  /\ Timed
  /\ pc' = "stepFailed"
  /\ UNCHANGED <<orchestrator, outside>>

\* onStepComplete returns (or is absent) and the step counts as completed.
CompleteStep ==
  /\ pc = "hook"
  /\ pc' = "loop"
  /\ completed' = Append(completed, current)
  /\ events' = Append(events, StepEvent("STEP_COMPLETED", current))
  /\ UNCHANGED <<todo, failedStep, recorded, status, stored, outside>>

\* onStepComplete throws: the step failed, although it has a result.
HookThrows ==
  /\ pc = "hook"
  /\ "hook" \in Faults
  /\ pc' = "stepFailed"
  /\ UNCHANGED <<orchestrator, outside>>

\* The order in which the loop hands its completed steps to compensate.
InCompletionOrder(s) == s
CompensationOrder(s) == Reverse(s)

\* The catch block of the loop.
FailStep ==
  /\ pc = "stepFailed"
  /\ pc' = "compensating"
  /\ failedStep' = current
  /\ todo' = CompensationOrder(completed)
  /\ events' = events \o << StepEvent("STEP_FAILED", current),
                            SagaEvent("SAGA_COMPENSATING") >>
  /\ UNCHANGED <<completed, recorded, status, stored, outside>>

\* One turn of compensate's loop, up to the call of step.compensate.
StartCompensation ==
  /\ pc = "compensating"
  /\ todo # <<>>
  /\ pc' = "awaitCompensation"
  /\ events' = Append(events, StepEvent("STEP_COMPENSATING", Head(todo)))
  /\ UNCHANGED <<completed, todo, failedStep, recorded, status, stored, outside>>

\* The loop has run out of steps.
EndLoop ==
  /\ pc = "loop"
  /\ ~MoreSteps
  /\ pc' = "decide"
  /\ UNCHANGED <<orchestrator, outside>>

\* compensate returns, and the loop breaks; without the break it would go on.
NoBreak == "loop"
Break == "decide"

EndCompensation ==
  /\ pc = "compensating"
  /\ todo = <<>>
  /\ pc' = Break
  /\ UNCHANGED <<orchestrator, outside>>

\* "Determine final status"; going by what completed would get it wrong.
StatusByCompleted == IF completed = <<>> THEN "COMPENSATED" ELSE "COMPLETED"
FinalStatus == IF failedStep # 0 THEN "COMPENSATED" ELSE "COMPLETED"

DecideStatus ==
  /\ pc = "decide"
  /\ pc' = "saving"
  /\ status' = FinalStatus
  /\ events' = Append(events, SagaEvent(IF FinalStatus = "COMPENSATED"
                                        THEN "SAGA_COMPENSATED"
                                        ELSE "SAGA_COMPLETED"))
  /\ UNCHANGED <<completed, todo, failedStep, recorded, stored, outside>>

\* stateStore.update, which saves anew what expired, and the return; when it throws the outer catch returns
\* FAILED and the store keeps what it had.
Return ==
  /\ pc = "saving"
  /\ pc' = "returned"
  /\ \/ /\ stored' = IF HasStore THEN status ELSE stored
        /\ UNCHANGED <<status, events>>
     \/ /\ HasStore /\ "store" \in Faults
        /\ status' = "FAILED"
        /\ events' = Append(events, SagaEvent("SAGA_FAILED"))
        /\ UNCHANGED stored
  /\ UNCHANGED <<completed, todo, failedStep, recorded, outside>>

-----------------------------------------------------------------------------
(* The steps *)

\* A running step changes what it is there to change.
TakeEffect(i) ==
  /\ promise[i] = "running"
  /\ i \in Effectful
  /\ effect[i] = "none"
  /\ effect' = [effect EXCEPT ![i] = "applied"]
  /\ UNCHANGED <<pc, orchestrator, promise, uncompensated>>

\* A promise only reaches the orchestrator while it still awaits it.
awaited(i) == pc = "awaitStep" /\ current = i

Resolve(i) ==
  /\ promise[i] = "running"
  /\ i \in Effectful => effect[i] = "applied"
  /\ promise' = [promise EXCEPT ![i] = "resolved"]
  /\ IF awaited(i)
       THEN pc' = "hook" /\ recorded' = recorded \cup {i}
       ELSE UNCHANGED <<pc, recorded>>
  /\ UNCHANGED <<completed, todo, failedStep, status, stored, events, effect,
                 uncompensated>>

Reject(i) ==
  /\ promise[i] = "running"
  /\ effect[i] = "applied" => "partial" \in Faults
  /\ promise' = [promise EXCEPT ![i] = "rejected"]
  /\ pc' = IF awaited(i) THEN "stepFailed" ELSE pc
  /\ UNCHANGED <<orchestrator, effect, uncompensated>>

Undone(i) == [effect EXCEPT ![i] = IF @ = "applied" THEN "undone" ELSE @]

\* step.compensate returns
CompensationSucceeds ==
  /\ pc = "awaitCompensation"
  /\ pc' = "compensating"
  /\ todo' = Tail(todo)
  /\ effect' = Undone(Head(todo))
  /\ events' = Append(events, StepEvent("STEP_COMPENSATED", Head(todo)))
  /\ UNCHANGED <<completed, failedStep, recorded, status, stored, promise,
                 uncompensated>>

\* step.compensate throws: logged, and the loop goes on with the rest instead
\* of giving up.
GiveUpOnError(s) == <<>>
GoOnAfterError(s) == Tail(s)

CompensationFails ==
  /\ pc = "awaitCompensation"
  /\ "compensation" \in Faults
  /\ pc' = "compensating"
  /\ todo' = GoOnAfterError(todo)
  /\ uncompensated' = uncompensated \cup {Head(todo)}
  /\ \/ UNCHANGED effect
     \/ "partial" \in Faults /\ effect' = Undone(Head(todo))
  /\ UNCHANGED <<completed, failedStep, recorded, status, stored, events,
                 promise>>

\* step.compensate catches what went wrong and returns: to the orchestrator
\* that is a compensation like any other.
CompensationSwallows ==
  /\ pc = "awaitCompensation"
  /\ "swallow" \in Faults
  /\ pc' = "compensating"
  /\ todo' = Tail(todo)
  /\ uncompensated' = uncompensated \cup {Head(todo)}
  /\ events' = Append(events, StepEvent("STEP_COMPENSATED", Head(todo)))
  /\ UNCHANGED <<completed, failedStep, recorded, status, stored, promise,
                 effect>>

\* The process stops: its promises die with it, and so does the store, a Map.
Crash ==
  /\ "crash" \in Faults
  /\ pc # "crashed"
  /\ pc' = "crashed"
  /\ stored' = "none"
  /\ promise' = [i \in Steps |-> IF promise[i] = "running" THEN "dead"
                                                           ELSE promise[i]]
  /\ UNCHANGED <<completed, todo, failedStep, recorded, status, events,
                 effect, uncompensated>>

\* get, or the sweep every five minutes, finds an entry of SagaStateStore that
\* was not updated for an hour.
Expire ==
  /\ stored # "none"
  /\ stored' = "none"
  /\ UNCHANGED <<pc, completed, todo, failedStep, recorded, status, events, outside>>

-----------------------------------------------------------------------------
Orchestrate == \/ StartStep \/ CompleteStep \/ HookThrows \/ FailStep
               \/ StartCompensation \/ EndLoop \/ EndCompensation
               \/ DecideStatus \/ Return

Settle(i) == Resolve(i) \/ Reject(i)

Compensate == \/ CompensationSucceeds \/ CompensationFails
              \/ CompensationSwallows

Next ==
  \/ Start
  \/ Orchestrate
  \/ Timeout
  \/ Compensate
  \/ \E i \in Steps : TakeEffect(i) \/ Settle(i)
  \/ Crash \/ Expire

Spec == Init /\ [][Next]_vars

\* What execute does of its own, between two awaits: of the events it awaits
\* no handler subscribes to any, and its store is a Map.
OwnTurn == \/ StartStep \/ StartCompensation \/ EndLoop \/ EndCompensation
           \/ DecideStatus \/ Return

\* The event loop runs what is runnable and timers fire.  Nothing is assumed
\* of what the steps bring along: their promises, their two hooks and their
\* compensations settle or never do.
Fairness == WF_vars(OwnTurn) /\ WF_vars(Timeout)
FairSpec == Spec /\ Fairness

-----------------------------------------------------------------------------
(* Properties *)

TypeOK ==
  /\ pc \in Suspended \cup Stopped
  /\ completed \in Seq(Steps)
  /\ todo \in Seq(Steps)
  /\ failedStep \in 0..N
  /\ recorded \subseteq Steps
  /\ status \in {"none", "COMPLETED", "COMPENSATED", "FAILED"}
  /\ stored \in {"none", "IN_PROGRESS", "COMPLETED", "COMPENSATED"}
  /\ events \in Seq(Event)
  /\ promise \in [Steps -> {"idle", "running", "resolved", "rejected", "dead"}]
  /\ effect \in [Steps -> {"none", "applied", "undone"}]
  /\ uncompensated \subseteq Steps

\* What the saga has in place outside itself, and what it may leave there
\* after a failure.
InPlace == {i \in Steps : effect[i] = "applied"}
RolledBack == /\ failedStep # 0
              /\ InPlace \subseteq {failedStep} \cup uncompensated

\* Once compensation is over, whatever is still in place belongs to the step
\* that failed or to a step whose own compensate threw: no completed step is
\* overlooked, whichever hooks, timers and compensations went wrong on the
\* way (compensate goes on after an error).  A compensation that kept its
\* error to itself did not do its work either.
EveryEffectAccountedFor ==
  failedStep # 0 /\ pc \in {"decide", "saving", "returned"} => RolledBack

\* Compensations start in the reverse order of the completions, each step's
\* at most once, and only those of steps that completed before the failure.
CompensatesInReverse ==
  \A k \in DOMAIN events : events[k].type = "STEP_COMPENSATING" =>
    /\ \E j \in 1..k : events[j] = StepEvent("STEP_COMPLETED", events[k].step)
    /\ \A l \in 1..(k - 1) : events[l].type = "STEP_COMPENSATING"
                               => events[l].step > events[k].step

\* A saga that announced SAGA_COMPLETED has all of its effects in place and
\* keeps them: no late promise, hook, store failure or crash takes one back.
\* And the store is never ahead of the saga: a stored outcome is one the world
\* outside already shows, also when the update that stores it comes after the
\* entry expired.
OutcomeHolds ==
  /\ Published("SAGA_COMPLETED") \/ stored = "COMPLETED" => InPlace = Effectful
  /\ stored = "COMPENSATED" => RolledBack

\* Once a step has failed no step is started, and only the failed step's own
\* promise may still change anything, apart from the compensation under way.
AfterFailureOnlyTheFailedStepLingers ==
  [][failedStep # 0 =>
       \A i \in Steps \ {failedStep} :
         /\ promise[i] = "idle" => promise'[i] = "idle"
         /\ effect'[i] # effect[i] => pc = "awaitCompensation" /\ i = Head(todo)
    ]_vars

\* The awaits that executeWithTimeout is not around: the hooks of a step and
\* its compensation.
Untimed == {"hook", "stepFailed", "awaitCompensation"}

\* With a timeout configured a saga that started comes to an end, even if the
\* promises of its steps never settle, unless a hook or a compensation never
\* does (executeWithTimeout around each step, whichever one it is).
SagaEnds == []<>(pc \notin Untimed) => ((pc # "idle") ~> (pc \in Stopped))

-----------------------------------------------------------------------------
(* The all-or-nothing contract that the saga keeps when nothing misbehaves *)

\* What the saga has still to answer for: an effect whose compensation kept its
\* failure to itself is one it takes for gone.
Owed == InPlace \ uncompensated

\* Without timeouts and throwing hooks a saga gives up when a step rejects.
Phase == IF \E i \in Steps : promise[i] = "rejected" THEN "backward" ELSE "forward"

Contract == INSTANCE SagaContract WITH
  inPlace <- Owed, phase <- Phase, outcome <- status

\* Every step of the orchestrator and its participants is a step of the
\* contract or changes nothing the contract speaks of.
ContractHolds == Contract!Spec
=============================================================================
