----------------------------- MODULE SagaProofs -----------------------------
(***************************************************************************)
(* Theorems about module Saga, for every number of steps, every set of     *)
(* effectful steps and every combination of faults.                        *)
(***************************************************************************)
EXTENDS Saga, SequenceTheorems, TLAPS

USE DEF Steps, current

-----------------------------------------------------------------------------
(* Facts about the sequences the orchestrator keeps *)

\* Appending to the event log adds exactly that event.
LEMMA AppendedEvents ==
  ASSUME NEW s \in Seq(Event), NEW e \in Event
  PROVE  /\ Append(s, e) \in Seq(Event)
         /\ \A t : (\E k \in DOMAIN Append(s, e) : Append(s, e)[k].type = t)
                   <=> (\E k \in DOMAIN s : s[k].type = t) \/ e.type = t
<1>1. /\ Append(s, e) \in Seq(Event)
      /\ Len(Append(s, e)) = Len(s) + 1
      /\ \A k \in 1..Len(s) : Append(s, e)[k] = s[k]
      /\ Append(s, e)[Len(s) + 1] = e
      /\ DOMAIN s = 1..Len(s)
      /\ DOMAIN Append(s, e) = 1..(Len(s) + 1)
      /\ Len(s) \in Nat
  OBVIOUS
<1>2. ASSUME NEW t, NEW k \in DOMAIN Append(s, e), Append(s, e)[k].type = t
      PROVE  (\E j \in DOMAIN s : s[j].type = t) \/ e.type = t
  <2>1. CASE k = Len(s) + 1
    BY <1>1, <1>2, <2>1
  <2>2. CASE k # Len(s) + 1
    <3>1. k \in 1..Len(s)
      BY <1>1, <2>2
    <3>2. QED
      BY <1>1, <1>2, <3>1
  <2>3. QED
    BY <2>1, <2>2
<1>3. ASSUME NEW t, NEW k \in DOMAIN s, s[k].type = t
      PROVE  \E j \in DOMAIN Append(s, e) : Append(s, e)[j].type = t
  <2>1. k \in DOMAIN Append(s, e) /\ Append(s, e)[k] = s[k]
    BY <1>1
  <2>2. QED
    BY <1>3, <2>1
<1>4. ASSUME NEW t, e.type = t
      PROVE  \E j \in DOMAIN Append(s, e) : Append(s, e)[j].type = t
  BY <1>1, <1>4
<1>5. QED
  BY <1>1, <1>2, <1>3, <1>4

\* completedSteps counts up, the list handed to compensate counts down.
CountsUp(s) == \A i \in 1..Len(s) : s[i] = i
CountsDown(s) == \A j \in 1..Len(s) : s[j] = Len(s) + 1 - j

LEMMA AppendedCount ==
  ASSUME NEW s \in Seq(Steps), CountsUp(s), Len(s) + 1 \in Steps
  PROVE  /\ Append(s, Len(s) + 1) \in Seq(Steps)
         /\ Len(Append(s, Len(s) + 1)) = Len(s) + 1
         /\ CountsUp(Append(s, Len(s) + 1))
<1>1. /\ Len(s) \in Nat
      /\ Append(s, Len(s) + 1) \in Seq(Steps)
      /\ Len(Append(s, Len(s) + 1)) = Len(s) + 1
      /\ \A i \in 1..Len(s) : Append(s, Len(s) + 1)[i] = s[i]
      /\ Append(s, Len(s) + 1)[Len(s) + 1] = Len(s) + 1
  OBVIOUS
<1>2. \A i \in 1..(Len(s) + 1) : Append(s, Len(s) + 1)[i] = i
  BY <1>1 DEF CountsUp
<1>3. QED
  BY <1>1, <1>2 DEF CountsUp

LEMMA ReversedCount ==
  ASSUME NEW s \in Seq(Steps), CountsUp(s)
  PROVE  /\ Reverse(s) \in Seq(Steps)
         /\ Len(Reverse(s)) = Len(s)
         /\ CountsDown(Reverse(s))
<1>1. Len(s) \in Nat /\ \A i \in 1..Len(s) : s[i] \in Steps
  BY LenProperties, ElementOfSeq
<1>2. Reverse(s) \in [1..Len(s) -> Steps]
  BY <1>1 DEF Reverse
<1>3. ASSUME NEW n \in Nat, NEW r \in [1..n -> Steps]
      PROVE  r \in Seq(Steps) /\ Len(r) = n
  <2>1. r \in Seq(Steps)
    BY SeqDef, Zenon
  <2>2. DOMAIN r = 1..n /\ DOMAIN r = 1..Len(r) /\ Len(r) \in Nat
    BY <2>1, LenProperties
  <2>3. QED
    BY <2>1, <2>2
<1>4. Reverse(s) \in Seq(Steps) /\ Len(Reverse(s)) = Len(s)
  BY <1>1, <1>2, <1>3
<1>5. \A j \in 1..Len(s) : Reverse(s)[j] = s[(Len(s) - j) + 1]
  BY DEF Reverse
<1>6. \A j \in 1..Len(s) : Reverse(s)[j] = Len(s) + 1 - j
  BY <1>1, <1>5 DEF CountsUp
<1>7. QED
  BY <1>4, <1>6 DEF CountsDown

LEMMA TailOfCountdown ==
  ASSUME NEW s \in Seq(Steps), CountsDown(s), s # <<>>
  PROVE  /\ Head(s) = Len(s)
         /\ Head(s) \in Steps
         /\ Tail(s) \in Seq(Steps)
         /\ Len(Tail(s)) = Len(s) - 1
         /\ CountsDown(Tail(s))
<1>1. /\ Len(s) \in Nat \ {0}
      /\ Head(s) = s[1]
      /\ Head(s) \in Steps
      /\ Tail(s) \in Seq(Steps)
      /\ Len(Tail(s)) = Len(s) - 1
      /\ \A j \in 1..Len(Tail(s)) : Tail(s)[j] = s[j + 1]
  <2>1. Len(s) \in Nat \ {0}
    BY EmptySeq
  <2>2. Head(s) = s[1]
    BY <2>1
  <2>3. QED
    BY <2>1, <2>2, HeadTailProperties
<1>2. s[1] = Len(s)
  BY <1>1 DEF CountsDown
<1>3. \A j \in 1..Len(Tail(s)) : Tail(s)[j] = Len(Tail(s)) + 1 - j
  BY <1>1 DEF CountsDown
<1>4. QED
  BY <1>1, <1>2, <1>3 DEF CountsDown

-----------------------------------------------------------------------------
(* The inductive invariant *)

\* The loop walks the steps in order and never past the last one.
LoopInv ==
  /\ CountsUp(completed)
  /\ Len(completed) <= N
  /\ pc \in {"awaitStep", "hook", "stepFailed"} => current \in Steps

\* Steps the loop has not reached are untouched, steps it has passed settled
\* before it went on.
StepInv ==
  /\ \A i \in Steps : i > current => promise[i] = "idle"
  /\ \A i \in Steps : i = current /\ pc \in {"idle", "loop"} => promise[i] = "idle"
  /\ \A i \in Steps : i < current => promise[i] = "resolved"
  /\ \A i \in Steps : promise[i] = "idle" => effect[i] = "none"

\* A failure is recorded exactly when compensation begins, for the step the
\* loop is at, and without one a passed step's effect is in place.
FailureInv ==
  /\ failedStep \in {0, current}
  /\ pc \in {"idle", "loop", "awaitStep", "hook", "stepFailed"} => failedStep = 0
  /\ pc \in {"compensating", "awaitCompensation"} => failedStep # 0
  /\ failedStep # 0 => current \in Steps
  /\ pc \in {"decide", "saving", "returned"} /\ failedStep = 0 => Len(completed) = N
  /\ failedStep = 0 =>
       \A i \in Effectful : i < current => effect[i] = "applied"
  /\ pc = "hook" /\ current \in Effectful => effect[current] = "applied"
  /\ pc = "hook" => promise[current] = "resolved"
  /\ \A i \in Steps : effect[i] = "applied" => i \in Effectful

\* What compensate has passed is undone, or its compensation threw.
CompensationInv ==
  /\ pc \in {"compensating", "awaitCompensation"} =>
       /\ CountsDown(todo)
       /\ Len(todo) <= Len(completed)
       /\ \A i \in Steps : Len(todo) < i /\ i < current /\ effect[i] = "applied"
                             => i \in uncompensated
  /\ pc = "awaitCompensation" => todo # <<>>
  /\ pc \in {"decide", "saving", "returned"} /\ failedStep # 0 =>
       \A i \in Steps : i < current /\ effect[i] = "applied" => i \in uncompensated

\* The announcement and the stored outcome come after the fact.
OutcomeInv ==
  /\ Published("SAGA_COMPLETED") =>
       failedStep = 0 /\ Len(completed) = N /\ pc \in {"saving", "returned", "crashed"}
  /\ pc = "saving" => status = FinalStatus
  /\ stored = "COMPLETED" => pc = "returned" /\ failedStep = 0
  /\ stored = "COMPENSATED" => pc = "returned" /\ failedStep # 0

IInv == TypeOK /\ LoopInv /\ StepInv /\ FailureInv /\ CompensationInv /\ OutcomeInv

-----------------------------------------------------------------------------
(* Type correctness *)

\* Every event the orchestrator appends is an event.
LEMMA EventType ==
  /\ \A t \in SagaEvents : SagaEvent(t) \in Event
  /\ \A t \in StepEvents, i \in Steps : StepEvent(t, i) \in Event
BY NAssumption DEF SagaEvent, StepEvent, Event

LEMMA TypeInit == Init => TypeOK
<1>. SUFFICES ASSUME Init PROVE TypeOK
  OBVIOUS
<1>1. completed \in Seq(Steps) /\ todo \in Seq(Steps) /\ events \in Seq(Event)
  BY EmptySeq DEF Init
<1>2. QED
  BY <1>1, NAssumption DEF Init, TypeOK, Suspended

\* Every step keeps the types: the log, completed and todo only change by
\* Append, Reverse and Tail.
LEMMA TypeNext == IInv /\ [Next]_vars => TypeOK'
<1>. SUFFICES ASSUME TypeOK, LoopInv, CompensationInv, OutcomeInv, [Next]_vars
              PROVE  TypeOK'
  BY DEF IInv
<1>. USE NAssumption DEF TypeOK, Suspended, Stopped, orchestrator, outside
<1>0. Len(completed) \in Nat
  BY LenProperties
<1>1. CASE Start
  <2>1. events' \in Seq(Event)
    BY <1>1, EventType, AppendedEvents DEF Start, SagaEvents
  <2>2. QED
    BY <1>1, <2>1 DEF Start
<1>2. CASE StartStep
  <2>1. events' \in Seq(Event)
    BY <1>2, EventType, AppendedEvents DEF StartStep, MoreSteps, StepEvents
  <2>2. QED
    BY <1>2, <2>1 DEF StartStep, MoreSteps
<1>3. CASE CompleteStep
  <2>1. events' \in Seq(Event) /\ completed' \in Seq(Steps)
    BY <1>3, EventType, AppendedEvents, AppendedCount
       DEF CompleteStep, LoopInv, StepEvents
  <2>2. QED
    BY <1>3, <2>1 DEF CompleteStep
<1>4. CASE HookThrows
  BY <1>4 DEF HookThrows
<1>5. CASE FailStep
  <2>1. current \in Steps
    BY <1>5 DEF FailStep, LoopInv
  <2>2. << StepEvent("STEP_FAILED", current), SagaEvent("SAGA_COMPENSATING") >>
          \in Seq(Event)
    BY <2>1, EventType DEF StepEvents, SagaEvents
  <2>3. events' \in Seq(Event)
    BY <1>5, <2>2, ConcatProperties DEF FailStep
  <2>4. todo' \in Seq(Steps)
    BY <1>5, ReversedCount DEF FailStep, CompensationOrder, LoopInv
  <2>5. QED
    BY <1>5, <2>1, <2>3, <2>4 DEF FailStep
<1>6. CASE StartCompensation
  <2>1. events' \in Seq(Event)
    BY <1>6, EventType, AppendedEvents, TailOfCountdown
       DEF StartCompensation, CompensationInv, StepEvents
  <2>2. QED
    BY <1>6, <2>1 DEF StartCompensation
<1>7. CASE EndLoop \/ EndCompensation
  BY <1>7 DEF EndLoop, EndCompensation, Break
<1>8. CASE DecideStatus
  <2>1. events' \in Seq(Event)
    BY <1>8, EventType, AppendedEvents DEF DecideStatus, SagaEvents
  <2>2. QED
    BY <1>8, <2>1 DEF DecideStatus, FinalStatus
<1>9. CASE Return
  <2>1. Append(events, SagaEvent("SAGA_FAILED")) \in Seq(Event)
    BY EventType, AppendedEvents DEF SagaEvents
  <2>2. status \in {"COMPLETED", "COMPENSATED"}
    BY <1>9 DEF Return, OutcomeInv, FinalStatus
  <2>3. QED
    BY <1>9, <2>1, <2>2 DEF Return
<1>10. CASE Timeout
  BY <1>10 DEF Timeout
<1>11. CASE Compensate
  <2>1. Head(todo) \in Steps /\ Tail(todo) \in Seq(Steps)
    BY <1>11, TailOfCountdown
       DEF Compensate, CompensationSucceeds, CompensationFails, CompensationSwallows, CompensationInv
  <2>2. Undone(Head(todo)) \in [Steps -> {"none", "applied", "undone"}]
    BY <2>1 DEF Undone
  <2>3. Append(events, StepEvent("STEP_COMPENSATED", Head(todo))) \in Seq(Event)
    BY <2>1, EventType, AppendedEvents DEF StepEvents
  <2>4. QED
    BY <1>11, <2>1, <2>2, <2>3
       DEF Compensate, CompensationSucceeds, CompensationFails, CompensationSwallows, GoOnAfterError
<1>12. ASSUME NEW i \in Steps, TakeEffect(i) PROVE TypeOK'
  BY <1>12 DEF TakeEffect
<1>13. ASSUME NEW i \in Steps, Settle(i) PROVE TypeOK'
  <2>1. CASE Resolve(i)
    BY <2>1 DEF Resolve
  <2>2. CASE Reject(i)
    BY <2>2 DEF Reject
  <2>3. QED
    BY <1>13, <2>1, <2>2 DEF Settle
<1>14. CASE Crash \/ Expire
  <2>1. CASE Crash
    BY <2>1 DEF Crash
  <2>2. CASE Expire
    BY <2>2 DEF Expire
  <2>3. QED
    BY <1>14, <2>1, <2>2
<1>15. CASE UNCHANGED vars
  BY <1>15 DEF vars
<1>16. QED
  BY <1>1, <1>2, <1>3, <1>4, <1>5, <1>6, <1>7, <1>8, <1>9, <1>10, <1>11, <1>12,
     <1>13, <1>14, <1>15 DEF Next, Orchestrate

-----------------------------------------------------------------------------
(* The invariant is inductive *)

LEMMA InvInit == Init => IInv
<1>. SUFFICES ASSUME Init PROVE IInv
  OBVIOUS
<1>1. Len(completed) = 0 /\ DOMAIN events = {}
  BY DEF Init
<1>2. LoopInv
  BY <1>1, NAssumption DEF Init, LoopInv, CountsUp
<1>3. StepInv
  BY <1>1 DEF Init, StepInv
<1>4. FailureInv
  BY <1>1, EffectfulAssumption DEF Init, FailureInv
<1>5. CompensationInv
  BY DEF Init, CompensationInv
<1>6. OutcomeInv
  BY <1>1 DEF Init, OutcomeInv, Published
<1>7. QED
  BY <1>2, <1>3, <1>4, <1>5, <1>6, TypeInit DEF IInv

LEMMA LoopNext == IInv /\ [Next]_vars => LoopInv'
<1>. SUFFICES ASSUME IInv, [Next]_vars PROVE LoopInv'
  OBVIOUS
<1>. USE NAssumption DEF IInv, TypeOK, LoopInv, orchestrator, outside
<1>0. Len(completed) \in Nat
  BY LenProperties
<1>1. CASE CompleteStep
  <2>1. CountsUp(completed') /\ Len(completed') = Len(completed) + 1
    BY <1>1, AppendedCount DEF CompleteStep
  <2>2. QED
    BY <1>0, <1>1, <2>1 DEF CompleteStep
<1>2. ASSUME UNCHANGED completed,
             pc' \in {"awaitStep", "hook", "stepFailed"} => current \in Steps
      PROVE  LoopInv'
  BY <1>2 DEF CountsUp
<1>3. CASE Start \/ StartStep \/ HookThrows \/ FailStep \/ StartCompensation
           \/ EndLoop \/ EndCompensation \/ DecideStatus \/ Return \/ Timeout
  BY <1>2, <1>3 DEF Start, StartStep, MoreSteps, HookThrows, FailStep, Timeout,
     StartCompensation, EndLoop, EndCompensation, Break, DecideStatus, Return
<1>4. CASE Compensate \/ Crash \/ Expire \/ UNCHANGED vars
  BY <1>2, <1>4 DEF Compensate, CompensationSucceeds, CompensationFails, CompensationSwallows, Crash, Expire, vars
<1>5. ASSUME NEW i \in Steps, TakeEffect(i) \/ Settle(i) PROVE LoopInv'
  BY <1>2, <1>5 DEF TakeEffect, Settle, Resolve, Reject, awaited
<1>6. QED
  BY <1>1, <1>3, <1>4, <1>5 DEF Next, Orchestrate

LEMMA StepNext == IInv /\ [Next]_vars => StepInv'
<1>. SUFFICES ASSUME IInv, [Next]_vars PROVE StepInv'
  OBVIOUS
<1>. USE NAssumption DEF IInv, TypeOK, StepInv, orchestrator, outside
<1>0. Len(completed) \in Nat
  BY LenProperties
<1>1. CASE Start
  BY <1>0, <1>1 DEF Start
<1>2. CASE StartStep
  BY <1>0, <1>2 DEF StartStep, MoreSteps
<1>3. CASE CompleteStep
  <2>1. Len(completed') = Len(completed) + 1
    BY <1>3, AppendedCount DEF CompleteStep, LoopInv
  <2>2. QED
    BY <1>0, <1>3, <2>1 DEF CompleteStep, LoopInv, FailureInv
<1>4. CASE HookThrows \/ FailStep \/ StartCompensation \/ EndLoop \/ EndCompensation
           \/ DecideStatus \/ Return \/ Timeout \/ UNCHANGED vars
  BY <1>0, <1>4 DEF HookThrows, FailStep, StartCompensation, EndLoop,
     EndCompensation, Break, DecideStatus, Return, Timeout, vars
<1>5. CASE Compensate
  <2>1. CASE CompensationSucceeds
    BY <1>0, <2>1 DEF CompensationSucceeds, Undone
  <2>2. CASE CompensationFails \/ CompensationSwallows
    BY <1>0, <2>2 DEF CompensationFails, CompensationSwallows, Undone
  <2>3. QED
    BY <1>5, <2>1, <2>2 DEF Compensate
<1>6. ASSUME NEW i \in Steps, TakeEffect(i) \/ Settle(i) PROVE StepInv'
  <2>1. CASE TakeEffect(i)
    BY <1>0, <2>1 DEF TakeEffect
  <2>2. CASE Resolve(i)
    BY <1>0, <2>2 DEF Resolve, awaited
  <2>3. CASE Reject(i)
    BY <1>0, <2>3 DEF Reject, awaited
  <2>4. QED
    BY <1>6, <2>1, <2>2, <2>3 DEF Settle
<1>7. CASE Crash \/ Expire
  BY <1>0, <1>7 DEF Crash, Expire
<1>8. QED
  BY <1>1, <1>2, <1>3, <1>4, <1>5, <1>6, <1>7 DEF Next, Orchestrate

LEMMA FailureNext == IInv /\ [Next]_vars => FailureInv'
<1>. SUFFICES ASSUME IInv, [Next]_vars PROVE FailureInv'
  OBVIOUS
<1>. USE NAssumption, EffectfulAssumption
     DEF IInv, TypeOK, FailureInv, orchestrator, outside
<1>0. Len(completed) \in Nat
  BY LenProperties
<1>1. CASE Start \/ StartStep \/ HookThrows \/ Timeout \/ UNCHANGED vars
  BY <1>0, <1>1 DEF Start, StartStep, MoreSteps, HookThrows, Timeout, vars
<1>2. CASE CompleteStep
  <2>1. Len(completed') = Len(completed) + 1
    BY <1>2, AppendedCount DEF CompleteStep, LoopInv
  <2>2. QED
    BY <1>0, <1>2, <2>1 DEF CompleteStep
<1>3. CASE FailStep
  BY <1>0, <1>3 DEF FailStep, LoopInv
<1>4. CASE EndLoop
  BY <1>0, <1>4 DEF EndLoop, MoreSteps, LoopInv
<1>5. CASE StartCompensation \/ EndCompensation \/ DecideStatus \/ Return
  BY <1>0, <1>5 DEF StartCompensation, EndCompensation, Break, DecideStatus, Return
<1>6. CASE Compensate
  <2>1. Head(todo) \in Steps /\ failedStep # 0
    BY <1>6, TailOfCountdown
       DEF Compensate, CompensationSucceeds, CompensationFails, CompensationSwallows, CompensationInv
  <2>2. \A i \in Steps : Undone(Head(todo))[i] = "applied" => effect[i] = "applied"
    BY <2>1 DEF Undone
  <2>3. QED
    BY <1>0, <1>6, <2>1, <2>2
       DEF Compensate, CompensationSucceeds, CompensationFails, CompensationSwallows
<1>7. ASSUME NEW i \in Steps, TakeEffect(i) PROVE FailureInv'
  BY <1>0, <1>7 DEF TakeEffect
<1>8. ASSUME NEW i \in Steps, Settle(i) PROVE FailureInv'
  <2>1. CASE Reject(i)
    BY <1>0, <2>1 DEF Reject, awaited
  <2>2. CASE Resolve(i) /\ awaited(i)
    BY <1>0, <2>2 DEF Resolve, awaited
  <2>3. CASE Resolve(i) /\ ~awaited(i)
    <3>1. pc = "hook" => i # current
      BY <2>3 DEF Resolve
    <3>2. QED
      BY <1>0, <2>3, <3>1 DEF Resolve
  <2>4. QED
    BY <1>8, <2>1, <2>2, <2>3 DEF Settle
<1>9. CASE Crash \/ Expire
  BY <1>0, <1>9 DEF Crash, Expire
<1>10. QED
  BY <1>1, <1>2, <1>3, <1>4, <1>5, <1>6, <1>7, <1>8, <1>9 DEF Next, Orchestrate

\* The countdown is why nothing is overlooked: compensate removes step
\* Len(todo) from the front, and every completed step above it is done with.
LEMMA CompensationNext == IInv /\ [Next]_vars => CompensationInv'
<1>. SUFFICES ASSUME IInv, [Next]_vars PROVE CompensationInv'
  OBVIOUS
<1>. USE NAssumption DEF IInv, TypeOK, CompensationInv, orchestrator, outside
<1>0. Len(completed) \in Nat /\ Len(todo) \in Nat
  BY LenProperties
<1>1. CASE Start \/ StartStep \/ CompleteStep \/ HookThrows \/ EndLoop \/ Timeout
  BY <1>1 DEF Start, StartStep, CompleteStep, HookThrows, EndLoop, Timeout, FailureInv
<1>2. CASE FailStep
  <2>1. CountsDown(todo') /\ Len(todo') = Len(completed)
    BY <1>2, ReversedCount DEF FailStep, CompensationOrder, LoopInv
  <2>2. QED
    BY <1>0, <1>2, <2>1 DEF FailStep
<1>3. CASE StartCompensation
  BY <1>3 DEF StartCompensation, CountsDown
<1>4. CASE EndCompensation
  <2>1. Len(todo) = 0
    BY <1>4 DEF EndCompensation
  <2>2. QED
    BY <1>0, <1>4, <2>1 DEF EndCompensation, Break, FailureInv
<1>5. CASE DecideStatus \/ Return \/ Crash \/ Expire \/ UNCHANGED vars
  BY <1>5 DEF DecideStatus, Return, Crash, Expire, vars, CountsDown
<1>6. CASE Compensate
  <2>1. /\ pc = "awaitCompensation" /\ pc' = "compensating"
        /\ todo' = Tail(todo)
        /\ UNCHANGED <<completed, failedStep>>
        /\ effect' = Undone(Head(todo)) \/ UNCHANGED effect
        /\ uncompensated \subseteq uncompensated'
        /\ effect' = Undone(Head(todo)) \/ Head(todo) \in uncompensated'
    BY <1>6 DEF Compensate, CompensationSucceeds, CompensationFails, CompensationSwallows, GoOnAfterError
  <2>2. /\ Head(todo) = Len(todo)
        /\ Head(todo) \in Steps
        /\ Len(todo') = Len(todo) - 1
        /\ CountsDown(todo')
    BY <2>1, TailOfCountdown
  <2>3. \A i \in Steps : /\ Undone(Head(todo))[i] = "applied" => effect[i] = "applied"
                         /\ i = Len(todo) => Undone(Head(todo))[i] # "applied"
    BY <2>2 DEF Undone
  <2>4. ASSUME NEW i \in Steps, Len(todo') < i, i < current', effect'[i] = "applied"
        PROVE  i \in uncompensated'
    <3>1. CASE i = Len(todo)
      BY <2>1, <2>2, <2>3, <2>4, <3>1
    <3>2. CASE Len(todo) < i
      BY <2>1, <2>3, <2>4, <3>2
    <3>3. QED
      BY <1>0, <2>2, <2>4, <3>1, <3>2
  <2>5. QED
    BY <1>0, <2>1, <2>2, <2>4
<1>7. ASSUME NEW i \in Steps, TakeEffect(i) PROVE CompensationInv'
  <2>1. ~(i < current)
    BY <1>7 DEF TakeEffect, StepInv
  <2>2. QED
    BY <1>0, <1>7, <2>1 DEF TakeEffect
<1>8. ASSUME NEW i \in Steps, Settle(i) PROVE CompensationInv'
  BY <1>8 DEF Settle, Resolve, Reject, awaited
<1>9. QED
  BY <1>1, <1>2, <1>3, <1>4, <1>5, <1>6, <1>7, <1>8 DEF Next, Orchestrate

LEMMA OutcomeNext == IInv /\ [Next]_vars => OutcomeInv'
<1>. SUFFICES ASSUME IInv, [Next]_vars PROVE OutcomeInv'
  OBVIOUS
<1>. USE NAssumption DEF IInv, TypeOK, OutcomeInv, orchestrator, outside
<1>0. Len(completed) \in Nat
  BY LenProperties
<1>1. ASSUME NEW e \in Event, events' = Append(events, e)
      PROVE  Published("SAGA_COMPLETED")'
               => Published("SAGA_COMPLETED") \/ e.type = "SAGA_COMPLETED"
  BY <1>1, AppendedEvents DEF Published
<1>2. ASSUME UNCHANGED events
      PROVE  Published("SAGA_COMPLETED")' <=> Published("SAGA_COMPLETED")
  BY <1>2 DEF Published
<1>3. CASE Start
  <2>1. SagaEvent("SAGA_STARTED") \in Event
    BY EventType DEF SagaEvents
  <2>2. ~Published("SAGA_COMPLETED")'
    BY <1>1, <1>3, <2>1 DEF Start, SagaEvent
  <2>3. QED
    BY <1>3, <2>2 DEF Start
<1>4. CASE StartStep
  <2>1. StepEvent("STEP_STARTED", current) \in Event
    BY <1>4, EventType DEF StepEvents, StartStep, MoreSteps
  <2>2. ~Published("SAGA_COMPLETED")'
    BY <1>1, <1>4, <2>1 DEF StartStep, StepEvent
  <2>3. QED
    BY <1>4, <2>2 DEF StartStep
<1>5. CASE CompleteStep
  <2>1. StepEvent("STEP_COMPLETED", current) \in Event
    BY <1>5, EventType DEF StepEvents, CompleteStep, LoopInv
  <2>2. ~Published("SAGA_COMPLETED")'
    BY <1>1, <1>5, <2>1 DEF CompleteStep, StepEvent
  <2>3. QED
    BY <1>5, <2>2 DEF CompleteStep
<1>6. CASE HookThrows \/ EndLoop \/ EndCompensation \/ Timeout
  BY <1>2, <1>6 DEF HookThrows, EndLoop, EndCompensation, Break, Timeout
<1>7. CASE FailStep
  <2>1. /\ StepEvent("STEP_FAILED", current) \in Event
        /\ SagaEvent("SAGA_COMPENSATING") \in Event
    BY <1>7, EventType DEF StepEvents, SagaEvents, FailStep, LoopInv
  <2>2. ~Published("SAGA_COMPLETED")'
    <3>. DEFINE first == Append(events, StepEvent("STEP_FAILED", current))
    <3>1. first \in Seq(Event)
      BY <2>1, AppendedEvents
    <3>2. events' = Append(first, SagaEvent("SAGA_COMPENSATING"))
      BY <1>7, <2>1 DEF FailStep
    <3>3. ~ \E k \in DOMAIN first : first[k].type = "SAGA_COMPLETED"
      <4>1. ~ \E k \in DOMAIN events : events[k].type = "SAGA_COMPLETED"
        BY <1>7 DEF FailStep, Published
      <4>2. StepEvent("STEP_FAILED", current).type # "SAGA_COMPLETED"
        BY DEF StepEvent
      <4>3. QED
        BY <2>1, <4>1, <4>2, AppendedEvents
    <3>. HIDE DEF first
    <3>4. QED
      BY <2>1, <3>1, <3>2, <3>3, AppendedEvents DEF Published, SagaEvent
  <2>3. QED
    BY <1>7, <2>2 DEF FailStep
<1>8. CASE StartCompensation
  <2>1. StepEvent("STEP_COMPENSATING", Head(todo)) \in Event
    BY <1>8, EventType, TailOfCountdown
       DEF StepEvents, StartCompensation, CompensationInv
  <2>2. ~Published("SAGA_COMPLETED")'
    BY <1>1, <1>8, <2>1 DEF StartCompensation, StepEvent
  <2>3. QED
    BY <1>8, <2>2 DEF StartCompensation
<1>9. CASE DecideStatus
  <2>1. /\ SagaEvent("SAGA_COMPENSATED") \in Event
        /\ SagaEvent("SAGA_COMPLETED") \in Event
    BY EventType DEF SagaEvents
  <2>2. Published("SAGA_COMPLETED")' => failedStep = 0
    BY <1>1, <1>9, <2>1 DEF DecideStatus, FinalStatus, SagaEvent
  <2>3. QED
    BY <1>9, <2>2 DEF DecideStatus, FinalStatus, FailureInv
<1>10. CASE Return
  <2>1. SagaEvent("SAGA_FAILED") \in Event
    BY EventType DEF SagaEvents
  <2>2. Published("SAGA_COMPLETED")' => Published("SAGA_COMPLETED")
    BY <1>1, <1>2, <1>10, <2>1 DEF Return, SagaEvent
  <2>3. QED
    BY <1>10, <2>2 DEF Return, FinalStatus
<1>11. CASE Compensate
  <2>1. StepEvent("STEP_COMPENSATED", Head(todo)) \in Event
    BY <1>11, EventType, TailOfCountdown
       DEF StepEvents, Compensate, CompensationSucceeds, CompensationFails, CompensationSwallows,
           CompensationInv
  <2>2. Published("SAGA_COMPLETED")' => Published("SAGA_COMPLETED")
    BY <1>1, <1>2, <1>11, <2>1
       DEF Compensate, CompensationSucceeds, CompensationFails, CompensationSwallows, StepEvent
  <2>3. QED
    BY <1>11, <2>2 DEF Compensate, CompensationSucceeds, CompensationFails, CompensationSwallows
<1>12. ASSUME NEW i \in Steps, TakeEffect(i) PROVE OutcomeInv'
  BY <1>2, <1>12 DEF TakeEffect, FinalStatus
<1>13. ASSUME NEW i \in Steps, Settle(i) PROVE OutcomeInv'
  BY <1>2, <1>13 DEF Settle, Resolve, Reject, awaited, FinalStatus
<1>14. CASE Crash \/ Expire \/ UNCHANGED vars
  BY <1>2, <1>14 DEF Crash, Expire, vars, FinalStatus
<1>15. QED
  BY <1>3, <1>4, <1>5, <1>6, <1>7, <1>8, <1>9, <1>10, <1>11, <1>12, <1>13, <1>14
     DEF Next, Orchestrate

-----------------------------------------------------------------------------
(* Theorems of the specification *)

\* Every step keeps the six parts of the invariant together.
LEMMA InvNext == IInv /\ [Next]_vars => IInv'
BY TypeNext, LoopNext, StepNext, FailureNext, CompensationNext, OutcomeNext DEF IInv

\* The six parts of the invariant hold of every execution together.
THEOREM Invariance == Spec => []IInv
BY InvInit, InvNext, PTL DEF Spec

\* The variables of execute keep their types.
THEOREM TypeCorrectness == Spec => []TypeOK
<1>1. IInv => TypeOK
  BY DEF IInv
<1>2. QED
  BY Invariance, <1>1, PTL

\* Whatever goes wrong during a saga and its compensation, no completed step
\* is overlooked by compensate.
THEOREM NothingOverlooked == Spec => []EveryEffectAccountedFor
<1>1. IInv => EveryEffectAccountedFor
  <2>. SUFFICES ASSUME IInv, failedStep # 0, pc \in {"decide", "saving", "returned"},
                       NEW i \in Steps, effect[i] = "applied", i # failedStep
                PROVE  i \in uncompensated
    BY DEF EveryEffectAccountedFor, RolledBack, InPlace
  <2>1. failedStep = current
    BY DEF IInv, FailureInv
  <2>2. ~(i > current)
    BY DEF IInv, StepInv
  <2>3. i < current
    BY <2>1, <2>2, NAssumption, LenProperties DEF IInv, TypeOK
  <2>4. QED
    BY <2>3 DEF IInv, CompensationInv
<1>2. QED
  BY Invariance, <1>1, PTL

\* SAGA_COMPLETED is only ever published with every effect in place, nothing
\* takes one of them back afterwards, and the state store never shows an
\* outcome that the world does not.
THEOREM OutcomesHold == Spec => []OutcomeHolds
<1>1. IInv => OutcomeHolds
  <2>. SUFFICES ASSUME IInv PROVE OutcomeHolds
    OBVIOUS
  <2>1. stored = "COMPENSATED" => RolledBack
    <3>. SUFFICES ASSUME stored = "COMPENSATED", NEW i \in Steps,
                         effect[i] = "applied", i # failedStep
                  PROVE  i \in uncompensated
      BY DEF RolledBack, InPlace, IInv, OutcomeInv
    <3>1. pc = "returned" /\ failedStep # 0
      BY DEF IInv, OutcomeInv
    <3>2. failedStep = current /\ ~(i > current)
      BY <3>1 DEF IInv, FailureInv, StepInv
    <3>3. i < current
      BY <3>2, NAssumption, LenProperties DEF IInv, TypeOK
    <3>4. QED
      BY <3>1, <3>3 DEF IInv, CompensationInv
  <2>2. Published("SAGA_COMPLETED") \/ stored = "COMPLETED" => InPlace = Effectful
    <3>. SUFFICES ASSUME Published("SAGA_COMPLETED") \/ stored = "COMPLETED"
                  PROVE  InPlace = Effectful
      OBVIOUS
    <3>1. failedStep = 0 /\ Len(completed) = N
      BY DEF IInv, OutcomeInv, FailureInv
    <3>2. \A i \in Effectful : effect[i] = "applied"
      BY <3>1, NAssumption, EffectfulAssumption DEF IInv, FailureInv
    <3>3. QED
      BY <3>2, EffectfulAssumption DEF InPlace, IInv, FailureInv
  <2>3. QED
    BY <2>1, <2>2 DEF OutcomeHolds
<1>2. QED
  BY Invariance, <1>1, PTL

\* After a failure only the failed step's promise and the compensation under
\* way change anything, in particular no further step is started.
THEOREM OnlyTheFailedStepLingers == Spec => AfterFailureOnlyTheFailedStepLingers
<1>. DEFINE Frozen == failedStep # 0 =>
       \A i \in Steps \ {failedStep} :
         /\ promise[i] = "idle" => promise'[i] = "idle"
         /\ effect'[i] # effect[i] => pc = "awaitCompensation" /\ i = Head(todo)
<1>1. IInv /\ [Next]_vars => Frozen
  <2>. SUFFICES ASSUME IInv, [Next]_vars, failedStep # 0,
                       NEW i \in Steps \ {failedStep}
                PROVE  /\ promise[i] = "idle" => promise'[i] = "idle"
                       /\ effect'[i] # effect[i]
                            => pc = "awaitCompensation" /\ i = Head(todo)
    OBVIOUS
  <2>. USE DEF IInv, TypeOK, orchestrator, outside
  <2>0. failedStep = current
    BY DEF FailureInv
  <2>1. promise[i] # "running"
    <3>1. ~(i > current /\ promise[i] = "running")
      BY DEF StepInv
    <3>2. ~(i < current /\ promise[i] = "running")
      BY DEF StepInv
    <3>3. i < current \/ i > current
      BY <2>0, NAssumption, LenProperties
    <3>4. QED
      BY <3>1, <3>2, <3>3
  <2>2. CASE Compensate
    <3>1. Head(todo) \in Steps
      BY <2>2, TailOfCountdown
         DEF Compensate, CompensationSucceeds, CompensationFails, CompensationSwallows, CompensationInv
    <3>2. i # Head(todo) => Undone(Head(todo))[i] = effect[i]
      BY <3>1 DEF Undone
    <3>3. QED
      BY <2>2, <3>2 DEF Compensate, CompensationSucceeds, CompensationFails, CompensationSwallows
  <2>3. ASSUME NEW j \in Steps, TakeEffect(j) \/ Settle(j)
        PROVE  UNCHANGED <<promise[i], effect[i]>>
    BY <2>1, <2>3 DEF TakeEffect, Settle, Resolve, Reject, awaited
  <2>4. CASE Start \/ StartStep \/ CompleteStep
    BY <2>4 DEF Start, StartStep, CompleteStep, FailureInv
  <2>5. CASE HookThrows \/ FailStep \/ StartCompensation \/ EndLoop
             \/ EndCompensation \/ DecideStatus \/ Return \/ Timeout
             \/ UNCHANGED vars
    BY <2>5 DEF HookThrows, FailStep, StartCompensation, EndLoop, EndCompensation,
       DecideStatus, Return, Timeout, vars
  <2>6. CASE Crash \/ Expire
    BY <2>6 DEF Crash, Expire
  <2>7. QED
    BY <2>2, <2>3, <2>4, <2>5, <2>6 DEF Next, Orchestrate
<1>2. QED
  BY Invariance, <1>1, PTL DEF Spec, AfterFailureOnlyTheFailedStepLingers

-----------------------------------------------------------------------------
(* The order of the compensations *)

\* The log s of m completed steps: compensations count down, each of a step
\* whose completion was logged before it, and the ones up to low are yet to come.
LogInv(s, m, low) ==
  /\ \A i \in 1..m : \E k \in 1..Len(s) : s[k] = StepEvent("STEP_COMPLETED", i)
  /\ \A k \in 1..Len(s) : s[k].type = "STEP_COMPENSATING" =>
       /\ s[k].step > low
       /\ \E j \in 1..k : s[j] = StepEvent("STEP_COMPLETED", s[k].step)
       /\ \A l \in 1..(k - 1) : s[l].type = "STEP_COMPENSATING" => s[l].step > s[k].step

\* The steps whose compensation was not begun.
Low == CASE pc \in {"idle", "loop", "awaitStep", "hook", "stepFailed"} -> N
         [] pc = "compensating" -> Len(todo)
         [] pc = "awaitCompensation" -> Len(todo) - 1
         [] OTHER -> 0

ReverseInv == LogInv(events, Len(completed), Low)

LEMMA AppendedLog ==
  ASSUME NEW s \in Seq(Event), NEW e \in Event, NEW m \in Nat, NEW n \in Nat,
         NEW low \in Int, NEW new \in Int, new <= low, LogInv(s, m, low),
         n = m \/ (n = m + 1 /\ e = StepEvent("STEP_COMPLETED", n)),
         e.type = "STEP_COMPENSATING" => e.step \in 1..m /\ e.step <= low /\ new < e.step
  PROVE  LogInv(Append(s, e), n, new)
<1> DEFINE t == Append(s, e)
<1>1. /\ Len(s) \in Nat /\ Len(t) = Len(s) + 1 /\ t[Len(s) + 1] = e
      /\ \A k \in 1..Len(s) : t[k] = s[k] /\ s[k] \in Event
  OBVIOUS
<1> HIDE DEF t
<1>2. ASSUME NEW i \in 1..n
      PROVE  \E k \in 1..Len(t) : t[k] = StepEvent("STEP_COMPLETED", i)
  <2>1. CASE i \in 1..m
    <3>1. PICK k \in 1..Len(s) : s[k] = StepEvent("STEP_COMPLETED", i)
      BY <2>1 DEF LogInv
    <3>2. k \in 1..Len(t) /\ t[k] = s[k]
      BY <1>1
    <3> QED  BY <3>1, <3>2
  <2>2. CASE i \notin 1..m
    <3>1. i = n /\ e = StepEvent("STEP_COMPLETED", n)
      BY <2>2
    <3>2. Len(s) + 1 \in 1..Len(t)
      BY <1>1
    <3> QED  BY <1>1, <3>1, <3>2
  <2> QED  BY <2>1, <2>2
<1>3. ASSUME NEW k \in 1..Len(t), t[k].type = "STEP_COMPENSATING"
      PROVE  /\ t[k].step > new
             /\ \E j \in 1..k : t[j] = StepEvent("STEP_COMPLETED", t[k].step)
             /\ \A l \in 1..(k - 1) :
                  t[l].type = "STEP_COMPENSATING" => t[l].step > t[k].step
  <2>1. \A l \in 1..Len(s) : s[l].step \in Int
    BY <1>1, NAssumption DEF Event
  <2>2. CASE k \in 1..Len(s)
    <3>1. /\ t[k] = s[k] /\ \A l \in 1..k : t[l] = s[l]
      BY <1>1, <2>2
    <3>2. /\ s[k].step > low
          /\ \E j \in 1..k : s[j] = StepEvent("STEP_COMPLETED", s[k].step)
          /\ \A l \in 1..(k - 1) :
               s[l].type = "STEP_COMPENSATING" => s[l].step > s[k].step
      BY <1>3, <2>2, <3>1 DEF LogInv
    <3>3. t[k].step > new
      BY <2>1, <2>2, <3>1, <3>2
    <3>4. PICK j \in 1..k : s[j] = StepEvent("STEP_COMPLETED", s[k].step)
      BY <3>2
    <3>5. \A l \in 1..(k - 1) : l \in 1..k
      BY <2>2
    <3> QED  BY <3>1, <3>2, <3>3, <3>4, <3>5
  <2>3. CASE k \notin 1..Len(s)
    <3>1. k = Len(s) + 1 /\ t[k] = e
      BY <1>1, <2>3
    <3>2. e.step \in 1..m /\ e.step <= low /\ new < e.step
      BY <1>3, <3>1
    <3>3. PICK j \in 1..Len(s) : s[j] = StepEvent("STEP_COMPLETED", e.step)
      BY <3>2 DEF LogInv
    <3>4. j \in 1..k /\ t[j] = s[j]
      BY <1>1, <3>1
    <3>5. \A l \in 1..(k - 1) : t[l].type = "STEP_COMPENSATING" => t[l].step > e.step
      <4>1. ASSUME NEW l \in 1..(k - 1), t[l].type = "STEP_COMPENSATING"
            PROVE  t[l].step > e.step
        <5>1. l \in 1..Len(s) /\ t[l] = s[l] /\ s[l].step \in Int
          BY <1>1, <2>1, <3>1
        <5>2. s[l].step > low
          BY <4>1, <5>1 DEF LogInv
        <5> QED  BY <3>2, <5>1, <5>2
      <4> QED  BY <4>1
    <3> QED  BY <3>1, <3>2, <3>3, <3>4, <3>5
  <2> QED  BY <2>2, <2>3
<1> QED  BY <1>2, <1>3 DEF LogInv, t

LEMMA ShorterLog ==
  ASSUME NEW s \in Seq(Event), NEW m \in Nat, NEW low \in Int, NEW new \in Int, new <= low,
         LogInv(s, m, low)
  PROVE  LogInv(s, m, new)
<1>1. \A k \in 1..Len(s) : s[k] \in Event
  BY ElementOfSeq
<1>2. \A k \in 1..Len(s) : s[k].step \in Int
  BY <1>1, NAssumption DEF Event
<1> QED  BY <1>2 DEF LogInv

LEMMA ReverseInit == Init => ReverseInv
BY NAssumption DEF Init, ReverseInv, LogInv

LEMMA ReverseNext == IInv /\ ReverseInv /\ [Next]_vars => ReverseInv'
<1>. SUFFICES ASSUME IInv, ReverseInv, [Next]_vars PROVE ReverseInv'
  OBVIOUS
<1>. USE NAssumption DEF orchestrator, outside
<1>0. /\ Len(completed) \in Nat /\ Len(completed) <= N /\ Len(todo) \in Nat
      /\ events \in Seq(Event) /\ completed \in Seq(Steps) /\ Low \in Int
  BY LenProperties DEF IInv, TypeOK, LoopInv, Low
<1>1. ASSUME NEW e \in Event, events' = Append(events, e), Low' \in Int, Low' <= Low,
             Len(completed)' \in Nat,
             \/ Len(completed)' = Len(completed)
             \/ /\ Len(completed)' = Len(completed) + 1
                /\ e = StepEvent("STEP_COMPLETED", Len(completed)'),
             e.type = "STEP_COMPENSATING" =>
               e.step \in 1..Len(completed) /\ e.step <= Low /\ Low' < e.step
      PROVE  ReverseInv'
  BY <1>0, <1>1, AppendedLog DEF ReverseInv
<1>2. ASSUME events' = events, Len(completed)' = Len(completed), Low' \in Int, Low' <= Low
      PROVE  ReverseInv'
  BY <1>0, <1>2, ShorterLog DEF ReverseInv
<1>3. CASE Start
  <2>1. SagaEvent("SAGA_STARTED") \in Event /\ SagaEvent("SAGA_STARTED").type = "SAGA_STARTED"
    BY EventType DEF SagaEvents, SagaEvent
  <2>2. Low' \in Int /\ Low' <= Low
    BY <1>3 DEF Start, Low
  <2> QED  BY <1>0, <1>1, <1>3, <2>1, <2>2 DEF Start
<1>4. CASE StartStep
  <2>1. /\ StepEvent("STEP_STARTED", current) \in Event
        /\ StepEvent("STEP_STARTED", current).type = "STEP_STARTED"
    BY <1>4, EventType DEF StepEvents, StepEvent, StartStep, MoreSteps
  <2>2. Low' \in Int /\ Low' <= Low
    BY <1>4 DEF StartStep, Low
  <2> QED  BY <1>0, <1>1, <1>4, <2>1, <2>2 DEF StartStep
<1>5. CASE CompleteStep
  <2>1. /\ current \in Steps /\ CountsUp(completed)
    BY <1>5 DEF CompleteStep, IInv, LoopInv
  <2>2. Len(completed)' = Len(completed) + 1
    BY <1>0, <1>5, <2>1, AppendedCount DEF CompleteStep
  <2>3. /\ StepEvent("STEP_COMPLETED", current) \in Event
        /\ StepEvent("STEP_COMPLETED", current).type = "STEP_COMPLETED"
    BY <2>1, EventType DEF StepEvents, StepEvent
  <2>4. Low' \in Int /\ Low' <= Low
    BY <1>5 DEF CompleteStep, Low
  <2> QED  BY <1>0, <1>1, <1>5, <2>2, <2>3, <2>4 DEF CompleteStep
<1>6. CASE HookThrows \/ Timeout \/ EndLoop \/ EndCompensation \/ Expire \/ Crash
  <2>1. events' = events /\ completed' = completed /\ todo' = todo
    BY <1>6 DEF HookThrows, Timeout, EndLoop, EndCompensation, Expire, Crash
  <2>2. Low \in Nat /\ Low' \in Int /\ Low' <= Low
    <3>1. pc = "awaitCompensation" => Len(todo) - 1 \in Nat
      BY <1>0, EmptySeq DEF IInv, TypeOK, CompensationInv
    <3> QED  BY <1>0, <1>6, <2>1, <3>1
             DEF HookThrows, Timeout, EndLoop, EndCompensation, Break, Expire, Crash, Low
  <2> QED  BY <1>2, <2>1, <2>2
<1>7. CASE FailStep
  <2> DEFINE a == StepEvent("STEP_FAILED", current)
             b == SagaEvent("SAGA_COMPENSATING")
  <2>1. current \in Steps /\ CountsUp(completed)
    BY <1>7 DEF FailStep, IInv, LoopInv
  <2>2. /\ a \in Event /\ a.type = "STEP_FAILED" /\ b \in Event /\ b.type = "SAGA_COMPENSATING"
    BY <2>1, EventType DEF StepEvents, StepEvent, SagaEvents, SagaEvent
  <2>3. Len(todo)' = Len(completed)
    BY <1>0, <1>7, <2>1, ReversedCount DEF FailStep, CompensationOrder
  <2>4. /\ Low = N /\ Low' = Len(completed) /\ completed' = completed
        /\ events' = events \o <<a, b>>
    BY <1>7, <2>3 DEF FailStep, Low
  <2> HIDE DEF a, b
  <2>5. events \o <<a, b>> = Append(Append(events, a), b) /\ Append(events, a) \in Seq(Event)
    BY <1>0, <2>2
  <2>6. LogInv(Append(events, a), Len(completed), N)
    BY <1>0, <2>2, <2>4, AppendedLog DEF ReverseInv
  <2>7. PICK s \in Seq(Event) : s = Append(events, a)
    BY <2>5
  <2>8. LogInv(Append(s, b), Len(completed), Len(completed))
    <3>1. PICK m \in Nat : m = Len(completed) /\ m <= N
      BY <1>0
    <3>2. LogInv(s, m, N) /\ b.type # "STEP_COMPENSATING"
      BY <2>2, <2>6, <2>7, <3>1
    <3>3. m \in Int /\ N \in Int
      OBVIOUS
    <3>4. LogInv(Append(s, b), m, m)
      BY <2>2, <3>1, <3>2, <3>3, AppendedLog
    <3> QED  BY <3>1, <3>4
  <2> QED  BY <2>4, <2>5, <2>7, <2>8 DEF ReverseInv
<1>8. CASE StartCompensation
  <2>1. /\ Head(todo) = Len(todo) /\ Head(todo) \in Steps /\ Len(todo) <= Len(completed)
    BY <1>8, TailOfCountdown DEF StartCompensation, IInv, TypeOK, CompensationInv
  <2>2. /\ StepEvent("STEP_COMPENSATING", Head(todo)) \in Event
        /\ StepEvent("STEP_COMPENSATING", Head(todo)).step = Head(todo)
    BY <2>1, EventType DEF StepEvents, StepEvent
  <2>3. Low = Len(todo) /\ Low' = Len(todo) - 1
    BY <1>8 DEF StartCompensation, Low
  <2> QED  BY <1>0, <1>1, <1>8, <2>1, <2>2, <2>3 DEF StartCompensation
<1>9. CASE Compensate
  <2>1. /\ Len(todo') = Len(todo) - 1 /\ Head(todo) \in Steps
    BY <1>9, TailOfCountdown
       DEF Compensate, CompensationSucceeds, CompensationFails, CompensationSwallows, GoOnAfterError, IInv, TypeOK,
           CompensationInv
  <2>2. Low' = Low /\ completed' = completed
    BY <1>9, <2>1
       DEF Compensate, CompensationSucceeds, CompensationFails, CompensationSwallows, Low
  <2>3. /\ StepEvent("STEP_COMPENSATED", Head(todo)) \in Event
        /\ StepEvent("STEP_COMPENSATED", Head(todo)).type = "STEP_COMPENSATED"
    BY <2>1, EventType DEF StepEvents, StepEvent
  <2> QED  BY <1>0, <1>1, <1>2, <1>9, <2>2, <2>3
           DEF Compensate, CompensationSucceeds, CompensationFails, CompensationSwallows
<1>10. CASE DecideStatus
  <2>1. \A t \in {"SAGA_COMPENSATED", "SAGA_COMPLETED"} :
          SagaEvent(t) \in Event /\ SagaEvent(t).type = t
    BY EventType DEF SagaEvents, SagaEvent
  <2>2. Low' = Low /\ completed' = completed
    BY <1>10 DEF DecideStatus, Low
  <2> QED  BY <1>0, <1>1, <1>10, <2>1, <2>2 DEF DecideStatus
<1>11. CASE Return
  <2>1. SagaEvent("SAGA_FAILED") \in Event /\ SagaEvent("SAGA_FAILED").type = "SAGA_FAILED"
    BY EventType DEF SagaEvents, SagaEvent
  <2>2. Low' = Low /\ completed' = completed
    BY <1>11 DEF Return, Low
  <2> QED  BY <1>0, <1>1, <1>2, <1>11, <2>1, <2>2 DEF Return
<1>12. ASSUME NEW i \in Steps, TakeEffect(i) \/ Settle(i) PROVE ReverseInv'
  <2>1. events' = events /\ completed' = completed /\ todo' = todo
    BY <1>12 DEF TakeEffect, Settle, Resolve, Reject
  <2>2. Low' = Low
    BY <1>12, <2>1 DEF TakeEffect, Settle, Resolve, Reject, awaited, Low
  <2> QED  BY <1>0, <1>2, <2>1, <2>2
<1>13. CASE UNCHANGED vars
  BY <1>0, <1>2, <1>13 DEF vars, Low
<1>14. QED
  BY <1>3, <1>4, <1>5, <1>6, <1>7, <1>8, <1>9, <1>10, <1>11, <1>12, <1>13
     DEF Next, Orchestrate

\* Compensations are begun in the reverse order of the completions, one for each
\* step at most, and only of steps that completed.
THEOREM CompensationsReverse == Spec => []CompensatesInReverse
<1>1. IInv /\ ReverseInv => CompensatesInReverse
  <2>1. ASSUME IInv, ReverseInv  PROVE  CompensatesInReverse
    <3>1. DOMAIN events = 1..Len(events)
      BY <2>1, LenProperties DEF IInv, TypeOK
    <3> QED  BY <2>1, <3>1 DEF ReverseInv, LogInv, CompensatesInReverse
  <2> QED  BY <2>1
<1>2. QED
  BY ReverseInit, ReverseNext, Invariance, <1>1, PTL DEF Spec

-----------------------------------------------------------------------------
(* The contract *)

\* What crashes and compensations that keep their errors to themselves cannot
\* spoil.
Lenient == Faults \subseteq {"crash", "swallow"}

\* Without timeouts the running promise is the awaited one, a rejected one has
\* no effect, and compensation takes the effects back one by one, or passes one
\* over in silence.
CalmInv ==
  /\ \A i \in Steps : promise[i] = "running" => i = current /\ pc = "awaitStep"
  /\ \A i \in Steps : promise[i] = "rejected" => i = current /\ effect[i] = "none"
  /\ pc \in {"idle", "loop", "awaitStep", "hook"} =>
       \A i \in Steps : promise[i] # "rejected"
  /\ pc = "stepFailed" \/ failedStep # 0 => promise[current] = "rejected"
  /\ pc \in {"compensating", "awaitCompensation"} =>
       \A i \in Effectful : i <= Len(todo) => effect[i] = "applied"
  /\ \A i \in Steps : effect[i] = "undone" => i < current
  /\ pc \in {"compensating", "awaitCompensation"} =>
       \A i \in uncompensated : Len(todo) < i
  /\ failedStep = 0 => uncompensated = {}
  /\ pc \notin {"saving", "returned", "crashed"} => status = "none"

LEMMA CalmInit == Init => CalmInv
BY DEF Init, CalmInv

LEMMA CalmNext == Lenient /\ IInv /\ CalmInv /\ [Next]_vars => CalmInv'
<1>. SUFFICES ASSUME Lenient, IInv, CalmInv, [Next]_vars PROVE CalmInv'
  OBVIOUS
<1>. USE NAssumption, EffectfulAssumption
     DEF Lenient, IInv, TypeOK, CalmInv, orchestrator, outside
<1>0. Len(completed) \in Nat /\ Len(todo) \in Nat
  BY LenProperties
<1>1. CASE Start
  BY <1>1 DEF Start, FailureInv
<1>2. CASE StartStep
  BY <1>0, <1>2 DEF StartStep, MoreSteps, FailureInv, StepInv
<1>3. CASE CompleteStep
  <2>1. Len(completed') = Len(completed) + 1
    BY <1>3, AppendedCount DEF CompleteStep, LoopInv, FailureInv
  <2>2. QED
    BY <1>0, <1>3, <2>1 DEF CompleteStep, FailureInv
<1>4. CASE FailStep
  <2>1. Len(todo') = Len(completed)
    BY <1>4, ReversedCount DEF FailStep, CompensationOrder, LoopInv
  <2>2. \A i \in Effectful : i < current => effect[i] = "applied"
    BY <1>4 DEF FailStep, FailureInv
  <2>3. uncompensated' = {}
    BY <1>4 DEF FailStep, FailureInv
  <2>4. QED
    BY <1>0, <1>4, <2>1, <2>2, <2>3 DEF FailStep
<1>5. CASE StartCompensation \/ EndLoop \/ EndCompensation \/ DecideStatus \/ Return
  BY <1>5 DEF StartCompensation, EndLoop, EndCompensation, Break, DecideStatus, Return
<1>6. CASE HookThrows \/ Timeout \/ CompensationFails
  BY <1>6 DEF HookThrows, Timeout, Timed, CompensationFails
<1>7. CASE CompensationSucceeds
  <2>1. /\ Head(todo) = Len(todo)
        /\ Head(todo) \in Steps
        /\ Len(todo') = Len(todo) - 1
    BY <1>7, TailOfCountdown DEF CompensationSucceeds, CompensationInv
  <2>2. \A i \in Steps : i # Head(todo) => effect'[i] = effect[i]
    BY <1>7, <2>1 DEF CompensationSucceeds, Undone
  <2>3. Len(todo) < current
    BY <1>0, <1>7 DEF CompensationSucceeds, CompensationInv
  <2>4. \A i \in Steps : effect'[i] = "undone" => i < current
    BY <2>1, <2>2, <2>3
  <2>5. \A i \in Steps : promise[i] = "rejected" => effect'[i] = "none"
    BY <1>0, <2>1, <2>2, <2>3
  <2>a. pc = "awaitCompensation"
    BY <1>7 DEF CompensationSucceeds
  <2>b. \A i \in Effectful : i <= Len(todo) => effect[i] = "applied"
    BY <2>a
  <2>6. ASSUME NEW i \in Effectful, i <= Len(todo') PROVE effect'[i] = "applied"
    <3>1. i \in Steps /\ i <= Len(todo) /\ i # Head(todo)
      <4>1. i \in Steps /\ i \in Int
        BY DEF Steps
      <4>2. i <= Len(todo) - 1
        BY <2>1, <2>6
      <4>3. QED
        BY ONLY <1>0, <2>1, <4>1, <4>2
    <3>2. effect[i] = "applied"
      BY <2>b, <3>1
    <3>3. QED
      BY <2>2, <3>1, <3>2
  <2>7. /\ UNCHANGED <<promise, completed, failedStep, status, uncompensated>>
        /\ pc = "awaitCompensation" /\ pc' = "compensating"
    BY <1>7 DEF CompensationSucceeds
  <2>8. \A i \in uncompensated' : Len(todo') < i
    BY <1>0, <2>1, <2>7
  <2>9. QED
    BY <2>4, <2>5, <2>6, <2>7, <2>8
<1>8. ASSUME NEW i \in Steps, TakeEffect(i) PROVE CalmInv'
  BY <1>0, <1>8 DEF TakeEffect
<1>9. ASSUME NEW i \in Steps, Settle(i) PROVE CalmInv'
  <2>1. awaited(i)
    BY <1>9 DEF Settle, Resolve, Reject, awaited
  <2>2. CASE Resolve(i)
    BY <1>0, <2>1, <2>2 DEF Resolve, awaited, FailureInv
  <2>3. CASE Reject(i)
    <3>1. effect[i] = "none"
      <4>1. effect[i] # "applied"
        BY <2>3 DEF Reject
      <4>2. effect[i] # "undone"
        BY <1>0, <2>1 DEF awaited
      <4>3. QED
        BY <4>1, <4>2
    <3>2. QED
      BY <1>0, <2>1, <2>3, <3>1 DEF Reject, awaited, FailureInv
  <2>4. QED
    BY <1>9, <2>2, <2>3 DEF Settle
<1>10. CASE Crash \/ Expire \/ UNCHANGED vars
  <2>1. CASE Crash
    BY <1>0, <2>1 DEF Crash
  <2>2. CASE Expire
    BY <1>0, <2>2 DEF Expire
  <2>3. CASE UNCHANGED vars
    BY <1>0, <2>3 DEF vars
  <2>4. QED
    BY <1>10, <2>1, <2>2, <2>3
<1>11. CASE CompensationSwallows
  <2>1. Head(todo) = Len(todo) /\ Len(todo') = Len(todo) - 1
    BY <1>11, TailOfCountdown DEF CompensationSwallows, CompensationInv
  <2>2. /\ UNCHANGED <<promise, completed, failedStep, status, effect>>
        /\ uncompensated' = uncompensated \cup {Head(todo)}
        /\ pc = "awaitCompensation" /\ pc' = "compensating" /\ failedStep # 0
    BY <1>11 DEF CompensationSwallows, FailureInv
  <2>3. \A i \in Effectful : i <= Len(todo') => effect'[i] = "applied"
    BY <1>0, <2>1, <2>2
  <2>4. \A i \in uncompensated' : Len(todo') < i
    <3>1. \A i \in uncompensated : i \in Int
      OBVIOUS
    <3>2. QED
      BY <1>0, <2>1, <2>2, <3>1
  <2>5. QED
    BY <2>2, <2>3, <2>4
<1>12. QED
  BY <1>1, <1>2, <1>3, <1>4, <1>5, <1>6, <1>7, <1>8, <1>9, <1>10, <1>11
     DEF Next, Orchestrate, Compensate

LEMMA ContractInit == Init => Contract!Init
BY DEF Init, Contract!Init, InPlace, Owed, Phase

\* TakeEffect performs, Reject gives up, a compensation takes back, or believes
\* so, and DecideStatus ends; everything else is invisible to the contract.
LEMMA ContractNext ==
  Lenient /\ IInv /\ CalmInv /\ [Next]_vars => [Contract!Next]_(Contract!vars)
<1>. SUFFICES ASSUME Lenient, IInv, CalmInv, [Next]_vars
              PROVE  Contract!Next \/ UNCHANGED <<Owed, Phase, status>>
  BY DEF Contract!vars
<1>. USE NAssumption, EffectfulAssumption
     DEF Lenient, IInv, TypeOK, orchestrator, outside
<1>0. Len(completed) \in Nat /\ Len(todo) \in Nat
  BY LenProperties
<1>a. \A i \in Steps : i < current \/ i = current \/ i > current
  BY <1>0
<1>1. ASSUME UNCHANGED <<effect, promise, status, uncompensated>>
      PROVE  UNCHANGED <<Owed, Phase, status>>
  BY <1>1 DEF InPlace, Owed, Phase
<1>2. CASE Start \/ CompleteStep \/ HookThrows \/ FailStep \/ StartCompensation
           \/ EndLoop \/ EndCompensation \/ Timeout \/ UNCHANGED vars
  BY <1>1, <1>2 DEF Start, CompleteStep, HookThrows, FailStep, StartCompensation,
     EndLoop, EndCompensation, Timeout, vars
<1>3. CASE StartStep
  <2>1. UNCHANGED <<effect, status, uncompensated>>
    BY <1>3 DEF StartStep
  <2>2. \A i \in Steps : promise[i] = "rejected" <=> promise'[i] = "rejected"
    BY <1>3 DEF StartStep, MoreSteps, CalmInv
  <2>3. QED
    BY <2>1, <2>2 DEF InPlace, Owed, Phase
<1>4. CASE Crash \/ Expire
  <2>1. UNCHANGED <<effect, status, uncompensated>>
    BY <1>4 DEF Crash, Expire
  <2>2. \A i \in Steps : promise[i] = "rejected" <=> promise'[i] = "rejected"
    BY <1>4 DEF Crash, Expire
  <2>3. QED
    BY <2>1, <2>2 DEF InPlace, Owed, Phase
<1>5. CASE Return
  BY <1>1, <1>5 DEF Return
<1>6. CASE DecideStatus
  <2>1. UNCHANGED <<Owed, Phase>> /\ status = "none" /\ status' = FinalStatus
    BY <1>6 DEF DecideStatus, InPlace, Owed, Phase, CalmInv
  <2>2. CASE failedStep # 0
    <3>1. \A i \in Steps : effect[i] = "applied" => i \in uncompensated
      <4>. SUFFICES ASSUME NEW i \in Steps, effect[i] = "applied", i \notin uncompensated
                    PROVE  FALSE
        OBVIOUS
      <4>1. ~(i < current)
        BY <1>6, <2>2 DEF DecideStatus, CompensationInv
      <4>2. ~(i > current)
        BY DEF StepInv
      <4>3. i # current
        BY <2>2 DEF CalmInv, FailureInv
      <4>4. QED
        BY <1>a, <4>1, <4>2, <4>3
    <3>2. current \in Steps /\ promise[current] = "rejected"
      BY <2>2 DEF CalmInv, FailureInv
    <3>3. Owed = {} /\ Phase = "backward"
      BY <3>1, <3>2 DEF InPlace, Owed, Phase
    <3>4. QED
      BY <2>1, <2>2, <3>3 DEF FinalStatus, Contract!Next, Contract!End
  <2>3. CASE failedStep = 0
    <3>1. Len(completed) = N
      BY <1>6, <2>3 DEF DecideStatus, FailureInv
    <3>2. \A i \in Steps : promise[i] # "rejected"
      BY <1>0, <3>1 DEF CalmInv
    <3>3. \A i \in Effectful : effect[i] = "applied"
      BY <2>3, <3>1 DEF FailureInv
    <3>4. \A i \in Steps : effect[i] = "applied" => i \in Effectful
      BY DEF FailureInv
    <3>5. Owed = Effectful /\ Phase = "forward"
      BY <2>3, <3>2, <3>3, <3>4 DEF InPlace, Owed, Phase, CalmInv
    <3>6. QED
      BY <2>1, <2>3, <3>5 DEF FinalStatus, Contract!Next, Contract!End
  <2>4. QED
    BY <2>2, <2>3
<1>7. CASE Compensate
  <2>1. CompensationSucceeds \/ CompensationSwallows
    BY <1>7 DEF Compensate, CompensationFails
  <2>2. /\ Head(todo) = Len(todo)
        /\ Head(todo) \in Steps
    BY <2>1, TailOfCountdown DEF CompensationSucceeds, CompensationSwallows, CompensationInv
  <2>3. pc = "awaitCompensation" /\ failedStep # 0 /\ UNCHANGED <<Phase, status>>
    BY <2>1 DEF CompensationSucceeds, CompensationSwallows, Phase, FailureInv
  <2>4. Owed' = Owed \ {Head(todo)}
    <3>1. CASE CompensationSucceeds
      BY <2>2, <3>1 DEF CompensationSucceeds, Undone, InPlace, Owed
    <3>2. CASE CompensationSwallows
      BY <2>2, <3>2 DEF CompensationSwallows, InPlace, Owed
    <3>3. QED
      BY <2>1, <3>1, <3>2
  <2>5. CASE Head(todo) \notin Owed
    BY <2>3, <2>4, <2>5
  <2>6. CASE Head(todo) \in Owed
    <3>1. ASSUME NEW j \in Steps, effect[j] = "applied", j \notin uncompensated
          PROVE  j <= Head(todo)
      <4>1. ~(j > current)
        BY <3>1 DEF StepInv
      <4>2. current \in Steps /\ promise[current] = "rejected"
        BY <2>3 DEF FailureInv, CalmInv
      <4>3. j # current
        BY <3>1, <4>2 DEF CalmInv
      <4>4. ~(Len(todo) < j /\ j < current)
        BY <2>3, <3>1 DEF CompensationInv
      <4>5. ~(Len(todo) < j)
        BY <1>a, <4>1, <4>3, <4>4
      <4>6. QED
        BY <1>0, <2>2, <4>5
    <3>2. Phase = "backward" /\ status = "none"
      BY <2>3 DEF Phase, CalmInv, FailureInv
    <3>3. Head(todo) \in Effectful
      BY <2>2, <2>6 DEF FailureInv, InPlace, Owed
    <3>4. \A j \in Owed : j <= Head(todo)
      BY <3>1 DEF InPlace, Owed
    <3>5. Contract!TakeBack(Head(todo))
      BY <2>3, <2>4, <2>6, <3>2, <3>4 DEF Contract!TakeBack
    <3>6. QED
      BY <3>3, <3>5 DEF Contract!Next
  <2>7. QED
    BY <2>5, <2>6
<1>8. ASSUME NEW i \in Steps, TakeEffect(i) PROVE Contract!Next
  <2>1. /\ i \in Effectful /\ effect[i] = "none"
        /\ effect' = [effect EXCEPT ![i] = "applied"]
        /\ UNCHANGED <<promise, status, uncompensated>>
    BY <1>8 DEF TakeEffect
  <2>2. i = current /\ pc = "awaitStep" /\ failedStep = 0 /\ status = "none"
    BY <1>8 DEF TakeEffect, CalmInv, FailureInv
  <2>3. uncompensated = {} /\ Owed' = Owed \cup {i}
    BY <2>1, <2>2 DEF InPlace, Owed, CalmInv
  <2>4. UNCHANGED Phase /\ Phase = "forward"
    BY <2>1, <2>2 DEF Phase, CalmInv
  <2>5. \A j \in Effectful : j < i => effect[j] = "applied"
    BY <2>2 DEF FailureInv
  <2>6. ASSUME NEW j \in Steps, effect[j] = "applied" PROVE j \in Effectful /\ j < i
    <3>1. ~(j > current) /\ j # i
      BY <2>1, <2>6 DEF StepInv
    <3>2. QED
      BY <1>0, <2>2, <2>6, <3>1 DEF FailureInv
  <2>7. Owed = {j \in Effectful : j < i}
    BY <2>3, <2>5, <2>6 DEF InPlace, Owed
  <2>8. Contract!Perform(i)
    BY <2>1, <2>2, <2>3, <2>4, <2>7 DEF Contract!Perform, Contract!Frontier
  <2>9. QED
    BY <2>1, <2>8 DEF Contract!Next
<1>9. ASSUME NEW i \in Steps, Settle(i)
      PROVE  Contract!Next \/ UNCHANGED <<Owed, Phase, status>>
  <2>1. pc = "awaitStep" /\ status = "none" /\ UNCHANGED <<Owed, status>>
    BY <1>9 DEF Settle, Resolve, Reject, CalmInv, InPlace, Owed
  <2>2. Phase = "forward"
    BY <2>1 DEF Phase, CalmInv
  <2>3. CASE Resolve(i)
    <3>1. \A j \in Steps : promise'[j] # "rejected"
      BY <2>1, <2>3 DEF Resolve, CalmInv
    <3>2. UNCHANGED Phase
      BY <2>2, <3>1 DEF Phase
    <3>3. QED
      BY <2>1, <3>2
  <2>4. CASE Reject(i)
    <3>1. promise'[i] = "rejected"
      BY <2>4 DEF Reject
    <3>2. Phase' = "backward"
      BY <3>1 DEF Phase
    <3>3. QED
      BY <2>1, <2>2, <3>2 DEF Contract!Next, Contract!GiveUp
  <2>5. QED
    BY <1>9, <2>3, <2>4 DEF Settle
<1>10. QED
  BY <1>2, <1>3, <1>4, <1>5, <1>6, <1>7, <1>8, <1>9 DEF Next, Orchestrate

\* A saga of which nothing worse befalls than a crash, and compensations that keep
\* their failures to themselves, is all-or-nothing, up to what those leave: it
\* implements SagaContract.
THEOREM SagaImplementsContract ==
  ASSUME Lenient
  PROVE  Spec => ContractHolds
<1>1. IInv /\ CalmInv /\ [Next]_vars => CalmInv'
  BY CalmNext
<1>2. Spec => []CalmInv
  BY CalmInit, Invariance, <1>1, PTL DEF Spec
<1>3. IInv /\ CalmInv /\ [Next]_vars => [Contract!Next]_(Contract!vars)
  BY ContractNext
<1>4. QED
  BY ContractInit, Invariance, <1>2, <1>3, PTL
     DEF Spec, ContractHolds, Contract!Spec
=============================================================================
