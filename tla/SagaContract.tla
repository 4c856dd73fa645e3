---------------------------- MODULE SagaContract ----------------------------
(***************************************************************************)
(* What a saga promises: its effects appear one after the other in the     *)
(* order of the steps and, if it gives up, disappear in the reverse order; *)
(* it ends COMPLETED with all of them in place or COMPENSATED with none.   *)
(***************************************************************************)
EXTENDS Integers

CONSTANT Effectful  \* the steps that have an effect, a set of numbers

VARIABLES
  inPlace,  \* the steps whose effect is in place
  phase,    \* "forward", or "backward" once the saga has given up
  outcome   \* how it ended, "none" before that

vars == <<inPlace, phase, outcome>>

Init == inPlace = {} /\ phase = "forward" /\ outcome = "none"

\* Everything before step i, and nothing after it, is in place.
Frontier(i) == inPlace = {j \in Effectful : j < i}

Perform(i) ==
  /\ phase = "forward" /\ outcome = "none"
  /\ Frontier(i)
  /\ inPlace' = inPlace \cup {i}
  /\ UNCHANGED <<phase, outcome>>

GiveUp ==
  /\ phase = "forward" /\ outcome = "none"
  /\ phase' = "backward"
  /\ UNCHANGED <<inPlace, outcome>>

TakeBack(i) ==
  /\ phase = "backward" /\ outcome = "none"
  /\ i \in inPlace /\ \A j \in inPlace : j <= i
  /\ inPlace' = inPlace \ {i}
  /\ UNCHANGED <<phase, outcome>>

End ==
  /\ outcome = "none"
  /\ \/ phase = "forward" /\ inPlace = Effectful /\ outcome' = "COMPLETED"
     \/ phase = "backward" /\ inPlace = {} /\ outcome' = "COMPENSATED"
  /\ UNCHANGED <<inPlace, phase>>

Next == \/ GiveUp \/ End
        \/ \E i \in Effectful : Perform(i) \/ TakeBack(i)

Spec == Init /\ [][Next]_vars
=============================================================================
