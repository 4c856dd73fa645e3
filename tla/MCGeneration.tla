---------------------------- MODULE MCGeneration ----------------------------
(***************************************************************************)
(* The parts of the testing plugin beside its test runs, checked in one    *)
(* run: a behaviour is one of a single part, and the others rest.          *)
(***************************************************************************)
EXTENDS TestGeneration, StepRunner, TLC

VARIABLE part

RunnerAtRest ==
  /\ steps = <<>> /\ kind = "API" /\ last = NoResponse
  /\ results = <<>> /\ heard = <<>> /\ verdict = "running"
GenerationAtRest ==
  /\ GenerationInit
  /\ scope = [c \in Configs |-> Global]
  /\ defaults = {} /\ active = {} /\ document.status = None

MCInit ==
  \/ part = "generation" /\ GenerationInit /\ RunnerAtRest
  \/ part = "documents" /\ GenerationAtRest /\ RunnerAtRest
  \/ part = "runner" /\ GenerationAtRest /\ RunnerInit

MCNext ==
  /\ UNCHANGED part
  /\ \/ /\ part = "generation"
        /\ \E r \in Requests : ConfigRequest(r) \/ Generation(r) \/ StopRequest(r)
        /\ UNCHANGED runnerVars
     \/ part = "documents" /\ Documents /\ UNCHANGED runnerVars
     \/ part = "runner" /\ RunnerNext /\ UNCHANGED generationVars

MCSpec == MCInit /\ [][MCNext]_<<part, generationVars, runnerVars>>

MCItems == <<"i1", "i2">>
Symmetry == Permutations(Requests) \cup Permutations(Configs)
=============================================================================
