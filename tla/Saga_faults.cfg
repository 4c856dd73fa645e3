SPECIFICATION FairSpec
CONSTANTS
  N = 3
  Effectful = {1, 2, 3}
  HasStore = TRUE
  Faults = {"timeout", "partial", "hook", "compensation", "swallow", "store", "crash"}
INVARIANTS
  EveryEffectAccountedFor
  OutcomeHolds
  CompensatesInReverse
PROPERTIES
  SagaEnds
CHECK_DEADLOCK FALSE
