SPECIFICATION FairSpec
CONSTANTS
  Cases = {c1, c2}
  Executions = {x1, x2}
  Environment = {"overlap", "timeout", "removed", "failure", "crash"}
INVARIANTS
  RunIsTruthful
PROPERTIES
  VerdictStands
  ExecutionsEnd
CHECK_DEADLOCK FALSE
