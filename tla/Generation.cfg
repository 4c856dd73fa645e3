SPECIFICATION MCSpec
CONSTANTS
  Configs = {m1, m2, m3}
  Projects = {"p"}
  Requests = {r1, r2}
  Items <- MCItems
  Limit = 1
  MaxSteps = 3
  Statuses = {"200", "404"}
  Bodies = {"abc", "b", "null", "undefined"}
SYMMETRY Symmetry
INVARIANTS ConfigsHold DocumentsAttended VerdictIsEarned
CHECK_DEADLOCK FALSE
