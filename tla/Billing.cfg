SPECIFICATION MCSpec
CONSTANTS
  Invoices = {i1}
  Payments = {p1, p2}
  Sweeps = {s1}
  Refunds = {r1, r2}
  Price = 2
  Environment = {"overlap", "handoff", "failure"}
  N = 5
  Effectful = {2, 3, 4, 5}
  HasStore = TRUE
  Faults = {"crash", "swallow"}
  MaxTime = 4
SYMMETRY Symmetry
INVARIANTS
  PaidMeansCaptured
  RefundsAddUp
  NeverChargedAgain
  RecordsHang
PROPERTIES
  PaidIsSettled
  ContractHolds
CHECK_DEADLOCK FALSE
