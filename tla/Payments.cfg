SPECIFICATION MCSpec
CONSTANTS
  Requests = {r1, r2, r3}
  Methods = {"m1", "m2", "m3"}
  Users = {"ann", "bob"}
  Owner <- MCOwner
  Changes <- MCChanges
  Ids = {i1, i2, i3}
  Payers = {u1, u2}
  MaxTime = 5
  MaxCreated = 3
  MaxWrites = 1
  PageSize = 1
  Calls = {c1, c2}
  Units = 2
  Lifetime = 4
  Margin = 2
  MaxDelay = 1
SYMMETRY Symmetry
INVARIANTS NoChangeLost DefaultStands ReadsHold TokensAreValid
PROPERTIES PastDueStands KeepsPaymentLife
CHECK_DEADLOCK FALSE
