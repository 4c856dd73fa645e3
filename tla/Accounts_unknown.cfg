SPECIFICATION Spec
CONSTANTS
  e1 = e1
  e2 = e2
  Emails <- MCEmails
  Username <- MCUsername
  Calls = {c1, c2}
  Sagas = {}
  MaxUsers = 1
  Environment = {}
INVARIANT FreshWithinRequest
CHECK_DEADLOCK FALSE
