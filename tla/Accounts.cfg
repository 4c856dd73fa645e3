SPECIFICATION FairSpec
CONSTANTS
  e1 = e1
  e2 = e2
  Emails <- MCEmails
  Username <- MCUsername
  Calls = {c1, c2}
  Sagas = {s1}
  MaxUsers = 2
  Environment = {"timeout", "failure", "unseeded", "crash"}
INVARIANTS
  OwnUserOnly
  OutcomeIsTruth
PROPERTIES
  OnlyOwnUserErased
  CallsAnswered
CHECK_DEADLOCK FALSE
