SPECIFICATION MCSpec
CONSTANTS
  Entities = {u1, u2}
  MaxVersion = 3
  Writes = {"updated", "deleted"}
  RetryHeaders = {0}
  MaxFaults = 1
  Environment = {"esError", "lost"}
  Files = {app}
  MaxLines = 3
  MaxFlushes = 2
  LogEnvironment = {"unwatched", "removed", "rejected", "close", "crash"}
INVARIANTS
  InOnePlace
PROPERTIES
  EventuallyInSync
  EveryLineIndexed
CHECK_DEADLOCK FALSE
