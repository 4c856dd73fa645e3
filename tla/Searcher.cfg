SPECIFICATION MCSpec
CONSTANTS
  Entities = {u1}
  MaxVersion = 3
  Writes = {"updated", "deleted"}
  RetryHeaders = {0, 3}
  MaxFaults = 1
  Environment = {"fresh", "reorder", "lost", "early", "esDown", "esError", "commit", "shutdown", "crash"}
  Indexed <- MCIndexed
  Partitions = {"p", "q"}
  TopicOf <- MCTopicOf
  MaxMessages = 2
  MaxMishaps = 1
  ReportEnvironment = {"skipped", "deleted", "uncommitted", "failure", "reset"}
INVARIANTS
  InSyncHolds
  CommittedMeansHandled
  InSyncWhenIdle
CHECK_DEADLOCK FALSE
