SPECIFICATION ReportSpec
CONSTANTS
  Indexed <- MCIndexed
  Partitions = {"p", "q"}
  TopicOf <- MCTopicOf
  MaxMessages = 1
  MaxMishaps = 1
  ReportEnvironment = {"failure"}
INVARIANT AllDataIsInSync
CHECK_DEADLOCK FALSE
