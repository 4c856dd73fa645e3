SPECIFICATION MCSpec
CONSTANTS
  Plugins = {"payment"}
  Urls = {"u1", ""}
  Calls = {c1, c2}
  Environment = {"silent", "missed", "fallback", "overtaken", "stop"}
INVARIANT InStepAtRest
PROPERTY CallsEnd
CHECK_DEADLOCK FALSE
