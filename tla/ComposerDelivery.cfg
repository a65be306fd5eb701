SPECIFICATION MCSpec
CONSTANTS
  Req = {a, b}
  Prompts = {}
  Steers = {b}
  Faults = {"disconnect", "crash"}
  Other = {"disconnect", "native", "steer-late", "turn-error"}
  None = None
INVARIANTS FailureIsDefinite AtMostOnce AcceptedWasDelivered
PROPERTIES QueueIsKept LastingMessagesSettle
CHECK_DEADLOCK FALSE
