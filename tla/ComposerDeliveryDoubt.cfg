SPECIFICATION Spec
CONSTANTS
  Req = {a, s}
  Prompts = {}
  Steers = {s}
  Faults = {"steer-late"}
  None = None
INVARIANT FailedHadNoEffect
CHECK_DEADLOCK FALSE
