SPECIFICATION Spec
CONSTANTS
  Req = {a}
  Prompts = {}
  Steers = {}
  Faults = {"native"}
  None = None
INVARIANT DeliveredOnce
CHECK_DEADLOCK FALSE
