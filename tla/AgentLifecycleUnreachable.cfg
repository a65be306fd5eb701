SPECIFICATION Spec
CONSTANTS
  Agents = {a1}
  Requests = {r1}
  None = None
  Faults = {"unreachable"}
  MaxCrashes = 0
  MaxOps = 2
INVARIANT LiveIsListed
CHECK_DEADLOCK FALSE
