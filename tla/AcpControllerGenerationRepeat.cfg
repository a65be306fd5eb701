SPECIFICATION Spec
CONSTANTS
  Proc = {p1, p2, p3, p4}
  MaxClaims = 1
  MaxRunning = 3
  Disturbances = {}
  None = None
SYMMETRY ProcSymmetry
PROPERTY Fenced
CHECK_DEADLOCK FALSE
