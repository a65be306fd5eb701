SPECIFICATION MCSpec
CONSTANTS
  Proc = {p1, p2, p3, p4}
  MaxClaims = 2
  NoClaim = NoClaim
  MaxAcpClaims = 1
  MaxRunning = 2
  Disturbances = {"stall"}
  None = None
SYMMETRY ProcSymmetry
CONSTRAINTS FewReturns LastAfterDeaths
INVARIANTS
  MutualExclusion HolderIsPublished LiveClaimAccounted BreakIsCurrent ReadIsCurrent
  OneWriter
PROPERTIES LiveClaimNeverBroken Fenced AcpFenced
CHECK_DEADLOCK FALSE
