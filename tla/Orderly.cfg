SPECIFICATION MCSpec
CONSTANTS
  Op = {o1}
  Version = {v1, v2}
  First = v1
  Shared = {v1, v2}
  None = None
  Proc = {p1, p2, p3}
  MaxClaims = 1
  NoClaim = NoClaim
PROPERTIES DeadClaimIsReclaimed ServerComesBack
CHECK_DEADLOCK FALSE
