SPECIFICATION MCSpec
CONSTANTS
  Inputs = {i1, i2, i3}
  Interrupts = {x1}
  Long = {}
  MaxEpoch = 2
  Failures = {}
  Op = {o1, o2}
  Version = {v1, v2}
  First = v1
  Shared = {v2}
  None = None
SYMMETRY Symmetry
INVARIANTS InDoubtIsFenced NothingCrossesDoubt ReportsAreTrue
INVARIANTS EffectsAreOwned FencedStaysFenced SucceededHasRun
PROPERTY OneHelper
CHECK_DEADLOCK FALSE
