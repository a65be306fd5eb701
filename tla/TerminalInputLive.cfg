SPECIFICATION FairSpec
CONSTANTS
  Inputs = {i1, i2}
  Interrupts = {x1}
  Long = {i1}
  MaxEpoch = 2
  Failures = {"error", "unreachable"}
PROPERTIES WritesAreWhole WritesAreOrdered InputsSettle
CHECK_DEADLOCK FALSE
