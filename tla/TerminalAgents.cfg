SPECIFICATION MCSpec
CONSTANTS
  Agents = {a1, a2}
  Requests = {r1}
  None = None
  Faults = {"disk", "runtime", "provider"}
  MaxCrashes = 2
  MaxOps = 4
  FarAgents = {a1}
  FarFaults = {"disk", "runtime", "provider", "unreachable"}
  c1 = c1
  c2 = c2
  c3 = c3
  Conn <- MCConn
  Generation <- MCGeneration
  Rotating = {c1}
  Breaking = {c1}
  Session = {s1}
  MaxWork = 2
INVARIANTS LiveIsOwned CreatedOnce ReportsHold UnfinishedIsReachable ControlIsExclusive
PROPERTIES FarOperationsEnd ControlChanges
CHECK_DEADLOCK FALSE
