SPECIFICATION FairSpec
CONSTANTS
  Agents = {a1}
  Requests = {r1}
  None = None
  Faults = {}
  MaxCrashes = 1
  MaxOps = 2
PROPERTY ArchivesReachTheirEnd
CHECK_DEADLOCK FALSE
