SPECIFICATION MCSpec
CONSTANTS
  p1 = p1
  p2 = p2
  Viewer = {p1, p2}
  NumAgents = 2
  Version <- MCVersion
  Changing = {1}
  Start <- MCStart
  PageSize = 1
  MaxBuffered = 0
  MaxQueue = 1
  MaxChanges = 3
  Trouble <- MCTrouble
  MaxFaults = 1
  Text = {t1, t2}
  MaxBindings = 2
  MaxLog = 4
  MaxEvents = 2
  MaxHeld = 1
  Faults = {"closed", "host-dies", "late", "read"}
  MaxHostFaults = 1
  NumFiles = 2
  Options <- MCOptions
  MaxAttempts = 2
  MaxFileChanges = 2
  MaxInvalidations = 1
  MaxRestarts = 1
INVARIANTS ViewIsTracked MirrorIsHost AnswersAreCurrent
PROPERTIES Follows PartPagesCatchUp MirrorFollows MirrorCatchesUp
CHECK_DEADLOCK FALSE
