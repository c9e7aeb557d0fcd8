CONSTANTS
  NewHosts <- MCNewHosts
  ThresholdIds = {1, 2}
  Broken = {2}
  Settings = {"cmdQueueLength"}
  Values = {1}
  Severities = {"NORMAL"}
  Unknown = "NONE"
  Times = {0, 1}
  DuplicateTests = {"inverted"}
  MaxEdits = 3
  MaxObjects = 3
  MaxSessions = 2
  None = None
  Wild = Wild
SPECIFICATION Spec
INVARIANT LoadedHostFound
CHECK_DEADLOCK FALSE
