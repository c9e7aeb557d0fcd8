CONSTANTS
  v1 = v1
  v2 = v2
  Volumes <- MCVolumes
  Tables <- MCTables
  Sizes = {0, 4, 5}
  MaxChanges = 2
  None = None
SPECIFICATION Spec
INVARIANTS
  LastReportTells
  SeverityAtHand
  NoLongSilence
  
CHECK_DEADLOCK FALSE
