CONSTANTS
  c1 = c1
  c2 = c2
  c3 = c3
  Cmds <- ThreeCmds
  Limits <- PositiveLimits
  SizeTModulus = 256
  ExitCodes <- VisibleCodes
  STILL_ACTIVE = 259
SPECIFICATION FairSpec
PROPERTIES
  EveryCommandLeavesQueue
  EndedCommandReaped
