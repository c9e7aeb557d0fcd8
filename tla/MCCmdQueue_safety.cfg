CONSTANTS
  c1 = c1
  c2 = c2
  c3 = c3
  Cmds <- ThreeCmds
  Limits <- AllLimits
  SizeTModulus = 256
  ExitCodes <- AllCodes
  STILL_ACTIVE = 259
SPECIFICATION Spec
INVARIANTS
  SlotAccounting
  Ownership
  NoOrphans
  PassIsComplete
PROPERTIES
  ImplementsExecutor
