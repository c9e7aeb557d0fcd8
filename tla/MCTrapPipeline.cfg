SPECIFICATION Spec
CONSTANTS
  None = None
  Messages <- MCMessages
  Rows <- MCRows
  Samples <- MCSamples
INVARIANTS
  TrapDecoded
  AckIsResponse
  
  
CHECK_DEADLOCK FALSE
