CONSTANTS
  create = create
  change = change
  other = other
  i1 = i1
  i2 = i2
  Messages <- MCMessages
  Ids <- MCIds
  Requests <- MCRequests
  Mortal <- MCMortal
  MAXQSIZE = 1
  MAXCOMMANDS = 1
  ExitCodes = {0, 1}
  STILL_ACTIVE = 259
  MaxTime = 1
  None = None
SPECIFICATION FairSpec
INVARIANTS
  RequestsFaithful
  
PROPERTIES
  ImplementsTimerTable
  DueTimerHandled
