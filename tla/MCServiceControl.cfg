CONSTANTS
  dispatcher = dispatcher
  serviceMain = serviceMain
  worker = worker
  NoThread = NoThread
  Threads <- TheThreads
  Owner = dispatcher
  Severities <- TheSeverities
  Levels <- TheLevels
  MaxSuspendCount = 2
SPECIFICATION FairSpec
INVARIANTS
  MessageIntact
  BuffersAlive
  NoWriteToClosedFile
  OrderlyStop
PROPERTIES
  PausedIsQuiet
  
  StopEndsProcess
