CONSTANTS
  malformed = malformed
  unknownInform = unknownInform
  event = event
  badEvent = badEvent
  e1 = e1
  t1 = t1
  t2 = t2
  NoPacket = NoPacket
  Packets <- AllPackets
  Content <- AllContent
  EmptyDatagrams <- NoEmpty
  OidComparison = "value"
  Timers <- NoTimers
  Limits <- OneLimit
  Allowed <- AsSizeT
SPECIFICATION Spec
INVARIANTS
  InformsAcknowledged
  NoUseAfterDelete
  FinalAccounts

  
