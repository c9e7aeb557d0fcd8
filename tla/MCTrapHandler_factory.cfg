CONSTANTS
  malformed = malformed
  unknownInform = unknownInform
  event = event
  badEvent = badEvent
  e1 = e1
  t1 = t1
  t2 = t2
  NoPacket = NoPacket
  Packets <- TwoPackets
  Content <- TwoContent
  EmptyDatagrams <- NoEmpty
  OidComparison = "address"
  Timers <- OneTimer
  Limits <- TheLimits
  Allowed <- AsSizeT
SPECIFICATION Spec
INVARIANT KnownTrapHandled
