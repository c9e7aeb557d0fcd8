CONSTANTS
  p1 = p1
  p2 = p2
  p3 = p3
  e1 = e1
  NoPacket = NoPacket
  Packets <- ThreePackets
  EmptyDatagrams <- OneEmpty
SPECIFICATION FairReceiverSpec
INVARIANTS
  ReceiveOrder
  CountIsCurrent
PROPERTY CloseEndsListener
CHECK_DEADLOCK FALSE
