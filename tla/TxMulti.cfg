SPECIFICATION FairSpec
INVARIANT InOrder
INVARIANT NothingVanishes
INVARIANT WaitingHasReason
PROPERTY EveryPacketLeaves
CONSTANTS
  Flows <- TwoFlows
  TxQueues <- TwoQueues
  TxqOf <- OwnQueue
  Sizes = {1, 3}
  Header = 1
  MaxPackets = 5
  QdiscLimit = 1
  Quota = 4
  DevMode = "bytes"
  DevMaxSize = 5
  Mtu = 3
  NoPacket = NoPacket
CHECK_DEADLOCK FALSE
