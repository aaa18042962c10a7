SPECIFICATION Spec
PROPERTY DeviceNeverDiscards
CONSTANTS
  Flows <- TwoFlows
  TxQueues <- OneQueue
  TxqOf <- SameQueue
  Sizes = {1, 3}
  Header = 1
  MaxPackets = 4
  QdiscLimit = 1
  Quota = 4
  DevMode = "bytes"
  DevMaxSize = 5
  Mtu = 3
  NoPacket = NoPacket
CHECK_DEADLOCK FALSE
