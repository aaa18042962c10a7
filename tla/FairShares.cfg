SPECIFICATION SharingSpec
INVARIANT ClassesShareByQuantum
INVARIANT FlowsShareEqually
CONSTANTS
  ClassPairs <- TheClasses
  FlowPairs <- TheFlows
  Traffic <- TwoVsOne
  Flows = 2
  Sizes = {1, 2}
  MaxSize = 2
  DropBatchSize = 2
  QuantumMultiplier = 2000
  UserQuantum = 1
  UserBacklog = 100
  Mtu = 2
  BacklogMtuPackets = 3
  CoDelDefaultBytes = 5
  MinBytes = 1
  Word = 65536
  GarbageDeficit <- Zeroes
  Peekable = FALSE
  NoItem = NoItem
