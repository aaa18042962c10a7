SPECIFICATION SharingSpec
INVARIANT ClassesShareByQuantum
CONSTANTS
  ClassPairs <- TheClasses
  FlowPairs <- NoPairs
  Traffic <- TwoClasses
  Flows = 1
  Sizes = {1, 3}
  MaxSize = 2
  DropBatchSize = 2
  QuantumMultiplier = 2000
  UserQuantum = 1
  UserBacklog = 100
  Mtu = 2
  BacklogMtuPackets = 3
  CoDelDefaultBytes = 5
  MinBytes = 1
  Word = 65536
  GarbageDeficit <- Debt
  Peekable = FALSE
  NoItem = NoItem
