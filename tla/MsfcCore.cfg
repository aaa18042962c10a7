SPECIFICATION ServingSpec
INVARIANT TypeOK
INVARIANT ListsMatchFlags
INVARIANT NoPacketStranded
INVARIANT DeficitsBounded
INVARIANT ClassDebtBounded
PROPERTY NoFlowStarves
PROPERTY RefinesFlowFifos
CONSTANTS
  Traffic <- Grid
  Flows = 2
  Sizes = {1, 3}
  MaxSize = 2
  DropBatchSize = 2
  QuantumMultiplier = 2000
  UserQuantum = 1
  UserBacklog = 100
  Mtu = 2
  BacklogMtuPackets = 3
  CoDelDefaultBytes = 5
  MinBytes = 1
  Word = 65536
  GarbageDeficit <- Garbage
  Peekable = FALSE
  NoItem = NoItem
