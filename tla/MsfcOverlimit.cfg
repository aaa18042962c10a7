SPECIFICATION FairSpec
INVARIANT CountersMatchQueues
INVARIANT WithinLimit
INVARIANT NeverCrashes
PROPERTY DequeueReturns
CONSTANTS
  Traffic <- TwoFlows
  Flows = 2
  Sizes = {1, 3}
  MaxSize = 3
  DropBatchSize = 2
  QuantumMultiplier = 2000
  UserQuantum = 0
  UserBacklog = 100
  Mtu = 2
  BacklogMtuPackets = 3
  CoDelDefaultBytes = 5
  MinBytes = 0
  Word = 65536
  GarbageDeficit <- Zeroes
  Peekable = TRUE
  NoItem = NoItem
