SPECIFICATION FairSpec
PROPERTY DequeueReturns
CONSTANTS
  Traffic <- BestEffortAndExpedited
  Flows = 1
  Sizes = {1500}
  MaxSize = 2
  DropBatchSize = 2
  QuantumMultiplier = 2000
  UserQuantum = 0
  UserBacklog = 100
  Mtu = 1500
  BacklogMtuPackets = 1000
  CoDelDefaultBytes = 1500000
  MinBytes = 1500
  Word = 1073741824
  GarbageDeficit <- Zeroes
  Peekable = FALSE
  NoItem = NoItem
