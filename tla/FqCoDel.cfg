SPECIFICATION ServingSpec
INVARIANT StatusMatchesLists
INVARIANT FqNothingStranded
INVARIANT FqDeficitsBounded
INVARIANT FqWithinLimit
PROPERTY FqNoFlowStarves
PROPERTY FqRefinesFlowFifos
CONSTANTS
  Matches <- Filtered
  Flows = 3
  Sizes = {1, 2}
  Quantum = 2
  MaxSize = 2
  DropBatchSize = 2
  MinBytes = 1
