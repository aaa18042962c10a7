SPECIFICATION FairSpec
INVARIANT EveryJobInOnePlace
INVARIANT NoWorkerLeavesEarly
INVARIANT SuccessIsReal
PROPERTY NoWorkAfterInterrupt
PROPERTY EveryThreadEnds
CONSTANTS
  Workers = {w1, w2}
  NJobs = 3
  Skip = {2}
  Examples = {3}
CHECK_DEADLOCK FALSE
