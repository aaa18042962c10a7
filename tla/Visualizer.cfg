SPECIFICATION FairSpec
INVARIANT LockedReadsExclusive
INVARIANT NoPauseLost
INVARIANT PlayHasTimer
PROPERTY PlayingAdvances
PROPERTY QuitEnds
CONSTANTS
  MaxTime = 2
  MaxTimers = 3
  MaxPauses = 2
  NoTimer = NoTimer
CHECK_DEADLOCK FALSE
