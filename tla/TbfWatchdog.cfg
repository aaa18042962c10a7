SPECIFICATION Spec
INVARIANT WatchdogInTime
CONSTANTS
  Configs <- TwoBuckets
  Sizes = {1, 2}
  MaxSize = 3
  Second = 2
  Word = 8
  NanDelay = 1
  Horizon = 8
  NoEvent = NoEvent
