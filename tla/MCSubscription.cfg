SPECIFICATION MCFairSpec
CONSTANTS
  RingDepth = 2
  QueueDepth = 2
  KeepAlls = {FALSE}
  Latched = TRUE
  Compatible = TRUE
  Lifespan = FALSE
  Subs = {s1}
  MaxWriters = 2
  MaxCrashes = 1
  MaxLocal = 4
  MaxRemote = 0
  Sizes = {1, 2}
  FirstCap = 1
INVARIANTS UnreadIsAvailableUnlessMixed SkipOnlyLost NoEarlierGeneration InOrderOnceFromBoth AvailableUnlessMixed
PROPERTY CatchesUp
CHECK_DEADLOCK FALSE
