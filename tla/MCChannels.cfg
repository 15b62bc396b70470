SPECIFICATION MCFairSpec
CONSTANTS
  Old = Old
  None = None
  OldSocket = Old
  NoSocket = None
  Threads = {1, 2}
  Partners = {{"pub", "sub"}, {"server", "client"}}
  Latched = TRUE
  Limited = TRUE
  Timed = TRUE
  MaxOps = 4
  MaxFailures = 1
  Processes = {1, 2}
  Sizes <- SmallAndLarge
  Retries = 2
  SegmentFaults = 1
  Sharers = {1, 2, 3}
  EventFdFaults = 1
  Clients = {"near", "far"}
  Remote = {"far"}
  Depth = 1
  MaxRequests = 1
  MaxAttempts = 2
  MaxFaults = 2
  MaxRestarts = 1
INVARIANTS
  UsableIfNoOverlap AccountedIfNoOverlap MeetUnlessReplaced WokenUnlessSplit
  ResponsesCorrelated ExecutedOnceUnlessBroken
PROPERTY CallsEnd
CHECK_DEADLOCK FALSE
