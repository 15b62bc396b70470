SPECIFICATION MCFairSpec
CONSTANTS
  s1 = s1
  Slots = {1, 2}
  Sessions = {s1, s2}
  Remotes = {r1}
  Mergers = {"acceptor", "sync"}
  None = None
  MaxMerges = 2
  MaxExpiries = 1
  MaxDaemons = 4
  MaxByHand = 1
  MaxFaults = 2
INVARIANTS IdentityUnlessRaced PublishedOnceUnlessRaced TogetherUnlessCrossed FailsOnlyAfterFault
PROPERTY SettlesAgain
CHECK_DEADLOCK FALSE
