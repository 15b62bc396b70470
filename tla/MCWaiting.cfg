SPECIFICATION MCFairSpec
CONSTANTS
  w1 = w1  w2 = w2  e1 = e1  e2 = e2  f1 = f1  f2 = f2
  Takers = {t1, t2}
  Changed = {4, 5}  Missed = {}  Deadlines <- PublisherDeadline  Leases = {3}  Gids = {7}
  MaxEvents = 3  MaxDestroys = 1
  Waiters = {w1, w2}
  Entities = {e1, e2}
  OwnerOf <- PairOwner
  Fds = {f1, f2}
  FdOf <- SplitFd
  Signalled = {f1}
  Finite = {w1}
  MaxMessages = 2
  MaxTriggers = 2
INVARIANTS NoMissedWakeup NoMissedTrigger EnoughUnlessOverlap
PROPERTIES TriggerReported AllTaken
CHECK_DEADLOCK FALSE
