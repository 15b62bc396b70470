SPECIFICATION Spec
CONSTANTS
  Sessions = {s1, s2}
  Threads = {t1, t2}
  Names = {n}
  MaxTopics = 2
  MaxCreates = 3
INVARIANT AvailableOnlyIfServed
CHECK_DEADLOCK FALSE
