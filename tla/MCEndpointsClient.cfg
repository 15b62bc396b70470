SPECIFICATION Spec
CONSTANTS
  Threads = {t1, t2}
  Partners = {{"server", "client"}}
  Latched = FALSE
  Limited = FALSE
  Timed = FALSE
  MaxOps = 3
  MaxFailures = 0
INVARIANT Usable
CHECK_DEADLOCK FALSE
