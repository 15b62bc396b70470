SPECIFICATION Spec
CONSTANTS
  Changed = {4, 5}
  Missed = {6}
  Deadlines <- MCDeadlines
  Leases = {3}
  Gids = {7}
  Takers = {t1, t2}
  MaxTriggers = 3
  MaxDestroys = 1
INVARIANT ObservableByPolling
CHECK_DEADLOCK FALSE
