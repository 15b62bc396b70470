SPECIFICATION MCFairSpec
CONSTANTS
  d1 = d1
  d2 = d2
  m1 = m1
  n1 = n1
  Daemons = {d1, d2}
  NodesOf <- MCNodesOf
  MaxChanges = 3
  MaxFailures = 1
  MaxSilences = 1
  Watch = FALSE
PROPERTY SyncedAgain
