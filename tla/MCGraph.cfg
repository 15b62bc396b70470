SPECIFICATION MCSpec
CONSTANTS
  d1 = d1  d2 = d2  m1 = m1  n1 = n1  c1 = c1  c2 = c2
  Peers = {p1, p2}
  Publishers = {w1}
  Syncers = {y1}
  Durabilities = {"none", "startup", "passing", "transient"}
  Depth = 2
  MaxEvents = 5
SYMMETRY Symmetry
INVARIANTS
  RoutesFreshUnlessOverlap
  LosslessUnlessOverlap
  FirstInOrderUnlessOverlap
  DeliveredHasHistoryUnlessOverlap
  LateJoinerServedUnlessOverlap
  NodeRevisionUncrossed
  NoneMissing
  NoneInvented
CHECK_DEADLOCK FALSE
