SPECIFICATION Spec
CONSTANTS
  s1 = s1
  s2 = s2
  g1 = g1
  g2 = g2
  Subscribers = {s1, s2}
  Gpus = {g1, g2}
  Capacity = 2
  MaxBatch = 3
  MaxEvents = 5
  KinesisMayFail = TRUE
SYMMETRY Interchangeable
CHECK_DEADLOCK FALSE
INVARIANT TypeOK
INVARIANT LossBounded
INVARIANT LatestIsNewest
