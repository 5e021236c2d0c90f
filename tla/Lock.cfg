SPECIFICATION Spec
CONSTANTS
  p1 = p1
  p2 = p2
  p3 = p3
  w1 = w1
  w2 = w2
  w3 = w3
  w4 = w4
  Nobody = Nobody
  Workers = {w1, w2, w3, w4}
  UseRedis = TRUE
  Procs = {p1, p2, p3}
  ProcOf <- Shared
INVARIANTS LocalExclusion LoneWorkersExclude
PROPERTY KeyLostToOwnRelease
CHECK_DEADLOCK FALSE
