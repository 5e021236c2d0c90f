SPECIFICATION FairSpec
CONSTANTS
  t1 = t1
  t2 = t2
  w1 = w1
  None = None
  Tasks = {t1, t2}
  MaxRuns = 1
  MaxBatches = 2
  Workers = {w1}
  QueueSize = 1
INVARIANTS TypeOK SettledOnce BoundedWait
PROPERTIES CollectEnds StopReturns
CHECK_DEADLOCK FALSE
