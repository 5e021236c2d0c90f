SPECIFICATION FairSpec
CONSTANTS
  p1 = p1
  p2 = p2
  w1 = w1
  w2 = w2
  c1 = c1
  c2 = c2
  t1 = t1
  t2 = t2
  NoTask = NoTask
  Tasks = {t1}
  Clients = {c1}
  Procs = {p1}
  Workers = {w1}
  ProcOf <- OneProcess
  Ops = {"parse", "stop"}
  MsgIds = {1, 2, 3, 4, 5}
  LogIds = {1, 2, 3, 4, 5}
  MaxAsks = 2
  MaxFaults = 1
  MaxLapses = 1
INVARIANTS TypeOK RunsAreBacked
PROPERTY RunsEnd
CHECK_DEADLOCK FALSE
