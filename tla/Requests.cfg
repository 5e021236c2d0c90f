SPECIFICATION Spec
CONSTANTS
  p1 = p1
  p2 = p2
  w1 = w1
  w2 = w2
  c1 = c1
  c2 = c2
  t1 = t1
  t2 = t2
  NoTask = NoTask
  Tasks = {t1, t2}
  Clients = {c1, c2}
  Procs = {p1}
  Workers = {w1, w2}
  ProcOf <- OneProcess
  Ops = {"parse", "reparse", "stop", "remove", "delete"}
  MsgIds = {1, 2, 3, 4}
  LogIds = {1, 2, 3, 4, 5}
  MaxAsks = 2
  MaxFaults = 0
  MaxLapses = 0
INVARIANTS ClaimExclusive ClaimsHaveOwners OneOpenLog
PROPERTIES
  LogsMoveForward
  LifecycleSpec
SYMMETRY OneProcessSymmetry
CHECK_DEADLOCK FALSE
