SPECIFICATION FairTimersSpec
CONSTANTS
  Tasks = {1}
  Timers = {1, 2, 3, 4}
  MaxCalls = 5
  NoTimer = 0
INVARIANTS
  WakeupKept
PROPERTIES
  WakeupComes
CHECK_DEADLOCK FALSE
