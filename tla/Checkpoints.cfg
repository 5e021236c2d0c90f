SPECIFICATION FairSpec
CONSTANTS
  N = 3
  Marked = {1, 3}
  MaxRestarts = 2
  NoState = NoState
INVARIANTS
  CheckpointCovers
  CompleteIsWhole
PROPERTIES
  ImplementsWindow
  RunEnds
CHECK_DEADLOCK FALSE
