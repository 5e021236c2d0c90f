SPECIFICATION FairSpec
CONSTANTS
    Procs = {p1, p2}
    MaxChanges = 4
    MaxExpiries = 3
    MaxFails = 2
INVARIANT MarkKept
PROPERTY MarkAnswered
CHECK_DEADLOCK FALSE
