SPECIFICATION FairSpec
CONSTANTS
    Tasks = {t1}
    Workers = {w1, w2}
    MaxAttempts = 2
    MaxFails = 2
    MaxFaults = 2
INVARIANTS OneExtraction StoredIsStored LeaseProtects AttemptLimit
PROPERTY TasksSettle
CHECK_DEADLOCK FALSE
