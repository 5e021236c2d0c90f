SPECIFICATION Spec
CONSTANTS
    k1 = k1  t1 = t1  t2 = t2  t3 = t3
    p1 = p1  p2 = p2  w1 = w1  w2 = w2
    KBs = {k1}
    Tasks = {t1, t2, t3}
    KbOf <- KbOfRows
    TypeOf <- Kinds
    Procs = {p1, p2}
    Workers = {w1, w2}
    Home <- Homes
    SyncDeletedFiles = {TRUE, FALSE}
    Classes = {"transient"}
    Budget <- OneAttempt
    Ops = {"link", "unlink", "schedule", "cancel", "rebuild", "resume", "config"}
    QuietStart = TRUE
    MaxOps = 2
    MaxFaults = 1
    NoTask = NoTask  Nobody = Nobody  Expiring = Expiring
INVARIANTS
    OneRunning
    PollingGoesOn
PROPERTY CancelIsFinal
SYMMETRY Symmetry
CHECK_DEADLOCK FALSE
