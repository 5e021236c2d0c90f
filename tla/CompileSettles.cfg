SPECIFICATION FairSpec
CONSTANTS
    Docs = {d1}
    Workers = {w1, w2}
    Local = {}
    Items = {c1, c2}
    Variant = "structure"
    Changes = {"parse", "toggle", "delete"}
    ClaimBatch = 2
    MaxEvents = 3
    MaxClaims = 4
    MaxFaults = 1
    MaxRebuilds = 0
INVARIANT LastEventDecides
PROPERTY EventsSettle
CHECK_DEADLOCK FALSE
