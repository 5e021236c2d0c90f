SPECIFICATION Spec
CONSTANTS
    Docs = {d1}
    Workers = {w1, w2}
    Local = {w1}
    Items = {c1}
    Variant = "wiki"
    Changes = {"parse", "toggle", "delete"}
    ClaimBatch = 1
    MaxEvents = 2
    MaxClaims = 3
    MaxFaults = 2
    MaxRebuilds = 1
INVARIANTS
    NothingLost
    RebuiltIsFresh
CHECK_DEADLOCK FALSE
