CONSTANTS
    MaxAttempts = 5
    UseFallbackPool = TRUE
    Leases = {1, 2, 3, 4, 5}
    Cells = {1, 2}
    Users = {"api", "gateway", "other"}
    Addresses = {"a", "b"}
    TTL = 1
    MaxTime = 2
SPECIFICATION Spec
INVARIANTS RotatesCell NoLeakedResponse CancelStops RefusalIsFinal
PROPERTY LivesItsTTL
CHECK_DEADLOCK FALSE
