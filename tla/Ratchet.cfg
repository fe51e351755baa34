SPECIFICATION RatchetSpec
CONSTANTS
    Limit = 2
    Jump = 2
    TTL = 2
    MaxSent = 6
    MaxNow = 2
    MaxCrashes = 1
INVARIANTS
    HandedOnce
    KeysErased
    StillOpens
CHECK_DEADLOCK FALSE
