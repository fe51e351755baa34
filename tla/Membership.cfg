SPECIFICATION Spec
CONSTANTS
    Engines = {1, 2, 3}
    Owner = 1
    FoldAfter = 2
    MaxTrip = 1
    MaxOps = 3
    MaxNow = 4
    MaxRestarts = 1
INVARIANTS
    RosterIsHeard
    NoneFoldedAway
    DiskFaithful
    AgreeAtRest
CHECK_DEADLOCK FALSE
