SPECIFICATION Spec
CONSTANTS
    Members = {1, 2, 3}
    Owner = 1
    Starts = {{1, 2}, {1, 2, 3}}
    MaxParked = 2
    MaxWords = 2
    MaxChanges = 1
    MaxDeaths = 1
INVARIANTS
    SeenIsApplied
    LeftReadsNoMore
PROPERTIES
    NoneWaitsForWhatCame
    ChainForward
CHECK_DEADLOCK FALSE
