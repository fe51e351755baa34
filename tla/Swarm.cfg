SPECIFICATION FairSpec
CONSTANTS
    Nodes = {"o", "s", "t"}
    Owner = "o"
    Writers = {"o", "s"}
    Everyone = "all"
    Shapes <- MCShapes
    KEager = 1
    MaxMisses = 1
    MaxBlocks = 2
    MaxFaults = 1
INVARIANTS
    OnlyTheAddressee
    TreeReachesAll
    HonestNotCooled
PROPERTIES
    EveryoneCatchesUp
