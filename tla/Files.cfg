SPECIFICATION Spec
CONSTANTS
    Transfers = {1, 2}
    Senders = {"s1", "s2"}
    Receivers = {"r1", "r2"}
    Content = {"f1", "f2"}
    Shapes <- MCShapes
    Chunks = 2
    Window = 2
    AckEvery = 1
    Limit = 1
    Patience = 2
    MaxMoves = 1
    Mishaps = 1
INVARIANTS
    MarkedIsThere
    WaitersHaveAWaker
    TendedOnce
PROPERTIES
    Arrives
CHECK_DEADLOCK FALSE
