SPECIFICATION HandshakeFairSpec
CONSTANTS
    a = a
    b = b
    Nodes = {a, b}
    Scenarios <- AnyCast
    MaxKeys = 4
    Budget = 2
INVARIANTS
    OneSessionPerKey
    EachHearsTheOther
PROPERTIES
    HealsIfRemembered
CHECK_DEADLOCK FALSE
