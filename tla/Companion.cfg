SPECIFICATION CompanionSpec
CONSTANTS
    Sizes <- MCSizes
    MaxUploads = 2
    OutLimit = 3
    Wires = {"new", "middle", "old"}
    MaxTries = 6
    Accidents = 2
INVARIANTS
    WholeMessage
    SentOnce
PROPERTIES
    EverySendEnds
    RevokedLearns
CHECK_DEADLOCK FALSE
