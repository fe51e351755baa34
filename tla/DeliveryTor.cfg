SPECIFICATION FairSpec
CONSTANTS
    m1 = m1
    m2 = m2
    m3 = m3
    Msgs = {m1, m2}
    Silent = {m2}
    Carried = {"onion", "mail"}
    MaxDeferred = 1
    RetrySteps = 1
    Budget = 3
    TornSteps = FALSE
    Deletes = FALSE
PROPERTIES
    PendingResolves
CHECK_DEADLOCK FALSE
