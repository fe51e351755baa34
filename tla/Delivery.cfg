SPECIFICATION Spec
CONSTANTS
    m1 = m1
    m2 = m2
    m3 = m3
    Msgs = {m1, m2}
    Silent = {}
    Carried = {"lan", "onion"}
    MaxDeferred = 1
    RetrySteps = 1
    Budget = 3
    TornSteps = FALSE
    Deletes = TRUE
INVARIANTS
    PromiseKept
    RowsOwned
CHECK_DEADLOCK FALSE
