SPECIFICATION ConversationSpec
CONSTANTS
    Msgs = {1, 2}
    Early = {2}
    Window = 1
    CrashInside = FALSE
    Mishaps = 1
INVARIANTS
    DeliveredIsKept
    ShownOnce
PROPERTIES
    KeepsPromise
CHECK_DEADLOCK FALSE
