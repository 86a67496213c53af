CONSTANTS
    a = a
    b = b
    None = None
    Uris = {a}
    Modes = {"attach", "launch"}
    Habits = {"silent"}
    MaxText = 2
    MaxCalls = 2
    MaxFaults = 2
    MaxExtra = 1
SPECIFICATION FairSpec
INVARIANTS
    TypeOK
    ReadyIsBacked
    InOrder
PROPERTIES
    ImplementsContract
    SavesKept
    EventuallyReported
    StopJoins
CHECK_DEADLOCK FALSE
