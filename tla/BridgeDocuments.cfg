CONSTANTS
    a = a
    b = b
    None = None
    Uris = {a, b}
    Modes = {"launch"}
    Habits = {"again"}
    MaxText = 2
    MaxCalls = 3
    MaxFaults = 0
    MaxExtra = 1
SPECIFICATION Spec
PROPERTIES
    ImplementsContract
CHECK_DEADLOCK FALSE
