CONSTANTS
    a = a
    b = b
    c = c
    p = p
    q = q
    None = None
    Uris = {a}
    Outside = {}
    Reads <- ReadsSelf
    Faulty = {1, 2, 3}
    PullIds = {p}
    Traffic = {"open", "reconnect", "pull", "save", "poll"}
    CanConnect = TRUE
    MaxText = 2
    MaxMessages = 2
    MaxStates = 1
SPECIFICATION Spec
INVARIANTS
    TypeOK
PROPERTIES
    OnlyFullScanLosesPresent
CHECK_DEADLOCK FALSE
