CONSTANTS
    a = a
    b = b
    c = c
    p = p
    q = q
    None = None
    Uris = {a, b}
    Outside = {}
    Reads <- ReadsSelf
    Faulty = {1}
    PullIds = {}
    Traffic = {"disk", "poll", "watch", "save"}
    CanConnect = FALSE
    MaxText = 2
    MaxMessages = 2
    MaxStates = 0
SPECIFICATION Spec
INVARIANTS
    NothingLost
CHECK_DEADLOCK FALSE
