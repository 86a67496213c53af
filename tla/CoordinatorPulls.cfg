CONSTANTS
    a = a
    b = b
    c = c
    p = p
    q = q
    None = None
    Uris = {a}
    Outside = {}
    Reads <- ReadsSelf
    Faulty = {1, 2}
    PullIds = {p}
    Traffic = {"open", "close", "pull", "cancel", "shutdown"}
    CanConnect = TRUE
    MaxText = 2
    MaxMessages = 1
    MaxStates = 2
SPECIFICATION FairSpec
INVARIANTS
    ReplyOnce
    ShutdownAnswersAll
PROPERTIES
    PullAnswered
CHECK_DEADLOCK FALSE
