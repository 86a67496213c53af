CONSTANTS
    a = a
    b = b
    c = c
    p = p
    q = q
    None = None
    Uris = {a}
    Outside = {}
    Reads <- ReadsSelf
    Faulty = {1, 2, 3}
    PullIds = {p}
    Traffic = {"open", "pull"}
    CanConnect = TRUE
    MaxText = 3
    MaxMessages = 3
    MaxStates = 2
SPECIFICATION Spec
INVARIANTS
    AttributedToItsText
CHECK_DEADLOCK FALSE
