CONSTANTS
    a = a
    b = b
    c = c
    p = p
    q = q
    None = None
    Uris = {a, b, c}
    Outside = {c}
    Reads <- ReadsB
    Faulty = {1, 3}
    PullIds = {}
    Traffic = {"disk", "watch", "poll", "open"}
    CanConnect = FALSE
    MaxText = 3
    MaxMessages = 1
    MaxStates = 0
SPECIFICATION Spec
PROPERTIES
    OnlyFullScanLoses
