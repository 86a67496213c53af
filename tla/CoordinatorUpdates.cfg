CONSTANTS
    a = a
    b = b
    c = c
    p = p
    q = q
    None = None
    Uris = {a, b}
    Outside = {}
    Reads <- ReadsB
    Faulty = {1, 3}
    PullIds = {}
    Traffic = {"disk", "poll", "open", "close"}
    CanConnect = FALSE
    MaxText = 3
    MaxMessages = 2
    MaxStates = 0
SPECIFICATION FairSpec
INVARIANTS
    OpenBufferWins
PROPERTIES
    OnlyFullScanLoses
    OnlyFullScanHides
    Settles
