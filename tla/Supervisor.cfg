CONSTANTS
    p1 = p1
    p2 = p2
    p3 = p3
    c1 = c1
    c2 = c2
    None = None
    Pids = {p1, p2, p3}
    Clients = {c1, c2}
SPECIFICATION FairSpec
INVARIANTS
    TypeOK
    SignalsOnlySessions
    NoOrphans
    HeldByItsSession
PROPERTIES
    StopCompletes
CHECK_DEADLOCK FALSE
