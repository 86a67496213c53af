CONSTANTS
    p1 = p1
    p2 = p2
    p3 = p3
    c1 = c1
    c2 = c2
    None = None
    Pids = {p1}
    Clients = {c1}
SPECIFICATION FairSpec
PROPERTIES
    StopStopsSessions
CHECK_DEADLOCK FALSE
