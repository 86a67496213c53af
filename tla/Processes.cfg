CONSTANTS
    MaxStarts = 3
    Capacity = 2
    LogLimit = 3
    MaxOutput = 5
    c1 = c1
    c2 = c2
    k1 = k1
    k2 = k2
    None = None
    i1 = i1
    i2 = i2
    d1 = d1
    d2 = d2
    t1 = t1
    t2 = t2
    Clients <- TwoClients
    Active <- OneActive
    Sockets <- TwoSockets
    Dialogs <- TwoMessageDialogs
    Packets <- TwoPackets
    Limit = 3
    EndSize = 2
    Ids <- TwoIds
    Docs <- TwoDocs
    Texts <- TwoTexts
    Rejected <- OneRejected
    ParentOf <- FourDirectories
    Projects <- TwoProjects
    Options <- EachOption
    Current = 3
    CommandLines <- TwoCommandLines
    Traffics <- EachTraffic
    MaxMessages = 5
    Lines <- SettingLines
    MaxLines = 4
    Paths <- ScriptPaths
    Names <- WarningNames
    Sources <- LexicalSources
SPECIFICATION AllSpec
SYMMETRY SocketSymmetry
INVARIANTS
    StopLeavesNothing
    SessionsServed
    EngineUnderControl
    StreamFaithful
    RequestsAnswered
    StateFollowsClient
    PolicyAsWritten
    SpansRight
CHECK_DEADLOCK FALSE
