SPECIFICATION MCSpec
CONSTANTS
    Conn = {c1, c2}
    Session = {s1}
    None = None
    RequestId = {q1}
    MaxCommands = 2
    MaxPageRequests = 2
    MaxBuffered = 2
    MaxFrame = 3
    MaxHistory = 4
    MaxOutbound = 7
    MaxReserved = 3
    MaxConnReserved = 2
    MaxInFlight = 2
    MaxPages = 1
    PageBytes = 2
    Weights = {1, 2}
    MaxAsked = 3
    F1 = F1
    F2 = F2
    D1 = D1
    D2 = D2
    Inode = {i1, i2, i3}
    MaxMoves = 2
    Dialog = {d1}
    Key = {k1, k2}
    PendingLimit = 2
    MaxItems = 2
    MaxRequests = 3
    MaxDown = 2
    MaxResyncs = 1
    MaxWrites = 3
    MaxFaults = 2
INVARIANTS BridgeExact CatalogTruthful NothingLost DialogsAgree
CHECK_DEADLOCK FALSE
