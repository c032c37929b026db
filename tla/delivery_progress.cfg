SPECIFICATION FairSpec
CONSTANTS
    a = a
    b = b
    s1 = s1
    s2 = s2
    c1 = c1
    None = None
    Principal <- MCPrincipal
    Session <- TwoSessions
    Channel <- OneChannel
    Seeded <- BothInC1
    Enabled = {"TASK", "WRITE_ERROR"}
    ReplayLimit = 1
    HistoryCap = 2
    Requested = {0, 3}
    MaxSeq = 2
PROPERTIES
    WatermarkHonest
    KickedStops
    Delivered
CHECK_DEADLOCK FALSE
