SPECIFICATION Spec
CONSTANTS
    a = a
    b = b
    s1 = s1
    s2 = s2
    c1 = c1
    None = None
    Principal <- MCPrincipal
    Session <- TwoSessions
    Channel <- OneChannel
    Seeded <- BothInC1
    Enabled = {"PRIVMSG", "JOIN", "PART", "READ_ERROR", "CRASH"}
    ReplayLimit = 2
    HistoryCap = 2
    Requested = {1}
    MaxSeq = 2
SYMMETRY FullSymmetry
INVARIANTS
    ReplacedIsToldToStop
    LiveComplete
    ReconnectComplete
    TablesAgree
PROPERTIES
    WatermarkHonest
