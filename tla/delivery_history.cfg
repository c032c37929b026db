SPECIFICATION Spec
CONSTANTS
    a = a
    b = b
    s1 = s1
    s2 = s2
    c1 = c1
    None = None
    Principal <- MCPrincipal
    Session <- TwoSessions
    Channel <- OneChannel
    Seeded <- BothInC1
    Enabled = {"TASK", "CHATHISTORY", "QUIT"}
    ReplayLimit = 1
    HistoryCap = 1
    Requested = {2}
    MaxSeq = 2
SYMMETRY FullSymmetry
INVARIANTS
    TypeOK
    LiveComplete
    ReconnectComplete
    TablesAgree
PROPERTIES
    SkipsExplained
