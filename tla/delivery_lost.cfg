SPECIFICATION Spec
CONSTANTS
    a = a
    b = b
    s1 = s1
    s2 = s2
    c1 = c1
    None = None
    Principal <- MCPrincipal
    Session <- TwoSessions
    Channel <- OneChannel
    Seeded <- BothInC1
    Enabled = {"TASK", "QUIT"}
    ReplayLimit = 1
    HistoryCap = 2
    Requested = {0, 3}
    MaxSeq = 2
SYMMETRY FullSymmetry
INVARIANTS
    NoSilentLoss
