SPECIFICATION FairSpec
CONSTANTS
    m1 = m1
    m2 = m2
    o1 = o1
    None = None
    Message <- TwoMessages
    Outbound <- OneOutbound
    Keys = {"history"}
    MaxLosses = 1
    MaxLines = 2
    MaxLog = 2
INVARIANTS
    TypeOK
    MarkedReachesRouter
    OutboundAccounted
PROPERTIES
    Arrives
    Departs
CHECK_DEADLOCK FALSE
