SPECIFICATION Spec
CONSTANTS
    m1 = m1
    m2 = m2
    o1 = o1
    None = None
    Message <- OneMessage
    Outbound <- NoOutbound
    Keys = {"history"}
    MaxLosses = 1
    MaxLines = 3
    MaxLog = 2
INVARIANT
    CatchUpDelivered
CHECK_DEADLOCK FALSE
