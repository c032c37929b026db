SPECIFICATION Spec
CONSTANTS
    m1 = m1
    m2 = m2
    o1 = o1
    None = None
    Message <- NoMessage
    Outbound <- NoOutbound
    Keys = {"history", "list", "claim", "done"}
    MaxLosses = 0
    MaxLines = 2
    MaxLog = 3
INVARIANTS
    SuccessWasGranted
CHECK_DEADLOCK FALSE
