SPECIFICATION FairSpec
CONSTANTS
    m1 = m1
    m2 = m2
    p1 = p1
    p2 = p2
    None = None
    Message <- TwoMessages
    Claude <- TwoClaudes
    MaxPending = 1
    MaxFaults = 2
INVARIANTS
    TypeOK
    Accounted
    OneCopy
    Wakeful
PROPERTIES
    Reached
    Redelivered
    MailboxRefined
CHECK_DEADLOCK FALSE
