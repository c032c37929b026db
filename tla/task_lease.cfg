SPECIFICATION Spec
CONSTANTS
    a = a
    b = b
    t1 = t1
    w1 = w1
    w2 = w2
    w3 = w3
    None = None
    Principal <- MCPrincipal
    Task <- OneTask
    Worker <- ThreeWorkers
    LeaseSeconds = 1
    Crashes = TRUE
    MaxClock = 2
    MaxChanges = 5
SYMMETRY Symmetry
INVARIANTS
    TypeOK
    LeaseHonoured
    ChangesTold
    DoneOnce
PROPERTIES
    LockRefined
