SPECIFICATION Spec
CONSTANTS
    Alphabet <- MCAlphabet
    MaxText = 3
    MaxSize = 4
    MaxCalls = 2
INVARIANTS
    TypeOK
    ParsedAsMeant
    ReceivedAsStored
CHECK_DEADLOCK FALSE
