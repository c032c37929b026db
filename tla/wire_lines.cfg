SPECIFICATION Spec
CONSTANTS
    Alphabet <- MCAlphabet
    MaxText = 3
    MaxSize = 4
    MaxCalls = 1
INVARIANTS
    SentIsStored
CHECK_DEADLOCK FALSE
