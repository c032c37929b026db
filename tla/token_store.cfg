SPECIFICATION FairSpec
CONSTANTS
    None = None
    Refused = Refused
    Principal <- MCPrincipal
    Builtin <- MCBuiltin
    Part <- MCPart
    Legacy <- MCLegacy
    DefaultToken <- MCDefaultToken
    Plaintext <- MCPlaintext
    TokenId <- MCTokenId
    Secret <- MCSecret
    MaxCrashes = 2
    MaxChanges = 2
INVARIANTS
    TypeOK
    RetiredStaysOut
    AnswerRightful
PROPERTIES
    OpenComplete
    MirrorFaithful
    StartCompletes
CHECK_DEADLOCK FALSE
