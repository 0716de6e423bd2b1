CONSTANTS
    x = x
    y = y
    A = A
    B = B
    stranger = stranger
    notBool = notBool
    Symbols <- MCSymbols
    Comparisons = {}
    Levels <- MCLevels
    Sat <- MCSat
    Inputs <- MCInputs
    Commands <- MCCommands
    Programs <- MCPrograms
    Rank <- MCRank
    Blocks = {}
    MinInterval = 2
    Reliable = FALSE
    MaxTime = 2
    MaxCalls = 2
SPECIFICATION Spec
INVARIANTS
    TypeOK
    AuditIsComplete
    AllowMeansDelivered
    AllowedCallsAreSpaced
PROPERTY
    RefinesGatedPlc
CHECK_DEADLOCK FALSE
