CONSTANTS
    x = x
    y = y
    A = A
    B = B
    stranger = stranger
    notBool = notBool
    Symbols <- MCSymbols
    Comparisons = {}
    Levels <- MCLevels
    Sat <- MCSat
    Inputs <- MCInputs
    Commands <- PartialCommands
    Programs <- Unguarded
    Rank <- MCRank
    Blocks = {}
    MinInterval = 0
    Reliable = TRUE
    MaxTime = 2
    MaxCalls = 2
SPECIFICATION Spec
INVARIANTS
    InterlocksHoldOnPlc
CHECK_DEADLOCK FALSE
