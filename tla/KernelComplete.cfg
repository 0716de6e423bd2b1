CONSTANTS
    x = x
    y = y
    A = A
    B = B
    stranger = stranger
    notBool = notBool
    Symbols <- MCSymbols
    Comparisons = {}
    Levels <- MCLevels
    Sat <- MCSat
    Inputs <- MCInputs
    Commands <- Complete
    Programs <- CombinationalPrograms
    Rank <- MCRank
    Blocks <- CompleteBlocks
    MinInterval = 0
    Reliable = FALSE
    MaxTime = 2
    MaxCalls = 2
SPECIFICATION Spec
INVARIANTS
    CompleteCommandsKeepInterlocks
CHECK_DEADLOCK FALSE
