CONSTANTS
    x = x
    y = y
    lo = lo
    A = A
    B = B
    M = M
    Symbols <- MCSymbols
    Comparisons <- MCComparisons
    Levels <- MCLevels
    Sat <- MCSat
    Programs <- Plainly
    K = 3
SPECIFICATION VerifierSpec
INVARIANT
    KindIsSound
