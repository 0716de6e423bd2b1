CONSTANTS
    x = x
    y = y
    q = q
    lo = lo
    F = F
    R = R
    Symbols <- MCSymbols
    Comparisons <- MCComparisons
    Levels <- MCLevels
    Sat <- MCSat
    Programs <- MCPrograms
SPECIFICATION Spec
INVARIANTS
    GuardedPairsExclude
    StateDrivenPairsExclude
PROPERTIES
    RefinesVerifier
