SPECIFICATION Spec
CONSTANTS
    Symbols <- MCSymbols
    Comparisons <- MCNone
    Levels <- MCLevels
    Sat <- MCSat
    Specs <- MCDefaultSpecs
    Charted = {}
    Stoppable = {}
    ScanTime = 1
    Excluded <- AllButDuty
INVARIANTS
    LeadPumpNeedsDemand
