SPECIFICATION MCSpec
CONSTANTS
    Symbols <- MCSymbols
    Comparisons <- MCNone
    Levels <- MCLevels
    Sat <- MCSat
    Specs <- MCSpecs
    Charted <- MCCharted
    Stoppable <- MCStoppable
    ScanTime = 1
    Excluded = {}
    Allocated = FALSE
    Presets = {0, 1, 2, 3, 5}
    Steps = {1, 2}
    Horizon = 8
INVARIANTS
    InterlocksHold
    StepsEndOnTime
    StopCutsOutputs
    SameOutputs
    BlockBitsFollowInputs
PROPERTIES
    RefinesChart
