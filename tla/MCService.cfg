SPECIFICATION ServiceSpec
CONSTANTS
    Symbols <- MCSymbols
    Comparisons <- MCNone
    Levels <- MCLevels
    Sat <- MCSat
    Specs <- MCDefaultSpecs
    Excluded <- MCOthers
    StepTimes = {1, 2}
    MaxScans = 2
    MaxTrace = 2
    MaxHistory = 3
    NoSession = NoSession
    None = None
    Limit = 2
    Attempts = 3
    Calls <- MCCalls
    Setups <- MCSetups
    FilesOf <- MCFilesOf
    Torn = Torn
    Events = 3
    Wakes = 2
    Coils = {c, d}
    MCRead = {{x}, {c}}
    CoilPoints = {Tag}
    CoilInputs = {x}
    CoilPrograms <- MCLines
    Hints <- MCHints
    Profile <- MCLetters
    MaxIndex = 4
INVARIANTS
    TraceShowsSimulatedScans
    PassedMeansThisProgram
    RevisionsAreBounded
    MergeKeepsTheProgram
    ProjectsAreWhole
    SentInOrder
PROPERTIES
    ErrorsChangeNothing
    UnforcedCallsKeepProjects
    EverythingEnds
CHECK_DEADLOCK FALSE
