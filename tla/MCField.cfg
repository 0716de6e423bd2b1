SPECIFICATION FieldSpec
CONSTANTS
    Tagged = TRUE
    IdMod = 4
    HeaderLen = 2
    BodyLen = 1
    MaxOps = 4
    MaxUnread = 6
    Setups <- MCSetups
    NIn = 2
    NOut = 2
    MaxField = 1
    MaxGen = 2
    Families = {"modbus", "fenet", "melsec"}
    InSymbols = 3
    OutSymbols = 2
    OutputBase = 3
    MaxBlocks = 2
    MaxBits = 2
    MaxWriteBits = 3
    ByteBits = 2
    Commands <- MCCommands
    MaxLate = 1
INVARIANTS
    FieldTypeOK
    AnswersOwnRequest
    CleanConnectionsAreInStep
    InputsStayWritten
    ReadsAreTrue
    ImagesAreOneMoment
    CleanCycleReachesField
PROPERTIES
    TransactionsEnd
    HooksComeBack
CHECK_DEADLOCK FALSE
