CONSTANTS
    Tagged = FALSE
    IdMod = 4
    HeaderLen = 2
    BodyLen = 1
    MaxOps = 4
    MaxUnread = 6
SPECIFICATION Spec
INVARIANT
    AnswersOwnRequest
CHECK_DEADLOCK FALSE
