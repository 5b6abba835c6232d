\* Two API threads, one type of each class plus the seek.
CONSTANTS
    c1 = c1
    c2 = c2
    u1 = u1
    u2 = u2
    Callers = {c1, c2}
    Url = {u1, u2}
    NoUrl = NoUrl
    NoMsg = NoMsg
    PlayMsgType = {"MSG_SETDATASOURCE", "MSG_PAUSE", "MSG_SEEKTO", "MSG_ADD_EXT_SUBTITLE"}
    SEEK_REPEAT_TIME = 1
    MaxTicket = 4
    MaxTime = 1
SPECIFICATION Spec
SYMMETRY Permute
CHECK_DEADLOCK FALSE
INVARIANTS
    UrlOwnership
    OneOfReplaceAll
    AtMostTwoSeeks
    HandledInOrder
    NewestSeekSurvives
