\* One API thread that scrubs and pauses: the iterator kept across the first erase.
CONSTANTS
    c1 = c1
    Callers = {c1}
    Url = {}
    NoUrl = NoUrl
    NoMsg = NoMsg
    PlayMsgType = {"MSG_PAUSE", "MSG_SEEKTO", "MSG_SELECT_EXT_SUBTITLE"}
    SEEK_REPEAT_TIME = 1
    MaxTicket = 6
    MaxTime = 1
SPECIFICATION Spec
CHECK_DEADLOCK FALSE
PROPERTY SeekDeletesOldestSeek
