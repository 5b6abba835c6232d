\* Liveness: one API thread, two messages queued.
CONSTANTS
    c1 = c1
    Callers = {c1}
    Positions = {1}
    None <- NoPosition
    Nobody = Nobody
    Durations <- VideoOnDemand
    SEEK_REPEAT_TIME = 1
    MaxMessages = 2
SPECIFICATION FairSpec
PROPERTIES
    StopFinishes
    SeekPastEndEnds
