\* Safety: two API threads.
CONSTANTS
    c1 = c1
    c2 = c2
    Callers = {c1, c2}
    Positions = {1}
    None <- NoPosition
    Nobody = Nobody
    Durations <- LiveOrOnDemand
    SEEK_REPEAT_TIME = 1
    MaxMessages = 1
SPECIFICATION Spec
SYMMETRY Permute
INVARIANTS
    StopOwnsPlayer
    SeekEndMatched
    SeekingHeld
    CompletedNotLoading
PROPERTY UsesWorkerThread
