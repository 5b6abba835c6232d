\* The packet queues with a backward limit that is set and changed, not
\* taken back to 0.
CONSTANTS
    Media <- SmallMedia
    BackwardDurations = {1}
    Positions = {2}
    FrameDuration = 1
    SwitchAhead = 1
    MaxASeekDelta = 1
    NearEnd = 3
    OpenExtra = 4
SPECIFICATION Spec
INVARIANTS
    TypeOK
    DurationsMatch
    CacheIsContiguous
    ExtraDataKept
PROPERTIES
    SeekLandsOnKey
    SeekBackIsAligned
