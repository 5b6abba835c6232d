\* A backward limit that is taken back to 0 while packets are kept.
CONSTANTS
    Media <- SmallMedia
    BackwardDurations = {0, 1}
    Positions = {2}
    FrameDuration = 1
    SwitchAhead = 1
    MaxASeekDelta = 1
    NearEnd = 3
    OpenExtra = 4
SPECIFICATION Spec
PROPERTY
    KeptOnlyWithinLimit
