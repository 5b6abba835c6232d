\* Three controllers of one worker: safety, refinement and liveness.
CONSTANTS
    c1 = c1
    c2 = c2
    c3 = c3
    Controllers = {c1, c2, c3}
    Worker = Worker
    Nobody = Nobody
    FuncResults <- MayStop
SPECIFICATION FairSpec
INVARIANTS
    PausedMeansParked
    ReturnsParked
PROPERTIES
    ImplementsWorkerThread
    PauseReturns
    StopReturns
    StartRuns
