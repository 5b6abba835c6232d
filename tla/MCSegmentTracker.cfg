\* A server that answers with delta updates; it stops when nothing is left to read.
CHECK_DEADLOCK FALSE
SPECIFICATION FairSpec
CONSTANTS
    MaxSeq = 3
    CanSkip = TRUE
    MaxOpens = 1
INVARIANTS
    TypeOK
    NothingMissed
    EosIsTheEnd
PROPERTY
    LiveGoesOn
