\* OnlyHoldBlocks says where the two threads block each other
CHECK_DEADLOCK FALSE
SPECIFICATION FairSpec
CONSTANTS
    maxInQueueSize = 2
    maxOutQueueSize = 2
    MAX_INPUT_SIZE = 2
    CodecSize = 1
    MaxPackets = 3
    MaxEpochs = 2
INVARIANTS
    NoStaleFrame
    FlushAlone
    Conservation
    EosDrained
    DecodesFromKey
    OnlyHoldBlocks
PROPERTY
    EosArrives
