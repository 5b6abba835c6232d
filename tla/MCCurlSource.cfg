\* One reader of a file that fills the buffer, with a seek near, in or far from it
\* and one behind the end, one failure and one change of the network.
CONSTANTS
    s1 = s1
    h1 = h1
    Sources = {s1}
    Handles = {h1}
    m_size = 5
    m_back_size = 1
    FileSize = 6
    READ_BUFFER_SIZE = 1
    m_bufferSize = 2
    SeekTargets = {2,6}
    ReadSizes = {1}
    MaxErrors = 1
    MaxReconnects = 1
    ErrorPages = FALSE
SPECIFICATION Spec
INVARIANTS
    TypeOK
    InPlace
    ZeroIsEos
    FreedIsForgotten
    ResumeNotLost
