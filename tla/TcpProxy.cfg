\* One connection with enough bytes to fill, recycle and wedge a buffer, under the
\* fairness of the loop and of a peer that reads.
CONSTANTS
    NChunks = 2
    ChunkSize = 1
    SetSize = 3
    Fd = {0, 1, 2}
    Unset = Unset
    MaxConns = 1
    MaxBytes = 2
    SndBuf = 1
SPECIFICATION FairSpec
INVARIANTS
    RelayConsistent
PROPERTIES
    FlushedBeforeClose
    HalfCloseIsFinal
    RelayProgress
CHECK_DEADLOCK FALSE
