\* Two connections in turn on the same descriptors: a batch of fired events
\* outlives the connections it names and accept() reuses their descriptors.
CONSTANTS
    NChunks = 1
    ChunkSize = 1
    SetSize = 3
    Fd = {0, 1, 2}
    Unset = Unset
    MaxConns = 2
    MaxBytes = 1
    SndBuf = 1
SPECIFICATION Spec
INVARIANTS
    OwnershipKept
CHECK_DEADLOCK FALSE
