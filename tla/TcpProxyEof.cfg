\* What recv() = 0 tells ReadIncome.
CONSTANTS
    NChunks = 2
    ChunkSize = 1
    SetSize = 3
    Fd = {0, 1, 2}
    Unset = Unset
    MaxConns = 1
    MaxBytes = 3
    SndBuf = 1
SPECIFICATION Spec
INVARIANTS
    ZeroMeansClosed
CHECK_DEADLOCK FALSE
