\* The three chunks of tcpproxy.c, shortened to three bytes each; enough bytes to
\* fill the list, wedge it, and to recycle every chunk more than once.
CONSTANTS
    NChunks = 3
    ChunkSize = 3
    MaxBytes = 24
SPECIFICATION Spec
INVARIANTS
    TypeOK
    SendsNextBytes
    NullIffDrained
PROPERTIES
    WedgeIsPermanent
    ImplementsFifo
CHECK_DEADLOCK FALSE
