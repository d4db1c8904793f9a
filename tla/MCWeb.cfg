\* sv_httpd: three clients for two slots and three descriptors, so that partial writes,
\* disconnects at every point and every limit are met.  The benchmark: two clients and
\* their parent, alarms and deaths at every point.
CONSTANTS
    Client = {c1, c2, c3}
    NULL = NULL
    MAX_CONN = 2
    FdLimit = 3
    HeadLen = 1
    FileLen = 3
    BLOCK_SIZE = 2
    SndBuf = 1
    Child = {1, 2}
    MaxTries = 2
SPECIFICATION Spec
INVARIANTS
    ConnectionsConsistent
    ResponseInOrder
    CountersConsistent
PROPERTIES
    StuckForGood
    RequestIsHandled
    BenchmarkEnds
CHECK_DEADLOCK FALSE
