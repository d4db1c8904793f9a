\* More flows than the ring has slots, sequence numbers that wrap inside the
\* streams, segments that reach and cross the -b limit; three frames of
\* every kind between ports that are counted by protocol.
CONSTANTS
    Flow = {f1, f2, f3}
    Busy = f1
    NULL = NULL
    RingSize = 2
    FdLimit = 3
    bytes_per_flow = 2
    SeqSpace = 8
    Guard = 2
    FirstSeq = 7
    MaxPos = 1
    MaxLen = 2
    Traffic <- MixedTraffic
    Host = {h}
    Port = {53, 80, 443}
    MaxPackets = 3
SYMMETRY FlowSymmetry
SPECIFICATION TcpflowSpec
INVARIANTS
    RingConsistent
    StoredInPlace
    ReportsAgree
PROPERTIES
    NothingTruncated
CHECK_DEADLOCK FALSE
