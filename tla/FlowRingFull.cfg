\* The system's file table fills up and stays full.
CONSTANTS
    Flow = {f1, f2}
    NULL = NULL
    RingSize = 2
    FdLimit = 3
    bytes_per_flow = 0
    SeqSpace = 8
    Guard = 2
    FirstSeq = 6
    MaxPos = 0
    MaxLen = 1
    Traffic <- Segment
SPECIFICATION FairSpec
PROPERTIES
    OpenEnds
CHECK_DEADLOCK FALSE
