\* Two proxied connections, three members of the chat room, three threads with four
\* descriptors, and a tunnel whose buffers hold less than either end sends.
CONSTANTS
    ProxyPairs = 2
    ProxyBytes = 2
    ProxyEnds = 1
    ProxyBuf = 1
    ProxyFds = {3, 4}
    ChatClients = {1, 2, 3}
    ChatLines = 2
    ChatLeavers = 1
    ChatFds = {2, 3}
    Conns <- SomeUrls
    ReqParts = 2
    AnswerParts = 1
    ThreadFds = 4
    Byte = {0, 1, 2, 3, 4, 5, 6, 7, 8, 9}
    Table <- RotatingTable
    Talks <- SomeTalks
    TunnelBuf = 1
SPECIFICATION Spec
INVARIANTS
    RelaysSound
    SameOrder
    TunnelFaithful
PROPERTIES
    StaleRouteIsFatal
    GridlockIsForever
    RelaysServe
CHECK_DEADLOCK FALSE
