\* Connections, descriptors and datagrams at their limits, two clients for each of the
\* edge-triggered servers and more connections than the redis server can take.
CONSTANTS
    EchoClients = {c1, c2}
    EchoBuf = 1
    EchoFds = 1
    MaxText = 2
    MaxDatagrams = 2
    EpollClients = {c1, c2}
    BUF_SIZE = 2
    EpollFds = 1
    MaxInput = 4
    maxclients = 7
    FdLimits = {6, 7, 8}
    MAX_ACCEPTS_PER_CALL = 2
    CronPeriod = 2
    MsPerSecond = 3
    MaxConnections = 4
    MaxLate = 2
    CliArgs <- MCCliArgs
    CliReplies <- MCCliReplies
    TypedNames <- MCTypedNames
    Stored <- MCStored
    FileBlocks = 3
    ChannelSize = 2
SPECIFICATION Spec
INVARIANTS
    EchoAccounts
    EdgesSuffice
    ClientsConsistent
    AnswerShown
PROPERTIES
    ServersServe
CHECK_DEADLOCK FALSE
