SPECIFICATION Spec
CONSTANTS
    c1 = c1
    c2 = c2
    c3 = c3
    NULL = NULL
    Conns <- MCConns3
    Resources <- MCResources
    Ips <- MCIps
    IpOf <- MCIpOf
    CACHE_SIZE = 2
    Faults = {"start", "accept", "signal", "thread", "client", "host", "cut", "realloc", "mapset", "kill"}
SYMMETRY Symmetry3
INVARIANTS
    TypeOK
    MutexDiscipline
    NoDanglingPage
    QueuedPagesLive
    CacheAccounting
    ResourcesReleased
    StopAcceptsAtMostOne
    AnswerFromRequestedHost
PROPERTIES
    ImplementsProxyCache
    CacheChangedByOwner
CHECK_DEADLOCK FALSE
