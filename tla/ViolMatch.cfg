SPECIFICATION Spec
CONSTANTS
    c1 = c1
    c2 = c2
    c3 = c3
    NULL = NULL
    Conns <- MCConns3
    Resources <- MCResources
    Ips <- MCIps
    IpOf <- MCIpOf
    CACHE_SIZE = 2
    Faults = {}
INVARIANT AnswerMatchesRequest
CHECK_DEADLOCK FALSE
