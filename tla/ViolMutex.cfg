SPECIFICATION FairSpec
CONSTANTS
    c1 = c1
    c2 = c2
    c3 = c3
    NULL = NULL
    Conns <- MCConns3
    Resources <- MCResources2
    Ips <- MCIps
    IpOf <- MCIpOf2
    CACHE_SIZE = 1
    Faults = {"mapset"}
PROPERTY EveryConnectionClosed
CHECK_DEADLOCK FALSE
