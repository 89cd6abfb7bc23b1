SPECIFICATION Spec
CONSTANTS
    Running = {"pqueue"}
    Priorities = {1, 2, 3, 4}
    CAPACITY = 6
    k1 = k1
    k2 = k2
    k3 = k3
    k4 = k4
    k5 = k5
    p1 = p1
    p2 = p2
    p3 = p3
    p4 = p4
    NULL = NULL
    Keys <- MCKeys
    Values <- MCValues
    ClientValues <- MCClientValues
    Hash <- MCHash
    Hosts <- MCHosts
    CACHE_SIZE = 3
    VERSION <- MCVersion
    MAX_HEADERS = 2
    Beginnings <- MCBeginnings
    MORE = 6
    N = 3
    ROUNDS = 3
    c1 = c1
    c2 = c2
    c3 = c3
    Clients <- MCClients
    Numbers = {1, 2}
    GREETING = GREETING
    NONE = NONE
INVARIANT
    ReturnsBiggest
