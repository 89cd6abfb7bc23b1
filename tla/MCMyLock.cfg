SPECIFICATION FairSpec
CONSTANTS
    t1 = t1
    t2 = t2
    t3 = t3
    Threads <- MCThreads
    N = 3
    Faults = {"create", "intr"}
INVARIANTS
    MutualExclusion
    NoLostWakeup
    PrintsTotal
PROPERTIES
    ImplementsCounter
    Terminates
CHECK_DEADLOCK FALSE
