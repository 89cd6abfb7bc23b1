SPECIFICATION FairSpec
CONSTANTS
    MAX = 2
    LIMIT = 6
    NOMEM = TRUE
    NULL = NULL
INVARIANTS
    AssertsHold
    NoFailure
    ListShape
    WaiterNotForgotten
PROPERTIES
    ImplementsFifo
    ValuesDelivered
CHECK_DEADLOCK FALSE
