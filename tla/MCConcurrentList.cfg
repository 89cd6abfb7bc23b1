SPECIFICATION FairSpec
CONSTANTS
    c1 = c1
    c2 = c2
    s1 = s1
    s2 = s2
    n1 = n1
    n2 = n2
    n3 = n3
    n4 = n4
    NULL = NULL
    Comparators <- MCComparators
    Swappers <- MCSwappers
    Nodes <- MCNodes
    Order <- MCOrder
INVARIANTS
    TypeOK
    LocksHeld
    WindowCurrent
    ListIntact
PROPERTIES
    ImplementsSwaps
    PassCompletes
