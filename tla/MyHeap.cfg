SPECIFICATION Spec
CONSTANTS
    PAGE_SIZE = 16
    WORD = 100
    Sizes = {1, 2, 3}
INVARIANT BlocksFit
CHECK_DEADLOCK FALSE
