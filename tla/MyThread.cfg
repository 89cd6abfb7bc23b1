SPECIFICATION Spec
CONSTANTS
    RESULT = RESULT
    NULL = NULL
PROPERTY JoinGetsResult
CHECK_DEADLOCK FALSE
