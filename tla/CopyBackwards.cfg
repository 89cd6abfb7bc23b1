SPECIFICATION Spec
CONSTANTS
    MaxEntries = 2
    MaxBytes = 2
    Other = 65
INVARIANT
    CopiesAllRegularFiles
CHECK_DEADLOCK FALSE
