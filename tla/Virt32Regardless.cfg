SPECIFICATION PeakSpec
CONSTANTS
    GB4 = 160
    KERN_SIZE = 56
    MAX_ALLOC = 56
    REC_BUCKETS = 2
    INIT_STACK_SIZE = 2
    Spare = 4
    Program <- MCProgram
    Request = {6, 13}
    Offset = {0}
    Value = {5}
INVARIANT
    LoadsRegardlessOfSize
CHECK_DEADLOCK FALSE
