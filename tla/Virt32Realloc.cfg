SPECIFICATION PeakSpec
CONSTANTS
    GB4 = 160
    KERN_SIZE = 56
    MAX_ALLOC = 56
    REC_BUCKETS = 2
    INIT_STACK_SIZE = 2
    Spare = 4
    Program <- MCProgram
    Request = {6, 12}
    Offset = {11}
    Value = {5}
PROPERTY
    ReallocZeroesKernel
CHECK_DEADLOCK FALSE
