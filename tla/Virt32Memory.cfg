\* Contents: three heap blocks, stores at the first and last word of each size.
SPECIFICATION PeakSpec
CONSTANTS
    GB4 = 160
    KERN_SIZE = 56
    MAX_ALLOC = 56
    REC_BUCKETS = 2
    INIT_STACK_SIZE = 2
    Spare = 4
    Program <- MCProgram
    Request = {0, 6, 12}
    Offset = {0, 5, 11}
    Value = {5}
INVARIANTS
    TypeOK
PROPERTIES
    CapacityIsForEver
    ImplementsUMMemory
CHECK_DEADLOCK FALSE
