\* Structure: five heap blocks, three capacities, every size at a class
\* boundary, no stores.
SPECIFICATION PeakSpec
CONSTANTS
    GB4 = 256
    KERN_SIZE = 88
    MAX_ALLOC = 88
    REC_BUCKETS = 3
    INIT_STACK_SIZE = 1
    Spare = 4
    Program <- MCProgram
    Request = {0, 6, 7, 21}
    Offset = {}
    Value = {5}
INVARIANTS
    HeapShape
    NoOverlap
    RecyclerExact
    NothingLost
    StacksFit
    HeapIsPeakDemand
CHECK_DEADLOCK FALSE
