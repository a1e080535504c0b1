\* Four registers; a heap of four blocks, three capacities.
SPECIFICATION OptSpec
CONSTANTS
    NREGS = 4
    LV_UNIT = 16
    OP_UNIT = 64
    BYTE = 8
    GB4 = 1024
    KERN_SIZE = 888
    MAX_ALLOC = 88
    REC_BUCKETS = 3
    INIT_STACK_SIZE = 1
    Spare = 0
    Program <- MCProgram
    Request <- MCWords
    Offset <- MCWords
    Value <- MCWords
    And <- MCAnd
    Junk = {77}
    Input = {0, 3, 1023}
    MaxOut = 2
INVARIANTS
    OptTypeOK
    NeverRefused
PROPERTIES
    ImplementsUMachine
CHECK_DEADLOCK FALSE
