\* Four registers; a heap of eighteen blocks, of which programs use up fourteen at once.
SPECIFICATION JitSpec
CONSTANTS
    NREGS = 4
    LV_UNIT = 16
    OP_UNIT = 64
    BYTE = 8
    GB4 = 1024
    KERN_SIZE = 440
    MAX_ALLOC = 440
    REC_BUCKETS = 14
    INIT_STACK_SIZE = 1
    Spare = 0
    Program <- MCProgram
    Request <- MCWords
    Offset <- MCWords
    Value <- MCWords
    And <- MCAnd
    VIRT = 4096
    FUNCTION = 3000
    Caller <- MCCaller
    Junk = {77}
    Input = {0, 3, 1023}
    MaxOut = 2
    MaxRegions = 3
PROPERTY
    StoresLeaveLowBitsZero
CHECK_DEADLOCK FALSE
