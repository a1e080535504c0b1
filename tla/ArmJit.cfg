\* Four registers; a heap of eighteen blocks, of which programs use up fourteen at once; both hosts.
SPECIFICATION ArmSpec
CONSTANTS
    NREGS = 4
    LV_UNIT = 16
    OP_UNIT = 64
    BYTE = 8
    GB4 = 1024
    KERN_SIZE = 440
    MAX_ALLOC = 440
    REC_BUCKETS = 14
    INIT_STACK_SIZE = 1
    Spare = 0
    Program <- MCProgram
    Request <- MCWords
    Offset <- MCWords
    Value <- MCWords
    And <- MCAnd
    HALF = 8
    VIRT = 4096
    STACK = 8000
    loop = 3000
    large_op = 3100
    handle_map = 3200
    handle_x13 = 3300
    Caller <- MCCaller
    Junk = {77}
    Input = {0, 3, 1023}
    MaxOut = 2
    MaxRegions = 3
INVARIANTS
    ArmTypeOK
    Reserved
    Lands
    CalleeSaved
PROPERTIES
    ImplementsUMachine
    Finishes
    HaltReturns
CHECK_DEADLOCK FALSE
