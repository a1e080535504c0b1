\* Four registers; arrays that grow with the second segment.
SPECIFICATION EmulatorSpec
CONSTANTS
    NREGS = 4
    LV_UNIT = 16
    OP_UNIT = 64
    BYTE = 8
    ICAP = 1
    NULL = NULL
    MaxIds = 4
    Program <- MCProgram
    Request <- MCWords
    Offset <- MCWords
    Value <- MCWords
    And <- MCAnd
    Input = {0, 3, 1023}
    MaxOut = 2
INVARIANTS
    EmulatorTypeOK
    FetchesProgram
PROPERTIES
    ImplementsUMachine
CHECK_DEADLOCK FALSE
