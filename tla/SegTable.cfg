\* Two arrays that start full after one segment, so that both grow.
SPECIFICATION PeakSpec
CONSTANTS
    ICAP = 1
    NULL = NULL
    MaxIds = 3
    Program <- MCProgram
    Request = {0, 1, 2}
    Offset = {0, 1}
    Value = {5}
INVARIANTS
    TypeOK
    IdsExact
    LengthsTrue
    TableIsPeakDemand
PROPERTIES
    BuffersGrow
    ImplementsUMMemory
CHECK_DEADLOCK FALSE
