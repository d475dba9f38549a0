SPECIFICATION Spec
CONSTANTS
    Capacity = 7
    Bytes = {0, 1}
    Writes <- MCWrites
    Careful = TRUE
INVARIANTS
    TypeOK
    PeekIsExact
    FindIsFirst
PROPERTIES
    ImplementsByteWindow
