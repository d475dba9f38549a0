SPECIFICATION Spec
CONSTANTS
    BufferSize = 2
    Lengths = {1, 3}
    CreateFails = TRUE
    MaxBytes = 5
INVARIANTS
    TypeOK
    EndIsReal
    NoMutualWait
PROPERTIES
    EndIsFinal
    ReadReturns
    FetcherResumes
\* A read may hang, the stream may be destroyed, and the deque may break.
CHECK_DEADLOCK FALSE
