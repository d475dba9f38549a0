SPECIFICATION Spec
CONSTANTS
    BufferSize = 2
    Lengths = {1, 3}
    CreateFails = FALSE
    MaxBytes = 3
PROPERTY
    StreamEnds
\* A read may hang, the stream may be destroyed, and the deque may break.
CHECK_DEADLOCK FALSE
