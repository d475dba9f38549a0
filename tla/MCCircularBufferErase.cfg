SPECIFICATION Spec
CONSTANTS
    Capacity = 5
    Bytes = {0, 1}
    Writes <- MCWrites
    Careful = FALSE
PROPERTY
    EraseRemovesRange
\* An undefined step ends the model.
CHECK_DEADLOCK FALSE
