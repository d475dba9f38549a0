SPECIFICATION Spec
CONSTANTS
    PayloadMax = 2
    Payloads <- MCPayloads
    MaxMessages = 2
    ShortWrites = TRUE
INVARIANT
    DeliveredIsSent
\* A conversation ends.
CHECK_DEADLOCK FALSE
