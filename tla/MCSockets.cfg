SPECIFICATION SocketsSpec
CONSTANTS
    PayloadMax = 2
    Payloads <- MCPayloads
    MaxMessages = 2
    ShortWrites = FALSE
    Conn = {c1, c2}
    MaxFd = 2
INVARIANTS
    TypeOK
    DeliveredIsSent
    AssemblyFits
    DescriptorsOwned
PROPERTIES
    Arrives
    HangUpReleases
\* A conversation ends, and a server may die.
CHECK_DEADLOCK FALSE
