SPECIFICATION Spec
CONSTANTS
    Node = {n1, n2, n3, n4, n5}
    Nil = Nil
    Name = {"a"}
    Slot = {1, 2, 3}
    Sentinel = 0
    AttrName = {"", "x", "y"}
    AttrValue = {"", "v"}
    Char <- MCChars
    Piece <- MCPieces
    Caps = {0, 2, 40}
    MaxText = 4
    FileSize = 3
    Lengths = {0, 1, 2, 4}
    ChunkSize = 3
    Block = {1, 2, 3, 5}
    MaxBytes = 9
    MaxChunks = 5
    BlockSize = 16
    WordBytes = 1
    DigestSize = 5
    AppendSize = 64
    Pieces = {0, 1, 7, 16, 33}
    MaxMessage = 56
SYMMETRY Symmetry
INVARIANTS
    LinksConsistent
    NavigationExact
    AttributesListed
    StringExact
    TextSurvives
    FileExact
    ChunksExact
    DigestExact
    HelpersExact
PROPERTIES
    ImplementsForest
CHECK_DEADLOCK FALSE
