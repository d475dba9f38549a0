SPECIFICATION ParsersSpec
CONSTANTS
    Node = {1, 2, 3, 4, 5, 6}
    Nil = Nil
    Name = {"a", "b", "comment", "cdata", "declaration", "unknown", "text"}
    Tag = {"a", "b"}
    Attr = {"x"}
    Lexicons <- MCLexicons
    MaxDoc = 8
    Docs <- MCDocs
INVARIANTS
    ErrorsReported
    NoNodeLost
    OneNodePerToken
    RoundTrip
    EventsExact
    KeysExact
    ReadsNoFurther
CHECK_DEADLOCK FALSE
