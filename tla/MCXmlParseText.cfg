SPECIFICATION Spec
CONSTANTS
    Node = {1, 2, 3, 4, 5, 6}
    Nil = Nil
    Name = {"a", "b", "comment", "cdata", "declaration", "unknown", "text"}
    Tag = {"a", "b"}
    Attr = {"x"}
    Lexicons <- MCLexicons
    MaxDoc = 5
INVARIANTS
    ReadValueAdvances
CHECK_DEADLOCK FALSE
