----------------------------- MODULE ByteWindow -----------------------------
(***************************************************************************)
(* What a circular_buffer stands for: a sequence of at most Capacity       *)
(* bytes.  Writing appends and, when there is no room, lets the oldest     *)
(* bytes go; erasing closes the gap and keeps the order of the rest.       *)
(***************************************************************************)
EXTENDS Integers, Sequences

CONSTANTS Capacity,  \* how many bytes the window holds
          Writes     \* the byte sequences clients write

VARIABLE contents    \* the bytes, oldest first

Newest(s) == SubSeq(s, Len(s) - Capacity + 1, Len(s))

Init == contents = << >>

Write(b) ==
    LET all == contents \o b
    IN  contents' = IF Len(all) > Capacity THEN Newest(all) ELSE all

Remove(o, n) ==
    contents' = SubSeq(contents, 1, o) \o SubSeq(contents, o + n + 1, Len(contents))

Next ==
    \/ \E b \in Writes : Write(b)
    \/ \E o \in 0 .. Len(contents) : \E n \in 0 .. Len(contents) - o : Remove(o, n)

Spec == Init /\ [][Next]_contents
=============================================================================
