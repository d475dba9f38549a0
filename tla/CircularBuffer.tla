--------------------------- MODULE CircularBuffer ---------------------------
(***************************************************************************)
(* hbc::circular_buffer: m_size bytes of the array m_buffer, starting at   *)
(* index m_start and wrapping around its end.  Each action is one call.    *)
(*                                                                         *)
(* Cells outside the contents hold whatever was there: the array comes     *)
(* from malloc and nothing is ever cleared.  A memmove that leaves the     *)
(* array, or a size below 0 (on which every later call miscomputes a       *)
(* length), ends the model in status "undefined".                          *)
(***************************************************************************)
EXTENDS Integers, Sequences

CONSTANTS Capacity,  \* the constructor's argument
          Bytes,     \* the values of a byte
          Writes,    \* the byte sequences clients write
          Careful    \* clients avoid the calls erase gets wrong (see Mishandled)

ASSUME CapacityAssumption == Capacity \in Nat \ {0}
ASSUME WritesAssumption   == Writes \subseteq Seq(Bytes)
ASSUME CarefulAssumption  == Careful \in BOOLEAN

VARIABLES mem,     \* m_buffer
          start,   \* m_start
          size,    \* m_size
          status   \* "ok", or "undefined" when the behaviour is

vars == <<mem, start, size, status>>

Cells == 0 .. Capacity - 1

Lesser(a, b) == IF a < b THEN a ELSE b

TypeOK ==
    /\ mem \in [Cells -> Bytes]
    /\ start \in Cells
    /\ size \in 0 .. Capacity
    /\ status = "ok"

Init ==
    /\ mem \in [Cells -> Bytes]
    /\ start = 0
    /\ size = 0
    /\ status = "ok"

-----------------------------------------------------------------------------
(* Reading without removing.                                               *)

\* The bytes memcpy takes from n consecutive cells.
Cut(first, n) == [k \in 1 .. n |-> mem[first + k - 1]]

\* Mutant of First: m_start is forgotten.
FirstUnshifted(offset) == offset % Capacity

\* The cell of the byte at offset.
First(offset) == (start + offset) % Capacity

\* peek: up to the end of the array, then on from its front.  A caller may ask
\* for more than there is.
Peek(offset, len) ==
    IF size = 0 \/ len <= 0 \/ offset < 0 THEN << >>
    ELSE LET n     == Lesser(len, size - offset)
             once  == Lesser(Capacity - First(offset), n)
         IN  Cut(First(offset), once) \o Cut(0, n - once)

\* Mutant of Matches: the search always begins at the front.
MatchesFromFront(buf, offset) ==
    {i \in 0 .. size - Len(buf) - 1 : Peek(i, Len(buf)) = buf}

\* find: the first match at or after offset, but never one at the very end: the
\* loop stops before index size - Len(buf).
Matches(buf, offset) ==
    {i \in offset .. size - Len(buf) - 1 : Peek(i, Len(buf)) = buf}

Find(buf, offset) ==
    IF Len(buf) > size \/ Matches(buf, offset) = {} THEN -1
    ELSE CHOOSE i \in Matches(buf, offset) : \A j \in Matches(buf, offset) : i <= j

-----------------------------------------------------------------------------
(* Writing.                                                                *)

\* The copy goes round the array as often as it takes; what stays in cell i is
\* the byte of buf that the last round put there, if one did.
LastPass(buf, i) ==
    {k \in DOMAIN buf : /\ k > Len(buf) - Capacity
                        /\ (start + size + k - 1) % Capacity = i}

Write(buf) ==
    /\ mem' = [i \in Cells |-> IF LastPass(buf, i) = {} THEN mem[i]
                               ELSE buf[CHOOSE k \in LastPass(buf, i) : TRUE]]
    /\ LET overflow == size + Len(buf) - Capacity
       IN  IF overflow > 0
           THEN start' = (start + overflow) % Capacity /\ size' = Capacity
           ELSE start' = start /\ size' = size + Len(buf)
    /\ UNCHANGED status

-----------------------------------------------------------------------------
(* Erasing: one action per branch of erase, in the order the code tries    *)
(* them; each takes what the branches before it left.                      *)

\* memmove(&m_buffer[to], &m_buffer[from], n), and n further bytes for #7, #8.
Moved(m, to, from, n) ==
    [i \in Cells |-> IF to <= i /\ i < to + n THEN m[from + i - to] ELSE m[i]]

Inside(first, n) == n = 0 \/ (first >= 0 /\ first + n <= Capacity)

\* The new memory, where both ranges lie in the array.
Memmove(to, from, n) ==
    IF Inside(to, n) /\ Inside(from, n)
    THEN mem' = Moved(mem, to, from, n) /\ UNCHANGED status
    ELSE status' = "undefined" /\ UNCHANGED mem

EraseNothing(len) ==
    /\ size = 0 \/ len <= 0
    /\ UNCHANGED vars

\* #0: len is all there is.
EraseAll(len) ==
    /\ size # 0 /\ len = size
    /\ start' = 0
    /\ size' = 0
    /\ UNCHANGED <<mem, status>>

\* #1: the beginning goes.
EraseStart(offset, len) ==
    /\ size # 0 /\ len > 0 /\ len # size
    /\ offset = 0
    /\ start' = (start + len) % Capacity
    /\ size' = size - len
    /\ status' = IF len > size THEN "undefined" ELSE status
    /\ UNCHANGED mem

Inner(offset, len) == size # 0 /\ len > 0 /\ len # size /\ offset > 0

\* #2: the end goes.
EraseEnd(offset, len) ==
    /\ Inner(offset, len)
    /\ len = size - offset
    /\ size' = size - len
    /\ UNCHANGED <<mem, start, status>>

Middle(offset, len) == Inner(offset, len) /\ len # size - offset

\* The locals of the branches for the middle.  n is the clamped len; the erased
\* range is r1 cells up to the end of the array and r2 cells from its front.
\* NUnclamped is a mutant of N.
NUnclamped(offset, len) == len

N(offset, len)         == Lesser(len, size - offset)
Remaining(offset, len) == size - offset - N(offset, len)
R1(offset, len)        == Lesser(Capacity - First(offset), N(offset, len))
R2(offset, len)        == N(offset, len) - R1(offset, len)

Shrink(offset, len) == size' = size - N(offset, len)

\* #3: the contents do not wrap; the remaining bytes move left.
Wraps == start + size > Capacity

EraseFlat(offset, len) ==
    /\ Middle(offset, len)
    /\ ~Wraps
    /\ Memmove(start + offset, start + offset + N(offset, len), Remaining(offset, len))
    /\ Shrink(offset, len)
    /\ UNCHANGED start

\* #4: the erased range does not wrap; the beginning moves right, to end just
\* before the byte that follows the range.
EraseOnePass(offset, len) ==
    /\ Middle(offset, len)
    /\ Wraps /\ R1(offset, len) = N(offset, len)
    /\ Memmove(First(offset) + N(offset, len) - offset, start, offset)
    /\ start' = (start + N(offset, len)) % Capacity
    /\ Shrink(offset, len)

EraseAcross(offset, len) ==
    Middle(offset, len) /\ Wraps /\ R1(offset, len) # N(offset, len)

\* #5: the beginning fits at the front of the array.
EraseBeginningFits(offset, len) ==
    /\ EraseAcross(offset, len)
    /\ offset <= R2(offset, len)
    /\ Memmove(R2(offset, len) - offset, start, offset)
    /\ start' = R2(offset, len) - offset
    /\ Shrink(offset, len)

\* Mutant of EraseRemainingFits: the second part of the range moves as well.
EraseRemainingFromFront(offset, len) ==
    /\ EraseAcross(offset, len)
    /\ offset > R2(offset, len) /\ Remaining(offset, len) <= R1(offset, len)
    /\ Memmove(First(offset), 0, Remaining(offset, len))
    /\ Shrink(offset, len)
    /\ UNCHANGED start

\* #6: the remaining bytes fit at the end of the array.
EraseRemainingFits(offset, len) ==
    /\ EraseAcross(offset, len)
    /\ offset > R2(offset, len) /\ Remaining(offset, len) <= R1(offset, len)
    /\ Memmove(First(offset), R2(offset, len), Remaining(offset, len))
    /\ Shrink(offset, len)
    /\ UNCHANGED start

\* #7: the beginning, the shorter part, moves in two pieces.
EraseSplitBeginning(offset, len) ==
    LET r2       == R2(offset, len)
        leftover == offset - r2
        front    == Moved(mem, 0, start + leftover, r2)
    IN  /\ EraseAcross(offset, len)
        /\ offset > r2 /\ Remaining(offset, len) > R1(offset, len)
        /\ offset <= Remaining(offset, len)
        /\ mem' = Moved(front, Capacity - leftover, start, leftover)
        /\ start' = Capacity - leftover
        /\ Shrink(offset, len)
        /\ UNCHANGED status

\* #8: the remaining bytes, the shorter part, move in two pieces.
EraseSplitRemaining(offset, len) ==
    LET r1   == R1(offset, len)
        r2   == R2(offset, len)
        tail == Moved(mem, First(offset), r2, r1)
    IN  /\ EraseAcross(offset, len)
        /\ offset > r2 /\ Remaining(offset, len) > r1
        /\ offset > Remaining(offset, len)
        /\ mem' = Moved(tail, 0, r2 + r1, Remaining(offset, len) - r1)
        /\ Shrink(offset, len)
        /\ UNCHANGED <<start, status>>

Erase(offset, len) ==
    \/ EraseNothing(len)
    \/ EraseAll(len)
    \/ EraseStart(offset, len)
    \/ EraseEnd(offset, len)
    \/ EraseFlat(offset, len)
    \/ EraseOnePass(offset, len)
    \/ EraseBeginningFits(offset, len)
    \/ EraseRemainingFits(offset, len)
    \/ EraseSplitBeginning(offset, len)
    \/ EraseSplitRemaining(offset, len)

\* read: peek, then erase what peek returned.
Read(offset, len) == Erase(offset, Len(Peek(offset, len)))

-----------------------------------------------------------------------------
(* Clients.                                                                *)

\* The calls that erase gets wrong: more than there is from the front (size
\* drops below 0), as much as there is from further on (everything goes), and a
\* range in the wrapped part of the contents, or after the last byte of a full
\* buffer that wraps (#4 moves the wrong bytes, or bytes outside the array).
Mishandled(offset, len) ==
    \/ offset = 0 /\ len > size
    \/ offset > 0 /\ len = size
    \/ Middle(offset, len) /\ Wraps /\ First(offset) <= start

\* Clients name offsets up to m_size only.  Beyond it the code computes negative
\* lengths (peek) and may let m_size grow (erase); no call here does that.
Offsets == 0 .. Lesser(size, Capacity)
Lengths == 0 .. Capacity + 1

WriteCall(buf) ==
    /\ status = "ok"
    /\ Write(buf)

ReadCall ==
    /\ status = "ok"
    /\ \E o \in Offsets, n \in Lengths :
           /\ Careful => ~Mishandled(o, Len(Peek(o, n)))
           /\ Read(o, n)

EraseCall ==
    /\ status = "ok"
    /\ \E o \in Offsets, n \in Lengths :
           /\ Careful => ~Mishandled(o, n)
           /\ Erase(o, n)

Next ==
    \/ \E b \in Writes : WriteCall(b)
    \/ ReadCall
    \/ EraseCall

Spec == Init /\ [][Next]_vars

-----------------------------------------------------------------------------
(* Properties.                                                             *)

\* The bytes the buffer holds, oldest first.
Contents == [k \in 1 .. size |-> mem[(start + k - 1) % Capacity]]

\* peek returns the bytes from offset on, as many as asked for or as there are,
\* wherever the contents wrap.
PeekIsExact ==
    \A o \in Offsets, n \in Lengths :
        Peek(o, n) = SubSeq(Contents, o + 1, Lesser(o + n, size))

Occurs(buf, i) == SubSeq(Contents, i + 1, i + Len(buf)) = buf

\* find returns the first occurrence at or after offset; it returns -1 although
\* there is one only if that is at the very end of the contents.
FindIsFirst ==
    \A buf \in Writes, o \in Offsets :
        LET at == {i \in o .. size - Len(buf) - 1 : Occurs(buf, i)}
        IN  IF at = {} THEN Find(buf, o) = -1
            ELSE Find(buf, o) \in at /\ \A i \in at : Find(buf, o) <= i

\* erase(o, n) takes the n bytes at o, or what there is of them, and leaves all
\* others in order, whatever part of the array they are moved through.
EraseRemovesRange ==
    [][\A o \in Offsets, n \in Lengths :
          status = "ok" /\ Erase(o, n) =>
             Contents' = SubSeq(Contents, 1, o) \o SubSeq(Contents, o + n + 1, size)]_vars

\* Writes keep the newest bytes, reads and erasures keep the order of the rest.
Window == INSTANCE ByteWindow WITH contents <- Contents

ImplementsByteWindow == Window!Spec
=============================================================================
