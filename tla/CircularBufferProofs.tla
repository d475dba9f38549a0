------------------------ MODULE CircularBufferProofs ------------------------
(* What holds of circular_buffer for every capacity, of clients that avoid *)
(* the calls erase mishandles.                                             *)
EXTENDS CircularBuffer, SequenceTheorems, WellFoundedInduction, TLAPS

\* Going round the array at most once.
LEMMA ModOnce ==
    ASSUME NEW c \in Nat \ {0}, NEW a \in 0 .. 2 * c - 1
    PROVE  a % c = IF a < c THEN a ELSE a - c
<1>1. CASE a < c
  BY <1>1
<1>2. CASE a >= c
  BY <1>2
<1> QED  BY <1>1, <1>2

LEMMA ModRange ==
    ASSUME NEW c \in Nat \ {0}, NEW a \in Int
    PROVE  a % c \in 0 .. c - 1
  OBVIOUS

LEMMA DivMod ==
    ASSUME NEW c \in Nat \ {0}, NEW a \in Int
    PROVE  a \div c \in Int /\ a = c * (a \div c) + (a % c)
  OBVIOUS

LEMMA Grows ==
    ASSUME NEW c \in Nat \ {0}, NEW d \in Nat \ {0}
    PROVE  c * d >= c
  OBVIOUS

\* The quotient and the remainder are the only ones.
LEMMA ModIs ==
    ASSUME NEW c \in Nat \ {0}, NEW q \in Int, NEW r \in 0 .. c - 1
    PROVE  (c * q + r) % c = r
<1> DEFINE a == c * q + r
           p == a \div c
           s == a % c
<1>1. c * q \in Int
  OBVIOUS
<1>2. p \in Int /\ s \in 0 .. c - 1 /\ a = c * p + s
  BY <1>1, DivMod, ModRange
<1>3. c * (p - q) = r - s
  BY <1>1, <1>2
<1>4. ~(p - q > 0)
  <2> SUFFICES ASSUME p - q > 0  PROVE FALSE
    OBVIOUS
  <2>1. c * (p - q) >= c
    BY <1>2, Grows
  <2> QED  BY <1>2, <1>3, <2>1
<1>5. ~(q - p > 0)
  <2> SUFFICES ASSUME q - p > 0  PROVE FALSE
    OBVIOUS
  <2>1. c * (q - p) >= c
    BY <1>2, Grows
  <2>2. c * (q - p) = s - r
    BY <1>1, <1>2
  <2> QED  BY <1>2, <2>1, <2>2
<1>6. p = q
  BY <1>2, <1>4, <1>5
<1> QED  BY <1>1, <1>2, <1>6

LEMMA ModShift ==
    ASSUME NEW c \in Nat \ {0}, NEW a \in Int, NEW k \in Int
    PROVE  ((a % c) + k) % c = (a + k) % c
<1> DEFINE q == a \div c
           b == (a % c) + k
           p == b \div c
           r == b % c
<1>1. q \in Int /\ a % c \in 0 .. c - 1 /\ a = c * q + (a % c)
  BY DivMod, ModRange
<1>2. b \in Int
  BY <1>1
<1>3. p \in Int /\ r \in 0 .. c - 1 /\ b = c * p + r
  <2> HIDE DEF b
  <2> QED  BY <1>2, DivMod, ModRange
<1>4. a + k = c * (q + p) + r
  BY <1>1, <1>3
<1>5. (c * (q + p) + r) % c = r
  <2>1. q + p \in Int
    BY <1>1, <1>3
  <2> HIDE DEF p, q, r
  <2> QED  BY <1>3, <2>1, ModIs
<1> QED  BY <1>4, <1>5

\* Numbers less than c apart fall on different places.
LEMMA ModApart ==
    ASSUME NEW c \in Nat \ {0}, NEW a \in Int, NEW d \in 1 .. c - 1
    PROVE  (a + d) % c # a % c
<1> DEFINE q == a \div c
           r == a % c
<1>1. q \in Int /\ r \in 0 .. c - 1 /\ a = c * q + r
  BY DivMod, ModRange
<1> HIDE DEF q
<1>2. CASE r + d < c
  <2>1. a + d = c * q + (r + d) /\ r + d \in 0 .. c - 1
    BY <1>1, <1>2
  <2>2. (c * q + (r + d)) % c = r + d
    <3> HIDE DEF r
    <3> QED  BY <1>1, <2>1, ModIs
  <2> QED  BY <1>1, <2>1, <2>2
<1>3. CASE r + d >= c
  <2>1. a + d = c * (q + 1) + (r + d - c) /\ r + d - c \in 0 .. c - 1
    BY <1>1, <1>3
  <2>2. (c * (q + 1) + (r + d - c)) % c = r + d - c
    <3>1. q + 1 \in Int
      BY <1>1
    <3> HIDE DEF r
    <3> QED  BY <2>1, <3>1, ModIs
  <2> QED  BY <1>1, <2>1, <2>2
<1> QED  BY <1>1, <1>2, <1>3

-----------------------------------------------------------------------------
(* Types.                                                                  *)

LEMMA InitType == Init => TypeOK
  BY CapacityAssumption DEF Init, TypeOK, Cells

LEMMA WriteType ==
    ASSUME TypeOK, NEW buf \in Writes, Write(buf)
    PROVE  TypeOK'
<1>0. Capacity \in Nat \ {0} /\ size \in Int /\ start \in Int
  BY CapacityAssumption DEF TypeOK, Cells
<1>1. buf \in Seq(Bytes) /\ Len(buf) \in Nat /\ \A k \in DOMAIN buf : buf[k] \in Bytes
  BY WritesAssumption, LenProperties, ElementOfSeq
<1>2. mem' \in [Cells -> Bytes]
  <2>1. ASSUME NEW i \in Cells, LastPass(buf, i) # {}
        PROVE  buf[CHOOSE k \in LastPass(buf, i) : TRUE] \in Bytes
    BY <1>1, <2>1 DEF LastPass
  <2> QED  BY <2>1 DEF Write, TypeOK
<1>3. start' \in Cells /\ size' \in 0 .. Capacity
  <2> DEFINE overflow == size + Len(buf) - Capacity
  <2>1. CASE overflow > 0
    <3>1. start' = (start + overflow) % Capacity /\ size' = Capacity
      BY <2>1 DEF Write
    <3>2. (start + overflow) % Capacity \in 0 .. Capacity - 1
      BY <1>0, <1>1, ModRange
    <3> QED  BY <1>0, <3>1, <3>2 DEF Cells
  <2>2. CASE ~(overflow > 0)
    <3>1. start' = start /\ size' = size + Len(buf)
      BY <2>2 DEF Write
    <3> QED  BY <1>0, <1>1, <2>2, <3>1 DEF TypeOK
  <2> QED  BY <2>1, <2>2
<1> QED  BY <1>2, <1>3 DEF Write, TypeOK

-----------------------------------------------------------------------------
(* Erasing.                                                                *)

\* A memmove that stays inside the array leaves bytes in every cell.
LEMMA MovedType ==
    ASSUME NEW m \in [Cells -> Bytes], NEW to \in Int, NEW from \in Int, NEW n \in Int,
           n > 0 => from >= 0 /\ from + n <= Capacity
    PROVE  Moved(m, to, from, n) \in [Cells -> Bytes]
<1>1. ASSUME NEW i \in Cells, to <= i, i < to + n
      PROVE  m[from + i - to] \in Bytes
  <2>1. from + i - to \in Cells
    BY <1>1, CapacityAssumption DEF Cells
  <2> QED  BY <2>1
<1> QED  BY <1>1 DEF Moved

LEMMA MemmoveType ==
    ASSUME TypeOK, NEW to \in Int, NEW from \in Int, NEW n \in Nat,
           Inside(to, n), Inside(from, n), Memmove(to, from, n)
    PROVE  mem' \in [Cells -> Bytes] /\ status' = "ok"
<1>1. mem' = Moved(mem, to, from, n) /\ status' = status
  BY DEF Memmove
<1>2. n > 0 => from >= 0 /\ from + n <= Capacity
  BY DEF Inside
<1> QED  BY <1>1, <1>2, MovedType DEF TypeOK

\* The locals of erase's later branches, where the range starts before the end
\* of the contents.
LEMMA MiddleFacts ==
    ASSUME TypeOK, NEW offset \in 0 .. size, NEW len \in Nat, Middle(offset, len)
    PROVE  /\ Capacity \in Nat \ {0} /\ start \in 0 .. Capacity - 1 /\ size \in 1 .. Capacity
           /\ offset \in 1 .. size
           /\ N(offset, len) \in 0 .. size - offset
           /\ N(offset, len) + Remaining(offset, len) = size - offset
           /\ First(offset) = IF start + offset < Capacity THEN start + offset
                              ELSE start + offset - Capacity
           /\ First(offset) \in 0 .. Capacity - 1
           /\ R1(offset, len) = IF Capacity - First(offset) < N(offset, len)
                                THEN Capacity - First(offset) ELSE N(offset, len)
           /\ R1(offset, len) + R2(offset, len) = N(offset, len)
           /\ R1(offset, len) \in Nat /\ R2(offset, len) \in Nat
           /\ Remaining(offset, len) \in Nat
<1>1. /\ Capacity \in Nat \ {0} /\ start \in 0 .. Capacity - 1 /\ size \in 1 .. Capacity
      /\ offset \in 1 .. size /\ len \in Nat \ {0}
  BY CapacityAssumption DEF TypeOK, Cells, Middle, Inner
<1>2. start + offset \in 0 .. 2 * Capacity - 1
  BY <1>1
<1>3. First(offset) = IF start + offset < Capacity THEN start + offset
                      ELSE start + offset - Capacity
  <2>1. (start + offset) % Capacity = IF start + offset < Capacity THEN start + offset
                                      ELSE start + offset - Capacity
    <3>1. \A a \in 0 .. 2 * Capacity - 1 :
             a % Capacity = IF a < Capacity THEN a ELSE a - Capacity
      BY CapacityAssumption, ModOnce
    <3> QED  BY <3>1, <1>1, <1>2
  <2> QED  BY <2>1 DEF First
<1>4. First(offset) \in 0 .. Capacity - 1
  BY <1>1, <1>3
<1>5. N(offset, len) \in 0 .. size - offset
  BY <1>1 DEF N, Lesser
<1> QED  BY <1>1, <1>3, <1>4, <1>5 DEF Remaining, R1, R2, Lesser

LEMMA EraseType ==
    ASSUME TypeOK, NEW offset \in 0 .. size, NEW len \in Nat,
           ~Mishandled(offset, len), Erase(offset, len)
    PROVE  TypeOK'
<1>0. Capacity \in Nat \ {0} /\ start \in 0 .. Capacity - 1 /\ size \in 0 .. Capacity
      /\ offset \in Nat /\ offset <= size
  BY CapacityAssumption DEF TypeOK, Cells
<1>1. CASE EraseNothing(len)
  BY <1>1 DEF EraseNothing, vars, TypeOK
<1>2. CASE EraseAll(len)
  BY <1>0, <1>2 DEF EraseAll, TypeOK, Cells
<1>3. CASE EraseStart(offset, len)
  <2>1. len <= size
    BY <1>0, <1>3 DEF Mishandled, EraseStart
  <2>2. (start + len) % Capacity \in 0 .. Capacity - 1
    BY <1>0, ModRange
  <2>3. size' \in 0 .. Capacity /\ status' = "ok"
    BY <1>0, <1>3, <2>1 DEF EraseStart, TypeOK
  <2> QED  BY <1>3, <2>2, <2>3 DEF EraseStart, TypeOK, Cells
<1>4. CASE EraseEnd(offset, len)
  BY <1>0, <1>4 DEF EraseEnd, TypeOK
<1>5. ASSUME Middle(offset, len), Shrink(offset, len)  PROVE size' \in 0 .. Capacity
  BY <1>0, <1>5, MiddleFacts DEF Shrink
<1>6. CASE EraseFlat(offset, len)
  <2> DEFINE from == start + offset + N(offset, len)
  <2>1. Middle(offset, len) /\ ~Wraps /\ Memmove(start + offset, from, Remaining(offset, len))
        /\ size' \in 0 .. Capacity /\ start' = start
    BY <1>5, <1>6 DEF EraseFlat
  <2>2. Inside(start + offset, Remaining(offset, len)) /\ Inside(from, Remaining(offset, len))
    BY <2>1, MiddleFacts DEF Inside, Wraps
  <2>3. mem' \in [Cells -> Bytes] /\ status' = "ok"
    <3>1. start + offset \in Int /\ from \in Int /\ Remaining(offset, len) \in Nat
      BY <2>1, MiddleFacts
    <3> HIDE DEF from
    <3> QED  BY <2>1, <2>2, <3>1, MemmoveType
  <2> QED  BY <2>1, <2>3 DEF TypeOK
<1>7. CASE EraseOnePass(offset, len)
  <2> DEFINE to == First(offset) + N(offset, len) - offset
  <2>1. Middle(offset, len) /\ Wraps /\ R1(offset, len) = N(offset, len)
        /\ Memmove(to, start, offset) /\ size' \in 0 .. Capacity
        /\ start' = (start + N(offset, len)) % Capacity
    BY <1>5, <1>7 DEF EraseOnePass
  <2>2. First(offset) > start
    BY <2>1, MiddleFacts DEF Mishandled
  <2>3. to = start + N(offset, len) /\ First(offset) + N(offset, len) <= Capacity
    BY <2>1, <2>2, MiddleFacts
  <2>4. Inside(to, offset) /\ Inside(start, offset) /\ to \in Int
    BY <2>1, <2>3, MiddleFacts, <2>2 DEF Inside
  <2>5. mem' \in [Cells -> Bytes] /\ status' = "ok"
    <3> HIDE DEF to
    <3> QED  BY <1>0, <2>1, <2>4, MemmoveType
  <2>6. start' \in Cells
    <3>1. start + N(offset, len) \in Int /\ Capacity \in Nat \ {0}
      BY <2>1, MiddleFacts
    <3>2. (start + N(offset, len)) % Capacity \in 0 .. Capacity - 1
      BY <3>1, ModRange
    <3> QED  BY <2>1, <3>2 DEF Cells
  <2> QED  BY <2>1, <2>5, <2>6 DEF TypeOK
<1>8. ASSUME EraseAcross(offset, len)
      PROVE  /\ Middle(offset, len)
             /\ R1(offset, len) = Capacity - First(offset)
             /\ First(offset) = start + offset
             /\ start + offset + N(offset, len) > Capacity
  <2>1. Middle(offset, len) /\ R1(offset, len) = Capacity - First(offset)
        /\ First(offset) + N(offset, len) > Capacity
    BY <1>8, MiddleFacts DEF EraseAcross
  <2>2. First(offset) = start + offset
    BY <2>1, MiddleFacts
  <2> QED  BY <2>1, <2>2
<1>9. CASE EraseBeginningFits(offset, len)
  <2> DEFINE to == R2(offset, len) - offset
  <2>1. EraseAcross(offset, len) /\ offset <= R2(offset, len)
        /\ Memmove(to, start, offset) /\ start' = to /\ size' \in 0 .. Capacity
    BY <1>5, <1>8, <1>9 DEF EraseBeginningFits
  <2>2. Inside(to, offset) /\ Inside(start, offset) /\ to \in 0 .. Capacity - 1
    BY <2>1, <1>8, MiddleFacts DEF Inside
  <2>3. mem' \in [Cells -> Bytes] /\ status' = "ok"
    <3> HIDE DEF to
    <3> QED  BY <1>0, <2>1, <2>2, MemmoveType
  <2> QED  BY <2>1, <2>2, <2>3 DEF TypeOK, Cells
<1>10. CASE EraseRemainingFits(offset, len)
  <2>1. EraseAcross(offset, len) /\ Remaining(offset, len) <= R1(offset, len)
        /\ Memmove(First(offset), R2(offset, len), Remaining(offset, len))
        /\ start' = start /\ size' \in 0 .. Capacity
    BY <1>5, <1>8, <1>10 DEF EraseRemainingFits
  <2>2. Inside(First(offset), Remaining(offset, len))
        /\ Inside(R2(offset, len), Remaining(offset, len))
    BY <2>1, <1>8, MiddleFacts DEF Inside
  <2>3. First(offset) \in Int /\ R2(offset, len) \in Int /\ Remaining(offset, len) \in Nat
    BY <2>1, <1>8, MiddleFacts
  <2>4. mem' \in [Cells -> Bytes] /\ status' = "ok"
    BY <2>1, <2>2, <2>3, MemmoveType
  <2> QED  BY <2>1, <2>4 DEF TypeOK
<1>11. CASE EraseSplitBeginning(offset, len)
  <2> DEFINE r2       == R2(offset, len)
             leftover == offset - r2
             front    == Moved(mem, 0, start + leftover, r2)
  <2>1. EraseAcross(offset, len) /\ offset > r2 /\ Remaining(offset, len) > R1(offset, len)
        /\ mem' = Moved(front, Capacity - leftover, start, leftover)
        /\ start' = Capacity - leftover /\ status' = status /\ size' \in 0 .. Capacity
    BY <1>5, <1>8, <1>11 DEF EraseSplitBeginning
  <2>2. /\ leftover \in Int /\ r2 \in Int /\ start + leftover \in Int
        /\ start + leftover >= 0 /\ start + leftover + r2 <= Capacity
        /\ start >= 0 /\ start + leftover <= Capacity
        /\ Capacity - leftover \in 0 .. Capacity - 1
    BY <2>1, <1>8, MiddleFacts
  <2>3. front \in [Cells -> Bytes]
    <3> HIDE DEF leftover, r2
    <3> QED  BY <2>2, MovedType DEF TypeOK
  <2>4. mem' \in [Cells -> Bytes]
    <3> HIDE DEF leftover, r2, front
    <3> QED  BY <1>0, <2>1, <2>2, <2>3, MovedType
  <2> QED  BY <2>1, <2>2, <2>4 DEF TypeOK, Cells
<1>12. CASE EraseSplitRemaining(offset, len)
  <2> DEFINE r1   == R1(offset, len)
             r2   == R2(offset, len)
             more == Remaining(offset, len) - r1
             tail == Moved(mem, First(offset), r2, r1)
  <2>1. EraseAcross(offset, len) /\ offset > r2 /\ Remaining(offset, len) > r1
        /\ mem' = Moved(tail, 0, r2 + r1, more)
        /\ start' = start /\ status' = status /\ size' \in 0 .. Capacity
    BY <1>5, <1>8, <1>12 DEF EraseSplitRemaining
  <2>2. /\ r1 \in Nat /\ r2 \in Nat /\ more \in Int /\ First(offset) \in Int
        /\ r2 + r1 <= Capacity /\ r2 + r1 + more <= Capacity
    BY <2>1, <1>8, MiddleFacts
  <2>3. tail \in [Cells -> Bytes]
    <3> HIDE DEF r1, r2
    <3> QED  BY <2>2, MovedType DEF TypeOK
  <2>4. mem' \in [Cells -> Bytes]
    <3> HIDE DEF r1, r2, more, tail
    <3> QED  BY <2>1, <2>2, <2>3, MovedType
  <2> QED  BY <2>1, <2>4 DEF TypeOK
<1> QED
  BY <1>1, <1>2, <1>3, <1>4, <1>6, <1>7, <1>9, <1>10, <1>11, <1>12 DEF Erase

-----------------------------------------------------------------------------
(* Reading.                                                                *)

\* The cell k places behind cell first.
Place(first, k) == IF first + k < Capacity THEN first + k ELSE first + k - Capacity

LEMMA PlaceIs ==
    ASSUME NEW first \in Cells, NEW k \in 0 .. Capacity
    PROVE  (first + k) % Capacity = Place(first, k) /\ Place(first, k) \in Cells
<1>1. Capacity \in Nat \ {0} /\ first \in 0 .. Capacity - 1 /\ first + k \in 0 .. 2 * Capacity - 1
  BY CapacityAssumption DEF Cells
<1>2. \A a \in 0 .. 2 * Capacity - 1 :
         a % Capacity = IF a < Capacity THEN a ELSE a - Capacity
  BY CapacityAssumption, ModOnce
<1> QED  BY <1>1, <1>2 DEF Place, Cells

\* What a buffer holds whose memory is m, of n bytes from cell first on.
Held(m, first, n) == [k \in 1 .. n |-> m[(first + k - 1) % Capacity]]

LEMMA HeldIs ==
    ASSUME NEW m \in [Cells -> Bytes], NEW first \in Cells, NEW n \in 0 .. Capacity
    PROVE  /\ Held(m, first, n) \in Seq(Bytes)
           /\ Len(Held(m, first, n)) = n
           /\ \A k \in 1 .. n : Held(m, first, n)[k] = m[Place(first, k - 1)]
<1>0. Capacity \in Nat \ {0} /\ first \in 0 .. Capacity - 1
  BY CapacityAssumption DEF Cells
<1>1. ASSUME NEW k \in 1 .. n
      PROVE  m[(first + k - 1) % Capacity] = m[Place(first, k - 1)] /\ m[Place(first, k - 1)] \in Bytes
  <2>1. k - 1 \in 0 .. Capacity /\ first + k - 1 = first + (k - 1)
    BY <1>0
  <2>2. (first + (k - 1)) % Capacity = Place(first, k - 1) /\ Place(first, k - 1) \in Cells
    BY <2>1, PlaceIs
  <2> QED  BY <2>1, <2>2
<1>2. Held(m, first, n) \in Seq(Bytes)
  <2>1. \A k \in 1 .. n : m[(first + k - 1) % Capacity] \in Bytes
    BY <1>1
  <2>2. n \in Nat
    BY <1>0
  <2> QED  BY <2>1, <2>2, IsASeq DEF Held
<1>3. DOMAIN Held(m, first, n) = 1 .. n
  BY DEF Held
<1>4. Len(Held(m, first, n)) = n
  BY <1>0, <1>2, <1>3, LenProperties
<1> QED  BY <1>1, <1>2, <1>4 DEF Held

LEMMA ContentsAre ==
    ASSUME TypeOK
    PROVE  /\ Contents \in Seq(Bytes)
           /\ Len(Contents) = size
           /\ \A k \in 1 .. size : Contents[k] = mem[Place(start, k - 1)] /\ Contents[k] \in Bytes
<1>1. Contents = Held(mem, start, size)
  BY DEF Contents, Held
<1>2. Contents \in Seq(Bytes) /\ Len(Contents) = size
      /\ \A k \in 1 .. size : Contents[k] = mem[Place(start, k - 1)]
  BY <1>1, HeldIs DEF TypeOK
<1> QED  BY <1>2, ElementOfSeq

LEMMA CutIs ==
    ASSUME TypeOK, NEW f \in Nat, NEW c \in Nat, f + c <= Capacity
    PROVE  /\ Cut(f, c) \in Seq(Bytes)
           /\ Len(Cut(f, c)) = c
           /\ \A k \in 1 .. c : Cut(f, c)[k] = mem[f + k - 1]
<1>0. Capacity \in Nat \ {0}
  BY CapacityAssumption
<1>1. \A k \in 1 .. c : mem[f + k - 1] \in Bytes
  <2> SUFFICES ASSUME NEW k \in 1 .. c  PROVE mem[f + k - 1] \in Bytes
    OBVIOUS
  <2>1. f + k - 1 \in Cells
    BY <1>0 DEF Cells
  <2> QED  BY <2>1 DEF TypeOK
<1>2. Cut(f, c) \in Seq(Bytes)
  BY <1>1, IsASeq DEF Cut
<1>3. DOMAIN Cut(f, c) = 1 .. c
  BY DEF Cut
<1> QED  BY <1>2, <1>3, LenProperties DEF Cut

LEMMA PeekIs ==
    ASSUME TypeOK, NEW offset \in 0 .. size, NEW len \in Nat
    PROVE  /\ Peek(offset, len) \in Seq(Bytes)
           /\ Len(Peek(offset, len)) = Lesser(len, size - offset)
           /\ \A k \in 1 .. Lesser(len, size - offset) :
                 Peek(offset, len)[k] = mem[Place(start, offset + k - 1)]
<1>0. Capacity \in Nat \ {0} /\ start \in 0 .. Capacity - 1 /\ size \in 0 .. Capacity
      /\ offset \in Nat /\ offset <= size
  BY CapacityAssumption DEF TypeOK, Cells
<1> DEFINE n     == Lesser(len, size - offset)
           first == First(offset)
           once  == Lesser(Capacity - first, n)
<1>1. n \in 0 .. size /\ n + offset <= size
  BY <1>0 DEF Lesser
<1>2. first = Place(start, offset) /\ first \in 0 .. Capacity - 1
  BY <1>0, PlaceIs DEF First, Cells
<1>3. once \in 0 .. n /\ once <= Capacity - first /\ n - once \in Nat
  BY <1>0, <1>1, <1>2 DEF Lesser
<1>4. CASE size = 0 \/ len <= 0 \/ offset < 0
  <2>1. Peek(offset, len) = << >> /\ n = 0
    BY <1>0, <1>4 DEF Peek, Lesser
  <2> QED  BY <2>1, EmptySeq
<1>5. CASE ~(size = 0 \/ len <= 0 \/ offset < 0)
  <2>1. Peek(offset, len) = Cut(first, once) \o Cut(0, n - once)
    BY <1>5 DEF Peek
  <2>2. /\ Cut(first, once) \in Seq(Bytes) /\ Len(Cut(first, once)) = once
        /\ \A k \in 1 .. once : Cut(first, once)[k] = mem[first + k - 1]
    <3>1. first \in Nat /\ once \in Nat /\ first + once <= Capacity
      BY <1>0, <1>2, <1>3
    <3> HIDE DEF n, first, once
    <3> QED  BY <3>1, CutIs
  <2>3. /\ Cut(0, n - once) \in Seq(Bytes) /\ Len(Cut(0, n - once)) = n - once
        /\ \A k \in 1 .. n - once : Cut(0, n - once)[k] = mem[0 + k - 1]
    <3>1. 0 + (n - once) <= Capacity
      BY <1>0, <1>1, <1>3
    <3> HIDE DEF n, first, once
    <3> QED  BY <1>3, <3>1, CutIs
  <2>4. /\ Peek(offset, len) \in Seq(Bytes)
        /\ Len(Peek(offset, len)) = once + (n - once)
        /\ \A k \in 1 .. once + (n - once) : Peek(offset, len)[k] =
              IF k <= once THEN Cut(first, once)[k] ELSE Cut(0, n - once)[k - once]
    <3> DEFINE s == Cut(first, once)
               t == Cut(0, n - once)
    <3>1. s \in Seq(Bytes) /\ t \in Seq(Bytes) /\ Len(s) = once /\ Len(t) = n - once
          /\ Peek(offset, len) = s \o t
      BY <2>1, <2>2, <2>3
    <3> HIDE DEF s, t
    <3>2. /\ s \o t \in Seq(Bytes) /\ Len(s \o t) = Len(s) + Len(t)
          /\ \A k \in 1 .. Len(s) + Len(t) :
                (s \o t)[k] = IF k <= Len(s) THEN s[k] ELSE t[k - Len(s)]
      BY <3>1, ConcatProperties
    <3> HIDE DEF n, first, once
    <3> QED  BY <3>1, <3>2 DEF s, t
  <2>5. once + (n - once) = n
    BY <1>1, <1>3
  <2>6. ASSUME NEW k \in 1 .. n
        PROVE  Peek(offset, len)[k] = mem[Place(start, offset + k - 1)]
    <3>1. CASE k <= once
      <4>1. Place(start, offset + k - 1) = first + k - 1
        BY <1>0, <1>1, <1>2, <1>3, <3>1 DEF Place
      <4>2. k \in 1 .. once
        BY <1>1, <1>3, <2>6, <3>1
      <4> HIDE DEF n, first, once
      <4> QED  BY <2>2, <2>4, <2>5, <3>1, <4>1, <4>2, <2>6
    <3>2. CASE k > once
      <4>1. once = Capacity - first
        BY <1>0, <1>2, <1>3, <3>2 DEF Lesser
      <4>2. Place(start, offset + k - 1) = 0 + (k - once) - 1 /\ k - once \in 1 .. n - once
        <5> HIDE DEF n, first, once
        <5> QED  BY <1>0, <1>1, <1>2, <1>3, <3>2, <4>1, <2>6 DEF Place
      <4>3. Peek(offset, len)[k] = Cut(0, n - once)[k - once]
        <5> HIDE DEF n, first, once
        <5> QED  BY <2>4, <2>5, <2>6, <3>2, <1>3, <1>1
      <4> HIDE DEF n, first, once
      <4> QED  BY <2>3, <4>2, <4>3
    <3> HIDE DEF n, first, once
    <3> QED  BY <3>1, <3>2, <1>3, <2>6, <1>1
  <2> QED  BY <2>4, <2>5, <2>6
<1> QED  BY <1>4, <1>5

LEMMA PeekIsSlice ==
    ASSUME TypeOK, NEW offset \in 0 .. size, NEW len \in Nat
    PROVE  Peek(offset, len) = SubSeq(Contents, offset + 1, Lesser(offset + len, size))
<1>0. Capacity \in Nat \ {0} /\ start \in 0 .. Capacity - 1 /\ size \in 0 .. Capacity
      /\ offset \in Nat /\ offset <= size
  BY CapacityAssumption DEF TypeOK, Cells
<1> DEFINE n    == Lesser(len, size - offset)
           last == Lesser(offset + len, size)
           s    == SubSeq(Contents, offset + 1, last)
<1>1. n \in 0 .. size /\ last = offset + n
  BY <1>0 DEF Lesser
<1>2. /\ s \in Seq(Bytes)
      /\ Len(s) = n
      /\ \A k \in 1 .. n : s[k] = Contents[offset + k]
  <2>1. \A i \in offset + 1 .. last : Contents[i] \in Bytes
    BY <1>0, <1>1, ContentsAre DEF Lesser
  <2>2. /\ s \in Seq(Bytes)
        /\ Len(s) = IF offset + 1 <= last THEN last - (offset + 1) + 1 ELSE 0
        /\ \A k \in 1 .. last - (offset + 1) + 1 : s[k] = Contents[offset + 1 + k - 1]
    <3>1. offset + 1 \in Int /\ last \in Int
      BY <1>0, <1>1
    <3> HIDE DEF last
    <3> QED  BY <2>1, <3>1, SubSeqProperties
  <2>3. \A k \in 1 .. n : offset + 1 + k - 1 = offset + k
    BY <1>0, <1>1
  <2>4. last - (offset + 1) + 1 = n
    BY <1>0, <1>1
  <2>5. Len(s) = n
    <3> HIDE DEF n, last, s
    <3> QED  BY <1>0, <1>1, <2>2
  <2>6. \A k \in 1 .. n : s[k] = Contents[offset + k]
    <3> HIDE DEF n, last, s
    <3> QED  BY <2>2, <2>3, <2>4
  <2> QED  BY <2>2, <2>5, <2>6
<1>3. \A k \in 1 .. n : s[k] = mem[Place(start, offset + k - 1)]
  <2> SUFFICES ASSUME NEW k \in 1 .. n  PROVE s[k] = mem[Place(start, offset + k - 1)]
    OBVIOUS
  <2>1. offset + k \in 1 .. size
    BY <1>0, <1>1 DEF Lesser
  <2> HIDE DEF s
  <2> QED  BY <1>2, <2>1, ContentsAre
<1>4. /\ Peek(offset, len) \in Seq(Bytes) /\ Len(Peek(offset, len)) = n
      /\ \A k \in 1 .. n : Peek(offset, len)[k] = mem[Place(start, offset + k - 1)]
  BY PeekIs
<1> HIDE DEF n, s
<1>5. Peek(offset, len) = s
  BY <1>2, <1>3, <1>4, SeqEqual
<1> QED  BY <1>5 DEF s

LEMMA PeekExact == TypeOK => PeekIsExact
<1> SUFFICES ASSUME TypeOK, NEW o \in Offsets, NEW n \in Lengths
             PROVE  Peek(o, n) = SubSeq(Contents, o + 1, Lesser(o + n, size))
  BY DEF PeekIsExact
<1>1. o \in 0 .. size /\ n \in Nat
  BY CapacityAssumption DEF TypeOK, Offsets, Lengths, Lesser
<1> QED  BY <1>1, PeekIsSlice

LEMMA LeastOf ==
    ASSUME NEW S, S \subseteq Nat, S # {}
    PROVE  \E i \in S : \A j \in S : i <= j
<1>1. PICK i \in S : \A j \in S : <<j, i>> \notin OpToRel(<, Nat)
  BY WFMin, NatLessThanWellFounded, Zenon
<1>2. \A j \in S : ~(j < i)
  BY <1>1, Zenon DEF OpToRel
<1>3. \A j \in S : i <= j
  BY <1>2
<1> QED  BY <1>3

LEMMA FindFirst == TypeOK => FindIsFirst
<1> SUFFICES ASSUME TypeOK, NEW buf \in Writes, NEW o \in Offsets
             PROVE  LET at == {i \in o .. size - Len(buf) - 1 : Occurs(buf, i)}
                    IN  IF at = {} THEN Find(buf, o) = -1
                        ELSE Find(buf, o) \in at /\ \A i \in at : Find(buf, o) <= i
  BY DEF FindIsFirst
<1>0. Capacity \in Nat \ {0} /\ size \in 0 .. Capacity /\ o \in 0 .. size /\ Len(buf) \in Nat
  BY CapacityAssumption, WritesAssumption, LenProperties DEF TypeOK, Offsets, Lesser
<1> DEFINE at == {i \in o .. size - Len(buf) - 1 : Occurs(buf, i)}
<1>1. Matches(buf, o) = at
  <2>1. ASSUME NEW i \in o .. size - Len(buf) - 1
        PROVE  Peek(i, Len(buf)) = buf <=> Occurs(buf, i)
    <3>1. i \in 0 .. size /\ Lesser(i + Len(buf), size) = i + Len(buf)
      BY <1>0 DEF Lesser
    <3> QED  BY <1>0, <3>1, PeekIsSlice DEF Occurs
  <2> QED  BY <2>1 DEF Matches
<1>2. CASE at = {}
  BY <1>1, <1>2 DEF Find
<1>3. CASE at # {}
  <2>1. at \subseteq Nat
    BY <1>0
  <2>2. ~(Len(buf) > size)
    <3> PICK i \in at : TRUE
      BY <1>3
    <3> QED  BY <1>0
  <2>3. PICK least \in at : \A j \in at : least <= j
    <3> HIDE DEF at
    <3> QED  BY <1>3, <2>1, LeastOf
  <2>4. Find(buf, o) = CHOOSE i \in at : \A j \in at : i <= j
    <3> HIDE DEF at
    <3> QED  BY <1>1, <1>3, <2>2 DEF Find
  <2>5. Find(buf, o) \in at /\ \A j \in at : Find(buf, o) <= j
    <3> HIDE DEF at
    <3> QED  BY <2>3, <2>4, Zenon
  <2> QED  BY <1>3, <2>5
<1> QED  BY <1>2, <1>3

-----------------------------------------------------------------------------
(* Every step keeps the types.                                             *)

LEMMA PeekLength ==
    ASSUME TypeOK, NEW offset \in 0 .. size, NEW len \in Nat
    PROVE  Len(Peek(offset, len)) \in Nat
<1>1. Peek(offset, len) \in Seq(Bytes)
  BY PeekIs
<1> QED  BY <1>1, LenProperties

LEMMA TypeStep == Careful /\ TypeOK /\ [Next]_vars => TypeOK'
<1> SUFFICES ASSUME Careful, TypeOK, [Next]_vars  PROVE TypeOK'
  OBVIOUS
<1>0. Offsets \subseteq 0 .. size /\ Lengths \subseteq Nat
  BY CapacityAssumption DEF TypeOK, Offsets, Lengths, Lesser
<1>1. ASSUME NEW b \in Writes, WriteCall(b)  PROVE TypeOK'
  BY <1>1, WriteType DEF WriteCall
<1>2. CASE ReadCall
  <2>1. PICK o \in Offsets, n \in Lengths :
           ~Mishandled(o, Len(Peek(o, n))) /\ Erase(o, Len(Peek(o, n)))
    BY <1>2 DEF ReadCall, Read
  <2>2. o \in 0 .. size /\ Len(Peek(o, n)) \in Nat
    BY <1>0, <2>1, PeekLength
  <2> QED  BY <2>1, <2>2, EraseType
<1>3. CASE EraseCall
  <2>1. PICK o \in Offsets, n \in Lengths : ~Mishandled(o, n) /\ Erase(o, n)
    BY <1>3 DEF EraseCall
  <2> QED  BY <1>0, <2>1, EraseType
<1>4. CASE UNCHANGED vars
  BY <1>4 DEF vars, TypeOK
<1> QED  BY <1>1, <1>2, <1>3, <1>4 DEF Next

\* With careful clients start and size stay in range, and no call reads or
\* writes outside the array, through all of erase's branches.
THEOREM StaysInBounds ==
    ASSUME Careful
    PROVE  Spec => []TypeOK
<1>1. TypeOK /\ [Next]_vars => TypeOK'
  BY TypeStep
<1> QED  BY <1>1, InitType, PTL DEF Spec

-----------------------------------------------------------------------------
(* What erase does to the contents: n bytes go, and every other byte is    *)
(* found where the new start and size say.                                 *)

Gone(offset, n) ==
    /\ size' = size - n
    /\ \A k \in 0 .. size - n - 1 :
          mem'[Place(start', k)] =
             IF k < offset THEN mem[Place(start, k)] ELSE mem[Place(start, k + n)]

LEMMA GoneRemoves ==
    ASSUME TypeOK, TypeOK', NEW offset \in 0 .. size, NEW n \in 0 .. size - offset,
           Gone(offset, n)
    PROVE  Contents' = SubSeq(Contents, 1, offset) \o SubSeq(Contents, offset + n + 1, size)
<1>0. Capacity \in Nat \ {0} /\ size \in 0 .. Capacity /\ offset \in Nat /\ n \in Nat
      /\ offset + n <= size
  BY CapacityAssumption DEF TypeOK
<1> DEFINE left  == SubSeq(Contents, 1, offset)
           right == SubSeq(Contents, offset + n + 1, size)
<1>1. \A k \in 1 .. size : Contents[k] = mem[Place(start, k - 1)] /\ Contents[k] \in Bytes
  BY ContentsAre
<1>2. /\ left \in Seq(Bytes) /\ Len(left) = offset
      /\ \A k \in 1 .. offset : left[k] = Contents[k]
  <2>1. \A i \in 1 .. offset : Contents[i] \in Bytes
    BY <1>0, <1>1
  <2>2. /\ left \in Seq(Bytes) /\ Len(left) = IF 1 <= offset THEN offset - 1 + 1 ELSE 0
        /\ \A k \in 1 .. offset - 1 + 1 : left[k] = Contents[1 + k - 1]
    <3>1. offset \in Int
      BY <1>0
    <3> QED  BY <2>1, <3>1, SubSeqProperties
  <2> HIDE DEF left
  <2>3. \A k \in 1 .. offset : k \in 1 .. offset - 1 + 1 /\ 1 + k - 1 = k
    BY <1>0
  <2> QED  BY <1>0, <2>2, <2>3
<1>3. /\ right \in Seq(Bytes) /\ Len(right) = size - offset - n
      /\ \A k \in 1 .. size - offset - n : right[k] = Contents[offset + n + k]
  <2> DEFINE m == offset + n + 1
  <2>1. m \in Int /\ \A i \in m .. size : Contents[i] \in Bytes
    BY <1>0, <1>1
  <2>2. /\ right \in Seq(Bytes) /\ Len(right) = IF m <= size THEN size - m + 1 ELSE 0
        /\ \A k \in 1 .. size - m + 1 : right[k] = Contents[m + k - 1]
    <3>1. size \in Int
      BY <1>0
    <3> HIDE DEF m
    <3> SUFFICES /\ SubSeq(Contents, m, size) \in Seq(Bytes)
                 /\ Len(SubSeq(Contents, m, size)) = IF m <= size THEN size - m + 1 ELSE 0
                 /\ \A k \in 1 .. size - m + 1 : SubSeq(Contents, m, size)[k] = Contents[m + k - 1]
      BY DEF m
    <3> QED  BY <2>1, <3>1, SubSeqProperties
  <2> HIDE DEF right
  <2>3. \A k \in 1 .. size - offset - n : k \in 1 .. size - m + 1 /\ m + k - 1 = offset + n + k
    BY <1>0
  <2>4. Len(right) = size - offset - n
    BY <1>0, <2>2
  <2> HIDE DEF m
  <2> QED  BY <2>2, <2>3, <2>4
<1> HIDE DEF left, right
<1>4. /\ left \o right \in Seq(Bytes) /\ Len(left \o right) = Len(left) + Len(right)
      /\ \A k \in 1 .. Len(left) + Len(right) :
            (left \o right)[k] = IF k <= Len(left) THEN left[k] ELSE right[k - Len(left)]
  BY <1>2, <1>3, ConcatProperties
<1>5. Len(left) + Len(right) = size - n
  BY <1>0, <1>2, <1>3
<1>6. ASSUME NEW k \in 1 .. size - n
      PROVE  (left \o right)[k] = IF k <= offset THEN Contents[k] ELSE Contents[k + n]
  <2>1. CASE k <= offset
    BY <1>0, <1>2, <1>4, <1>5, <2>1
  <2>2. CASE ~(k <= offset)
    <3>1. k - offset \in 1 .. size - offset - n /\ offset + n + (k - offset) = k + n
      BY <1>0, <2>2
    <3>2. (left \o right)[k] = right[k - offset]
      BY <1>0, <1>2, <1>4, <1>5, <2>2
    <3>3. right[k - offset] = Contents[offset + n + (k - offset)]
      BY <1>3, <3>1
    <3> QED  BY <2>2, <3>1, <3>2, <3>3
  <2> QED  BY <2>1, <2>2
<1>7. size' = size - n
  BY DEF Gone
<1>8. Contents' = Held(mem', start', size')
  BY DEF Contents, Held
<1>9. /\ Contents' \in Seq(Bytes) /\ Len(Contents') = size - n
      /\ \A k \in 1 .. size - n : Contents'[k] = mem'[Place(start', k - 1)]
  BY <1>7, <1>8, HeldIs DEF TypeOK
<1>10. ASSUME NEW k \in 1 .. size - n
       PROVE  Contents'[k] = (left \o right)[k]
  <2>1. k - 1 \in 0 .. size - n - 1 /\ k \in 1 .. size /\ k + n \in 1 .. size /\ k + n - 1 = k - 1 + n
        /\ (k - 1 < offset <=> k <= offset)
    BY <1>0
  <2>2. mem'[Place(start', k - 1)] =
           IF k - 1 < offset THEN mem[Place(start, k - 1)] ELSE mem[Place(start, k - 1 + n)]
    BY <2>1 DEF Gone
  <2>3. Contents[k] = mem[Place(start, k - 1)] /\ Contents[k + n] = mem[Place(start, k - 1 + n)]
    BY <1>1, <2>1
  <2> QED  BY <1>6, <1>9, <2>1, <2>2, <2>3
<1>11. Contents' = left \o right
  <2> DEFINE s == Contents'
             t == left \o right
  <2>1. s \in Seq(Bytes) /\ t \in Seq(Bytes) /\ Len(s) = Len(t)
        /\ \A k \in 1 .. Len(s) : s[k] = t[k]
    BY <1>4, <1>5, <1>9, <1>10
  <2> HIDE DEF s, t
  <2>2. s = t
    BY <2>1, SeqEqual
  <2> QED  BY <2>2 DEF s, t
<1> QED  BY <1>11 DEF left, right

-----------------------------------------------------------------------------
(* The branches that move bytes.                                           *)

LEMMA MovedAt ==
    ASSUME NEW m \in [Cells -> Bytes], NEW to \in Int, NEW from \in Int, NEW n \in Int,
           NEW i \in Cells
    PROVE  Moved(m, to, from, n)[i] = IF to <= i /\ i < to + n THEN m[from + i - to] ELSE m[i]
  BY DEF Moved

\* A memmove that left the status alone is the one the code asked for.
LEMMA MemmoveMoves ==
    ASSUME TypeOK', NEW to \in Int, NEW from \in Int, NEW n \in Int, Memmove(to, from, n)
    PROVE  mem' = Moved(mem, to, from, n) /\ Inside(to, n) /\ Inside(from, n)
<1>1. status' = "ok"
  BY DEF TypeOK
<1> QED  BY <1>1 DEF Memmove

LEMMA FlatGone ==
    ASSUME TypeOK, TypeOK', NEW offset \in 0 .. size, NEW len \in Nat, EraseFlat(offset, len)
    PROVE  Gone(offset, N(offset, len))
<1> DEFINE n    == N(offset, len)
           to   == start + offset
           from == start + offset + n
           rest == Remaining(offset, len)
<1>1. Middle(offset, len) /\ ~Wraps /\ Memmove(to, from, rest) /\ size' = size - n /\ start' = start
  BY DEF EraseFlat, Shrink
<1>2. /\ Capacity \in Nat \ {0} /\ start \in 0 .. Capacity - 1 /\ size \in 1 .. Capacity
      /\ offset \in 1 .. size /\ n \in 0 .. size - offset /\ rest = size - offset - n
  BY <1>1, MiddleFacts
<1>3. start + size <= Capacity
  BY <1>1, <1>2 DEF Wraps
<1> HIDE DEF n
<1>4. mem' = Moved(mem, to, from, rest)
  <2>1. to \in Int /\ from \in Int /\ rest \in Int
    BY <1>2
  <2> HIDE DEF to, from, rest
  <2> QED  BY <1>1, <2>1, MemmoveMoves
<1>5. ASSUME NEW k \in 0 .. size - n - 1
      PROVE  mem'[Place(start', k)] =
                IF k < offset THEN mem[Place(start, k)] ELSE mem[Place(start, k + n)]
  <2> DEFINE i == start + k
  <2>1. Place(start', k) = i /\ Place(start, k) = i /\ Place(start, k + n) = i + n
        /\ i \in Cells
    BY <1>1, <1>2, <1>3 DEF Place, Cells
  <2>2. mem'[i] = IF to <= i /\ i < to + rest THEN mem[from + i - to] ELSE mem[i]
    <3>1. to \in Int /\ from \in Int /\ rest \in Int /\ mem \in [Cells -> Bytes]
      BY <1>2 DEF TypeOK
    <3> HIDE DEF to, from, rest, i
    <3> QED  BY <1>4, <2>1, <3>1, MovedAt
  <2>3. (to <= i /\ i < to + rest <=> ~(k < offset)) /\ from + i - to = i + n
    BY <1>2
  <2> HIDE DEF to, from, rest, i
  <2> QED  BY <2>1, <2>2, <2>3
<1> QED  BY <1>1, <1>5 DEF Gone, n

LEMMA OnePassGone ==
    ASSUME TypeOK, TypeOK', NEW offset \in 0 .. size, NEW len \in Nat,
           ~Mishandled(offset, len), EraseOnePass(offset, len)
    PROVE  Gone(offset, N(offset, len))
<1> DEFINE n  == N(offset, len)
           to == First(offset) + n - offset
<1>1. Middle(offset, len) /\ Wraps /\ R1(offset, len) = n /\ Memmove(to, start, offset)
      /\ size' = size - n /\ start' = (start + n) % Capacity
  BY DEF EraseOnePass, Shrink
<1>2. /\ Capacity \in Nat \ {0} /\ start \in 0 .. Capacity - 1 /\ size \in 1 .. Capacity
      /\ offset \in 1 .. size /\ n \in 0 .. size - offset
      /\ First(offset) = (IF start + offset < Capacity THEN start + offset
                          ELSE start + offset - Capacity)
      /\ First(offset) + n <= Capacity
      /\ First(offset) > start
  BY <1>1, MiddleFacts DEF Mishandled
<1>3. to = start + n /\ start + offset + n <= Capacity
  BY <1>2
<1>4. start' = start + n
  <2>1. start + n \in 0 .. Capacity - 1
    BY <1>2, <1>3
  <2>2. (start + n) % Capacity = start + n
    BY <1>2, <2>1, ModOnce
  <2> QED  BY <1>1, <2>2
<1>5. mem' = Moved(mem, to, start, offset)
  <2>1. to \in Int /\ start \in Int /\ offset \in Int
    BY <1>2, <1>3
  <2> HIDE DEF to, n
  <2> QED  BY <1>1, <2>1, MemmoveMoves
<1> HIDE DEF n
<1>6. ASSUME NEW k \in 0 .. size - n - 1
      PROVE  mem'[Place(start', k)] =
                IF k < offset THEN mem[Place(start, k)] ELSE mem[Place(start, k + n)]
  <2> DEFINE i == Place(start', k)
  <2>1. i = Place(start, k + n) /\ i \in Cells
    BY <1>2, <1>3, <1>4 DEF Place, Cells
  <2>2. mem'[i] = IF to <= i /\ i < to + offset THEN mem[start + i - to] ELSE mem[i]
    <3>1. to \in Int /\ start \in Int /\ offset \in Int /\ mem \in [Cells -> Bytes]
      BY <1>2, <1>3 DEF TypeOK
    <3> HIDE DEF to, i
    <3> QED  BY <1>5, <2>1, <3>1, MovedAt
  <2>3. (to <= i /\ i < to + offset <=> k < offset)
        /\ (k < offset => start + i - to = Place(start, k))
    BY <1>2, <1>3, <1>4 DEF Place
  <2> HIDE DEF to, i
  <2> QED  BY <2>1, <2>2, <2>3 DEF i
<1> QED  BY <1>1, <1>6 DEF Gone, n

LEMMA AcrossFacts ==
    ASSUME TypeOK, NEW offset \in 0 .. size, NEW len \in Nat, EraseAcross(offset, len)
    PROVE  /\ Capacity \in Nat \ {0} /\ start \in 0 .. Capacity - 1 /\ size \in 1 .. Capacity
           /\ offset \in 1 .. size /\ N(offset, len) \in 0 .. size - offset
           /\ First(offset) = start + offset /\ start + offset < Capacity
           /\ R1(offset, len) = Capacity - start - offset
           /\ R2(offset, len) = start + offset + N(offset, len) - Capacity
           /\ R2(offset, len) > 0
           /\ Remaining(offset, len) = size - offset - N(offset, len)
           /\ R1(offset, len) \in Nat /\ R2(offset, len) \in Nat /\ Remaining(offset, len) \in Nat
<1>1. Middle(offset, len) /\ R1(offset, len) # N(offset, len)
  BY DEF EraseAcross
<1> QED  BY <1>1, MiddleFacts

LEMMA BeginningFitsGone ==
    ASSUME TypeOK, TypeOK', NEW offset \in 0 .. size, NEW len \in Nat,
           EraseBeginningFits(offset, len)
    PROVE  Gone(offset, N(offset, len))
<1> DEFINE n  == N(offset, len)
           to == R2(offset, len) - offset
<1>1. EraseAcross(offset, len) /\ offset <= R2(offset, len) /\ Memmove(to, start, offset)
      /\ start' = to /\ size' = size - n
  BY DEF EraseBeginningFits, Shrink
<1>2. /\ Capacity \in Nat \ {0} /\ start \in 0 .. Capacity - 1 /\ size \in 1 .. Capacity
      /\ offset \in 1 .. size /\ n \in 0 .. size - offset /\ start + offset < Capacity
      /\ R2(offset, len) = start + offset + n - Capacity
      /\ to = start + n - Capacity /\ to >= 0
  BY <1>1, AcrossFacts
<1> HIDE DEF n
<1>3. mem' = Moved(mem, to, start, offset)
  <2>1. to \in Int /\ start \in Int /\ offset \in Int
    BY <1>2
  <2> HIDE DEF to
  <2> QED  BY <1>1, <2>1, MemmoveMoves
<1> HIDE DEF to
<1>4. ASSUME NEW k \in 0 .. size - n - 1
      PROVE  mem'[Place(start', k)] =
                IF k < offset THEN mem[Place(start, k)] ELSE mem[Place(start, k + n)]
  <2> DEFINE i == to + k
  <2>1. Place(start', k) = i /\ i \in Cells /\ Place(start, k + n) = i
        /\ (k < offset => Place(start, k) = start + k)
    BY <1>1, <1>2 DEF Place, Cells
  <2>2. mem'[i] = IF to <= i /\ i < to + offset THEN mem[start + i - to] ELSE mem[i]
    <3>1. to \in Int /\ start \in Int /\ offset \in Int /\ mem \in [Cells -> Bytes]
      BY <1>2 DEF TypeOK
    <3> HIDE DEF i
    <3> QED  BY <1>3, <2>1, <3>1, MovedAt
  <2>3. (to <= i /\ i < to + offset <=> k < offset) /\ start + i - to = start + k
    BY <1>2
  <2> HIDE DEF i
  <2> QED  BY <2>1, <2>2, <2>3
<1> QED  BY <1>1, <1>4 DEF Gone, n

LEMMA RemainingFitsGone ==
    ASSUME TypeOK, TypeOK', NEW offset \in 0 .. size, NEW len \in Nat,
           EraseRemainingFits(offset, len)
    PROVE  Gone(offset, N(offset, len))
<1> DEFINE n    == N(offset, len)
           r2   == R2(offset, len)
           rest == Remaining(offset, len)
           to   == First(offset)
<1>1. EraseAcross(offset, len) /\ offset > r2 /\ rest <= R1(offset, len)
      /\ Memmove(to, r2, rest) /\ start' = start /\ size' = size - n
  BY DEF EraseRemainingFits, Shrink
<1>2. /\ Capacity \in Nat \ {0} /\ start \in 0 .. Capacity - 1 /\ size \in 1 .. Capacity
      /\ offset \in 1 .. size /\ n \in 0 .. size - offset
      /\ r2 = start + offset + n - Capacity /\ r2 > 0 /\ rest = size - offset - n
      /\ to = start + offset /\ start + offset + rest <= Capacity
  BY <1>1, AcrossFacts
<1> HIDE DEF n, r2, rest, to
<1>3. mem' = Moved(mem, to, r2, rest)
  <2>1. to \in Int /\ r2 \in Int /\ rest \in Int
    BY <1>2
  <2> QED  BY <1>1, <2>1, MemmoveMoves
<1>4. ASSUME NEW k \in 0 .. size - n - 1
      PROVE  mem'[Place(start', k)] =
                IF k < offset THEN mem[Place(start, k)] ELSE mem[Place(start, k + n)]
  <2> DEFINE i == start + k
  <2>1. Place(start', k) = i /\ i \in Cells /\ Place(start, k) = i
        /\ (~(k < offset) => Place(start, k + n) = start + k + n - Capacity)
    BY <1>1, <1>2 DEF Place, Cells
  <2>2. mem'[i] = IF to <= i /\ i < to + rest THEN mem[r2 + i - to] ELSE mem[i]
    <3>1. to \in Int /\ r2 \in Int /\ rest \in Int /\ mem \in [Cells -> Bytes]
      BY <1>2 DEF TypeOK
    <3> HIDE DEF i
    <3> QED  BY <1>3, <2>1, <3>1, MovedAt
  <2>3. (to <= i /\ i < to + rest <=> ~(k < offset)) /\ r2 + i - to = start + k + n - Capacity
    BY <1>2
  <2> HIDE DEF i
  <2> QED  BY <2>1, <2>2, <2>3
<1> QED  BY <1>1, <1>4 DEF Gone, n

LEMMA SplitBeginningGone ==
    ASSUME TypeOK, TypeOK', NEW offset \in 0 .. size, NEW len \in Nat,
           EraseSplitBeginning(offset, len)
    PROVE  Gone(offset, N(offset, len))
<1> DEFINE n     == N(offset, len)
           r2    == R2(offset, len)
           more  == offset - r2
           front == Moved(mem, 0, start + more, r2)
           to    == Capacity - more
<1>1. EraseAcross(offset, len) /\ offset > r2 /\ Remaining(offset, len) > R1(offset, len)
      /\ mem' = Moved(front, to, start, more) /\ start' = to /\ size' = size - n
      /\ offset <= Remaining(offset, len)
  BY DEF EraseSplitBeginning, Shrink
<1>2. /\ Capacity \in Nat \ {0} /\ start \in 0 .. Capacity - 1 /\ size \in 1 .. Capacity
      /\ offset \in 1 .. size /\ n \in 0 .. size - offset
      /\ r2 = start + offset + n - Capacity /\ r2 > 0 /\ start + offset < Capacity
      /\ more = Capacity - start - n /\ more > 0 /\ to = start + n
      /\ offset <= size - offset - n
  BY <1>1, AcrossFacts
<1>3. to < Capacity /\ start + more \in Int /\ more \in Int /\ r2 \in Int /\ to \in Int
  BY <1>2
<1>4. front \in [Cells -> Bytes]
  <2>1. start + more >= 0 /\ start + more + r2 <= Capacity
    BY <1>2
  <2> HIDE DEF more, r2
  <2> QED  BY <1>3, <2>1, MovedType DEF TypeOK
<1>5. ASSUME NEW i \in Cells
      PROVE  mem'[i] = IF to <= i /\ i < to + more THEN front[start + i - to] ELSE front[i]
  <2>1. start \in Int
    BY <1>2
  <2> HIDE DEF n, r2, more, front, to
  <2> QED  BY <1>1, <1>3, <1>4, <1>5, <2>1, MovedAt
<1>6. ASSUME NEW i \in Cells
      PROVE  front[i] = IF i < r2 THEN mem[start + more + i] ELSE mem[i]
  <2>1. mem \in [Cells -> Bytes] /\ i \in Int /\ 0 <= i
    BY <1>6 DEF TypeOK, Cells
  <2>2. front[i] = IF 0 <= i /\ i < 0 + r2 THEN mem[start + more + i - 0] ELSE mem[i]
    <3> DEFINE from == start + more
    <3> HIDE DEF from, more, r2
    <3>1. Moved(mem, 0, from, r2)[i] =
             IF 0 <= i /\ i < 0 + r2 THEN mem[from + i - 0] ELSE mem[i]
      <4>1. from \in Int
        BY <1>3 DEF from
      <4> QED  BY <1>3, <2>1, <4>1, <1>6, MovedAt
    <3> QED  BY <3>1 DEF from
  <2> HIDE DEF front, more, r2
  <2> QED  BY <1>3, <2>1, <2>2
<1> HIDE DEF n, r2, more, front, to
<1>7. ASSUME NEW k \in 0 .. size - n - 1
      PROVE  mem'[Place(start', k)] =
                IF k < offset THEN mem[Place(start, k)] ELSE mem[Place(start, k + n)]
  <2>1. start' = to
    BY <1>1
  <2>2. CASE k < more
    \* Bytes of the beginning, moved to the end of the array.
    <3>1. /\ Place(to, k) = to + k /\ to + k \in Cells /\ to <= to + k /\ to + k < to + more
          /\ start + (to + k) - to = start + k /\ Place(start, k) = start + k
          /\ start + k \in Cells /\ k < offset /\ ~(start + k < r2)
      BY <1>2, <1>3, <2>2 DEF Place, Cells
    <3>2. mem'[to + k] = front[start + k]
      BY <1>5, <3>1
    <3>3. front[start + k] = mem[start + k]
      BY <1>6, <3>1
    <3> QED  BY <2>1, <3>1, <3>2, <3>3
  <2>3. CASE ~(k < more) /\ k < offset
    \* Bytes of the beginning, moved to the front of the array.
    <3>1. /\ Place(to, k) = k - more /\ k - more \in Cells /\ ~(to <= k - more)
          /\ k - more < r2 /\ start + more + (k - more) = start + k /\ Place(start, k) = start + k
      BY <1>2, <1>3, <2>3 DEF Place, Cells
    <3>2. mem'[k - more] = front[k - more]
      BY <1>5, <3>1
    <3>3. front[k - more] = mem[start + k]
      BY <1>6, <3>1
    <3> QED  BY <2>1, <2>3, <3>1, <3>2, <3>3
  <2>4. CASE ~(k < offset)
    <3>1. /\ Place(to, k) = k - more /\ k - more \in Cells /\ ~(to <= k - more)
          /\ ~(k - more < r2) /\ Place(start, k + n) = k - more
      BY <1>2, <1>3, <2>4 DEF Place, Cells
    <3>2. mem'[k - more] = front[k - more] /\ front[k - more] = mem[k - more]
      BY <1>5, <1>6, <3>1
    <3> QED  BY <2>1, <2>4, <3>1, <3>2
  <2> QED  BY <2>2, <2>3, <2>4
<1> QED  BY <1>1, <1>7 DEF Gone, n

LEMMA SplitRemainingGone ==
    ASSUME TypeOK, TypeOK', NEW offset \in 0 .. size, NEW len \in Nat,
           EraseSplitRemaining(offset, len)
    PROVE  Gone(offset, N(offset, len))
<1> DEFINE n    == N(offset, len)
           r1   == R1(offset, len)
           r2   == R2(offset, len)
           to   == First(offset)
           from == r2 + r1
           more == Remaining(offset, len) - r1
           tail == Moved(mem, to, r2, r1)
<1>1. EraseAcross(offset, len) /\ offset > r2 /\ Remaining(offset, len) > r1
      /\ mem' = Moved(tail, 0, from, more) /\ start' = start /\ size' = size - n
  BY DEF EraseSplitRemaining, Shrink
<1>2. /\ Capacity \in Nat \ {0} /\ start \in 0 .. Capacity - 1 /\ size \in 1 .. Capacity
      /\ offset \in 1 .. size /\ n \in 0 .. size - offset
      /\ to = start + offset /\ start + offset < Capacity
      /\ r1 = Capacity - start - offset /\ r2 = start + offset + n - Capacity /\ r2 > 0
      /\ from = n /\ more = size - n - (Capacity - start) /\ more > 0 /\ offset > r2
      /\ more + n <= start
  BY <1>1, AcrossFacts
<1>3. r1 \in Int /\ r2 \in Int /\ to \in Int /\ from \in Int /\ more \in Int
  BY <1>2
<1>4. tail \in [Cells -> Bytes]
  <2>1. r2 >= 0 /\ r2 + r1 <= Capacity
    BY <1>2
  <2> HIDE DEF r1, r2, to
  <2> QED  BY <1>3, <2>1, MovedType DEF TypeOK
<1>5. ASSUME NEW i \in Cells
      PROVE  mem'[i] = IF i < more THEN tail[from + i] ELSE tail[i]
  <2>1. i \in Int /\ 0 <= i /\ 0 \in Int
    BY <1>5 DEF Cells
  <2> HIDE DEF n, r1, r2, to, from, more, tail
  <2>2. mem'[i] = IF 0 <= i /\ i < 0 + more THEN tail[from + i - 0] ELSE tail[i]
    BY <1>1, <1>3, <1>4, <1>5, <2>1, MovedAt
  <2> QED  BY <1>3, <2>1, <2>2
<1>6. ASSUME NEW i \in Cells
      PROVE  tail[i] = IF to <= i /\ i < to + r1 THEN mem[r2 + i - to] ELSE mem[i]
  <2>1. mem \in [Cells -> Bytes]
    BY DEF TypeOK
  <2> HIDE DEF r1, r2, to
  <2> QED  BY <1>3, <1>6, <2>1, MovedAt
<1> HIDE DEF n, r1, r2, to, from, more, tail
<1>7. ASSUME NEW k \in 0 .. size - n - 1
      PROVE  mem'[Place(start', k)] =
                IF k < offset THEN mem[Place(start, k)] ELSE mem[Place(start, k + n)]
  <2>1. start' = start
    BY <1>1
  <2>2. CASE k < offset
    <3> DEFINE i == start + k
    <3>1. Place(start, k) = i /\ i \in Cells /\ ~(i < more) /\ ~(to <= i)
      BY <1>2, <2>2 DEF Place, Cells
    <3> HIDE DEF i
    <3>2. mem'[i] = tail[i] /\ tail[i] = mem[i]
      BY <1>5, <1>6, <3>1
    <3> QED  BY <2>1, <2>2, <3>1, <3>2
  <2>3. CASE ~(k < offset) /\ start + k < Capacity
    \* The first r1 of the remaining bytes, moved to the end of the array.
    <3> DEFINE i == start + k
    <3>1. /\ Place(start, k) = i /\ i \in Cells /\ ~(i < more)
          /\ to <= i /\ i < to + r1 /\ r2 + i - to = Place(start, k + n)
      BY <1>2, <2>3 DEF Place, Cells
    <3> HIDE DEF i
    <3>2. mem'[i] = tail[i] /\ tail[i] = mem[r2 + i - to]
      BY <1>5, <1>6, <3>1
    <3> QED  BY <2>1, <2>3, <3>1, <3>2
  <2>4. CASE ~(start + k < Capacity)
    \* The others, moved to its front.
    <3> DEFINE i == start + k - Capacity
    <3>1. /\ Place(start, k) = i /\ i \in Cells /\ i < more /\ from + i \in Cells
          /\ ~(to <= from + i) /\ from + i = Place(start, k + n) /\ ~(k < offset)
      BY <1>2, <2>4 DEF Place, Cells
    <3> HIDE DEF i
    <3>2. mem'[i] = tail[from + i] /\ tail[from + i] = mem[from + i]
      BY <1>5, <1>6, <3>1
    <3> QED  BY <2>1, <3>1, <3>2
  <2> QED  BY <2>2, <2>3, <2>4
<1> QED  BY <1>1, <1>7 DEF Gone, n

\* Whatever branch erase takes, it removes a range: len bytes, or as many as
\* there are.
LEMMA EraseRemoves ==
    ASSUME TypeOK, TypeOK', NEW offset \in 0 .. size, NEW len \in Nat,
           ~Mishandled(offset, len), Erase(offset, len)
    PROVE  \E o \in 0 .. size : \E n \in 0 .. size - o :
              Contents' = SubSeq(Contents, 1, o) \o SubSeq(Contents, o + n + 1, size)
<1>0. Capacity \in Nat \ {0} /\ start \in 0 .. Capacity - 1 /\ size \in 0 .. Capacity
      /\ offset \in Nat /\ offset <= size
  BY CapacityAssumption DEF TypeOK, Cells
<1> SUFFICES \E o \in 0 .. size : \E n \in 0 .. size - o : Gone(o, n)
  BY GoneRemoves
<1>1. CASE EraseNothing(len)
  <2>1. \A k \in 0 .. size - 0 - 1 : k + 0 = k
    BY <1>0
  <2>2. Gone(0, 0)
    BY <1>0, <1>1, <2>1 DEF EraseNothing, vars, Gone
  <2>3. 0 \in 0 .. size /\ 0 \in 0 .. size - 0
    BY <1>0
  <2> QED  BY <2>2, <2>3
<1>2. CASE EraseAll(len)
  <2>1. offset = 0
    BY <1>0, <1>2 DEF EraseAll, Mishandled
  <2>2. size \in 0 .. size - 0 /\ 0 \in 0 .. size /\ size - size = 0 /\ 0 .. size - size - 1 = {}
    BY <1>0
  <2>3. Gone(0, size)
    BY <1>2, <2>2 DEF EraseAll, Gone
  <2> QED  BY <2>2, <2>3
<1>3. CASE EraseStart(offset, len)
  <2>1. len \in 1 .. size - 1 /\ start' = (start + len) % Capacity /\ size' = size - len /\ mem' = mem
    BY <1>0, <1>3 DEF EraseStart, Mishandled
  <2>2. start' = Place(start, len)
    <3>1. start \in Cells /\ len \in 0 .. Capacity
      BY <1>0, <2>1 DEF Cells
    <3> QED  BY <2>1, <3>1, PlaceIs
  <2>3. ASSUME NEW k \in 0 .. size - len - 1
        PROVE  Place(start', k) = Place(start, k + len) /\ ~(k < 0)
    BY <1>0, <2>1, <2>2 DEF Place
  <2>4. Gone(0, len)
    BY <2>1, <2>3 DEF Gone
  <2>5. 0 \in 0 .. size /\ len \in 0 .. size - 0
    BY <1>0, <2>1
  <2> QED  BY <2>4, <2>5
<1>4. CASE EraseEnd(offset, len)
  <2>1. len = size - offset /\ size' = size - len /\ mem' = mem /\ start' = start
    BY <1>4 DEF EraseEnd
  <2>2. \A k \in 0 .. size - len - 1 : k < offset
    BY <1>0, <2>1
  <2>3. Gone(offset, len)
    BY <2>1, <2>2 DEF Gone
  <2>4. len \in 0 .. size - offset
    BY <1>0, <2>1
  <2> QED  BY <2>3, <2>4
<1>5. ASSUME Middle(offset, len)  PROVE N(offset, len) \in 0 .. size - offset
  BY <1>5, MiddleFacts
<1>6. CASE EraseFlat(offset, len)
  BY <1>5, <1>6, FlatGone DEF EraseFlat
<1>7. CASE EraseOnePass(offset, len)
  BY <1>5, <1>7, OnePassGone DEF EraseOnePass
<1>8. CASE EraseBeginningFits(offset, len)
  BY <1>5, <1>8, BeginningFitsGone DEF EraseBeginningFits, EraseAcross
<1>9. CASE EraseRemainingFits(offset, len)
  BY <1>5, <1>9, RemainingFitsGone DEF EraseRemainingFits, EraseAcross
<1>10. CASE EraseSplitBeginning(offset, len)
  BY <1>5, <1>10, SplitBeginningGone DEF EraseSplitBeginning, EraseAcross
<1>11. CASE EraseSplitRemaining(offset, len)
  BY <1>5, <1>11, SplitRemainingGone DEF EraseSplitRemaining, EraseAcross
<1> QED
  BY <1>1, <1>2, <1>3, <1>4, <1>6, <1>7, <1>8, <1>9, <1>10, <1>11 DEF Erase

-----------------------------------------------------------------------------
(* What write does to the contents: buf is appended, and what there is no  *)
(* room for goes from the front.                                           *)

\* How many bytes go when b is written.
Overflow(b) == IF size + Len(b) > Capacity THEN size + Len(b) - Capacity ELSE 0

LEMMA OverflowIs ==
    ASSUME TypeOK, NEW buf \in Writes
    PROVE  /\ Capacity \in Nat \ {0} /\ start \in 0 .. Capacity - 1 /\ size \in 0 .. Capacity
           /\ Len(buf) \in Nat /\ buf \in Seq(Bytes) /\ DOMAIN buf = 1 .. Len(buf)
           /\ Overflow(buf) \in Nat
           /\ size + Len(buf) - Overflow(buf) \in 0 .. Capacity
           /\ Overflow(buf) > 0 => size + Len(buf) - Overflow(buf) = Capacity
<1>1. Capacity \in Nat \ {0} /\ start \in 0 .. Capacity - 1 /\ size \in 0 .. Capacity
  BY CapacityAssumption DEF TypeOK, Cells
<1>2. Len(buf) \in Nat /\ buf \in Seq(Bytes) /\ DOMAIN buf = 1 .. Len(buf)
  BY WritesAssumption, LenProperties
<1> QED  BY <1>1, <1>2 DEF Overflow

\* The start and the size a write leaves.
LEMMA WriteShifts ==
    ASSUME TypeOK, NEW buf \in Writes, Write(buf)
    PROVE  /\ size' = size + Len(buf) - Overflow(buf)
           /\ start' = (start + Overflow(buf)) % Capacity
<1>0. Capacity \in Nat \ {0} /\ start \in 0 .. Capacity - 1 /\ size \in 0 .. Capacity
      /\ Len(buf) \in Nat
  BY OverflowIs
<1>1. CASE size + Len(buf) > Capacity
  BY <1>0, <1>1 DEF Write, Overflow
<1>2. CASE ~(size + Len(buf) > Capacity)
  <2>1. start' = start /\ size' = size + Len(buf) /\ Overflow(buf) = 0
    BY <1>0, <1>2 DEF Write, Overflow
  <2>2. (start + 0) % Capacity = start
    BY <1>0, ModOnce
  <2> QED  BY <1>0, <2>1, <2>2
<1> QED  BY <1>1, <1>2

\* The cell of byte j of the contents and buf together is one place only.
LEMMA SamePlace ==
    ASSUME NEW a \in Int, NEW i \in Int, NEW j \in Int,
           i - j \in 1 - Capacity .. Capacity - 1, (a + i) % Capacity = (a + j) % Capacity
    PROVE  i = j
<1>0. Capacity \in Nat \ {0}
  BY CapacityAssumption
<1>1. CASE i > j
  <2>1. i - j \in 1 .. Capacity - 1 /\ a + i = (a + j) + (i - j) /\ a + j \in Int
    BY <1>0, <1>1
  <2>2. ((a + j) + (i - j)) % Capacity # (a + j) % Capacity
    BY <1>0, <2>1, ModApart
  <2> QED  BY <2>1, <2>2
<1>2. CASE j > i
  <2>1. j - i \in 1 .. Capacity - 1 /\ a + j = (a + i) + (j - i) /\ a + i \in Int
    BY <1>0, <1>2
  <2>2. ((a + i) + (j - i)) % Capacity # (a + i) % Capacity
    BY <1>0, <2>1, ModApart
  <2> QED  BY <2>1, <2>2
<1> QED  BY <1>1, <1>2

LEMMA WriteLeaves ==
    ASSUME TypeOK, NEW buf \in Writes, Write(buf), NEW j \in Nat,
           j > Overflow(buf), j <= size + Len(buf)
    PROVE  mem'[(start + j - 1) % Capacity] = IF j <= size THEN Contents[j] ELSE buf[j - size]
<1> DEFINE cell == (start + j - 1) % Capacity
           a    == start - 1
           d    == Overflow(buf)
<1>0. /\ Capacity \in Nat \ {0} /\ start \in 0 .. Capacity - 1 /\ size \in 0 .. Capacity
      /\ Len(buf) \in Nat /\ buf \in Seq(Bytes) /\ DOMAIN buf = 1 .. Len(buf)
      /\ d \in Nat /\ size + Len(buf) - d \in 0 .. Capacity
      /\ d > 0 => size + Len(buf) - d = Capacity
  BY OverflowIs
<1>1. a \in Int /\ cell = (a + j) % Capacity
  <2>1. start + j - 1 = start - 1 + j
    BY <1>0
  <2> QED  BY <1>0, <2>1
<1>2. cell \in Cells
  <2>1. a + j \in Int
    BY <1>1
  <2>2. (a + j) % Capacity \in 0 .. Capacity - 1
    <3> HIDE DEF a
    <3> QED  BY <1>0, <2>1, ModRange
  <2> HIDE DEF cell
  <2> QED  BY <1>1, <2>2 DEF Cells
<1>3. mem'[cell] = IF LastPass(buf, cell) = {} THEN mem[cell]
                   ELSE buf[CHOOSE k \in LastPass(buf, cell) : TRUE]
  <2> HIDE DEF cell
  <2> QED  BY <1>2 DEF Write
<1>4. ASSUME NEW k \in 1 .. Len(buf)
      PROVE  (start + size + k - 1) % Capacity = (a + (size + k)) % Capacity
  <2>1. start + size + k - 1 = start - 1 + (size + k)
    BY <1>0
  <2> QED  BY <2>1
<1>5. ASSUME NEW k \in LastPass(buf, cell)
      PROVE  k \in 1 .. Len(buf) /\ k > Len(buf) - Capacity /\ size + k = j
  <2>1. k \in 1 .. Len(buf) /\ k > Len(buf) - Capacity
        /\ (start + size + k - 1) % Capacity = cell
    BY <1>0, <1>5 DEF LastPass
  <2>2. (a + (size + k)) % Capacity = (a + j) % Capacity
    BY <1>1, <1>4, <2>1
  <2>3. (size + k) - j \in 1 - Capacity .. Capacity - 1 /\ size + k \in Int
    BY <1>0, <2>1
  <2>4. size + k = j
    <3> DEFINE i == size + k
    <3>1. i \in Int /\ j \in Int /\ i - j \in 1 - Capacity .. Capacity - 1
          /\ (a + i) % Capacity = (a + j) % Capacity
      BY <2>2, <2>3
    <3> HIDE DEF a, i
    <3>2. i = j
      BY <1>1, <3>1, SamePlace
    <3> QED  BY <3>2 DEF i
  <2> QED  BY <2>1, <2>4
<1> HIDE DEF cell, a, d
<1>6. CASE j <= size
  <2>1. LastPass(buf, cell) = {}
    BY <1>0, <1>5, <1>6
  <2>2. Contents[j] = mem[cell]
    BY <1>0, <1>6 DEF Contents, cell, d
  <2> QED  BY <1>3, <1>6, <2>1, <2>2 DEF cell
<1>7. CASE ~(j <= size)
  <2> DEFINE k == j - size
  <2>1. k \in 1 .. Len(buf) /\ size + k = j /\ k > Len(buf) - Capacity
    BY <1>0, <1>7 DEF d
  <2>2. k \in LastPass(buf, cell)
    <3>1. (start + size + k - 1) % Capacity = cell
      BY <1>1, <1>4, <2>1
    <3> HIDE DEF k
    <3> QED  BY <1>0, <2>1, <3>1 DEF LastPass
  <2>3. \A i \in LastPass(buf, cell) : i = k
    BY <1>0, <1>5, <2>1
  <2>4. (CHOOSE i \in LastPass(buf, cell) : TRUE) = k
    <3> HIDE DEF k
    <3> QED  BY <2>2, <2>3
  <2> QED  BY <1>3, <1>7, <2>2, <2>4 DEF cell
<1> QED  BY <1>6, <1>7 DEF cell

LEMMA WriteAppends ==
    ASSUME TypeOK, TypeOK', NEW buf \in Writes, Write(buf)
    PROVE  LET all == Contents \o buf
           IN  Contents' = IF Len(all) > Capacity
                           THEN SubSeq(all, Len(all) - Capacity + 1, Len(all)) ELSE all
<1> DEFINE all   == Contents \o buf
           d     == Overflow(buf)
           total == size + Len(buf)
<1>0. /\ Capacity \in Nat \ {0} /\ start \in 0 .. Capacity - 1 /\ size \in 0 .. Capacity
      /\ Len(buf) \in Nat /\ buf \in Seq(Bytes)
      /\ d \in Nat /\ total - d \in 0 .. Capacity
      /\ d > 0 => total - d = Capacity
  BY OverflowIs
<1>1. size' = total - d /\ start' = (start + d) % Capacity
  <2>1. size' = size + Len(buf) - Overflow(buf) /\ start' = (start + Overflow(buf)) % Capacity
    BY WriteShifts
  <2> QED  BY <1>0, <2>1
<1>2. Contents \in Seq(Bytes) /\ Len(Contents) = size
  BY ContentsAre
<1>3. /\ all \in Seq(Bytes) /\ Len(all) = total
      /\ \A j \in 1 .. total : all[j] = IF j <= size THEN Contents[j] ELSE buf[j - size]
  <2>1. /\ all \in Seq(Bytes) /\ Len(all) = Len(Contents) + Len(buf)
        /\ \A j \in 1 .. Len(Contents) + Len(buf) :
              all[j] = IF j <= Len(Contents) THEN Contents[j] ELSE buf[j - Len(Contents)]
    BY <1>0, <1>2, ConcatProperties
  <2> HIDE DEF all
  <2> QED  BY <1>2, <2>1
<1>4. Contents' = Held(mem', start', size') /\ Contents' \in Seq(Bytes) /\ Len(Contents') = total - d
  <2>1. Contents' = Held(mem', start', size')
    BY DEF Contents, Held
  <2> HIDE DEF d, total
  <2> QED  BY <1>1, <2>1, HeldIs DEF TypeOK
<1>5. ASSUME NEW k \in 1 .. total - d
      PROVE  Contents'[k] = all[d + k]
  <2>1. Contents'[k] = mem'[(start' + k - 1) % Capacity]
    <3> HIDE DEF d, total
    <3> QED  BY <1>1, <1>5 DEF Contents
  <2>2. (start' + k - 1) % Capacity = (start + (d + k) - 1) % Capacity
    <3>1. start + d \in Int /\ k - 1 \in Int /\ (start + d) + (k - 1) = start + (d + k) - 1
      BY <1>0
    <3>2. (((start + d) % Capacity) + (k - 1)) % Capacity = ((start + d) + (k - 1)) % Capacity
      <4> HIDE DEF d, total
      <4> QED  BY <1>0, <3>1, ModShift
    <3>3. start' \in Int /\ start' + k - 1 = start' + (k - 1)
      BY <1>0 DEF TypeOK, Cells
    <3> HIDE DEF d, total
    <3> QED  BY <1>1, <3>1, <3>2, <3>3
  <2>3. d + k \in Nat /\ d + k > d /\ d + k <= total /\ d + k \in 1 .. total
    <3> HIDE DEF d, total
    <3>1. total \in Int
      BY <1>0 DEF total
    <3> QED  BY <1>0, <3>1
  <2>4. mem'[(start + (d + k) - 1) % Capacity] =
           IF d + k <= size THEN Contents[d + k] ELSE buf[(d + k) - size]
    <3> DEFINE j == d + k
    <3>1. j \in Nat /\ j > Overflow(buf) /\ j <= size + Len(buf)
      BY <2>3
    <3> HIDE DEF j
    <3>2. mem'[(start + j - 1) % Capacity] = IF j <= size THEN Contents[j] ELSE buf[j - size]
      BY <3>1, WriteLeaves
    <3> QED  BY <3>2 DEF j
  <2> HIDE DEF d, total, all
  <2> QED  BY <1>3, <2>1, <2>2, <2>3, <2>4
<1> HIDE DEF all, d
<1>6. CASE total > Capacity
  <2> DEFINE m    == total - Capacity + 1
             newest == SubSeq(all, m, total)
  <2>1. d = total - Capacity
    BY <1>0, <1>6 DEF d, Overflow
  <2>2. \A i \in m .. total : all[i] \in Bytes
    <3>1. \A i \in m .. total : i \in 1 .. Len(all)
      BY <1>0, <1>3, <1>6
    <3> HIDE DEF m, total
    <3> QED  BY <1>3, <3>1, ElementOfSeq
  <2>3. /\ newest \in Seq(Bytes) /\ Len(newest) = IF m <= total THEN total - m + 1 ELSE 0
        /\ \A k \in 1 .. total - m + 1 : newest[k] = all[m + k - 1]
    <3>1. m \in Int /\ total \in Int
      BY <1>0
    <3> HIDE DEF m, total
    <3> QED  BY <2>2, <3>1, SubSeqProperties
  <2> HIDE DEF newest
  <2>4. Len(newest) = total - d
    BY <1>0, <2>1, <2>3
  <2>5. ASSUME NEW k \in 1 .. total - d
        PROVE  newest[k] = Contents'[k]
    <3>1. k \in 1 .. total - m + 1 /\ m + k - 1 = d + k
      BY <1>0, <2>1
    <3> HIDE DEF m, total
    <3> QED  BY <1>5, <2>3, <3>1
  <2>6. newest = Contents'
    <3> DEFINE s == Contents'
    <3>1. s \in Seq(Bytes) /\ Len(s) = Len(newest) /\ \A k \in 1 .. Len(s) : s[k] = newest[k]
      BY <1>4, <2>4, <2>5
    <3> HIDE DEF s, total, m
    <3>2. s = newest
      BY <2>3, <3>1, SeqEqual
    <3> QED  BY <3>2 DEF s
  <2> QED  BY <1>3, <1>6, <2>6 DEF all, newest
<1>7. CASE ~(total > Capacity)
  <2>1. d = 0
    BY <1>0, <1>7 DEF d, Overflow
  <2>2. ASSUME NEW k \in 1 .. total  PROVE Contents'[k] = all[k]
    <3>1. k \in 1 .. total - d /\ d + k = k
      BY <1>0, <2>1
    <3> QED  BY <1>5, <3>1
  <2>3. Contents' = all
    <3> DEFINE s == Contents'
    <3>1. s \in Seq(Bytes) /\ Len(s) = Len(all) /\ \A k \in 1 .. Len(s) : s[k] = all[k]
      BY <1>0, <1>3, <1>4, <2>1, <2>2
    <3> HIDE DEF s
    <3>2. s = all
      BY <1>3, <3>1, SeqEqual
    <3> QED  BY <3>2 DEF s
  <2> QED  BY <1>3, <1>7, <2>3 DEF all
<1> QED  BY <1>6, <1>7

-----------------------------------------------------------------------------
(* The refinement.                                                         *)

LEMMA WindowInit == Init => Window!Init
<1> SUFFICES ASSUME Init  PROVE Contents = << >>
  BY DEF Window!Init
<1>1. TypeOK /\ size = 0
  BY InitType DEF Init
<1> QED  BY <1>1, ContentsAre, EmptySeq

\* A read or an erasure of careful clients removes a range, a write is the window's.
LEMMA WindowStep ==
    ASSUME Careful, TypeOK, [Next]_vars
    PROVE  [Window!Next]_Contents
<1>1. TypeOK'
  BY TypeStep
<1>2. Len(Contents) = size /\ size \in Nat
  BY ContentsAre, CapacityAssumption DEF TypeOK
<1>3. Offsets \subseteq 0 .. size /\ Lengths \subseteq Nat
  BY CapacityAssumption DEF TypeOK, Offsets, Lengths, Lesser
<1>4. ASSUME NEW offset \in 0 .. size, NEW len \in Nat,
             ~Mishandled(offset, len), Erase(offset, len)
      PROVE  Window!Next
  <2>1. PICK o \in 0 .. size : \E n \in 0 .. size - o :
           Contents' = SubSeq(Contents, 1, o) \o SubSeq(Contents, o + n + 1, size)
    BY <1>1, <1>4, EraseRemoves
  <2>2. PICK n \in 0 .. size - o :
           Contents' = SubSeq(Contents, 1, o) \o SubSeq(Contents, o + n + 1, size)
    BY <2>1
  <2>3. Window!Remove(o, n)
    BY <1>2, <2>2 DEF Window!Remove
  <2> QED  BY <1>2, <2>3 DEF Window!Next
<1>5. ASSUME NEW b \in Writes, WriteCall(b)  PROVE Window!Next
  <2>1. Write(b)
    BY <1>5 DEF WriteCall
  <2>2. Window!Write(b)
    BY <1>1, <2>1, WriteAppends DEF Window!Write, Window!Newest
  <2> QED  BY <2>2 DEF Window!Next
<1>6. CASE ReadCall
  <2>1. PICK o \in Offsets, n \in Lengths :
           ~Mishandled(o, Len(Peek(o, n))) /\ Erase(o, Len(Peek(o, n)))
    BY <1>6 DEF ReadCall, Read
  <2>2. o \in 0 .. size /\ Len(Peek(o, n)) \in Nat
    BY <1>3, <2>1, PeekLength
  <2> QED  BY <1>4, <2>1, <2>2
<1>7. CASE EraseCall
  <2>1. PICK o \in Offsets, n \in Lengths : ~Mishandled(o, n) /\ Erase(o, n)
    BY <1>7 DEF EraseCall
  <2> QED  BY <1>3, <1>4, <2>1
<1>8. CASE UNCHANGED vars
  BY <1>8 DEF vars, Contents
<1> QED  BY <1>5, <1>6, <1>7, <1>8 DEF Next

\* peek returns the contents from the offset on, wherever they wrap.
THEOREM PeekReadsContents ==
    ASSUME Careful
    PROVE  Spec => []PeekIsExact
<1>1. Spec => []TypeOK
  BY StaysInBounds
<1>2. TypeOK => PeekIsExact
  BY PeekExact
<1> QED  BY <1>1, <1>2, PTL

\* find reports the first match, and none only where there is none before the
\* very end of the contents.
THEOREM FindReportsFirst ==
    ASSUME Careful
    PROVE  Spec => []FindIsFirst
<1>1. Spec => []TypeOK
  BY StaysInBounds
<1>2. TypeOK => FindIsFirst
  BY FindFirst
<1> QED  BY <1>1, <1>2, PTL

\* For careful clients a circular_buffer is a window on the bytes written, of
\* any capacity: nothing is reordered, duplicated or lost out of turn.
THEOREM Implementation ==
    ASSUME Careful
    PROVE  Spec => ImplementsByteWindow
<1>1. Init => Window!Init
  BY WindowInit
<1>2. TypeOK /\ [Next]_vars => [Window!Next]_Contents
  BY WindowStep
<1>3. Spec => []TypeOK
  BY StaysInBounds
<1> QED  BY <1>1, <1>2, <1>3, PTL DEF Spec, ImplementsByteWindow, Window!Spec
=============================================================================
