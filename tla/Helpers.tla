------------------------------- MODULE Helpers -------------------------------
(***************************************************************************)
(* The pure functions of string.cpp, base64.cpp and _math.cpp that promise *)
(* something of their result (memtrim, decoded_length and num_digits are   *)
(* left out).  A string is the sequence of its characters before the       *)
(* terminator; a byte is a number, and an int has 32 bits.                 *)
(***************************************************************************)
EXTENDS Integers, SequencesExt

IsWhitespace(c) == c \in {" ", "LF", "CR", "EOF"}

-----------------------------------------------------------------------------
(* string.cpp                                                              *)

\* The string in an array: what is before the first zero.
Text(array) ==
    LET zero == SelectInSeq(array, LAMBDA c : c = "0")
    IN IF zero = 0 THEN array ELSE SubSeq(array, 1, zero - 1)

\* The array once its end is trimmed, and the length then; of nothing but white
\* space the length is not changed.
EndTrimmed(s) ==
    LET end == SelectLastInSeq(s, LAMBDA c : ~IsWhitespace(c))
    IN [array |-> [i \in DOMAIN s |-> IF i <= end THEN s[i] ELSE "0"],
        length |-> IF end = 0 THEN Len(s) ELSE end]

\* Mutant of MovedDown: the characters moved down leave their copies behind.
MovedDownCopies(t, k) ==
    Text([j \in 1 .. t.length |-> IF j + k <= t.length THEN t.array[j + k] ELSE t.array[j]])

\* The text moves down over k characters, and zeros follow it.
MovedDown(t, k) ==
    Text([j \in 1 .. t.length |-> IF j + k <= t.length THEN t.array[j + k] ELSE "0"])

\* The k are the white space before the text.
TrimInplace(s) ==
    CHOOSE r \in {MovedDown(t, SelectInSeq(t.array, LAMBDA c : ~IsWhitespace(c)) - 1)
                    : t \in {EndTrimmed(s)}} : TRUE

\* trim works on a copy.
Trim(s) == TrimInplace(s)

\* split: a word begins at a character that follows a marker, and grows by one
\* character at a time.
Split(s, c) ==
    LET take(a, x) ==
            IF x = c THEN [a EXCEPT !.marker = TRUE]
            ELSE [marker |-> FALSE,
                  words |-> IF a.marker THEN Append(a.words, <<x>>)
                            ELSE [a.words EXCEPT ![Len(a.words)] = Append(@, x)]]
    IN FoldLeft(take, [marker |-> TRUE, words |-> << >>], s).words

-----------------------------------------------------------------------------
(* base64.cpp: a digit is a number below 64, or "=".                       *)

EncodeBlock(in, len) ==
    LET b == [i \in 1 .. 3 |-> IF i <= len THEN in[i] ELSE 0]
    IN <<b[1] \div 4,
         (b[1] % 4) * 16 + (b[2] \div 16),
         IF len > 2 THEN (b[2] % 16) * 4 + (b[3] \div 64) ELSE IF len > 1 THEN (b[2] % 16) * 4 ELSE 64,
         IF len > 2 THEN b[3] % 64 ELSE 64>>

EncodedLength(n) == ((n + 2 - ((n + 2) % 3)) \div 3) * 4

\* Three bytes at a time; the last piece may be shorter.
Pieces3(s) == [b \in 1 .. (Len(s) + 2) \div 3 |->
                    SubSeq(s, 3 * b - 2, IF 3 * b <= Len(s) THEN 3 * b ELSE Len(s))]

Encode(s) ==
    LET encoded(piece) == EncodeBlock(piece, Len(piece))
    IN FlattenSeq([b \in DOMAIN Pieces3(s) |-> encoded(Pieces3(s)[b])])

\* The padding, which is 64 here, counts as 0.
DecodeValue(d) == IF d = 64 THEN 0 ELSE d

\* Bits that leave a byte are lost.
DecodeBlock(in) ==
    LET d == [i \in 1 .. 4 |-> DecodeValue(in[i])]
    IN <<(d[1] * 4 + ((d[2] \div 16) % 4)) % 256,
         (d[2] % 16) * 16 + ((d[3] \div 4) % 16),
         (d[3] % 4) * 64 + d[4]>>

Decode(s) == FlattenSeq([b \in 1 .. Len(s) \div 4 |-> DecodeBlock(SubSeq(s, 4 * b - 3, 4 * b))])

-----------------------------------------------------------------------------
(* _math.cpp                                                               *)

\* b[0] the most significant; >> keeps the sign and & 0xFF drops it.
IntToBytes(i) == [j \in 1 .. 4 |-> (i \div (256 ^ (4 - j))) % 256]

\* The first byte shifted to the top is the sign's.
BytesToInt(b) ==
    (IF b[1] < 128 THEN b[1] ELSE b[1] - 256) * 256 ^ 3 + b[2] * 256 ^ 2 + b[3] * 256 + b[4]
-----------------------------------------------------------------------------
\* Of a text, trim removes the white space around it and nothing else.
TrimExact(s) == \A t \in {Trim(s)} :
    /\ \E i \in 0 .. Len(s) - Len(t) :
        /\ t = SubSeq(s, i + 1, i + Len(t))
        /\ \A j \in (1 .. i) \union (i + Len(t) + 1 .. Len(s)) : IsWhitespace(s[j])
    /\ t # << >> => ~IsWhitespace(Head(t)) /\ ~IsWhitespace(Last(t))

\* split gives the runs between the markers, and none that is empty.
SplitExact(s) == \A words \in {Split(s, " ")} :
    /\ FlattenSeq(words) = SelectSeq(s, LAMBDA c : c # " ")
    /\ Len(words) = Cardinality({i \in DOMAIN s : s[i] # " " /\ (i = 1 \/ s[i - 1] = " ")})
    /\ << >> \notin Range(words)

\* What trim and split promise of one text.
TextExact(s) == TrimExact(s) /\ SplitExact(s)

\* What is encoded has the length foretold and decodes to the same bytes, filled
\* with zeros to a multiple of three.
Base64Exact(s) == \A e \in {Encode(s)} :
    /\ Len(e) = EncodedLength(Len(s))
    /\ Decode(e) = s \o [i \in 1 .. (0 - Len(s)) % 3 |-> 0]

IntExact(i) == BytesToInt(IntToBytes(i)) = i
=============================================================================
