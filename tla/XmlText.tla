------------------------------- MODULE XmlText -------------------------------
(***************************************************************************)
(* Text on its way out and in: EncodeString writes entities, ReadText      *)
(* reads them back, LoadFile normalises line ends, character references    *)
(* become UTF-8, and Stamp keeps row and column for the reports.  Texts    *)
(* are sequences of characters, and a character is a string; an entity     *)
(* that EncodeString writes is one too, since ReadText takes it at one go. *)
(* Stamp alone goes over bytes, where characters may be cut off.           *)
(***************************************************************************)
EXTENDS Integers, FiniteSets, SequencesExt

\* The five with an entity, two below 32, and what "&#x" is made of.
Special == {"&", "<", ">", "\"", "'"}
Control == {"LF", "CR"}
Plain   == {"#", "x", ";", " "}
Chars   == Special \union Control \union Plain

Entity(c) == "&" \o c \o ";"
Entities  == {Entity(c) : c \in Special \union Control}

-----------------------------------------------------------------------------
IsReference(s, i) ==
    i < Len(s) - 1 /\ SubSeq(s, i, i + 2) = <<"&", "#", "x">>

\* Where the loop that passes a reference through stops: at its semicolon, or
\* at the last character of the string.
PassedTo(s, i) ==
    LET ends == {j \in i + 1 .. Len(s) : s[j] = ";" \/ j = Len(s)}
    IN CHOOSE j \in ends : \A k \in ends : j <= k

\* Mutant of EncodeString: the quote inside a value is left.
EncodeStringUnquoted(s) ==
    LET f[i \in 1 .. Len(s) + 1] ==
            IF i > Len(s) THEN << >>
            ELSE IF IsReference(s, i) THEN SubSeq(s, i, PassedTo(s, i) - 1) \o f[PassedTo(s, i)]
            ELSE <<IF s[i] \in (Special \ {"<"}) \union Control THEN Entity(s[i]) ELSE s[i]>> \o f[i + 1]
    IN f[1]

EncodeString(s) ==
    LET f[i \in 1 .. Len(s) + 1] ==
            IF i > Len(s) THEN << >>
            ELSE IF IsReference(s, i) THEN SubSeq(s, i, PassedTo(s, i) - 1) \o f[PassedTo(s, i)]
            ELSE <<IF s[i] \in Special \union Control THEN Entity(s[i]) ELSE s[i]>> \o f[i + 1]
    IN f[1]

\* GetEntity at an '&' that begins no entity drops it.
Decoded(c) == IF c \in Entities THEN <<CHOOSE d \in Chars : Entity(d) = c>>
              ELSE IF c = "&" THEN << >> ELSE <<c>>

White(c) == c \in {" ", "LF", "CR"}

\* The loop over the digits of a reference, backwards from the semicolon; the
\* text ends at one that is no digit.  (The code's mult has 32 bits and wraps
\* behind eight hexadecimal or ten decimal digits; here there are fewer.)
CharacterReference(digits, base) ==
    LET take(d, a) ==
            IF a.ucs = -1 \/ d >= base THEN [a EXCEPT !.ucs = -1]
            ELSE [ucs |-> a.ucs + a.mult * d, mult |-> a.mult * base]
    IN FoldRight(take, digits, [ucs |-> 0, mult |-> 1]).ucs

\* ReadText up to a character that ends it; white space kept, or condensed: none
\* before the first character and after the last, one blank between.
ReadText_(s, end, condense) ==
    LET stop == SelectInSeq(s, LAMBDA c : c = end)
        t == IF stop = 0 THEN s ELSE SubSeq(s, 1, stop - 1)
        take(a, c) ==
            IF White(c) /\ condense THEN [a EXCEPT !.white = TRUE]
            ELSE [out |-> a.out \o (IF a.white /\ a.any THEN <<" ">> ELSE << >>) \o Decoded(c),
                  white |-> FALSE, any |-> TRUE]
    IN FoldLeft(take, [out |-> << >>, white |-> FALSE, any |-> FALSE], t).out

\* LoadFile: p reads, q writes; CR LF and CR become LF.
NormalizeEol(s) ==
    LET f[i \in 1 .. Len(s) + 2] ==
            IF i > Len(s) THEN << >>
            ELSE IF s[i] # "CR" THEN <<s[i]>> \o f[i + 1]
            ELSE <<"LF">> \o f[IF i < Len(s) /\ s[i + 1] = "LF" THEN i + 2 ELSE i + 1]
    IN f[1]

-----------------------------------------------------------------------------
\* ConvertUTF32ToUTF8.
Utf8Length(u) == IF u < 128 THEN 1 ELSE IF u < 2048 THEN 2 ELSE IF u < 65536 THEN 3
                 ELSE IF u < 2097152 THEN 4 ELSE 0

FirstByteMark == <<0, 192, 224, 240>>

Utf8(u) ==
    LET n == Utf8Length(u)
    IN [i \in 1 .. n |->
            IF i = 1 THEN (u \div (64 ^ (n - 1))) + FirstByteMark[n]
            ELSE 128 + ((u \div (64 ^ (n - i))) % 64)]

\* utf8ByteTable: the bytes of a character, by its first.
ByteTable(b) == IF b < 194 THEN 1 ELSE IF b < 224 THEN 2 ELSE IF b < 240 THEN 3
                ELSE IF b < 245 THEN 4 ELSE 1

\* The bytes Stamp tells apart, and the two that follow 0xEF where no column does.
LF        == 10
CR        == 13
TAB       == 9
Lead      == 239
ZeroWidth == {<<187, 191>>, <<191, 190>>, <<191, 191>>}

\* A break of two different bytes is one.
Breaks == {LF, CR}

\* The cursor when p no longer moves: the loop of Stamp goes on for ever.
Endless == [p |-> -1, row |-> -1, col |-> -1]

\* Stamp in the text of the bytes s: row and column move on, from where they are,
\* to the first place not before now, which is in the text or at its end.
Stamp(tabsize, utf8, cursor, s, now) ==
    LET at(i)   == IF i < Len(s) THEN s[i + 1] ELSE 0
        next(i) == <<at(i + 1), at(i + 2)>>
        from[i \in 0 .. Len(s) + 3, row \in 0 .. Len(s), col \in 0 .. tabsize * Len(s)] ==
            IF i >= now THEN [p |-> i, row |-> row, col |-> col]
            ELSE CASE at(i) = 0 -> cursor
                   [] at(i) \in Breaks ->
                        from[IF at(i + 1) \in Breaks \ {at(i)} THEN i + 2 ELSE i + 1, row + 1, 0]
                   [] at(i) = TAB -> from[i + 1, row, ((col \div tabsize) + 1) * tabsize]
                   [] at(i) = Lead /\ utf8 /\ 0 \in Range(next(i)) -> Endless
                   [] at(i) = Lead /\ utf8 /\ 0 \notin Range(next(i)) ->
                        from[i + 3, row, IF next(i) \in ZeroWidth THEN col ELSE col + 1]
                   [] OTHER -> from[IF utf8 THEN i + ByteTable(at(i)) ELSE i + 1, row, col + 1]
    IN IF tabsize < 1 THEN cursor ELSE from[cursor.p, cursor.row, cursor.col]

-----------------------------------------------------------------------------
\* Blanks at the ends gone, one left of those in a row.
Condensed(s) ==
    LET kept == SelectSeq([i \in DOMAIN s |-> i],
                          LAMBDA i : \/ s[i] # " "
                                     \/ /\ i > 1 /\ s[i - 1] # " "
                                        /\ \E j \in i .. Len(s) : s[j] # " ")
    IN [i \in DOMAIN kept |-> s[kept[i]]]

\* A text without "&#x" is read back as it was written: between quotes as it is,
\* between tags with its blanks condensed.  (One with "&#x" is not escaped up to
\* the next semicolon, markup in it included.)
Escaped(s) ==
    (\A i \in DOMAIN s : ~IsReference(s, i)) =>
        /\ ReadText_(EncodeString(s), "\"", FALSE) = s
        /\ ReadText_(EncodeString(s), "<", TRUE) = Condensed(s)

\* After LoadFile no CR is left, and as many lines as before.
Normalized(s) ==
    LET n == NormalizeEol(s)
        breaks == {i \in DOMAIN s : s[i] = "CR" \/ (s[i] = "LF" /\ (i = 1 \/ s[i - 1] # "CR"))}
    IN "CR" \notin Range(n)
       /\ SelectSeq(n, LAMBDA c : c # "LF") = SelectSeq(s, LAMBDA c : c \notin {"LF", "CR"})
       /\ Len(SelectSeq(n, LAMBDA c : c = "LF")) = Cardinality(breaks)

\* A reference is the number its digits write, if they are digits.
Referenced(digits, base) ==
    CharacterReference(digits, base) =
        IF \E i \in DOMAIN digits : digits[i] >= base THEN -1
        ELSE FoldLeft(LAMBDA a, d : a * base + d, 0, digits)

\* A character is whole if it has the bytes its first one announces.
Whole(c) == c # << >> /\ Len(c) = ByteTable(c[1]) /\ \A i \in 2 .. Len(c) : c[i] \in 128 .. 191

\* Row and column at the end of a text of these characters: a row for each break,
\* and a column for each character since; a tab goes to the next stop.
EndsAt(tabsize, chars, end) ==
    LET pairs == {i \in 1 .. Len(chars) - 1 : {chars[i], chars[i + 1]} = {<<LF>>, <<CR>>}}
        last  == {i \in DOMAIN chars : chars[i] \in {<<LF>>, <<CR>>}}
        line  == SelectSeq(SubSeq(chars, (IF last = {} THEN 0 ELSE Max(last)) + 1, Len(chars)),
                           LAMBDA c : c \notin {<<Lead>> \o z : z \in ZeroWidth})
    IN /\ end.row \in Cardinality(last) - Cardinality(pairs) .. Cardinality(last)
       /\ pairs = {} => end.row = Cardinality(last)
       /\ (\E i \in pairs : pairs = {i}) => end.row = Cardinality(last) - 1
       /\ <<TAB>> \notin Range(line) => end.col = Len(line)
       /\ line # << >> /\ Last(line) = <<TAB>> => end.col % tabsize = 0 /\ end.col >= Len(line)

\* Stamp ends, and counts the rows and columns of a text right, if the text is one
\* of whole characters, or is not read as UTF-8.  It does not end when, in UTF-8,
\* it comes behind whole characters to a byte 0xEF with fewer than two bytes behind
\* it, and for no other text than one with that byte in its last two places.  It
\* passes the end of a text it ends in by three bytes at most; and where the parser
\* stamps on its way makes no difference.  With a tab size of 0 it does nothing.
Located(chars) ==
    LET s == FlattenSeq(chars)
        start == [p |-> 0, row |-> 0, col |-> 0]
        broken == {i \in DOMAIN chars : ~Whole(chars[i])}
        first  == Len(FlattenSeq(SubSeq(chars, 1, Min(broken) - 1)))
    IN \A tabsize \in {0, 4}, utf8 \in BOOLEAN :
        LET to(i) == Stamp(tabsize, utf8, start, s, i)
            end == to(Len(s))
        IN /\ tabsize = 0 => end = start
           /\ end = Endless => utf8 /\ \E i \in {Len(s) - 1, Len(s)} \cap DOMAIN s : s[i] = Lead
           /\ tabsize > 0 /\ utf8 /\ broken # {} /\ s[first + 1] = Lead /\ first + 3 > Len(s)
                => end = Endless
           /\ tabsize > 0 /\ end # Endless => end.p \in Len(s) .. Len(s) + 3
           /\ tabsize > 0 /\ utf8 /\ broken = {} => EndsAt(tabsize, chars, end)
           /\ tabsize > 0 /\ ~utf8 => EndsAt(tabsize, [i \in DOMAIN s |-> <<s[i]>>], end)
           /\ \A i \in 0 .. Len(s) :
                 IF to(i) = Endless THEN end = Endless
                 ELSE Stamp(tabsize, utf8, to(i), s, Len(s)) = end

\* The first byte of a character the parser makes tells how many it has, for all
\* code points (above them the table says 1 where there are 4).
Framed(u) == u <= 1114111 => ByteTable(Utf8(u)[1]) = Len(Utf8(u))
=============================================================================
