------------------------------ MODULE XmlString ------------------------------
(***************************************************************************)
(* TiXmlString, the string of every name, value and output buffer.  An     *)
(* empty string shares one static representation of capacity 0; another    *)
(* owns its buffer, which grows by more than it needs and is given up when *)
(* it is far too large.                                                    *)
(***************************************************************************)
EXTENDS Integers, Sequences

CONSTANTS Char,     \* characters
          Piece,    \* what clients assign and append
          Caps,     \* what they reserve
          MaxText   \* bound: the longest text

ASSUME PieceAssumption == Piece \subseteq Seq(Char)
ASSUME CapsAssumption == Caps \subseteq Nat

VARIABLES text,   \* the characters up to size
          cap,    \* capacity; 0 for the shared representation
          meant,  \* history: the text a string has after the same calls
          stale   \* an argument was read after its buffer was freed

svars == <<text, cap, meant, stale>>

StringInit == text = << >> /\ cap = 0 /\ meant = << >> /\ stale = FALSE

\* Mutant of Assigned: a buffer is kept however small.
AssignedInPlace(s) == [text |-> s, cap |-> cap]

\* assign: in place, or in a new buffer of exactly its length.
Assigned(s) ==
    IF Len(s) > cap \/ cap > 3 * (Len(s) + 8)
    THEN [text |-> s, cap |-> Len(s)]
    ELSE [text |-> s, cap |-> cap]

AssignText(s) ==
    /\ text' = Assigned(s).text
    /\ cap' = Assigned(s).cap
    /\ meant' = s
    /\ UNCHANGED stale

\* The capacity after reserve(n).
Reserved(n) == IF n > cap THEN n ELSE cap

ReserveText(n) == cap' = Reserved(n) /\ UNCHANGED <<text, meant, stale>>

AppendText(s) ==
    LET new == Len(text) + Len(s) IN
    /\ new <= MaxText
    /\ cap' = IF new > cap THEN Reserved(new + cap) ELSE cap
    /\ text' = text \o s
    /\ meant' = meant \o s
    /\ UNCHANGED stale

\* append of a part of the string itself: reserve frees what it points into.
AppendOwn(i, j) ==
    LET s == SubSeq(text, i, j)
        new == Len(text) + Len(s) IN
    /\ new <= MaxText
    /\ cap' = IF new > cap THEN Reserved(new + cap) ELSE cap
    /\ meant' = meant \o s
    /\ IF new > cap THEN \E junk \in [1 .. Len(s) -> Char] : text' = text \o junk
                    ELSE text' = text \o s
    /\ stale' = (stale \/ new > cap)

\* assign of a part of itself copies before it frees.
AssignOwn(i, j) == AssignText(SubSeq(text, i, j))

ClearString == text' = << >> /\ cap' = 0 /\ meant' = << >> /\ UNCHANGED stale

StringNext == ~stale /\
    \/ \E s \in Piece : AssignText(s) \/ AppendText(s)
    \/ \E n \in Caps : ReserveText(n)
    \/ \E i \in 1 .. Len(text) : \E j \in i .. Len(text) : AppendOwn(i, j) \/ AssignOwn(i, j)
    \/ ClearString

StringSpec == StringInit /\ [][StringNext]_svars

-----------------------------------------------------------------------------
\* A string holds what was put in it and never more than its buffer does (so the
\* representation that empty strings share is never written), unless a part of
\* it was appended to itself when there was no room.
StringExact == Len(text) <= cap /\ (~stale => text = meant)
=============================================================================
