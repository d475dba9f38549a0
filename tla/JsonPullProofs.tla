--------------------------- MODULE JsonPullProofs ---------------------------
(***************************************************************************)
(* What holds of the pull parser for any documents: its events are those   *)
(* of the reference scan, it reads no further than they need, and          *)
(* enumerations give the keys of their objects.                            *)
(***************************************************************************)
EXTENDS JsonPull, SequenceTheorems, FiniteSetTheorems, WellFoundedInduction, TLAPS

-----------------------------------------------------------------------------
(* The scan: one character at a time, its state keeps its shape and what   *)
(* comes behind stays.                                                     *)

\* A set of naturals has a least element.
LEMMA LeastOf ==
  ASSUME NEW S, S \subseteq Nat, S # {}
  PROVE  \E i \in S : \A j \in S : i <= j
<1>1. PICK i \in S : \A j \in S : <<j, i>> \notin OpToRel(<, Nat)
  BY WFMin, NatLessThanWellFounded, Zenon
<1>2. \A j \in S : ~(j < i)
  BY <1>1, Zenon DEF OpToRel
<1>3. \A j \in S : i <= j
  BY <1>2
<1> QED  BY <1>3

\* The characters with a meaning are different.
LEMMA Characters ==
  /\ Quote \notin {"{", "[", "}", "]", ",", ":"} /\ Backslash # Quote
  BY Zenon DEF Quote, Backslash

Names == {"string", "key", "{", "[", "}", "]"}

LEMMA Longer ==
  ASSUME NEW s \in Seq(Names \X Nat), NEW e \in Names, NEW n \in Nat
  PROVE  Append(s, <<e, n>>) \in Seq(Names \X Nat)
<1>1. <<e, n>> \in Names \X Nat
  OBVIOUS
<1> DEFINE p == <<e, n>>
<1> HIDE DEF p
<1> QED  BY <1>1 DEF p

Brackets == {"{", "["}
Wants == {"value", "string", "key", "keytext", "colon", "separator", "nothing"}

ScanState == [open : Seq(Brackets), want : Wants, out : Seq(Names \X Nat), slashes : Nat,
              i : Nat, bad : BOOLEAN, odd : BOOLEAN]

\* What is wanted fits where it is wanted.
Shaped(a) ==
    /\ a \in ScanState
    /\ a.want \in {"key", "keytext", "colon"} => Inside(a) = "{"
    /\ a.want = "separator" => a.open # << >>
    /\ a.want = "nothing" => a.open = << >>

\* Going on from a to b: what is behind stays as it is, and what is added is the
\* event of this character.
Follows(a, b) ==
    /\ b.i = a.i + 1
    /\ a.bad => b.bad
    /\ a.odd => b.odd
    /\ b.out = a.out \/ \E e \in Names : b.out = Append(a.out, <<e, a.i + 1>>)

LEMMA FreshShaped == Shaped(Fresh)
  BY DEF Shaped, Fresh, ScanState, Wants, Inside

LEMMA AfterIs ==
  ASSUME NEW a \in ScanState
  PROVE  /\ After(a) \in ScanState
         /\ After(a).open = a.open /\ After(a).out = a.out /\ After(a).i = a.i
         /\ After(a).slashes = a.slashes /\ After(a).bad = a.bad /\ After(a).odd = a.odd
         /\ After(a).want = IF a.open = << >> THEN "nothing" ELSE "separator"
  BY DEF After, ScanState, Wants

\* A character inside a string.
LEMMA InStringIs ==
  ASSUME NEW a, Shaped(a), a.want \in {"string", "keytext"}, NEW c
  PROVE  LET b == InString(a, c)
             ends == c # Backslash /\ ~(c # Quote \/ a.slashes % 2 = 1)
         IN /\ Shaped(b) /\ b.i = a.i /\ b.open = a.open /\ b.bad = a.bad
            /\ ~ends => b.want = a.want /\ b.out = a.out
            /\ c = Backslash => b.slashes = a.slashes + 1 /\ b.odd = (a.odd \/ a.slashes = 2)
            /\ c # Backslash => b.odd = a.odd
            /\ c # Backslash /\ ~ends => b.slashes = 0
            /\ ends /\ a.want = "keytext" => b.want = "colon" /\ b.out = a.out
            /\ ends /\ a.want = "string" =>
                 /\ b.want = IF a.open = << >> THEN "nothing" ELSE "separator"
                 /\ b.out = Append(a.out, <<"string", a.i>>)
<1> DEFINE b == InString(a, c)
           ends == c # Backslash /\ ~(c # Quote \/ a.slashes % 2 = 1)
<1>0. a \in ScanState
  BY DEF Shaped
<1>1. CASE c = Backslash
  <2> DEFINE w == a.slashes + 1
             v == a.odd \/ a.slashes = 2
  <2>1. b = [a EXCEPT !.slashes = w, !.odd = v]
    BY <1>1, Zenon DEF InString
  <2>1a. w \in Nat /\ v \in BOOLEAN
    BY <1>0 DEF ScanState
  <2> HIDE DEF b, w, v
  <2>2. /\ b \in ScanState /\ b.open = a.open /\ b.want = a.want /\ b.out = a.out /\ b.i = a.i
        /\ b.bad = a.bad /\ b.slashes = w /\ b.odd = v
    BY <1>0, <2>1, <2>1a DEF ScanState
  <2>3. Shaped(b)
    BY <2>2 DEF Shaped, Inside
  <2> QED  BY <1>1, <2>2, <2>3, Zenon DEF b, w, v
<1>2. CASE c # Backslash /\ ~ends
  <2>1. b = [a EXCEPT !.slashes = 0]
    BY <1>2 DEF InString
  <2> HIDE DEF b, ends
  <2>2. /\ b \in ScanState /\ b.open = a.open /\ b.want = a.want /\ b.out = a.out /\ b.i = a.i
        /\ b.bad = a.bad /\ b.slashes = 0 /\ b.odd = a.odd
    BY <1>0, <2>1 DEF ScanState
  <2>3. Shaped(b)
    BY <2>2 DEF Shaped, Inside
  <2> QED  BY <1>2, <2>2, <2>3 DEF b, ends
<1>3. CASE ends /\ a.want = "keytext"
  <2>1. b = [a EXCEPT !.want = "colon"]
    BY <1>3 DEF InString
  <2> HIDE DEF b
  <2>2. /\ b \in ScanState /\ b.open = a.open /\ b.want = "colon" /\ b.out = a.out /\ b.i = a.i
        /\ b.bad = a.bad /\ b.odd = a.odd
    BY <1>0, <2>1 DEF ScanState, Wants
  <2>3. Shaped(b)
    BY <1>3, <2>2 DEF Shaped, Inside
  <2> QED  BY <1>3, <2>2, <2>3 DEF b
<1>4. CASE ends /\ a.want = "string"
  <2> DEFINE d == [a EXCEPT !.out = Append(@, <<"string", a.i>>)]
  <2>1. b = After(d)
    BY <1>4 DEF InString
  <2>2. /\ d \in ScanState /\ d.open = a.open /\ d.out = Append(a.out, <<"string", a.i>>) /\ d.i = a.i
        /\ d.bad = a.bad /\ d.odd = a.odd
    <3> DEFINE o == Append(a.out, <<"string", a.i>>)
    <3>1. o \in Seq(Names \X Nat)
      <4>1. a.out \in Seq(Names \X Nat) /\ a.i \in Nat
        BY <1>0 DEF ScanState
      <4>2. "string" \in Names
        BY DEF Names
      <4> QED  BY <4>1, <4>2, Longer
    <3> HIDE DEF o
    <3>2. d = [a EXCEPT !.out = o]
      BY DEF o
    <3> HIDE DEF d
    <3> QED  BY <1>0, <3>1, <3>2 DEF ScanState, o
  <2> HIDE DEF b, d
  <2>3. /\ b \in ScanState /\ b.open = a.open /\ b.out = Append(a.out, <<"string", a.i>>) /\ b.i = a.i
        /\ b.bad = a.bad /\ b.odd = a.odd
        /\ b.want = IF a.open = << >> THEN "nothing" ELSE "separator"
    BY <2>1, <2>2, AfterIs
  <2>4. Shaped(b)
    BY <2>3 DEF Shaped
  <2> QED  BY <1>4, <2>3, <2>4 DEF b
<1> QED  BY <1>1, <1>2, <1>3, <1>4

\* A character outside of strings, if it is none the parser is not defined for:
\* what is opened, what is wanted then, and the event.
OpensString(a, c, b)  == c = Quote /\ a.want = "value" /\ b.want = "string" /\ b.slashes = 0
                         /\ b.open = a.open /\ b.out = a.out
OpensKey(a, c, b)     == c = Quote /\ a.want = "key" /\ b.want = "keytext" /\ b.slashes = 0
                         /\ b.open = a.open /\ b.out = a.out
EndsKey(a, c, b)      == c = ":" /\ a.want = "colon" /\ b.want = "value"
                         /\ b.open = a.open /\ b.out = Append(a.out, <<"key", a.i>>)
Opens(a, c, b)        == c \in {"{", "["} /\ a.want = "value"
                         /\ b.want = (IF c = "{" THEN "key" ELSE "value")
                         /\ b.open = Append(a.open, c) /\ b.out = Append(a.out, <<c, a.i>>)
Separates(a, c, b)    == c = "," /\ a.want = "separator"
                         /\ b.want = (IF Inside(a) = "{" THEN "key" ELSE "value")
                         /\ b.open = a.open /\ b.out = a.out
Closes(a, c, b)       == c \in {"}", "]"} /\ a.open # << >> /\ Inside(a) = (IF c = "}" THEN "{" ELSE "[")
                         /\ a.want \in {"separator", "key", "value"} /\ ~(c = "}" /\ a.want = "value")
                         /\ b.want = (IF Front(a.open) = << >> THEN "nothing" ELSE "separator")
                         /\ b.open = Front(a.open) /\ b.out = Append(a.out, <<c, a.i>>)

Defined(a, c, b) ==
    \/ OpensString(a, c, b) \/ OpensKey(a, c, b) \/ EndsKey(a, c, b)
    \/ Opens(a, c, b) \/ Separates(a, c, b) \/ Closes(a, c, b)

LEMMA FrontIs ==
  ASSUME NEW S, NEW s \in Seq(S), s # << >>
  PROVE  /\ Front(s) \in Seq(S) /\ Len(Front(s)) = Len(s) - 1 /\ Len(s) \in Nat \ {0}
         /\ \A i \in 1 .. Len(s) - 1 : Front(s)[i] = s[i]
         /\ Last(s) = s[Len(s)] /\ Last(s) \in S /\ s = Append(Front(s), Last(s))
<1>1. Len(s) \in Nat \ {0} /\ \A i \in 1 .. Len(s) : s[i] \in S
  OBVIOUS
<1> DEFINE f == SubSeq(s, 1, Len(s) - 1)
<1>2. f \in Seq(S) /\ Len(f) = Len(s) - 1 /\ \A i \in 1 .. Len(s) - 1 : f[i] = s[i]
  <2> DEFINE n == Len(s) - 1
  <2>1. n \in Nat /\ \A i \in 1 .. n : s[i] \in S
    BY <1>1
  <2> HIDE DEF n
  <2>2. /\ SubSeq(s, 1, n) \in Seq(S) /\ Len(SubSeq(s, 1, n)) = n
        /\ \A i \in 1 .. n : SubSeq(s, 1, n)[i] = s[i]
    BY <2>1
  <2> QED  BY <2>2 DEF n
<1>3. Front(s) = f /\ Last(s) = s[Len(s)]
  BY DEF Front, Last
<1> HIDE DEF f
<1>4. s = Append(f, s[Len(s)])
  BY <1>1, <1>2
<1> QED  BY <1>1, <1>2, <1>3, <1>4

LEMMA OutsideIs ==
  ASSUME NEW a, Shaped(a), ~a.bad, ~a.odd, NEW c
  PROVE  LET b == Outside(a, c)
         IN /\ Shaped(b) /\ b.i = a.i
            /\ b.bad \/ b.odd => b.out = a.out
            /\ ~b.bad /\ ~b.odd => Defined(a, c, b) /\ ~(c = Quote /\ Inside(a) = "[")
<1> DEFINE b == Outside(a, c)
<1>0. a \in ScanState
  BY DEF Shaped
<1>a. Quote \notin {"{", "[", "}", "]", ",", ":"}
  BY Characters
<1>1. CASE c = Quote /\ a.want = "value"
  <2> DEFINE w == "string"
             v == a.odd \/ Inside(a) = "["
  <2>1. b = [a EXCEPT !.want = w, !.slashes = 0, !.odd = v]
    BY <1>a, <1>1 DEF Outside
  <2>2. w \in Wants /\ v \in BOOLEAN /\ w \notin {"key", "keytext", "colon", "separator", "nothing"}
    BY <1>0 DEF ScanState, Wants
  <2> HIDE DEF b, w, v
  <2>3. /\ b \in ScanState /\ b.open = a.open /\ b.want = w /\ b.out = a.out /\ b.i = a.i
        /\ b.bad = a.bad /\ b.slashes = 0 /\ b.odd = v
    BY <1>0, <2>1, <2>2 DEF ScanState
  <2>4. Shaped(b)
    BY <2>2, <2>3 DEF Shaped
  <2>5. ~b.odd => Inside(a) # "["
    BY <2>3, Zenon DEF v
  <2>6. OpensString(a, c, b)
    BY <1>1, <2>3 DEF OpensString, w
  <2> QED  BY <2>3, <2>4, <2>5, <2>6, Zenon DEF b, Defined
<1>2. CASE c = Quote /\ a.want = "key"
  <2> DEFINE w == "keytext"
  <2>1. b = [a EXCEPT !.want = w, !.slashes = 0]
    BY <1>a, <1>2 DEF Outside
  <2>2. w \in Wants /\ w \notin {"separator", "nothing"} /\ Inside(a) = "{"
    BY <1>2 DEF Wants, Shaped
  <2> HIDE DEF b, w
  <2>3. /\ b \in ScanState /\ b.open = a.open /\ b.want = w /\ b.out = a.out /\ b.i = a.i
        /\ b.bad = a.bad /\ b.slashes = 0 /\ b.odd = a.odd
    BY <1>0, <2>1, <2>2 DEF ScanState
  <2>4. Shaped(b)
    BY <2>2, <2>3 DEF Shaped, Inside
  <2>6. OpensKey(a, c, b)
    BY <1>2, <2>3 DEF OpensKey, w
  <2>7. Inside(a) # "["
    BY <2>2
  <2> QED  BY <2>3, <2>4, <2>6, <2>7, Zenon DEF b, Defined
<1>3. CASE c = ":" /\ a.want = "colon"
  <2> DEFINE w == "value"
             o == Append(a.out, <<"key", a.i>>)
  <2>1. b = [a EXCEPT !.want = w, !.out = o]
    BY <1>a, <1>3 DEF Outside
  <2>2. w \in Wants /\ w \notin {"key", "keytext", "colon", "separator", "nothing"}
    BY DEF Wants
  <2>2a. o \in Seq(Names \X Nat)
    <3>1. a.out \in Seq(Names \X Nat) /\ a.i \in Nat
      BY <1>0 DEF ScanState
    <3>2. "key" \in Names
      BY DEF Names
    <3> QED  BY <3>1, <3>2, Longer
  <2> HIDE DEF b, w, o
  <2>3. /\ b \in ScanState /\ b.open = a.open /\ b.want = w /\ b.out = o /\ b.i = a.i
        /\ b.bad = a.bad /\ b.odd = a.odd
    BY <1>0, <2>1, <2>2, <2>2a DEF ScanState
  <2>4. Shaped(b)
    BY <2>2, <2>3 DEF Shaped
  <2>6. EndsKey(a, c, b)
    BY <1>3, <2>3 DEF EndsKey, w, o
  <2>7. c # Quote
    BY <1>a, <1>3
  <2> QED  BY <2>3, <2>4, <2>6, <2>7, Zenon DEF b, Defined
<1>4. CASE c \in {"{", "["} /\ a.want = "value"
  <2> DEFINE w == IF c = "{" THEN "key" ELSE "value"
             o == Append(a.out, <<c, a.i>>)
             p == Append(a.open, c)
  <2>1. b = [a EXCEPT !.open = p, !.want = w, !.out = o]
    BY <1>a, <1>4 DEF Outside
  <2>2. w \in Wants /\ w \notin {"keytext", "colon", "separator", "nothing"} /\ (w = "key" => c = "{")
    BY DEF Wants
  <2>2a. o \in Seq(Names \X Nat)
    <3>1. a.out \in Seq(Names \X Nat) /\ a.i \in Nat
      BY <1>0 DEF ScanState
    <3>2. c \in Names
      BY <1>4 DEF Names
    <3> QED  BY <3>1, <3>2, Longer
  <2>2b. p \in Seq(Brackets) /\ p # << >> /\ Last(p) = c
    <3>1. a.open \in Seq(Brackets) /\ c \in Brackets
      BY <1>0, <1>4 DEF ScanState, Brackets
    <3> QED  BY <3>1 DEF Last
  <2> HIDE DEF b, w, o, p
  <2>3. /\ b \in ScanState /\ b.open = p /\ b.want = w /\ b.out = o /\ b.i = a.i
        /\ b.bad = a.bad /\ b.odd = a.odd
    BY <1>0, <2>1, <2>2, <2>2a, <2>2b DEF ScanState
  <2>3a. Inside(b) = c
    BY <2>2b, <2>3 DEF Inside
  <2>4. Shaped(b)
    BY <2>2, <2>3, <2>3a DEF Shaped
  <2>6. Opens(a, c, b)
    BY <1>4, <2>3 DEF Opens, w, o, p
  <2>7. c # Quote
    BY <1>a, <1>4
  <2> QED  BY <2>3, <2>4, <2>6, <2>7, Zenon DEF b, Defined
<1>5. CASE c = "," /\ a.want = "separator"
  <2> DEFINE w == IF Inside(a) = "{" THEN "key" ELSE "value"
  <2>1. b = [a EXCEPT !.want = w]
    BY <1>a, <1>5 DEF Outside
  <2>2. w \in Wants /\ w \notin {"keytext", "colon", "separator", "nothing"} /\ (w = "key" => Inside(a) = "{")
    BY DEF Wants
  <2> HIDE DEF b, w
  <2>3. /\ b \in ScanState /\ b.open = a.open /\ b.want = w /\ b.out = a.out /\ b.i = a.i
        /\ b.bad = a.bad /\ b.odd = a.odd
    BY <1>0, <2>1, <2>2 DEF ScanState
  <2>4. Shaped(b)
    BY <2>2, <2>3 DEF Shaped, Inside
  <2>6. Separates(a, c, b)
    BY <1>5, <2>3 DEF Separates, w
  <2>7. c # Quote
    BY <1>a, <1>5
  <2> QED  BY <2>3, <2>4, <2>6, <2>7, Zenon DEF b, Defined
<1> DEFINE closing == /\ c \in {"}", "]"} /\ a.open # << >> /\ Inside(a) = (IF c = "}" THEN "{" ELSE "[")
                      /\ a.want \in {"separator", "key", "value"} /\ ~(c = "}" /\ a.want = "value")
<1>6. CASE closing
  <2> DEFINE o == Append(a.out, <<c, a.i>>)
             p == Front(a.open)
             d == [a EXCEPT !.open = p, !.out = o]
  <2>1. b = After(d)
    BY <1>a, <1>6 DEF Outside
  <2>2. o \in Seq(Names \X Nat)
    <3>1. a.out \in Seq(Names \X Nat) /\ a.i \in Nat
      BY <1>0 DEF ScanState
    <3>2. c \in Names
      BY <1>6 DEF Names
    <3> QED  BY <3>1, <3>2, Longer
  <2>3. p \in Seq(Brackets)
    <3>1. a.open \in Seq(Brackets)
      BY <1>0 DEF ScanState
    <3> QED  BY <3>1, <1>6, FrontIs
  <2> HIDE DEF o, p
  <2>4. d \in ScanState /\ d.open = p /\ d.out = o /\ d.i = a.i /\ d.bad = a.bad /\ d.odd = a.odd
    BY <1>0, <2>2, <2>3 DEF ScanState
  <2> HIDE DEF b, d
  <2>5. /\ b \in ScanState /\ b.open = p /\ b.out = o /\ b.i = a.i
        /\ b.bad = a.bad /\ b.odd = a.odd
        /\ b.want = IF p = << >> THEN "nothing" ELSE "separator"
    BY <2>1, <2>4, AfterIs
  <2>6. Shaped(b)
    BY <2>5 DEF Shaped
  <2>7. Closes(a, c, b)
    BY <1>6, <2>5 DEF Closes, o, p
  <2>8. c # Quote
    BY <1>a, <1>6
  <2> QED  BY <2>5, <2>6, <2>7, <2>8, Zenon DEF b, Defined
<1> HIDE DEF closing
<1>7. CASE a.want = "value" /\ c \notin {"{", "}", "[", "]", ",", ":", Quote}
  <2>1. b = [After(a) EXCEPT !.odd = TRUE]
    BY <1>a, <1>7 DEF Outside
  <2> DEFINE d == After(a)
  <2>2. /\ d \in ScanState /\ d.open = a.open /\ d.out = a.out /\ d.i = a.i
        /\ d.want = IF a.open = << >> THEN "nothing" ELSE "separator"
    BY <1>0, AfterIs
  <2> HIDE DEF b, d
  <2>3. b \in ScanState /\ b.open = d.open /\ b.out = d.out /\ b.i = d.i /\ b.want = d.want /\ b.odd
    BY <2>1, <2>2 DEF ScanState, d
  <2>4. Shaped(b)
    BY <2>2, <2>3 DEF Shaped
  <2> QED  BY <2>2, <2>3, <2>4 DEF b
<1>8. CASE /\ ~(c = Quote /\ a.want = "value") /\ ~(c = Quote /\ a.want = "key")
           /\ ~(c = ":" /\ a.want = "colon") /\ ~(c \in {"{", "["} /\ a.want = "value")
           /\ ~(c = "," /\ a.want = "separator") /\ ~closing
           /\ ~(a.want = "value" /\ c \notin {"{", "}", "[", "]", ",", ":", Quote})
  <2>1. b = [a EXCEPT !.bad = TRUE]
    BY <1>8 DEF Outside, closing
  <2> HIDE DEF b
  <2>2. /\ b \in ScanState /\ b.open = a.open /\ b.out = a.out /\ b.i = a.i /\ b.want = a.want /\ b.bad
    BY <1>0, <2>1 DEF ScanState
  <2>3. Shaped(b)
    BY <2>2 DEF Shaped, Inside
  <2> QED  BY <2>2, <2>3 DEF b
<1> QED  BY <1>1, <1>2, <1>3, <1>4, <1>5, <1>6, <1>7, <1>8

\* All that is told apart but the place.
Alike(a, b) ==
    /\ b.open = a.open /\ b.want = a.want /\ b.out = a.out /\ b.slashes = a.slashes
    /\ b.bad = a.bad /\ b.odd = a.odd

Placed(a) == [a EXCEPT !.i = @ + 1]

LEMMA PlacedIs ==
  ASSUME NEW a, Shaped(a)
  PROVE  Shaped(Placed(a)) /\ Alike(a, Placed(a)) /\ Placed(a).i = a.i + 1
<1> DEFINE b == Placed(a)
           n == a.i + 1
<1>1. a \in ScanState
  BY DEF Shaped
<1>2. b = [a EXCEPT !.i = n] /\ n \in Nat
  BY <1>1 DEF Placed, ScanState
<1> HIDE DEF b, n
<1>3. b \in ScanState /\ Alike(a, b) /\ b.i = n
  BY <1>1, <1>2 DEF ScanState, Alike
<1>4. Shaped(b)
  BY <1>3 DEF Shaped, Alike, Inside
<1> QED  BY <1>3, <1>4 DEF b, n

\* What a character is taken for.
LEMMA StepIs ==
  ASSUME NEW a, Shaped(a), NEW c
  PROVE  LET b == ScanStep(a, c)
         IN /\ (a.bad \/ a.odd) => b = Placed(a)
            /\ ~a.bad /\ ~a.odd /\ a.want \in {"string", "keytext"} => b = InString(Placed(a), c)
            /\ ~a.bad /\ ~a.odd /\ a.want \notin {"string", "keytext"} /\ Blank(c) => b = Placed(a)
            /\ ~a.bad /\ ~a.odd /\ a.want \notin {"string", "keytext"} /\ ~Blank(c)
                 => b = Outside(Placed(a), c)
  BY DEF ScanStep, Placed

LEMMA OneMore ==
  ASSUME NEW a \in ScanState, NEW b, NEW e \in Names, b.out = Append(a.out, <<e, a.i>>), NEW z, z.out = a.out,
         a.i = z.i + 1
  PROVE  \E f \in Names : b.out = Append(z.out, <<f, z.i + 1>>)
  OBVIOUS

LEMMA StepFollows ==
  ASSUME NEW a, Shaped(a), NEW c
  PROVE  Shaped(ScanStep(a, c)) /\ Follows(a, ScanStep(a, c))
<1> DEFINE p == Placed(a)
           b == ScanStep(a, c)
<1>1. Shaped(p) /\ Alike(a, p) /\ p.i = a.i + 1
  BY PlacedIs
<1>2. p \in ScanState /\ a \in ScanState
  BY <1>1 DEF Shaped
<1>3. CASE b = p
  BY <1>1, <1>3 DEF Follows, Alike
<1>4. CASE ~a.bad /\ ~a.odd /\ a.want \in {"string", "keytext"}
  <2>1. b = InString(p, c)
    BY <1>4, StepIs
  <2>2. ~p.bad /\ ~p.odd /\ p.want \in {"string", "keytext"} /\ p.out = a.out
    BY <1>1, <1>4 DEF Alike
  <2> HIDE DEF p, b
  <2> DEFINE ends == c # Backslash /\ ~(c # Quote \/ p.slashes % 2 = 1)
  <2>3. /\ Shaped(b) /\ b.i = p.i
        /\ ~ends => b.out = p.out
        /\ ends /\ p.want = "keytext" => b.out = p.out
        /\ ends /\ p.want = "string" => b.out = Append(p.out, <<"string", p.i>>)
    BY <1>1, <2>1, <2>2, InStringIs
  <2> HIDE DEF ends
  <2>4. b.out = p.out \/ b.out = Append(p.out, <<"string", p.i>>)
    BY <2>2, <2>3
  <2>5. "string" \in Names
    BY DEF Names
  <2>6. b.out = a.out \/ \E e \in Names : b.out = Append(a.out, <<e, a.i + 1>>)
    BY <1>1, <2>2, <2>4, <2>5, Zenon
  <2>7. b.i = a.i + 1 /\ Shaped(b)
    BY <1>1, <2>3, Zenon
  <2>8. (a.bad => b.bad) /\ (a.odd => b.odd)
    BY <1>4, Zenon
  <2> QED  BY <2>6, <2>7, <2>8, Zenon DEF Follows, b
<1>5. CASE ~a.bad /\ ~a.odd /\ a.want \notin {"string", "keytext"} /\ ~Blank(c)
  <2>1. b = Outside(p, c)
    BY <1>5, StepIs
  <2>2. ~p.bad /\ ~p.odd /\ p.out = a.out
    BY <1>1, <1>5 DEF Alike
  <2> HIDE DEF p, b
  <2>3. /\ Shaped(b) /\ b.i = p.i
        /\ b.bad \/ b.odd => b.out = p.out
        /\ ~b.bad /\ ~b.odd => Defined(p, c, b)
    BY <1>1, <2>1, <2>2, OutsideIs
  <2>4. b.out = p.out \/ \E e \in Names : b.out = Append(p.out, <<e, p.i>>)
    <3>1. CASE b.bad \/ b.odd
      BY <2>3, <3>1
    <3>2. CASE OpensString(p, c, b) \/ OpensKey(p, c, b) \/ Separates(p, c, b)
      BY <3>2 DEF OpensString, OpensKey, Separates
    <3>3. CASE EndsKey(p, c, b)
      <4>1. "key" \in Names /\ b.out = Append(p.out, <<"key", p.i>>)
        BY <3>3 DEF EndsKey, Names
      <4> QED  BY <4>1
    <3>4. CASE Opens(p, c, b) \/ Closes(p, c, b)
      <4>1. c \in Names /\ b.out = Append(p.out, <<c, p.i>>)
        BY <3>4 DEF Opens, Closes, Names
      <4> QED  BY <4>1
    <3> QED  BY <2>3, <3>1, <3>2, <3>3, <3>4 DEF Defined
  <2>6. b.out = a.out \/ \E e \in Names : b.out = Append(a.out, <<e, a.i + 1>>)
    BY <1>1, <2>2, <2>4, Zenon
  <2>7. b.i = a.i + 1 /\ Shaped(b)
    BY <1>1, <2>3, Zenon
  <2>8. (a.bad => b.bad) /\ (a.odd => b.odd)
    BY <1>5, Zenon
  <2> QED  BY <2>6, <2>7, <2>8, Zenon DEF Follows, b
<1>6. (a.bad \/ a.odd) => b = p
  BY StepIs
<1>7. ~a.bad /\ ~a.odd /\ a.want \notin {"string", "keytext"} /\ Blank(c) => b = p
  BY StepIs
<1> QED  BY <1>3, <1>4, <1>5, <1>6, <1>7

\* The scan of each beginning of a document.
Scans(g, d) == g = [n \in 0 .. Len(d) |-> IF n = 0 THEN Fresh ELSE ScanStep(g[n - 1], d[n])]
UpTo(d) == CHOOSE g : Scans(g, d)

LEMMA ScansLong ==
  ASSUME NEW d, NEW n \in Nat
  PROVE  \E g : g = [m \in 0 .. n |-> IF m = 0 THEN Fresh ELSE ScanStep(g[m - 1], d[m])]
<1> DEFINE Ok(g, k) == g = [m \in 0 .. k |-> IF m = 0 THEN Fresh ELSE ScanStep(g[m - 1], d[m])]
           bad == {k \in Nat : ~ \E g : Ok(g, k)}
<1>1. SUFFICES ASSUME bad # {}  PROVE FALSE
  OBVIOUS
<1>2. PICK k \in bad : \A j \in bad : k <= j
  <2>1. bad \subseteq Nat
    OBVIOUS
  <2> HIDE DEF bad
  <2> QED  BY <1>1, <2>1, LeastOf
<1>3. CASE k = 0
  <2> DEFINE g == [m \in 0 .. 0 |-> Fresh]
  <2>1. Ok(g, 0)
    OBVIOUS
  <2> QED  BY <1>2, <1>3, <2>1
<1>4. CASE k # 0
  <2>1. k \in Nat /\ k - 1 \in Nat /\ ~(k <= k - 1)
    BY <1>2, <1>4
  <2>2. k - 1 \notin bad
    <3> HIDE DEF bad
    <3> QED  BY <1>2, <2>1
  <2>3. PICK g : Ok(g, k - 1)
    BY <2>1, <2>2
  <2> DEFINE e == ScanStep(g[k - 1], d[k])
             f == [m \in 0 .. k |-> IF m = k THEN e ELSE g[m]]
  <2>4. ASSUME NEW m \in 0 .. k
        PROVE  f[m] = IF m = 0 THEN Fresh ELSE ScanStep(f[m - 1], d[m])
    <3>1. CASE m = k
      <4>1. f[m - 1] = g[k - 1] /\ m # 0
        BY <1>4, <2>1, <3>1
      <4>2. f[m] = e
        BY <3>1
      <4> HIDE DEF f
      <4> QED  BY <3>1, <4>1, <4>2
    <3>2. CASE m # k
      <4>1. m \in 0 .. k - 1 /\ (m # 0 => m - 1 \in 0 .. k /\ m - 1 # k)
        BY <2>1, <3>2
      <4>2. g[m] = IF m = 0 THEN Fresh ELSE ScanStep(g[m - 1], d[m])
        BY <2>3, <4>1
      <4> HIDE DEF e
      <4>3. f[m] = g[m] /\ (m # 0 => f[m - 1] = g[m - 1])
        BY <3>2, <4>1
      <4> HIDE DEF f
      <4> QED  BY <4>2, <4>3
    <3> QED  BY <3>1, <3>2
  <2>5. f = [m \in 0 .. k |-> f[m]]
    OBVIOUS
  <2> HIDE DEF f
  <2>6. Ok(f, k)
    BY <2>4, <2>5
  <2> QED  BY <1>2, <2>6
<1> QED  BY <1>3, <1>4

LEMMA ScanIs ==
  ASSUME NEW S, NEW d \in Seq(S)
  PROVE  /\ Scans(UpTo(d), d) /\ Scan(d) = UpTo(d)[Len(d)]
<1>1. \E g : Scans(g, d)
  <2>1. Len(d) \in Nat
    OBVIOUS
  <2> QED  BY <2>1, ScansLong DEF Scans
<1>2. Scans(UpTo(d), d)
  BY <1>1, Zenon DEF UpTo
<1>3. Scan(d) = UpTo(d)[Len(d)]
  BY Zenon DEF Scan, UpTo, Scans
<1> QED  BY <1>2, <1>3

LEMMA ScanSteps ==
  ASSUME NEW S, NEW d \in Seq(S)
  PROVE  /\ Len(d) \in Nat /\ UpTo(d)[0] = Fresh
         /\ \A n \in 1 .. Len(d) : UpTo(d)[n] = ScanStep(UpTo(d)[n - 1], d[n])
<1>1. Scans(UpTo(d), d) /\ Len(d) \in Nat
  BY ScanIs
<1> DEFINE g == UpTo(d)
<1> HIDE DEF g
<1>2. g = [n \in 0 .. Len(d) |-> IF n = 0 THEN Fresh ELSE ScanStep(g[n - 1], d[n])]
  BY <1>1 DEF Scans, g
<1>3. g[0] = Fresh
  BY <1>1, <1>2
<1>4. \A n \in 1 .. Len(d) : g[n] = ScanStep(g[n - 1], d[n])
  BY <1>1, <1>2
<1> QED  BY <1>1, <1>3, <1>4 DEF g

LEMMA ScanShaped ==
  ASSUME NEW S, NEW d \in Seq(S), NEW n \in 0 .. Len(d)
  PROVE  Shaped(UpTo(d)[n]) /\ UpTo(d)[n].i = n
<1> DEFINE g == UpTo(d)
           bad == {m \in 0 .. Len(d) : ~(Shaped(g[m]) /\ g[m].i = m)}
<1>1. Len(d) \in Nat /\ g[0] = Fresh /\ \A m \in 1 .. Len(d) : g[m] = ScanStep(g[m - 1], d[m])
  BY ScanSteps
<1> HIDE DEF g
<1>2. bad = {}
  <2> SUFFICES ASSUME bad # {}  PROVE FALSE
    OBVIOUS
  <2>1. PICK m \in bad : \A j \in bad : m <= j
    <3>1. bad \subseteq Nat
      OBVIOUS
    <3> HIDE DEF bad
    <3> QED  BY <3>1, LeastOf
  <2>2. CASE m = 0
    <3>1. Shaped(Fresh) /\ Fresh.i = 0
      BY FreshShaped DEF Fresh
    <3> QED  BY <1>1, <2>1, <2>2, <3>1
  <2>3. CASE m # 0
    <3>1. m \in 1 .. Len(d) /\ m - 1 \in 0 .. Len(d) /\ ~(m <= m - 1)
      BY <1>1, <2>1, <2>3
    <3>2. m - 1 \notin bad
      <4> HIDE DEF bad
      <4> QED  BY <2>1, <3>1
    <3>3. Shaped(g[m - 1]) /\ g[m - 1].i = m - 1
      BY <3>1, <3>2
    <3>4. Shaped(g[m]) /\ g[m].i = (m - 1) + 1
      BY <1>1, <3>1, <3>3, StepFollows DEF Follows
    <3> QED  BY <2>1, <3>1, <3>4
  <2> QED  BY <2>2, <2>3
<1> QED  BY <1>2 DEF g

\* The scan after the first n characters.
At(d, n) == UpTo(d)[n]

LEMMA ScanAt ==
  ASSUME NEW d \in Seq(STRING)
  PROVE  /\ Len(d) \in Nat /\ At(d, 0) = Fresh /\ Scan(d) = At(d, Len(d))
         /\ \A n \in 0 .. Len(d) : Shaped(At(d, n)) /\ At(d, n).i = n
         /\ \A n \in 1 .. Len(d) : At(d, n) = ScanStep(At(d, n - 1), d[n]) /\ n - 1 \in 0 .. Len(d)
<1>1. Len(d) \in Nat /\ At(d, 0) = Fresh /\ \A n \in 1 .. Len(d) : At(d, n) = ScanStep(At(d, n - 1), d[n])
  BY ScanSteps DEF At
<1>2. Scan(d) = At(d, Len(d))
  BY ScanIs DEF At
<1>3. ASSUME NEW n \in 0 .. Len(d)
      PROVE  Shaped(At(d, n)) /\ At(d, n).i = n
  BY ScanShaped DEF At
<1> QED  BY <1>1, <1>2, <1>3

\* What a later place keeps of an earlier one.
Ahead(a, b) ==
    /\ a.bad => b.bad
    /\ a.odd => b.odd
    /\ Len(a.out) <= Len(b.out)
    /\ \A k \in 1 .. Len(a.out) : b.out[k] = a.out[k]
    /\ \A k \in Len(a.out) + 1 .. Len(b.out) : b.out[k][2] > a.i

LEMMA OutIs ==
  ASSUME NEW a, Shaped(a)
  PROVE  a.out \in Seq(Names \X Nat) /\ Len(a.out) \in Nat /\ a.i \in Nat /\ a.open \in Seq(Brackets)
<1>1. a.out \in Seq(Names \X Nat) /\ a.i \in Nat /\ a.open \in Seq(Brackets)
  BY DEF Shaped, ScanState
<1> QED  BY <1>1

LEMMA AheadFollows ==
  ASSUME NEW a, Shaped(a), NEW b, Shaped(b), Ahead(a, b), a.i <= b.i, NEW c, Shaped(c), Follows(b, c)
  PROVE  Ahead(a, c)
<1>1. /\ a.out \in Seq(Names \X Nat) /\ b.out \in Seq(Names \X Nat) /\ c.out \in Seq(Names \X Nat)
      /\ a.i \in Nat /\ b.i \in Nat
  BY DEF Shaped, ScanState
<1>2. (a.bad => c.bad) /\ (a.odd => c.odd)
  BY DEF Ahead, Follows
<1>3. CASE c.out = b.out
  BY <1>2, <1>3 DEF Ahead
<1>4. CASE \E e \in Names : c.out = Append(b.out, <<e, b.i + 1>>)
  <2>1. PICK e \in Names : c.out = Append(b.out, <<e, b.i + 1>>)
    BY <1>4
  <2> DEFINE p == <<e, b.i + 1>>
             s == b.out
             n == Len(a.out)
  <2>2. p[2] = b.i + 1 /\ p \in Names \X Nat
    BY <1>1
  <2> HIDE DEF p
  <2>3. s \in Seq(Names \X Nat) /\ c.out = Append(s, p)
    BY <1>1, <2>1 DEF p
  <2> HIDE DEF s
  <2>4. /\ Len(c.out) = Len(s) + 1 /\ Len(s) \in Nat /\ c.out[Len(s) + 1] = p
        /\ \A k \in 1 .. Len(s) : c.out[k] = s[k]
    BY <2>2, <2>3
  <2>4a. n \in Nat
    BY <1>1
  <2>5. /\ n <= Len(s) /\ \A k \in 1 .. n : s[k] = a.out[k]
        /\ \A k \in n + 1 .. Len(s) : s[k][2] > a.i
    BY DEF Ahead, s
  <2> HIDE DEF n
  <2>6. \A k \in 1 .. n : c.out[k] = a.out[k]
    BY <2>4, <2>4a, <2>5
  <2>7. ASSUME NEW k \in n + 1 .. Len(c.out)
        PROVE  c.out[k][2] > a.i
    <3>1. CASE k \in 1 .. Len(s)
      BY <2>4, <2>4a, <2>5, <3>1
    <3>2. CASE k = Len(s) + 1
      <4>1. c.out[k][2] = b.i + 1
        BY <2>2, <2>4, <3>2
      <4> QED  BY <1>1, <4>1
    <3> QED  BY <2>4, <2>4a, <3>1, <3>2
  <2>8. n <= Len(c.out)
    BY <2>4, <2>4a, <2>5
  <2> QED  BY <1>2, <2>6, <2>7, <2>8 DEF Ahead, n
<1> QED  BY <1>3, <1>4 DEF Follows

LEMMA Grows ==
  ASSUME NEW d \in Seq(STRING), NEW n \in 0 .. Len(d), NEW c \in 0 .. n
  PROVE  Ahead(At(d, c), At(d, n))
<1> DEFINE bad == {m \in 0 .. Len(d) : c <= m /\ ~Ahead(At(d, c), At(d, m))}
<1>1. /\ Len(d) \in Nat
      /\ \A m \in 0 .. Len(d) : Shaped(At(d, m)) /\ At(d, m).i = m
      /\ \A m \in 1 .. Len(d) : At(d, m) = ScanStep(At(d, m - 1), d[m]) /\ m - 1 \in 0 .. Len(d)
  BY ScanAt
<1>2. bad = {}
  <2> SUFFICES ASSUME bad # {}  PROVE FALSE
    OBVIOUS
  <2>1. PICK m \in bad : \A j \in bad : m <= j
    <3>1. bad \subseteq Nat
      OBVIOUS
    <3> HIDE DEF bad
    <3> QED  BY <3>1, LeastOf
  <2>2. CASE m = c
    <3>1. At(d, c).out \in Seq(Names \X Nat)
      <4>1. Shaped(At(d, c))
        BY <1>1, <2>1, <2>2
      <4> QED  BY <4>1 DEF Shaped, ScanState
    <3>2. Ahead(At(d, c), At(d, c))
      BY <3>1 DEF Ahead
    <3> QED  BY <2>1, <2>2, <3>2
  <2>3. CASE m # c
    <3>1. m \in 1 .. Len(d) /\ m - 1 \in 0 .. Len(d) /\ c <= m - 1 /\ ~(m <= m - 1) /\ c \in 0 .. Len(d)
      BY <1>1, <2>1, <2>3
    <3>2. m - 1 \notin bad
      <4> HIDE DEF bad
      <4> QED  BY <2>1, <3>1
    <3>3. Ahead(At(d, c), At(d, m - 1))
      BY <3>1, <3>2
    <3>4. Shaped(At(d, m)) /\ Follows(At(d, m - 1), At(d, m))
      BY <1>1, <3>1, StepFollows
    <3>5. At(d, c).i <= At(d, m - 1).i
      BY <1>1, <3>1
    <3>6. Ahead(At(d, c), At(d, m))
      BY <1>1, <3>1, <3>3, <3>4, <3>5, AheadFollows
    <3> QED  BY <2>1, <3>6
  <2> QED  BY <2>2, <2>3
<1> QED  BY <1>1, <1>2

Plain(a) == ~a.bad /\ ~a.odd

\* In a document the parser is defined for, every character is.
LEMMA PlainAt ==
  ASSUME NEW d \in Seq(STRING), Plain(Scan(d)), NEW n \in 0 .. Len(d)
  PROVE  Plain(At(d, n))
<1>1. Len(d) \in Nat /\ Scan(d) = At(d, Len(d))
  BY ScanAt
<1>2. Ahead(At(d, n), At(d, Len(d)))
  BY <1>1, Grows
<1> QED  BY <1>1, <1>2 DEF Ahead, Plain

LEMMA OnlyAnEventEnds ==
  ASSUME NEW a, Shaped(a), NEW c, Plain(ScanStep(a, c)), Plain(a)
  PROVE  LET b == ScanStep(a, c)
         IN /\ a.want = "nothing" => b.want = "nothing" /\ b.out = a.out
            /\ a.want # "nothing" /\ b.want = "nothing" => Len(b.out) > Len(a.out)
<1> DEFINE p == Placed(a)
           b == ScanStep(a, c)
<1>1. Shaped(p) /\ Alike(a, p) /\ p.i = a.i + 1
  BY PlacedIs
<1>2. p.out \in Seq(Names \X Nat) /\ p.i \in Nat /\ p.want = a.want /\ p.out = a.out /\ p.open = a.open
  BY <1>1 DEF Shaped, ScanState, Alike
<1>3. CASE b = p
  BY <1>2, <1>3
<1>4. CASE a.want \in {"string", "keytext"}
  <2>1. b = InString(p, c)
    BY <1>4, StepIs DEF Plain
  <2> HIDE DEF p, b
  <2> DEFINE ends == c # Backslash /\ ~(c # Quote \/ p.slashes % 2 = 1)
  <2>2. p.want \in {"string", "keytext"}
    BY <1>2, <1>4
  <2>3. /\ ~ends => b.want = p.want
        /\ ends /\ p.want = "keytext" => b.want = "colon"
        /\ ends /\ p.want = "string" => b.out = Append(p.out, <<"string", p.i>>)
    BY <1>1, <2>1, <2>2, InStringIs
  <2> HIDE DEF ends
  <2>4. b.want = "nothing" => b.out = Append(p.out, <<"string", p.i>>)
    BY <2>2, <2>3
  <2>5. Len(Append(p.out, <<"string", p.i>>)) > Len(p.out)
    BY <1>2
  <2>6. a.want # "nothing" /\ a.out = p.out
    BY <1>2, <1>4
  <2> QED  BY <2>4, <2>5, <2>6 DEF b
<1>5. CASE a.want \notin {"string", "keytext"} /\ ~Blank(c)
  <2>1. b = Outside(p, c)
    BY <1>5, StepIs DEF Plain
  <2>2. ~p.bad /\ ~p.odd /\ ~b.bad /\ ~b.odd
    BY <1>1 DEF Alike, Plain
  <2> HIDE DEF p, b
  <2>3. Defined(p, c, b)
    BY <1>1, <2>1, <2>2, OutsideIs
  <2>4. p.want # "nothing"
    <3>1. p.want = "nothing" => p.open = << >>
      BY <1>1 DEF Shaped
    <3> QED  BY <2>3, <3>1 DEF Defined, OpensString, OpensKey, EndsKey, Opens, Separates, Closes
  <2>5. b.want = "nothing" => b.out = Append(p.out, <<c, p.i>>)
    BY <2>3 DEF Defined, OpensString, OpensKey, EndsKey, Opens, Separates, Closes
  <2>6. Len(Append(p.out, <<c, p.i>>)) > Len(p.out)
    BY <1>2
  <2> QED  BY <1>2, <2>4, <2>5, <2>6 DEF b
<1>6. a.want \notin {"string", "keytext"} /\ Blank(c) => b = p
  BY StepIs DEF Plain
<1> QED  BY <1>3, <1>4, <1>5, <1>6

\* Nothing comes after the end of the root, and it is reached by an event.
LEMMA Ending ==
  ASSUME NEW d \in Seq(STRING), Plain(Scan(d)), NEW n \in 0 .. Len(d), NEW c \in 0 .. n
  PROVE  /\ At(d, c).want = "nothing" => At(d, n).want = "nothing" /\ At(d, n).out = At(d, c).out
         /\ At(d, c).want # "nothing" /\ At(d, n).want = "nothing" => Len(At(d, n).out) > Len(At(d, c).out)
<1> DEFINE Ok(m) == /\ At(d, c).want = "nothing" => At(d, m).want = "nothing" /\ At(d, m).out = At(d, c).out
                    /\ At(d, c).want # "nothing" /\ At(d, m).want = "nothing"
                         => Len(At(d, m).out) > Len(At(d, c).out)
           bad == {m \in 0 .. Len(d) : c <= m /\ ~Ok(m)}
<1>1. /\ Len(d) \in Nat
      /\ \A m \in 0 .. Len(d) : Shaped(At(d, m)) /\ At(d, m).i = m
      /\ \A m \in 1 .. Len(d) : At(d, m) = ScanStep(At(d, m - 1), d[m]) /\ m - 1 \in 0 .. Len(d)
  BY ScanAt
<1>2. bad = {}
  <2> SUFFICES ASSUME bad # {}  PROVE FALSE
    OBVIOUS
  <2>1. PICK m \in bad : \A j \in bad : m <= j
    <3>1. bad \subseteq Nat
      OBVIOUS
    <3> HIDE DEF bad
    <3> QED  BY <3>1, LeastOf
  <2>2. CASE m = c
    BY <2>1, <2>2
  <2>3. CASE m # c
    <3>1. m \in 1 .. Len(d) /\ m - 1 \in 0 .. Len(d) /\ c <= m - 1 /\ ~(m <= m - 1) /\ c \in 0 .. Len(d)
      BY <1>1, <2>1, <2>3
    <3>2. m - 1 \notin bad
      <4> HIDE DEF bad
      <4> QED  BY <2>1, <3>1
    <3>3. Ok(m - 1)
      BY <3>1, <3>2
    <3>4. Plain(At(d, m - 1)) /\ Plain(At(d, m))
      BY <3>1, <2>1, PlainAt
    <3> DEFINE a == At(d, m - 1)
               b == At(d, m)
               z == At(d, c)
    <3>5. /\ a.want = "nothing" => b.want = "nothing" /\ b.out = a.out
          /\ a.want # "nothing" /\ b.want = "nothing" => Len(b.out) > Len(a.out)
      BY <1>1, <3>1, <3>4, OnlyAnEventEnds
    <3>6. Len(z.out) <= Len(a.out)
      <4>1. c \in 0 .. m - 1
        BY <3>1
      <4> QED  BY <3>1, <4>1, Grows DEF Ahead
    <3>7. Len(z.out) \in Nat /\ Len(a.out) \in Nat /\ Len(b.out) \in Nat
      <4>1. Shaped(z) /\ Shaped(a) /\ Shaped(b)
        BY <1>1, <3>1
      <4> HIDE DEF a, b, z
      <4> QED  BY <4>1, OutIs
    <3>8. Ok(m)
      <4> HIDE DEF a, b, z
      <4>1. /\ z.want = "nothing" => b.want = "nothing" /\ b.out = z.out
            /\ z.want # "nothing" /\ b.want = "nothing" => Len(b.out) > Len(z.out)
        BY <3>3, <3>5, <3>6, <3>7 DEF a, z
      <4> QED  BY <4>1 DEF b, z
    <3> QED  BY <2>1, <3>8
  <2> QED  BY <2>2, <2>3
<1> QED  BY <1>1, <1>2

\* Blanks outside of strings change nothing.
LEMMA BlankRun ==
  ASSUME NEW d \in Seq(STRING), NEW n \in 0 .. Len(d), NEW c \in 0 .. n,
         Plain(At(d, c)), At(d, c).want \notin {"string", "keytext"}, \A k \in c + 1 .. n : Blank(d[k])
  PROVE  Alike(At(d, c), At(d, n))
<1> DEFINE bad == {m \in 0 .. n : c <= m /\ ~Alike(At(d, c), At(d, m))}
<1>1. /\ Len(d) \in Nat
      /\ \A m \in 0 .. Len(d) : Shaped(At(d, m))
      /\ \A m \in 1 .. Len(d) : At(d, m) = ScanStep(At(d, m - 1), d[m]) /\ m - 1 \in 0 .. Len(d)
  BY ScanAt
<1>2. bad = {}
  <2> SUFFICES ASSUME bad # {}  PROVE FALSE
    OBVIOUS
  <2>1. PICK m \in bad : \A j \in bad : m <= j
    <3>1. bad \subseteq Nat
      OBVIOUS
    <3> HIDE DEF bad
    <3> QED  BY <3>1, LeastOf
  <2>2. CASE m = c
    BY <2>1, <2>2 DEF Alike
  <2>3. CASE m # c
    <3>1. m \in 1 .. Len(d) /\ m - 1 \in 0 .. n /\ c <= m - 1 /\ ~(m <= m - 1) /\ m \in c + 1 .. n
      BY <1>1, <2>1, <2>3
    <3>2. m - 1 \notin bad
      <4> HIDE DEF bad
      <4> QED  BY <2>1, <3>1
    <3> DEFINE a == At(d, c)
               b == At(d, m - 1)
    <3>3. Alike(a, b)
      BY <3>1, <3>2
    <3>4. Shaped(b) /\ Blank(d[m]) /\ At(d, m) = ScanStep(b, d[m])
      BY <1>1, <3>1
    <3>5. Plain(b) /\ b.want \notin {"string", "keytext"}
      BY <3>3 DEF Alike, Plain
    <3> HIDE DEF a, b
    <3>6. At(d, m) = Placed(b)
      BY <3>4, <3>5, StepIs DEF Plain
    <3>7. Alike(b, At(d, m))
      BY <3>4, <3>6, PlacedIs
    <3>8. Alike(a, At(d, m))
      BY <3>3, <3>7 DEF Alike
    <3> QED  BY <2>1, <3>8 DEF a
  <2> QED  BY <2>2, <2>3
<1> QED  BY <1>1, <1>2

-----------------------------------------------------------------------------
(* What the parser's operators do where the scan is known: what next_value *)
(* and parse_and_set_string read, and the stack.                           *)

States == {"value", "object", "array", "end"}

Parsers == [state : States, stack : Seq(States), buffer : Seq(STRING), pos : Nat,
            status : {"ok", "thrown", "wild", "refused"}, event : Names \cup {"none"}]

\* The parser has used the first c characters of d; it may have read one more.
Used(d, P, c) ==
    /\ c \in 0 .. Len(d)
    /\ \/ P.buffer = << >> /\ P.pos = c
       \/ /\ c + 1 \in 1 .. Len(d) /\ ~Blank(d[c + 1])
          /\ P.buffer = <<d[c + 1]>> /\ P.pos = c + 1

\* The parser with character m in front.
Reading(P, m) == [P EXCEPT !.buffer = <<json[m]>>, !.pos = m]

LEMMA MinIs ==
  ASSUME NEW S, S \subseteq Nat, S # {}
  PROVE  Min(S) \in S /\ \A k \in S : Min(S) <= k
<1>1. \E i \in S : \A j \in S : i <= j
  BY LeastOf
<1> QED  BY <1>1, Zenon DEF Min

LEMMA OneOf ==
  ASSUME NEW S, NEW s \in Seq(S), NEW q \in 1 .. Len(s)
  PROVE  SubSeq(s, q, q) = <<s[q]>>
<1> DEFINE t == SubSeq(s, q, q)
<1>1. /\ q \in Nat /\ Len(s) \in Nat /\ s[q] \in S
  OBVIOUS
<1>2. t \in Seq(S) /\ Len(t) = 1
  BY <1>1
<1>3. t[1] = s[q]
  BY <1>1
<1>4. <<s[q]>> \in Seq(S) /\ Len(<<s[q]>>) = 1 /\ <<s[q]>>[1] = s[q]
  BY <1>1
<1> DEFINE u == <<s[q]>>
<1> HIDE DEF t, u
<1>5. t = u
  BY <1>2, <1>3, <1>4, SeqEqual DEF u
<1> QED  BY <1>5 DEF t, u

LEMMA FrontedOne ==
  ASSUME NEW P \in Parsers, NEW x \in STRING, ~Blank(x), P.buffer = <<x>>
  PROVE  Fronted(P, P.pos) = [P EXCEPT !.buffer = <<x>>, !.pos = P.pos]
<1> DEFINE t == SubSeq(json, P.pos + 1, P.pos)
           s == P.buffer \o t
           I == {i \in 1 .. Len(s) : ~Blank(s[i])}
<1>1. P.pos \in Nat
  BY DEF Parsers
<1>2. t = << >>
  BY <1>1
<1> HIDE DEF t
<1>3. s = <<x>>
  BY <1>2
<1>4. Len(s) = 1 /\ s[1] = x /\ SubSeq(s, 1, Len(s)) = <<x>>
  <2> HIDE DEF s
  <2>1. s \in Seq(STRING) /\ Len(s) = 1 /\ s[1] = x
    BY <1>3
  <2>2. SubSeq(s, 1, 1) = <<s[1]>>
    BY <2>1, OneOf
  <2> QED  BY <2>1, <2>2
<1> HIDE DEF s
<1>5. I = {1}
  BY <1>4
<1> HIDE DEF I
<1>6. Min(I) = 1
  BY <1>5 DEF Min
<1>7. SelectInSeq(s, LAMBDA c : ~Blank(c)) = 1
  BY <1>5, <1>6 DEF SelectInSeq, I
<1> DEFINE j == SelectInSeq(s, LAMBDA c : ~Blank(c))
<1>8. Fronted(P, P.pos) = IF j = 0 THEN Wild(P)
                          ELSE [P EXCEPT !.buffer = SubSeq(s, j, Len(s)), !.pos = P.pos]
  BY Zenon DEF Fronted, s, t, j
<1>9. j = 1
  BY <1>7 DEF j
<1> HIDE DEF j
<1>10. Fronted(P, P.pos) = [P EXCEPT !.buffer = SubSeq(s, 1, Len(s)), !.pos = P.pos]
  <2> DEFINE w == Wild(P)
  <2> HIDE DEF w
  <2>1. Fronted(P, P.pos) = IF j = 0 THEN w ELSE [P EXCEPT !.buffer = SubSeq(s, j, Len(s)), !.pos = P.pos]
    BY <1>8 DEF w
  <2> QED  BY <1>9, <2>1
<1> QED  BY <1>4, <1>10, Zenon

LEMMA FrontedMore ==
  ASSUME json \in Seq(STRING), NEW P \in Parsers, P.buffer = << >>, NEW m \in P.pos + 1 .. Len(json),
         ~Blank(json[m]), \A k \in P.pos + 1 .. m - 1 : Blank(json[k])
  PROVE  Fronted(P, m) = Reading(P, m)
<1> DEFINE p == P.pos
           t == SubSeq(json, p + 1, m)
           s == P.buffer \o t
           I == {i \in 1 .. Len(s) : ~Blank(s[i])}
<1>1. p \in Nat /\ m \in Nat /\ m > p /\ Len(json) \in Nat /\ \A k \in 1 .. Len(json) : json[k] \in STRING
  BY DEF Parsers
<1>2. t \in Seq(STRING) /\ Len(t) = m - p /\ \A i \in 1 .. m - p : t[i] = json[p + i]
  <2> HIDE DEF p
  <2>1. m <= Len(json)
    OBVIOUS
  <2> QED  BY <1>1, <2>1
<1>3. s = t
  <2> HIDE DEF t
  <2> QED  BY <1>2
<1> HIDE DEF s, t
<1>4. I \subseteq Nat /\ I = {m - p}
  <2>1. \A i \in 1 .. m - p : i # m - p => Blank(t[i])
    <3> HIDE DEF p
    <3> TAKE i \in 1 .. m - p
    <3>1. i # m - p => p + i \in p + 1 .. m - 1
      BY <1>1
    <3> QED  BY <1>2, <3>1 DEF p
  <2>2. ~Blank(t[m - p])
    <3> HIDE DEF p
    <3>1. p + (m - p) = m /\ m - p \in 1 .. m - p
      BY <1>1
    <3>2. t[m - p] = json[p + (m - p)]
      BY <1>2, <3>1
    <3> QED  BY <3>1, <3>2
  <2> HIDE DEF p
  <2>3. m - p \in 1 .. Len(s)
    BY <1>1, <1>2, <1>3
  <2> QED  BY <1>1, <1>2, <1>3, <2>1, <2>2, <2>3
<1> HIDE DEF p, I
<1>5. Min(I) = m - p
  BY <1>4 DEF Min
<1>6. SelectInSeq(s, LAMBDA c : ~Blank(c)) = m - p
  BY <1>4, <1>5 DEF SelectInSeq, I
<1>7. SubSeq(s, m - p, Len(s)) = <<json[m]>>
  <2>1. t[m - p] = json[p + (m - p)] /\ p + (m - p) = m /\ m - p \in 1 .. Len(t) /\ Len(t) = m - p
    BY <1>1, <1>2
  <2> DEFINE q == m - p
  <2> HIDE DEF q
  <2>2. q \in Nat /\ q > 0 /\ Len(t) = q /\ t[q] = json[m]
    BY <1>1, <2>1 DEF q
  <2>3. SubSeq(t, q, q) = <<t[q]>>
    BY <1>2, <2>2, OneOf
  <2> QED  BY <1>3, <2>2, <2>3 DEF q
<1>8. m - p # 0
  BY <1>1
<1> QED  BY <1>6, <1>7, <1>8 DEF Fronted, s, t, p, Reading

LEMMA FrontedNone ==
  ASSUME json \in Seq(STRING), NEW P \in Parsers, P.buffer = << >>, P.pos \in 0 .. Len(json),
         \A k \in P.pos + 1 .. Len(json) : Blank(json[k])
  PROVE  Fronted(P, Len(json)) = Wild(P)
<1> DEFINE p == P.pos
           n == Len(json)
           t == SubSeq(json, p + 1, n)
           s == P.buffer \o t
           I == {i \in 1 .. Len(s) : ~Blank(s[i])}
<1>1. p \in Nat /\ n \in Nat /\ p <= n /\ \A k \in 1 .. n : json[k] \in STRING
  BY DEF Parsers
<1>2. t \in Seq(STRING) /\ Len(t) = n - p /\ \A i \in 1 .. n - p : t[i] = json[p + i]
  <2> HIDE DEF p, n
  <2> QED  BY <1>1
<1>3. s = t
  <2> HIDE DEF t
  <2> QED  BY <1>2
<1> HIDE DEF s, t
<1>4. I = {}
  <2>1. \A i \in 1 .. n - p : Blank(t[i])
    <3> TAKE i \in 1 .. n - p
    <3>1. p + i \in p + 1 .. n
      <4> HIDE DEF p, n
      <4> QED  BY <1>1
    <3> QED  BY <1>2, <3>1
  <2> QED  BY <1>2, <1>3, <2>1
<1> HIDE DEF I
<1>6. SelectInSeq(s, LAMBDA c : ~Blank(c)) = 0
  BY <1>4 DEF SelectInSeq, I
<1> QED  BY <1>6 DEF Fronted, s, t, p, n

\* next_value: the next character that is not blank comes in front.
LEMMA NextValueIs ==
  ASSUME json \in Seq(STRING), NEW P \in Parsers, NEW c, Used(json, P, c)
  PROVE  \/ NextValue(P) = Wild(P) /\ \A k \in c + 1 .. Len(json) : Blank(json[k])
         \/ \E m \in c + 1 .. Len(json) :
              /\ ~Blank(json[m]) /\ \A k \in c + 1 .. m - 1 : Blank(json[k])
              /\ NextValue(P) = Reading(P, m)
<1>1. Len(json) \in Nat /\ c \in 0 .. Len(json)
  BY DEF Used
<1>2. CASE P.buffer = << >> /\ P.pos = c
  <2> DEFINE ahead == {n \in P.pos + 1 .. Len(json) : ~Blank(json[n])}
  <2>1. NextValue(P) = Fronted(P, NextAt(P))
    BY <1>2 DEF NextValue, InFront
  <2>2. CASE ahead = {}
    <3>1. NextAt(P) = Len(json)
      BY <2>2 DEF NextAt
    <3>2. \A k \in P.pos + 1 .. Len(json) : Blank(json[k])
      BY <2>2
    <3>3. NextValue(P) = Wild(P)
      BY <1>1, <1>2, <2>1, <3>1, <3>2, FrontedNone
    <3> QED  BY <1>2, <3>2, <3>3
  <2>3. CASE ahead # {}
    <3>1. NextAt(P) = Min(ahead)
      BY <2>3 DEF NextAt
    <3>2. ahead \subseteq Nat
      BY <1>1, <1>2
    <3> DEFINE m == Min(ahead)
    <3>3. m \in ahead /\ \A k \in ahead : m <= k
      <4> HIDE DEF ahead
      <4> QED  BY <2>3, <3>2, MinIs
    <3> HIDE DEF m
    <3>4. m \in c + 1 .. Len(json) /\ ~Blank(json[m])
      BY <1>2, <3>3
    <3>5. ASSUME NEW k \in c + 1 .. m - 1
          PROVE  Blank(json[k])
      <4>1. k \in c + 1 .. Len(json) /\ ~(m <= k)
        BY <1>1, <3>4
      <4>2. k \notin ahead
        <5> HIDE DEF ahead
        <5> QED  BY <3>3, <4>1
      <4> QED  BY <1>2, <4>1, <4>2
    <3>6. NextValue(P) = Reading(P, m)
      BY <1>2, <2>1, <3>1, <3>4, <3>5, FrontedMore DEF m
    <3> QED  BY <3>4, <3>5, <3>6
  <2> QED  BY <2>2, <2>3
<1>3. CASE /\ c + 1 \in 1 .. Len(json) /\ ~Blank(json[c + 1])
           /\ P.buffer = <<json[c + 1]>> /\ P.pos = c + 1
  <2>1. InFront(P)
    BY <1>3 DEF InFront
  <2>2. NextValue(P) = Reading(P, c + 1)
    <3>1. NextValue(P) = Fronted(P, P.pos)
      BY <2>1 DEF NextValue
    <3> DEFINE x == json[c + 1]
    <3>2. P.buffer = <<x>> /\ ~Blank(x) /\ x \in STRING
      BY <1>3
    <3> HIDE DEF x
    <3>3. Fronted(P, P.pos) = [P EXCEPT !.buffer = <<x>>, !.pos = P.pos]
      BY <3>2, FrontedOne
    <3> QED  BY <1>3, <3>1, <3>3 DEF Reading, x
  <2>3. c + 1 \in c + 1 .. Len(json) /\ \A k \in c + 1 .. (c + 1) - 1 : Blank(json[k])
    BY <1>1, <1>3
  <2> QED  BY <1>3, <2>2, <2>3
<1> QED  BY <1>2, <1>3 DEF Used

\* In the text that begins after the quote at m, up to n: what the scan counts is
\* what EndsString looks back at.
InText(m, n) ==
    LET z == At(json, m)
        a == At(json, n)
    IN /\ a.want = z.want /\ a.open = z.open /\ a.out = z.out
       /\ a.slashes \in 0 .. 2
       /\ a.slashes = 0 => n = m \/ json[n] # Backslash
       /\ a.slashes = 1 => n > m /\ json[n] = Backslash /\ (n - 1 = m \/ json[n - 1] # Backslash)
       /\ a.slashes = 2 => n - 1 > m /\ json[n] = Backslash /\ json[n - 1] = Backslash

\* Once the text that began as z is over at j.
Closed(z, j, b) ==
    /\ b.open = z.open
    /\ z.want = "keytext" => b.want = "colon" /\ b.out = z.out
    /\ z.want = "string" => /\ b.want = IF z.open = << >> THEN "nothing" ELSE "separator"
                            /\ b.out = Append(z.out, <<"string", j>>)

LEMMA TextStep ==
  ASSUME json \in Seq(STRING), Plain(Scan(json)), NEW m \in 1 .. Len(json), NEW n \in m .. Len(json) - 1,
         At(json, m).want \in {"string", "keytext"}, InText(m, n)
  PROVE  IF EndsString(m, n + 1) THEN Closed(At(json, m), n + 1, At(json, n + 1)) ELSE InText(m, n + 1)
<1> DEFINE j == n + 1
           z == At(json, m)
           a == At(json, n)
           p == Placed(a)
           b == At(json, j)
           c == json[j]
<1>1. /\ Len(json) \in Nat /\ m \in Nat /\ n \in Nat /\ j \in 1 .. Len(json) /\ j - 1 = n /\ j - 2 = n - 1
      /\ n \in 0 .. Len(json) /\ m <= n /\ j # m /\ j > m
  <2>1. Len(json) \in Nat
    OBVIOUS
  <2> QED  BY <2>1
<1>2. /\ Shaped(a) /\ a.i = n /\ Shaped(b) /\ b.i = j /\ b = ScanStep(a, c)
  <2>1. b = ScanStep(At(json, j - 1), json[j])
    BY <1>1, ScanAt
  <2>2. Shaped(a) /\ a.i = n /\ Shaped(b) /\ b.i = j
    BY <1>1, ScanAt
  <2> QED  BY <1>1, <2>1, <2>2
<1>3. Plain(a) /\ Plain(b)
  BY <1>1, PlainAt
<1>4. /\ a.want = z.want /\ a.open = z.open /\ a.out = z.out /\ a.slashes \in 0 .. 2
      /\ a.slashes = 0 => n = m \/ json[n] # Backslash
      /\ a.slashes = 1 => n > m /\ json[n] = Backslash /\ (n - 1 = m \/ json[n - 1] # Backslash)
      /\ a.slashes = 2 => n - 1 > m /\ json[n] = Backslash /\ json[n - 1] = Backslash
  BY DEF InText
<1>5. EndsString(m, j) <=> c = Quote /\ (n > m /\ json[n] = Backslash => n - 1 > m /\ json[n - 1] = Backslash)
  BY <1>1 DEF EndsString
<1>6. EndsString(m, j) <=> c = Quote /\ a.slashes # 1
  <2> HIDE DEF a, c
  <2> QED  BY <1>1, <1>4, <1>5
<1>7. Shaped(p) /\ Alike(a, p) /\ p.i = j
  BY <1>2, PlacedIs
<1>8. /\ p.want = z.want /\ p.open = z.open /\ p.out = z.out /\ p.slashes = a.slashes /\ ~p.odd
      /\ p.want \in {"string", "keytext"}
  BY <1>3, <1>4, <1>7 DEF Alike, Plain
<1>9. b = InString(p, c)
  BY <1>2, <1>3, <1>4, StepIs DEF Plain
<1>10. ~b.odd
  BY <1>3 DEF Plain
<1>11. (p.slashes % 2 = 1) <=> a.slashes = 1
  <2> HIDE DEF a, p
  <2>1. a.slashes = 0 \/ a.slashes = 1 \/ a.slashes = 2
    BY <1>4
  <2> QED  BY <1>8, <2>1
<1> HIDE DEF z, a, p, b, c
<1> DEFINE ends == c # Backslash /\ ~(c # Quote \/ p.slashes % 2 = 1)
<1>12. /\ b.open = p.open
       /\ ~ends => b.want = p.want /\ b.out = p.out
       /\ c = Backslash => b.slashes = p.slashes + 1 /\ b.odd = (p.odd \/ p.slashes = 2)
       /\ c # Backslash /\ ~ends => b.slashes = 0
       /\ ends /\ p.want = "keytext" => b.want = "colon" /\ b.out = p.out
       /\ ends /\ p.want = "string" =>
            /\ b.want = IF p.open = << >> THEN "nothing" ELSE "separator"
            /\ b.out = Append(p.out, <<"string", p.i>>)
  BY <1>7, <1>8, <1>9, InStringIs, ZenonT(60)
<1>13. Backslash # Quote
  BY Characters
<1>14. ends <=> EndsString(m, j)
  BY <1>6, <1>11, <1>13
<1> HIDE DEF ends
<1>15. CASE EndsString(m, j)
  <2>1. Closed(z, j, b)
    BY <1>7, <1>8, <1>12, <1>14, <1>15 DEF Closed
  <2> QED  BY <1>15, <2>1 DEF z, b
<1>16. CASE ~EndsString(m, j)
  <2>1. b.want = z.want /\ b.open = z.open /\ b.out = z.out
    BY <1>8, <1>12, <1>14, <1>16
  <2>2. CASE c = Backslash
    <3>1. a.slashes # 2
      BY <1>8, <1>10, <1>12, <2>2
    <3>2. b.slashes = a.slashes + 1
      BY <1>8, <1>12, <2>2
    <3>3. CASE a.slashes = 0
      <4>1. b.slashes = 1 /\ j > m /\ c = Backslash /\ (j - 1 = m \/ json[j - 1] # Backslash)
        BY <1>1, <1>4, <2>2, <3>2, <3>3
      <4> QED  BY <1>16, <2>1, <4>1 DEF InText, z, b, c
    <3>4. CASE a.slashes = 1
      <4>1. b.slashes = 2 /\ j - 1 > m /\ c = Backslash /\ json[j - 1] = Backslash
        BY <1>1, <1>4, <2>2, <3>2, <3>4
      <4> QED  BY <1>16, <2>1, <4>1 DEF InText, z, b, c
    <3> QED  BY <1>4, <3>1, <3>3, <3>4
  <2>3. CASE c # Backslash
    <3>1. b.slashes = 0
      BY <1>12, <1>14, <1>16, <2>3
    <3> QED  BY <1>16, <2>1, <2>3, <3>1 DEF InText, z, b, c
  <2> QED  BY <2>2, <2>3
<1> QED  BY <1>15, <1>16

LEMMA TextRun ==
  ASSUME json \in Seq(STRING), Plain(Scan(json)), NEW m \in 1 .. Len(json), NEW n \in m .. Len(json),
         At(json, m).want \in {"string", "keytext"}, At(json, m).slashes = 0,
         \A k \in m + 1 .. n : ~EndsString(m, k)
  PROVE  InText(m, n)
<1> DEFINE bad == {k \in m .. n : ~InText(m, k)}
<1>1. Len(json) \in Nat
  OBVIOUS
<1>2. bad = {}
  <2> SUFFICES ASSUME bad # {}  PROVE FALSE
    OBVIOUS
  <2>1. PICK k \in bad : \A j \in bad : k <= j
    <3>1. bad \subseteq Nat
      BY <1>1
    <3> HIDE DEF bad
    <3> QED  BY <3>1, LeastOf
  <2>2. CASE k = m
    <3>1. InText(m, m)
      BY DEF InText
    <3> QED  BY <2>1, <2>2, <3>1
  <2>3. CASE k # m
    <3> DEFINE l == k - 1
    <3>1. l \in m .. n /\ l \in m .. Len(json) - 1 /\ l + 1 = k /\ k \in m + 1 .. n /\ ~(k <= l)
      BY <1>1, <2>1, <2>3
    <3>2. l \notin bad
      <4> HIDE DEF bad, l
      <4> QED  BY <2>1, <3>1
    <3>3. InText(m, l)
      BY <3>1, <3>2
    <3> HIDE DEF l
    <3>4. IF EndsString(m, l + 1) THEN Closed(At(json, m), l + 1, At(json, l + 1)) ELSE InText(m, l + 1)
      BY <3>1, <3>3, TextStep
    <3>5. ~EndsString(m, l + 1)
      BY <3>1
    <3>6. InText(m, l + 1)
      BY <3>4, <3>5, Zenon
    <3> QED  BY <2>1, <3>1, <3>6
  <2> QED  BY <2>2, <2>3
<1> QED  BY <1>1, <1>2

\* parse_and_set_string ends where the scan says.
LEMMA ParseStringIs ==
  ASSUME json \in Seq(STRING), Plain(Scan(json)), NEW m \in 1 .. Len(json),
         At(json, m).want \in {"string", "keytext"}, At(json, m).slashes = 0,
         NEW P \in Parsers, P.buffer = <<json[m]>>, P.pos = m
  PROVE  \/ ParseString(P) = Wild(P) /\ At(json, Len(json)).want # "nothing"
         \/ \E j \in m + 1 .. Len(json) :
              /\ ParseString(P) = [P EXCEPT !.buffer = << >>, !.pos = j]
              /\ Closed(At(json, m), j, At(json, j))
<1> DEFINE ends == {j \in P.pos + 1 .. Len(json) : EndsString(P.pos, j)}
<1>1. Len(json) \in Nat /\ m \in Nat /\ m <= Len(json)
  OBVIOUS
<1>2. Tail(P.buffer) = << >>
  OBVIOUS
<1>3. CASE ends = {}
  <2>1. ParseString(P) = Wild(P)
    BY <1>3, Zenon DEF ParseString
  <2>2. \A k \in m + 1 .. Len(json) : ~EndsString(m, k)
    BY <1>3
  <2>3. Len(json) \in m .. Len(json)
    BY <1>1
  <2>4. InText(m, Len(json))
    BY <2>2, <2>3, TextRun
  <2>5. At(json, Len(json)).want # "nothing"
    BY <2>4 DEF InText
  <2> QED  BY <2>1, <2>5
<1>4. CASE ends # {}
  <2>1. ParseString(P) = [P EXCEPT !.buffer = Tail(@), !.pos = Min(ends)]
    BY <1>4, Zenon DEF ParseString
  <2> DEFINE j == Min(ends)
  <2>2. ends \subseteq Nat
    BY <1>1
  <2>3. j \in ends /\ \A k \in ends : j <= k
    <3> HIDE DEF ends
    <3> QED  BY <1>4, <2>2, MinIs
  <2> HIDE DEF j
  <2>4. j \in m + 1 .. Len(json) /\ EndsString(m, j)
    BY <2>3
  <2> DEFINE n == j - 1
  <2>5. n \in m .. Len(json) /\ n \in m .. Len(json) - 1 /\ n + 1 = j
    BY <1>1, <2>4
  <2>6. ASSUME NEW k \in m + 1 .. n
        PROVE  ~EndsString(m, k)
    <3>1. k \in P.pos + 1 .. Len(json) /\ ~(j <= k)
      BY <1>1, <2>4
    <3>2. k \notin ends
      <4> HIDE DEF ends
      <4> QED  BY <2>3, <3>1
    <3> QED  BY <3>1, <3>2
  <2> HIDE DEF n
  <2>7. InText(m, n)
    BY <2>5, <2>6, TextRun
  <2>8. IF EndsString(m, n + 1) THEN Closed(At(json, m), n + 1, At(json, n + 1)) ELSE InText(m, n + 1)
    BY <2>5, <2>7, TextStep
  <2>9. EndsString(m, n + 1)
    BY <2>4, <2>5
  <2>10. Closed(At(json, m), n + 1, At(json, n + 1))
    BY <2>8, <2>9, Zenon
  <2>11. Closed(At(json, m), j, At(json, j))
    BY <2>5, <2>10
  <2>12. ParseString(P) = [P EXCEPT !.buffer = << >>, !.pos = j]
    BY <1>2, <2>1 DEF j
  <2> QED  BY <2>4, <2>11, <2>12
<1> QED  BY <1>3, <1>4

StateOf(c) == IF c = "{" THEN "object" ELSE "array"

\* The states under and in the brackets that are open.
Tower(o) == [i \in 1 .. Len(o) + 1 |-> IF i = 1 THEN "end" ELSE StateOf(o[i - 1])]

\* A value that has a state of its own: the root, or that of a key.
Value(a) == a.want = "value" /\ Inside(a) # "["

\* The parser's state and stack are the scan's brackets.
Stacked(P, a) ==
    /\ Value(a) => P.state = "value" /\ P.stack = Tower(a.open)
    /\ ~Value(a) /\ a.open # << >> => P.state = StateOf(Last(a.open)) /\ P.stack = Tower(Front(a.open))
    /\ ~Value(a) /\ a.open = << >> => P.state = "end" /\ P.stack = << >>

LEMMA TowerIs ==
  ASSUME NEW o \in Seq(Brackets)
  PROVE  /\ Tower(o) \in Seq(States) /\ Len(Tower(o)) = Len(o) + 1 /\ Len(o) \in Nat
         /\ \A i \in 1 .. Len(o) + 1 : Tower(o)[i] = IF i = 1 THEN "end" ELSE StateOf(o[i - 1])
<1>1. Len(o) \in Nat
  OBVIOUS
<1>2. ASSUME NEW i \in 1 .. Len(o) + 1
      PROVE  (IF i = 1 THEN "end" ELSE StateOf(o[i - 1])) \in States
  BY DEF States, StateOf
<1> DEFINE n == Len(o) + 1
           F(i) == IF i = 1 THEN "end" ELSE StateOf(o[i - 1])
<1> HIDE DEF n, F
<1>3. n \in Nat /\ \A i \in 1 .. n : F(i) \in States
  BY <1>1, <1>2 DEF n, F
<1>4. [i \in 1 .. n |-> F(i)] \in Seq(States) /\ Len([i \in 1 .. n |-> F(i)]) = n
  BY <1>3
<1>5. Tower(o) = [i \in 1 .. n |-> F(i)]
  BY DEF Tower, n, F
<1> QED  BY <1>1, <1>4, <1>5 DEF n, F

LEMMA TowerTop ==
  ASSUME NEW o \in Seq(Brackets), NEW c \in Brackets
  PROVE  Tower(Append(o, c)) = Append(Tower(o), StateOf(c))
<1> DEFINE p == Append(o, c)
           s == Tower(o)
           t == Tower(p)
           x == StateOf(c)
<1>1. /\ p \in Seq(Brackets) /\ Len(p) = Len(o) + 1 /\ Len(o) \in Nat /\ p[Len(o) + 1] = c
      /\ \A i \in 1 .. Len(o) : p[i] = o[i]
  OBVIOUS
<1>2. x \in States
  BY DEF States, StateOf
<1>3. /\ s \in Seq(States) /\ Len(s) = Len(o) + 1
      /\ \A i \in 1 .. Len(o) + 1 : s[i] = IF i = 1 THEN "end" ELSE StateOf(o[i - 1])
  BY TowerIs
<1>4. /\ t \in Seq(States) /\ Len(t) = Len(p) + 1
      /\ \A i \in 1 .. Len(p) + 1 : t[i] = IF i = 1 THEN "end" ELSE StateOf(p[i - 1])
  BY <1>1, TowerIs
<1> HIDE DEF p, s, t
<1>5. Append(s, x) \in Seq(States) /\ Len(Append(s, x)) = Len(t)
  BY <1>1, <1>2, <1>3, <1>4
<1>6. ASSUME NEW i \in 1 .. Len(t)
      PROVE  t[i] = Append(s, x)[i]
  <2>1. CASE i = Len(o) + 2
    <3>1. t[i] = StateOf(c) /\ Append(s, x)[i] = x
      BY <1>1, <1>2, <1>3, <1>4, <2>1
    <3> QED  BY <3>1
  <2>2. CASE i # Len(o) + 2
    <3>1. i \in 1 .. Len(o) + 1 /\ (i # 1 => i - 1 \in 1 .. Len(o))
      BY <1>1, <1>4, <2>2
    <3>2. Append(s, x)[i] = s[i]
      BY <1>2, <1>3, <3>1
    <3>3. t[i] = s[i]
      BY <1>1, <1>3, <1>4, <3>1
    <3> QED  BY <3>2, <3>3
  <2> QED  BY <2>1, <2>2
<1> DEFINE u == Append(s, x)
<1> HIDE DEF u
<1>7. t = u
  BY <1>4, <1>5, <1>6, SeqEqual DEF u
<1> QED  BY <1>7 DEF t, u, s, p, x

LEMMA TowerFront ==
  ASSUME NEW o \in Seq(Brackets)
  PROVE  /\ o = << >> => Tower(o) = <<"end">>
         /\ o # << >> => Tower(o) = Append(Tower(Front(o)), StateOf(Last(o)))
<1>1. CASE o = << >>
  <2>1. /\ Tower(o) \in Seq(States) /\ Len(Tower(o)) = 1 /\ Tower(o)[1] = "end"
    <3>1. Len(o) = 0
      BY <1>1
    <3>2. /\ Tower(o) \in Seq(States) /\ Len(Tower(o)) = Len(o) + 1
          /\ \A i \in 1 .. Len(o) + 1 : Tower(o)[i] = IF i = 1 THEN "end" ELSE StateOf(o[i - 1])
      BY TowerIs
    <3> DEFINE t == Tower(o)
    <3> HIDE DEF t
    <3>3. t \in Seq(States) /\ Len(t) = 1 /\ t[1] = "end"
      BY <3>1, <3>2 DEF t
    <3> QED  BY <3>3 DEF t
  <2> DEFINE t == Tower(o)
             u == <<"end">>
  <2>2. u \in Seq(States) /\ Len(u) = 1 /\ u[1] = "end"
    BY DEF States
  <2> HIDE DEF t, u
  <2>3. t = u
    BY <2>1, <2>2, SeqEqual DEF t
  <2> QED  BY <1>1, <2>3 DEF t, u
<1>2. CASE o # << >>
  <2> DEFINE f == Front(o)
             c == Last(o)
  <2>1. f \in Seq(Brackets) /\ c \in Brackets /\ o = Append(f, c)
    BY <1>2, FrontIs
  <2> HIDE DEF f, c
  <2>2. Tower(Append(f, c)) = Append(Tower(f), StateOf(c))
    BY <2>1, TowerTop
  <2>3. Tower(o) = Append(Tower(f), StateOf(c))
    BY <2>1, <2>2
  <2> QED  BY <1>2, <2>3 DEF f, c
<1> QED  BY <1>1, <1>2

\* Both ends of something appended.
LEMMA AppendEnds ==
  ASSUME NEW S, NEW s \in Seq(S), NEW x \in S
  PROVE  Front(Append(s, x)) = s /\ Last(Append(s, x)) = x
<1> DEFINE t == Append(s, x)
           n == Len(s)
           u == Front(t)
<1>1. t \in Seq(S) /\ Len(t) = n + 1 /\ n \in Nat /\ t[n + 1] = x /\ \A i \in 1 .. n : t[i] = s[i]
  OBVIOUS
<1> HIDE DEF t
<1>2. t # << >>
  BY <1>1
<1>3. u \in Seq(S) /\ Len(u) = n /\ (\A i \in 1 .. n : u[i] = t[i]) /\ Last(t) = x
  <2>1. /\ u \in Seq(S) /\ Len(u) = Len(t) - 1 /\ \A i \in 1 .. Len(t) - 1 : u[i] = t[i]
        /\ Last(t) = t[Len(t)]
    BY <1>1, <1>2, FrontIs
  <2>2. Len(t) - 1 = n
    BY <1>1
  <2> QED  BY <1>1, <2>1, <2>2
<1> HIDE DEF u
<1>4. u = s
  <2>1. Len(u) = Len(s) /\ \A i \in 1 .. Len(u) : u[i] = s[i]
    BY <1>1, <1>3
  <2> QED  BY <1>3, <2>1, SeqEqual
<1> QED  BY <1>3, <1>4 DEF u, t

\* end_of_value and the ends of arrays and objects: the bracket below comes back.
LEMMA PopIs ==
  ASSUME NEW P \in Parsers, NEW o \in Seq(Brackets), P.stack = Tower(o)
  PROVE  LET Q == Pop(P)
         IN /\ Q \in Parsers /\ Q.buffer = P.buffer /\ Q.pos = P.pos /\ Q.status = P.status
            /\ Q.event = P.event /\ Len(Q.stack) = Len(P.stack) - 1 /\ Len(P.stack) \in Nat
            /\ o = << >> => Q.state = "end" /\ Q.stack = << >>
            /\ o # << >> => Q.state = StateOf(Last(o)) /\ Q.stack = Tower(Front(o))
<1> DEFINE Q == Pop(P)
           f == Front(P.stack)
           l == Last(P.stack)
<1>1. P.stack \in Seq(States) /\ Len(P.stack) = Len(o) + 1 /\ Len(o) \in Nat
  BY TowerIs
<1>2. P.stack # << >>
  BY <1>1
<1>3. f \in Seq(States) /\ l \in States /\ Len(f) = Len(P.stack) - 1
  BY <1>1, <1>2, FrontIs
<1>4. Q = [P EXCEPT !.stack = f, !.state = l]
  BY DEF Pop
<1>5. o = << >> => l = "end" /\ f = << >>
  <2> SUFFICES ASSUME o = << >>  PROVE l = "end" /\ f = << >>
    OBVIOUS
  <2>1. P.stack = <<"end">>
    BY TowerFront
  <2>2. l = "end"
    BY <2>1, SMTT(30) DEF Last
  <2>3. Len(f) = 0
    BY <1>3, <2>1
  <2> HIDE DEF f
  <2> QED  BY <1>3, <2>2, <2>3
<1>6. o # << >> => l = StateOf(Last(o)) /\ f = Tower(Front(o))
  <2> SUFFICES ASSUME o # << >>  PROVE l = StateOf(Last(o)) /\ f = Tower(Front(o))
    OBVIOUS
  <2> DEFINE s == Tower(Front(o))
             x == StateOf(Last(o))
  <2>1. P.stack = Append(s, x)
    BY TowerFront
  <2>2. s \in Seq(States)
    <3>1. Front(o) \in Seq(Brackets)
      BY FrontIs
    <3> QED  BY <3>1, TowerIs
  <2>3. x \in States
    BY DEF StateOf, States
  <2> HIDE DEF s, x
  <2>4. Front(Append(s, x)) = s /\ Last(Append(s, x)) = x
    BY <2>2, <2>3, AppendEnds
  <2> QED  BY <2>1, <2>4 DEF s, x
<1> HIDE DEF f, l, Q
<1>7. /\ Q \in Parsers /\ Q.buffer = P.buffer /\ Q.pos = P.pos /\ Q.status = P.status
      /\ Q.event = P.event /\ Q.stack = f /\ Q.state = l
  BY <1>3, <1>4 DEF Parsers
<1> QED  BY <1>1, <1>3, <1>5, <1>6, <1>7 DEF Q

\* Going into a bracket or the value of a key.
LEMMA PushIs ==
  ASSUME NEW P \in Parsers, NEW o \in Seq(Brackets), o # << >>, P.stack = Tower(Front(o)),
         P.state = StateOf(Last(o)), NEW s \in States
  PROVE  LET Q == Push(P, s)
         IN /\ Q \in Parsers /\ Q.buffer = P.buffer /\ Q.pos = P.pos /\ Q.status = P.status
            /\ Q.event = P.event /\ Q.state = s /\ Q.stack = Tower(o) /\ Len(Q.stack) >= Len(P.stack)
            /\ Len(Q.stack) >= 1
<1> DEFINE Q == Push(P, s)
           t == Append(P.stack, P.state)
<1>1. t = Tower(o)
  BY TowerFront
<1>2. t \in Seq(States) /\ Len(t) = Len(P.stack) + 1 /\ Len(P.stack) \in Nat
  BY DEF Parsers
<1>3. Q = [P EXCEPT !.stack = t, !.state = s]
  BY DEF Push
<1> HIDE DEF Q, t
<1>4. /\ Q \in Parsers /\ Q.buffer = P.buffer /\ Q.pos = P.pos /\ Q.status = P.status
      /\ Q.event = P.event /\ Q.stack = t /\ Q.state = s
  BY <1>2, <1>3 DEF Parsers
<1> QED  BY <1>1, <1>2, <1>4 DEF Q

LEMMA ReturnIs ==
  ASSUME NEW P \in Parsers, P.status = "ok", NEW x \in STRING, P.buffer = <<x>>, NEW e \in Names
  PROVE  LET Q == ReturnValue(P, e)
         IN /\ Q \in Parsers /\ Q.buffer = << >> /\ Q.pos = P.pos /\ Q.status = "ok"
            /\ Q.event = e /\ Q.stack = P.stack /\ Q.state = P.state
<1> DEFINE Q == ReturnValue(P, e)
           t == Tail(P.buffer)
<1>1. t = << >> /\ P.buffer # << >>
  OBVIOUS
<1>2. Q = [P EXCEPT !.buffer = t, !.event = e]
  BY <1>1, Zenon DEF ReturnValue, Then
<1>2a. t \in Seq(STRING)
  BY <1>1
<1> HIDE DEF Q, t
<1>3. /\ Q \in Parsers /\ Q.buffer = t /\ Q.pos = P.pos /\ Q.status = P.status
      /\ Q.event = e /\ Q.stack = P.stack /\ Q.state = P.state
  BY <1>2, <1>2a DEF Parsers
<1> QED  BY <1>1, <1>3 DEF Q

\* The scan comes to character m as z, with all that a had.
Reached(a, m, z) ==
    /\ m \in 1 .. Len(json) /\ json[m] \in STRING
    /\ Shaped(z) /\ z.i = m /\ z.open = a.open /\ z.out = a.out /\ z.want = a.want
    /\ Defined(z, json[m], At(json, m)) /\ ~(json[m] = Quote /\ Inside(z) = "[")
    /\ Shaped(At(json, m))

LEMMA NextReaches ==
  ASSUME json \in Seq(STRING), Plain(Scan(json)), NEW P \in Parsers, NEW c, Used(json, P, c),
         At(json, c).want \notin {"string", "keytext"}
  PROVE  \/ NextValue(P) = Wild(P) /\ At(json, Len(json)).want = At(json, c).want
         \/ \E m \in c + 1 .. Len(json) :
              /\ m \in 1 .. Len(json) /\ NextValue(P) = Reading(P, m) /\ \E z : Reached(At(json, c), m, z)
<1> DEFINE a == At(json, c)
<1>1. Len(json) \in Nat /\ c \in 0 .. Len(json)
  BY DEF Used
<1>2. Shaped(a) /\ Plain(a)
  BY <1>1, ScanAt, PlainAt
<1>3. CASE NextValue(P) = Wild(P) /\ \A k \in c + 1 .. Len(json) : Blank(json[k])
  <2>1. Len(json) \in 0 .. Len(json) /\ c \in 0 .. Len(json)
    BY <1>1
  <2>2. Alike(a, At(json, Len(json)))
    BY <1>2, <1>3, <2>1, BlankRun
  <2> QED  BY <1>3, <2>2 DEF Alike
<1>4. ASSUME NEW m \in c + 1 .. Len(json), ~Blank(json[m]), \A k \in c + 1 .. m - 1 : Blank(json[k]),
             NextValue(P) = Reading(P, m)
      PROVE  m \in 1 .. Len(json) /\ \E z : Reached(a, m, z)
  <2> DEFINE n == m - 1
             y == At(json, n)
             z == Placed(y)
             b == At(json, m)
  <2>1. n \in 0 .. Len(json) /\ c \in 0 .. n /\ m \in 0 .. Len(json) /\ m \in 1 .. Len(json) /\ n + 1 = m
    BY <1>1, <1>4
  <2>2. Alike(a, y)
    <3>1. \A k \in c + 1 .. n : Blank(json[k])
      BY <1>4
    <3> HIDE DEF n
    <3> QED  BY <1>2, <2>1, <3>1, BlankRun
  <2>3. /\ Shaped(y) /\ y.i = n /\ Plain(y) /\ Shaped(b) /\ Plain(b) /\ b = ScanStep(y, json[m])
        /\ y.want \notin {"string", "keytext"}
    <3>1. b = ScanStep(At(json, m - 1), json[m])
      BY <2>1, ScanAt
    <3>2. Shaped(y) /\ y.i = n /\ Shaped(b)
      BY <2>1, ScanAt
    <3>3. Plain(y) /\ Plain(b)
      BY <2>1, PlainAt
    <3>4. y.want = a.want
      BY <2>2 DEF Alike
    <3> QED  BY <3>1, <3>2, <3>3, <3>4
  <2>4. Shaped(z) /\ Alike(y, z) /\ z.i = m
    <3> HIDE DEF y, n
    <3> QED  BY <2>1, <2>3, PlacedIs
  <2>5. b = Outside(z, json[m])
    <3> HIDE DEF y, b, n
    <3> QED  BY <1>4, <2>3, StepIs DEF Plain
  <2>6. z.open = a.open /\ z.out = a.out /\ z.want = a.want /\ ~z.bad /\ ~z.odd
    BY <2>2, <2>3, <2>4 DEF Alike, Plain
  <2>7. json[m] \in STRING
    BY <2>1
  <2> HIDE DEF a, y, b, n
  <2>8. Defined(z, json[m], b) /\ ~(json[m] = Quote /\ Inside(z) = "[")
    <3> HIDE DEF z
    <3> QED  BY <2>3, <2>4, <2>5, <2>6, OutsideIs DEF Plain
  <2> HIDE DEF z
  <2>9. Reached(a, m, z)
    BY <2>1, <2>3, <2>4, <2>6, <2>7, <2>8 DEF Reached, b
  <2> QED  BY <2>1, <2>9
<1>5. \/ NextValue(P) = Wild(P) /\ \A k \in c + 1 .. Len(json) : Blank(json[k])
      \/ \E m \in c + 1 .. Len(json) :
           /\ ~Blank(json[m]) /\ \A k \in c + 1 .. m - 1 : Blank(json[k])
           /\ NextValue(P) = Reading(P, m)
  BY NextValueIs
<1> QED  BY <1>3, <1>4, <1>5

LEMMA ReadingIs ==
  ASSUME json \in Seq(STRING), NEW P \in Parsers, NEW m \in 1 .. Len(json)
  PROVE  LET Q == Reading(P, m)
         IN /\ Q \in Parsers /\ Q.buffer = <<json[m]>> /\ Q.pos = m /\ Q.status = P.status
            /\ Q.event = P.event /\ Q.stack = P.stack /\ Q.state = P.state /\ json[m] \in STRING
<1> DEFINE Q == Reading(P, m)
           t == <<json[m]>>
<1>1. m \in Nat /\ json[m] \in STRING /\ t \in Seq(STRING)
  OBVIOUS
<1> DEFINE x == json[m]
<1> HIDE DEF t, Q
<1>2. Q = [P EXCEPT !.buffer = t, !.pos = m]
  BY DEF Reading, Q, t
<1>3. /\ Q \in Parsers /\ Q.buffer = t /\ Q.pos = m /\ Q.status = P.status
      /\ Q.event = P.event /\ Q.stack = P.stack /\ Q.state = P.state
  BY <1>1, <1>2 DEF Parsers
<1> QED  BY <1>1, <1>3 DEF Q, t

LEMMA WildIs ==
  ASSUME NEW P \in Parsers
  PROVE  /\ Wild(P) \in Parsers /\ Wild(P).status = "wild"
         /\ Throw(P) \in Parsers /\ Throw(P).status = "thrown"
  BY DEF Wild, Throw, Parsers

-----------------------------------------------------------------------------
(* One event: from between two events of the scan to the next, or a        *)
(* failure where the document is cut short.                                *)

Between == {"value", "separator", "key", "nothing"}

\* What has a state of its own is the value of a key, once the key is taken, or the root.
Goes(P, Q) ==
    /\ P.state = "value" => Q.event \in {"string", "{", "["}
    /\ Q.state = "value" => Q.event = "key"

LEMMA StatesOf ==
  ASSUME NEW c
  PROVE  StateOf(c) # "value"
  BY DEF StateOf

\* Q is P with one event more, the one that the scan has there.
Event(P, Q, out) ==
    /\ Q \in Parsers /\ Q.status = "ok" /\ Q.buffer = << >> /\ Q.pos \in 1 .. Len(json)
    /\ At(json, Q.pos).out = Append(out, <<Q.event, Q.pos>>) /\ At(json, Q.pos).want \in Between
    /\ Stacked(Q, At(json, Q.pos))
    /\ Q.event \in Names /\ Len(Q.stack) >= Len(P.stack) - 1
    /\ Q.event \in {"{", "["} => Len(Q.stack) >= 1
    /\ Goes(P, Q)

\* Q has failed on a document that is cut short.
Fails(Q) == Q \in Parsers /\ Q.status \in {"wild", "thrown"} /\ At(json, Len(json)).want # "nothing"

\* P is about to take character m.
Taking(P, m) ==
    /\ P \in Parsers /\ P.status = "ok" /\ P.buffer = <<json[m]>> /\ P.pos = m
    /\ Len(P.stack) \in Nat /\ Head(P.buffer) = json[m]

LEMMA TakingIs ==
  ASSUME json \in Seq(STRING), NEW P \in Parsers, P.status = "ok", NEW m \in 1 .. Len(json)
  PROVE  Taking(Reading(P, m), m)
<1> DEFINE Q == Reading(P, m)
<1>1. /\ Q \in Parsers /\ Q.buffer = <<json[m]>> /\ Q.pos = m /\ Q.status = "ok" /\ json[m] \in STRING
  BY ReadingIs
<1> HIDE DEF Q
<1>2. Len(Q.stack) \in Nat
  <2>1. Q.stack \in Seq(States)
    BY <1>1 DEF Parsers
  <2> HIDE DEF Q
  <2> QED  BY <2>1
<1>3. Head(Q.buffer) = json[m]
  BY <1>1
<1> QED  BY <1>1, <1>2, <1>3 DEF Taking, Q

Ready(P, a, m, z) == Reached(a, m, z) /\ Taking(P, m) /\ Stacked(P, a)

\* The string that begins at m, and where it ends.
LEMMA StringTaken ==
  ASSUME json \in Seq(STRING), Plain(Scan(json)), NEW P, NEW a, NEW m, NEW z, Ready(P, a, m, z),
         At(json, m).want \in {"string", "keytext"}, At(json, m).slashes = 0
  PROVE  \/ ParseString(P) = Wild(P) /\ Fails(Wild(P))
         \/ \E j \in m + 1 .. Len(json) :
              /\ ParseString(P) = [P EXCEPT !.buffer = << >>, !.pos = j]
              /\ j \in 1 .. Len(json) /\ Closed(At(json, m), j, At(json, j)) /\ Shaped(At(json, j))
<1>1. m \in 1 .. Len(json) /\ P \in Parsers /\ P.buffer = <<json[m]>> /\ P.pos = m
  BY DEF Ready, Reached, Taking
<1>2. \/ ParseString(P) = Wild(P) /\ At(json, Len(json)).want # "nothing"
      \/ \E j \in m + 1 .. Len(json) :
           /\ ParseString(P) = [P EXCEPT !.buffer = << >>, !.pos = j]
           /\ Closed(At(json, m), j, At(json, j))
  BY <1>1, ParseStringIs
<1>3. \A j \in m + 1 .. Len(json) : j \in 1 .. Len(json) /\ j \in 0 .. Len(json)
  <2>1. Len(json) \in Nat
    OBVIOUS
  <2> QED  BY <1>1, <2>1
<1>4. ASSUME NEW j \in m + 1 .. Len(json)
      PROVE  Shaped(At(json, j))
  BY <1>3, ScanAt
<1>5. CASE ParseString(P) = Wild(P) /\ At(json, Len(json)).want # "nothing"
  <2>1. Fails(Wild(P))
    BY <1>1, <1>5, WildIs DEF Fails
  <2> QED  BY <1>5, <2>1
<1> QED  BY <1>2, <1>3, <1>4, <1>5

LEMMA MovedIs ==
  ASSUME NEW P \in Parsers, P.status = "ok", NEW j \in Nat
  PROVE  LET R == [P EXCEPT !.buffer = << >>, !.pos = j]
         IN /\ R \in Parsers /\ R.status = "ok" /\ R.buffer = << >> /\ R.pos = j
            /\ R.stack = P.stack /\ R.state = P.state /\ R.event = P.event
<1> DEFINE t == << >>
<1>1. t \in Seq(STRING)
  OBVIOUS
<1> HIDE DEF t
<1>2. LET R == [P EXCEPT !.buffer = t, !.pos = j]
      IN /\ R \in Parsers /\ R.status = "ok" /\ R.buffer = t /\ R.pos = j
         /\ R.stack = P.stack /\ R.state = P.state /\ R.event = P.event
  BY <1>1 DEF Parsers
<1> QED  BY <1>2 DEF t

\* parse_value_state, for what is a value.
LEMMA ValueIs ==
  ASSUME json \in Seq(STRING), Plain(Scan(json)), NEW P, NEW a, NEW m, NEW z, Ready(P, a, m, z),
         P.state = "value", Value(a), Shaped(a)
  PROVE  Event(P, ValueState(P), a.out) \/ Fails(ValueState(P))
<1> DEFINE b == At(json, m)
           c == json[m]
           Q == ValueState(P)
<1>1. /\ P \in Parsers /\ P.status = "ok" /\ P.buffer = <<c>> /\ P.pos = m /\ Head(P.buffer) = c
      /\ Len(P.stack) \in Nat /\ c \in STRING /\ m \in 1 .. Len(json) /\ m \in Nat
  BY DEF Ready, Taking, Reached
<1>2. P.stack = Tower(a.open) /\ a.open \in Seq(Brackets)
  BY OutIs DEF Ready, Stacked
<1>3. z.want = "value" /\ z.open = a.open /\ z.out = a.out /\ z.i = m /\ Inside(z) # "[" /\ Shaped(b)
  BY DEF Ready, Reached, Value, Inside
<1>4. Defined(z, c, b)
  BY DEF Ready, Reached
<1>5. OpensString(z, c, b) \/ Opens(z, c, b)
  <2>1. ~Closes(z, c, b)
    BY <1>3 DEF Closes
  <2> QED  BY <1>3, <1>4, <2>1 DEF Defined, OpensKey, EndsKey, Separates
<1>6. CASE OpensString(z, c, b)
  <2>1. b.want = "string" /\ b.slashes = 0 /\ b.open = a.open /\ b.out = a.out /\ c = Quote
    BY <1>3, <1>6 DEF OpensString
  <2>2. Q = Then(ParseString(P), LAMBDA R : [Pop(R) EXCEPT !.event = "string"])
    <3> DEFINE S == ParseString(P)
    <3> HIDE DEF S
    <3>1. Quote \notin {"{", "["}
      BY Characters
    <3>2. Q = IF S.status = "ok" THEN [Pop(S) EXCEPT !.event = "string"] ELSE S
      BY <1>1, <2>1, <3>1 DEF ValueState, Then, S
    <3> QED  BY <3>2, Zenon DEF Then, S
  <2>3. \/ ParseString(P) = Wild(P) /\ Fails(Wild(P))
        \/ \E j \in m + 1 .. Len(json) :
             /\ ParseString(P) = [P EXCEPT !.buffer = << >>, !.pos = j]
             /\ j \in 1 .. Len(json) /\ Closed(b, j, At(json, j)) /\ Shaped(At(json, j))
    BY <2>1, StringTaken
  <2>4. CASE ParseString(P) = Wild(P) /\ Fails(Wild(P))
    <3>1. Wild(P).status # "ok"
      BY <1>1, WildIs
    <3>2. Q = Wild(P)
      BY <2>2, <2>4, <3>1, Zenon DEF Then
    <3> QED  BY <2>4, <3>2
  <2>5. ASSUME NEW j \in m + 1 .. Len(json),
               ParseString(P) = [P EXCEPT !.buffer = << >>, !.pos = j],
               j \in 1 .. Len(json), Closed(b, j, At(json, j)), Shaped(At(json, j))
        PROVE  Event(P, Q, a.out)
    <3> DEFINE R == [P EXCEPT !.buffer = << >>, !.pos = j]
               V == Pop(R)
               y == At(json, j)
    <3>1. j \in Nat
      BY <2>5
    <3>2. /\ R \in Parsers /\ R.status = "ok" /\ R.buffer = << >> /\ R.pos = j
          /\ R.stack = P.stack /\ R.state = P.state /\ R.event = P.event
      BY <1>1, <3>1, MovedIs
    <3>3. Q = [V EXCEPT !.event = "string"]
      <4>1. ParseString(P) = R
        BY <2>5
      <4> HIDE DEF R
      <4> QED  BY <2>2, <3>2, <4>1, Zenon DEF Then
    <3> HIDE DEF R
    <3>4. /\ V \in Parsers /\ V.buffer = << >> /\ V.pos = j /\ V.status = "ok"
          /\ Len(V.stack) = Len(P.stack) - 1
          /\ a.open = << >> => V.state = "end" /\ V.stack = << >>
          /\ a.open # << >> => V.state = StateOf(Last(a.open)) /\ V.stack = Tower(Front(a.open))
      BY <1>2, <3>2, PopIs
    <3>5. "string" \in Names
      BY DEF Names
    <3> DEFINE e == "string"
    <3> HIDE DEF V, e
    <3>6. /\ Q \in Parsers /\ Q.buffer = << >> /\ Q.pos = j /\ Q.status = "ok"
          /\ Q.stack = V.stack /\ Q.state = V.state /\ Q.event = e
      BY <3>3, <3>4, <3>5 DEF Parsers, e
    <3>7. /\ y.open = a.open /\ y.want = (IF a.open = << >> THEN "nothing" ELSE "separator")
          /\ y.out = Append(a.out, <<"string", j>>)
      BY <2>1, <2>5 DEF Closed
    <3> HIDE DEF Q, y, b
    <3>8. Stacked(Q, y)
      <4>1. ~Value(y)
        BY <3>7 DEF Value
      <4> QED  BY <3>4, <3>6, <3>7, <4>1 DEF Stacked
    <3>9. y.want \in Between
      BY <3>7 DEF Between
    <3>10. y.out = Append(a.out, <<Q.event, j>>)
      BY <3>6, <3>7 DEF e
    <3>11. Q.event \in Names /\ Q.event \notin {"{", "["}
      BY <3>5, <3>6 DEF e
    <3>12. Len(Q.stack) >= Len(P.stack) - 1
      BY <1>1, <3>4, <3>6
    <3>13. At(json, Q.pos) = y /\ Q.pos \in 1 .. Len(json)
      BY <2>5, <3>6 DEF y
    <3>14. Goes(P, Q)
      <4>1. Q.state # "value" /\ Q.event = "string"
        BY <3>4, <3>6, StatesOf DEF e
      <4> QED  BY <4>1 DEF Goes
    <3> QED  BY <3>6, <3>8, <3>9, <3>10, <3>11, <3>12, <3>13, <3>14 DEF Event
  <2> QED  BY <2>3, <2>4, <2>5
<1>7. CASE Opens(z, c, b)
  <2> DEFINE s == StateOf(c)
             W == [P EXCEPT !.state = s]
  <2>1. /\ c \in {"{", "["} /\ b.want = (IF c = "{" THEN "key" ELSE "value")
        /\ b.open = Append(a.open, c) /\ b.out = Append(a.out, <<c, m>>)
    BY <1>3, <1>7 DEF Opens
  <2>2. c \in Names /\ c \in Brackets
    BY <2>1 DEF Names, Brackets
  <2>3. Q = ReturnValue(W, c)
    <3>1. c # Quote
      BY <2>1, Characters
    <3>2. CASE c = "{"
      <4>1. Q = ReturnValue([P EXCEPT !.state = "object"], "{")
        BY <1>1, <3>1, <3>2 DEF ValueState
      <4>2. s = "object"
        BY <3>2 DEF StateOf
      <4> QED  BY <3>2, <4>1, <4>2, Zenon
    <3>3. CASE c = "["
      <4>1. Q = ReturnValue([P EXCEPT !.state = "array"], "[")
        BY <1>1, <3>1, <3>3 DEF ValueState
      <4>2. s = "array"
        BY <3>3 DEF StateOf
      <4> QED  BY <3>3, <4>1, <4>2, Zenon
    <3> QED  BY <2>1, <3>2, <3>3
  <2>4. s \in States
    BY DEF StateOf, States
  <2> HIDE DEF s
  <2>5. /\ W \in Parsers /\ W.status = "ok" /\ W.buffer = <<c>> /\ W.pos = m /\ W.stack = P.stack /\ W.state = s
    BY <1>1, <2>4 DEF Parsers
  <2> HIDE DEF W, Q
  <2>6. /\ Q \in Parsers /\ Q.buffer = << >> /\ Q.pos = m /\ Q.status = "ok"
        /\ Q.event = c /\ Q.stack = P.stack /\ Q.state = s
    BY <1>1, <2>2, <2>3, <2>5, ReturnIs
  <2>7. Last(b.open) = c /\ Front(b.open) = a.open /\ b.open # << >>
    <3>1. Front(Append(a.open, c)) = a.open /\ Last(Append(a.open, c)) = c
      BY <1>2, <2>2, AppendEnds
    <3>2. Append(a.open, c) # << >>
      BY <1>2, <2>2
    <3> QED  BY <2>1, <3>1, <3>2
  <2>8. ~Value(b)
    BY <2>1, <2>7 DEF Value, Inside
  <2>9. Stacked(Q, b)
    BY <1>2, <2>6, <2>7, <2>8 DEF Stacked, s
  <2>10. Len(P.stack) >= 1
    <3>1. Len(Tower(a.open)) = Len(a.open) + 1 /\ Len(a.open) \in Nat
      BY <1>2, TowerIs
    <3> QED  BY <1>2, <3>1
  <2>11. b.want \in Between
    BY <2>1 DEF Between
  <2>12. At(json, Q.pos) = b /\ Q.pos \in 1 .. Len(json)
    BY <1>1, <2>6
  <2> HIDE DEF b, c
  <2>13. b.out = Append(a.out, <<Q.event, Q.pos>>)
    BY <2>1, <2>6
  <2>14. Len(Q.stack) >= Len(P.stack) - 1 /\ Len(Q.stack) >= 1 /\ Q.event \in Names
    BY <1>1, <2>2, <2>6, <2>10
  <2>15. Goes(P, Q)
    <3>1. Q.state # "value" /\ Q.event \in {"{", "["}
      BY <2>1, <2>6, StatesOf DEF s
    <3> QED  BY <3>1 DEF Goes
  <2>16. Event(P, Q, a.out)
    BY <2>6, <2>9, <2>11, <2>12, <2>13, <2>14, <2>15, Zenon DEF Event
  <2> QED  BY <2>16 DEF Q
<1> QED  BY <1>5, <1>6, <1>7

\* What comes together when P takes character m of the scan.
Known(P, a, m, z) ==
    /\ P \in Parsers /\ P.status = "ok" /\ P.buffer = <<json[m]>> /\ P.pos = m /\ Head(P.buffer) = json[m]
    /\ Len(P.stack) \in Nat /\ json[m] \in STRING /\ m \in 1 .. Len(json)
    /\ a.open \in Seq(Brackets) /\ z.want = a.want /\ z.open = a.open /\ z.out = a.out /\ z.i = m
    /\ Inside(z) = Inside(a) /\ Shaped(At(json, m)) /\ Defined(z, json[m], At(json, m))
    /\ ~(json[m] = Quote /\ Inside(z) = "[") /\ Shaped(z)
    /\ ~Value(a) /\ a.open # << >> =>
         /\ P.state = StateOf(Last(a.open)) /\ P.stack = Tower(Front(a.open))

LEMMA ReadyHas ==
  ASSUME NEW P, NEW a, NEW m, NEW z, Ready(P, a, m, z), Shaped(a)
  PROVE  Known(P, a, m, z)
<1>1. /\ P \in Parsers /\ P.status = "ok" /\ P.buffer = <<json[m]>> /\ P.pos = m /\ Head(P.buffer) = json[m]
      /\ Len(P.stack) \in Nat
  BY DEF Ready, Taking
<1>2. /\ json[m] \in STRING /\ m \in 1 .. Len(json) /\ z.want = a.want /\ z.open = a.open /\ z.out = a.out
      /\ z.i = m /\ Shaped(At(json, m)) /\ Defined(z, json[m], At(json, m))
      /\ ~(json[m] = Quote /\ Inside(z) = "[") /\ Shaped(z)
  BY Zenon DEF Ready, Reached
<1>3. Inside(z) = Inside(a)
  BY <1>2 DEF Inside
<1>4. a.open \in Seq(Brackets)
  BY OutIs
<1>5. ~Value(a) /\ a.open # << >> => P.state = StateOf(Last(a.open)) /\ P.stack = Tower(Front(a.open))
  BY Zenon DEF Ready, Stacked
<1> QED  BY <1>1, <1>2, <1>3, <1>4, <1>5, Zenon DEF Known

\* The end of an array or an object.
LEMMA ClosesIs ==
  ASSUME NEW P, NEW a, NEW m, NEW z, Ready(P, a, m, z), Shaped(a), ~Value(a), a.open # << >>,
         Closes(z, json[m], At(json, m))
  PROVE  Event(P, ReturnValue(Pop(P), json[m]), a.out)
<1> DEFINE b == At(json, m)
           c == json[m]
           o == Front(a.open)
           V == Pop(P)
           Q == ReturnValue(V, c)
<1>1. /\ P \in Parsers /\ P.status = "ok" /\ P.buffer = <<c>> /\ P.pos = m /\ Len(P.stack) \in Nat
      /\ c \in STRING /\ m \in 1 .. Len(json) /\ a.open \in Seq(Brackets) /\ P.stack = Tower(o)
      /\ z.open = a.open /\ z.out = a.out /\ z.i = m
  <2>1. Known(P, a, m, z)
    BY ReadyHas
  <2> QED  BY <2>1, Zenon DEF Known
<1>2. o \in Seq(Brackets)
  BY <1>1, FrontIs
<1>3. /\ c \in {"}", "]"} /\ b.want = (IF o = << >> THEN "nothing" ELSE "separator")
      /\ b.open = o /\ b.out = Append(a.out, <<c, m>>)
  BY <1>1 DEF Closes
<1> HIDE DEF b, c, o, V, Q
<1>4. c \in Names /\ c \notin {"{", "["}
  BY <1>3 DEF Names
<1>5. /\ V \in Parsers /\ V.buffer = <<c>> /\ V.pos = m /\ V.status = "ok"
      /\ Len(V.stack) = Len(P.stack) - 1
      /\ o = << >> => V.state = "end" /\ V.stack = << >>
      /\ o # << >> => V.state = StateOf(Last(o)) /\ V.stack = Tower(Front(o))
  BY <1>1, <1>2, PopIs DEF V
<1>6. /\ Q \in Parsers /\ Q.buffer = << >> /\ Q.pos = m /\ Q.status = "ok"
      /\ Q.event = c /\ Q.stack = V.stack /\ Q.state = V.state
  BY <1>1, <1>4, <1>5, ReturnIs DEF Q
<1>7. Stacked(Q, b)
  <2>1. ~Value(b)
    BY <1>3 DEF Value
  <2> QED  BY <1>3, <1>5, <1>6, <2>1 DEF Stacked
<1>8. b.want \in Between
  BY <1>3 DEF Between
<1>9. Len(Q.stack) >= Len(P.stack) - 1 /\ Q.event \notin {"{", "["} /\ Q.event \in Names
  <2>1. Q.event \notin {"{", "["} /\ Q.event \in Names
    BY <1>4, <1>6
  <2>2. Len(Q.stack) = Len(P.stack) - 1
    BY <1>5, <1>6
  <2> DEFINE n == Len(P.stack)
             k == Len(Q.stack)
  <2>3. n \in Nat /\ k = n - 1
    BY <1>1, <2>2
  <2> HIDE DEF n, k
  <2>4. k >= n - 1
    BY <2>3
  <2> QED  BY <2>1, <2>4 DEF n, k
<1>10. At(json, Q.pos) = b /\ Q.pos \in 1 .. Len(json) /\ b.out = Append(a.out, <<Q.event, Q.pos>>)
  BY <1>1, <1>3, <1>6 DEF b
<1>11. Goes(P, Q)
  <2>1. P.state # "value"
    BY StatesOf, Zenon DEF Ready, Stacked
  <2>2. Q.state # "value"
    BY <1>5, <1>6, StatesOf
  <2> QED  BY <2>1, <2>2 DEF Goes
<1>12. Event(P, Q, a.out)
  BY <1>6, <1>7, <1>8, <1>9, <1>10, <1>11, Zenon DEF Event
<1> QED  BY <1>12 DEF Q, V, c

\* The start of an array or an object inside another array.
LEMMA OpensIs ==
  ASSUME NEW P, NEW a, NEW m, NEW z, Ready(P, a, m, z), Shaped(a), ~Value(a), a.open # << >>,
         Opens(z, json[m], At(json, m))
  PROVE  Event(P, ReturnValue(Push(P, StateOf(json[m])), json[m]), a.out)
<1> DEFINE b == At(json, m)
           c == json[m]
           o == a.open
           s == StateOf(c)
           V == Push(P, s)
           Q == ReturnValue(V, c)
<1>1. /\ P \in Parsers /\ P.status = "ok" /\ P.buffer = <<c>> /\ P.pos = m /\ Len(P.stack) \in Nat
      /\ c \in STRING /\ m \in 1 .. Len(json) /\ o \in Seq(Brackets)
      /\ P.stack = Tower(Front(o)) /\ P.state = StateOf(Last(o))
      /\ z.open = o /\ z.out = a.out /\ z.i = m
  <2>1. Known(P, a, m, z)
    BY ReadyHas
  <2> QED  BY <2>1, Zenon DEF Known
<1>2. s \in States
  BY DEF StateOf, States
<1>3. /\ c \in {"{", "["} /\ b.want = (IF c = "{" THEN "key" ELSE "value")
      /\ b.open = Append(o, c) /\ b.out = Append(a.out, <<c, m>>)
  BY <1>1 DEF Opens
<1>3a. o # << >>
  OBVIOUS
<1> HIDE DEF b, c, o, s, V, Q
<1>4. c \in Names /\ c \in Brackets
  BY <1>3 DEF Names, Brackets
<1>5. /\ V \in Parsers /\ V.buffer = <<c>> /\ V.pos = m /\ V.status = "ok"
      /\ V.state = s /\ V.stack = Tower(o) /\ Len(V.stack) >= Len(P.stack) /\ Len(V.stack) >= 1
  BY <1>1, <1>2, <1>3a, PushIs DEF V
<1>6. /\ Q \in Parsers /\ Q.buffer = << >> /\ Q.pos = m /\ Q.status = "ok"
      /\ Q.event = c /\ Q.stack = V.stack /\ Q.state = V.state
  BY <1>1, <1>4, <1>5, ReturnIs DEF Q
<1>7. Last(b.open) = c /\ Front(b.open) = o /\ b.open # << >>
  <2>1. Front(Append(o, c)) = o /\ Last(Append(o, c)) = c
    BY <1>1, <1>4, AppendEnds
  <2>2. Append(o, c) # << >>
    BY <1>1, <1>4
  <2> QED  BY <1>3, <2>1, <2>2
<1>8. Stacked(Q, b)
  <2>1. ~Value(b)
    BY <1>3, <1>7 DEF Value, Inside
  <2> QED  BY <1>5, <1>6, <1>7, <2>1 DEF Stacked, s
<1>9. b.want \in Between
  BY <1>3 DEF Between
<1>9a. Len(Q.stack) >= Len(P.stack) - 1 /\ Len(Q.stack) >= 1 /\ Q.event \in Names
  <2>1. V.stack \in Seq(States)
    BY <1>5 DEF Parsers
  <2>2. Len(V.stack) \in Nat
    BY <2>1
  <2> QED  BY <1>1, <1>4, <1>5, <1>6, <2>2
<1>10. At(json, Q.pos) = b /\ Q.pos \in 1 .. Len(json) /\ b.out = Append(a.out, <<Q.event, Q.pos>>)
  BY <1>1, <1>3, <1>6 DEF b
<1>11. Goes(P, Q)
  <2>1. P.state # "value" /\ Q.state # "value"
    BY <1>1, <1>5, <1>6, StatesOf DEF s
  <2> QED  BY <2>1 DEF Goes
<1>12. Event(P, Q, a.out)
  BY <1>6, <1>8, <1>9, <1>9a, <1>10, <1>11, Zenon DEF Event
<1> QED  BY <1>12 DEF Q, V, c, s

\* parse_array_state.
LEMMA ArrayIs ==
  ASSUME NEW P, NEW a, NEW m, NEW z, Ready(P, a, m, z), Shaped(a),
         ~Value(a), Inside(a) = "[", json[m] # ","
  PROVE  Event(P, ArrayState(P), a.out)
<1> DEFINE b == At(json, m)
           c == json[m]
<1>0. /\ Head(P.buffer) = c /\ z.want = a.want /\ Inside(z) = Inside(a) /\ Defined(z, c, b) /\ Shaped(z)
      /\ ~(c = Quote /\ Inside(z) = "[")
  <2>1. Known(P, a, m, z)
    BY ReadyHas
  <2> QED  BY <2>1, Zenon DEF Known
<1>1. /\ Head(P.buffer) = c /\ z.want = a.want /\ Inside(z) = "[" /\ Defined(z, c, b) /\ c # Quote /\ Shaped(z)
  BY <1>0, Zenon
<1>2. a.open # << >>
  BY DEF Inside
<1>3. z.want \notin {"key", "colon"}
  BY <1>1 DEF Shaped
<1>4. Opens(z, c, b) \/ Closes(z, c, b)
  BY <1>1, <1>3 DEF Defined, OpensString, OpensKey, EndsKey, Separates
<1>5. CASE Opens(z, c, b)
  <2>1. Event(P, ReturnValue(Push(P, StateOf(c)), c), a.out)
    BY <1>2, <1>5, OpensIs
  <2>2. c \in {"{", "["}
    BY <1>5 DEF Opens
  <2>3. CASE c = "{"
    <3>1. ArrayState(P) = ReturnValue(Push(P, "object"), "{")
      BY <1>1, <2>3 DEF ArrayState
    <3>2. StateOf(c) = "object"
      BY <2>3 DEF StateOf
    <3> QED  BY <2>1, <2>3, <3>1, <3>2, Zenon
  <2>4. CASE c = "["
    <3>1. ArrayState(P) = ReturnValue(Push(P, "array"), "[")
      BY <1>1, <2>4 DEF ArrayState
    <3>2. StateOf(c) = "array"
      BY <2>4 DEF StateOf
    <3> QED  BY <2>1, <2>4, <3>1, <3>2, Zenon
  <2> QED  BY <2>2, <2>3, <2>4
<1>6. CASE Closes(z, c, b)
  <2>1. Event(P, ReturnValue(Pop(P), c), a.out)
    BY <1>2, <1>6, ClosesIs
  <2>2. c = "]"
    BY <1>1, <1>6 DEF Closes
  <2>3. ArrayState(P) = ReturnValue(Pop(P), "]")
    BY <1>1, <2>2 DEF ArrayState
  <2> QED  BY <2>1, <2>2, <2>3, Zenon
<1> QED  BY <1>4, <1>5, <1>6

\* P has taken the name of a key, up to the place of y, and stands as R.
AtColon(a, P, y, m, z, R) ==
    /\ json \in Seq(STRING) /\ Shaped(a) /\ ~Value(a) /\ Inside(a) = "{"
    /\ P \in Parsers /\ P.stack = Tower(Front(a.open)) /\ P.state = StateOf(Last(a.open))
    /\ Shaped(y) /\ y.want = "colon" /\ y.open = a.open /\ y.out = a.out
    /\ Reached(y, m, z)
    /\ R \in Parsers /\ R.status = "ok" /\ R.stack = P.stack /\ R.state = P.state

LEMMA StackLen ==
  ASSUME NEW P \in Parsers
  PROVE  Len(P.stack) \in Nat
<1>1. P.stack \in Seq(States)
  BY DEF Parsers
<1> QED  BY <1>1

\* The value state that begins once a key and its colon are taken.
LEMMA ColonIs ==
  ASSUME NEW a, NEW P, NEW y, NEW m, NEW z, NEW R, AtColon(a, P, y, m, z, R)
  PROVE  Event(P, Colon(Reading(R, m)), a.out)
<1> DEFINE b == At(json, m)
           c == json[m]
           o == a.open
           W == Reading(R, m)
           V == Push(W, "value")
           Q == Colon(W)
<1>0. /\ json \in Seq(STRING) /\ Shaped(a) /\ ~Value(a) /\ Inside(a) = "{"
      /\ P \in Parsers /\ P.stack = Tower(Front(a.open)) /\ P.state = StateOf(Last(a.open))
      /\ Shaped(y) /\ y.want = "colon" /\ y.open = a.open /\ y.out = a.out
      /\ Reached(y, m, z)
      /\ R \in Parsers /\ R.status = "ok" /\ R.stack = P.stack /\ R.state = P.state
  BY Zenon DEF AtColon
<1>1. /\ m \in 1 .. Len(json) /\ c \in STRING /\ z.i = m /\ z.open = y.open /\ z.out = y.out
      /\ z.want = y.want /\ Defined(z, c, b)
  BY <1>0, Zenon DEF Reached
<1>2. o \in Seq(Brackets) /\ o # << >>
  BY <1>0, OutIs DEF Inside
<1>3. EndsKey(z, c, b)
  BY <1>0, <1>1 DEF Defined, OpensString, OpensKey, Opens, Separates, Closes
<1>4. c = ":" /\ b.want = "value" /\ b.open = o /\ b.out = Append(a.out, <<"key", m>>)
  BY <1>0, <1>1, <1>3 DEF EndsKey
<1>5. /\ W \in Parsers /\ W.buffer = <<c>> /\ W.pos = m /\ W.status = "ok"
      /\ W.stack = P.stack /\ W.state = P.state
  BY <1>0, <1>1, ReadingIs
<1>6. Head(W.buffer) = c
  <2> HIDE DEF W, c
  <2> QED  BY <1>5
<1>7. Q = ReturnValue(V, "key")
  BY <1>4, <1>6 DEF Colon
<1>7a. W.stack = Tower(Front(o)) /\ W.state = StateOf(Last(o))
  BY <1>0, <1>5
<1>7b. Inside(b) = "{"
  BY <1>0, <1>4 DEF Inside
<1> HIDE DEF b, c, o, W, Q
<1>8. "value" \in States /\ "key" \in Names
  BY DEF States, Names
<1>9. /\ V \in Parsers /\ V.buffer = <<c>> /\ V.pos = m /\ V.status = "ok"
      /\ V.state = "value" /\ V.stack = Tower(o) /\ Len(V.stack) >= Len(W.stack) /\ Len(V.stack) >= 1
  BY <1>2, <1>5, <1>7a, <1>8, PushIs DEF V
<1> HIDE DEF V
<1>10. /\ Q \in Parsers /\ Q.buffer = << >> /\ Q.pos = m /\ Q.status = "ok"
       /\ Q.event = "key" /\ Q.stack = V.stack /\ Q.state = V.state
  BY <1>1, <1>7, <1>8, <1>9, ReturnIs
<1>11. Stacked(Q, b)
  <2>1. Value(b)
    BY <1>4, <1>7b DEF Value
  <2> QED  BY <1>4, <1>9, <1>10, <2>1 DEF Stacked
<1>12. b.want \in Between
  BY <1>4 DEF Between
<1>13. Len(Q.stack) >= Len(P.stack) - 1
  <2> DEFINE n == Len(P.stack)
             k == Len(Q.stack)
  <2>1. k >= n
    BY <1>5, <1>9, <1>10
  <2>2. k \in Nat /\ n \in Nat
    BY <1>0, <1>10, StackLen
  <2> HIDE DEF n, k
  <2>3. k >= n - 1
    BY <2>1, <2>2
  <2> QED  BY <2>3 DEF n, k
<1>14. At(json, Q.pos) = b /\ Q.pos \in 1 .. Len(json) /\ b.out = Append(a.out, <<Q.event, Q.pos>>)
  BY <1>1, <1>4, <1>10 DEF b
<1>15. Q.event \in Names /\ Q.event \notin {"{", "["}
  BY <1>8, <1>10
<1>16. Goes(P, Q)
  <2>1. P.state # "value" /\ Q.event = "key"
    BY <1>0, <1>10, StatesOf
  <2> QED  BY <2>1 DEF Goes
<1>17. Event(P, Q, a.out)
  BY <1>10, <1>11, <1>12, <1>13, <1>14, <1>15, <1>16, Zenon DEF Event
<1> QED  BY <1>17 DEF Q, W

LEMMA ObjectCases ==
  ASSUME NEW P
  PROVE  /\ Head(P.buffer) = "}" => ObjectState(P) = ReturnValue(Pop(P), "}")
         /\ Head(P.buffer) = Quote => ObjectState(P) = Then(Then(ParseString(P), NextValue), Colon)
<1> DEFINE S == Then(Then(ParseString(P), NextValue), Colon)
           h == Head(P.buffer)
<1>1. Quote # "}"
  BY Characters
<1> HIDE DEF S
<1>2. ObjectState(P) = CASE h = "}" -> ReturnValue(Pop(P), "}") [] h = Quote -> S [] OTHER -> Throw(P)
  BY Zenon DEF ObjectState, S
<1> HIDE DEF h
<1>3. /\ h = "}" => ObjectState(P) = ReturnValue(Pop(P), "}")
      /\ h = Quote => ObjectState(P) = S
  BY <1>1, <1>2
<1> QED  BY <1>3, Zenon DEF S, h

LEMMA PlaceIs ==
  ASSUME json \in Seq(STRING), NEW j, j \in 1 .. Len(json)
  PROVE  j \in Nat /\ j \in 0 .. Len(json)
  OBVIOUS

\* parse_object_state.
LEMMA ObjectIs ==
  ASSUME json \in Seq(STRING), Plain(Scan(json)), NEW P, NEW a, NEW m, NEW z, Ready(P, a, m, z), Shaped(a),
         a.want \in {"key", "separator"}, Inside(a) = "{", json[m] # ","
  PROVE  Event(P, ObjectState(P), a.out) \/ Fails(ObjectState(P))
<1> DEFINE b == At(json, m)
           c == json[m]
           Q == ObjectState(P)
<1>0. ~Value(a) /\ a.open # << >>
  BY DEF Value, Inside
<1>1. /\ P \in Parsers /\ P.status = "ok" /\ P.buffer = <<c>> /\ P.pos = m /\ Head(P.buffer) = c
      /\ Len(P.stack) \in Nat /\ m \in 1 .. Len(json) /\ z.want = a.want /\ z.open = a.open /\ z.out = a.out
      /\ z.i = m /\ Inside(z) = Inside(a) /\ Defined(z, c, b)
      /\ P.state = StateOf(Last(a.open)) /\ P.stack = Tower(Front(a.open))
  <2>1. Known(P, a, m, z)
    BY ReadyHas
  <2> QED  BY <1>0, <2>1, Zenon DEF Known
<1>2. OpensKey(z, c, b) \/ Closes(z, c, b)
  BY <1>1 DEF Defined, OpensString, EndsKey, Opens, Separates
<1>3. CASE Closes(z, c, b)
  <2>1. Event(P, ReturnValue(Pop(P), c), a.out)
    BY <1>0, <1>3, ClosesIs
  <2>2. c = "}"
    BY <1>1, <1>3 DEF Closes
  <2>3. Q = ReturnValue(Pop(P), "}")
    BY <1>1, <2>2, ObjectCases, Zenon
  <2> QED  BY <2>1, <2>2, <2>3, Zenon
<1>4. CASE OpensKey(z, c, b)
  <2>1. c = Quote /\ b.want = "keytext" /\ b.slashes = 0 /\ b.open = a.open /\ b.out = a.out
    BY <1>1, <1>4 DEF OpensKey
  <2>2. Q = Then(Then(ParseString(P), NextValue), Colon)
    BY <1>1, <2>1, ObjectCases, Zenon
  <2>3. \/ ParseString(P) = Wild(P) /\ Fails(Wild(P))
        \/ \E j \in m + 1 .. Len(json) :
             /\ ParseString(P) = [P EXCEPT !.buffer = << >>, !.pos = j]
             /\ j \in 1 .. Len(json) /\ Closed(b, j, At(json, j)) /\ Shaped(At(json, j))
    BY <2>1, StringTaken
  <2>4. CASE ParseString(P) = Wild(P) /\ Fails(Wild(P))
    <3>1. Wild(P).status # "ok"
      BY <1>1, WildIs
    <3>2. Q = Wild(P)
      BY <2>2, <2>4, <3>1, Zenon DEF Then
    <3> QED  BY <2>4, <3>2
  <2>5. ASSUME NEW j \in m + 1 .. Len(json),
               ParseString(P) = [P EXCEPT !.buffer = << >>, !.pos = j],
               j \in 1 .. Len(json), Closed(b, j, At(json, j)), Shaped(At(json, j))
        PROVE  Event(P, Q, a.out) \/ Fails(Q)
    <3> DEFINE R == [P EXCEPT !.buffer = << >>, !.pos = j]
               y == At(json, j)
    <3>1. j \in Nat /\ j \in 0 .. Len(json)
      <4>1. j \in 1 .. Len(json)
        BY <2>5
      <4> QED  BY <4>1, PlaceIs
    <3>2. /\ R \in Parsers /\ R.status = "ok" /\ R.buffer = << >> /\ R.pos = j
          /\ R.stack = P.stack /\ R.state = P.state /\ R.event = P.event
      BY <1>1, <3>1, MovedIs
    <3>3. Q = Then(NextValue(R), Colon)
      <4>1. ParseString(P) = R
        BY <2>5
      <4> HIDE DEF R
      <4> QED  BY <2>2, <3>2, <4>1, Zenon DEF Then
    <3> HIDE DEF R
    <3>4. y.want = "colon" /\ y.open = a.open /\ y.out = a.out
      BY <2>1, <2>5 DEF Closed
    <3>5. Used(json, R, j)
      BY <3>1, <3>2 DEF Used
    <3>6. \/ NextValue(R) = Wild(R) /\ At(json, Len(json)).want = y.want
          \/ \E k \in j + 1 .. Len(json) :
               /\ k \in 1 .. Len(json) /\ NextValue(R) = Reading(R, k) /\ \E x : Reached(y, k, x)
      BY <3>2, <3>4, <3>5, NextReaches
    <3>7. CASE NextValue(R) = Wild(R) /\ At(json, Len(json)).want = y.want
      <4>1. Wild(R) \in Parsers /\ Wild(R).status = "wild"
        BY <3>2, WildIs
      <4>2. Q = Wild(R)
        BY <3>3, <3>7, <4>1, Zenon DEF Then
      <4>3. At(json, Len(json)).want # "nothing"
        BY <3>4, <3>7
      <4> QED  BY <4>1, <4>2, <4>3 DEF Fails
    <3>8. ASSUME NEW k \in 1 .. Len(json), NextValue(R) = Reading(R, k), NEW x, Reached(y, k, x)
          PROVE  Event(P, Q, a.out)
      <4>1. Reading(R, k).status = "ok"
        BY <3>2, ReadingIs
      <4>2. Q = Colon(Reading(R, k))
        BY <3>3, <3>8, <4>1, Zenon DEF Then
      <4>3. Shaped(y)
        BY <2>5
      <4> HIDE DEF y, Q, b, c
      <4>4. AtColon(a, P, y, k, x, R)
        BY <1>0, <1>1, <3>2, <3>4, <3>8, <4>3, Zenon DEF AtColon
      <4>5. Event(P, Colon(Reading(R, k)), a.out)
        BY <4>4, ColonIs
      <4> QED  BY <4>2, <4>5
    <3> QED  BY <3>6, <3>7, <3>8
  <2> QED  BY <2>3, <2>4, <2>5
<1> QED  BY <1>2, <1>3, <1>4

\* skip_separator: a comma is gone through, to the next character.
LEMMA SkipIs ==
  ASSUME json \in Seq(STRING), Plain(Scan(json)), NEW P, NEW a, NEW m, NEW z, Ready(P, a, m, z), Shaped(a),
         ~Value(a), a.open # << >>, a.want \in Between
  PROVE  \/ Fails(SkipSeparator(P)) 
         \/ \E n, y, x : /\ Ready(SkipSeparator(P), y, n, x) /\ Shaped(y) /\ ~Value(y) /\ y.open = a.open
                         /\ y.out = a.out /\ y.want \in Between /\ json[n] # ","
                         /\ SkipSeparator(P).stack = P.stack /\ SkipSeparator(P).state = P.state
<1> DEFINE b == At(json, m)
           c == json[m]
           Q == SkipSeparator(P)
<1>1. /\ P \in Parsers /\ P.status = "ok" /\ P.buffer = <<c>> /\ P.pos = m /\ Head(P.buffer) = c
      /\ m \in 1 .. Len(json) /\ z.want = a.want /\ z.open = a.open /\ z.out = a.out
      /\ Inside(z) = Inside(a) /\ Defined(z, c, b) /\ Shaped(b)
      /\ P.state = StateOf(Last(a.open)) /\ P.stack = Tower(Front(a.open))
  <2>1. Known(P, a, m, z)
    BY ReadyHas
  <2> QED  BY <2>1, Zenon DEF Known
<1>2. CASE c # ","
  <2>1. Q = P
    BY <1>1, <1>2 DEF SkipSeparator
  <2> QED  BY <1>2, <2>1
<1>3. CASE c = ","
  <2> DEFINE R == [P EXCEPT !.buffer = << >>, !.pos = m]
  <2>1. Separates(z, c, b)
    <3>1. c # Quote
      BY <1>3, Characters
    <3> QED  BY <1>1, <1>3, <3>1 DEF Defined, OpensString, OpensKey, EndsKey, Opens, Closes
  <2>2. /\ b.want = (IF Inside(a) = "{" THEN "key" ELSE "value") /\ b.open = a.open /\ b.out = a.out
        /\ Inside(b) = Inside(a)
    BY <1>1, <2>1 DEF Separates, Inside
  <2>3. m \in Nat /\ m \in 0 .. Len(json)
    BY <1>1
  <2>4. /\ R \in Parsers /\ R.status = "ok" /\ R.buffer = << >> /\ R.pos = m
        /\ R.stack = P.stack /\ R.state = P.state
    BY <1>1, <2>3, MovedIs, ZenonT(60)
  <2>5. Q = NextValue(R)
    <3>1. Tail(P.buffer) = << >>
      BY <1>1
    <3>2. [P EXCEPT !.buffer = Tail(@)] = R
      BY <1>1, <3>1 DEF Parsers
    <3> HIDE DEF R
    <3> QED  BY <1>1, <1>3, <3>2 DEF SkipSeparator
  <2> HIDE DEF R, Q, b
  <2>6. Used(json, R, m)
    BY <2>3, <2>4 DEF Used
  <2>7. b.want \notin {"string", "keytext"} /\ b.want \in Between /\ b.want # "nothing"
    BY <2>2 DEF Between
  <2>8. \/ NextValue(R) = Wild(R) /\ At(json, Len(json)).want = b.want
        \/ \E k \in m + 1 .. Len(json) :
             /\ k \in 1 .. Len(json) /\ NextValue(R) = Reading(R, k) /\ \E x : Reached(b, k, x)
    BY <2>4, <2>6, <2>7, NextReaches DEF b
  <2>9. CASE NextValue(R) = Wild(R) /\ At(json, Len(json)).want = b.want
    <3>1. Wild(R) \in Parsers /\ Wild(R).status = "wild"
      BY <2>4, WildIs
    <3> QED  BY <2>5, <2>7, <2>9, <3>1 DEF Fails, Q
  <2>10. ASSUME NEW k \in 1 .. Len(json), NextValue(R) = Reading(R, k), NEW x, Reached(b, k, x)
         PROVE  /\ Ready(Q, b, k, x) /\ Shaped(b) /\ ~Value(b) /\ b.open = a.open
                /\ b.out = a.out /\ b.want \in Between /\ json[k] # ","
                /\ Q.stack = P.stack /\ Q.state = P.state
    <3>1. ~Value(b)
      <4>1. Inside(a) \in Brackets
        <5>1. a.open \in Seq(Brackets)
          BY OutIs
        <5> QED  BY <5>1, FrontIs DEF Inside
      <4> QED  BY <2>2, <4>1 DEF Value, Brackets
    <3>2. Taking(Q, k)
      BY <2>4, <2>5, <2>10, TakingIs
    <3>3. Q.stack = P.stack /\ Q.state = P.state
      BY <2>4, <2>5, <2>10, ReadingIs
    <3>4. Stacked(Q, b)
      BY <1>1, <2>2, <3>1, <3>3 DEF Stacked
    <3>5. json[k] # ","
      <4> DEFINE d == json[k]
      <4>1. x.want = b.want /\ Defined(x, d, At(json, k))
        BY <2>10 DEF Reached
      <4>2. ~Separates(x, d, At(json, k))
        BY <2>2, <4>1 DEF Separates
      <4> HIDE DEF d
      <4>3. d # ","
        <5> SUFFICES ASSUME d = ","  PROVE FALSE
          OBVIOUS
        <5>1. d # Quote
          BY Characters
        <5> QED  BY <4>1, <4>2, <5>1 DEF Defined, OpensString, OpensKey, EndsKey, Opens, Closes
      <4> QED  BY <4>3 DEF d
    <3>6. Shaped(b)
      BY <1>1 DEF b
    <3> QED  BY <2>2, <2>7, <2>10, <3>1, <3>2, <3>3, <3>4, <3>5, <3>6 DEF Ready
  <2>11. CASE \E k \in m + 1 .. Len(json) :
             /\ k \in 1 .. Len(json) /\ NextValue(R) = Reading(R, k) /\ \E x : Reached(b, k, x)
    <3>1. PICK k \in 1 .. Len(json) : NextValue(R) = Reading(R, k) /\ \E x : Reached(b, k, x)
      BY <2>11
    <3>2. PICK x : Reached(b, k, x)
      BY <3>1
    <3> QED  BY <2>10, <3>1, <3>2, Zenon DEF Q
  <2> QED  BY <2>8, <2>9, <2>11
<1> QED  BY <1>2, <1>3

\* Between two events: the parser stands where the scan has these events, with its
\* brackets; at the end it has read no further than the last event.
Match(d, P, out) ==
    /\ P \in Parsers
    /\ \E c \in 0 .. Len(d) :
         /\ Used(d, P, c) /\ out = At(d, c).out /\ Stacked(P, At(d, c)) /\ At(d, c).want \in Between
    /\ P.state = "end" => P.buffer = << >> /\ out # << >> /\ P.pos = Last(out)[2]

LEMMA LastIs ==
  ASSUME NEW S, NEW s \in Seq(S), NEW x \in S
  PROVE  Append(s, x) # << >> /\ Last(Append(s, x)) = x
  BY DEF Last

LEMMA EventMatches ==
  ASSUME json \in Seq(STRING), NEW P, NEW Q, NEW out \in Seq(Names \X Nat), Event(P, Q, out)
  PROVE  Match(json, Q, Append(out, <<Q.event, Q.pos>>))
<1> DEFINE c == Q.pos
           e == <<Q.event, Q.pos>>
           s == Append(out, e)
<1>1. /\ Q \in Parsers /\ Q.buffer = << >> /\ c \in 1 .. Len(json) /\ Q.event \in Names
      /\ At(json, c).out = s /\ Stacked(Q, At(json, c)) /\ At(json, c).want \in Between
  BY Zenon DEF Event
<1>2. c \in Nat /\ c \in 0 .. Len(json)
  BY <1>1, PlaceIs
<1>3. e \in Names \X Nat /\ e[2] = Q.pos
  BY <1>1, <1>2
<1> HIDE DEF e
<1>4. s # << >> /\ Last(s) = e
  BY <1>3, LastIs
<1> HIDE DEF c, s
<1>5. Used(json, Q, c)
  BY <1>1, <1>2 DEF Used, c
<1>6. Match(json, Q, s)
  BY <1>1, <1>2, <1>3, <1>4, <1>5, Zenon DEF Match
<1> QED  BY <1>6 DEF s, e

LEMMA InStateCases ==
  ASSUME NEW P
  PROVE  /\ P.state = "value" => InState(P) = ValueState(P)
         /\ P.state = "array" => InState(P) = Then(SkipSeparator(P), ArrayState)
         /\ P.state = "object" => InState(P) = Then(SkipSeparator(P), ObjectState)
<1> DEFINE A == Then(SkipSeparator(P), ArrayState)
           O == Then(SkipSeparator(P), ObjectState)
           s == P.state
<1> HIDE DEF A, O
<1>1. InState(P) = CASE s = "value" -> ValueState(P) [] s = "array" -> A [] s = "object" -> O
                     [] OTHER -> Throw(P)
  BY Zenon DEF InState, A, O
<1> HIDE DEF s
<1>2. /\ s = "value" => InState(P) = ValueState(P)
      /\ s = "array" => InState(P) = A
      /\ s = "object" => InState(P) = O
  BY <1>1
<1> QED  BY <1>2, Zenon DEF A, O, s

\* The state below does not depend on what the event is counted from.
LEMMA EventFrom ==
  ASSUME NEW P, NEW V, NEW Q, NEW out, NEW more, Event(V, Q, more), V.stack = P.stack,
         V.state = P.state, more = out
  PROVE  Event(P, Q, out)
  BY Zenon DEF Event, Goes

\* What array and object states do once the separator is gone.
LEMMA InBrackets ==
  ASSUME json \in Seq(STRING), Plain(Scan(json)), NEW P, NEW a, NEW m, NEW z, Ready(P, a, m, z), Shaped(a),
         ~Value(a), a.open # << >>, a.want \in Between
  PROVE  Event(P, InState(P), a.out) \/ Fails(InState(P))
<1> DEFINE V == SkipSeparator(P)
<1>1. P.state = StateOf(Last(a.open)) /\ Inside(a) = Last(a.open) /\ Inside(a) \in Brackets
  <2>1. Known(P, a, m, z)
    BY ReadyHas
  <2>2. P.state = StateOf(Last(a.open)) /\ a.open \in Seq(Brackets)
    BY <2>1, Zenon DEF Known
  <2>3. Inside(a) = Last(a.open)
    BY DEF Inside
  <2>4. Last(a.open) \in Brackets
    BY <2>2, FrontIs
  <2> QED  BY <2>2, <2>3, <2>4
<1>2. \/ P.state = "array" /\ Inside(a) = "[" /\ InState(P) = Then(V, ArrayState)
      \/ P.state = "object" /\ Inside(a) = "{" /\ InState(P) = Then(V, ObjectState)
  <2>1. \/ P.state = "array" /\ Inside(a) = "["
        \/ P.state = "object" /\ Inside(a) = "{"
    BY <1>1 DEF StateOf, Brackets
  <2> QED  BY <2>1, InStateCases, Zenon
<1>3. \/ Fails(V)
      \/ \E n, y, x : /\ Ready(V, y, n, x) /\ Shaped(y) /\ ~Value(y) /\ y.open = a.open
                      /\ y.out = a.out /\ y.want \in Between /\ json[n] # ","
                      /\ V.stack = P.stack /\ V.state = P.state
  BY SkipIs
<1> HIDE DEF V
<1>4. CASE Fails(V)
  <2>1. V.status # "ok"
    BY <1>4 DEF Fails
  <2>2. InState(P) = V
    BY <1>2, <2>1, Zenon DEF Then
  <2> QED  BY <1>4, <2>2
<1>5. ASSUME NEW n, NEW y, NEW x, Ready(V, y, n, x), Shaped(y), ~Value(y), y.open = a.open,
             y.out = a.out, y.want \in Between, json[n] # ",", V.stack = P.stack,
             V.state = P.state
      PROVE  Event(P, InState(P), a.out) \/ Fails(InState(P))
  <2>1. V.status = "ok"
    BY <1>5 DEF Ready, Taking
  <2>2. Inside(y) = Inside(a) /\ y.open # << >>
    BY <1>5 DEF Inside
  <2>3. CASE Inside(a) = "["
    <3>1. InState(P) = ArrayState(V)
      <4>1. InState(P) = Then(V, ArrayState)
        BY <1>2, <2>3
      <4> QED  BY <2>1, <4>1, Zenon DEF Then
    <3>2. Event(V, ArrayState(V), y.out)
      BY <1>5, <2>2, <2>3, ArrayIs
    <3>3. Event(P, ArrayState(V), a.out)
      BY <1>5, <3>2, EventFrom
    <3> QED  BY <3>1, <3>3
  <2>4. CASE Inside(a) = "{"
    <3>1. InState(P) = ObjectState(V)
      <4>1. InState(P) = Then(V, ObjectState)
        BY <1>2, <2>4
      <4> QED  BY <2>1, <4>1, Zenon DEF Then
    <3>2. y.want \in {"key", "separator"}
      <4>1. y.want # "value"
        BY <1>5, <2>2, <2>4 DEF Value
      <4>2. y.want # "nothing"
        BY <1>5, <2>2 DEF Shaped
      <4> QED  BY <1>5, <4>1, <4>2 DEF Between
    <3>3. Event(V, ObjectState(V), y.out) \/ Fails(ObjectState(V))
      BY <1>5, <2>2, <2>4, <3>2, ObjectIs
    <3>4. Event(V, ObjectState(V), y.out) => Event(P, ObjectState(V), a.out)
      BY <1>5, EventFrom
    <3> QED  BY <3>1, <3>3, <3>4
  <2> QED  BY <1>2, <2>3, <2>4
<1> QED  BY <1>3, <1>4, <1>5

LEMMA NotEnd ==
  ASSUME NEW P, NEW a, Shaped(a), Stacked(P, a), P.state # "end"
  PROVE  (Value(a) \/ a.open # << >>) /\ a.want # "nothing"
  BY DEF Stacked, Shaped, Value

\* next: the event that the scan has next; a failure only where the document is
\* cut short.
LEMMA NextEventIs ==
  ASSUME json \in Seq(STRING), Plain(Scan(json)), NEW P, NEW out, Match(json, P, out), P.status = "ok",
         P.state # "end"
  PROVE  Event(P, NextEvent(P), out) \/ Fails(NextEvent(P))
<1>1. PICK c \in 0 .. Len(json) :
         Used(json, P, c) /\ out = At(json, c).out /\ Stacked(P, At(json, c)) /\ At(json, c).want \in Between
  BY Zenon DEF Match
<1>2. P \in Parsers
  BY DEF Match
<1> DEFINE a == At(json, c)
<1>3. Shaped(a)
  BY ScanAt
<1>4. (Value(a) \/ a.open # << >>) /\ a.want # "nothing"
  BY <1>1, <1>3, NotEnd
<1>5. a.want \notin {"string", "keytext"}
  BY <1>1 DEF Between
<1>6. \/ NextValue(P) = Wild(P) /\ At(json, Len(json)).want = a.want
      \/ \E m \in c + 1 .. Len(json) :
           /\ m \in 1 .. Len(json) /\ NextValue(P) = Reading(P, m) /\ \E z : Reached(a, m, z)
  BY <1>1, <1>2, <1>5, NextReaches
<1> HIDE DEF a
<1>7. CASE NextValue(P) = Wild(P) /\ At(json, Len(json)).want = a.want
  <2>1. Wild(P) \in Parsers /\ Wild(P).status = "wild"
    BY <1>2, WildIs
  <2>2. NextEvent(P) = Wild(P)
    BY <1>7, <2>1, Zenon DEF NextEvent, Then
  <2>3. At(json, Len(json)).want # "nothing"
    BY <1>4, <1>7
  <2> QED  BY <2>1, <2>2, <2>3 DEF Fails
<1>8. ASSUME NEW m \in 1 .. Len(json), NextValue(P) = Reading(P, m), NEW z, Reached(a, m, z)
      PROVE  Event(P, NextEvent(P), out) \/ Fails(NextEvent(P))
  <2> DEFINE W == Reading(P, m)
  <2>1. W.status = "ok" /\ W.stack = P.stack /\ W.state = P.state
    BY <1>2, ReadingIs
  <2>2. Taking(W, m)
    BY <1>2, TakingIs
  <2> HIDE DEF W
  <2>3. NextEvent(P) = InState(W)
    <3>1. NextValue(P) = W
      BY <1>8 DEF W
    <3> QED  BY <2>1, <3>1, Zenon DEF NextEvent, Then
  <2>4. Stacked(W, a)
    BY <1>1, <2>1, Zenon DEF Stacked, a
  <2>5. Ready(W, a, m, z)
    BY <1>8, <2>2, <2>4 DEF Ready
  <2>6. Event(W, InState(W), a.out) \/ Fails(InState(W))
    <3>1. CASE Value(a)
      <4>1. W.state = "value"
        BY <2>4, <3>1 DEF Stacked
      <4>2. InState(W) = ValueState(W)
        BY <4>1, InStateCases
      <4>3. Event(W, ValueState(W), a.out) \/ Fails(ValueState(W))
        BY <1>3, <2>5, <3>1, <4>1, ValueIs
      <4> QED  BY <4>2, <4>3
    <3>2. CASE ~Value(a)
      <4>1. a.open # << >> /\ a.want \in Between
        BY <1>1, <1>4, <3>2 DEF a
      <4> QED  BY <1>3, <2>5, <3>2, <4>1, InBrackets
    <3> QED  BY <3>1, <3>2
  <2>7. Event(W, InState(W), a.out) => Event(P, InState(W), out)
    BY <1>1, <2>1, EventFrom DEF a
  <2> QED  BY <2>3, <2>6, <2>7
<1> QED  BY <1>6, <1>7, <1>8

\* next_value between two events reads blanks and one character more.
LEMMA NextStays ==
  ASSUME json \in Seq(STRING), Plain(Scan(json)), NEW P, NEW out, Match(json, P, out), P.status = "ok",
         P.state # "end"
  PROVE  LET Q == NextValue(P)
         IN \/ Fails(Q)
            \/ /\ Match(json, Q, out) /\ Q.status = "ok" /\ Q.state = P.state /\ Q.stack = P.stack
               /\ Q.buffer # << >>
<1> DEFINE Q == NextValue(P)
<1>1. PICK c \in 0 .. Len(json) :
         Used(json, P, c) /\ out = At(json, c).out /\ Stacked(P, At(json, c)) /\ At(json, c).want \in Between
  BY Zenon DEF Match
<1>2. P \in Parsers
  BY DEF Match
<1> DEFINE a == At(json, c)
<1>3. Shaped(a)
  BY ScanAt
<1>4. a.want # "nothing"
  BY <1>1, <1>3, NotEnd
<1>5. a.want \notin {"string", "keytext"} /\ Plain(a)
  BY <1>1, PlainAt DEF Between
<1>6. \/ Q = Wild(P) /\ \A k \in c + 1 .. Len(json) : Blank(json[k])
      \/ \E m \in c + 1 .. Len(json) :
           /\ ~Blank(json[m]) /\ \A k \in c + 1 .. m - 1 : Blank(json[k])
           /\ Q = Reading(P, m)
  BY <1>1, <1>2, NextValueIs
<1>6a. Len(json) \in Nat
  OBVIOUS
<1>7. CASE Q = Wild(P) /\ \A k \in c + 1 .. Len(json) : Blank(json[k])
  <2>1. Wild(P) \in Parsers /\ Wild(P).status = "wild"
    BY <1>2, WildIs
  <2>2. Len(json) \in 0 .. Len(json) /\ c \in 0 .. Len(json)
    BY <1>6a
  <2>3. Alike(a, At(json, Len(json)))
    BY <1>5, <1>7, <2>2, BlankRun
  <2>4. At(json, Len(json)).want # "nothing"
    BY <1>4, <2>3 DEF Alike
  <2> QED  BY <1>7, <2>1, <2>4 DEF Fails
<1>8. ASSUME NEW m \in c + 1 .. Len(json), ~Blank(json[m]), \A k \in c + 1 .. m - 1 : Blank(json[k]),
             Q = Reading(P, m)
      PROVE  /\ Match(json, Q, out) /\ Q.status = "ok" /\ Q.state = P.state /\ Q.stack = P.stack
             /\ Q.buffer # << >>
  <2> DEFINE n == m - 1
             y == At(json, n)
  <2>1. n \in 0 .. Len(json) /\ c \in 0 .. n /\ m \in 1 .. Len(json) /\ n + 1 = m
    BY <1>6a, <1>8
  <2>2. Alike(a, y)
    <3>1. \A k \in c + 1 .. n : Blank(json[k])
      BY <1>8
    <3> HIDE DEF n
    <3> QED  BY <1>5, <2>1, <3>1, BlankRun
  <2>3. /\ Q \in Parsers /\ Q.buffer = <<json[m]>> /\ Q.pos = m /\ Q.status = "ok"
        /\ Q.stack = P.stack /\ Q.state = P.state
    BY <1>2, <1>8, <2>1, ReadingIs
  <2>3a. Q.buffer # << >>
    BY <2>3
  <2> HIDE DEF a, n, Q
  <2>4. Used(json, Q, n)
    BY <1>8, <2>1, <2>3 DEF Used
  <2> HIDE DEF y
  <2>5. y.open = a.open /\ y.want = a.want /\ y.out = a.out
    BY <2>2 DEF Alike
  <2>6. Stacked(Q, y)
    <3>1. Value(y) <=> Value(a)
      BY <2>5 DEF Value, Inside
    <3>2. Stacked(P, a)
      BY <1>1 DEF a
    <3> QED  BY <2>3, <2>5, <3>1, <3>2, Zenon DEF Stacked
  <2>7. out = y.out /\ y.want \in Between
    BY <1>1, <2>5 DEF a
  <2>8. Match(json, Q, out)
    BY <2>1, <2>3, <2>4, <2>6, <2>7, Zenon DEF Match, y
  <2> QED  BY <2>3, <2>3a, <2>8
<1> QED  BY <1>6, <1>7, <1>8

-----------------------------------------------------------------------------
(* next() and seek_level.                                                  *)

\* The parser and the events it has returned: they are the scan's.
Core(d, P, out) ==
    /\ \E c \in 0 .. Len(d) : out = At(d, c).out
    /\ P.status = "ok" => Match(d, P, out)
    /\ P.status \notin {"ok", "refused"} => At(d, Len(d)).want # "nothing"

Pairs(R) == R = <<R[1], R[2]>>

LEMMA CoreOut ==
  ASSUME json \in Seq(STRING), NEW P, NEW out, Core(json, P, out)
  PROVE  out \in Seq(Names \X Nat) /\ Len(out) \in Nat
<1>1. PICK c \in 0 .. Len(json) : out = At(json, c).out
  BY Zenon DEF Core
<1>2. Shaped(At(json, c))
  BY ScanAt
<1> QED  BY <1>1, <1>2, OutIs

LEMMA AdvanceIs ==
  ASSUME json \in Seq(STRING), Plain(Scan(json)), NEW P, NEW out, Core(json, P, out), P.status = "ok",
         P.state # "end"
  PROVE  LET R == Advance(<<P, out>>)
         IN /\ Core(json, R[1], R[2]) /\ R[1].status # "refused"
            /\ R[1].status = "ok" => Event(P, R[1], out)
<1> DEFINE Q == NextEvent(P)
           R == Advance(<<P, out>>)
           more == Append(out, <<Q.event, Q.pos>>)
<1>1. Match(json, P, out) /\ out \in Seq(Names \X Nat)
  BY CoreOut DEF Core
<1>2. Event(P, Q, out) \/ Fails(Q)
  BY <1>1, NextEventIs
<1>3. R[1] = Q /\ (Q.status = "ok" => R[2] = more) /\ (Q.status # "ok" => R[2] = out)
  BY Zenon DEF Advance
<1> HIDE DEF R
<1>4. CASE Event(P, Q, out)
  <2>1. Q.status = "ok" /\ Match(json, Q, more)
    BY <1>1, <1>4, EventMatches, Zenon DEF Event
  <2>2. \E c \in 0 .. Len(json) : more = At(json, c).out
    BY <2>1, Zenon DEF Match
  <2> HIDE DEF Q, more
  <2>3. Core(json, Q, more)
    BY <2>1, <2>2 DEF Core
  <2>4. R[1] = Q /\ R[2] = more
    BY <1>3, <2>1
  <2> QED  BY <1>4, <2>1, <2>3, <2>4, Zenon DEF Q, R
<1>5. CASE Fails(Q)
  <2>1. Q.status \in {"wild", "thrown"} /\ At(json, Len(json)).want # "nothing"
    BY <1>5, Zenon DEF Fails
  <2>2. \E c \in 0 .. Len(json) : out = At(json, c).out
    BY Zenon DEF Core
  <2> HIDE DEF Q, more
  <2>3. Core(json, Q, out)
    BY <2>1, <2>2 DEF Core
  <2>4. R[1] = Q /\ R[2] = out
    BY <1>3, <2>1
  <2> QED  BY <2>1, <2>3, <2>4, Zenon DEF Q, R
<1> QED  BY <1>2, <1>4, <1>5

\* Only with nothing under it is the parser at the end.
LEMMA StackLeft ==
  ASSUME NEW P, NEW out, Match(json, P, out), Len(P.stack) >= 1
  PROVE  P.state # "end"
<1>1. PICK c \in 0 .. Len(json) : Stacked(P, At(json, c))
  BY Zenon DEF Match
<1> DEFINE a == At(json, c)
<1> HIDE DEF a
<1>2. P.state = "end" => P.stack = << >>
  BY <1>1 DEF Stacked, StateOf, a
<1>3. P.stack = << >> => ~(Len(P.stack) >= 1)
  OBVIOUS
<1> QED  BY <1>2, <1>3

\* seek_level, one event after the other.
Seek(Q, level) ==
    IF Q[1].status # "ok" \/ Len(Q[1].stack) <= level THEN Q ELSE Advance(Q)

Seeks(g, level) ==
    g = [n \in 0 .. Len(json) |-> IF n = 0 THEN <<pull, events>>
                                  ELSE LET Q == g[n - 1]
                                       IN IF Q[1].status # "ok" \/ Len(Q[1].stack) <= level THEN Q
                                          ELSE Advance(Q)]

Sought(level) == CHOOSE g : Seeks(g, level)

SeeksFrom(g, R, n, level) == g = [m \in 0 .. n |-> IF m = 0 THEN R ELSE Seek(g[m - 1], level)]

LEMMA SeeksLong ==
  ASSUME NEW R, NEW level, NEW n \in Nat
  PROVE  \E g : SeeksFrom(g, R, n, level)
<1> DEFINE Ok(g, k) == g = [m \in 0 .. k |-> IF m = 0 THEN R ELSE Seek(g[m - 1], level)]
           bad == {k \in Nat : ~ \E g : Ok(g, k)}
<1>1. SUFFICES ASSUME bad # {}  PROVE FALSE
  BY Zenon DEF SeeksFrom
<1>2. PICK k \in bad : \A j \in bad : k <= j
  <2>1. bad \subseteq Nat
    OBVIOUS
  <2> HIDE DEF bad
  <2> QED  BY <1>1, <2>1, LeastOf
<1>3. CASE k = 0
  <2> DEFINE g == [m \in 0 .. 0 |-> R]
  <2>1. Ok(g, 0)
    OBVIOUS
  <2> QED  BY <1>2, <1>3, <2>1
<1>4. CASE k # 0
  <2>1. k \in Nat /\ k - 1 \in Nat /\ ~(k <= k - 1)
    BY <1>2, <1>4
  <2>2. k - 1 \notin bad
    <3> HIDE DEF bad
    <3> QED  BY <1>2, <2>1
  <2>3. PICK g : Ok(g, k - 1)
    BY <2>1, <2>2
  <2> DEFINE e == Seek(g[k - 1], level)
             f == [m \in 0 .. k |-> IF m = k THEN e ELSE g[m]]
  <2>4. ASSUME NEW m \in 0 .. k
        PROVE  f[m] = IF m = 0 THEN R ELSE Seek(f[m - 1], level)
    <3>1. CASE m = k
      <4>1. f[m - 1] = g[k - 1] /\ m # 0
        BY <1>4, <2>1, <3>1
      <4>2. f[m] = e
        BY <3>1
      <4> HIDE DEF f
      <4> QED  BY <3>1, <4>1, <4>2
    <3>2. CASE m # k
      <4>1. m \in 0 .. k - 1 /\ (m # 0 => m - 1 \in 0 .. k /\ m - 1 # k)
        BY <2>1, <3>2
      <4>2. g[m] = IF m = 0 THEN R ELSE Seek(g[m - 1], level)
        BY <2>3, <4>1
      <4> HIDE DEF e
      <4>3. f[m] = g[m] /\ (m # 0 => f[m - 1] = g[m - 1])
        BY <3>2, <4>1
      <4> HIDE DEF f
      <4> QED  BY <4>2, <4>3
    <3> QED  BY <3>1, <3>2
  <2>5. f = [m \in 0 .. k |-> f[m]]
    OBVIOUS
  <2> HIDE DEF f
  <2>6. Ok(f, k)
    BY <2>4, <2>5
  <2> QED  BY <1>2, <2>6
<1> QED  BY <1>3, <1>4

LEMMA SoughtIs ==
  ASSUME json \in Seq(STRING), NEW level
  PROVE  /\ SeekLevel(level) = Sought(level)[Len(json)] /\ Len(json) \in Nat
         /\ Sought(level)[0] = <<pull, events>>
         /\ \A n \in 1 .. Len(json) : Sought(level)[n] = Seek(Sought(level)[n - 1], level)
<1>1. Len(json) \in Nat
  OBVIOUS
<1>2. \E g : Seeks(g, level)
  <2> DEFINE n == Len(json)
             R == <<pull, events>>
  <2>1. n \in Nat
    BY <1>1
  <2> HIDE DEF n, R
  <2>2. \E g : SeeksFrom(g, R, n, level)
    BY <2>1, SeeksLong
  <2> QED  BY <2>2, Zenon DEF SeeksFrom, Seeks, Seek, n, R
<1>3. Seeks(Sought(level), level)
  BY <1>2, Zenon DEF Sought
<1>4. SeekLevel(level) = Sought(level)[Len(json)]
  BY Zenon DEF SeekLevel, AdvanceTo, Sought, Seeks
<1> DEFINE g == Sought(level)
           R == <<pull, events>>
<1> HIDE DEF g, R
<1>5. g = [n \in 0 .. Len(json) |-> IF n = 0 THEN R ELSE Seek(g[n - 1], level)]
  BY <1>3, Zenon DEF Seeks, Seek, g, R
<1>6. g[0] = R
  BY <1>1, <1>5
<1>7. \A n \in 1 .. Len(json) : g[n] = Seek(g[n - 1], level)
  BY <1>1, <1>5
<1> QED  BY <1>1, <1>4, <1>6, <1>7 DEF g, R

\* Seeking: the parser does not come to the end.
Going(R) == /\ Core(json, R[1], R[2]) /\ R[1].status # "refused" /\ R = <<R[1], R[2]>>
            /\ R[1].status = "ok" => R[1].state # "end"

\* An enumeration is not sought beyond the end of what holds it.
LEMMA SeekGoes ==
  ASSUME json \in Seq(STRING), Plain(Scan(json)), Core(json, pull, events), pull.status = "ok",
         pull.state # "end", NEW level \in Nat \ {0}
  PROVE  \A n \in 0 .. Len(json) : Going(Sought(level)[n])
<1> DEFINE g == Sought(level)
           bad == {n \in 0 .. Len(json) : ~Going(g[n])}
<1>1. /\ SeekLevel(level) = g[Len(json)] /\ Len(json) \in Nat /\ g[0] = <<pull, events>>
      /\ \A n \in 1 .. Len(json) : g[n] = Seek(g[n - 1], level)
  BY SoughtIs
<1> HIDE DEF g
<1>2. Going(<<pull, events>>)
  BY DEF Going
<1>3. ASSUME NEW R, Going(R)
      PROVE  Going(Seek(R, level))
  <2>1. CASE R[1].status # "ok" \/ Len(R[1].stack) <= level
    <3>1. Seek(R, level) = R
      BY <2>1, Zenon DEF Seek
    <3> QED  BY <1>3, <3>1, Zenon
  <2>2. CASE ~(R[1].status # "ok" \/ Len(R[1].stack) <= level)
    <3> DEFINE P == R[1]
               out == R[2]
               S == Advance(<<P, out>>)
    <3>1. Seek(R, level) = S
      BY <1>3, <2>2, Zenon DEF Seek, Going
    <3>2. Core(json, P, out) /\ P.status = "ok" /\ P.state # "end" /\ ~(Len(P.stack) <= level)
      BY <1>3, <2>2 DEF Going
    <3> HIDE DEF P, out
    <3>3. /\ Core(json, S[1], S[2]) /\ S[1].status # "refused"
          /\ S[1].status = "ok" => Event(P, S[1], out)
      BY <3>2, AdvanceIs
    <3>4. S = <<S[1], S[2]>>
      BY DEF Advance
    <3> HIDE DEF S
    <3>5. ASSUME S[1].status = "ok"  PROVE S[1].state # "end"
      <4>1. Event(P, S[1], out) /\ Match(json, S[1], S[2])
        BY <3>3, <3>5 DEF Core
      <4>2. Len(S[1].stack) >= Len(P.stack) - 1
        BY <4>1, Zenon DEF Event
      <4>3. Len(S[1].stack) \in Nat /\ Len(P.stack) \in Nat
        <5>1. S[1] \in Parsers /\ P \in Parsers
          BY <3>2, <4>1 DEF Match, Core
        <5> QED  BY <5>1, StackLen
      <4>4. Len(S[1].stack) >= 1
        <5> DEFINE i == Len(S[1].stack)
                   j == Len(P.stack)
        <5>1. i \in Nat /\ j \in Nat /\ i >= j - 1 /\ ~(j <= level) /\ level \in Nat /\ level # 0
          BY <3>2, <4>2, <4>3
        <5> HIDE DEF i, j
        <5>2. i >= 1
          BY <5>1
        <5> QED  BY <5>2 DEF i
      <4> QED  BY <4>1, <4>4, StackLeft
    <3> QED  BY <3>1, <3>3, <3>4, <3>5 DEF Going
  <2> QED  BY <2>1, <2>2
<1>4. bad = {}
  <2> SUFFICES ASSUME bad # {}  PROVE FALSE
    OBVIOUS
  <2>1. PICK n \in bad : \A j \in bad : n <= j
    <3>1. bad \subseteq Nat
      OBVIOUS
    <3> HIDE DEF bad
    <3> QED  BY <3>1, LeastOf
  <2>2. CASE n = 0
    BY <1>1, <1>2, <2>1, <2>2
  <2>3. CASE n # 0
    <3>1. n \in 1 .. Len(json) /\ n - 1 \in 0 .. Len(json) /\ ~(n <= n - 1)
      BY <1>1, <2>1, <2>3
    <3>2. n - 1 \notin bad
      <4> HIDE DEF bad
      <4> QED  BY <2>1, <3>1
    <3>3. Going(g[n - 1])
      BY <3>1, <3>2
    <3>4. Going(g[n])
      BY <1>1, <1>3, <3>1, <3>3
    <3> QED  BY <2>1, <3>4
  <2> QED  BY <2>2, <2>3
<1> QED  BY <1>4 DEF g

\* seek_level.
LEMMA SeekIs ==
  ASSUME json \in Seq(STRING), Plain(Scan(json)), Core(json, pull, events), pull.status = "ok",
         pull.state # "end", NEW level \in Nat \ {0}
  PROVE  Going(SeekLevel(level))
<1>1. SeekLevel(level) = Sought(level)[Len(json)] /\ Len(json) \in 0 .. Len(json)
  BY SoughtIs
<1> QED  BY <1>1, SeekGoes

-----------------------------------------------------------------------------
(* The inductive invariant, and that every call keeps it.                  *)

Ends == {"}", "]"}

Frames == [level : Nat \ {0}, end : Ends, start : Nat, keys : Seq(Nat), due : BOOLEAN, over : BOOLEAN]

\* The inductive invariant: on a document the parser is defined for, it stands at
\* events of the scan; the level of an enumeration is that of the bracket it is in.
JsonInv ==
    /\ json \in Seq(STRING) /\ ref = Reference(json)
    /\ ref.plain => Core(json, pull, events) /\ frames \in Seq(Frames)

LEMMA RefIs ==
  ASSUME NEW d
  PROVE  LET r == Reference(d)
         IN /\ r.out = Scan(d).out
            /\ r.plain <=> Plain(Scan(d))
            /\ r.whole <=> Plain(Scan(d)) /\ Scan(d).want = "nothing"
  BY DEF Reference, Plain

LEMMA InitInv ==
  ASSUME PullInit
  PROVE  JsonInv
<1>1. json \in Seq(STRING) /\ ref = Reference(json)
  BY DocsAssumption DEF PullInit
<1>2. /\ pull = [state |-> "value", stack |-> <<"end">>, buffer |-> << >>, pos |-> 0,
                 status |-> "ok", event |-> "none"]
      /\ events = << >> /\ frames = << >>
  BY Zenon DEF PullInit
<1> DEFINE a == At(json, 0)
<1>3. Len(json) \in Nat /\ a = Fresh
  BY <1>1, ScanAt
<1>4. a.open = << >> /\ a.want = "value" /\ a.out = << >>
  BY <1>3 DEF Fresh
<1> HIDE DEF a
<1>5. pull \in Parsers
  <2>1. <<"end">> \in Seq(States) /\ << >> \in Seq(STRING)
    BY DEF States
  <2> DEFINE s == <<"end">>
             t == << >>
  <2> HIDE DEF s, t
  <2>2. [state |-> "value", stack |-> s, buffer |-> t, pos |-> 0, status |-> "ok", event |-> "none"] \in Parsers
    BY <2>1 DEF Parsers, States, s, t
  <2> QED  BY <1>2, <2>2 DEF s, t
<1>6. /\ pull.state = "value" /\ pull.stack = <<"end">> /\ pull.buffer = << >> /\ pull.pos = 0
      /\ pull.status = "ok"
  BY <1>2
<1>7. Used(json, pull, 0)
  BY <1>3, <1>6 DEF Used
<1>8. Stacked(pull, a)
  <2>1. Value(a)
    BY <1>4 DEF Value, Inside
  <2>2. Tower(a.open) = <<"end">>
    <3>1. a.open \in Seq(Brackets)
      BY <1>4
    <3> QED  BY <1>4, <3>1, TowerFront
  <2> QED  BY <1>6, <2>1, <2>2 DEF Stacked
<1>9. a.want \in Between /\ events = a.out
  BY <1>2, <1>4 DEF Between
<1>10. 0 \in 0 .. Len(json) /\ pull.state # "end"
  BY <1>3, <1>6
<1>11. Match(json, pull, events)
  BY <1>5, <1>7, <1>8, <1>9, <1>10, Zenon DEF Match, a
<1>12. Core(json, pull, events)
  BY <1>6, <1>9, <1>10, <1>11, Zenon DEF Core, a
<1>13. frames \in Seq(Frames)
  BY <1>2
<1> QED  BY <1>1, <1>12, <1>13 DEF JsonInv

\* What the client knows before it calls.
Before == /\ json \in Seq(STRING) /\ Plain(Scan(json)) /\ Core(json, pull, events)
          /\ pull.status = "ok" /\ pull.state # "end"

LEMMA BeforeIs ==
  ASSUME JsonInv, ref.plain, Running
  PROVE  Before /\ frames \in Seq(Frames)
  BY RefIs, Zenon DEF JsonInv, Running, Before

\* A call that takes an event.
LEMMA TakeIs ==
  ASSUME Before, NEW e, Take(e)
  PROVE  /\ Core(json, pull', events') /\ Len(events') \in Nat
         /\ pull'.status = "ok" => /\ pull'.event = e /\ Len(pull'.stack) \in Nat
                                   /\ e \in {"{", "["} => Len(pull'.stack) >= 1
<1> DEFINE R == Advance(<<pull, events>>)
           P == R[1]
           out == R[2]
<1>0. json \in Seq(STRING)
  BY DEF Before
<1>1. /\ Core(json, P, out)
      /\ P.status = "ok" => Event(pull, P, out) \/ Event(pull, P, events)
  <2>1. /\ Core(json, R[1], R[2])
        /\ R[1].status = "ok" => Event(pull, R[1], events)
    BY AdvanceIs DEF Before
  <2> QED  BY <2>1
<1>2. /\ pull' = IF P.status = "ok" /\ P.event # e THEN [P EXCEPT !.status = "refused"] ELSE P
      /\ events' = out
  BY Zenon DEF Take
<1>3. Len(out) \in Nat
  BY <1>0, <1>1, CoreOut
<1> HIDE DEF R, P, out
<1>4. CASE P.status = "ok" /\ P.event # e
  <2>1. P \in Parsers
    BY <1>1, <1>4 DEF Core, Match
  <2> DEFINE Q == [P EXCEPT !.status = "refused"]
  <2>2. pull' = Q
    BY <1>2, <1>4, Zenon
  <2>3. Q.status = "refused"
    BY <2>1 DEF Parsers
  <2> HIDE DEF Q
  <2>4. Core(json, Q, out)
    BY <1>1, <2>3 DEF Core
  <2> QED  BY <1>2, <1>3, <2>2, <2>3, <2>4
<1>5. CASE ~(P.status = "ok" /\ P.event # e)
  <2>1. pull' = P
    BY <1>2, <1>5, Zenon
  <2>2. ASSUME P.status = "ok"
        PROVE  /\ P.event = e /\ Len(P.stack) \in Nat
               /\ e \in {"{", "["} => Len(P.stack) >= 1
    <3>1. P.event = e
      BY <1>5, <2>2
    <3>2. P \in Parsers /\ (P.event \in {"{", "["} => Len(P.stack) >= 1)
      BY <1>1, <2>2, Zenon DEF Event
    <3> QED  BY <3>1, <3>2, StackLen
  <2> QED  BY <1>1, <1>2, <1>3, <2>1, <2>2
<1> QED  BY <1>4, <1>5

\* Enumerations.
LEMMA FrameSet ==
  ASSUME NEW s \in Seq(Frames), NEW k \in 1 .. Len(s), NEW v \in BOOLEAN
  PROVE  [s EXCEPT ![k].due = v] \in Seq(Frames)
<1> DEFINE f == [s[k] EXCEPT !.due = v]
<1>1. s[k] \in Frames
  OBVIOUS
<1>2. f \in Frames
  BY <1>1 DEF Frames
<1> HIDE DEF f
<1>3. [s EXCEPT ![k] = f] \in Seq(Frames)
  BY <1>2
<1> QED  BY <1>3 DEF f

LEMMA FrameKeys ==
  ASSUME NEW s \in Seq(Frames), NEW k \in 1 .. Len(s), NEW n \in Nat
  PROVE  [s EXCEPT ![k].due = FALSE, ![k].keys = Append(@, n)] \in Seq(Frames)
<1> DEFINE t == [s EXCEPT ![k].due = FALSE]
           f == [t[k] EXCEPT !.keys = Append(@, n)]
<1>1. t \in Seq(Frames) /\ k \in 1 .. Len(t)
  <2>1. t \in Seq(Frames)
    BY FrameSet
  <2> QED  BY <2>1
<1> HIDE DEF t
<1>2. t[k] \in Frames
  BY <1>1
<1>3. f \in Frames
  <2> DEFINE l == Append(t[k].keys, n)
  <2>1. l \in Seq(Nat)
    <3>1. t[k].keys \in Seq(Nat)
      BY <1>2 DEF Frames
    <3> QED  BY <3>1
  <2>2. f = [t[k] EXCEPT !.keys = l]
    OBVIOUS
  <2> HIDE DEF l, f
  <2> QED  BY <1>2, <2>1, <2>2 DEF Frames
<1> HIDE DEF f
<1>4. [t EXCEPT ![k] = f] \in Seq(Frames)
  BY <1>1, <1>3
<1> QED  BY <1>4 DEF f, t

LEMMA FrameMore ==
  ASSUME NEW s \in Seq(Frames), NEW k \in 1 .. Len(s), NEW v \in BOOLEAN, NEW w \in BOOLEAN
  PROVE  [SubSeq(s, 1, k) EXCEPT ![k].due = v, ![k].over = w] \in Seq(Frames)
<1> DEFINE u == SubSeq(s, 1, k)
           t == [u EXCEPT ![k].due = v]
           f == [t[k] EXCEPT !.over = w]
<1>1. u \in Seq(Frames) /\ k \in 1 .. Len(u)
  OBVIOUS
<1> HIDE DEF u
<1>2. t \in Seq(Frames) /\ k \in 1 .. Len(t)
  <2>1. t \in Seq(Frames)
    BY <1>1, FrameSet
  <2> QED  BY <1>1, <2>1
<1> HIDE DEF t
<1>3. t[k] \in Frames
  BY <1>2
<1>4. f \in Frames
  BY <1>3 DEF Frames
<1> HIDE DEF f
<1>5. [t EXCEPT ![k] = f] \in Seq(Frames)
  BY <1>2, <1>4
<1> QED  BY <1>5 DEF f, t, u

\* What every call keeps.
Kept == Core(json, pull', events') /\ frames' \in Seq(Frames)

LEMMA PullEventKeeps ==
  ASSUME Before, frames \in Seq(Frames), PullEvent
  PROVE  Kept
<1> DEFINE R == Advance(<<pull, events>>)
<1>1. Core(json, R[1], R[2])
  BY AdvanceIs DEF Before
<1>2. pull' = R[1] /\ events' = R[2] /\ frames' = frames
  BY Zenon DEF PullEvent, Becomes
<1> HIDE DEF R
<1> QED  BY <1>1, <1>2, Zenon DEF Kept

LEMMA NewFrame ==
  ASSUME NEW s \in Seq(Frames), NEW level \in Nat, level >= 1, NEW n \in Nat, NEW close \in Ends
  PROVE  Append(IF s = << >> THEN << >> ELSE [s EXCEPT ![Len(s)].due = FALSE],
                [level |-> level, end |-> close, start |-> n, keys |-> << >>, due |-> FALSE, over |-> FALSE])
           \in Seq(Frames)
<1> DEFINE t == << >>
           new == [level |-> level, end |-> close, start |-> n, keys |-> t, due |-> FALSE, over |-> FALSE]
           inner == IF s = << >> THEN << >> ELSE [s EXCEPT ![Len(s)].due = FALSE]
<1>1. t \in Seq(Nat) /\ level \in Nat \ {0}
  OBVIOUS
<1> HIDE DEF t
<1>2. new \in Frames
  BY <1>1 DEF Frames
<1>3. inner \in Seq(Frames)
  <2>1. CASE s = << >>
    BY <2>1
  <2>2. CASE s # << >>
    <3>1. Len(s) \in 1 .. Len(s)
      BY <2>2
    <3>2. [s EXCEPT ![Len(s)].due = FALSE] \in Seq(Frames)
      BY <3>1, FrameSet
    <3> QED  BY <2>2, <3>2
  <2> QED  BY <2>1, <2>2
<1> HIDE DEF inner, new
<1>4. Append(inner, new) \in Seq(Frames)
  BY <1>2, <1>3
<1> QED  BY <1>4 DEF inner, new, t

LEMMA ElementsKeeps ==
  ASSUME Before, frames \in Seq(Frames), NEW start \in Brackets, NEW close \in Ends,
         Elements(start, close)
  PROVE  Kept
<1>1. Take(start)
  BY Zenon DEF Elements
<1>2. /\ Core(json, pull', events') /\ Len(events') \in Nat
      /\ pull'.status = "ok" => Len(pull'.stack) \in Nat /\ Len(pull'.stack) >= 1
  BY <1>1, TakeIs DEF Brackets
<1> DEFINE inner == IF frames = << >> THEN << >> ELSE [frames EXCEPT ![Len(frames)].due = FALSE]
           level == Len(pull'.stack)
           n == Len(events')
           new == [level |-> level, end |-> close, start |-> n, keys |-> << >>, due |-> FALSE, over |-> FALSE]
<1>3. frames' = IF pull'.status # "ok" THEN frames ELSE Append(inner, new)
  BY Zenon DEF Elements
<1>4. ASSUME pull'.status = "ok"
      PROVE  Append(inner, new) \in Seq(Frames)
  <2>1. level \in Nat /\ level >= 1 /\ n \in Nat
    BY <1>2, <1>4
  <2> HIDE DEF level, n
  <2> QED  BY <2>1, NewFrame, Zenon
<1> HIDE DEF inner, new
<1>5. frames' \in Seq(Frames)
  BY <1>3, <1>4, Zenon
<1> QED  BY <1>2, <1>5 DEF Kept

LEMMA TakingKeeps ==
  ASSUME Before, frames \in Seq(Frames), NextElement \/ StringValue
  PROVE  Kept
<1>1. CASE NextElement
  <2>1. Take("key") /\ frames # << >>
    BY <1>1, Zenon DEF NextElement, Due
  <2>2. Core(json, pull', events') /\ Len(events') \in Nat
    BY <2>1, TakeIs
  <2>3. frames' = [frames EXCEPT ![Len(frames)].due = FALSE,
                                 ![Len(frames)].keys = Append(@, Len(events'))]
    BY <1>1, Zenon DEF NextElement
  <2>4. Len(frames) \in 1 .. Len(frames)
    BY <2>1
  <2> DEFINE n == Len(events')
             k == Len(frames)
  <2> HIDE DEF n, k
  <2>5. [frames EXCEPT ![k].due = FALSE, ![k].keys = Append(@, n)] \in Seq(Frames)
    BY <2>2, <2>4, FrameKeys DEF n, k
  <2> QED  BY <2>2, <2>3, <2>5 DEF Kept, n, k
<1>2. CASE StringValue
  <2>1. Take("string") /\ frames' = frames
    BY <1>2, Zenon DEF StringValue
  <2>2. Core(json, pull', events')
    BY <2>1, TakeIs
  <2> QED  BY <2>1, <2>2 DEF Kept
<1> QED  BY <1>1, <1>2

LEMMA HasMoreKeeps ==
  ASSUME Before, frames \in Seq(Frames), NEW k \in 1 .. Len(frames), HasMore(k)
  PROVE  Kept
<1> DEFINE level == frames[k].level
           R == SeekLevel(level)
           P == Then(R[1], NextValue)
           more == P.status = "ok" /\ Head(P.buffer) # frames[k].end
           over == P.status = "ok" /\ ~more
           S == IF over THEN Advance(<<P, R[2]>>) ELSE <<P, R[2]>>
<1>1. /\ pull' = S[1] /\ events' = S[2]
      /\ frames' = [SubSeq(frames, 1, k) EXCEPT ![k].due = more, ![k].over = over]
  BY Zenon DEF HasMore, Becomes
<1>2. level \in Nat \ {0}
  <2>1. frames[k] \in Frames
    OBVIOUS
  <2> QED  BY <2>1 DEF Frames
<1>3. json \in Seq(STRING) /\ Plain(Scan(json))
  BY DEF Before
<1>4. /\ Core(json, R[1], R[2]) /\ R[1].status # "refused"
      /\ R[1].status = "ok" => R[1].state # "end"
  <2> HIDE DEF level
  <2> QED  BY <1>2, SeekIs DEF Before, Going
<1>5. frames' \in Seq(Frames)
  <2> DEFINE v == more
             w == over
  <2>1. v \in BOOLEAN /\ w \in BOOLEAN
    OBVIOUS
  <2> HIDE DEF v, w
  <2>2. [SubSeq(frames, 1, k) EXCEPT ![k].due = v, ![k].over = w] \in Seq(Frames)
    BY <2>1, FrameMore
  <2>3. frames' = [SubSeq(frames, 1, k) EXCEPT ![k].due = v, ![k].over = w]
    BY <1>1, Zenon DEF v, w
  <2> QED  BY <2>2, <2>3
<1> DEFINE out == R[2]
           F == R[1]
<1>6. Core(json, P, out) /\ (P.status = "ok" => P.state # "end")
  <2>1. Core(json, F, out) /\ F.status # "refused" /\ (F.status = "ok" => F.state # "end")
    BY <1>4
  <2>2. (F.status = "ok" => P = NextValue(F)) /\ (F.status # "ok" => P = F)
    BY Zenon DEF Then
  <2> HIDE DEF F, P, out
  <2>3. CASE F.status = "ok"
    <3>1. Match(json, F, out) /\ \E c \in 0 .. Len(json) : out = At(json, c).out
      BY <2>1, <2>3, Zenon DEF Core
    <3>2. \/ Fails(P)
          \/ Match(json, P, out) /\ P.status = "ok" /\ P.state = F.state
      BY <1>3, <2>1, <2>2, <2>3, <3>1, NextStays
    <3> QED  BY <2>1, <2>3, <3>1, <3>2 DEF Core, Fails
  <2>4. CASE F.status # "ok"
    BY <2>1, <2>2, <2>4
  <2> QED  BY <2>3, <2>4
<1>7. Core(json, S[1], S[2])
  <2>1. CASE over
    <3>1. S = Advance(<<P, out>>) /\ P.status = "ok"
      BY <2>1, Zenon
    <3> HIDE DEF S, P, out, over
    <3> DEFINE T == Advance(<<P, out>>)
    <3>2. Core(json, T[1], T[2])
      BY <1>3, <1>6, <3>1, AdvanceIs
    <3> QED  BY <3>1, <3>2
  <2>2. CASE ~over
    <3>1. S = <<P, out>>
      BY <2>2, Zenon
    <3> HIDE DEF S, P, out, over
    <3>2. S[1] = P /\ S[2] = out
      BY <3>1
    <3> QED  BY <1>6, <3>2
  <2> QED  BY <2>1, <2>2
<1> HIDE DEF S, P, R, more, over
<1> QED  BY <1>1, <1>5, <1>7, Zenon DEF Kept

LEMMA NextInv ==
  ASSUME JsonInv, [PullNext]_jvars
  PROVE  JsonInv'
<1>1. CASE UNCHANGED jvars
  BY <1>1 DEF jvars, JsonInv
<1>2. CASE PullNext
  <2>1. /\ json' = json /\ ref' = ref /\ Running
    <3>1. CASE PullEvent
      BY <3>1 DEF PullEvent
    <3>2. CASE \E s, e \in {"{", "[", "}", "]"} : Elements(s, e)
      BY <3>2 DEF Elements
    <3>3. CASE \E k \in 1 .. Len(frames) : HasMore(k)
      BY <3>3 DEF HasMore
    <3>4. CASE NextElement \/ StringValue
      BY <3>4 DEF NextElement, StringValue
    <3> QED  BY <1>2, <3>1, <3>2, <3>3, <3>4 DEF PullNext
  <2>2. ASSUME ref.plain  PROVE Kept
    <3>1. Before /\ frames \in Seq(Frames)
      BY <2>1, <2>2, BeforeIs
    <3>2. CASE PullEvent
      BY <3>1, <3>2, PullEventKeeps
    <3>3. CASE Elements("{", "}")
      <4>1. "{" \in Brackets /\ "}" \in Ends
        BY DEF Brackets, Ends
      <4> QED  BY <3>1, <3>3, <4>1, ElementsKeeps
    <3>4. CASE Elements("[", "]")
      <4>1. "[" \in Brackets /\ "]" \in Ends
        BY DEF Brackets, Ends
      <4> QED  BY <3>1, <3>4, <4>1, ElementsKeeps
    <3>5. CASE \E k \in 1 .. Len(frames) : HasMore(k)
      BY <3>1, <3>5, HasMoreKeeps
    <3>6. CASE NextElement \/ StringValue
      BY <3>1, <3>6, TakingKeeps
    <3> QED  BY <1>2, <3>2, <3>3, <3>4, <3>5, <3>6 DEF PullNext
  <2>3. json' \in Seq(STRING) /\ ref' = Reference(json')
    BY <2>1 DEF JsonInv
  <2>4. ref'.plain => Core(json', pull', events') /\ frames' \in Seq(Frames)
    BY <2>1, <2>2 DEF Kept
  <2> QED  BY <2>3, <2>4 DEF JsonInv
<1> QED  BY <1>1, <1>2

-----------------------------------------------------------------------------
(* What follows from it.                                                   *)

\* What comes first is a prefix, and all of it when it is as long.
LEMMA PrefixIs ==
  ASSUME NEW a, Shaped(a), NEW b, Shaped(b), Ahead(a, b)
  PROVE  IsPrefix(a.out, b.out) /\ (Len(a.out) = Len(b.out) => a.out = b.out)
<1> DEFINE s == a.out
           t == b.out
           S == Names \X Nat
<1>1. s \in Seq(S) /\ t \in Seq(S)
  BY OutIs
<1>2. Len(s) <= Len(t) /\ \A k \in 1 .. Len(s) : t[k] = s[k]
  BY DEF Ahead
<1> HIDE DEF s, t, S
<1>3. Len(s) \in Nat /\ Len(t) \in Nat
  BY <1>1
<1> DEFINE n == Len(s)
<1> HIDE DEF n
<1>4. /\ n \in Nat /\ n <= Len(t) /\ n = Len(s)
  BY <1>2, <1>3 DEF n
<1> DEFINE u == SubSeq(s, 1, n)
           v == SubSeq(t, 1, n)
<1>5. u \in Seq(S) /\ Len(u) = n /\ \A k \in 1 .. n : u[k] = s[k]
  BY <1>1, <1>3, <1>4
<1>6. v \in Seq(S) /\ Len(v) = n /\ \A k \in 1 .. n : v[k] = t[k]
  BY <1>1, <1>3, <1>4
<1> HIDE DEF u, v
<1>7. u = v
  BY <1>2, <1>4, <1>5, <1>6, SeqEqual
<1>8. IsPrefix(s, t)
  BY <1>2, <1>7 DEF IsPrefix, u, v, n
<1>9. Len(s) = Len(t) => s = t
  BY <1>1, <1>2, SeqEqual
<1> QED  BY <1>8, <1>9 DEF s, t

\* At the end nothing is wanted, and only there.
LEMMA EndIs ==
  ASSUME NEW P, NEW a, Shaped(a), Stacked(P, a), a.want \in Between
  PROVE  P.state = "end" <=> a.want = "nothing"
<1>1. a.want = "nothing" => P.state = "end"
  BY DEF Shaped, Stacked, Value
<1>2. P.state = "end" => ~Value(a) /\ a.open = << >>
  BY DEF Stacked, StateOf
<1>3. ~Value(a) /\ a.open = << >> => a.want = "nothing"
  BY DEF Value, Between, Shaped, Inside
<1> QED  BY <1>1, <1>2, <1>3

LEMMA Exact ==
  ASSUME JsonInv
  PROVE  EventsExact
<1> DEFINE N == Len(json)
           z == At(json, N)
<1>1. json \in Seq(STRING) /\ ref = Reference(json)
  BY DEF JsonInv
<1>2. N \in Nat /\ N \in 0 .. N /\ Scan(json) = z /\ Shaped(z)
  <2>1. Len(json) \in Nat
    BY <1>1
  <2>2. Len(json) \in 0 .. Len(json)
    BY <2>1
  <2> QED  BY <1>1, <2>1, <2>2, ScanAt
<1>3. ref.out = z.out /\ (ref.plain <=> Plain(z)) /\ (ref.whole <=> Plain(z) /\ z.want = "nothing")
  BY <1>1, <1>2, RefIs
<1>4. ASSUME ref.plain
      PROVE  IsPrefix(events, ref.out)
  <2>1. PICK c \in 0 .. N : events = At(json, c).out
    BY <1>4, Zenon DEF JsonInv, Core
  <2>2. Shaped(At(json, c)) /\ Ahead(At(json, c), z)
    BY <1>1, <1>2, ScanAt, Grows
  <2>3. IsPrefix(At(json, c).out, z.out)
    BY <1>2, <2>2, PrefixIs
  <2> QED  BY <1>3, <2>1, <2>3, Zenon
<1>5. ASSUME ref.whole
      PROVE  pull.status \in {"ok", "refused"}
  <2>1. Core(json, pull, events) /\ z.want = "nothing"
    BY <1>3, <1>5 DEF JsonInv
  <2> QED  BY <2>1 DEF Core
<1>6. ASSUME ref.whole, pull.status = "ok"
      PROVE  events = ref.out <=> pull.state = "end"
  <2>1. Match(json, pull, events) /\ z.want = "nothing" /\ Plain(Scan(json))
    BY <1>2, <1>3, <1>6 DEF JsonInv, Core
  <2>2. PICK c \in 0 .. N : /\ events = At(json, c).out /\ Stacked(pull, At(json, c))
                            /\ At(json, c).want \in Between
    BY <2>1, Zenon DEF Match
  <2> DEFINE a == At(json, c)
  <2>3. Shaped(a)
    BY <1>1, ScanAt
  <2>4. pull.state = "end" <=> a.want = "nothing"
    BY <2>2, <2>3, EndIs
  <2>5. /\ a.want = "nothing" => z.out = a.out
        /\ a.want # "nothing" => Len(z.out) > Len(a.out)
    BY <1>1, <1>2, <2>1, Ending
  <2>6. Len(z.out) \in Nat /\ Len(a.out) \in Nat
    BY <1>2, <2>3, OutIs
  <2> HIDE DEF z, a
  <2>7. events = a.out
    BY <2>2 DEF a
  <2>8. a.want # "nothing" => z.out # a.out
    BY <2>5, <2>6
  <2> QED  BY <1>3, <2>4, <2>5, <2>7, <2>8
<1> QED  BY <1>4, <1>5, <1>6, Zenon DEF EventsExact

LEMMA NoFurther ==
  ASSUME JsonInv
  PROVE  ReadsNoFurther
<1> DEFINE N == Len(json)
           z == At(json, N)
<1>1. json \in Seq(STRING) /\ ref = Reference(json)
  BY DEF JsonInv
<1>2. N \in Nat /\ N \in 0 .. N /\ Scan(json) = z /\ Shaped(z)
  <2>1. Len(json) \in Nat
    BY <1>1
  <2>2. Len(json) \in 0 .. Len(json)
    BY <2>1
  <2> QED  BY <1>1, <2>1, <2>2, ScanAt
<1>3. ref.out = z.out
  BY <1>1, <1>2, RefIs
<1>4. SUFFICES ASSUME pull.status = "ok", ref.plain
               PROVE  /\ Len(pull.buffer) <= 1
                      /\ IF Len(events) < Len(ref.out)
                         THEN pull.pos <= ref.out[Len(events) + 1][2]
                         ELSE pull.state = "end" => pull.pos = Last(ref.out)[2]
  BY Zenon DEF ReadsNoFurther
<1>5. Match(json, pull, events)
  BY <1>4 DEF JsonInv, Core
<1>6. PICK c \in 0 .. N : Used(json, pull, c) /\ events = At(json, c).out
  BY <1>5, Zenon DEF Match
<1> DEFINE a == At(json, c)
<1>7. Shaped(a) /\ a.i = c /\ Ahead(a, z) /\ c \in Nat
  BY <1>1, <1>2, ScanAt, Grows
<1>8. a.out \in Seq(Names \X Nat) /\ Len(a.out) \in Nat /\ z.out \in Seq(Names \X Nat) /\ Len(z.out) \in Nat
  BY <1>2, <1>7, OutIs
<1>9. Len(pull.buffer) <= 1 /\ pull.pos <= c + 1
  <2>1. CASE pull.buffer = << >> /\ pull.pos = c
    BY <1>7, <2>1
  <2>2. CASE pull.buffer = <<json[c + 1]>> /\ pull.pos = c + 1
    BY <1>7, <2>2
  <2> QED  BY <1>6, <2>1, <2>2 DEF Used
<1> HIDE DEF a, z
<1>10. ASSUME Len(events) < Len(ref.out)
       PROVE  pull.pos <= ref.out[Len(events) + 1][2]
  <2> DEFINE k == Len(a.out) + 1
             q == z.out[k][2]
  <2>1. k \in Len(a.out) + 1 .. Len(z.out) /\ k \in 1 .. Len(z.out)
    BY <1>3, <1>6, <1>8, <1>10 DEF a
  <2>2. q > c
    <3>1. \A j \in Len(a.out) + 1 .. Len(z.out) : z.out[j][2] > a.i
      BY <1>7 DEF Ahead
    <3> HIDE DEF k
    <3>2. z.out[k][2] > a.i
      BY <2>1, <3>1
    <3> QED  BY <1>7, <3>2
  <2>3. q \in Nat
    <3> HIDE DEF k
    <3>1. z.out[k] \in Names \X Nat
      BY <1>8, <2>1
    <3> QED  BY <3>1
  <2>4. q = ref.out[Len(events) + 1][2]
    BY <1>3, <1>6 DEF a
  <2> HIDE DEF q
  <2>5. pull.pos \in Nat
    BY <1>5 DEF Match, Parsers
  <2>6. pull.pos <= q
    BY <1>7, <1>9, <2>2, <2>3, <2>5
  <2> QED  BY <2>4, <2>6
<1>11. ASSUME ~(Len(events) < Len(ref.out)), pull.state = "end"
       PROVE  pull.pos = Last(ref.out)[2]
  <2>1. Len(a.out) = Len(z.out)
    <3>1. Len(a.out) <= Len(z.out)
      BY <1>7 DEF Ahead
    <3>2. ~(Len(a.out) < Len(z.out))
      BY <1>3, <1>6, <1>11 DEF a
    <3> QED  BY <1>8, <3>1, <3>2
  <2>2. a.out = z.out
    BY <1>2, <1>7, <2>1, PrefixIs
  <2>3. pull.pos = Last(events)[2]
    BY <1>5, <1>11, Zenon DEF Match
  <2> QED  BY <1>3, <1>6, <2>2, <2>3, Zenon DEF a
<1> QED  BY <1>9, <1>10, <1>11, Zenon

-----------------------------------------------------------------------------
(* Depth: the brackets that are open after the first events.               *)

\* What an event adds to the depth.
Rise(e) == IF e \in Brackets THEN 1 ELSE IF e \in Ends THEN -1 ELSE 0

LEMMA RiseIs ==
  /\ \A e \in Brackets : e \notin Ends /\ e \in Names /\ Rise(e) = 1
  /\ \A e \in Ends : e \notin Brackets /\ e \in Names /\ Rise(e) = -1
  /\ \A e \in {"string", "key"} : e \notin Brackets /\ e \notin Ends /\ e \in Names /\ Rise(e) = 0
  /\ \A e \in Names : e \in Brackets \/ e \in Ends \/ e \in {"string", "key"}
<1>1. /\ \A e \in Brackets : e \notin Ends /\ e \in Names
      /\ \A e \in Ends : e \notin Brackets /\ e \in Names
      /\ \A e \in {"string", "key"} : e \notin Brackets /\ e \notin Ends /\ e \in Names
  BY DEF Brackets, Ends, Names
<1>2. \A e \in Names : e \in Brackets \/ e \in Ends \/ e \in {"string", "key"}
  BY DEF Brackets, Ends, Names
<1> QED  BY <1>1, <1>2, Zenon DEF Rise

Within(T, n) == {i \in 1 .. n : i \in T}

LEMMA OneCounted ==
  ASSUME NEW n \in Nat, NEW T
  PROVE  /\ Cardinality(Within(T, n)) \in Nat
         /\ Cardinality(Within(T, n + 1)) = Cardinality(Within(T, n)) + (IF n + 1 \in T THEN 1 ELSE 0)
<1> DEFINE S == Within(T, n)
           U == Within(T, n + 1)
<1>1. IsFiniteSet(S) /\ Cardinality(S) \in Nat
  <2>1. IsFiniteSet(1 .. n)
    BY FS_Interval
  <2>2. S \in SUBSET (1 .. n)
    BY DEF Within
  <2> HIDE DEF S
  <2> QED  BY <2>1, <2>2, FS_Subset, FS_CardinalityType
<1>2. n + 1 \notin S /\ U = (IF n + 1 \in T THEN S \union {n + 1} ELSE S)
  BY DEF Within
<1> HIDE DEF S, U
<1>3. Cardinality(S \union {n + 1}) = Cardinality(S) + 1
  BY <1>1, <1>2, FS_AddElement
<1>4. Cardinality(U) = Cardinality(S) + (IF n + 1 \in T THEN 1 ELSE 0)
  BY <1>1, <1>2, <1>3
<1> QED  BY <1>1, <1>4 DEF S, U

\* The brackets opened and those closed by the first n events.
Opened(out, n) == {i \in 1 .. n : out[i][1] \in Brackets}
Shut(out, n)   == {i \in 1 .. n : out[i][1] \in Ends}

LEMMA CountNext ==
  ASSUME NEW out, NEW n \in Nat
  PROVE  /\ Cardinality(Opened(out, n)) \in Nat
         /\ Cardinality(Opened(out, n + 1)) =
              Cardinality(Opened(out, n)) + (IF out[n + 1][1] \in Brackets THEN 1 ELSE 0)
         /\ Cardinality(Shut(out, n)) \in Nat
         /\ Cardinality(Shut(out, n + 1)) =
              Cardinality(Shut(out, n)) + (IF out[n + 1][1] \in Ends THEN 1 ELSE 0)
<1> DEFINE X == {i \in Nat : out[i][1] \in Brackets}
           Y == {i \in Nat : out[i][1] \in Ends}
<1>1. /\ Opened(out, n) = Within(X, n) /\ Opened(out, n + 1) = Within(X, n + 1)
      /\ Shut(out, n) = Within(Y, n) /\ Shut(out, n + 1) = Within(Y, n + 1)
  BY DEF Opened, Shut, Within
<1>2. (n + 1 \in X <=> out[n + 1][1] \in Brackets) /\ (n + 1 \in Y <=> out[n + 1][1] \in Ends)
  OBVIOUS
<1> HIDE DEF X, Y
<1>3. /\ Cardinality(Within(X, n)) \in Nat
      /\ Cardinality(Within(X, n + 1)) = Cardinality(Within(X, n)) + (IF n + 1 \in X THEN 1 ELSE 0)
  BY OneCounted
<1>4. /\ Cardinality(Within(Y, n)) \in Nat
      /\ Cardinality(Within(Y, n + 1)) = Cardinality(Within(Y, n)) + (IF n + 1 \in Y THEN 1 ELSE 0)
  BY OneCounted
<1> QED  BY <1>1, <1>2, <1>3, <1>4

LEMMA DepthNext ==
  ASSUME NEW out, NEW n \in Nat
  PROVE  Depth(out, n) \in Int /\ Depth(out, n + 1) = Depth(out, n) + Rise(out[n + 1][1])
<1> DEFINE x == Cardinality(Opened(out, n))
           y == Cardinality(Shut(out, n))
           v == Cardinality(Opened(out, n + 1))
           w == Cardinality(Shut(out, n + 1))
           e == out[n + 1][1]
<1>1. Depth(out, n) = x - y /\ Depth(out, n + 1) = v - w
  BY Zenon DEF Depth, Opened, Shut, Brackets, Ends
<1>2. /\ x \in Nat /\ v = x + (IF e \in Brackets THEN 1 ELSE 0)
      /\ y \in Nat /\ w = y + (IF e \in Ends THEN 1 ELSE 0)
  BY CountNext
<1> HIDE DEF x, y, v, w, e
<1>2a. ~(e \in Brackets /\ e \in Ends)
  BY RiseIs
<1>3. Depth(out, n + 1) = Depth(out, n) + Rise(e)
  BY <1>1, <1>2, <1>2a DEF Rise
<1> QED  BY <1>1, <1>2, <1>3 DEF e

LEMMA DepthSame ==
  ASSUME NEW s, NEW t, NEW n \in Nat, \A i \in 1 .. n : s[i] = t[i]
  PROVE  Depth(s, n) = Depth(t, n)
<1>1. Opened(s, n) = Opened(t, n) /\ Shut(s, n) = Shut(t, n)
  BY DEF Opened, Shut
<1>2. /\ Depth(s, n) = Cardinality(Opened(s, n)) - Cardinality(Shut(s, n))
      /\ Depth(t, n) = Cardinality(Opened(t, n)) - Cardinality(Shut(t, n))
  BY Zenon DEF Depth, Opened, Shut, Brackets, Ends
<1> QED  BY <1>1, <1>2

\* With one event more, what was before keeps its depth.
LEMMA DepthAppend ==
  ASSUME NEW S, NEW s \in Seq(S), NEW x \in S
  PROVE  LET t == Append(s, x)
         IN /\ Len(t) = Len(s) + 1 /\ Len(s) \in Nat /\ t[Len(t)] = x
            /\ \A k \in 1 .. Len(s) : t[k] = s[k]
            /\ \A k \in 0 .. Len(s) : Depth(t, k) = Depth(s, k) /\ Depth(s, k) \in Int
            /\ Depth(t, Len(t)) = Depth(s, Len(s)) + Rise(x[1])
<1> DEFINE t == Append(s, x)
           n == Len(s)
<1>1. n \in Nat /\ Len(t) = n + 1 /\ t[n + 1] = x /\ \A k \in 1 .. n : t[k] = s[k]
  OBVIOUS
<1> HIDE DEF t, n
<1>2. ASSUME NEW k \in 0 .. n
      PROVE  Depth(t, k) = Depth(s, k) /\ Depth(s, k) \in Int
  <2>1. k \in Nat /\ \A i \in 1 .. k : t[i] = s[i]
    BY <1>1
  <2> QED  BY <2>1, DepthSame, DepthNext
<1>3. Depth(t, n + 1) = Depth(t, n) + Rise(x[1])
  BY <1>1, DepthNext
<1>4. Depth(t, n) = Depth(s, n)
  BY <1>1, <1>2
<1> QED  BY <1>1, <1>2, <1>3, <1>4 DEF t, n

LEMMA DepthNone ==
  ASSUME NEW out
  PROVE  Depth(out, 0) = 0
<1>1. Opened(out, 0) = {} /\ Shut(out, 0) = {}
  BY DEF Opened, Shut
<1>2. Depth(out, 0) = Cardinality(Opened(out, 0)) - Cardinality(Shut(out, 0))
  BY Zenon DEF Depth, Opened, Shut, Brackets, Ends
<1>3. Cardinality({}) = 0
  BY FS_EmptySet
<1> QED  BY <1>1, <1>2, <1>3

\* A character of a document the parser is defined for.
LEMMA StepRises ==
  ASSUME NEW a, Shaped(a), NEW c, Plain(ScanStep(a, c))
  PROVE  LET b == ScanStep(a, c)
         IN \/ b.out = a.out /\ Len(b.open) = Len(a.open)
            \/ \E e \in Names : b.out = Append(a.out, <<e, a.i + 1>>) /\ Len(b.open) = Len(a.open) + Rise(e)
<1> DEFINE p == Placed(a)
           b == ScanStep(a, c)
<1>1. Shaped(p) /\ Alike(a, p) /\ p.i = a.i + 1
  BY PlacedIs
<1>1a. Len(a.open) \in Nat /\ a.open \in Seq(Brackets)
  <2>1. a.open \in Seq(Brackets)
    BY OutIs
  <2> QED  BY <2>1
<1>1b. ~b.bad /\ ~b.odd
  BY DEF Plain
<1>2. CASE b = p
  BY <1>1, <1>2 DEF Alike
<1>3. CASE ~a.bad /\ ~a.odd /\ a.want \in {"string", "keytext"}
  <2>1. b = InString(p, c)
    BY <1>3, StepIs
  <2>2. ~p.bad /\ ~p.odd /\ p.want \in {"string", "keytext"} /\ p.out = a.out /\ p.open = a.open
    BY <1>1, <1>3 DEF Alike
  <2> HIDE DEF p, b
  <2> DEFINE ends == c # Backslash /\ ~(c # Quote \/ p.slashes % 2 = 1)
  <2>3. /\ b.open = p.open
        /\ ~ends => b.out = p.out
        /\ ends /\ p.want = "keytext" => b.out = p.out
        /\ ends /\ p.want = "string" => b.out = Append(p.out, <<"string", p.i>>)
    BY <1>1, <2>1, <2>2, InStringIs
  <2> HIDE DEF ends
  <2>4. b.out = a.out \/ b.out = Append(a.out, <<"string", a.i + 1>>)
    BY <1>1, <2>2, <2>3
  <2>5. Len(b.open) = Len(a.open) /\ Len(b.open) = Len(a.open) + Rise("string") /\ "string" \in Names
    <3>1. Rise("string") = 0 /\ "string" \in Names
      BY RiseIs
    <3>2. b.open = a.open
      BY <2>2, <2>3
    <3> QED  BY <1>1a, <3>1, <3>2
  <2>6. \/ b.out = a.out /\ Len(b.open) = Len(a.open)
        \/ \E e \in Names : b.out = Append(a.out, <<e, a.i + 1>>) /\ Len(b.open) = Len(a.open) + Rise(e)
    BY <2>4, <2>5, Zenon
  <2> QED  BY <2>6 DEF b
<1>4. CASE ~a.bad /\ ~a.odd /\ a.want \notin {"string", "keytext"} /\ ~Blank(c)
  <2>1. b = Outside(p, c)
    BY <1>4, StepIs
  <2>2. ~p.bad /\ ~p.odd /\ p.out = a.out /\ p.open = a.open
    BY <1>1, <1>4 DEF Alike
  <2> HIDE DEF p, b
  <2>3. Defined(p, c, b)
    BY <1>1, <1>1b, <2>1, <2>2, OutsideIs
  <2>4. CASE OpensString(p, c, b) \/ OpensKey(p, c, b) \/ Separates(p, c, b)
    BY <2>2, <2>4 DEF OpensString, OpensKey, Separates, b
  <2>5. CASE EndsKey(p, c, b)
    <3>1. b.out = Append(a.out, <<"key", a.i + 1>>) /\ b.open = a.open
      BY <1>1, <2>2, <2>5 DEF EndsKey
    <3>2. "key" \in Names /\ Len(b.open) = Len(a.open) + Rise("key")
      <4>1. Rise("key") = 0 /\ "key" \in Names
        BY RiseIs
      <4> QED  BY <1>1a, <3>1, <4>1
    <3> QED  BY <3>1, <3>2, Zenon DEF b
  <2>6. CASE Opens(p, c, b)
    <3>1. c \in {"{", "["} /\ b.out = Append(a.out, <<c, a.i + 1>>) /\ b.open = Append(a.open, c)
      BY <1>1, <2>2, <2>6 DEF Opens
    <3>2. c \in Names /\ c \in Brackets /\ Rise(c) = 1
      <4>1. c \in Brackets
        BY <3>1 DEF Brackets
      <4> QED  BY <4>1, RiseIs
    <3>3. Len(Append(a.open, c)) = Len(a.open) + 1
      BY <1>1a, <3>2
    <3> QED  BY <3>1, <3>2, <3>3, Zenon DEF b
  <2>7. CASE Closes(p, c, b)
    <3>1. c \in {"}", "]"} /\ b.out = Append(a.out, <<c, a.i + 1>>) /\ b.open = Front(a.open) /\ a.open # << >>
      BY <1>1, <2>2, <2>7 DEF Closes
    <3>2. c \in Names /\ Rise(c) = -1
      <4>1. c \in Ends
        BY <3>1 DEF Ends
      <4> QED  BY <4>1, RiseIs
    <3>3. Len(Front(a.open)) = Len(a.open) - 1
      BY <1>1a, <3>1, FrontIs
    <3>4. Len(b.open) = Len(a.open) + Rise(c)
      BY <1>1a, <3>1, <3>2, <3>3
    <3> QED  BY <3>1, <3>2, <3>4, Zenon DEF b
  <2> QED  BY <2>3, <2>4, <2>5, <2>6, <2>7 DEF Defined
<1>5. (a.bad \/ a.odd) => b = p
  BY StepIs
<1>6. ~a.bad /\ ~a.odd /\ a.want \notin {"string", "keytext"} /\ Blank(c) => b = p
  BY StepIs
<1> QED  BY <1>2, <1>3, <1>4, <1>5, <1>6

\* A document has as many events as characters at most, and their depth is that of
\* the scan.
LEMMA DepthScan ==
  ASSUME NEW d \in Seq(STRING), Plain(Scan(d)), NEW n \in 0 .. Len(d)
  PROVE  LET a == At(d, n) IN Depth(a.out, Len(a.out)) = Len(a.open) /\ Len(a.out) <= n
<1> DEFINE Ok(m) == /\ Depth(At(d, m).out, Len(At(d, m).out)) = Len(At(d, m).open)
                    /\ Len(At(d, m).out) <= m
           bad == {m \in 0 .. Len(d) : ~Ok(m)}
<1>1. /\ Len(d) \in Nat /\ At(d, 0) = Fresh
      /\ \A m \in 0 .. Len(d) : Shaped(At(d, m)) /\ At(d, m).i = m
      /\ \A m \in 1 .. Len(d) : At(d, m) = ScanStep(At(d, m - 1), d[m]) /\ m - 1 \in 0 .. Len(d)
  BY ScanAt
<1>2. Ok(0)
  <2>1. Fresh.out = << >> /\ Fresh.open = << >> /\ Len(<< >>) = 0
    BY DEF Fresh
  <2> QED  BY <1>1, <2>1, DepthNone
<1>3. ASSUME NEW m \in 1 .. Len(d), Ok(m - 1)
      PROVE  Ok(m)
  <2> DEFINE a == At(d, m - 1)
             b == At(d, m)
  <2>1. Shaped(a) /\ b = ScanStep(a, d[m]) /\ m \in Nat
    BY <1>1
  <2>1a. m \in 0 .. Len(d)
    BY <1>1
  <2>2. Plain(b)
    BY <2>1a, PlainAt
  <2>3. \/ b.out = a.out /\ Len(b.open) = Len(a.open)
        \/ \E e \in Names : b.out = Append(a.out, <<e, a.i + 1>>) /\ Len(b.open) = Len(a.open) + Rise(e)
    BY <2>1, <2>2, StepRises
  <2>4. a.out \in Seq(Names \X Nat) /\ Len(a.out) \in Nat /\ a.i \in Nat
    BY <2>1, OutIs
  <2>5. Depth(a.out, Len(a.out)) = Len(a.open) /\ Len(a.out) <= m - 1
    BY <1>3
  <2> HIDE DEF a, b
  <2>6. CASE b.out = a.out /\ Len(b.open) = Len(a.open)
    <3>1. Len(b.out) <= m
      BY <2>1, <2>4, <2>5, <2>6
    <3> QED  BY <2>5, <2>6, <3>1 DEF b
  <2>7. ASSUME NEW e \in Names, b.out = Append(a.out, <<e, a.i + 1>>), Len(b.open) = Len(a.open) + Rise(e)
        PROVE  Ok(m)
    <3> DEFINE x == <<e, a.i + 1>>
    <3>1. x \in Names \X Nat /\ x[1] = e
      BY <2>4
    <3> HIDE DEF x
    <3>2. /\ Len(b.out) = Len(a.out) + 1
          /\ Depth(b.out, Len(b.out)) = Depth(a.out, Len(a.out)) + Rise(e)
      <4>1. b.out = Append(a.out, x)
        BY <2>7 DEF x
      <4> DEFINE s == a.out
      <4> HIDE DEF s
      <4>2. s \in Seq(Names \X Nat)
        BY <2>4 DEF s
      <4>3. /\ Len(Append(s, x)) = Len(s) + 1
            /\ Depth(Append(s, x), Len(Append(s, x))) = Depth(s, Len(s)) + Rise(x[1])
        BY <3>1, <4>2, DepthAppend
      <4> QED  BY <3>1, <4>1, <4>3 DEF s
    <3>3. Len(b.out) <= m
      BY <2>1, <2>4, <2>5, <3>2
    <3>4. Depth(b.out, Len(b.out)) = Len(b.open)
      BY <2>5, <2>7, <3>2
    <3> QED  BY <3>3, <3>4 DEF b
  <2> QED  BY <2>3, <2>6, <2>7
<1> HIDE DEF Ok
<1>4. bad = {}
  <2> SUFFICES ASSUME bad # {}  PROVE FALSE
    OBVIOUS
  <2>1. PICK m \in bad : \A j \in bad : m <= j
    <3>1. bad \subseteq Nat
      OBVIOUS
    <3> HIDE DEF bad
    <3> QED  BY <3>1, LeastOf
  <2>2. m # 0
    BY <1>2, <2>1
  <2>3. m \in 1 .. Len(d) /\ m - 1 \in 0 .. Len(d) /\ ~(m <= m - 1)
    BY <1>1, <2>1, <2>2
  <2>4. m - 1 \notin bad
    <3> HIDE DEF bad
    <3> QED  BY <2>1, <2>3
  <2>5. Ok(m)
    BY <1>3, <2>3, <2>4
  <2> QED  BY <2>1, <2>5
<1> QED  BY <1>4 DEF Ok

\* The brackets the parser is in.
Height(P) == IF P.state = "value" THEN Len(P.stack) - 1 ELSE Len(P.stack)

LEMMA HeightIs ==
  ASSUME json \in Seq(STRING), Plain(Scan(json)), NEW P, NEW out, Match(json, P, out)
  PROVE  /\ Depth(out, Len(out)) = Height(P) /\ Height(P) \in Nat /\ Len(P.stack) \in Nat
         /\ out \in Seq(Names \X Nat) /\ Len(out) \in Nat /\ Len(out) <= Len(json)
<1>1. PICK c \in 0 .. Len(json) : out = At(json, c).out /\ Stacked(P, At(json, c)) /\ P \in Parsers
  BY Zenon DEF Match
<1> DEFINE a == At(json, c)
<1>2. Shaped(a) /\ Depth(a.out, Len(a.out)) = Len(a.open) /\ Len(a.out) <= c
  BY ScanAt, DepthScan
<1>3. a.out \in Seq(Names \X Nat) /\ Len(a.out) \in Nat /\ a.open \in Seq(Brackets)
  BY <1>2, OutIs
<1>3a. Len(json) \in Nat /\ c \in Nat /\ c <= Len(json)
  OBVIOUS
<1> HIDE DEF a
<1>4. Height(P) = Len(a.open) /\ Len(a.open) \in Nat
  <2> DEFINE n == Len(a.open)
  <2>0. n \in Nat
    BY <1>3
  <2>1. CASE Value(a)
    <3>1. P.state = "value" /\ P.stack = Tower(a.open)
      BY <1>1, <2>1, Zenon DEF Stacked, a
    <3>2. Len(P.stack) = n + 1
      BY <1>3, <3>1, TowerIs
    <3> HIDE DEF n
    <3>3. Height(P) = n
      BY <2>0, <3>1, <3>2 DEF Height
    <3> QED  BY <2>0, <3>3 DEF n
  <2>2. CASE ~Value(a) /\ a.open # << >>
    <3>1. P.state = StateOf(Last(a.open)) /\ P.stack = Tower(Front(a.open))
      BY <1>1, <2>2, Zenon DEF Stacked, a
    <3>2. Front(a.open) \in Seq(Brackets) /\ Len(Front(a.open)) = n - 1
      BY <1>3, <2>2, FrontIs
    <3>3. Len(P.stack) = (n - 1) + 1
      BY <3>1, <3>2, TowerIs
    <3>4. P.state # "value"
      BY <3>1, StatesOf
    <3> HIDE DEF n
    <3>5. Height(P) = n
      BY <2>0, <3>3, <3>4 DEF Height
    <3> QED  BY <2>0, <3>5 DEF n
  <2>3. CASE ~Value(a) /\ a.open = << >>
    <3>1. P.state = "end" /\ P.stack = << >>
      BY <1>1, <2>3, Zenon DEF Stacked, a
    <3> QED  BY <2>3, <3>1 DEF Height
  <2> QED  BY <2>1, <2>2, <2>3
<1>5. Len(P.stack) \in Nat
  BY <1>1, StackLen
<1>6. Len(out) <= Len(json)
  BY <1>1, <1>2, <1>3, <1>3a DEF a
<1> QED  BY <1>1, <1>2, <1>3, <1>4, <1>5, <1>6 DEF a

-----------------------------------------------------------------------------
(* What more events do to the depth, and what seek_level passes over.      *)

\* The events t are the events s and one more, e.
Adds(s, t, e) ==
    /\ Len(s) \in Nat /\ Len(t) = Len(s) + 1 /\ t[Len(t)][1] = e /\ e \in Names
    /\ \A k \in 1 .. Len(s) : t[k] = s[k]
    /\ Depth(s, Len(s)) \in Int /\ Depth(t, Len(t)) = Depth(s, Len(s)) + Rise(e)

\* next(), in terms of depth.
LEMMA AdvanceAdds ==
  ASSUME json \in Seq(STRING), Plain(Scan(json)), NEW P, NEW out, Core(json, P, out), P.status = "ok",
         P.state # "end"
  PROVE  LET R == Advance(<<P, out>>)
         IN R[1].status = "ok" => /\ Match(json, R[1], R[2]) /\ Goes(P, R[1])
                                  /\ Adds(out, R[2], R[1].event)
<1> DEFINE Q == NextEvent(P)
           R == Advance(<<P, out>>)
           x == <<Q.event, Q.pos>>
           more == Append(out, x)
<1>1. Core(json, R[1], R[2]) /\ (R[1].status = "ok" => Event(P, R[1], out))
  BY AdvanceIs
<1>2. R[1] = Q /\ (Q.status = "ok" => R[2] = more)
  BY Zenon DEF Advance
<1> HIDE DEF R, Q, x
<1>3. SUFFICES ASSUME R[1].status = "ok"
               PROVE  /\ Match(json, R[1], R[2]) /\ Goes(P, R[1])
                      /\ Adds(out, R[2], R[1].event)
  BY DEF R
<1>4. Match(json, R[1], R[2]) /\ Event(P, Q, out) /\ R[2] = more
  BY <1>1, <1>2, <1>3, Zenon DEF Core
<1>5. Q.event \in Names /\ Q.pos \in 1 .. Len(json) /\ Goes(P, Q)
  BY <1>4, Zenon DEF Event
<1>6. x \in Names \X Nat /\ x[1] = Q.event
  BY <1>5, PlaceIs DEF x
<1>7. out \in Seq(Names \X Nat)
  BY CoreOut
<1>8. /\ Len(more) = Len(out) + 1 /\ Len(out) \in Nat /\ more[Len(more)] = x
      /\ \A k \in 1 .. Len(out) : more[k] = out[k]
      /\ \A k \in 0 .. Len(out) : Depth(more, k) = Depth(out, k) /\ Depth(out, k) \in Int
      /\ Depth(more, Len(more)) = Depth(out, Len(out)) + Rise(x[1])
  BY <1>6, <1>7, DepthAppend
<1> HIDE DEF more
<1>9. Depth(out, Len(out)) \in Int
  BY <1>8
<1>10. Adds(out, more, Q.event)
  BY <1>5, <1>6, <1>8, <1>9 DEF Adds
<1> QED  BY <1>2, <1>4, <1>5, <1>10

\* Events added to s: none of them a key of the level or above, none above it.
Past(s, t) ==
    /\ Len(s) \in Nat /\ Len(t) \in Nat /\ Len(s) <= Len(t)
    /\ \A k \in 1 .. Len(s) : t[k] = s[k]

Deeper(s, t, level) == \A k \in Len(s) + 1 .. Len(t) : t[k][1] = "key" => Depth(t, k) > level

Stays(s, t, level) == \A k \in Len(s) + 1 .. Len(t) : Depth(t, k) >= level

LEMMA PastDepth ==
  ASSUME NEW s, NEW t, Past(s, t)
  PROVE  /\ \A k \in 0 .. Len(s) : Depth(t, k) = Depth(s, k)
         /\ \A k \in 0 .. Len(t) : Depth(t, k) \in Int
         /\ \A k \in 0 .. Len(s) : Depth(s, k) \in Int
<1>1. ASSUME NEW k \in 0 .. Len(s)
      PROVE  Depth(t, k) = Depth(s, k) /\ Depth(s, k) \in Int
  <2>1. k \in Nat /\ \A i \in 1 .. k : t[i] = s[i]
    BY DEF Past
  <2> QED  BY <2>1, DepthSame, DepthNext
<1>2. ASSUME NEW k \in 0 .. Len(t)
      PROVE  Depth(t, k) \in Int
  BY DepthNext
<1> QED  BY <1>1, <1>2

LEMMA AddsPast ==
  ASSUME NEW s, NEW t, NEW e, Adds(s, t, e)
  PROVE  /\ Past(s, t) /\ Len(s) + 1 .. Len(t) = {Len(t)}
         /\ \A level \in Int : (e = "key" => Depth(t, Len(t)) > level) => Deeper(s, t, level)
         /\ \A level \in Int : Depth(t, Len(t)) >= level => Stays(s, t, level)
<1>1. Past(s, t) /\ Len(s) + 1 .. Len(t) = {Len(t)}
  BY DEF Adds, Past
<1> QED  BY <1>1 DEF Adds, Deeper, Stays

\* One more after others.
LEMMA PastAdds ==
  ASSUME NEW r, NEW s, NEW t, NEW e, Past(r, s), Adds(s, t, e), NEW level \in Int
  PROVE  /\ Past(r, t)
         /\ Deeper(r, s, level) /\ (e = "key" => Depth(t, Len(t)) > level) => Deeper(r, t, level)
         /\ Stays(r, s, level) /\ Depth(t, Len(t)) >= level => Stays(r, t, level)
<1>1. /\ Len(r) \in Nat /\ Len(s) \in Nat /\ Len(r) <= Len(s) /\ Len(t) = Len(s) + 1
      /\ t[Len(t)][1] = e
      /\ \A k \in 1 .. Len(r) : s[k] = r[k]
      /\ \A k \in 1 .. Len(s) : t[k] = s[k]
  BY DEF Past, Adds
<1>2. \A k \in 0 .. Len(s) : Depth(t, k) = Depth(s, k)
  BY AddsPast, PastDepth
<1>3. Past(r, t)
  BY <1>1 DEF Past
<1>4. \A k \in Len(r) + 1 .. Len(t) : k = Len(t) \/ (k \in Len(r) + 1 .. Len(s) /\ k \in 0 .. Len(s) /\ k \in 1 .. Len(s))
  BY <1>1
<1>5. ASSUME Deeper(r, s, level), e = "key" => Depth(t, Len(t)) > level
      PROVE  Deeper(r, t, level)
  BY <1>1, <1>2, <1>4, <1>5 DEF Deeper
<1>6. ASSUME Stays(r, s, level), Depth(t, Len(t)) >= level
      PROVE  Stays(r, t, level)
  BY <1>2, <1>4, <1>6 DEF Stays
<1> QED  BY <1>3, <1>5, <1>6

\* One step of seek_level from the level or below it.
Skips(R, n, level) ==
    R[1].status = "ok" =>
      /\ Past(events, R[2]) /\ Deeper(events, R[2], level) /\ Stays(events, R[2], level)
      /\ Depth(R[2], Len(R[2])) >= level
      /\ Len(R[1].stack) <= level \/ Len(R[2]) >= Len(events) + n

LEMMA StepSkips ==
  ASSUME json \in Seq(STRING), Plain(Scan(json)), NEW level \in Nat \ {0}, NEW n \in Nat,
         NEW R, Going(R), Skips(R, n, level)
  PROVE  Skips(Seek(R, level), n + 1, level)
<1>1. CASE R[1].status # "ok" \/ Len(R[1].stack) <= level
  <2>1. Seek(R, level) = R
    BY <1>1, Zenon DEF Seek
  <2> QED  BY <1>1, <2>1 DEF Skips
<1>2. CASE ~(R[1].status # "ok" \/ Len(R[1].stack) <= level)
  <2> DEFINE P == R[1]
             out == R[2]
             S == Advance(<<P, out>>)
             Q == S[1]
             t == S[2]
             e == Q.event
  <2>1. Seek(R, level) = S
    BY <1>2, Zenon DEF Seek, Going
  <2>2. Core(json, P, out) /\ P.status = "ok" /\ P.state # "end" /\ ~(Len(P.stack) <= level)
    BY <1>2 DEF Going
  <2>3. /\ Past(events, out) /\ Deeper(events, out, level) /\ Stays(events, out, level)
        /\ Depth(out, Len(out)) >= level /\ Len(out) >= Len(events) + n
    BY <1>2 DEF Skips
  <2> HIDE DEF P, out
  <2>4. SUFFICES ASSUME Q.status = "ok"
                 PROVE  Skips(S, n + 1, level)
    BY <2>1 DEF Skips
  <2>5. Match(json, Q, t) /\ Goes(P, Q) /\ Adds(out, t, e)
    BY <2>2, <2>4, AdvanceAdds
  <2>6. Match(json, P, out)
    BY <2>2 DEF Core
  <2> DEFINE d == Depth(out, Len(out))
             h == Len(P.stack)
             f == Depth(t, Len(t))
  <2>7. d = Height(P) /\ h \in Nat /\ d \in Nat
    BY <2>6, HeightIs
  <2>8. f = d + Rise(e) /\ e \in Names
    BY <2>5 DEF Adds
  <2>9. (P.state = "value" => d = h - 1 /\ e \in {"string", "{", "["}) /\ (P.state # "value" => d = h)
    BY <2>5, <2>7 DEF Height, Goes
  <2> HIDE DEF S, Q, t, e, d, h, f
  <2>10. ~(h <= level) /\ d >= level /\ level \in Nat
    BY <2>2, <2>3 DEF d, h
  <2>11. f >= level /\ (e = "key" => f > level)
    <3>1. CASE e \in Ends
      <4>1. e \notin {"string", "{", "["} /\ e # "key"
        BY <3>1 DEF Ends
      <4>2. Rise(e) = -1
        BY <3>1, RiseIs
      <4>3. d = h
        BY <2>9, <4>1, Zenon
      <4>4. e # "key"
        BY <4>1, Zenon
      <4> QED  BY <2>7, <2>8, <2>10, <4>2, <4>3, <4>4
    <3>2. CASE e = "key"
      <4>1. e \notin {"string", "{", "["}
        BY <3>2
      <4>2. Rise(e) = 0
        BY <3>2, RiseIs
      <4>3. d = h
        BY <2>9, <4>1, Zenon
      <4> QED  BY <2>7, <2>8, <2>10, <4>2, <4>3
    <3>3. CASE e = "string"
      <4>2. Rise(e) = 0
        BY <3>3, RiseIs
      <4> QED  BY <2>7, <2>8, <2>10, <3>3, <4>2
    <3>4. CASE e \in Brackets
      <4>1. Rise(e) = 1 /\ e # "key"
        BY <3>4, RiseIs
      <4> QED  BY <2>7, <2>8, <2>10, <4>1
    <3> QED  BY <2>8, <3>1, <3>2, <3>3, <3>4, RiseIs
  <2>12. /\ Past(events, t) /\ Deeper(events, t, level) /\ Stays(events, t, level)
    BY <2>3, <2>5, <2>11, PastAdds DEF f
  <2>13. Len(t) >= Len(events) + (n + 1)
    <3>1. Len(t) = Len(out) + 1 /\ Len(out) \in Nat /\ Len(events) \in Nat
      BY <2>3, <2>5 DEF Adds, Past
    <3> QED  BY <2>3, <3>1
  <2> QED  BY <2>4, <2>11, <2>12, <2>13 DEF Skips, f, t
<1> QED  BY <1>1, <1>2

\* seek_level: back at the level, from which it has passed no key.
LEMMA SeekSkips ==
  ASSUME json \in Seq(STRING), Plain(Scan(json)), Core(json, pull, events), pull.status = "ok",
         pull.state # "end", NEW level \in Nat \ {0}, events # << >>,
         Depth(events, Len(events)) >= level, SeekLevel(level)[1].status = "ok"
  PROVE  LET P == SeekLevel(level)[1]
             out == SeekLevel(level)[2]
         IN /\ Match(json, P, out) /\ P.state # "value"
            /\ Past(events, out) /\ Deeper(events, out, level) /\ Stays(events, out, level)
            /\ Depth(out, Len(out)) = level
<1> DEFINE g == Sought(level)
           N == Len(json)
           bad == {n \in 0 .. N : ~Skips(g[n], n, level)}
<1>1. /\ SeekLevel(level) = g[N] /\ N \in Nat /\ g[0] = <<pull, events>>
      /\ \A n \in 1 .. N : g[n] = Seek(g[n - 1], level)
  BY SoughtIs
<1>2. \A n \in 0 .. N : Going(g[n])
  BY SeekGoes
<1> HIDE DEF g, N
<1>3. Match(json, pull, events) /\ events \in Seq(Names \X Nat) /\ Len(events) \in Nat
  BY CoreOut DEF Core
<1>4. Skips(g[0], 0, level)
  <2>1. Past(events, events) /\ Deeper(events, events, level) /\ Stays(events, events, level)
    BY <1>3 DEF Past, Deeper, Stays
  <2> QED  BY <1>1, <1>3, <2>1 DEF Skips
<1>5. bad = {}
  <2> SUFFICES ASSUME bad # {}  PROVE FALSE
    OBVIOUS
  <2>1. PICK n \in bad : \A j \in bad : n <= j
    <3>1. bad \subseteq Nat
      OBVIOUS
    <3> HIDE DEF bad
    <3> QED  BY <3>1, LeastOf
  <2>2. n # 0
    BY <1>4, <2>1
  <2>3. n \in 1 .. N /\ n - 1 \in 0 .. N /\ n - 1 \in Nat /\ ~(n <= n - 1) /\ (n - 1) + 1 = n
    BY <1>1, <2>1, <2>2
  <2>4. n - 1 \notin bad
    <3> HIDE DEF bad
    <3> QED  BY <2>1, <2>3
  <2>5. Skips(g[n - 1], n - 1, level) /\ Going(g[n - 1]) /\ g[n] = Seek(g[n - 1], level)
    BY <1>1, <1>2, <2>3, <2>4
  <2>6. Skips(g[n], n, level)
    BY <2>3, <2>5, StepSkips
  <2> QED  BY <2>1, <2>6
<1> DEFINE R == g[N]
           P == R[1]
           out == R[2]
<1>6. Going(R) /\ Skips(R, N, level) /\ P.status = "ok"
  <2>1. N \in 0 .. N
    BY <1>1
  <2> QED  BY <1>1, <1>2, <1>5, <2>1
<1> HIDE DEF R
<1>7. /\ Past(events, out) /\ Deeper(events, out, level) /\ Stays(events, out, level)
      /\ Depth(out, Len(out)) >= level
      /\ Len(P.stack) <= level \/ Len(out) >= Len(events) + N
  BY <1>6 DEF Skips
<1>8. Match(json, P, out)
  BY <1>6 DEF Going, Core
<1> HIDE DEF P, out
<1>9. /\ Depth(out, Len(out)) = Height(P) /\ Height(P) \in Nat /\ Len(P.stack) \in Nat
      /\ Len(out) \in Nat /\ Len(out) <= N
  BY <1>8, HeightIs DEF N
<1>10. Len(events) # 0
  BY <1>3
<1>11. Len(P.stack) <= level
  BY <1>1, <1>3, <1>7, <1>9, <1>10
<1>12. Height(P) = level /\ P.state # "value"
  BY <1>7, <1>9, <1>11 DEF Height
<1> QED  BY <1>1, <1>7, <1>8, <1>9, <1>12 DEF P, out, R

\* Where a bracket is closed next, the event is its end.
LEMMA EndIsNext ==
  ASSUME json \in Seq(STRING), Plain(Scan(json)), NEW P, NEW out, Match(json, P, out), P.status = "ok",
         P.state \notin {"end", "value"}, P.buffer # << >>, Head(P.buffer) \in Ends,
         NextEvent(P).status = "ok"
  PROVE  NextEvent(P).event \in Ends
<1>1. PICK c \in 0 .. Len(json) : Used(json, P, c) /\ Stacked(P, At(json, c)) /\ P \in Parsers
  BY Zenon DEF Match
<1> DEFINE x == json[c + 1]
           a == At(json, c)
<1>2. c + 1 \in 1 .. Len(json) /\ ~Blank(x) /\ P.buffer = <<x>> /\ x \in STRING
  BY <1>1 DEF Used
<1>3. Head(P.buffer) = x
  BY <1>2
<1>4. a.open \in Seq(Brackets)
  BY <1>1, ScanAt, OutIs
<1> HIDE DEF x, a
<1>5. InFront(P)
  <2>1. 1 \in DOMAIN P.buffer /\ P.buffer[1] = x
    BY <1>2
  <2> QED  BY <1>2, <2>1 DEF InFront
<1> DEFINE W == [P EXCEPT !.buffer = <<x>>, !.pos = P.pos]
<1>6. NextValue(P) = W
  <2>1. NextValue(P) = Fronted(P, P.pos)
    BY <1>5, Zenon DEF NextValue
  <2> QED  BY <1>1, <1>2, <2>1, FrontedOne
<1>7. W \in Parsers /\ W.buffer = <<x>> /\ W.status = "ok" /\ W.state = P.state /\ W.stack = P.stack
  <2> DEFINE u == <<x>>
  <2>1. u = P.buffer
    BY <1>2
  <2> HIDE DEF u
  <2>2. [P EXCEPT !.buffer = u, !.pos = P.pos] = P
    BY <1>1, <2>1 DEF Parsers
  <2> QED  BY <1>1, <1>2, <2>2 DEF u
<1> HIDE DEF W
<1>8. Head(W.buffer) = x /\ x \in Ends
  BY <1>3, <1>7
<1>9. NextEvent(P) = InState(W)
  BY <1>6, <1>7, Zenon DEF NextEvent, Then
<1>10. /\ x # "," /\ x # Quote /\ (x = "}" \/ x = "]")
  <2>1. "}" # Quote /\ "]" # Quote
    BY Characters
  <2> QED  BY <1>8, <2>1 DEF Ends
<1>11. SkipSeparator(W) = W
  BY <1>8, <1>10, Zenon DEF SkipSeparator
<1>12. \E o \in Seq(Brackets) : W.stack = Tower(o)
  <2>1. P.stack = Tower(Front(a.open)) /\ a.open # << >>
    BY <1>1, Zenon DEF Stacked, a
  <2> QED  BY <1>4, <1>7, <2>1, FrontIs
<1>13. ASSUME NEW e \in Ends
       PROVE  ReturnValue(Pop(W), e).event = e
  <2>1. PICK o \in Seq(Brackets) : W.stack = Tower(o)
    BY <1>12
  <2>2. e \in Names
    BY RiseIs
  <2> DEFINE V == Pop(W)
  <2>3. V \in Parsers /\ V.buffer = <<x>> /\ V.status = "ok"
    BY <1>7, <2>1, PopIs
  <2> HIDE DEF V
  <2>4. ReturnValue(V, e).event = e
    BY <1>2, <2>2, <2>3, ReturnIs
  <2> QED  BY <2>4 DEF V
<1>14. CASE W.state = "array"
  <2>1. InState(W) = ArrayState(W)
    BY <1>7, <1>11, <1>14, InStateCases, Zenon DEF Then
  <2>2. CASE x = "]"
    <3>1. ArrayState(W) = ReturnValue(Pop(W), "]")
      <4>1. Head(W.buffer) = "]" /\ "]" # Quote
        BY <1>8, <1>10, <2>2, Zenon
      <4> QED  BY <4>1 DEF ArrayState
    <3>1a. "]" \in Ends
      BY DEF Ends
    <3> QED  BY <1>9, <1>13, <2>1, <3>1, <3>1a
  <2>3. CASE x = "}"
    <3>1. ArrayState(W) = Wild(W)
      BY <1>8, <1>10, <2>3 DEF ArrayState
    <3>2. Wild(W).status # "ok"
      BY <1>7, WildIs
    <3> QED  BY <1>9, <2>1, <3>1, <3>2
  <2> QED  BY <1>10, <2>2, <2>3
<1>15. CASE W.state = "object"
  <2>1. InState(W) = ObjectState(W)
    BY <1>7, <1>11, <1>15, InStateCases, Zenon DEF Then
  <2>2. CASE x = "}"
    <3>1. ObjectState(W) = ReturnValue(Pop(W), "}") /\ "}" \in Ends
      BY <1>8, <2>2, ObjectCases DEF Ends
    <3> QED  BY <1>9, <1>13, <2>1, <3>1
  <2>3. CASE x = "]"
    <3>1. ObjectState(W) = Throw(W)
      BY <1>8, <1>10, <2>3 DEF ObjectState
    <3>2. Throw(W).status # "ok"
      BY <1>7, WildIs
    <3> QED  BY <1>9, <2>1, <3>1, <3>2
  <2> QED  BY <1>10, <2>2, <2>3
<1>16. W.state \in {"array", "object"}
  BY <1>7 DEF Parsers, States
<1> QED  BY <1>14, <1>15, <1>16

-----------------------------------------------------------------------------
(* The enumerations that are open, and the keys they have given.           *)

\* An enumeration is at the depth of its bracket, and has given the keys it has in
\* the events read.
Counted(f, out) ==
    /\ f.start \in 1 .. Len(out) /\ f.level = Depth(out, f.start)
    /\ \A i, j \in DOMAIN f.keys : i < j => f.keys[i] < f.keys[j]
    /\ ToSet(f.keys) = KeysOf(out, f.start)

\* Its bracket is open still; or has been closed.
Above(f, out) == \A m \in f.start .. Len(out) : Depth(out, m) >= f.level
Left(f, out)  == \E m \in f.start .. Len(out) : Depth(out, m) < f.level

Nested(fs, out) ==
    /\ \A k \in 1 .. Len(fs) : Counted(fs[k], out)
    /\ \A j, k \in 1 .. Len(fs) : j < k => fs[j].level < fs[k].level

\* Only the innermost can be over, or have announced an element.
Flagged(fs, P, out) ==
    /\ \A k \in 1 .. Len(fs) :
          fs[k].over => k = Len(fs) /\ ~fs[k].due /\ P.state # "value" /\ Left(fs[k], out)
    /\ \A k \in 1 .. Len(fs) : ~fs[k].over => Above(fs[k], out)
    /\ \A k \in 1 .. Len(fs) : fs[k].due => k = Len(fs) /\ Depth(out, Len(out)) = fs[k].level

\* The inductive invariant of the enumerations, beside that of the parser.
NestInv == ref.plain /\ pull.status = "ok" => Nested(frames, events) /\ Flagged(frames, pull, events)

LEMMA Shallower ==
  ASSUME NEW s, NEW t, Past(s, t), NEW level \in Int, NEW lower \in Int, lower <= level
  PROVE  /\ Deeper(s, t, level) => Deeper(s, t, lower)
         /\ Stays(s, t, level) => Stays(s, t, lower)
<1>1. \A k \in Len(s) + 1 .. Len(t) : k \in 0 .. Len(t)
  BY DEF Past
<1>2. \A k \in Len(s) + 1 .. Len(t) : Depth(t, k) \in Int
  BY <1>1, PastDepth
<1> QED  BY <1>2 DEF Deeper, Stays

\* Events that are no keys of an object leave it with the keys it had.
LEMMA KeysKept ==
  ASSUME NEW s, NEW t, Past(s, t), NEW b \in 1 .. Len(s), Deeper(s, t, Depth(s, b))
  PROVE  Depth(t, b) = Depth(s, b) /\ KeysOf(t, b) = KeysOf(s, b)
<1>1. /\ Len(s) \in Nat /\ Len(t) \in Nat /\ Len(s) <= Len(t)
      /\ \A k \in 1 .. Len(s) : t[k] = s[k]
  BY DEF Past
<1>2. \A k \in 0 .. Len(s) : Depth(t, k) = Depth(s, k) /\ Depth(s, k) \in Int
  BY PastDepth
<1>3. Depth(t, b) = Depth(s, b) /\ Depth(s, b) \in Int
  BY <1>1, <1>2
<1>4. ASSUME NEW n \in KeysOf(t, b)
      PROVE  n \in KeysOf(s, b)
  <2>1. /\ n \in b + 1 .. Len(t) /\ t[n][1] = "key" /\ Depth(t, n) = Depth(t, b)
        /\ \A m \in b .. n : Depth(t, m) >= Depth(t, b)
    BY DEF KeysOf
  <2>2. n <= Len(s)
    <3> SUFFICES ASSUME ~(n <= Len(s))  PROVE FALSE
      OBVIOUS
    <3>1. n \in Len(s) + 1 .. Len(t)
      BY <1>1, <2>1
    <3>2. Depth(t, n) > Depth(s, b)
      BY <2>1, <3>1 DEF Deeper
    <3> QED  BY <1>3, <2>1, <3>2
  <2>3. n \in b + 1 .. Len(s) /\ s[n] = t[n] /\ n \in 0 .. Len(s)
    BY <1>1, <2>1, <2>2
  <2>4. \A m \in b .. n : m \in 0 .. Len(s)
    BY <1>1, <2>2, <2>3
  <2>5. /\ Depth(s, n) = Depth(s, b)
        /\ \A m \in b .. n : Depth(s, m) >= Depth(s, b)
    BY <1>2, <1>3, <2>1, <2>3, <2>4
  <2> QED  BY <2>1, <2>3, <2>5 DEF KeysOf
<1>5. ASSUME NEW n \in KeysOf(s, b)
      PROVE  n \in KeysOf(t, b)
  <2>1. /\ n \in b + 1 .. Len(s) /\ s[n][1] = "key" /\ Depth(s, n) = Depth(s, b)
        /\ \A m \in b .. n : Depth(s, m) >= Depth(s, b)
    BY DEF KeysOf
  <2>3. n \in b + 1 .. Len(t) /\ s[n] = t[n] /\ n \in 0 .. Len(s)
    BY <1>1, <2>1
  <2>4. \A m \in b .. n : m \in 0 .. Len(s)
    BY <1>1, <2>1, <2>3
  <2>5. /\ Depth(t, n) = Depth(t, b)
        /\ \A m \in b .. n : Depth(t, m) >= Depth(t, b)
    BY <1>2, <1>3, <2>1, <2>3, <2>4
  <2> QED  BY <2>1, <2>3, <2>5 DEF KeysOf
<1> QED  BY <1>3, <1>4, <1>5

\* A key taken at the depth of an object that is open is one more of its keys.
LEMMA KeyTaken ==
  ASSUME NEW s, NEW t, Adds(s, t, "key"), NEW b \in 1 .. Len(s), Depth(t, Len(t)) = Depth(s, b),
         \A m \in b .. Len(s) : Depth(s, m) >= Depth(s, b)
  PROVE  Depth(t, b) = Depth(s, b) /\ KeysOf(t, b) = KeysOf(s, b) \union {Len(t)}
<1> DEFINE z == Len(t)
<1>1. /\ Len(s) \in Nat /\ z = Len(s) + 1 /\ t[z][1] = "key"
      /\ \A k \in 1 .. Len(s) : t[k] = s[k]
  BY DEF Adds
<1>2. \A k \in 0 .. Len(s) : Depth(t, k) = Depth(s, k) /\ Depth(s, k) \in Int
  BY AddsPast, PastDepth
<1>3. Depth(t, b) = Depth(s, b) /\ Depth(s, b) \in Int /\ b \in Nat
  BY <1>1, <1>2
<1> HIDE DEF z
<1>4. \A n \in b + 1 .. z : n = z \/ (n \in b + 1 .. Len(s) /\ n \in 0 .. Len(s))
  BY <1>1, <1>3
<1>5. \A n \in b + 1 .. Len(s) : n \in b + 1 .. z /\ s[n] = t[n] /\ n # z
  BY <1>1, <1>3
<1>6. \A n \in b + 1 .. Len(s) : \A m \in b .. n : m \in 0 .. Len(s)
  BY <1>1, <1>3
<1>7. z \in b + 1 .. z /\ Depth(t, z) = Depth(t, b)
  BY <1>1, <1>3 DEF z
<1>8. \A m \in b .. z : Depth(t, m) >= Depth(t, b)
  <2>1. ASSUME NEW m \in b .. z
        PROVE  Depth(t, m) >= Depth(t, b)
    <3>1. CASE m = z
      BY <1>3, <1>7, <3>1
    <3>2. CASE m # z
      <4>1. m \in b .. Len(s) /\ m \in 0 .. Len(s)
        BY <1>1, <1>3, <3>2
      <4> QED  BY <1>2, <1>3, <4>1
    <3> QED  BY <3>1, <3>2
  <2> QED  BY <2>1
<1>9. z \in KeysOf(t, b)
  BY <1>1, <1>7, <1>8 DEF KeysOf, z
<1>10. ASSUME NEW n \in KeysOf(t, b), n # z
       PROVE  n \in KeysOf(s, b)
  <2>1. /\ n \in b + 1 .. z /\ t[n][1] = "key" /\ Depth(t, n) = Depth(t, b)
        /\ \A m \in b .. n : Depth(t, m) >= Depth(t, b)
    BY DEF KeysOf, z
  <2>2. n \in b + 1 .. Len(s) /\ n \in 0 .. Len(s) /\ s[n] = t[n]
    BY <1>4, <1>5, <1>10, <2>1
  <2>3. /\ Depth(s, n) = Depth(s, b)
        /\ \A m \in b .. n : Depth(s, m) >= Depth(s, b)
    BY <1>2, <1>3, <1>6, <2>1, <2>2
  <2> QED  BY <2>1, <2>2, <2>3 DEF KeysOf
<1>11. ASSUME NEW n \in KeysOf(s, b)
       PROVE  n \in KeysOf(t, b)
  <2>1. /\ n \in b + 1 .. Len(s) /\ s[n][1] = "key" /\ Depth(s, n) = Depth(s, b)
        /\ \A m \in b .. n : Depth(s, m) >= Depth(s, b)
    BY DEF KeysOf
  <2>2. n \in b + 1 .. z /\ n \in 0 .. Len(s) /\ s[n] = t[n]
    BY <1>1, <1>3, <1>5, <2>1
  <2>3. /\ Depth(t, n) = Depth(t, b)
        /\ \A m \in b .. n : Depth(t, m) >= Depth(t, b)
    BY <1>2, <1>3, <1>6, <2>1, <2>2
  <2> QED  BY <2>1, <2>2, <2>3 DEF KeysOf, z
<1> QED  BY <1>3, <1>9, <1>10, <1>11 DEF z

\* The same enumeration, whatever its flags.
Same(f, g) == g.level = f.level /\ g.start = f.start /\ g.keys = f.keys

LEMMA FrameKept ==
  ASSUME NEW f \in Frames, NEW g, Same(f, g), NEW s, NEW t, Counted(f, s), Past(s, t),
         Deeper(s, t, f.level)
  PROVE  /\ Counted(g, t)
         /\ Above(f, s) /\ Stays(s, t, f.level) => Above(g, t)
<1>1. /\ f.start \in 1 .. Len(s) /\ f.level = Depth(s, f.start)
      /\ \A i, j \in DOMAIN f.keys : i < j => f.keys[i] < f.keys[j]
      /\ ToSet(f.keys) = KeysOf(s, f.start)
  BY DEF Counted
<1>2. Depth(t, f.start) = Depth(s, f.start) /\ KeysOf(t, f.start) = KeysOf(s, f.start)
  BY <1>1, KeysKept
<1>3. Len(s) \in Nat /\ Len(t) \in Nat /\ Len(s) <= Len(t)
  BY DEF Past
<1>4. f.start \in 1 .. Len(t)
  BY <1>1, <1>3
<1>5. Counted(g, t)
  BY <1>1, <1>2, <1>4 DEF Same, Counted
<1>6. ASSUME Above(f, s), Stays(s, t, f.level), NEW m \in f.start .. Len(t)
      PROVE  Depth(t, m) >= f.level
  <2>1. CASE m <= Len(s)
    <3>1. m \in f.start .. Len(s) /\ m \in 0 .. Len(s)
      BY <1>1, <1>3, <2>1
    <3>2. Depth(t, m) = Depth(s, m)
      BY <3>1, PastDepth
    <3> QED  BY <1>6, <3>1, <3>2 DEF Above
  <2>2. CASE ~(m <= Len(s))
    <3>1. m \in Len(s) + 1 .. Len(t)
      BY <1>1, <1>3, <2>2
    <3> QED  BY <1>6, <3>1 DEF Stays
  <2> QED  BY <2>1, <2>2
<1> QED  BY <1>5, <1>6 DEF Same, Above

\* The enumerations, or the outer of them, after events that are no keys of theirs.
LEMMA NestKept ==
  ASSUME NEW fs \in Seq(Frames), NEW gs \in Seq(Frames), Len(gs) <= Len(fs),
         \A k \in 1 .. Len(gs) : Same(fs[k], gs[k]),
         NEW s, NEW t, Nested(fs, s), Past(s, t),
         \A k \in 1 .. Len(gs) : Deeper(s, t, fs[k].level)
  PROVE  /\ Nested(gs, t)
         /\ \A k \in 1 .. Len(gs) : Above(fs[k], s) /\ Stays(s, t, fs[k].level) => Above(gs[k], t)
<1>1. Len(fs) \in Nat /\ Len(gs) \in Nat
  OBVIOUS
<1>2. \A k \in 1 .. Len(gs) : k \in 1 .. Len(fs)
  BY <1>1
<1>3. \A k \in 1 .. Len(gs) : fs[k] \in Frames /\ Counted(fs[k], s)
  BY <1>2 DEF Nested
<1>4. ASSUME NEW k \in 1 .. Len(gs)
      PROVE  /\ Counted(gs[k], t)
             /\ Above(fs[k], s) /\ Stays(s, t, fs[k].level) => Above(gs[k], t)
  BY <1>3, FrameKept
<1>5. \A j, k \in 1 .. Len(gs) : j < k => gs[j].level < gs[k].level
  BY <1>2 DEF Nested, Same
<1> QED  BY <1>4, <1>5 DEF Nested

\* What a call that takes an event adds.
LEMMA TakeAdds ==
  ASSUME Before, NEW e, Take(e), pull'.status = "ok"
  PROVE  Match(json, pull', events') /\ Goes(pull, pull') /\ Adds(events, events', e) /\ pull'.event = e
<1> DEFINE R == Advance(<<pull, events>>)
           P == R[1]
           out == R[2]
<1>1. P.status = "ok" => Match(json, P, out) /\ Goes(pull, P) /\ Adds(events, out, P.event)
  BY AdvanceAdds DEF Before
<1>2. /\ pull' = IF P.status = "ok" /\ P.event # e THEN [P EXCEPT !.status = "refused"] ELSE P
      /\ events' = out
  BY Zenon DEF Take
<1>3. Core(json, P, out)
  BY AdvanceIs DEF Before
<1> HIDE DEF R, P, out
<1>4. CASE P.status = "ok" /\ P.event # e
  <2>1. P \in Parsers
    BY <1>3, <1>4 DEF Core, Match
  <2>2. [P EXCEPT !.status = "refused"].status = "refused"
    BY <2>1 DEF Parsers
  <2> QED  BY <1>2, <1>4, <2>2
<1>5. CASE ~(P.status = "ok" /\ P.event # e)
  <2>1. pull' = P
    BY <1>2, <1>5, Zenon
  <2>2. P.status = "ok" /\ P.event = e
    BY <1>5, <2>1
  <2> QED  BY <1>1, <1>2, <2>1, <2>2, Zenon
<1> QED  BY <1>4, <1>5

\* What is known of the enumerations before a call.
Held == frames \in Seq(Frames) /\ Nested(frames, events) /\ Flagged(frames, pull, events)

LEMMA HeldIs ==
  ASSUME Before, Held
  PROVE  /\ Len(frames) \in Nat /\ Len(events) \in Nat /\ Depth(events, Len(events)) \in Int
         /\ \A k \in 1 .. Len(frames) :
              /\ frames[k] \in Frames /\ frames[k].level \in Nat \ {0} /\ frames[k].level \in Int
              /\ frames[k].start \in 1 .. Len(events) /\ frames[k].level = Depth(events, frames[k].start)
              /\ ~frames[k].over => /\ Above(frames[k], events)
                                    /\ frames[k].level <= Depth(events, Len(events))
<1>1. frames \in Seq(Frames) /\ Len(frames) \in Nat
  BY DEF Held
<1>2. Len(events) \in Nat
  <2>1. events \in Seq(Names \X Nat)
    BY CoreOut DEF Before
  <2> QED  BY <2>1
<1>3. Depth(events, Len(events)) \in Int
  BY <1>2, DepthNext
<1>4. ASSUME NEW k \in 1 .. Len(frames)
      PROVE  /\ frames[k] \in Frames /\ frames[k].level \in Nat \ {0} /\ frames[k].level \in Int
             /\ frames[k].start \in 1 .. Len(events) /\ frames[k].level = Depth(events, frames[k].start)
             /\ ~frames[k].over => /\ Above(frames[k], events)
                                   /\ frames[k].level <= Depth(events, Len(events))
  <2>1. frames[k] \in Frames
    BY <1>1
  <2>2. frames[k].level \in Nat \ {0} /\ frames[k].level \in Int
    BY <2>1 DEF Frames
  <2>3. frames[k].start \in 1 .. Len(events) /\ frames[k].level = Depth(events, frames[k].start)
    BY DEF Held, Nested, Counted
  <2>4. ASSUME ~frames[k].over
        PROVE  Above(frames[k], events) /\ frames[k].level <= Depth(events, Len(events))
    <3>1. Above(frames[k], events)
      BY <2>4 DEF Held, Flagged
    <3>2. Len(events) \in frames[k].start .. Len(events)
      BY <1>2, <2>3
    <3>3. Depth(events, Len(events)) >= frames[k].level
      BY <3>1, <3>2 DEF Above
    <3> QED  BY <1>3, <2>2, <3>1, <3>3
  <2> QED  BY <2>1, <2>2, <2>3, <2>4
<1> QED  BY <1>1, <1>2, <1>3, <1>4

\* An event that keeps to the depth it was at, or goes deeper.
LEMMA NotKeyed ==
  ASSUME Before, Held, NEW e, Adds(events, events', e), e # "key", Rise(e) \in {0, 1},
         \A k \in 1 .. Len(frames) : ~frames[k].over
  PROVE  \A k \in 1 .. Len(frames) :
            /\ Deeper(events, events', frames[k].level) /\ Stays(events, events', frames[k].level)
            /\ Above(frames[k], events)
<1> DEFINE f == Depth(events', Len(events'))
           d == Depth(events, Len(events))
<1>1. f = d + Rise(e) /\ d \in Int
  BY DEF Adds
<1>2. ASSUME NEW k \in 1 .. Len(frames)
      PROVE  /\ Deeper(events, events', frames[k].level) /\ Stays(events, events', frames[k].level)
             /\ Above(frames[k], events)
  <2> DEFINE level == frames[k].level
  <2>1. level \in Int /\ level <= d /\ Above(frames[k], events)
    BY HeldIs
  <2> HIDE DEF level, d, f
  <2>2. f >= level
    BY <1>1, <2>1
  <2>3. Deeper(events, events', level) /\ Stays(events, events', level)
    BY <2>1, <2>2, AddsPast DEF f
  <2> QED  BY <2>1, <2>3 DEF level
<1> QED  BY <1>2

LEMMA StringNest ==
  ASSUME Before, Held, StringValue, pull'.status = "ok"
  PROVE  Nested(frames', events') /\ Flagged(frames', pull', events')
<1>1. Take("string") /\ frames' = frames /\ pull.state = "value"
  BY Zenon DEF StringValue
<1>2. Adds(events, events', "string")
  BY <1>1, TakeAdds
<1>3. "string" # "key" /\ Rise("string") = 0
  BY RiseIs
<1>4. \A k \in 1 .. Len(frames) : ~frames[k].over
  BY <1>1 DEF Held, Flagged
<1>5. \A k \in 1 .. Len(frames) :
        /\ Deeper(events, events', frames[k].level) /\ Stays(events, events', frames[k].level)
        /\ Above(frames[k], events)
  BY <1>2, <1>3, <1>4, NotKeyed
<1>6. Past(events, events')
  BY <1>2, AddsPast
<1>7. frames \in Seq(Frames) /\ Nested(frames, events) /\ Len(frames) \in Nat
  BY DEF Held
<1>8. \A k \in 1 .. Len(frames) : Same(frames[k], frames[k])
  BY DEF Same
<1>9. Nested(frames, events') /\ \A k \in 1 .. Len(frames) : Above(frames[k], events')
  <2>1. /\ Nested(frames, events')
        /\ \A k \in 1 .. Len(frames) : Above(frames[k], events) /\ Stays(events, events', frames[k].level) => Above(frames[k], events')
    BY <1>5, <1>6, <1>7, <1>8, NestKept
  <2> QED  BY <1>5, <2>1
<1>10. Depth(events', Len(events')) = Depth(events, Len(events))
  BY <1>2, <1>3 DEF Adds
<1>11. \A k \in 1 .. Len(frames) : frames[k].due => k = Len(frames) /\ Depth(events', Len(events')) = frames[k].level
  BY <1>10 DEF Held, Flagged
<1>12. Flagged(frames, pull', events')
  BY <1>4, <1>9, <1>11 DEF Flagged
<1> QED  BY <1>1, <1>9, <1>12

\* next_element, of an object: one key more.
KeyGiven(s, t, k, n) ==
    /\ Len(t) = Len(s) /\ \A j \in 1 .. Len(s) : j # k => t[j] = s[j]
    /\ t[k].level = s[k].level /\ t[k].start = s[k].start /\ t[k].over = s[k].over
    /\ t[k].keys = Append(s[k].keys, n) /\ t[k].due = FALSE

LEMMA KeyGivenIs ==
  ASSUME NEW s \in Seq(Frames), NEW k \in 1 .. Len(s), NEW n \in Nat
  PROVE  KeyGiven(s, [s EXCEPT ![k].due = FALSE, ![k].keys = Append(@, n)], k, n)
<1> DEFINE t == [s EXCEPT ![k].due = FALSE]
           f == [t[k] EXCEPT !.keys = Append(@, n)]
           g == [s[k] EXCEPT !.due = FALSE]
           u == [t EXCEPT ![k] = f]
<1>1. s[k] \in Frames /\ Len(s) \in Nat
  OBVIOUS
<1>2. g \in Frames /\ g.due = FALSE /\ g.over = s[k].over /\ Same(s[k], g)
  BY <1>1 DEF Frames, Same
<1>3. t = [s EXCEPT ![k] = g]
  OBVIOUS
<1> HIDE DEF g, t
<1>4. t \in Seq(Frames) /\ Len(t) = Len(s) /\ t[k] = g /\ \A j \in 1 .. Len(s) : j # k => t[j] = s[j]
  BY <1>2, <1>3
<1> DEFINE l == Append(g.keys, n)
<1>5. f = [g EXCEPT !.keys = l]
  BY <1>4
<1> HIDE DEF l, f
<1>6. /\ f.keys = l /\ f.due = g.due /\ f.over = g.over /\ f.level = g.level /\ f.start = g.start
  BY <1>2, <1>5 DEF Frames
<1>7. k \in 1 .. Len(t)
  BY <1>4
<1>8. Len(u) = Len(t) /\ u[k] = f /\ \A j \in 1 .. Len(t) : j # k => u[j] = t[j]
  BY <1>4, <1>7
<1> HIDE DEF u
<1>9. KeyGiven(s, u, k, n)
  BY <1>2, <1>4, <1>6, <1>8 DEF KeyGiven, l, Same
<1> QED  BY <1>9 DEF u, f, t

\* The keys of an enumeration with a later one behind them.
LEMMA KeysGrow ==
  ASSUME NEW s \in Seq(Nat), NEW n \in Nat, \A i \in DOMAIN s : s[i] < n,
         \A i, j \in DOMAIN s : i < j => s[i] < s[j]
  PROVE  LET t == Append(s, n)
         IN /\ \A i, j \in DOMAIN t : i < j => t[i] < t[j]
            /\ ToSet(t) = ToSet(s) \union {n}
<1> DEFINE t == Append(s, n)
<1>1. /\ Len(s) \in Nat /\ DOMAIN s = 1 .. Len(s) /\ DOMAIN t = 1 .. Len(s) + 1 /\ t[Len(s) + 1] = n
      /\ \A i \in 1 .. Len(s) : t[i] = s[i]
  OBVIOUS
<1> HIDE DEF t
<1>2. ASSUME NEW i \in DOMAIN t, NEW j \in DOMAIN t, i < j
      PROVE  t[i] < t[j]
  <2>1. i \in 1 .. Len(s)
    BY <1>1, <1>2
  <2>2. CASE j = Len(s) + 1
    BY <1>1, <2>1, <2>2
  <2>3. CASE j # Len(s) + 1
    <3>1. j \in 1 .. Len(s)
      BY <1>1, <2>3
    <3> QED  BY <1>1, <1>2, <2>1, <3>1
  <2> QED  BY <2>2, <2>3
<1>3. ToSet(t) = ToSet(s) \union {n}
  <2>1. ToSet(t) = {t[i] : i \in 1 .. Len(s) + 1} /\ ToSet(s) = {s[i] : i \in 1 .. Len(s)}
    BY <1>1 DEF ToSet
  <2>2. 1 .. Len(s) + 1 = (1 .. Len(s)) \union {Len(s) + 1}
    BY <1>1
  <2> QED  BY <1>1, <2>1, <2>2
<1> QED  BY <1>2, <1>3 DEF t

LEMMA KeyNest ==
  ASSUME Before, Held, NextElement, pull'.status = "ok"
  PROVE  Nested(frames', events') /\ Flagged(frames', pull', events')
<1> DEFINE N == Len(frames)
           z == Len(events')
           d == Depth(events, Len(events))
           f == Depth(events', Len(events'))
<1>1. Take("key") /\ frames # << >> /\ Last(frames).due
  BY Zenon DEF NextElement, Due
<1>2. Adds(events, events', "key")
  BY <1>1, TakeAdds
<1>3. Rise("key") = 0
  BY RiseIs
<1>4. f = d /\ d \in Int /\ Len(events) \in Nat /\ z = Len(events) + 1 /\ z \in Nat
  BY <1>2, <1>3 DEF Adds
<1>5. frames \in Seq(Frames) /\ N \in 1 .. N /\ N \in Nat /\ Last(frames) = frames[N]
  BY <1>1 DEF Held, Last
<1>6. frames' = [frames EXCEPT ![N].due = FALSE, ![N].keys = Append(@, z)]
  BY Zenon DEF NextElement
<1>7. KeyGiven(frames, frames', N, z) /\ frames' \in Seq(Frames)
  <2> HIDE DEF N, z
  <2>1. KeyGiven(frames, [frames EXCEPT ![N].due = FALSE, ![N].keys = Append(@, z)], N, z)
    BY <1>4, <1>5, KeyGivenIs DEF N
  <2>2. [frames EXCEPT ![N].due = FALSE, ![N].keys = Append(@, z)] \in Seq(Frames)
    BY <1>4, <1>5, FrameKeys DEF N
  <2> QED  BY <1>6, <2>1, <2>2
<1>8. frames[N].due /\ ~frames[N].over /\ d = frames[N].level
  BY <1>1, <1>5 DEF Held, Flagged
<1>9. \A k \in 1 .. N : ~frames[k].over
  BY <1>8 DEF Held, Flagged
<1>10. Past(events, events')
  BY <1>2, AddsPast
<1> HIDE DEF z, d, f
<1>11. ASSUME NEW k \in 1 .. N
       PROVE  /\ frames[k].level \in Int /\ frames[k].level <= d /\ Above(frames[k], events)
              /\ frames[k].start \in 1 .. Len(events) /\ frames[k].level = Depth(events, frames[k].start)
              /\ Stays(events, events', frames[k].level)
              /\ k # N => Deeper(events, events', frames[k].level)
  <2> DEFINE level == frames[k].level
  <2>1. /\ level \in Int /\ level <= d /\ Above(frames[k], events)
        /\ frames[k].start \in 1 .. Len(events) /\ level = Depth(events, frames[k].start)
    BY <1>9, HeldIs DEF d
  <2>2. k # N => level < frames[N].level
    <3>1. k # N => k < N
      BY <1>5
    <3> QED  BY <1>5, <3>1 DEF Held, Nested
  <2> HIDE DEF level
  <2>3. f >= level /\ (k # N => f > level)
    BY <1>4, <1>8, <2>1, <2>2
  <2>4. Stays(events, events', level) /\ (k # N => Deeper(events, events', level))
    BY <1>2, <2>1, <2>3, AddsPast DEF f
  <2> QED  BY <2>1, <2>4 DEF level
<1>12. ASSUME NEW k \in 1 .. N
       PROVE  Counted(frames'[k], events') /\ Above(frames'[k], events')
  <2>1. frames[k] \in Frames /\ Counted(frames[k], events)
    BY <1>5 DEF Held, Nested
  <2>2. CASE k # N
    <3>1. frames'[k] = frames[k] /\ Same(frames[k], frames'[k])
      BY <1>7, <2>2 DEF KeyGiven, Same
    <3>2. Deeper(events, events', frames[k].level) /\ Stays(events, events', frames[k].level) /\ Above(frames[k], events)
      BY <1>11, <2>2
    <3> QED  BY <1>10, <2>1, <3>1, <3>2, FrameKept
  <2>3. CASE k = N
    <3> DEFINE b == frames[N].start
               g == frames'[N]
               keys == frames[N].keys
    <3>1. b \in 1 .. Len(events) /\ frames[N].level = Depth(events, b)
      BY <1>5, <1>11
    <3>2. \A m \in b .. Len(events) : Depth(events, m) >= Depth(events, b)
      <4>1. Above(frames[N], events)
        BY <1>5, <1>11
      <4> QED  BY <3>1, <4>1 DEF Above
    <3>3. g.level = frames[N].level /\ g.start = b /\ g.keys = Append(keys, z)
      BY <1>7 DEF KeyGiven
    <3>4. /\ \A i, j \in DOMAIN keys : i < j => keys[i] < keys[j]
          /\ ToSet(keys) = KeysOf(events, b)
      BY <2>1, <2>3 DEF Counted
    <3>4a. keys \in Seq(Nat)
      BY <2>1, <2>3 DEF Frames
    <3> HIDE DEF b, g, keys
    <3>5. Depth(events', b) = Depth(events, b) /\ KeysOf(events', b) = KeysOf(events, b) \union {z}
      <4>1. Depth(events', Len(events')) = Depth(events, b)
        BY <1>4, <1>8, <3>1 DEF f
      <4> QED  BY <1>2, <3>1, <3>2, <4>1, KeyTaken DEF z
    <3>6. \A i \in DOMAIN keys : keys[i] < z
      <4>1. \A i \in DOMAIN keys : keys[i] \in ToSet(keys)
        BY DEF ToSet
      <4>2. \A n \in KeysOf(events, b) : n \in b + 1 .. Len(events)
        BY DEF KeysOf
      <4> QED  BY <1>4, <3>1, <3>4, <3>4a, <4>1, <4>2
    <3>7. /\ \A i, j \in DOMAIN g.keys : i < j => g.keys[i] < g.keys[j]
          /\ ToSet(g.keys) = ToSet(keys) \union {z}
      BY <1>4, <3>3, <3>4, <3>4a, <3>6, KeysGrow
    <3>8. b \in 1 .. Len(events')
      BY <1>4, <3>1 DEF z
    <3>9. Counted(g, events')
      BY <3>1, <3>3, <3>4, <3>5, <3>7, <3>8 DEF Counted
    <3>10. Above(g, events')
      <4> SUFFICES ASSUME NEW m \in b .. Len(events')
                   PROVE  Depth(events', m) >= frames[N].level
        BY <3>3 DEF Above
      <4>1. CASE m = z
        <5>1. Depth(events', z) = d
          BY <1>4 DEF f, z
        <5> QED  BY <1>4, <1>8, <4>1, <5>1
      <4>2. CASE m # z
        <5>1. m \in b .. Len(events) /\ m \in 0 .. Len(events)
          BY <1>4, <3>1, <4>2 DEF z
        <5>2. Depth(events', m) = Depth(events, m)
          BY <1>10, <5>1, PastDepth
        <5> QED  BY <3>1, <3>2, <5>1, <5>2
      <4> QED  BY <4>1, <4>2
    <3> QED  BY <2>3, <3>9, <3>10 DEF g
  <2> QED  BY <2>2, <2>3
<1>13. /\ Len(frames') = N
       /\ \A k \in 1 .. N : /\ frames'[k].level = frames[k].level /\ frames'[k].over = frames[k].over
                            /\ ~frames'[k].due
  <2>1. /\ Len(frames') = N
        /\ \A k \in 1 .. N : frames'[k].level = frames[k].level /\ frames'[k].over = frames[k].over
        /\ ~frames'[N].due /\ \A k \in 1 .. N : k # N => frames'[k] = frames[k]
    BY <1>7 DEF KeyGiven
  <2>2. \A k \in 1 .. N : k # N => ~frames[k].due
    BY DEF Held, Flagged
  <2> HIDE DEF N
  <2> QED  BY <2>1, <2>2
<1>14. Nested(frames', events')
  <2>1. \A j, k \in 1 .. N : j < k => frames[j].level < frames[k].level
    BY DEF Held, Nested
  <2> HIDE DEF N
  <2> QED  BY <1>12, <1>13, <2>1 DEF Nested
<1>15. Flagged(frames', pull', events')
  <2> HIDE DEF N
  <2> QED  BY <1>9, <1>12, <1>13 DEF Flagged
<1> QED  BY <1>14, <1>15

\* object_elements and array_elements: an enumeration more.
Settled(s) == IF s = << >> THEN << >> ELSE [s EXCEPT ![Len(s)].due = FALSE]

LEMMA SettledIs ==
  ASSUME NEW s \in Seq(Frames), \A j \in 1 .. Len(s) : s[j].due => j = Len(s)
  PROVE  LET t == Settled(s)
         IN /\ t \in Seq(Frames) /\ Len(t) = Len(s)
            /\ \A j \in 1 .. Len(s) : Same(s[j], t[j]) /\ t[j].over = s[j].over /\ ~t[j].due
<1> DEFINE t == Settled(s)
           N == Len(s)
<1>1. CASE s = << >>
  <2>1. t = << >>
    BY <1>1 DEF Settled
  <2> HIDE DEF t
  <2>2. Len(s) = 0 /\ 1 .. Len(s) = {}
    BY <1>1
  <2>3. t \in Seq(Frames) /\ Len(t) = 0
    BY <2>1
  <2> QED  BY <2>2, <2>3 DEF t
<1>2. CASE s # << >>
  <2> DEFINE g == [s[N] EXCEPT !.due = FALSE]
  <2>1. N \in 1 .. N /\ N \in Nat /\ s[N] \in Frames
    BY <1>2
  <2>2. t = [s EXCEPT ![N] = g]
    BY <1>2 DEF Settled
  <2>3. g \in Frames /\ Same(s[N], g) /\ g.over = s[N].over /\ g.due = FALSE
    BY <2>1 DEF Frames, Same
  <2>4. \A j \in 1 .. N : Same(s[j], s[j]) /\ (j # N => ~s[j].due)
    BY DEF Same
  <2> HIDE DEF g, t
  <2>5. t \in Seq(Frames) /\ Len(t) = N /\ t[N] = g /\ \A j \in 1 .. N : j # N => t[j] = s[j]
    BY <2>1, <2>2, <2>3
  <2> HIDE DEF N
  <2>6. \A j \in 1 .. N : Same(s[j], t[j]) /\ t[j].over = s[j].over /\ ~t[j].due
    BY <2>3, <2>4, <2>5
  <2> QED  BY <2>5, <2>6 DEF t, N
<1> QED  BY <1>1, <1>2

LEMMA NestMore ==
  ASSUME NEW s \in Seq(Frames), NEW g \in Frames, NEW t, Nested(s, t), Counted(g, t),
         \A k \in 1 .. Len(s) : s[k].level < g.level
  PROVE  LET u == Append(s, g)
         IN /\ u \in Seq(Frames) /\ Len(u) = Len(s) + 1 /\ u[Len(u)] = g
            /\ \A k \in 1 .. Len(s) : u[k] = s[k]
            /\ Nested(u, t)
<1> DEFINE u == Append(s, g)
           N == Len(s)
<1>1. /\ N \in Nat /\ u \in Seq(Frames) /\ Len(u) = N + 1 /\ u[N + 1] = g
      /\ \A k \in 1 .. N : u[k] = s[k]
  OBVIOUS
<1>2. /\ \A k \in 1 .. N : Counted(s[k], t)
      /\ \A j, k \in 1 .. N : j < k => s[j].level < s[k].level
      /\ \A k \in 1 .. N : s[k].level < g.level
  BY DEF Nested
<1> HIDE DEF u, N
<1>3. \A k \in 1 .. N + 1 : k \in 1 .. N \/ k = N + 1
  BY <1>1
<1>4. \A k \in 1 .. N + 1 : Counted(u[k], t)
  BY <1>1, <1>2, <1>3
<1>5. ASSUME NEW j \in 1 .. N + 1, NEW k \in 1 .. N + 1, j < k
      PROVE  u[j].level < u[k].level
  <2>1. j \in 1 .. N
    BY <1>1, <1>5
  <2>2. CASE k = N + 1
    BY <1>1, <1>2, <2>1, <2>2
  <2>3. CASE k \in 1 .. N
    BY <1>1, <1>2, <1>5, <2>1, <2>3
  <2> QED  BY <1>3, <2>2, <2>3
<1>6. Nested(u, t)
  BY <1>1, <1>4, <1>5 DEF Nested
<1> QED  BY <1>1, <1>6 DEF u, N

LEMMA ElementsNest ==
  ASSUME Before, Held, NEW start \in Brackets, NEW close \in Ends, Elements(start, close),
         pull'.status = "ok"
  PROVE  Nested(frames', events') /\ Flagged(frames', pull', events')
<1> DEFINE N == Len(frames)
           z == Len(events')
           d == Depth(events, Len(events))
           f == Depth(events', Len(events'))
           level == Len(pull'.stack)
           inner == Settled(frames)
           keys == << >>
           new == [level |-> level, end |-> close, start |-> z, keys |-> keys, due |-> FALSE, over |-> FALSE]
<1>1. Take(start)
  BY Zenon DEF Elements
<1>2. frames' = Append(inner, new)
  BY Zenon DEF Elements, Settled
<1>3. Match(json, pull', events') /\ Goes(pull, pull') /\ Adds(events, events', start) /\ pull'.event = start
  BY <1>1, TakeAdds
<1>4. start # "key" /\ Rise(start) = 1
  BY RiseIs
<1>5. f = d + 1 /\ d \in Int /\ Len(events) \in Nat /\ z = Len(events) + 1 /\ z \in Nat
  BY <1>3, <1>4 DEF Adds
<1>6. pull'.state # "value"
  BY <1>3, <1>4 DEF Goes
<1>7. f = level /\ level \in Nat
  <2>1. json \in Seq(STRING) /\ Plain(Scan(json))
    BY DEF Before
  <2>2. f = Height(pull') /\ Len(pull'.stack) \in Nat
    BY <1>3, <2>1, HeightIs
  <2> QED  BY <1>6, <2>2 DEF Height
<1>8. level >= 1
  <2>1. start \in {"{", "["}
    BY DEF Brackets
  <2> QED  BY <1>1, <2>1, TakeIs
<1>9. frames \in Seq(Frames) /\ N \in Nat /\ Nested(frames, events) /\ Flagged(frames, pull, events)
  BY DEF Held
<1>10. \A k \in 1 .. N : ~frames[k].over
  <2>1. frames = << >> \/ pull.state = "value" \/ (frames # << >> /\ Last(frames).due)
    BY Zenon DEF Elements, Due
  <2>2. CASE frames = << >>
    BY <2>2
  <2>3. CASE pull.state = "value"
    BY <1>9, <2>3 DEF Flagged
  <2>4. CASE frames # << >> /\ Last(frames).due
    <3>1. N \in 1 .. N /\ frames[N].due
      BY <1>9, <2>4 DEF Last
    <3> QED  BY <1>9, <3>1 DEF Flagged
  <2> QED  BY <2>1, <2>2, <2>3, <2>4
<1>11. Past(events, events')
  BY <1>3, AddsPast
<1>12. \A k \in 1 .. N : /\ Deeper(events, events', frames[k].level) /\ Stays(events, events', frames[k].level)
                         /\ Above(frames[k], events)
  BY <1>3, <1>4, <1>10, NotKeyed
<1>13. \A k \in 1 .. N : frames[k].level \in Int /\ frames[k].level <= d
  BY <1>10, HeldIs
<1>14. /\ inner \in Seq(Frames) /\ Len(inner) = N
       /\ \A j \in 1 .. N : Same(frames[j], inner[j]) /\ inner[j].over = frames[j].over /\ ~inner[j].due
  <2>1. \A j \in 1 .. N : frames[j].due => j = N
    BY <1>9 DEF Flagged
  <2> QED  BY <1>9, <2>1, SettledIs
<1> HIDE DEF inner
<1>15. Nested(inner, events') /\ \A k \in 1 .. N : Above(inner[k], events')
  <2>1. /\ Nested(inner, events')
        /\ \A k \in 1 .. Len(inner) :
              Above(frames[k], events) /\ Stays(events, events', frames[k].level) => Above(inner[k], events')
    <3>1. /\ Len(inner) <= Len(frames)
          /\ \A k \in 1 .. Len(inner) : Same(frames[k], inner[k])
          /\ \A k \in 1 .. Len(inner) : Deeper(events, events', frames[k].level)
      BY <1>9, <1>12, <1>14
    <3> QED  BY <1>9, <1>11, <1>14, <3>1, NestKept
  <2> QED  BY <1>12, <1>14, <2>1
<1>16. new \in Frames
  <2>1. keys \in Seq(Nat) /\ level \in Nat \ {0}
    BY <1>7, <1>8
  <2> HIDE DEF keys, level, z
  <2> QED  BY <1>5, <2>1 DEF Frames
<1>17. new.level = level /\ new.start = z /\ new.keys = keys /\ ~new.due /\ ~new.over
  OBVIOUS
<1>18. DOMAIN keys = {} /\ ToSet(keys) = {}
  BY DEF ToSet
<1> HIDE DEF new, keys, level
<1>19. Depth(events', z) = level /\ z \in 1 .. Len(events')
  BY <1>5, <1>7
<1>20. Counted(new, events')
  <2>1. KeysOf(events', z) = {}
    <3>1. z + 1 .. Len(events') = {}
      BY <1>5
    <3> QED  BY <3>1 DEF KeysOf
  <2> HIDE DEF z
  <2> QED  BY <1>17, <1>18, <1>19, <2>1 DEF Counted
<1>21. Above(new, events')
  <2>1. z .. Len(events') = {z}
    BY <1>5
  <2> HIDE DEF z
  <2> QED  BY <1>7, <1>17, <1>19, <2>1 DEF Above
<1>22. \A k \in 1 .. Len(inner) : inner[k].level < new.level
  <2>1. \A k \in 1 .. N : inner[k].level = frames[k].level
    BY <1>14 DEF Same
  <2> HIDE DEF d, f, N
  <2> QED  BY <1>5, <1>7, <1>13, <1>14, <1>17, <2>1
<1>23. /\ Len(frames') = N + 1 /\ frames'[N + 1] = new
       /\ \A k \in 1 .. N : frames'[k] = inner[k]
       /\ Nested(frames', events')
  <2>1. LET u == Append(inner, new)
        IN /\ u \in Seq(Frames) /\ Len(u) = Len(inner) + 1 /\ u[Len(u)] = new
           /\ \A k \in 1 .. Len(inner) : u[k] = inner[k]
           /\ Nested(u, events')
    BY <1>14, <1>15, <1>16, <1>20, <1>22, NestMore
  <2> HIDE DEF N
  <2> QED  BY <1>2, <1>14, <2>1
<1>24. \A k \in 1 .. N + 1 : ~frames'[k].over /\ ~frames'[k].due /\ Above(frames'[k], events')
  <2>1. \A k \in 1 .. N + 1 : k \in 1 .. N \/ k = N + 1
    BY <1>9
  <2> HIDE DEF N
  <2> QED  BY <1>10, <1>14, <1>15, <1>17, <1>21, <1>23, <2>1
<1>25. Flagged(frames', pull', events')
  <2> HIDE DEF N
  <2> QED  BY <1>23, <1>24 DEF Flagged
<1> QED  BY <1>23, <1>25

\* has_more_elements: the enumerations up to one, with an element announced or over.
Told(s, t, k, v, w) ==
    /\ t \in Seq(Frames) /\ Len(t) = k /\ t[k].due = v /\ t[k].over = w
    /\ \A j \in 1 .. k : /\ Same(s[j], t[j])
                         /\ j # k => t[j].due = s[j].due /\ t[j].over = s[j].over

LEMMA ToldIs ==
  ASSUME NEW s \in Seq(Frames), NEW k \in 1 .. Len(s), NEW v \in BOOLEAN, NEW w \in BOOLEAN
  PROVE  Told(s, [SubSeq(s, 1, k) EXCEPT ![k].due = v, ![k].over = w], k, v, w)
<1> DEFINE u == SubSeq(s, 1, k)
           g == [u[k] EXCEPT !.due = v]
           t == [u EXCEPT ![k] = g]
           h == [t[k] EXCEPT !.over = w]
           q == [t EXCEPT ![k] = h]
<1>1. /\ u \in Seq(Frames) /\ Len(u) = k /\ k \in 1 .. k /\ k \in Nat
      /\ \A j \in 1 .. k : u[j] = s[j] /\ s[j] \in Frames
  OBVIOUS
<1> HIDE DEF u
<1>2. g \in Frames /\ g.due = v /\ g.over = s[k].over /\ Same(s[k], g)
  <2>1. u[k] \in Frames /\ u[k] = s[k]
    BY <1>1
  <2> QED  BY <2>1 DEF Frames, Same
<1> HIDE DEF g
<1>3. t \in Seq(Frames) /\ Len(t) = k /\ t[k] = g /\ \A j \in 1 .. k : j # k => t[j] = u[j]
  BY <1>1, <1>2
<1> HIDE DEF t
<1>4. h \in Frames /\ h.due = v /\ h.over = w /\ Same(s[k], h)
  <2>1. t[k] = g
    BY <1>3
  <2> QED  BY <1>2, <2>1 DEF Frames, Same
<1> HIDE DEF h
<1>5. q \in Seq(Frames) /\ Len(q) = k /\ q[k] = h /\ \A j \in 1 .. k : j # k => q[j] = t[j]
  BY <1>1, <1>3, <1>4
<1> HIDE DEF q
<1>6. \A j \in 1 .. k : Same(s[j], s[j])
  BY DEF Same
<1>7. /\ q \in Seq(Frames) /\ Len(q) = k /\ q[k].due = v /\ q[k].over = w
      /\ \A j \in 1 .. k : /\ Same(s[j], q[j])
                           /\ j # k => q[j].due = s[j].due /\ q[j].over = s[j].over
  BY <1>1, <1>3, <1>4, <1>5, <1>6
<1>8. Told(s, q, k, v, w)
  BY <1>7 DEF Told
<1> QED  BY <1>8 DEF q, h, t, g, u

\* The enumerations up to the k-th after seek_level to its level.
LEMMA SoughtNest ==
  ASSUME Before, Held, NEW k \in 1 .. Len(frames), ~frames[k].over,
         NEW gs \in Seq(Frames), Len(gs) = k, \A j \in 1 .. k : Same(frames[j], gs[j]),
         NEW t, Past(events, t), Deeper(events, t, frames[k].level)
  PROVE  /\ Nested(gs, t)
         /\ \A j \in 1 .. k : /\ ~frames[j].over
                              /\ frames[j].level \in Int /\ (j # k => frames[j].level < frames[k].level)
                              /\ Stays(events, t, frames[j].level) => Above(gs[j], t)
<1> DEFINE N == Len(frames)
<1>1. frames \in Seq(Frames) /\ N \in Nat /\ Nested(frames, events) /\ Flagged(frames, pull, events)
  BY DEF Held
<1>2. \A j \in 1 .. k : j \in 1 .. N /\ (j # k => j < k /\ j # N)
  BY <1>1
<1> HIDE DEF N
<1>3. \A j \in 1 .. k : ~frames[j].over
  BY <1>1, <1>2 DEF Flagged, N
<1>4. \A j \in 1 .. k : frames[j].level \in Int /\ Above(frames[j], events)
  BY <1>2, <1>3, HeldIs DEF N
<1>5. \A j \in 1 .. k : j # k => frames[j].level < frames[k].level
  BY <1>1, <1>2 DEF Nested, N
<1>6. ASSUME NEW j \in 1 .. k
      PROVE  Deeper(events, t, frames[j].level)
  <2>1. frames[j].level \in Int /\ frames[k].level \in Int
    BY <1>2, <1>4, HeldIs DEF N
  <2>2. frames[j].level <= frames[k].level
    BY <1>5, <2>1
  <2> QED  BY <2>1, <2>2, Shallower
<1>7. /\ Nested(gs, t)
      /\ \A j \in 1 .. Len(gs) : Above(frames[j], events) /\ Stays(events, t, frames[j].level) => Above(gs[j], t)
  <2>1. Len(gs) <= Len(frames)
    BY <1>1 DEF N
  <2> QED  BY <1>1, <1>6, <2>1, NestKept
<1> QED  BY <1>3, <1>4, <1>5, <1>7

LEMMA HasMoreNest ==
  ASSUME Before, Held, NEW k \in 1 .. Len(frames), HasMore(k), pull'.status = "ok"
  PROVE  Nested(frames', events') /\ Flagged(frames', pull', events')
<1> DEFINE level == frames[k].level
           R == SeekLevel(level)
           F == R[1]
           out == R[2]
           P == Then(F, NextValue)
           more == P.status = "ok" /\ Head(P.buffer) # frames[k].end
           over == P.status = "ok" /\ ~more
           S == IF over THEN Advance(<<P, out>>) ELSE <<P, out>>
<1>1. /\ pull' = S[1] /\ events' = S[2] /\ ~frames[k].over
      /\ frames' = [SubSeq(frames, 1, k) EXCEPT ![k].due = more, ![k].over = over]
  BY Zenon DEF HasMore, Becomes
<1>2. json \in Seq(STRING) /\ Plain(Scan(json)) /\ Core(json, pull, events) /\ pull.status = "ok" /\ pull.state # "end"
  BY DEF Before
<1>3. /\ level \in Nat \ {0} /\ level \in Int /\ events # << >> /\ Depth(events, Len(events)) \in Int
      /\ Depth(events, Len(events)) >= level
  <2>1. /\ level \in Nat \ {0} /\ level \in Int /\ Depth(events, Len(events)) \in Int
        /\ level <= Depth(events, Len(events)) /\ frames[k].start \in 1 .. Len(events)
    BY <1>1, HeldIs
  <2>2. events # << >>
    BY <2>1
  <2> HIDE DEF level
  <2> QED  BY <2>1, <2>2
<1>4. Core(json, F, out) /\ (F.status = "ok" => F.state # "end")
  <2> HIDE DEF level
  <2> QED  BY <1>2, <1>3, SeekIs DEF Going
<1>5. F.status = "ok" => /\ Match(json, F, out) /\ F.state # "value"
                         /\ Past(events, out) /\ Deeper(events, out, level) /\ Stays(events, out, level)
                         /\ Depth(out, Len(out)) = level
  <2> HIDE DEF level
  <2> QED  BY <1>2, <1>3, SeekSkips
<1>6. (F.status = "ok" => P = NextValue(F)) /\ (F.status # "ok" => P = F)
  BY Zenon DEF Then
<1>7. ~over => S[1] = P /\ S[2] = out
  BY Zenon
<1>8. over => S = Advance(<<P, out>>)
  BY Zenon
<1>9. /\ over <=> P.status = "ok" /\ Head(P.buffer) = frames[k].end
      /\ more <=> P.status = "ok" /\ ~over
  OBVIOUS
<1>10. /\ frames' \in Seq(Frames) /\ Len(frames') = k /\ frames'[k].due = more /\ frames'[k].over = over
       /\ \A j \in 1 .. k : /\ Same(frames[j], frames'[j])
                            /\ j # k => frames'[j].due = frames[j].due /\ frames'[j].over = frames[j].over
  <2> DEFINE v == more
             w == over
  <2>1. v \in BOOLEAN /\ w \in BOOLEAN
    OBVIOUS
  <2>2. frames' = [SubSeq(frames, 1, k) EXCEPT ![k].due = v, ![k].over = w]
    BY <1>1, Zenon DEF v, w
  <2>3. frames \in Seq(Frames)
    BY DEF Held
  <2> HIDE DEF v, w
  <2>4. Told(frames, [SubSeq(frames, 1, k) EXCEPT ![k].due = v, ![k].over = w], k, v, w)
    BY <2>1, <2>3, ToldIs
  <2>5. Told(frames, frames', k, v, w)
    BY <2>2, <2>4
  <2> QED  BY <2>5 DEF Told, v, w
<1> HIDE DEF S, P, F, out, R, more, over
<1>11. F.status = "ok" /\ P.status = "ok"
  <2>1. P.status = "ok"
    BY <1>1, <1>7, <1>9
  <2> QED  BY <1>6, <2>1
<1>12. Match(json, P, out) /\ P.state # "value" /\ P.state # "end" /\ P.buffer # << >> /\ Core(json, P, out)
  <2>1. F.state # "end" /\ Match(json, F, out) /\ F.state # "value" /\ P = NextValue(F)
    BY <1>4, <1>5, <1>6, <1>11
  <2>2. \/ Fails(P)
        \/ Match(json, P, out) /\ P.status = "ok" /\ P.state = F.state /\ P.buffer # << >>
    BY <1>2, <1>11, <2>1, NextStays
  <2>3. Match(json, P, out) /\ P.state = F.state /\ P.buffer # << >>
    BY <1>11, <2>2 DEF Fails
  <2>4. \E c \in 0 .. Len(json) : out = At(json, c).out
    BY <1>4, Zenon DEF Core
  <2>5. Core(json, P, out)
    BY <1>11, <2>3, <2>4 DEF Core
  <2> QED  BY <2>1, <2>3, <2>5
<1>13. \A j \in 1 .. k : j # k => ~frames[j].due
  <2>1. Len(frames) \in Nat /\ Flagged(frames, pull, events)
    BY DEF Held
  <2>2. \A j \in 1 .. k : j \in 1 .. Len(frames) /\ (j # k => j # Len(frames))
    BY <2>1
  <2> QED  BY <2>1, <2>2 DEF Flagged
<1>14. Past(events, out) /\ Deeper(events, out, level) /\ Stays(events, out, level) /\ Depth(out, Len(out)) = level
  BY <1>5, <1>11
<1>15. CASE ~over
  <2>1. pull' = P /\ events' = out /\ ~frames'[k].over
    BY <1>1, <1>7, <1>10, <1>15
  <2>2. /\ Nested(frames', out)
        /\ \A j \in 1 .. k : /\ ~frames[j].over
                             /\ frames[j].level \in Int /\ (j # k => frames[j].level < level)
                             /\ Stays(events, out, frames[j].level) => Above(frames'[j], out)
    BY <1>1, <1>10, <1>14, SoughtNest
  <2>3. \A j \in 1 .. k : Stays(events, out, frames[j].level)
    <3>1. \A j \in 1 .. k : j # k => frames[j].level \in Int /\ frames[j].level <= level
      <4> HIDE DEF level
      <4> QED  BY <1>3, <2>2
    <3> QED  BY <1>3, <1>14, <3>1, Shallower
  <2>4. \A j \in 1 .. k : ~frames'[j].over /\ Above(frames'[j], out) /\ (frames'[j].due => j = k)
    BY <1>10, <1>13, <2>1, <2>2, <2>3
  <2>5. k \in 1 .. k /\ frames'[k].level = level
    <3>1. k \in 1 .. k
      OBVIOUS
    <3> QED  BY <1>10, <3>1 DEF Same
  <2>6. Flagged(frames', P, out)
    <3> HIDE DEF level
    <3> QED  BY <1>10, <1>14, <2>4, <2>5 DEF Flagged
  <2> QED  BY <2>1, <2>2, <2>6
<1>16. CASE over
  <2> DEFINE T == Advance(<<P, out>>)
             Q == T[1]
             t == T[2]
  <2>1. pull' = Q /\ events' = t /\ Q.status = "ok"
    BY <1>1, <1>8, <1>16
  <2>2. Match(json, Q, t) /\ Goes(P, Q) /\ Adds(out, t, Q.event)
    BY <1>2, <1>11, <1>12, <2>1, AdvanceAdds
  <2>3. Q.event \in Ends
    <3>1. Q = NextEvent(P)
      BY Zenon DEF Advance
    <3>2. Head(P.buffer) = frames[k].end /\ frames[k] \in Frames
      BY <1>9, <1>16, HeldIs
    <3>3. Head(P.buffer) \in Ends
      BY <3>2 DEF Frames
    <3>4. NextEvent(P).status = "ok"
      BY <2>1, <3>1, Zenon
    <3>5. NextEvent(P).event \in Ends
      BY <1>2, <1>11, <1>12, <3>3, <3>4, EndIsNext
    <3> QED  BY <3>1, <3>5, Zenon
  <2> HIDE DEF T, Q, t
  <2>4. Q.event # "key" /\ Rise(Q.event) = -1
    <3>1. "key" \notin Ends
      BY RiseIs
    <3> QED  BY <2>3, <3>1, RiseIs
  <2>5. Q.state # "value"
    BY <2>2, <2>4 DEF Goes
  <2> DEFINE f == Depth(t, Len(t))
  <2>6. f = level - 1 /\ Len(t) \in Nat /\ Len(out) \in Nat /\ Len(t) = Len(out) + 1
    BY <1>14, <2>2, <2>4 DEF Adds
  <2>7. Past(events, t) /\ Deeper(events, t, level)
    BY <1>3, <1>14, <2>2, <2>4, PastAdds
  <2>8. /\ Nested(frames', t)
        /\ \A j \in 1 .. k : /\ ~frames[j].over
                             /\ frames[j].level \in Int /\ (j # k => frames[j].level < level)
                             /\ Stays(events, t, frames[j].level) => Above(frames'[j], t)
    BY <1>1, <1>10, <2>7, SoughtNest
  <2>9. ASSUME NEW j \in 1 .. k, j # k
        PROVE  ~frames'[j].over /\ ~frames'[j].due /\ Above(frames'[j], t)
    <3> DEFINE lower == frames[j].level
    <3>1. lower \in Int /\ lower < level /\ (Stays(events, t, lower) => Above(frames'[j], t)) /\ ~frames[j].over
      BY <2>8, <2>9
    <3>2. ~frames'[j].over /\ ~frames'[j].due
      BY <1>10, <1>13, <2>9, <3>1
    <3> HIDE DEF lower, level, f
    <3>3. lower <= level /\ f >= lower
      BY <1>3, <2>6, <3>1
    <3>4. Stays(events, out, lower)
      BY <1>3, <1>14, <3>1, <3>3, Shallower
    <3>5. Stays(events, t, lower)
      BY <1>14, <2>2, <3>1, <3>3, <3>4, PastAdds DEF f
    <3> QED  BY <3>1, <3>2, <3>5
  <2>10. k \in 1 .. k /\ frames'[k].level = level /\ frames'[k].over /\ ~frames'[k].due
    <3>1. k \in 1 .. k
      OBVIOUS
    <3>2. ~more
      BY <1>9, <1>16
    <3> QED  BY <1>10, <1>16, <3>1, <3>2 DEF Same
  <2>11. Left(frames'[k], t)
    <3>1. Counted(frames'[k], t)
      BY <1>10, <2>8, <2>10 DEF Nested
    <3>2. Len(t) \in frames'[k].start .. Len(t)
      BY <2>6, <3>1 DEF Counted
    <3>3. f < frames'[k].level
      <4> HIDE DEF f, level
      <4> QED  BY <1>3, <2>6, <2>10
    <3> QED  BY <3>2, <3>3 DEF Left
  <2>12. Flagged(frames', Q, t)
    <3> HIDE DEF level, f
    <3> QED  BY <1>10, <2>5, <2>9, <2>10, <2>11 DEF Flagged
  <2> QED  BY <2>1, <2>8, <2>12
<1> QED  BY <1>15, <1>16

LEMMA NestInit ==
  ASSUME PullInit
  PROVE  NestInv
<1>1. frames = << >> /\ Len(frames) = 0
  BY DEF PullInit
<1>2. 1 .. Len(frames) = {}
  BY <1>1
<1> QED  BY <1>2 DEF NestInv, Nested, Flagged

LEMMA NestNext ==
  ASSUME JsonInv, NestInv, [PullNext]_jvars
  PROVE  NestInv'
<1>1. CASE UNCHANGED jvars
  BY <1>1 DEF jvars, NestInv, Nested, Flagged
<1>2. CASE PullNext
  <2>1. ref' = ref /\ Running
    <3>1. CASE PullEvent
      BY <3>1 DEF PullEvent
    <3>2. CASE \E s, e \in {"{", "[", "}", "]"} : Elements(s, e)
      BY <3>2 DEF Elements
    <3>3. CASE \E k \in 1 .. Len(frames) : HasMore(k)
      BY <3>3 DEF HasMore
    <3>4. CASE NextElement \/ StringValue
      BY <3>4 DEF NextElement, StringValue
    <3> QED  BY <1>2, <3>1, <3>2, <3>3, <3>4 DEF PullNext
  <2>2. SUFFICES ASSUME ref.plain, pull'.status = "ok"
                 PROVE  Nested(frames', events') /\ Flagged(frames', pull', events')
    BY <2>1 DEF NestInv
  <2>3. Before /\ Held
    <3>1. Before /\ frames \in Seq(Frames)
      BY <2>1, <2>2, BeforeIs
    <3>2. pull.status = "ok"
      BY <3>1 DEF Before
    <3> QED  BY <2>2, <3>1, <3>2 DEF NestInv, Held
  <2>4. CASE PullEvent
    <3>1. frames' = << >>
      BY <2>4, Zenon DEF PullEvent
    <3>2. Len(frames') = 0 /\ 1 .. Len(frames') = {}
      BY <3>1
    <3> QED  BY <3>2 DEF Nested, Flagged
  <2>5. CASE Elements("{", "}")
    <3>1. "{" \in Brackets /\ "}" \in Ends
      BY DEF Brackets, Ends
    <3> QED  BY <2>2, <2>3, <2>5, <3>1, ElementsNest
  <2>6. CASE Elements("[", "]")
    <3>1. "[" \in Brackets /\ "]" \in Ends
      BY DEF Brackets, Ends
    <3> QED  BY <2>2, <2>3, <2>6, <3>1, ElementsNest
  <2>7. CASE \E k \in 1 .. Len(frames) : HasMore(k)
    BY <2>2, <2>3, <2>7, HasMoreNest
  <2>8. CASE NextElement
    BY <2>2, <2>3, <2>8, KeyNest
  <2>9. CASE StringValue
    BY <2>2, <2>3, <2>9, StringNest
  <2> QED  BY <1>2, <2>4, <2>5, <2>6, <2>7, <2>8, <2>9 DEF PullNext
<1> QED  BY <1>1, <1>2

LEMMA KeysAre ==
  ASSUME JsonInv, NestInv
  PROVE  KeysExact
<1>1. SUFFICES ASSUME NEW k \in DOMAIN frames, pull.status = "ok", ref.plain
               PROVE  LET keys == frames[k].keys
                          own  == ref.keys[frames[k].start]
                      IN /\ \A i, j \in DOMAIN keys : i < j => keys[i] < keys[j]
                         /\ ToSet(keys) = {n \in own : n <= Len(events)}
                         /\ frames[k].over => own \subseteq 1 .. Len(events)
  BY Zenon DEF KeysExact
<1> DEFINE s == events
           t == ref.out
           b == frames[k].start
           keys == frames[k].keys
<1>2. json \in Seq(STRING) /\ ref = Reference(json) /\ Core(json, pull, events) /\ frames \in Seq(Frames)
  BY <1>1 DEF JsonInv
<1>3. k \in 1 .. Len(frames)
  BY <1>2
<1>4. Nested(frames, s) /\ Flagged(frames, pull, s)
  BY <1>1 DEF NestInv
<1>5. /\ b \in 1 .. Len(s) /\ \A i, j \in DOMAIN keys : i < j => keys[i] < keys[j]
      /\ ToSet(keys) = KeysOf(s, b) /\ frames[k].level = Depth(s, b)
  BY <1>3, <1>4 DEF Nested, Counted
<1>6. frames[k].over => \E m \in b .. Len(s) : Depth(s, m) < Depth(s, b)
  BY <1>3, <1>4, <1>5 DEF Flagged, Left
<1>7. Past(s, t) /\ t \in Seq(Names \X Nat)
  <2>1. PICK c \in 0 .. Len(json) : s = At(json, c).out
    BY <1>2, Zenon DEF Core
  <2> DEFINE a == At(json, c)
             z == At(json, Len(json))
  <2>2. Len(json) \in 0 .. Len(json) /\ Scan(json) = z /\ t = z.out
    <3>1. Len(json) \in Nat
      BY <1>2
    <3>2. Scan(json) = z
      BY <1>2, ScanAt
    <3> QED  BY <1>2, <3>1, <3>2, RefIs
  <2>3. Shaped(a) /\ Shaped(z) /\ Ahead(a, z)
    <3>1. c \in Nat /\ c <= Len(json)
      BY <1>2
    <3> QED  BY <1>2, <2>2, <3>1, ScanAt, Grows
  <2>4. a.out \in Seq(Names \X Nat) /\ z.out \in Seq(Names \X Nat)
    BY <2>3, OutIs
  <2>5. Len(a.out) <= Len(z.out) /\ \A i \in 1 .. Len(a.out) : z.out[i] = a.out[i]
    BY <2>3 DEF Ahead
  <2> HIDE DEF a, z
  <2>6. s = a.out
    BY <2>1 DEF a
  <2> HIDE DEF s, t
  <2>7. Past(s, t)
    BY <2>2, <2>4, <2>5, <2>6 DEF Past
  <2> QED  BY <2>2, <2>4, <2>7
<1> DEFINE own == KeysOf(t, b)
<1>8. ref.keys[b] = own
  <2>1. ref.keys = [n \in DOMAIN t |-> KeysOf(t, n)]
    BY <1>2, Zenon DEF Reference
  <2>2. b \in DOMAIN t
    <3> HIDE DEF s, t, b
    <3> QED  BY <1>5, <1>7 DEF Past
  <2> HIDE DEF t, b
  <2> QED  BY <2>1, <2>2
<1> HIDE DEF s, t, b, keys
<1>9. /\ Len(s) \in Nat /\ Len(t) \in Nat /\ Len(s) <= Len(t)
      /\ \A i \in 1 .. Len(s) : t[i] = s[i]
  BY <1>7 DEF Past
<1>10. \A i \in 0 .. Len(s) : Depth(t, i) = Depth(s, i) /\ Depth(s, i) \in Int
  BY <1>7, PastDepth
<1>11. Depth(t, b) = Depth(s, b) /\ b \in Nat
  BY <1>5, <1>9, <1>10
<1>12. ASSUME NEW n, n \in own, n <= Len(s)
       PROVE  n \in KeysOf(s, b)
  <2>1. /\ n \in b + 1 .. Len(t) /\ t[n][1] = "key" /\ Depth(t, n) = Depth(t, b)
        /\ \A m \in b .. n : Depth(t, m) >= Depth(t, b)
    BY <1>12 DEF KeysOf
  <2>2. n \in b + 1 .. Len(s) /\ n \in 0 .. Len(s) /\ s[n] = t[n]
    BY <1>9, <1>11, <1>12, <2>1
  <2>3. \A m \in b .. n : m \in 0 .. Len(s)
    BY <1>9, <1>11, <1>12, <2>1
  <2>4. /\ Depth(s, n) = Depth(s, b)
        /\ \A m \in b .. n : Depth(s, m) >= Depth(s, b)
    BY <1>10, <1>11, <2>1, <2>2, <2>3
  <2> QED  BY <2>1, <2>2, <2>4 DEF KeysOf
<1>13. ASSUME NEW n, n \in KeysOf(s, b)
       PROVE  n \in own /\ n <= Len(s)
  <2>1. /\ n \in b + 1 .. Len(s) /\ s[n][1] = "key" /\ Depth(s, n) = Depth(s, b)
        /\ \A m \in b .. n : Depth(s, m) >= Depth(s, b)
    BY <1>13 DEF KeysOf
  <2>2. n \in b + 1 .. Len(t) /\ n \in 0 .. Len(s) /\ s[n] = t[n] /\ n <= Len(s)
    BY <1>9, <1>11, <2>1
  <2>3. \A m \in b .. n : m \in 0 .. Len(s)
    BY <1>9, <1>11, <2>1, <2>2
  <2>4. /\ Depth(t, n) = Depth(t, b)
        /\ \A m \in b .. n : Depth(t, m) >= Depth(t, b)
    BY <1>10, <1>11, <2>1, <2>2, <2>3
  <2> QED  BY <2>1, <2>2, <2>4 DEF KeysOf
<1> HIDE DEF own
<1>14. ToSet(keys) = {n \in own : n <= Len(s)}
  BY <1>5, <1>12, <1>13 DEF own
<1>15. ASSUME frames[k].over, NEW n \in own
       PROVE  n \in 1 .. Len(s)
  <2>1. /\ n \in b + 1 .. Len(t)
        /\ \A m \in b .. n : Depth(t, m) >= Depth(t, b)
    BY <1>15 DEF KeysOf, own
  <2>2. PICK m \in b .. Len(s) : Depth(s, m) < Depth(s, b)
    BY <1>6, <1>15
  <2>3. m \in 0 .. Len(s)
    BY <1>9, <1>11
  <2>4. ~(Depth(t, m) >= Depth(t, b))
    <3>1. Depth(t, m) = Depth(s, m) /\ Depth(s, m) \in Int
      BY <1>10, <2>3
    <3>2. Depth(s, b) \in Int
      BY <1>5, <1>9, <1>10
    <3> QED  BY <1>11, <2>2, <3>1, <3>2
  <2>5. m \notin b .. n
    BY <2>1, <2>4
  <2> QED  BY <1>9, <1>11, <2>1, <2>2, <2>5
<1>16. frames[k].over => own \subseteq 1 .. Len(s)
  BY <1>15
<1> QED  BY <1>5, <1>8, <1>14, <1>16, Zenon DEF s, b, keys

-----------------------------------------------------------------------------
\* Whatever the client takes, enumerates or leaves unread, the parser stands between
\* two events of the scan, with the states of the open brackets on its stack.
THEOREM JsonInvariant == PullSpec => []JsonInv
<1>1. PullInit => JsonInv
  BY InitInv
<1>2. JsonInv /\ [PullNext]_jvars => JsonInv'
  BY NextInv
<1> QED  BY <1>1, <1>2, PTL DEF PullSpec

\* On documents of the kinds it is defined for, next() and seek_level return the
\* events of the document, in order, however deep it is and wherever the client
\* skips; if the document is complete they do not throw, and the end is reached with
\* the last event.
THEOREM EventsAreExact == PullSpec => []EventsExact
<1>1. JsonInv => EventsExact
  BY Exact
<1> QED  BY <1>1, JsonInvariant, PTL

\* next_value reads at most one byte that no event has used, and nothing behind the
\* end of the root.
THEOREM NothingIsReadAhead == PullSpec => []ReadsNoFurther
<1>1. JsonInv => ReadsNoFurther
  BY NoFurther
<1> QED  BY <1>1, JsonInvariant, PTL

\* However deep the client goes, whichever enumerations it gives up, every one that
\* is open has given the keys of its own object among the events read, each once and
\* in order, and has them all when has_more_elements says that it is over.
THEOREM KeysAreExact == PullSpec => []KeysExact
<1>1. PullInit => NestInv
  BY NestInit
<1>2. JsonInv /\ NestInv /\ [PullNext]_jvars => NestInv'
  BY NestNext
<1>3. JsonInv /\ NestInv => KeysExact
  BY KeysAre
<1> QED  BY <1>1, <1>2, <1>3, JsonInvariant, PTL DEF PullSpec
=============================================================================
