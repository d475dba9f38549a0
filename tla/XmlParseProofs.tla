--------------------------- MODULE XmlParseProofs ---------------------------
(***************************************************************************)
(* What holds of TiXmlDocument::Parse for every document, every set of     *)
(* names and any number of nodes: no node is lost, errors are reported for *)
(* exactly the documents that a scan with a stack of names refuses, and    *)
(* there is at most one node to a token.  The tree is sound but for the    *)
(* parents that nodes have before they are linked, and each phase of the   *)
(* parser is a mode of the scan.                                           *)
(***************************************************************************)
EXTENDS XmlParse, XmlTreeProofs

-----------------------------------------------------------------------------
(* Tokens, and the steps of the reference scan.                            *)

\* The tokens, and that they are told apart.
LEMMA OneIs ==
  ASSUME NEW c
  PROVE  One(c)[1] = c /\ \A d : One(c) = One(d) => c = d
<1>1. One(c)[1] = c
  BY Zenon DEF One
<1>2. ASSUME NEW d, One(c) = One(d)  PROVE c = d
  <2>1. One(c)[1] = c /\ One(d)[1] = d
    BY Zenon DEF One
  <2> QED  BY <1>2, <2>1, Zenon
<1> QED  BY <1>1, <1>2, Zenon

Words == {"<", "</", "="} \union Classes

\* What a token holds, by its class.
LEMMA TokenIs ==
  ASSUME NEW t \in Token
  PROVE  /\ t[1] \in Words
         /\ t[1] \in {"<", "</"} => t[2] \in Tag /\ t = <<t[1], t[2]>>
         /\ t[1] = "=" => t[2] \in Attr /\ t = <<t[1], t[2]>>
         /\ t[1] \in Classes => t = One(t[1])
<1>1. CASE t \in {"<", "</"} \X Tag
  <2>1. t[1] \in {"<", "</"} /\ t[2] \in Tag /\ t = <<t[1], t[2]>>
    BY <1>1
  <2> QED  BY <2>1 DEF Words, Classes, LeafHeads, TagEnds
<1>2. CASE t \in {"="} \X Attr
  <2>1. t[1] = "=" /\ t[2] \in Attr /\ t = <<t[1], t[2]>>
    BY <1>2
  <2> QED  BY <2>1 DEF Words, Classes, LeafHeads, TagEnds
<1>3. ASSUME NEW c \in Classes, t = One(c)
      PROVE  t[1] = c /\ t = One(t[1])
  <2>1. One(c)[1] = c
    BY OneIs
  <2> QED  BY <1>3, <2>1
<1>4. \/ t \in {"<", "</"} \X Tag \/ t \in {"="} \X Attr
      \/ \E c \in Classes : t = One(c)
  BY Zenon DEF Token
<1>5. ASSUME NEW c \in Classes, t = One(c)
      PROVE  /\ t[1] \in Words
             /\ t[1] \in {"<", "</"} => t[2] \in Tag /\ t = <<t[1], t[2]>>
             /\ t[1] = "=" => t[2] \in Attr /\ t = <<t[1], t[2]>>
             /\ t[1] \in Classes => t = One(t[1])
  <2>1. t[1] \in Classes /\ t = One(t[1])
    BY <1>3, <1>5
  <2>2. t[1] # "<" /\ t[1] # "</" /\ t[1] # "="
    BY <2>1 DEF Classes, LeafHeads, TagEnds
  <2> QED  BY <2>1, <2>2 DEF Words
<1>6. CASE t \in {"<", "</"} \X Tag
  <2>1. t[1] \in {"<", "</"} /\ t[2] \in Tag /\ t = <<t[1], t[2]>>
    BY <1>6
  <2> QED  BY <2>1 DEF Words, Classes, LeafHeads, TagEnds
<1>7. CASE t \in {"="} \X Attr
  <2>1. t[1] = "=" /\ t[2] \in Attr /\ t = <<t[1], t[2]>>
    BY <1>7
  <2> QED  BY <2>1 DEF Words, Classes, LeafHeads, TagEnds
<1> QED  BY <1>4, <1>5, <1>6, <1>7

\* The end is no token.
LEMMA EofIs ==
  /\ Eof[1] = "eof" /\ Eof \notin Token /\ ~IsHead(Eof)
  /\ \A c \in Classes : Eof # One(c)
<1>1. Eof[1] = "eof"
  BY OneIs DEF Eof
<1>2. "eof" \notin Words
  BY DEF Words, Classes, LeafHeads, TagEnds
<1>3. Eof \notin Token
  BY <1>1, <1>2, TokenIs
<1>4. ~IsHead(Eof)
  BY <1>1 DEF IsHead, LeafHeads
<1>5. \A c \in Classes : Eof # One(c)
  BY <1>1, <1>2, OneIs DEF Words
<1> QED  BY <1>1, <1>3, <1>4, <1>5

\* The state of the reference scan.
Modes == {"content", "tag", "endtag", "bad", "end", "endless"} \union LeafNames

Outs == ({"<", "</"} \X Tag) \union ({"="} \X Attr) \union {One(c) : c \in LeafNames \union {">"}}

Scanned == [mode : Modes, open : Seq(Tag), out : Seq(Outs), had : SUBSET Attr]

\* Where a tag or a text may follow.
Open(a, t) == a.mode = "content" \/ (a.mode = "text" /\ IsHead(t))

\* There the scan is in content.
LEMMA OpenIs ==
  ASSUME NEW a, NEW t, Open(a, t)
  PROVE  Step(a, t) = InContent(a, t)
  BY EofIs DEF Open, Step

\* The heads of tags.
LEMMA HeadIs ==
  ASSUME NEW t, IsHead(t)
  PROVE  t[1] = "<" \/ t[1] = "</" \/ t[1] \in LeafHeads
  BY DEF IsHead

\* A tag head that is no element begins a leaf other than text.
LEMMA LeafNameIs ==
  ASSUME NEW c
  PROVE  LeafName(c) \in LeafNames \ {"text"}
  BY DEF LeafName, LeafNames

\* What the steps of the scan are made of: something is put out.
LEMMA EmitIs ==
  ASSUME NEW a \in Scanned, NEW o \in Outs, NEW m \in Modes
  PROVE  LET b == Emit(a, o, m)
         IN /\ b \in Scanned /\ b.mode = m /\ b.open = a.open /\ b.had = a.had
            /\ b.out = Append(a.out, o) /\ b.out # << >>
<1> DEFINE q == Append(a.out, o)
<1>1. q \in Seq(Outs) /\ q # << >>
  BY DEF Scanned
<1>2. Emit(a, o, m) = [a EXCEPT !.out = q, !.mode = m]
  BY DEF Emit, Scanned
<1> HIDE DEF q
<1>3. LET b == [a EXCEPT !.out = q, !.mode = m]
      IN b \in Scanned /\ b.mode = m /\ b.open = a.open /\ b.had = a.had /\ b.out = q
  BY <1>1 DEF Scanned
<1> QED  BY <1>1, <1>2, <1>3 DEF q

\* The mode is set.
LEMMA ModeIs ==
  ASSUME NEW a \in Scanned, NEW m \in Modes
  PROVE  LET b == [a EXCEPT !.mode = m]
         IN b \in Scanned /\ b.mode = m /\ b.open = a.open /\ b.had = a.had /\ b.out = a.out
  BY DEF Scanned

\* A sequence without its last.
LEMMA FrontOf ==
  ASSUME NEW S, NEW s \in Seq(S), s # << >>
  PROVE  /\ Front(s) \in Seq(S) /\ Len(Front(s)) = Len(s) - 1 /\ Last(s) = s[Len(s)] /\ Last(s) \in S
         /\ Len(s) \in Nat \ {0}
         /\ \A i \in 1 .. Len(s) - 1 : Front(s)[i] = s[i]
<1>1. Len(s) \in Nat /\ Len(s) # 0 /\ Len(s) \in 1 .. Len(s)
  OBVIOUS
<1>2. /\ SubSeq(s, 1, Len(s) - 1) \in Seq(S)
      /\ Len(SubSeq(s, 1, Len(s) - 1)) = Len(s) - 1
      /\ \A i \in 1 .. Len(s) - 1 : SubSeq(s, 1, Len(s) - 1)[i] = s[i]
  <2>1. \A i \in 1 .. Len(s) - 1 : s[i] \in S
    BY <1>1
  <2>2. 1 \in Int /\ Len(s) - 1 \in Int
    BY <1>1
  <2>3. /\ SubSeq(s, 1, Len(s) - 1) \in Seq(S)
        /\ Len(SubSeq(s, 1, Len(s) - 1)) = IF 1 <= Len(s) - 1 THEN (Len(s) - 1) - 1 + 1 ELSE 0
        /\ \A i \in 1 .. (Len(s) - 1) - 1 + 1 : SubSeq(s, 1, Len(s) - 1)[i] = s[1 + i - 1]
    BY <2>1, <2>2, SubSeqProperties
  <2>4. \A i \in 1 .. Len(s) - 1 : i \in 1 .. (Len(s) - 1) - 1 + 1 /\ 1 + i - 1 = i
    BY <1>1
  <2>5. Len(SubSeq(s, 1, Len(s) - 1)) = Len(s) - 1
    <3>1. CASE Len(s) = 1
      BY <2>3, <3>1
    <3>2. CASE Len(s) > 1
      BY <2>3, <3>2
    <3>3. \A n \in Nat : n # 0 => n = 1 \/ n > 1
      OBVIOUS
    <3>4. Len(s) = 1 \/ Len(s) > 1
      BY <1>1, <3>3
    <3> QED  BY <3>1, <3>2, <3>4
  <2> QED  BY <2>3, <2>4, <2>5
<1>3. Last(s) = s[Len(s)] /\ Last(s) \in S
  BY <1>1 DEF Last
<1> QED  BY <1>1, <1>2, <1>3 DEF Front

\* The innermost element is closed.
LEMMA CloseIs ==
  ASSUME NEW a \in Scanned, a.open # << >>
  PROVE  LET b == Close(a)
         IN /\ b \in Scanned /\ b.mode = "content" /\ b.open = Front(a.open)
            /\ b.out = Append(a.out, <<"</", Last(a.open)>>) /\ b.out # << >>
<1> DEFINE o == <<"</", Last(a.open)>>
           c == Emit(a, o, "content")
           f == Front(a.open)
<1>1. a.open \in Seq(Tag)
  BY DEF Scanned
<1>2. f \in Seq(Tag) /\ Last(a.open) \in Tag
  BY <1>1, FrontOf
<1>3. o \in Outs
  BY <1>2 DEF Outs
<1>4. "content" \in Modes
  BY DEF Modes
<1> HIDE DEF o
<1>5. /\ c \in Scanned /\ c.mode = "content" /\ c.open = a.open /\ c.had = a.had
      /\ c.out = Append(a.out, o) /\ c.out # << >>
  BY <1>3, <1>4, EmitIs
<1>6. Close(a) = [c EXCEPT !.open = f]
  BY <1>5 DEF Close, o
<1> HIDE DEF c, f
<1>7. LET b == [c EXCEPT !.open = f]
      IN b \in Scanned /\ b.mode = "content" /\ b.open = f /\ b.out = c.out
  BY <1>2, <1>5 DEF Scanned
<1> QED  BY <1>5, <1>6, <1>7 DEF f, o

\* A start tag begins.
LEMMA TagBegins ==
  ASSUME NEW a \in Scanned, NEW t \in Token, Open(a, t), t[1] = "<"
  PROVE  LET b == Step(a, t)
         IN /\ b \in Scanned /\ b.mode = "tag" /\ b.open = Append(a.open, t[2]) /\ b.had = {}
            /\ b.out = Append(a.out, t) /\ b.out # << >>
<1> DEFINE c == Emit(a, t, "tag")
           o == Append(a.open, t[2])
<1>1. t[2] \in Tag /\ t = <<t[1], t[2]>>
  BY TokenIs
<1>2. t \in Outs
  BY <1>1 DEF Outs
<1>3. "tag" \in Modes
  BY DEF Modes
<1>4. /\ c \in Scanned /\ c.mode = "tag" /\ c.open = a.open
      /\ c.out = Append(a.out, t) /\ c.out # << >>
  BY <1>2, <1>3, EmitIs
<1>5. Step(a, t) = [c EXCEPT !.open = Append(@, t[2]), !.had = {}]
  <2>1. InContent(a, t) = [c EXCEPT !.open = Append(@, t[2]), !.had = {}]
    <3>1. t[1] # "</" /\ t[1] \notin LeafHeads /\ t # Eof
      BY EofIs DEF LeafHeads
    <3> QED  BY <3>1, Zenon DEF InContent
  <2> QED  BY <2>1, OpenIs
<1>6. o \in Seq(Tag)
  BY <1>1 DEF Scanned
<1>7. Step(a, t) = [c EXCEPT !.open = o, !.had = {}]
  BY <1>4, <1>5
<1> HIDE DEF c, o
<1>8. LET b == [c EXCEPT !.open = o, !.had = {}]
      IN b \in Scanned /\ b.mode = "tag" /\ b.open = o /\ b.had = {} /\ b.out = c.out
  BY <1>4, <1>6 DEF Scanned
<1> QED  BY <1>4, <1>7, <1>8 DEF o

\* A leaf begins; at the top of a document, so does an end tag.
LEMMA LeafBegins ==
  ASSUME NEW a \in Scanned, NEW t \in Token, Open(a, t), IsHead(t), t[1] # "<",
         t[1] # "</" \/ a.open = << >>
  PROVE  LET b == Step(a, t)
         IN /\ b \in Scanned /\ b.mode = LeafName(t[1]) /\ b.open = a.open
            /\ b.out = Append(a.out, One(LeafName(t[1]))) /\ b.out # << >>
<1> DEFINE m == LeafName(t[1])
<1>1. m \in LeafNames /\ m \in Modes /\ One(m) \in Outs
  BY LeafNameIs DEF Modes, Outs
<1>2. Step(a, t) = Emit(a, One(m), m)
  <2>1. InContent(a, t) = Emit(a, One(m), m)
    <3>1. t # Eof /\ ~(t[1] = "</" /\ a.open # << >>)
      BY EofIs
    <3>2. t[1] \in LeafHeads \/ (t[1] = "</" /\ a.open = << >>)
      BY HeadIs
    <3> QED  BY <3>1, <3>2, Zenon DEF InContent
  <2> QED  BY <2>1, OpenIs
<1> HIDE DEF m
<1>3. LET b == Emit(a, One(m), m)
      IN /\ b \in Scanned /\ b.mode = m /\ b.open = a.open
         /\ b.out = Append(a.out, One(m)) /\ b.out # << >>
  BY <1>1, EmitIs
<1> QED  BY <1>2, <1>3 DEF m

\* An end tag begins.
LEMMA EndTagBegins ==
  ASSUME NEW a \in Scanned, NEW t \in Token, Open(a, t), t[1] = "</", a.open # << >>
  PROVE  LET b == Step(a, t)
         IN /\ b \in Scanned /\ b.mode = IF t[2] = Last(a.open) THEN "endtag" ELSE "bad"
            /\ b.open = a.open /\ b.out = a.out
<1> DEFINE m == IF t[2] = Last(a.open) THEN "endtag" ELSE "bad"
<1>1. m \in Modes
  BY DEF Modes
<1>2. Step(a, t) = [a EXCEPT !.mode = m]
  <2>1. InContent(a, t) = [a EXCEPT !.mode = m]
    <3>1. t[1] # "<" /\ t[1] \notin LeafHeads /\ t # Eof
      BY EofIs DEF LeafHeads
    <3> QED  BY <3>1, Zenon DEF InContent
  <2> QED  BY <2>1, OpenIs
<1> HIDE DEF m
<1>3. LET b == [a EXCEPT !.mode = m] IN b \in Scanned /\ b.mode = m /\ b.open = a.open /\ b.out = a.out
  BY <1>1, ModeIs
<1> QED  BY <1>2, <1>3 DEF m

\* The document ends, or a text begins where there is none to be.
LEMMA ContentEnds ==
  ASSUME NEW a \in Scanned, NEW t, a.mode = "content", t = Eof \/ (~IsHead(t) /\ a.open = << >>)
  PROVE  LET b == Step(a, t)
         IN b \in Scanned /\ b.mode = IF a.open # << >> \/ a.out = << >> THEN "bad" ELSE "end"
<1> DEFINE m == IF a.open # << >> \/ a.out = << >> THEN "bad" ELSE "end"
<1>1. m \in Modes
  BY DEF Modes
<1>2. ~IsHead(t)
  BY EofIs
<1>3. t[1] # "<" /\ t[1] # "</"
  BY <1>2 DEF IsHead
<1>4. InContent(a, t) = [a EXCEPT !.mode = m]
  <2>1. CASE t = Eof
    BY <1>2, <1>3, <2>1, SMT DEF InContent
  <2>2. CASE t # Eof
    BY <1>2, <1>3, <2>2, SMT DEF InContent, IsHead
  <2> QED  BY <2>1, <2>2
<1>5. Step(a, t) = [a EXCEPT !.mode = m]
  <2>1. Open(a, t)
    BY Zenon DEF Open
  <2> QED  BY <1>4, <2>1, OpenIs
<1> HIDE DEF m
<1>6. LET b == [a EXCEPT !.mode = m] IN b \in Scanned /\ b.mode = m
  BY <1>1, ModeIs
<1> QED  BY <1>5, <1>6 DEF m

\* A text begins in an element.
LEMMA TextBegins ==
  ASSUME NEW a \in Scanned, NEW t \in Token, a.mode = "content", ~IsHead(t), a.open # << >>
  PROVE  LET b == Step(a, t)
         IN /\ b \in Scanned /\ b.mode = "text" /\ b.open = a.open
            /\ b.out = Append(a.out, One("text")) /\ b.out # << >>
<1>1. "text" \in Modes /\ One("text") \in Outs
  BY DEF Modes, Outs, LeafNames
<1>2. t[1] # "<" /\ t[1] # "</" /\ t[1] \notin LeafHeads /\ t # Eof /\ a.mode # "text"
  BY EofIs DEF IsHead
<1>3. InContent(a, t) = Emit(a, One("text"), "text")
  BY <1>2, Zenon DEF InContent
<1>4. Step(a, t) = Emit(a, One("text"), "text")
  <2>1. Open(a, t)
    BY Zenon DEF Open
  <2> QED  BY <1>3, <2>1, OpenIs
<1> QED  BY <1>1, <1>4, EmitIs

\* A text goes on, or ends with the document.
LEMMA TextGoesOn ==
  ASSUME NEW a \in Scanned, NEW t, a.mode = "text", a.open # << >>, ~IsHead(t)
  PROVE  /\ t # Eof => Step(a, t) = a
         /\ t = Eof => Step(a, t) \in Scanned /\ Step(a, t).mode = "endless"
<1>1. t[1] # "<" /\ t[1] # "</" /\ t[1] \notin LeafHeads
  BY DEF IsHead
<1>2. ASSUME t # Eof  PROVE Step(a, t) = a
  <2>1. InContent(a, t) = a
    BY <1>1, <1>2, Zenon DEF InContent
  <2>2. Step(a, t) = InContent(a, t)
    BY <1>2, SMT DEF Step
  <2> QED  BY <2>1, <2>2
<1>3. ASSUME t = Eof  PROVE Step(a, t) = [a EXCEPT !.mode = "endless"]
  BY <1>3, SMT DEF Step
<1>4. "endless" \in Modes
  BY DEF Modes
<1> QED  BY <1>2, <1>3, <1>4, ModeIs

\* An attribute.
LEMMA AttributeIs ==
  ASSUME NEW a \in Scanned, NEW t \in Token, a.mode = "tag", t[1] = "="
  PROVE  LET b == Step(a, t)
         IN IF t[2] \in a.had THEN b \in Scanned /\ b.mode = "bad"
            ELSE /\ b \in Scanned /\ b.mode = "tag" /\ b.open = a.open /\ b.had = a.had \union {t[2]}
                 /\ b.out = Append(a.out, t) /\ b.out # << >>
<1> DEFINE c == Emit(a, t, "tag")
           h == c.had \union {t[2]}
<1>1. t[2] \in Attr /\ t = <<t[1], t[2]>>
  BY TokenIs
<1>2. t \in Outs
  BY <1>1 DEF Outs
<1>3. "tag" \in Modes /\ "bad" \in Modes
  BY DEF Modes
<1>4. /\ c \in Scanned /\ c.mode = "tag" /\ c.open = a.open /\ c.had = a.had
      /\ c.out = Append(a.out, t) /\ c.out # << >>
  BY <1>2, <1>3, EmitIs
<1>5. Step(a, t) = InTag(a, t)
  BY SMT DEF Step
<1>6. CASE t[2] \in a.had
  <2>1. InTag(a, t) = [a EXCEPT !.mode = "bad"]
    BY <1>6, SMT DEF InTag
  <2> QED  BY <1>3, <1>5, <1>6, <2>1, ModeIs
<1>7. CASE t[2] \notin a.had
  <2>1. InTag(a, t) = [c EXCEPT !.had = h]
    BY <1>7, SMT DEF InTag
  <2> HIDE DEF c
  <2>2. h \in SUBSET Attr
    BY <1>1, <1>4 DEF Scanned
  <2> HIDE DEF h
  <2>3. LET b == [c EXCEPT !.had = h]
        IN b \in Scanned /\ b.mode = "tag" /\ b.open = c.open /\ b.had = h /\ b.out = c.out
    BY <1>4, <2>2 DEF Scanned
  <2> QED  BY <1>4, <1>5, <1>7, <2>1, <2>3 DEF h
<1> QED  BY <1>6, <1>7

\* The end of a start tag.
LEMMA TagEnds1 ==
  ASSUME NEW a \in Scanned, a.mode = "tag"
  PROVE  LET b == Step(a, One(">"))
         IN /\ b \in Scanned /\ b.mode = "content" /\ b.open = a.open
            /\ b.out = Append(a.out, One(">")) /\ b.out # << >>
<1> DEFINE t == One(">")
<1>1. t[1] = ">"
  BY OneIs
<1>2. "content" \in Modes /\ t \in Outs
  BY DEF Modes, Outs
<1> HIDE DEF t
<1>3. Step(a, t) = Emit(a, t, "content")
  <2>1. Step(a, t) = InTag(a, t)
    BY SMT DEF Step
  <2>2. InTag(a, t) = Emit(a, t, "content")
    BY <1>1, SMT DEF InTag
  <2> QED  BY <2>1, <2>2
<1> QED  BY <1>2, <1>3, EmitIs DEF t

\* The end of an empty tag.
LEMMA EmptyTagIs ==
  ASSUME NEW a \in Scanned, a.mode = "tag", a.open # << >>
  PROVE  LET b == Step(a, One("/>"))
         IN /\ b \in Scanned /\ b.mode = "content" /\ b.open = Front(a.open)
            /\ b.out = Append(Append(a.out, One(">")), <<"</", Last(a.open)>>) /\ b.out # << >>
<1> DEFINE t == One("/>")
           c == Emit(a, One(">"), "content")
<1>1. t[1] = "/>"
  BY OneIs
<1>2. "content" \in Modes /\ One(">") \in Outs
  BY DEF Modes, Outs
<1> HIDE DEF t
<1>3. Step(a, t) = Close(c)
  <2>1. Step(a, t) = InTag(a, t)
    BY SMT DEF Step
  <2>2. InTag(a, t) = Close(c)
    BY <1>1, SMT DEF InTag
  <2> QED  BY <2>1, <2>2
<1>4. /\ c \in Scanned /\ c.mode = "content" /\ c.open = a.open
      /\ c.out = Append(a.out, One(">"))
  BY <1>2, EmitIs
<1> HIDE DEF c
<1> QED  BY <1>3, <1>4, CloseIs DEF t

\* Anything else in a tag.
LEMMA BadTagIs ==
  ASSUME NEW a \in Scanned, NEW t, a.mode = "tag", t[1] \notin {"=", "/>", ">"}
  PROVE  Step(a, t) \in Scanned /\ Step(a, t).mode = "bad"
<1>1. Step(a, t) = [a EXCEPT !.mode = "bad"]
  <2>1. Step(a, t) = InTag(a, t)
    BY SMT DEF Step
  <2>2. InTag(a, t) = [a EXCEPT !.mode = "bad"]
    BY SMT DEF InTag
  <2> QED  BY <2>1, <2>2
<1>2. "bad" \in Modes
  BY DEF Modes
<1> QED  BY <1>1, <1>2, ModeIs

\* The end of an end tag.
LEMMA EndTagIs ==
  ASSUME NEW a \in Scanned, NEW t, a.mode = "endtag"
  PROVE  /\ t[1] = ">" => Step(a, t) = Close(a)
         /\ t[1] # ">" => Step(a, t) \in Scanned /\ Step(a, t).mode = "bad"
<1>1. Step(a, t) = IF t[1] = ">" THEN Close(a) ELSE [a EXCEPT !.mode = "bad"]
  BY SMT DEF Step
<1>2. "bad" \in Modes
  BY DEF Modes
<1> QED  BY <1>1, <1>2, ModeIs

\* In a leaf that is no text.
LEMMA LeafIs ==
  ASSUME NEW a \in Scanned, NEW t, a.mode \in LeafNames, a.mode # "text"
  PROVE  LET b == Step(a, t)
             m == IF t = Eof THEN IF a.open = << >> THEN "end" ELSE "bad"
                  ELSE IF EndsLeaf(a.mode, t) THEN "content" ELSE a.mode
         IN b \in Scanned /\ b.mode = m /\ b.open = a.open /\ b.out = a.out
<1> DEFINE m == IF t = Eof THEN IF a.open = << >> THEN "end" ELSE "bad"
                ELSE IF EndsLeaf(a.mode, t) THEN "content" ELSE a.mode
<1>1. m \in Modes
  BY DEF Modes
<1>2. a.mode \notin {"bad", "end", "content", "text", "tag", "endtag"}
  BY DEF LeafNames
<1>3. a = [a EXCEPT !.mode = a.mode]
  BY DEF Scanned
<1>6. Step(a, t) = InLeaf(a, t)
  BY <1>2, SMT DEF Step
<1>4. Step(a, t) = [a EXCEPT !.mode = m]
  <2>1. CASE t = Eof
    BY <1>6, <2>1, Zenon DEF InLeaf
  <2>2. CASE t # Eof /\ EndsLeaf(a.mode, t)
    BY <1>6, <2>2, Zenon DEF InLeaf
  <2>3. CASE t # Eof /\ ~EndsLeaf(a.mode, t)
    <3>1. Step(a, t) = a
      BY <1>6, <2>3, Zenon DEF InLeaf
    <3>2. m = a.mode
      BY <2>3, Zenon
    <3> QED  BY <1>3, <3>1, <3>2
  <2> QED  BY <2>1, <2>2, <2>3
<1> HIDE DEF m
<1>5. LET b == [a EXCEPT !.mode = m] IN b \in Scanned /\ b.mode = m /\ b.open = a.open /\ b.out = a.out
  BY <1>1, ModeIs
<1> QED  BY <1>4, <1>5 DEF m

\* A scan that is over takes no further step.
LEMMA OverIs ==
  ASSUME NEW a, NEW t, a.mode \in {"bad", "end"}
  PROVE  Step(a, t) = a
  BY SMT DEF Step

-----------------------------------------------------------------------------
(* The scan as a sequence of states.                                       *)

\* The scan of each beginning of a document.
Scans(g, d) == g = [n \in 0 .. Len(d) |-> IF n = 0 THEN Start ELSE Step(g[n - 1], d[n])]
UpTo(d) == CHOOSE g : Scans(g, d)
At(d, n) == UpTo(d)[n]

\* There is a scan of every length.
LEMMA ScansLong ==
  ASSUME NEW d, NEW n \in Nat
  PROVE  \E g : g = [m \in 0 .. n |-> IF m = 0 THEN Start ELSE Step(g[m - 1], d[m])]
<1> DEFINE Ok(g, k) == g = [m \in 0 .. k |-> IF m = 0 THEN Start ELSE Step(g[m - 1], d[m])]
           bad == {k \in Nat : ~ \E g : Ok(g, k)}
<1>1. SUFFICES ASSUME bad # {}  PROVE FALSE
  OBVIOUS
<1>2. PICK k \in bad : \A j \in bad : k <= j
  <2>1. bad \subseteq Nat
    OBVIOUS
  <2> HIDE DEF bad
  <2> QED  BY <1>1, <2>1, LeastOf
<1>3. CASE k = 0
  <2> DEFINE g == [m \in 0 .. 0 |-> Start]
  <2>1. Ok(g, 0)
    OBVIOUS
  <2> QED  BY <1>2, <1>3, <2>1
<1>4. CASE k # 0
  <2>1. k \in Nat /\ k - 1 \in Nat /\ ~(k <= k - 1)
    BY <1>2, <1>4
  <2>2. k - 1 \notin bad
    <3> HIDE DEF bad
    <3> QED  BY <1>2, <2>1
  <2>3. PICK g : Ok(g, k - 1)
    BY <2>1, <2>2
  <2> DEFINE e == Step(g[k - 1], d[k])
             f == [m \in 0 .. k |-> IF m = k THEN e ELSE g[m]]
  <2>4. ASSUME NEW m \in 0 .. k
        PROVE  f[m] = IF m = 0 THEN Start ELSE Step(f[m - 1], d[m])
    <3>1. CASE m = k
      <4>1. f[m - 1] = g[k - 1] /\ m # 0
        BY <1>4, <2>1, <3>1
      <4>2. f[m] = e
        BY <3>1
      <4> HIDE DEF f
      <4> QED  BY <3>1, <4>1, <4>2
    <3>2. CASE m # k
      <4>1. m \in 0 .. k - 1 /\ (m # 0 => m - 1 \in 0 .. k /\ m - 1 # k)
        BY <2>1, <3>2
      <4>2. g[m] = IF m = 0 THEN Start ELSE Step(g[m - 1], d[m])
        BY <2>3, <4>1
      <4> HIDE DEF e
      <4>3. f[m] = g[m] /\ (m # 0 => f[m - 1] = g[m - 1])
        BY <3>2, <4>1
      <4> HIDE DEF f
      <4> QED  BY <4>2, <4>3
    <3> QED  BY <3>1, <3>2
  <2>5. f = [m \in 0 .. k |-> f[m]]
    OBVIOUS
  <2> HIDE DEF f
  <2>6. Ok(f, k)
    BY <2>4, <2>5
  <2> QED  BY <1>2, <2>6
<1> QED  BY <1>3, <1>4

\* The reference, step by step.
LEMMA ScanSteps ==
  ASSUME NEW S, NEW d \in Seq(S)
  PROVE  /\ Len(d) \in Nat /\ At(d, 0) = Start /\ Canonical(d) = At(d, Len(d))
         /\ \A n \in 1 .. Len(d) : At(d, n) = Step(At(d, n - 1), d[n])
<1>1. Len(d) \in Nat
  OBVIOUS
<1>2. \E g : Scans(g, d)
  BY <1>1, ScansLong DEF Scans
<1>3. Scans(UpTo(d), d)
  BY <1>2, Zenon DEF UpTo
<1>4. Canonical(d) = UpTo(d)[Len(d)]
  BY Zenon DEF Canonical, UpTo, Scans
<1> DEFINE g == UpTo(d)
<1> HIDE DEF g
<1>5. g = [n \in 0 .. Len(d) |-> IF n = 0 THEN Start ELSE Step(g[n - 1], d[n])]
  BY <1>3 DEF Scans, g
<1>6. g[0] = Start
  BY <1>1, <1>5
<1>7. \A n \in 1 .. Len(d) : g[n] = Step(g[n - 1], d[n])
  BY <1>1, <1>5
<1> QED  BY <1>1, <1>4, <1>6, <1>7 DEF g, At

\* A longer document is scanned in the same way as far as the shorter goes.
LEMMA ScanStays ==
  ASSUME NEW S, NEW d \in Seq(S), NEW t \in S
  PROVE  \A n \in 0 .. Len(d) : At(Append(d, t), n) = At(d, n)
<1> DEFINE e == Append(d, t)
           bad == {m \in 0 .. Len(d) : At(e, m) # At(d, m)}
<1>1. /\ Len(d) \in Nat /\ e \in Seq(S) /\ Len(e) = Len(d) + 1
      /\ \A i \in 1 .. Len(d) : e[i] = d[i]
  OBVIOUS
<1> HIDE DEF e
<1>2. /\ At(d, 0) = Start /\ \A n \in 1 .. Len(d) : At(d, n) = Step(At(d, n - 1), d[n])
      /\ At(e, 0) = Start /\ \A n \in 1 .. Len(e) : At(e, n) = Step(At(e, n - 1), e[n])
  BY <1>1, ScanSteps
<1>3. bad = {}
  <2> SUFFICES ASSUME bad # {}  PROVE FALSE
    OBVIOUS
  <2>1. PICK m \in bad : \A j \in bad : m <= j
    <3>1. bad \subseteq Nat
      OBVIOUS
    <3> HIDE DEF bad
    <3> QED  BY <3>1, LeastOf
  <2>2. CASE m = 0
    BY <1>2, <2>1, <2>2
  <2>3. CASE m # 0
    <3>1. m \in 1 .. Len(d) /\ m \in 1 .. Len(e) /\ m - 1 \in 0 .. Len(d) /\ ~(m <= m - 1)
      BY <1>1, <2>1, <2>3
    <3>2. m - 1 \notin bad
      <4> HIDE DEF bad
      <4> QED  BY <2>1, <3>1
    <3>3. At(e, m - 1) = At(d, m - 1)
      BY <3>1, <3>2
    <3>4. At(e, m) = At(d, m)
      BY <1>1, <1>2, <3>1, <3>3
    <3> QED  BY <2>1, <3>4
  <2> QED  BY <2>2, <2>3
<1> QED  BY <1>3 DEF e

\* Once it is over, the scan stays as it is.
LEMMA ScanOver ==
  ASSUME NEW S, NEW d \in Seq(S), NEW n \in 0 .. Len(d), At(d, n).mode \in {"bad", "end"}
  PROVE  At(d, Len(d)) = At(d, n)
<1> DEFINE bad == {m \in Nat : n <= m /\ m <= Len(d) /\ At(d, m) # At(d, n)}
<1>1. Len(d) \in Nat /\ \A m \in 1 .. Len(d) : At(d, m) = Step(At(d, m - 1), d[m])
  BY ScanSteps
<1>2. bad = {}
  <2> SUFFICES ASSUME bad # {}  PROVE FALSE
    OBVIOUS
  <2>1. PICK m \in bad : \A j \in bad : m <= j
    <3>1. bad \subseteq Nat
      OBVIOUS
    <3> HIDE DEF bad
    <3> QED  BY <3>1, LeastOf
  <2>2. m # n /\ n \in Nat /\ n <= m
    BY <2>1
  <2>3. m \in 1 .. Len(d) /\ m - 1 \in Nat /\ n <= m - 1 /\ m - 1 <= Len(d) /\ ~(m <= m - 1)
    BY <1>1, <2>1, <2>2
  <2>4. m - 1 \notin bad
    <3> HIDE DEF bad
    <3> QED  BY <2>1, <2>3
  <2>5. At(d, m - 1) = At(d, n)
    BY <2>3, <2>4
  <2>6. Step(At(d, n), d[m]) = At(d, n)
    BY OverIs
  <2>7. At(d, m) = At(d, n)
    BY <1>1, <2>3, <2>5, <2>6
  <2> QED  BY <2>1, <2>7
<1>3. Len(d) \notin bad /\ n <= Len(d)
  BY <1>1, <1>2
<1> QED  BY <1>1, <1>3

-----------------------------------------------------------------------------
(* The nodes on the stack, and the tree below them.                        *)

Stacked(st) == {st[i] : i \in 1 .. Len(st)}

\* The tree without the parents that nodes have before they are linked.
Rooted(T, st) ==
    [T EXCEPT !.parent = [n \in Node |-> IF n \in Stacked(st) THEN Nil ELSE T.parent[n]]]

\* Each node on the stack is the parent of the next, but of a text.
Nested(T, st) ==
    /\ st \in Seq(Node) /\ Len(st) >= 1
    /\ \A i, j \in 1 .. Len(st) : st[i] = st[j] => i = j
    /\ \A n \in Node : T.kind[n] = "document" <=> n = st[1]
    /\ \A i \in 2 .. Len(st) : T.kind[st[i]] \in {"element", "leaf"}
    /\ \A i \in 2 .. Len(st) : i # Len(st) => T.kind[st[i]] = "element"
    /\ \A i \in 2 .. Len(st) : T.kind[st[i]] = "element" => T.parent[st[i]] = st[i - 1]
    /\ T.parent[st[1]] = Nil
    /\ \A n \in Node : T.kind[n] # "free" => n \in Stacked(st) \/ T.parent[n] # Nil

Whole(T, st) == T \in Trees /\ Nested(T, st) /\ Sound(Rooted(T, st))

\* What it changes.
LEMMA RootedIs ==
  ASSUME NEW T \in Trees, NEW st
  PROVE  LET R == Rooted(T, st)
         IN /\ R \in Trees /\ R.kind = T.kind /\ R.name = T.name /\ R.first = T.first
            /\ R.last = T.last /\ R.prev = T.prev /\ R.next = T.next /\ R.error = T.error
            /\ R.parent = [n \in Node |-> IF n \in Stacked(st) THEN Nil ELSE T.parent[n]]
<1> DEFINE f == [n \in Node |-> IF n \in Stacked(st) THEN Nil ELSE T.parent[n]]
<1>1. f \in [Node -> Maybe]
  BY DEF Trees, Maybe
<1> HIDE DEF f
<1>2. LET R == [T EXCEPT !.parent = f]
      IN /\ R \in Trees /\ R.kind = T.kind /\ R.name = T.name /\ R.first = T.first
         /\ R.last = T.last /\ R.prev = T.prev /\ R.next = T.next /\ R.error = T.error
         /\ R.parent = f
  BY <1>1 DEF Trees
<1> QED  BY <1>2 DEF Rooted, f

\* A tree is given by its fields.
LEMMA TreesEqual ==
  ASSUME NEW T \in Trees, NEW U \in Trees, T.kind = U.kind, T.name = U.name, T.parent = U.parent,
         T.first = U.first, T.last = U.last, T.prev = U.prev, T.next = U.next, T.error = U.error
  PROVE  T = U
<1>1. T = [kind |-> T.kind, name |-> T.name, parent |-> T.parent, first |-> T.first,
           last |-> T.last, prev |-> T.prev, next |-> T.next, error |-> T.error]
  BY DEF Trees
<1>2. U = [kind |-> U.kind, name |-> U.name, parent |-> U.parent, first |-> U.first,
           last |-> U.last, prev |-> U.prev, next |-> U.next, error |-> U.error]
  BY DEF Trees
<1> QED  BY <1>1, <1>2

\* The stack.
LEMMA StackIs ==
  ASSUME NEW T, NEW st, Nested(T, st)
  PROVE  /\ Len(st) \in Nat /\ Len(st) >= 1 /\ Last(st) = st[Len(st)] /\ Last(st) \in Node
         /\ \A i \in 1 .. Len(st) : st[i] \in Node
         /\ Front(st) \in Seq(Node) /\ Len(Front(st)) = Len(st) - 1
         /\ \A i \in 1 .. Len(st) - 1 : Front(st)[i] = st[i]
<1>1. st \in Seq(Node) /\ Len(st) >= 1
  BY DEF Nested
<1>2. Len(st) \in Nat /\ \A i \in 1 .. Len(st) : st[i] \in Node
  BY <1>1
<1>3. st # << >>
  BY <1>1
<1> QED  BY <1>1, <1>2, <1>3, FrontOf

\* A node enters.
LEMMA PushIs ==
  ASSUME NEW st \in Seq(Node), NEW n \in Node
  PROVE  /\ Append(st, n) \in Seq(Node) /\ Len(Append(st, n)) = Len(st) + 1 /\ Len(st) \in Nat
         /\ \A i \in 1 .. Len(st) : Append(st, n)[i] = st[i]
         /\ Append(st, n)[Len(st) + 1] = n
         /\ Stacked(Append(st, n)) = Stacked(st) \union {n}
<1>1. /\ Append(st, n) \in Seq(Node) /\ Len(Append(st, n)) = Len(st) + 1 /\ Len(st) \in Nat
      /\ \A i \in 1 .. Len(st) : Append(st, n)[i] = st[i]
      /\ Append(st, n)[Len(st) + 1] = n
  OBVIOUS
<1> DEFINE su == Append(st, n)
<1> HIDE DEF su
<1>2. Stacked(su) = Stacked(st) \union {n}
  <2>1. \A i \in 1 .. Len(su) : i \in 1 .. Len(st) \/ i = Len(st) + 1
    BY <1>1 DEF su
  <2>2. Len(st) + 1 \in 1 .. Len(su) /\ \A i \in 1 .. Len(st) : i \in 1 .. Len(su)
    BY <1>1 DEF su
  <2> QED  BY <1>1, <2>1, <2>2 DEF Stacked, su
<1> QED  BY <1>1, <1>2 DEF su

\* The innermost node leaves.
LEMMA PopIs ==
  ASSUME NEW T, NEW st, Nested(T, st)
  PROVE  /\ Stacked(st) = Stacked(Front(st)) \union {Last(st)}
         /\ Last(st) \notin Stacked(Front(st))
<1>1. /\ Len(st) \in Nat /\ Len(st) >= 1 /\ Last(st) = st[Len(st)]
      /\ Len(Front(st)) = Len(st) - 1 /\ \A i \in 1 .. Len(st) - 1 : Front(st)[i] = st[i]
  BY StackIs
<1>2. \A i, j \in 1 .. Len(st) : st[i] = st[j] => i = j
  BY DEF Nested
<1> DEFINE f == Front(st)
<1> HIDE DEF f
<1>3. \A i \in 1 .. Len(st) : i \in 1 .. Len(f) \/ i = Len(st)
  BY <1>1 DEF f
<1>4. Len(st) \in 1 .. Len(st) /\ \A i \in 1 .. Len(f) : i \in 1 .. Len(st) /\ i # Len(st) /\ f[i] = st[i]
  BY <1>1 DEF f
<1>5. Stacked(st) = Stacked(f) \union {st[Len(st)]}
  BY <1>3, <1>4 DEF Stacked
<1>6. st[Len(st)] \notin Stacked(f)
  BY <1>2, <1>4 DEF Stacked
<1> QED  BY <1>1, <1>5, <1>6 DEF f

\* A new node on the stack.
Begun(T, n, k, v, par) == [NewNode(T, n, k, v) EXCEPT !.parent[n] = par]

MayBegin(T, st, n, k, v, par) ==
    /\ n \in Node /\ T.kind[n] = "free" /\ v \in Name
    /\ (k = "element" /\ par = Last(st)) \/ (k = "leaf" /\ par \in Maybe)
    /\ T.kind[Last(st)] # "leaf"

\* What it does to the fields.
BegunAs(T, U, n, k, v, par) ==
    /\ U \in Trees /\ U.kind = [T.kind EXCEPT ![n] = k] /\ U.name = [T.name EXCEPT ![n] = v]
    /\ U.first = T.first /\ U.last = T.last /\ U.prev = T.prev /\ U.next = T.next
    /\ U.error = T.error /\ U.parent = [T.parent EXCEPT ![n] = par]

\* The fields of the tree with a new node.
LEMMA BegunFields ==
  ASSUME NEW T \in Trees, NEW st, NEW n, NEW k, NEW v, NEW par,
         MayBegin(T, st, n, k, v, par), Last(st) \in Node
  PROVE  BegunAs(T, Begun(T, n, k, v, par), n, k, v, par)
<1>1. k \in Kinds \union {"free"} /\ v \in Name \union {""} /\ par \in Maybe /\ n \in Node
  BY DEF MayBegin, Kinds, Maybe
<1>2. LET U == NewNode(T, n, k, v)
      IN /\ U \in Trees /\ U.kind = [T.kind EXCEPT ![n] = k] /\ U.name = [T.name EXCEPT ![n] = v]
         /\ U.first = T.first /\ U.last = T.last /\ U.prev = T.prev /\ U.next = T.next
         /\ U.error = T.error /\ U.parent = T.parent
  BY <1>1 DEF NewNode, Trees
<1> DEFINE N == NewNode(T, n, k, v)
<1> HIDE DEF N
<1>3. LET U == [N EXCEPT !.parent[n] = par]
      IN /\ U \in Trees /\ U.kind = N.kind /\ U.name = N.name
         /\ U.first = N.first /\ U.last = N.last /\ U.prev = N.prev /\ U.next = N.next
         /\ U.error = N.error /\ U.parent = [N.parent EXCEPT ![n] = par]
  BY <1>1, <1>2 DEF Trees, N
<1> QED  BY <1>2, <1>3 DEF Begun, BegunAs, N

\* A new node leaves the tree whole.
LEMMA BegunWhole ==
  ASSUME NEW T, NEW st, Whole(T, st), NEW n, NEW k, NEW v, NEW par,
         MayBegin(T, st, n, k, v, par)
  PROVE  Whole(Begun(T, n, k, v, par), Append(st, n))
<1> DEFINE R == Rooted(T, st)
           U == Begun(T, n, k, v, par)
           su == Append(st, n)
           V == Rooted(U, su)
           N == NewNode(R, n, k, v)
<1>1. T \in Trees /\ Nested(T, st) /\ Sound(R)
  BY DEF Whole
<1>2. /\ n \in Node /\ T.kind[n] = "free" /\ v \in Name /\ k \in {"element", "leaf"}
      /\ (k = "element" => par = Last(st)) /\ T.kind[Last(st)] # "leaf"
  BY DEF MayBegin
<1>3. /\ Len(st) \in Nat /\ Len(st) >= 1 /\ Last(st) = st[Len(st)] /\ Last(st) \in Node
      /\ \A i \in 1 .. Len(st) : st[i] \in Node
  BY <1>1, StackIs
<1>4. /\ U \in Trees /\ U.kind = [T.kind EXCEPT ![n] = k] /\ U.name = [T.name EXCEPT ![n] = v]
      /\ U.first = T.first /\ U.last = T.last /\ U.prev = T.prev /\ U.next = T.next
      /\ U.error = T.error /\ U.parent = [T.parent EXCEPT ![n] = par]
  <2>1. BegunAs(T, U, n, k, v, par)
    BY <1>1, <1>3, BegunFields
  <2> HIDE DEF U
  <2> QED  BY <2>1 DEF BegunAs
<1>5. /\ R \in Trees /\ R.kind = T.kind /\ R.name = T.name /\ R.first = T.first
      /\ R.last = T.last /\ R.prev = T.prev /\ R.next = T.next /\ R.error = T.error
      /\ R.parent = [m \in Node |-> IF m \in Stacked(st) THEN Nil ELSE T.parent[m]]
  BY <1>1, RootedIs
<1>6. /\ su \in Seq(Node) /\ Len(su) = Len(st) + 1
      /\ \A i \in 1 .. Len(st) : su[i] = st[i]
      /\ su[Len(st) + 1] = n
      /\ Stacked(su) = Stacked(st) \union {n}
  BY <1>1, <1>2, PushIs DEF Nested
<1> HIDE DEF U, su
<1>7. /\ V \in Trees /\ V.kind = U.kind /\ V.name = U.name /\ V.first = U.first
      /\ V.last = U.last /\ V.prev = U.prev /\ V.next = U.next /\ V.error = U.error
      /\ V.parent = [m \in Node |-> IF m \in Stacked(su) THEN Nil ELSE U.parent[m]]
  <2>1. U \in Trees
    BY <1>4
  <2> QED  BY <2>1, RootedIs
<1> HIDE DEF V, R
<1>8. V = N
  <2>1. k \in Kinds /\ N \in Trees /\ N.kind = [R.kind EXCEPT ![n] = k] /\ N.name = [R.name EXCEPT ![n] = v]
        /\ N.first = R.first /\ N.last = R.last /\ N.prev = R.prev /\ N.next = R.next
        /\ N.error = R.error /\ N.parent = R.parent
    BY <1>2, <1>5 DEF NewNode, Trees, Kinds
  <2> HIDE DEF N
  <2>2. R.parent[n] = Nil
    BY <1>1, <1>2, <1>5 DEF Sound, Linked, NoDangling
  <2>3. V.parent = R.parent
    <3>1. V.parent \in [Node -> Maybe] /\ R.parent \in [Node -> Maybe]
      BY <1>5, <1>7, TreeFields
    <3>2. ASSUME NEW m \in Node  PROVE V.parent[m] = R.parent[m]
      <4>1. CASE m = n
        BY <1>2, <1>6, <1>7, <2>2, <4>1
      <4>2. CASE m # n
        <5>1. U.parent[m] = T.parent[m] /\ (m \in Stacked(su) <=> m \in Stacked(st))
          BY <1>1, <1>4, <1>6, <4>2, TreeFields
        <5> QED  BY <1>5, <1>7, <5>1
      <4> QED  BY <4>1, <4>2
    <3> QED  BY <3>1, <3>2
  <2> QED  BY <1>4, <1>5, <1>7, <2>1, <2>3, TreesEqual
<1>9. Sound(V)
  <2>1. n \in Free(R) /\ k \in Kinds /\ v \in Name
    BY <1>2, <1>5 DEF Free, Kinds
  <2> QED  BY <1>1, <1>8, <2>1, NewSound
<1>10. \A i \in 1 .. Len(st) : st[i] # n
  <2>1. ASSUME NEW i \in 1 .. Len(st), st[i] = n  PROVE FALSE
    <3>1. i = 1 \/ i \in 2 .. Len(st)
      BY <1>3
    <3>2. T.kind[st[i]] \in {"document", "element", "leaf"}
      BY <1>1, <1>3, <3>1 DEF Nested
    <3> QED  BY <1>2, <2>1, <3>2
  <2> QED  BY <2>1
<1>11. /\ U.kind[n] = k /\ U.parent[n] = par
       /\ \A m \in Node : m # n => U.kind[m] = T.kind[m] /\ U.parent[m] = T.parent[m]
  BY <1>1, <1>2, <1>4, TreeFields
<1>12. \A i \in 1 .. Len(su) : i \in 1 .. Len(st) \/ (i = Len(st) + 1 /\ su[i] = n)
  BY <1>3, <1>6
<1>13. Nested(U, su)
  <2>1. \A i, j \in 1 .. Len(su) : su[i] = su[j] => i = j
    <3>1. \A i, j \in 1 .. Len(st) : st[i] = st[j] => i = j
      BY <1>1 DEF Nested
    <3>2. ASSUME NEW i \in 1 .. Len(su), NEW j \in 1 .. Len(su), su[i] = su[j]  PROVE i = j
      <4>1. CASE i \in 1 .. Len(st) /\ j \in 1 .. Len(st)
        BY <1>6, <3>1, <3>2, <4>1
      <4>2. CASE i \in 1 .. Len(st) /\ j = Len(st) + 1
        BY <1>6, <1>10, <3>2, <4>2
      <4>3. CASE i = Len(st) + 1 /\ j \in 1 .. Len(st)
        BY <1>6, <1>10, <3>2, <4>3
      <4>4. CASE i = Len(st) + 1 /\ j = Len(st) + 1
        BY <4>4
      <4> QED  BY <1>12, <4>1, <4>2, <4>3, <4>4
    <3> QED  BY <3>2
  <2>2. ASSUME NEW m \in Node  PROVE U.kind[m] = "document" <=> m = su[1]
    <3>1. su[1] = st[1] /\ st[1] # n /\ (T.kind[m] = "document" <=> m = st[1])
      BY <1>1, <1>3, <1>6, <1>10 DEF Nested
    <3> QED  BY <1>2, <1>11, <3>1
  <2>3. ASSUME NEW i \in 2 .. Len(su)
        PROVE  /\ U.kind[su[i]] \in {"element", "leaf"}
               /\ i # Len(su) => U.kind[su[i]] = "element"
               /\ U.kind[su[i]] = "element" => U.parent[su[i]] = su[i - 1]
    <3>1. CASE i = Len(st) + 1
      <4>1. su[i - 1] = Last(st) /\ su[i] = n
        BY <1>3, <1>6, <3>1
      <4> QED  BY <1>2, <1>6, <1>11, <3>1, <4>1
    <3>2. CASE i # Len(st) + 1
      <4>1. i \in 2 .. Len(st) /\ i \in 1 .. Len(st) /\ i - 1 \in 1 .. Len(st)
        BY <1>3, <1>6, <3>2
      <4>2. su[i] = st[i] /\ su[i - 1] = st[i - 1] /\ st[i] # n /\ st[i] \in Node
        BY <1>3, <1>6, <1>10, <4>1
      <4>3. /\ T.kind[st[i]] \in {"element", "leaf"}
            /\ i # Len(st) => T.kind[st[i]] = "element"
            /\ T.kind[st[i]] = "element" => T.parent[st[i]] = st[i - 1]
        BY <1>1, <4>1 DEF Nested
      <4>4. i = Len(st) => T.kind[st[i]] = "element"
        BY <1>2, <1>3, <4>3
      <4> QED  BY <1>11, <4>2, <4>3, <4>4
    <3> QED  BY <3>1, <3>2
  <2>4. U.parent[su[1]] = Nil
    <3>1. su[1] = st[1] /\ st[1] # n /\ st[1] \in Node /\ T.parent[st[1]] = Nil
      BY <1>1, <1>3, <1>6, <1>10 DEF Nested
    <3> QED  BY <1>11, <3>1
  <2>5. ASSUME NEW m \in Node, U.kind[m] # "free"  PROVE m \in Stacked(su) \/ U.parent[m] # Nil
    <3>1. CASE m = n
      BY <1>6, <3>1
    <3>2. CASE m # n
      <4>1. m \in Stacked(st) \/ T.parent[m] # Nil
        BY <1>1, <1>11, <2>5, <3>2 DEF Nested
      <4> QED  BY <1>6, <1>11, <3>2, <4>1
    <3> QED  BY <3>1, <3>2
  <2>6. Len(su) >= 1
    BY <1>3, <1>6
  <2> QED  BY <1>6, <2>1, <2>2, <2>3, <2>4, <2>5, <2>6 DEF Nested
<1> QED  BY <1>4, <1>9, <1>13 DEF Whole, U, su, V

\* The innermost node is linked to the one before it, and leaves the stack.
LEMMA UpIs ==
  ASSUME NEW T, NEW st, Nested(T, st), Len(st) >= 2
  PROVE  LET u == st[Len(st) - 1]
         IN /\ u \in Node /\ u # Last(st) /\ u \in Stacked(st) /\ Last(st) \in Stacked(st)
            /\ Last(Front(st)) = u
            /\ T.kind[u] \in {"document", "element"} /\ T.kind[Last(st)] \in {"element", "leaf"}
<1>1. /\ Len(st) \in Nat /\ Last(st) = st[Len(st)] /\ Last(st) \in Node
      /\ \A i \in 1 .. Len(st) : st[i] \in Node
      /\ Front(st) \in Seq(Node) /\ Len(Front(st)) = Len(st) - 1
      /\ \A i \in 1 .. Len(st) - 1 : Front(st)[i] = st[i]
  BY StackIs
<1>2. /\ Len(st) - 1 \in 1 .. Len(st) /\ Len(st) - 1 \in 1 .. Len(st) - 1 /\ Len(st) \in 1 .. Len(st)
      /\ Len(st) # Len(st) - 1 /\ Len(st) \in 2 .. Len(st)
      /\ (Len(st) - 1 = 1 \/ Len(st) - 1 \in 2 .. Len(st))
  BY <1>1
<1> DEFINE j == Len(st) - 1
           u == st[j]
<1>3. u \in Node /\ u # Last(st) /\ u \in Stacked(st) /\ Last(st) \in Stacked(st)
  BY <1>1, <1>2 DEF Nested, Stacked
<1>4. T.kind[u] \in {"document", "element"}
  <2> HIDE DEF j
  <2>1. j = 1 \/ j \in 2 .. Len(st)
    BY <1>2 DEF j
  <2>2. j # Len(st)
    BY <1>2 DEF j
  <2>3. u \in Node
    BY <1>3
  <2> QED  BY <2>1, <2>2, <2>3 DEF Nested
<1>5. T.kind[Last(st)] \in {"element", "leaf"}
  BY <1>1, <1>2 DEF Nested
<1>6. Last(Front(st)) = u
  BY <1>1, <1>2 DEF Last
<1> QED  BY <1>3, <1>4, <1>5, <1>6

\* What LinkEndChild does to the fields.
EndLinked(T, U, q, n) ==
    /\ U \in Trees
    /\ U.kind = T.kind /\ U.name = T.name /\ U.error = T.error
    /\ U.parent = [T.parent EXCEPT ![n] = q]
    /\ U.prev = [T.prev EXCEPT ![n] = T.last[q]]
    /\ U.next = Put([T.next EXCEPT ![n] = Nil], T.last[q], n)
    /\ U.first = [T.first EXCEPT ![q] = IF T.last[q] = Nil THEN n ELSE T.first[q]]
    /\ U.last = [T.last EXCEPT ![q] = n]

\* LinkEndChild, field by field.
LEMMA EndLinkedIs ==
  ASSUME NEW T \in Trees, NEW q \in Node, NEW n \in Node
  PROVE  EndLinked(T, LinkEndChild(T, q, n), q, n)
<1> DEFINE U == LinkEndChild(T, q, n)
<1>1. /\ U \in Trees
      /\ U.kind = T.kind /\ U.name = T.name /\ U.error = T.error
      /\ U.parent = [T.parent EXCEPT ![n] = q]
      /\ U.prev = [T.prev EXCEPT ![n] = T.last[q]]
      /\ U.next = Put([T.next EXCEPT ![n] = Nil], T.last[q], n)
      /\ U.first = [T.first EXCEPT ![q] = IF T.last[q] = Nil THEN n ELSE T.first[q]]
      /\ U.last = [T.last EXCEPT ![q] = n]
  BY NilAssumption DEF LinkEndChild, Trees, Put, Maybe
<1> HIDE DEF U
<1>2. EndLinked(T, U, q, n)
  BY <1>1 DEF EndLinked
<1> QED  BY <1>2 DEF U

\* Linking the innermost node leaves the tree whole.
LEMMA LinkedWhole ==
  ASSUME NEW T, NEW st, Whole(T, st), Len(st) >= 2
  PROVE  Whole(LinkEndChild(T, st[Len(st) - 1], Last(st)), Front(st))
<1> DEFINE u == st[Len(st) - 1]
           n == Last(st)
           f == Front(st)
           R == Rooted(T, st)
           U == LinkEndChild(T, u, n)
           V == Rooted(U, f)
           W == LinkEndChild(R, u, n)
<1>1. T \in Trees /\ Nested(T, st) /\ Sound(R)
  BY DEF Whole
<1>2. /\ u \in Node /\ u # n /\ u \in Stacked(st) /\ n \in Stacked(st)
      /\ T.kind[u] \in {"document", "element"} /\ T.kind[n] \in {"element", "leaf"}
  BY <1>1, UpIs
<1>3. /\ Len(st) \in Nat /\ n = st[Len(st)] /\ n \in Node
      /\ \A i \in 1 .. Len(st) : st[i] \in Node
      /\ f \in Seq(Node) /\ Len(f) = Len(st) - 1
      /\ \A i \in 1 .. Len(st) - 1 : f[i] = st[i]
  BY <1>1, StackIs
<1>4. Stacked(st) = Stacked(f) \union {n} /\ n \notin Stacked(f)
  BY <1>1, PopIs
<1> HIDE DEF u, n, f
<1>5. EndLinked(T, U, u, n)
  BY <1>1, <1>2, <1>3, EndLinkedIs
<1>6. /\ R \in Trees /\ R.kind = T.kind /\ R.name = T.name /\ R.first = T.first
      /\ R.last = T.last /\ R.prev = T.prev /\ R.next = T.next /\ R.error = T.error
      /\ R.parent = [m \in Node |-> IF m \in Stacked(st) THEN Nil ELSE T.parent[m]]
  BY <1>1, RootedIs
<1> HIDE DEF R, U
<1>7. /\ V \in Trees /\ V.kind = U.kind /\ V.name = U.name /\ V.first = U.first
      /\ V.last = U.last /\ V.prev = U.prev /\ V.next = U.next /\ V.error = U.error
      /\ V.parent = [m \in Node |-> IF m \in Stacked(f) THEN Nil ELSE U.parent[m]]
  <2>1. U \in Trees
    BY <1>5 DEF EndLinked
  <2> QED  BY <2>1, RootedIs
<1>8. EndLinked(R, W, u, n)
  BY <1>2, <1>3, <1>6, EndLinkedIs
<1> HIDE DEF V, W
<1>9. U.parent[n] = u /\ \A m \in Node : m # n => U.parent[m] = T.parent[m]
  BY <1>1, <1>3, <1>5, TreeFields DEF EndLinked
<1>10. V = W
  <2>1. V.parent = W.parent
    <3>1. V.parent \in [Node -> Maybe] /\ W.parent \in [Node -> Maybe]
      BY <1>7, <1>8, TreeFields DEF EndLinked
    <3>2. W.parent[n] = u /\ \A m \in Node : m # n => W.parent[m] = R.parent[m]
      BY <1>3, <1>6, <1>8, TreeFields DEF EndLinked
    <3>3. ASSUME NEW m \in Node  PROVE V.parent[m] = W.parent[m]
      <4>1. CASE m = n
        BY <1>4, <1>7, <1>9, <3>2, <4>1
      <4>2. CASE m # n
        <5>1. V.parent[m] = IF m \in Stacked(f) THEN Nil ELSE T.parent[m]
          BY <1>7, <1>9, <4>2
        <5>2. W.parent[m] = IF m \in Stacked(st) THEN Nil ELSE T.parent[m]
          BY <1>6, <3>2, <4>2
        <5> QED  BY <1>4, <4>2, <5>1, <5>2
      <4> QED  BY <4>1, <4>2
    <3> QED  BY <3>1, <3>3
  <2>2. /\ V \in Trees /\ W \in Trees /\ V.kind = W.kind /\ V.name = W.name /\ V.first = W.first
        /\ V.last = W.last /\ V.prev = W.prev /\ V.next = W.next /\ V.error = W.error
    BY <1>5, <1>6, <1>7, <1>8 DEF EndLinked
  <2> QED  BY <2>1, <2>2, TreesEqual
<1>11. Sound(W)
  <2>1. R.parent[n] = Nil /\ R.parent[u] = Nil
    BY <1>2, <1>3, <1>6
  <2>2. u \notin Under(R, n)
    <3>1. \A x \in Node : R.parent[x] \in Node \ {u} => x \in Node \ {u}
      BY <2>1, NilAssumption
    <3>2. Under(R, n) \subseteq Node \ {u}
      BY <1>2, <1>3, <3>1, UnderLeast
    <3> QED  BY <3>2
  <2>3. MayLink(R, u, n)
    BY <1>2, <1>3, <1>6, <2>1, <2>2 DEF MayLink
  <2> QED  BY <1>1, <2>3, LinkEndSound DEF W
<1>12. Nested(U, f)
  <2>1. /\ \A i, j \in 1 .. Len(st) : st[i] = st[j] => i = j
        /\ \A m \in Node : T.kind[m] = "document" <=> m = st[1]
        /\ \A i \in 2 .. Len(st) : T.kind[st[i]] \in {"element", "leaf"}
        /\ \A i \in 2 .. Len(st) : i # Len(st) => T.kind[st[i]] = "element"
        /\ \A i \in 2 .. Len(st) : T.kind[st[i]] = "element" => T.parent[st[i]] = st[i - 1]
        /\ T.parent[st[1]] = Nil
        /\ \A m \in Node : T.kind[m] # "free" => m \in Stacked(st) \/ T.parent[m] # Nil
    BY <1>1 DEF Nested
  <2>2. U.kind = T.kind
    BY <1>5 DEF EndLinked
  <2>3. \A i \in 1 .. Len(f) : i \in 1 .. Len(st) /\ i # Len(st) /\ f[i] = st[i] /\ f[i] # n
    BY <1>3, <2>1
  <2>4. 1 \in 1 .. Len(f) /\ Len(f) >= 1
    BY <1>3
  <2>5. \A i, j \in 1 .. Len(f) : f[i] = f[j] => i = j
    BY <2>1, <2>3
  <2>6. \A m \in Node : U.kind[m] = "document" <=> m = f[1]
    BY <2>1, <2>2, <2>3, <2>4
  <2>7. ASSUME NEW i \in 2 .. Len(f)
        PROVE  /\ U.kind[f[i]] = "element"
               /\ U.parent[f[i]] = f[i - 1]
    <3>1. i \in 1 .. Len(f) /\ i - 1 \in 1 .. Len(f) /\ i \in 2 .. Len(st) /\ i # Len(st)
      BY <1>3
    <3>2. f[i] = st[i] /\ f[i - 1] = st[i - 1] /\ f[i] # n /\ f[i] \in Node
      BY <1>3, <2>3, <3>1
    <3>3. T.kind[st[i]] = "element" /\ T.parent[st[i]] = st[i - 1]
      BY <2>1, <3>1
    <3> QED  BY <1>9, <2>2, <3>2, <3>3
  <2>8. U.parent[f[1]] = Nil
    <3>1. f[1] = st[1] /\ f[1] # n /\ f[1] \in Node
      BY <1>3, <2>3, <2>4
    <3> QED  BY <1>9, <2>1, <3>1
  <2>9. ASSUME NEW m \in Node, U.kind[m] # "free"  PROVE m \in Stacked(f) \/ U.parent[m] # Nil
    <3>1. CASE m = n
      BY <1>2, <1>9, <3>1, NilAssumption
    <3>2. CASE m # n
      <4>1. m \in Stacked(st) \/ T.parent[m] # Nil
        BY <2>1, <2>2, <2>9
      <4> QED  BY <1>4, <1>9, <3>2, <4>1
    <3> QED  BY <3>1, <3>2
  <2> QED  BY <1>3, <2>4, <2>5, <2>6, <2>7, <2>8, <2>9 DEF Nested
<1>13. Whole(U, f)
  <2>1. U \in Trees
    BY <1>5 DEF EndLinked
  <2> QED  BY <1>10, <1>11, <1>12, <2>1 DEF Whole, V
<1> QED  BY <1>13 DEF U, u, n, f

\* Setting an error leaves the tree whole.
Erred(T, U) ==
    /\ U \in Trees /\ U.kind = T.kind /\ U.name = T.name /\ U.parent = T.parent
    /\ U.first = T.first /\ U.last = T.last /\ U.prev = T.prev /\ U.next = T.next

\* An error changes nothing else.
LEMMA ErredIs ==
  ASSUME NEW T \in Trees, NEW n
  PROVE  Erred(T, SetError(T, n))
<1> DEFINE f == Put(T.error, GetDocument(T, n), TRUE)
<1>1. f \in [Node -> BOOLEAN]
  BY DEF Trees, Put
<1>2. SetError(T, n) = [T EXCEPT !.error = f]
  BY DEF SetError
<1> HIDE DEF f
<1> QED  BY <1>1, <1>2 DEF Trees, Erred

\* It leaves the tree whole.
LEMMA ErredWhole ==
  ASSUME NEW T, NEW st, Whole(T, st), NEW U, Erred(T, U)
  PROVE  Whole(U, st)
<1> DEFINE R == Rooted(T, st)
           V == Rooted(U, st)
<1>1. T \in Trees /\ Nested(T, st) /\ Sound(R) /\ U \in Trees
  BY DEF Whole, Erred
<1>2. /\ R \in Trees /\ R.kind = T.kind /\ R.name = T.name /\ R.first = T.first
      /\ R.last = T.last /\ R.prev = T.prev /\ R.next = T.next /\ R.error = T.error
      /\ R.parent = [m \in Node |-> IF m \in Stacked(st) THEN Nil ELSE T.parent[m]]
  BY <1>1, RootedIs
<1>3. /\ V \in Trees /\ V.kind = U.kind /\ V.name = U.name /\ V.first = U.first
      /\ V.last = U.last /\ V.prev = U.prev /\ V.next = U.next /\ V.error = U.error
      /\ V.parent = [m \in Node |-> IF m \in Stacked(st) THEN Nil ELSE U.parent[m]]
  BY <1>1, RootedIs
<1> HIDE DEF R, V
<1>4. Sound(V)
  BY <1>1, <1>2, <1>3, SameLinksSound DEF Erred
<1>5. Nested(U, st)
  BY <1>1 DEF Nested, Erred
<1> QED  BY <1>1, <1>4, <1>5 DEF Whole, V

\* No node is lost in a tree that is whole.
LEMMA WholeLosesNone ==
  ASSUME NEW T, NEW st, Whole(T, st), NEW n \in Live(T)
  PROVE  \/ \E i \in 1 .. Len(st) : st[i] = n
         \/ T.parent[n] # Nil /\ Contains(Children(T, T.parent[n]), n)
<1> DEFINE R == Rooted(T, st)
           q == T.parent[n]
<1>1. T \in Trees /\ Nested(T, st) /\ Sound(R)
  BY DEF Whole
<1>2. /\ R \in Trees /\ R.first = T.first /\ R.next = T.next
      /\ R.parent = [m \in Node |-> IF m \in Stacked(st) THEN Nil ELSE T.parent[m]]
  BY <1>1, RootedIs
<1> HIDE DEF R
<1>3. n \in Node /\ (n \in Stacked(st) \/ q # Nil)
  BY <1>1 DEF Nested, Live, Free
<1>4. SUFFICES ASSUME n \notin Stacked(st)
               PROVE  q # Nil /\ Contains(Children(T, q), n)
  BY <1>3 DEF Stacked
<1>5. q \in Node /\ R.parent[n] = q
  BY <1>1, <1>2, <1>3, <1>4, TreeFields DEF Maybe
<1>6. PICK s \in Seq(Node) : ListOf(R, q, s)
  BY <1>1, <1>5, ChildrenListed
<1>7. Children(T, q) = s
  <2>1. Children(R, q) = s
    BY <1>6, ChildrenIs
  <2> QED  BY <1>2, <2>1 DEF Children
<1>8. \E i \in 1 .. Len(s) : s[i] = n
  BY <1>3, <1>5, <1>6 DEF ListOf
<1> QED  BY <1>3, <1>4, <1>7, <1>8 DEF Contains

\* Errors reach the document: up the stack its nodes are each other's parents.
LEMMA DocumentFound ==
  ASSUME NEW T, NEW st, Whole(T, st), T.kind[Last(st)] # "leaf"
  PROVE  GetDocument(T, Last(st)) = st[1]
<1> DEFINE N == Len(st)
           r == [i \in 1 .. N |-> st[N + 1 - i]]
           S == KindNodes(T, "document")
<1>1. T \in Trees /\ Nested(T, st)
  BY DEF Whole
<1>2. N \in Nat /\ N >= 1 /\ Last(st) = st[N] /\ \A i \in 1 .. N : st[i] \in Node
  BY <1>1, StackIs
<1> HIDE DEF N
<1>3. r \in Seq(Node) /\ Len(r) = N
  BY <1>2, IsASeq
<1>4. \A i \in 1 .. N : r[i] = st[N + 1 - i] /\ N + 1 - i \in 1 .. N
  BY <1>2
<1> HIDE DEF r
<1>5. \A i, j \in 1 .. N : st[i] = st[j] => i = j
  BY <1>1 DEF Nested, N
<1>6. \A i, j \in 1 .. N : r[i] = r[j] => i = j
  <2>1. ASSUME NEW i \in 1 .. N, NEW j \in 1 .. N, r[i] = r[j]  PROVE i = j
    <3>1. N + 1 - i = N + 1 - j
      BY <1>4, <1>5, <2>1
    <3> QED  BY <1>2, <3>1
  <2> QED  BY <2>1
<1>7. ASSUME NEW i \in 1 .. N
      PROVE  T.parent[r[i]] = IF i < N THEN r[i + 1] ELSE Nil
  <2>1. CASE i = N
    <3>1. r[i] = st[1]
      BY <1>2, <1>4, <2>1
    <3> QED  BY <1>1, <2>1, <1>2, <3>1 DEF Nested
  <2>2. CASE i # N
    <3> DEFINE j == N + 1 - i
    <3>1. j \in 2 .. N /\ i < N /\ i + 1 \in 1 .. N /\ N + 1 - (i + 1) = j - 1
      BY <1>2, <2>2
    <3>2. r[i] = st[j] /\ r[i + 1] = st[j - 1]
      BY <1>4, <3>1
    <3> HIDE DEF j
    <3>3. T.kind[st[j]] = "element"
      BY <1>1, <1>2, <3>1 DEF Nested, N
    <3>4. T.parent[st[j]] = st[j - 1]
      BY <1>1, <3>1, <3>3 DEF Nested, N
    <3> QED  BY <3>1, <3>2, <3>4
  <2> QED  BY <2>1, <2>2
<1>8. Last(st) = r[1] /\ Len(r) # 0
  BY <1>2, <1>3, <1>4
<1>9. Along(Last(st), T.parent, r)
  BY <1>3, <1>6, <1>7, <1>8 DEF Along
<1>10. IsNext(r, S, 0, GetDocument(T, Last(st)))
  BY <1>9, FirstAlongIs DEF GetDocument
<1>11. r[N] = st[1] /\ N \in 1 .. N /\ st[1] \in Node
  BY <1>2, <1>4
<1>12. r[N] \in S
  BY <1>1, <1>11 DEF KindNodes, Nested
<1>13. PICK k \in 0 + 1 .. Len(r) : GetDocument(T, Last(st)) = r[k] /\ r[k] \in S
  BY <1>2, <1>3, <1>10, <1>11, <1>12 DEF IsNext
<1>14. r[k] = st[1]
  <2>1. r[k] \in Node /\ T.kind[r[k]] = "document"
    BY <1>13 DEF KindNodes
  <2> QED  BY <1>1, <2>1 DEF Nested
<1> QED  BY <1>13, <1>14

\* So an error that is reported is found on the document.
LEMMA ErrorSet ==
  ASSUME NEW T, NEW st, Whole(T, st), T.kind[Last(st)] # "leaf"
  PROVE  \E n \in Node : SetError(T, Last(st)).error[n]
<1> DEFINE d == st[1]
<1>1. T \in Trees /\ Nested(T, st)
  BY DEF Whole
<1>2. d \in Node
  BY <1>1, StackIs
<1> HIDE DEF d
<1>3. d # Nil /\ GetDocument(T, Last(st)) = d
  BY <1>2, NilAssumption, DocumentFound DEF d
<1>4. SetError(T, Last(st)) = [T EXCEPT !.error = [@ EXCEPT ![d] = TRUE]]
  BY <1>3 DEF SetError, Put
<1>5. SetError(T, Last(st)).error[d] = TRUE
  BY <1>1, <1>2, <1>4 DEF Trees
<1> QED  BY <1>2, <1>5

-----------------------------------------------------------------------------
(* The invariant of the tree and the stack.                                *)

PhaseOf(T, st, ph) ==
    /\ ph \in {"content", "tag", "leaf", "failed", "done"}
    /\ ph = "leaf" => T.kind[Last(st)] = "leaf" /\ T.name[Last(st)] \in LeafNames
    /\ ph = "tag" => T.kind[Last(st)] = "element"
    /\ ph = "content" => T.kind[Last(st)] # "leaf"
    /\ ph = "failed" => Len(st) >= 2
    /\ ph = "done" => Len(st) = 1

WholeInv == Whole(dom, stack) /\ PhaseOf(dom, stack, phase)

\* What the actions are made of.
BeginIs(k, v, par, next) == \E n \in Node :
    /\ dom.kind[n] = "free"
    /\ dom' = Begun(dom, n, k, v, par) /\ stack' = Append(stack, n) /\ phase' = next
    /\ p' = p + 1 /\ doc' = doc /\ attrs' = attrs

\* Begin is that, of whichever free node.
LEMMA BeginGives ==
  ASSUME NEW k, NEW v, NEW par, NEW next, Begin(k, v, par, next)
  PROVE  BeginIs(k, v, par, next)
<1> DEFINE c == CHOOSE n \in Free(dom) : TRUE
<1>1. Free(dom) # {}
  BY DEF Begin
<1>2. c \in Free(dom)
  BY <1>1
<1>3. /\ dom' = Begun(dom, c, k, v, par) /\ stack' = Append(stack, c) /\ phase' = next
      /\ p' = p + 1 /\ doc' = doc /\ attrs' = attrs
  BY DEF Begin, Begun
<1> HIDE DEF c
<1>4. c \in Node /\ dom.kind[c] = "free"
  BY <1>2 DEF Free
<1> QED  BY <1>3, <1>4 DEF BeginIs

\* Begin keeps the invariant, where it is called.
LEMMA BeginKeeps ==
  ASSUME WholeInv, NEW k, NEW v \in Name, NEW par, NEW next, Begin(k, v, par, next),
         dom.kind[Last(stack)] # "leaf",
         \/ k = "element" /\ par = Last(stack) /\ next = "tag"
         \/ k = "leaf" /\ par \in Maybe /\ next = "leaf" /\ v \in LeafNames
  PROVE  WholeInv'
<1>1. Whole(dom, stack) /\ Nested(dom, stack) /\ dom \in Trees
  BY DEF WholeInv, Whole
<1>2. PICK n \in Node :
        /\ dom.kind[n] = "free"
        /\ dom' = Begun(dom, n, k, v, par) /\ stack' = Append(stack, n) /\ phase' = next
  BY BeginGives DEF BeginIs
<1>3. MayBegin(dom, stack, n, k, v, par)
  BY <1>2 DEF MayBegin
<1>4. Whole(dom', stack')
  BY <1>1, <1>2, <1>3, BegunWhole
<1>5. Last(stack) \in Node /\ stack \in Seq(Node)
  BY <1>1, StackIs DEF Nested
<1>6. BegunAs(dom, dom', n, k, v, par)
  BY <1>1, <1>2, <1>3, <1>5, BegunFields
<1>7. Last(stack') = n
  <2>1. /\ stack' \in Seq(Node) /\ Len(stack') = Len(stack) + 1 /\ Len(stack) \in Nat
        /\ stack'[Len(stack) + 1] = n
    BY <1>2, <1>5, PushIs
  <2> QED  BY <2>1 DEF Last
<1>8. dom'.kind[n] = k /\ dom'.name[n] = v
  BY <1>1, <1>6, TreeFields DEF BegunAs, Trees
<1>9. PhaseOf(dom', stack', phase')
  BY <1>2, <1>7, <1>8 DEF PhaseOf
<1> QED  BY <1>4, <1>9 DEF WholeInv

\* The innermost node is linked.
LinkedUp == LinkEndChild(dom, stack[Len(stack) - 1], Last(stack))

\* Finish keeps it.
LEMMA FinishKeeps ==
  ASSUME WholeInv, Len(stack) >= 2, dom' = LinkedUp, stack' = Front(stack), phase' = "content"
  PROVE  WholeInv'
<1>1. Whole(dom, stack) /\ Nested(dom, stack) /\ dom \in Trees
  BY DEF WholeInv, Whole
<1>2. Whole(dom', stack')
  BY <1>1, LinkedWhole DEF LinkedUp
<1> DEFINE u == stack[Len(stack) - 1]
<1>3. u \in Node /\ Last(stack') = u /\ dom.kind[u] \in {"document", "element"}
  BY <1>1, UpIs
<1>4. Last(stack) \in Node
  BY <1>1, StackIs
<1> HIDE DEF u
<1>5. EndLinked(dom, dom', u, Last(stack))
  BY <1>1, <1>3, <1>4, EndLinkedIs DEF LinkedUp, u
<1>6. dom'.kind[Last(stack')] # "leaf"
  BY <1>3, <1>5 DEF EndLinked
<1>7. PhaseOf(dom', stack', phase')
  BY <1>6 DEF PhaseOf
<1> QED  BY <1>2, <1>7 DEF WholeInv

\* On the stack above the document.
LEMMA NotAlone ==
  ASSUME WholeInv, dom.kind[Last(stack)] # "document"
  PROVE  Len(stack) >= 2 /\ Len(stack) \in Nat
<1>1. Nested(dom, stack)
  BY DEF WholeInv, Whole
<1>2. Len(stack) \in Nat /\ Len(stack) >= 1 /\ Last(stack) = stack[Len(stack)] /\ Last(stack) \in Node
  BY <1>1, StackIs
<1>3. Len(stack) # 1
  BY <1>1, <1>2 DEF Nested
<1>4. \A n \in Nat : n >= 1 /\ n # 1 => n >= 2
  OBVIOUS
<1> QED  BY <1>2, <1>3, <1>4

\* The document, or an error in it.
LEMMA ErrorKeeps ==
  ASSUME WholeInv, NEW n, dom' \in {dom, SetError(dom, n)}, stack' = stack,
         (phase' = "failed" /\ Len(stack) >= 2) \/ (phase' = "done" /\ Len(stack) = 1)
  PROVE  WholeInv'
<1>1. Whole(dom, stack) /\ dom \in Trees
  BY DEF WholeInv, Whole
<1>2. Whole(dom', stack')
  <2>1. Erred(dom, SetError(dom, n))
    BY <1>1, ErredIs
  <2> QED  BY <1>1, <2>1, ErredWhole
<1>3. PhaseOf(dom', stack', phase')
  BY DEF PhaseOf
<1> QED  BY <1>2, <1>3 DEF WholeInv

\* So does a step that changes neither tree nor stack.
LEMMA WholeSame ==
  ASSUME WholeInv, dom' = dom, stack' = stack, PhaseOf(dom, stack, phase')
  PROVE  WholeInv'
  BY DEF WholeInv

\* Looking further on.
LEMMA RevealWhole == WholeInv /\ Reveal => WholeInv'
<1> SUFFICES ASSUME WholeInv, Reveal  PROVE WholeInv'
  OBVIOUS
<1>1. dom' = dom /\ stack' = stack /\ phase' = phase
  BY DEF Reveal
<1> QED  BY <1>1, WholeSame DEF WholeInv

\* A node that is identified.
LEMMA IdentifyWhole == WholeInv /\ Identify => WholeInv'
<1> SUFFICES ASSUME WholeInv, Identify  PROVE WholeInv'
  OBVIOUS
<1>1. PICK t \in Token : IF t[1] = "<" THEN Begin("element", t[2], Top, "tag")
                         ELSE Begin("leaf", LeafName(t[1]), Top, "leaf")
  BY DEF Identify
<1>2. dom.kind[Last(stack)] # "leaf"
  BY DEF WholeInv, PhaseOf, Identify
<1>3. CASE t[1] = "<"
  <2>1. t[2] \in Tag
    BY <1>3, TokenIs
  <2>2. t[2] \in Name
    BY <2>1, NamesAssumption
  <2> QED  BY <1>1, <1>2, <1>3, <2>2, BeginKeeps DEF Top
<1>4. CASE t[1] # "<"
  <2> DEFINE v == LeafName(t[1])
  <2>1. v \in LeafNames
    BY LeafNameIs
  <2>2. v \in Name
    BY <2>1, NamesAssumption
  <2>3. Begin("leaf", v, Last(stack), "leaf")
    BY <1>1, <1>4 DEF Top
  <2>4. Last(stack) \in Maybe
    <3>1. Nested(dom, stack)
      BY DEF WholeInv, Whole
    <3> QED  BY <3>1, StackIs DEF Maybe
  <2> HIDE DEF v
  <2> QED  BY <1>2, <2>1, <2>2, <2>3, <2>4, BeginKeeps
<1> QED  BY <1>3, <1>4

\* A text.
LEMMA ReadTextWhole == WholeInv /\ ReadText => WholeInv'
<1> SUFFICES ASSUME WholeInv, ReadText  PROVE WholeInv'
  OBVIOUS
<1>1. Begin("leaf", "text", Nil, "leaf")
  BY DEF ReadText
<1>2. dom.kind[Last(stack)] # "leaf"
  BY DEF WholeInv, PhaseOf, ReadText
<1>3. "text" \in LeafNames /\ Nil \in Maybe
  BY DEF LeafNames, Maybe
<1>4. "text" \in Name
  BY <1>3, NamesAssumption
<1> QED  BY <1>1, <1>2, <1>3, <1>4, BeginKeeps

\* The end of the document.
LEMMA DocumentEndsWhole == WholeInv /\ DocumentEnds => WholeInv'
<1> SUFFICES ASSUME WholeInv, DocumentEnds  PROVE WholeInv'
  OBVIOUS
<1>1. dom' \in {dom, SetError(dom, Top)} /\ stack' = stack /\ phase' = "done"
  BY DEF DocumentEnds
<1>2. dom.kind[Last(stack)] \notin {"leaf", "element"}
  BY DEF WholeInv, PhaseOf, DocumentEnds, InElement, Top
<1>3. Len(stack) = 1
  <2>1. Nested(dom, stack)
    BY DEF WholeInv, Whole
  <2>2. Len(stack) \in Nat /\ Len(stack) >= 1 /\ Last(stack) = stack[Len(stack)]
    BY <2>1, StackIs
  <2>3. Len(stack) \notin 2 .. Len(stack)
    BY <1>2, <2>1, <2>2 DEF Nested
  <2>4. \A n \in Nat : n >= 1 /\ n \notin 2 .. n => n = 1
    OBVIOUS
  <2> QED  BY <2>2, <2>3, <2>4
<1> QED  BY <1>1, <1>3, ErrorKeeps

\* Finish and Fail, where they are called.
LEMMA FinishWhole ==
  ASSUME WholeInv, NEW k, Finish(k), dom.kind[Last(stack)] # "document"
  PROVE  WholeInv'
<1>1. Len(stack) >= 2
  BY NotAlone
<1>2. dom' = LinkedUp /\ stack' = Front(stack) /\ phase' = "content"
  BY DEF Finish, LinkedUp, Up, Top
<1> QED  BY <1>1, <1>2, FinishKeeps

\* Fail, where it is called.
LEMMA FailWhole ==
  ASSUME WholeInv, Fail, dom.kind[Last(stack)] # "document"
  PROVE  WholeInv'
<1>1. Len(stack) >= 2
  BY NotAlone
<1>2. dom' = SetError(dom, Top) /\ stack' = stack /\ phase' = "failed"
  BY DEF Fail
<1> QED  BY <1>1, <1>2, ErrorKeeps

\* In a leaf.
LEMMA LeafWhole == WholeInv /\ (LeafScan \/ LeafEof) => WholeInv'
<1> SUFFICES ASSUME WholeInv, LeafScan \/ LeafEof  PROVE WholeInv'
  OBVIOUS
<1>1. phase = "leaf"
  BY DEF LeafScan, LeafEof
<1>2. dom.kind[Last(stack)] # "document"
  BY <1>1 DEF WholeInv, PhaseOf
<1>3. \/ \E k : Finish(k)
      \/ dom' = dom /\ stack' = stack /\ phase' \in {phase, "failed"}
  <2>1. CASE LeafScan
    BY <2>1 DEF LeafScan
  <2>2. CASE LeafEof
    <3>1. CASE dom.name[Top] = "text"
      BY <2>2, <3>1 DEF LeafEof
    <3>2. CASE dom.name[Top] = "declaration"
      BY <2>2, <3>2 DEF LeafEof
    <3>3. CASE dom.name[Top] # "text" /\ dom.name[Top] # "declaration"
      BY <2>2, <3>3 DEF LeafEof
    <3> QED  BY <3>1, <3>2, <3>3
  <2> QED  BY <2>1, <2>2
<1>4. CASE \E k : Finish(k)
  BY <1>2, <1>4, FinishWhole
<1>5. CASE dom' = dom /\ stack' = stack /\ phase' = phase
  BY <1>5, WholeSame DEF WholeInv
<1>6. CASE dom' = dom /\ stack' = stack /\ phase' = "failed"
  BY <1>2, <1>6, NotAlone, ErrorKeeps
<1> QED  BY <1>3, <1>4, <1>5, <1>6

\* In a start tag.
LEMMA TagWhole == WholeInv /\ (Attribute \/ EmptyTag \/ StartTag \/ BadTag) => WholeInv'
<1> SUFFICES ASSUME WholeInv, Attribute \/ EmptyTag \/ StartTag \/ BadTag  PROVE WholeInv'
  OBVIOUS
<1>1. phase = "tag"
  BY DEF Attribute, EmptyTag, StartTag, BadTag
<1>2. dom.kind[Last(stack)] = "element"
  BY <1>1 DEF WholeInv, PhaseOf
<1>3. \/ Fail \/ Finish(1)
      \/ dom' = dom /\ stack' = stack /\ phase' \in {phase, "content"}
  BY DEF Attribute, EmptyTag, StartTag, BadTag
<1>4. CASE Fail
  BY <1>2, <1>4, FailWhole
<1>5. CASE Finish(1)
  BY <1>2, <1>5, FinishWhole
<1>6. CASE dom' = dom /\ stack' = stack /\ phase' = phase
  BY <1>6, WholeSame DEF WholeInv
<1>7. CASE dom' = dom /\ stack' = stack /\ phase' = "content"
  <2>1. PhaseOf(dom, stack, phase')
    BY <1>2, <1>7 DEF PhaseOf
  <2> QED  BY <1>7, <2>1, WholeSame
<1> QED  BY <1>3, <1>4, <1>5, <1>6, <1>7

\* An end tag, or none.
LEMMA EndTagWhole == WholeInv /\ (EndTag \/ NoEndTag) => WholeInv'
<1> SUFFICES ASSUME WholeInv, EndTag \/ NoEndTag  PROVE WholeInv'
  OBVIOUS
<1>1. dom.kind[Last(stack)] # "document"
  BY DEF EndTag, NoEndTag, InElement, Top
<1>2. Fail \/ Finish(2)
  BY DEF EndTag, NoEndTag
<1> QED  BY <1>1, <1>2, FailWhole, FinishWhole

\* The error that an element adds is set in a tree that is whole.
LEMMA UnwindWhole == WholeInv /\ Unwind => WholeInv'
<1> SUFFICES ASSUME WholeInv, Unwind  PROVE WholeInv'
  OBVIOUS
<1>1. Whole(dom, stack) /\ Len(stack) >= 2
  BY DEF WholeInv, PhaseOf, Unwind
<1>2. Nested(dom, stack) /\ dom \in Trees
  BY <1>1 DEF Whole
<1>3. Whole(LinkedUp, Front(stack))
  BY <1>1, LinkedWhole DEF LinkedUp
<1>4. dom' \in {LinkedUp, SetError(LinkedUp, Up)} /\ stack' = Front(stack)
  BY DEF Unwind, LinkedUp, Up, Top
<1>5. Whole(dom', stack')
  <2>1. LinkedUp \in Trees
    BY <1>3 DEF Whole
  <2>2. Erred(LinkedUp, SetError(LinkedUp, Up))
    BY <2>1, ErredIs
  <2> QED  BY <1>3, <1>4, <2>2, ErredWhole
<1>6. PhaseOf(dom', stack', phase')
  <2>1. Len(stack) \in Nat /\ Len(stack') = Len(stack) - 1
    BY <1>2, <1>4, StackIs
  <2>2. phase' = IF Len(stack) = 2 THEN "done" ELSE "failed"
    BY DEF Unwind
  <2>3. CASE Len(stack) = 2
    BY <2>1, <2>2, <2>3 DEF PhaseOf
  <2>4. CASE Len(stack) # 2
    <3>1. Len(stack') >= 2
      BY <1>1, <2>1, <2>4
    <3> QED  BY <2>2, <2>4, <3>1 DEF PhaseOf
  <2> QED  BY <2>3, <2>4
<1> QED  BY <1>5, <1>6 DEF WholeInv

\* At the start there is the document alone.
LEMMA WholeInit == ParseInit => WholeInv
<1> SUFFICES ASSUME ParseInit  PROVE WholeInv
  OBVIOUS
<1>1. PICK d \in Node : dom = NewNode(NoTree, d, "document", "") /\ stack = <<d>>
  BY DEF ParseInit
<1>2. phase = "content"
  BY DEF ParseInit
<1>3. /\ dom \in Trees
      /\ dom.kind = [n \in Node |-> IF n = d THEN "document" ELSE "free"]
      /\ dom.parent = [n \in Node |-> Nil] /\ dom.first = [n \in Node |-> Nil]
      /\ dom.last = [n \in Node |-> Nil] /\ dom.prev = [n \in Node |-> Nil]
      /\ dom.next = [n \in Node |-> Nil]
  BY <1>1 DEF NewNode, NoTree, Trees, Kinds, Maybe
<1>4. stack \in Seq(Node) /\ Len(stack) = 1 /\ stack[1] = d /\ Last(stack) = d
  <2>1. stack = <<d>>
    BY <1>1, Zenon
  <2> QED  BY <2>1 DEF Last
<1>5. d \in Stacked(stack)
  BY <1>4 DEF Stacked
<1>6. Nested(dom, stack)
  BY <1>3, <1>4, <1>5 DEF Nested
<1>7. Sound(Rooted(dom, stack))
  <2> DEFINE R == Rooted(dom, stack)
  <2>1. /\ R \in Trees /\ R.kind = dom.kind /\ R.first = dom.first
        /\ R.last = dom.last /\ R.prev = dom.prev /\ R.next = dom.next
        /\ R.parent = [m \in Node |-> IF m \in Stacked(stack) THEN Nil ELSE dom.parent[m]]
    BY <1>3, RootedIs
  <2>2. R.parent = [m \in Node |-> Nil]
    BY <1>3, <2>1
  <2> HIDE DEF R
  <2>3. \A n \in Node : WellLinked(R, n) /\ NoDangling(R, n)
    BY <1>3, <2>1, <2>2 DEF WellLinked, NoDangling
  <2>4. Even(R)
    BY <1>3, <2>1 DEF Even
  <2>5. Grounded(R.parent) /\ Grounded(R.prev)
    BY <1>3, <2>1, <2>2, NilAssumption DEF Grounded
  <2> QED  BY <2>1, <2>3, <2>4, <2>5 DEF Sound, Linked, R
<1>8. PhaseOf(dom, stack, phase)
  BY <1>2, <1>3, <1>4 DEF PhaseOf
<1> QED  BY <1>3, <1>6, <1>7, <1>8 DEF Whole, WholeInv

\* Every step leaves the tree whole.
LEMMA WholeStep == WholeInv /\ [ParseNext]_xvars => WholeInv'
<1> SUFFICES ASSUME WholeInv, [ParseNext]_xvars  PROVE WholeInv'
  OBVIOUS
<1>1. CASE UNCHANGED xvars
  BY <1>1 DEF xvars, WholeInv
<1>2. CASE Reveal
  BY <1>2, RevealWhole
<1>3. CASE Identify
  BY <1>3, IdentifyWhole
<1>4. CASE ReadText
  BY <1>4, ReadTextWhole
<1>5. CASE DocumentEnds
  BY <1>5, DocumentEndsWhole
<1>6. CASE LeafScan \/ LeafEof
  BY <1>6, LeafWhole
<1>7. CASE Attribute \/ EmptyTag \/ StartTag \/ BadTag
  BY <1>7, TagWhole
<1>8. CASE EndTag \/ NoEndTag
  BY <1>8, EndTagWhole
<1>9. CASE Unwind
  BY <1>9, UnwindWhole
<1> QED  BY <1>1, <1>2, <1>3, <1>4, <1>5, <1>6, <1>7, <1>8, <1>9 DEF ParseNext

\* TiXmlDocument::Parse loses no node: one whose Parse has returned, with an error too,
\* is among the children of its parent, for every document and every number of nodes.
THEOREM NoNodeIsLost == ParseSpec => []NoNodeLost
<1>1. WholeInv => NoNodeLost
  BY WholeLosesNone DEF WholeInv, NoNodeLost
<1>2. ParseInit => WholeInv
  BY WholeInit
<1>3. WholeInv /\ [ParseNext]_xvars => WholeInv'
  BY WholeStep
<1> QED  BY <1>1, <1>2, <1>3, PTL DEF ParseSpec

-----------------------------------------------------------------------------
(* The parser and the reference scan.                                      *)

NoErrorIn(T) == \A n \in Node : ~T.error[n]

\* The elements on the stack.
Depth(T, st) == IF T.kind[Last(st)] = "leaf" THEN Len(st) - 2 ELSE Len(st) - 1

\* The scan has open what the stack holds, and has put something out once there is a node.
Matches(a, T, st) ==
    /\ a \in Scanned /\ NoErrorIn(T)
    /\ Len(a.open) = Depth(T, st)
    /\ \A j \in 1 .. Depth(T, st) : a.open[j] = T.name[st[j + 1]]
    /\ a.out = << >> <=> (Len(st) = 1 /\ T.first[st[1]] = Nil)

\* Its mode is the parser's phase.
ModeOf(a, T, st, ph, d, i, at) ==
    /\ ph \in {"content", "tag", "leaf"}
    /\ ph = "content" =>
         \/ a.mode = "content"
         \/ a.mode = "text" /\ i <= Len(d) /\ IsHead(d[i]) /\ T.kind[Last(st)] = "element"
         \/ a.mode \in LeafNames \ {"text"} /\ i <= Len(d) /\ d[i] = Eof /\ a.out # << >>
    /\ ph = "tag" => a.mode = "tag" /\ a.had = Range(at[Last(st)])
    /\ ph = "leaf" =>
         /\ a.mode = T.name[Last(st)]
         /\ a.mode = "text" => Len(st) > 2 /\ i > 1 /\ ~IsHead(d[i - 1])

\* Names are a function on the nodes.
LEMMA NamesOf ==
  ASSUME NEW T \in Trees
  PROVE  T.name = [n \in Node |-> T.name[n]]
<1>1. T.name \in [Node -> Name \union {""}]
  BY DEF Trees
<1> QED  BY <1>1, Zenon

\* They agree at the start.
LEMMA StartMatches ==
  ASSUME ParseInit
  PROVE  Matches(Start, dom, stack) /\ Start.mode = "content"
<1>1. PICK d \in Node : dom = NewNode(NoTree, d, "document", "") /\ stack = <<d>>
  BY DEF ParseInit
<1>2. /\ dom.kind = [n \in Node |-> IF n = d THEN "document" ELSE "free"]
      /\ dom.first = [n \in Node |-> Nil] /\ dom.error = [n \in Node |-> FALSE]
  BY <1>1 DEF NewNode, NoTree
<1>3. stack \in Seq(Node) /\ Len(stack) = 1 /\ stack[1] = d /\ Last(stack) = d
  <2>1. stack = <<d>>
    BY <1>1, Zenon
  <2> QED  BY <2>1 DEF Last
<1>4. Start \in Scanned /\ Start.open = << >> /\ Start.out = << >> /\ Start.mode = "content"
  BY DEF Start, Scanned, Modes
<1>5. Depth(dom, stack) = 0
  BY <1>2, <1>3 DEF Depth
<1>6. NoErrorIn(dom)
  BY <1>2 DEF NoErrorIn
<1> QED  BY <1>2, <1>3, <1>4, <1>5, <1>6 DEF Matches

\* How many elements are open.
LEMMA DepthIs ==
  ASSUME NEW T, NEW st, Nested(T, st)
  PROVE  /\ Depth(T, st) \in Nat
         /\ \A j \in 1 .. Depth(T, st) : j + 1 \in 1 .. Len(st)
         /\ T.kind[Last(st)] = "element" => Depth(T, st) # 0 /\ st[Depth(T, st) + 1] = Last(st)
         /\ T.kind[Last(st)] = "document" => Depth(T, st) = 0 /\ Len(st) = 1
         /\ T.kind[Last(st)] = "leaf" => Len(st) >= 2 /\ Depth(T, st) = Len(st) - 2
         /\ T.kind[Last(st)] # "leaf" => Depth(T, st) = Len(st) - 1
<1>1. Len(st) \in Nat /\ Len(st) >= 1 /\ Last(st) = st[Len(st)] /\ Last(st) \in Node
  BY StackIs
<1>2. T.kind[Last(st)] # "document" => Len(st) >= 2
  <2>1. Len(st) = 1 => T.kind[Last(st)] = "document"
    BY <1>1 DEF Nested
  <2>2. \A n \in Nat : n >= 1 /\ n # 1 => n >= 2
    OBVIOUS
  <2> QED  BY <1>1, <2>1, <2>2
<1>3. T.kind[Last(st)] = "document" => Len(st) = 1
  <2>1. ASSUME T.kind[Last(st)] = "document"  PROVE Len(st) = 1
    <3>1. Last(st) = st[1]
      BY <1>1, <2>1 DEF Nested
    <3>2. 1 \in 1 .. Len(st) /\ Len(st) \in 1 .. Len(st)
      BY <1>1
    <3> QED  BY <1>1, <3>1, <3>2 DEF Nested
  <2> QED  BY <2>1
<1> QED  BY <1>1, <1>2, <1>3 DEF Depth

\* An element begins.
LEMMA ElementMatches ==
  ASSUME NEW T, NEW st, Whole(T, st), NEW n, NEW v \in Tag, MayBegin(T, st, n, "element", v, Last(st)),
         NEW a, Matches(a, T, st), NEW b \in Scanned, b.open = Append(a.open, v), b.out # << >>
  PROVE  Matches(b, Begun(T, n, "element", v, Last(st)), Append(st, n))
<1> DEFINE U == Begun(T, n, "element", v, Last(st))
           su == Append(st, n)
           k == "element"
<1>1. T \in Trees /\ Nested(T, st)
  BY DEF Whole
<1>2. Len(st) \in Nat /\ Len(st) >= 1 /\ Last(st) \in Node /\ \A i \in 1 .. Len(st) : st[i] \in Node
  BY <1>1, StackIs
<1>3. T.kind[Last(st)] # "leaf" /\ n \in Node /\ T.kind[n] = "free"
  BY DEF MayBegin
<1>4. /\ su \in Seq(Node) /\ Len(su) = Len(st) + 1
      /\ \A i \in 1 .. Len(st) : su[i] = st[i]
      /\ su[Len(st) + 1] = n
  BY <1>1, <1>3, PushIs DEF Nested
<1>5. BegunAs(T, U, n, k, v, Last(st))
  BY <1>1, <1>2, BegunFields
<1> HIDE DEF U, su
<1>6. Last(su) = n /\ U.kind[n] = "element" /\ U.name[n] = v /\ U.error = T.error
  BY <1>1, <1>3, <1>4, <1>5, TreeFields DEF BegunAs, Last, Trees
<1>7. Depth(U, su) = Len(st) /\ Depth(T, st) = Len(st) - 1
  BY <1>2, <1>3, <1>4, <1>6 DEF Depth
<1>8. \A i \in 1 .. Len(st) : st[i] # n
  <2>1. \A i \in 1 .. Len(st) : i = 1 \/ i \in 2 .. Len(st)
    BY <1>2
  <2> QED  BY <1>1, <1>2, <1>3, <2>1 DEF Nested
<1>9. a.open \in Seq(Tag) /\ Len(a.open) = Len(st) - 1 /\ \A j \in 1 .. Len(st) - 1 : a.open[j] = T.name[st[j + 1]]
  BY <1>7 DEF Matches, Scanned
<1>10. Len(b.open) = Len(st) /\ b.open[Len(st)] = v /\ \A j \in 1 .. Len(st) - 1 : b.open[j] = a.open[j]
  BY <1>2, <1>9
<1>11. ASSUME NEW j \in 1 .. Len(st)  PROVE b.open[j] = U.name[su[j + 1]]
  <2>1. CASE j = Len(st)
    BY <1>4, <1>6, <1>10, <2>1
  <2>2. CASE j # Len(st)
    <3>1. j \in 1 .. Len(st) - 1 /\ j + 1 \in 1 .. Len(st)
      BY <1>2, <2>2
    <3>2. su[j + 1] = st[j + 1] /\ st[j + 1] # n /\ st[j + 1] \in Node
      BY <1>2, <1>4, <1>8, <3>1
    <3>3. U.name[st[j + 1]] = T.name[st[j + 1]]
      BY <1>1, <1>5, <3>2, NamesOf DEF BegunAs
    <3> QED  BY <1>9, <1>10, <3>1, <3>2, <3>3
  <2> QED  BY <2>1, <2>2
<1>12. Len(su) # 1
  BY <1>2, <1>4
<1>13. NoErrorIn(U)
  BY <1>6 DEF Matches, NoErrorIn
<1>14. Matches(b, U, su)
  BY <1>7, <1>10, <1>11, <1>12, <1>13 DEF Matches
<1> QED  BY <1>14 DEF U, su

\* A leaf begins.
LEMMA LeafMatches ==
  ASSUME NEW T, NEW st, Whole(T, st), NEW n, NEW v, NEW par, MayBegin(T, st, n, "leaf", v, par),
         NEW a, Matches(a, T, st), NEW b \in Scanned, b.open = a.open, b.out # << >>
  PROVE  Matches(b, Begun(T, n, "leaf", v, par), Append(st, n))
<1> DEFINE k == "leaf"
           U == Begun(T, n, "leaf", v, par)
           su == Append(st, n)
<1>1. T \in Trees /\ Nested(T, st)
  BY DEF Whole
<1>2. Len(st) \in Nat /\ Len(st) >= 1 /\ Last(st) \in Node /\ \A i \in 1 .. Len(st) : st[i] \in Node
  BY <1>1, StackIs
<1>3. T.kind[Last(st)] # "leaf" /\ n \in Node /\ T.kind[n] = "free"
  BY DEF MayBegin
<1>4. /\ su \in Seq(Node) /\ Len(su) = Len(st) + 1
      /\ \A i \in 1 .. Len(st) : su[i] = st[i]
      /\ su[Len(st) + 1] = n
  BY <1>1, <1>3, PushIs DEF Nested
<1>5. BegunAs(T, U, n, k, v, par)
  BY <1>1, <1>2, BegunFields
<1> HIDE DEF U, su
<1>6. Last(su) = n /\ U.kind[n] = "leaf" /\ U.error = T.error
  BY <1>1, <1>3, <1>4, <1>5, TreeFields DEF BegunAs, Last
<1>7. Depth(U, su) = Len(st) - 1 /\ Depth(T, st) = Len(st) - 1
  BY <1>2, <1>3, <1>4, <1>6 DEF Depth
<1>8. \A i \in 1 .. Len(st) : st[i] # n
  <2>1. \A i \in 1 .. Len(st) : i = 1 \/ i \in 2 .. Len(st)
    BY <1>2
  <2> QED  BY <1>1, <1>2, <1>3, <2>1 DEF Nested
<1>9. Len(a.open) = Len(st) - 1 /\ \A j \in 1 .. Len(st) - 1 : a.open[j] = T.name[st[j + 1]]
  BY <1>7 DEF Matches
<1>11. ASSUME NEW j \in 1 .. Len(st) - 1  PROVE b.open[j] = U.name[su[j + 1]]
  <3>1. j + 1 \in 1 .. Len(st)
    BY <1>2
  <3>2. su[j + 1] = st[j + 1] /\ st[j + 1] # n /\ st[j + 1] \in Node
    BY <1>2, <1>4, <1>8, <3>1
  <3>3. U.name[st[j + 1]] = T.name[st[j + 1]]
    BY <1>1, <1>5, <3>2, NamesOf DEF BegunAs
  <3> QED  BY <1>9, <3>1, <3>2, <3>3
<1>12. Len(su) # 1
  BY <1>2, <1>4
<1>13. NoErrorIn(U)
  BY <1>6 DEF Matches, NoErrorIn
<1>14. Matches(b, U, su)
  BY <1>7, <1>9, <1>11, <1>12, <1>13 DEF Matches
<1> QED  BY <1>14 DEF U, su

\* The innermost node ends.
LEMMA LinkedMatches ==
  ASSUME NEW T, NEW st, Whole(T, st), Len(st) >= 2, NEW a, Matches(a, T, st), NEW b \in Scanned,
         b.open = IF T.kind[Last(st)] = "element" THEN Front(a.open) ELSE a.open, b.out # << >>
  PROVE  Matches(b, LinkEndChild(T, st[Len(st) - 1], Last(st)), Front(st))
<1> DEFINE u == st[Len(st) - 1]
           n == Last(st)
           f == Front(st)
           U == LinkEndChild(T, u, n)
           N == Len(st)
<1>1. T \in Trees /\ Nested(T, st) /\ Sound(Rooted(T, st))
  BY DEF Whole
<1>2. /\ u \in Node /\ u # n /\ Last(f) = u
      /\ T.kind[u] \in {"document", "element"} /\ T.kind[n] \in {"element", "leaf"}
  BY <1>1, UpIs
<1>3. /\ N \in Nat /\ N >= 2 /\ n \in Node /\ \A i \in 1 .. N : st[i] \in Node
      /\ f \in Seq(Node) /\ Len(f) = N - 1
      /\ \A i \in 1 .. N - 1 : f[i] = st[i]
  BY <1>1, StackIs
<1>4. /\ T.kind[n] = "element" => Depth(T, st) = N - 1
      /\ T.kind[n] = "leaf" => Depth(T, st) = N - 2
  BY DEF Depth
<1> HIDE DEF u, n, f, N
<1>5. EndLinked(T, U, u, n)
  BY <1>1, <1>2, <1>3, EndLinkedIs
<1> HIDE DEF U
<1>6. U.kind = T.kind /\ U.name = T.name /\ U.error = T.error
  BY <1>5 DEF EndLinked
<1>7. Depth(U, f) = N - 2
  BY <1>2, <1>3, <1>6 DEF Depth
<1>8. Len(b.open) = N - 2 /\ \A j \in 1 .. N - 2 : b.open[j] = a.open[j]
  <2>1. a.open \in Seq(Tag) /\ Len(a.open) = Depth(T, st)
    BY DEF Matches, Scanned
  <2>2. CASE T.kind[n] = "leaf"
    <3>1. b.open = a.open
      BY <2>2 DEF n
    <3> QED  BY <1>4, <2>1, <2>2, <3>1
  <2>3. CASE T.kind[n] = "element"
    <3>1. b.open = Front(a.open)
      BY <2>3 DEF n
    <3>2. Len(a.open) = N - 1 /\ a.open # << >>
      BY <1>3, <1>4, <2>1, <2>3
    <3>3. Len(Front(a.open)) = Len(a.open) - 1 /\ \A i \in 1 .. Len(a.open) - 1 : Front(a.open)[i] = a.open[i]
      BY <2>1, <3>2, FrontOf
    <3> QED  BY <1>3, <3>1, <3>2, <3>3
  <2> QED  BY <1>2, <2>2, <2>3
<1>9. ASSUME NEW j \in 1 .. N - 2  PROVE b.open[j] = U.name[f[j + 1]]
  <2>1. j + 1 \in 1 .. N - 1 /\ j \in 1 .. Depth(T, st)
    BY <1>2, <1>3, <1>4
  <2>2. a.open[j] = T.name[st[j + 1]]
    BY <2>1 DEF Matches
  <2> QED  BY <1>3, <1>6, <1>8, <2>1, <2>2
<1>10. Len(f) = 1 => U.first[f[1]] # Nil
  <2> SUFFICES ASSUME Len(f) = 1  PROVE U.first[f[1]] # Nil
    OBVIOUS
  <2>1. f[1] = u
    BY <1>2 DEF Last
  <2>2. U.first[u] = IF T.last[u] = Nil THEN n ELSE T.first[u]
    BY <1>1, <1>2, <1>5, TreeFields DEF EndLinked
  <2>3. T.first[u] = Nil <=> T.last[u] = Nil
    <3>1. Rooted(T, st).first = T.first /\ Rooted(T, st).last = T.last
      BY <1>1, RootedIs
    <3> QED  BY <1>1, <1>2, <3>1 DEF Sound, Even
  <2> QED  BY <1>3, <2>1, <2>2, <2>3, NilAssumption
<1>11. NoErrorIn(U)
  BY <1>6 DEF Matches, NoErrorIn
<1>12. Matches(b, U, f)
  BY <1>7, <1>8, <1>9, <1>10, <1>11 DEF Matches
<1> QED  BY <1>12 DEF U, u, n, f

\* The tree stays.
LEMMA SameMatches ==
  ASSUME NEW T, NEW st, Len(st) # 1, NEW a, Matches(a, T, st), NEW b \in Scanned,
         b.open = a.open, b.out # << >>
  PROVE  Matches(b, T, st)
  BY DEF Matches

\* The nodes counted.
LEMMA LiveFinite ==
  ASSUME NEW T
  PROVE  Cardinality(Live(T)) \in Nat /\ IsFiniteSet(Live(T))
<1>1. Live(T) \subseteq Node
  BY DEF Live
<1>2. IsFiniteSet(Live(T))
  BY <1>1, NodeAssumption, FS_Subset
<1> QED  BY <1>2, FS_CardinalityType

\* One node more.
LEMMA BegunLive ==
  ASSUME NEW T \in Trees, NEW st, NEW n, NEW k, NEW v, NEW par,
         MayBegin(T, st, n, k, v, par), Last(st) \in Node
  PROVE  /\ Cardinality(Live(Begun(T, n, k, v, par))) = Cardinality(Live(T)) + 1
         /\ Free(Begun(T, n, k, v, par)) \subseteq Free(T)
<1> DEFINE U == Begun(T, n, k, v, par)
<1>1. BegunAs(T, U, n, k, v, par) /\ n \in Node /\ T.kind[n] = "free" /\ k \in {"element", "leaf"}
  BY BegunFields DEF MayBegin
<1> HIDE DEF U
<1>2. U.kind[n] = k /\ \A m \in Node : m # n => U.kind[m] = T.kind[m]
  BY <1>1, TreeFields DEF BegunAs
<1>3. Live(U) = Live(T) \union {n} /\ n \notin Live(T) /\ Free(U) \subseteq Free(T)
  BY <1>1, <1>2 DEF Live, Free
<1>4. Cardinality(Live(T) \union {n}) = Cardinality(Live(T)) + 1
  BY <1>3, LiveFinite, FS_AddElement
<1> QED  BY <1>3, <1>4 DEF U

\* Nodes are counted by their kinds.
LEMMA SameLive ==
  ASSUME NEW T, NEW U, U.kind = T.kind
  PROVE  Live(U) = Live(T) /\ Free(U) = Free(T)
  BY DEF Live, Free

DocInv ==
    /\ doc \in Seq(Token \union {Eof}) /\ p \in 1 .. Len(doc) + 1
    /\ \A i \in 1 .. Len(doc) : i # Len(doc) => doc[i] # Eof
    /\ attrs \in [Node -> Seq(Attr)]
    /\ \A n \in Free(dom) : attrs[n] = << >>

\* The reference scan where the parser is, and at the end of what is revealed.
Here == At(doc, p - 1)
Over == At(doc, Len(doc))

EofSeen == Len(doc) # 0 /\ doc[Len(doc)] = Eof

Following ==
    /\ Matches(Here, dom, stack) /\ ModeOf(Here, dom, stack, phase, doc, p, attrs)
    /\ Cardinality(Live(dom)) <= p

\* A text at the end of the document is found again and again.
Endless ==
    /\ Over.mode = "endless" /\ EofSeen
    /\ \/ /\ phase = "content" /\ InElement /\ p = Len(doc) - 1 /\ ~IsHead(doc[p])
       \/ /\ phase = "leaf" /\ dom.name[Top] = "text" /\ p = Len(doc) /\ Len(stack) > 2
          /\ p > 1 /\ ~IsHead(doc[p - 1])

\* Null is on its way up, with an error or, from a declaration, without one yet.
Failed ==
    /\ phase = "failed" /\ Cardinality(Live(dom)) <= p
    /\ \/ ~NoErrorIn(dom) /\ Over.mode = "bad"
       \/ /\ NoErrorIn(dom) /\ dom.kind[Top] = "leaf" /\ EofSeen
          /\ Over.mode = IF Len(stack) = 2 THEN "end" ELSE "bad"

Done ==
    /\ phase = "done" /\ Cardinality(Live(dom)) <= p
    /\ Over.mode \in {"bad", "end"}
    /\ Over.mode = "bad" <=> ~NoErrorIn(dom)

ScanInv == Following \/ Endless \/ Failed \/ Done

ParseInv == WholeInv /\ DocInv /\ ScanInv /\ lexicon \in Lexicons

\* Where p may be.
LEMMA DocIs ==
  ASSUME DocInv
  PROVE  /\ Len(doc) \in Nat /\ p \in Nat /\ p >= 1 /\ p - 1 \in 0 .. Len(doc)
         /\ p > 1 => p - 1 \in 1 .. Len(doc) + 1
  BY DEF DocInv

\* The token at p.
LEMMA LookIs ==
  ASSUME DocInv, p <= Len(doc)
  PROVE  /\ At(doc, p) = Step(Here, doc[p])
         /\ p \in 1 .. Len(doc) /\ p + 1 \in 1 .. Len(doc) + 1 /\ (p + 1) - 1 = p
         /\ doc[p] \in Token \union {Eof}
         /\ doc[p] = Eof => p = Len(doc)
<1>1. doc \in Seq(Token \union {Eof}) /\ Len(doc) \in Nat /\ p \in 1 .. Len(doc)
  BY DEF DocInv
<1>2. At(doc, p) = Step(Here, doc[p])
  BY <1>1, ScanSteps DEF Here
<1>3. doc[p] \in Token \union {Eof}
  BY <1>1
<1>4. doc[p] = Eof => p = Len(doc)
  BY <1>1 DEF DocInv
<1> QED  BY <1>1, <1>2, <1>3, <1>4

\* The token after that.
LEMMA NextIs ==
  ASSUME DocInv, p < Len(doc)
  PROVE  /\ At(doc, p + 1) = Step(At(doc, p), doc[p + 1])
         /\ p + 1 \in 1 .. Len(doc) /\ p + 2 \in 1 .. Len(doc) + 1 /\ (p + 2) - 1 = p + 1
         /\ doc[p + 1] \in Token \union {Eof}
<1>1. doc \in Seq(Token \union {Eof}) /\ Len(doc) \in Nat /\ p + 1 \in 1 .. Len(doc) /\ p \in Nat /\ (p + 1) - 1 = p
  BY DEF DocInv
<1>2. At(doc, p + 1) = Step(At(doc, p), doc[p + 1])
  <2>1. At(doc, p + 1) = Step(At(doc, (p + 1) - 1), doc[p + 1])
    BY <1>1, ScanSteps
  <2> QED  BY <1>1, <2>1
<1>3. doc[p + 1] \in Token \union {Eof}
  BY <1>1
<1> QED  BY <1>1, <1>2, <1>3

\* Where the scan is over it stays.
LEMMA OverAt ==
  ASSUME DocInv, NEW n \in 0 .. Len(doc), At(doc, n).mode \in {"bad", "end"}
  PROVE  Over = At(doc, n)
<1>1. doc \in Seq(Token \union {Eof})
  BY DEF DocInv
<1> QED  BY <1>1, ScanOver DEF Over

\* The end is the last token.
LEMMA EofLast ==
  ASSUME DocInv, p <= Len(doc), doc[p] = Eof
  PROVE  EofSeen /\ p = Len(doc) /\ Over = Step(Here, Eof)
<1>1. p = Len(doc) /\ At(doc, p) = Step(Here, doc[p]) /\ p >= 1
  BY LookIs
<1> QED  BY <1>1 DEF EofSeen, Over

\* What the scan has open and the node whose Parse runs.
LEMMA OpenTop ==
  ASSUME NEW T, NEW st, Nested(T, st), NEW a, Matches(a, T, st)
  PROVE  /\ a.open \in Seq(Tag) /\ a \in Scanned
         /\ T.kind[Last(st)] = "element" => a.open # << >> /\ Last(a.open) = T.name[Last(st)]
         /\ T.kind[Last(st)] = "document" => a.open = << >> /\ Len(st) = 1 /\ Last(st) = st[1]
         /\ T.kind[Last(st)] = "leaf" => (a.open = << >> <=> Len(st) = 2)
         /\ Len(st) # 1 => a.out # << >>
         /\ Len(st) \in Nat
<1>1. a.open \in Seq(Tag) /\ a \in Scanned /\ Len(a.open) = Depth(T, st)
  BY DEF Matches, Scanned
<1>2. /\ Depth(T, st) \in Nat
      /\ T.kind[Last(st)] = "element" => Depth(T, st) # 0 /\ st[Depth(T, st) + 1] = Last(st)
      /\ T.kind[Last(st)] = "document" => Depth(T, st) = 0 /\ Len(st) = 1
      /\ T.kind[Last(st)] = "leaf" => Len(st) >= 2 /\ Depth(T, st) = Len(st) - 2
  BY DepthIs
<1>3. Len(st) \in Nat /\ Last(st) = st[Len(st)]
  BY StackIs
<1>4. T.kind[Last(st)] = "element" => a.open # << >> /\ Last(a.open) = T.name[Last(st)]
  <2> SUFFICES ASSUME T.kind[Last(st)] = "element"
               PROVE  a.open # << >> /\ Last(a.open) = T.name[Last(st)]
    OBVIOUS
  <2> DEFINE D == Depth(T, st)
  <2>1. D \in 1 .. D /\ st[D + 1] = Last(st) /\ D # 0
    BY <1>2
  <2>2. a.open[D] = T.name[st[D + 1]]
    BY <2>1 DEF Matches
  <2> HIDE DEF D
  <2>3. a.open # << >> /\ Last(a.open) = a.open[D]
    BY <1>1, <2>1 DEF Last, D
  <2> QED  BY <2>1, <2>2, <2>3
<1>5. Len(a.open) = 0 <=> a.open = << >>
  BY <1>1
<1>6. Len(st) # 1 => a.out # << >>
  BY DEF Matches
<1>7. T.kind[Last(st)] = "leaf" => (a.open = << >> <=> Len(st) = 2)
  <2>1. \A n \in Nat : n - 2 = 0 <=> n = 2
    OBVIOUS
  <2> QED  BY <1>1, <1>2, <1>3, <1>5, <2>1
<1>8. T.kind[Last(st)] = "document" => a.open = << >> /\ Len(st) = 1 /\ Last(st) = st[1]
  BY <1>1, <1>2, <1>3, <1>5
<1> QED  BY <1>1, <1>3, <1>4, <1>6, <1>7, <1>8

\* The document stays as it is known.
LEMMA DocSame ==
  ASSUME DocInv, doc' = doc, attrs' = attrs, p' \in 1 .. Len(doc) + 1, Free(dom') \subseteq Free(dom)
  PROVE  DocInv'
  BY DEF DocInv

\* The parser follows the scan to where it has come.
LEMMA FollowingNext ==
  ASSUME doc' = doc, NEW n, p' - 1 = n,
         Matches(At(doc, n), dom', stack'), ModeOf(At(doc, n), dom', stack', phase', doc, p', attrs'),
         Cardinality(Live(dom')) <= p'
  PROVE  Following'
  BY DEF Following, Here

\* What the tree and the stack are.
LEMMA TypesOf ==
  ASSUME WholeInv
  PROVE  /\ Whole(dom, stack) /\ Nested(dom, stack) /\ dom \in Trees
         /\ Last(stack) \in Node /\ Len(stack) \in Nat /\ Len(stack) >= 1 /\ stack \in Seq(Node)
         /\ dom.kind[Last(stack)] \in {"document", "element", "leaf"}
         /\ Cardinality(Live(dom)) \in Nat
<1>1. Whole(dom, stack) /\ Nested(dom, stack) /\ dom \in Trees
  BY DEF WholeInv, Whole
<1>2. Last(stack) \in Node /\ Len(stack) \in Nat /\ Len(stack) >= 1 /\ Last(stack) = stack[Len(stack)]
  BY <1>1, StackIs
<1>3. dom.kind[Last(stack)] \in {"document", "element", "leaf"}
  <2>1. Len(stack) = 1 \/ Len(stack) \in 2 .. Len(stack)
    BY <1>2
  <2> QED  BY <1>1, <1>2, <2>1 DEF Nested
<1>4. Cardinality(Live(dom)) \in Nat
  BY LiveFinite
<1>5. stack \in Seq(Node)
  BY <1>1 DEF Nested
<1> QED  BY <1>1, <1>2, <1>3, <1>4, <1>5

\* A node begins.
BeginsAs(n, k, v, par, next) ==
    /\ MayBegin(dom, stack, n, k, v, par) /\ dom' = Begun(dom, n, k, v, par)
    /\ stack' = Append(stack, n) /\ Last(stack') = n /\ Len(stack') = Len(stack) + 1
    /\ phase' = next /\ doc' = doc /\ p' = p + 1 /\ attrs' = attrs /\ attrs[n] = << >>
    /\ dom'.kind[n] = k /\ dom'.name[n] = v
    /\ Cardinality(Live(dom')) = Cardinality(Live(dom)) + 1

\* What Begin does to them.
LEMMA BeginDoes ==
  ASSUME WholeInv, DocInv, p <= Len(doc), NEW k, NEW v \in Name, NEW par, NEW next,
         Begin(k, v, par, next), dom.kind[Last(stack)] # "leaf",
         (k = "element" /\ par = Last(stack)) \/ (k = "leaf" /\ par \in Maybe)
  PROVE  DocInv' /\ \E n \in Node : BeginsAs(n, k, v, par, next)
<1>1. dom \in Trees /\ Last(stack) \in Node /\ stack \in Seq(Node)
  BY TypesOf
<1>2. PICK n \in Node :
        /\ dom.kind[n] = "free"
        /\ dom' = Begun(dom, n, k, v, par) /\ stack' = Append(stack, n) /\ phase' = next
        /\ p' = p + 1 /\ doc' = doc /\ attrs' = attrs
  BY BeginGives DEF BeginIs
<1>3. MayBegin(dom, stack, n, k, v, par)
  BY <1>2 DEF MayBegin
<1>4. BegunAs(dom, dom', n, k, v, par)
  BY <1>1, <1>2, <1>3, BegunFields
<1>5. Last(stack') = n /\ Len(stack') = Len(stack) + 1
  <2>1. /\ stack' \in Seq(Node) /\ Len(stack') = Len(stack) + 1 /\ Len(stack) \in Nat
        /\ stack'[Len(stack) + 1] = n
    BY <1>1, <1>2, PushIs
  <2> QED  BY <2>1 DEF Last
<1>6. dom'.kind[n] = k /\ dom'.name[n] = v
  BY <1>1, <1>4, TreeFields DEF BegunAs, Trees
<1>7. Cardinality(Live(dom')) = Cardinality(Live(dom)) + 1 /\ Free(dom') \subseteq Free(dom)
  BY <1>1, <1>2, <1>3, BegunLive
<1>8. attrs[n] = << >>
  BY <1>2 DEF DocInv, Free
<1>9. p + 1 \in 1 .. Len(doc) + 1
  BY LookIs
<1>10. DocInv'
  BY <1>2, <1>7, <1>9, DocSame
<1> QED  BY <1>2, <1>3, <1>5, <1>6, <1>7, <1>8, <1>10 DEF BeginsAs

\* The innermost node is linked: where the parser and the scan are then.
LEMMA FinishDoes ==
  ASSUME WholeInv, DocInv, NEW k, Finish(k), p + k \in 1 .. Len(doc) + 1,
         dom.kind[Last(stack)] # "document"
  PROVE  /\ DocInv' /\ Len(stack) >= 2 /\ Len(stack) \in Nat
         /\ dom' = LinkEndChild(dom, stack[Len(stack) - 1], Last(stack)) /\ stack' = Front(stack)
         /\ phase' = "content" /\ p' = p + k /\ doc' = doc /\ attrs' = attrs
         /\ Live(dom') = Live(dom) /\ Len(stack') = Len(stack) - 1
         /\ dom'.kind[Last(stack')] = IF Len(stack) = 2 THEN "document" ELSE "element"
<1>1. Whole(dom, stack) /\ Nested(dom, stack) /\ dom \in Trees /\ Last(stack) \in Node
  BY TypesOf
<1>2. Len(stack) >= 2 /\ Len(stack) \in Nat
  BY NotAlone
<1>3. /\ dom' = LinkEndChild(dom, stack[Len(stack) - 1], Last(stack)) /\ stack' = Front(stack)
      /\ phase' = "content" /\ p' = p + k /\ doc' = doc /\ attrs' = attrs
  BY DEF Finish, Up, Top
<1> DEFINE u == stack[Len(stack) - 1]
<1>4. u \in Node /\ Last(stack') = u
  BY <1>1, <1>2, <1>3, UpIs
<1>5. dom.kind[u] = IF Len(stack) = 2 THEN "document" ELSE "element"
  <2>1. CASE Len(stack) = 2
    <3>1. u = stack[1]
      BY <2>1
    <3> QED  BY <1>1, <1>4, <2>1, <3>1 DEF Nested
  <2>2. CASE Len(stack) # 2
    <3>0. \A n \in Nat : n >= 2 /\ n # 2 => n - 1 \in 2 .. n /\ n - 1 # n
      OBVIOUS
    <3>1. Len(stack) - 1 \in 2 .. Len(stack) /\ Len(stack) - 1 # Len(stack)
      BY <1>2, <2>2, <3>0
    <3> QED  BY <1>1, <2>2, <3>1 DEF Nested
  <2> QED  BY <2>1, <2>2
<1>6. Len(stack') = Len(stack) - 1
  BY <1>1, <1>3, StackIs
<1> HIDE DEF u
<1>7. EndLinked(dom, dom', u, Last(stack))
  BY <1>1, <1>3, <1>4, EndLinkedIs DEF u
<1>8. dom'.kind = dom.kind
  BY <1>7 DEF EndLinked
<1>9. Live(dom') = Live(dom) /\ Free(dom') = Free(dom)
  BY <1>8, SameLive
<1>10. DocInv'
  BY <1>3, <1>9, DocSame
<1> QED  BY <1>2, <1>3, <1>4, <1>5, <1>6, <1>8, <1>9, <1>10

\* Parse returns null, where the scan finds the document bad.
LEMMA FailDoes ==
  ASSUME WholeInv, DocInv, Fail, dom.kind[Last(stack)] = "element",
         Cardinality(Live(dom)) <= p, Over.mode = "bad"
  PROVE  DocInv' /\ ScanInv'
<1>1. Whole(dom, stack) /\ dom \in Trees
  BY TypesOf
<1>2. /\ dom' = SetError(dom, Last(stack)) /\ stack' = stack
      /\ phase' = "failed" /\ p' = p /\ doc' = doc /\ attrs' = attrs
  BY DEF Fail, Top
<1>3. ~NoErrorIn(dom')
  BY <1>1, <1>2, ErrorSet DEF NoErrorIn
<1>4. dom'.kind = dom.kind
  BY <1>1, <1>2, ErredIs DEF Erred
<1>5. Live(dom') = Live(dom) /\ Free(dom') = Free(dom)
  BY <1>4, SameLive
<1>6. DocInv'
  <2>1. p \in 1 .. Len(doc) + 1
    BY DEF DocInv
  <2> QED  BY <1>2, <1>5, <2>1, DocSame
<1>7. Failed'
  BY <1>2, <1>3, <1>5 DEF Failed, Over
<1> QED  BY <1>6, <1>7 DEF ScanInv

-----------------------------------------------------------------------------
(* Each action keeps the parser where the scan is.                         *)

\* In which phase is which part of the invariant.
LEMMA PhasesApart ==
  ASSUME ScanInv
  PROVE  /\ phase = "content" => Following \/ Endless
         /\ phase = "leaf" => Following \/ Endless
         /\ phase = "tag" => Following
         /\ phase = "failed" => Failed
  BY DEF ScanInv, Following, Endless, Failed, Done, ModeOf

\* A token is revealed: what was scanned stays scanned as it was.
LEMMA RevealScan == ParseInv /\ Reveal => DocInv' /\ ScanInv'
<1> SUFFICES ASSUME ParseInv, Reveal  PROVE DocInv' /\ ScanInv'
  OBVIOUS
<1>1. DocInv /\ ScanInv
  BY DEF ParseInv
<1>2. PICK t \in Token \union {Eof} : doc' = Append(doc, t)
  <2>1. lexicon \subseteq Token
    BY LexiconsAssumption DEF ParseInv
  <2> QED  BY <2>1 DEF Reveal
<1>3. dom' = dom /\ p' = p /\ stack' = stack /\ attrs' = attrs /\ phase' = phase
  BY DEF Reveal
<1>4. /\ doc \in Seq(Token \union {Eof}) /\ Len(doc) \in Nat /\ p \in 1 .. Len(doc) + 1
      /\ p - 1 \in 0 .. Len(doc)
  BY <1>1 DEF DocInv
<1>5. /\ doc' \in Seq(Token \union {Eof}) /\ Len(doc') = Len(doc) + 1
      /\ \A i \in 1 .. Len(doc) : doc'[i] = doc[i]
  BY <1>2, <1>4
<1>6. \A i \in 0 .. Len(doc) : At(doc', i) = At(doc, i)
  BY <1>2, <1>4, ScanStays
<1>7. At(doc', Len(doc) + 1) = Step(Over, doc'[Len(doc) + 1])
  <2>1. Len(doc) + 1 \in 1 .. Len(doc') /\ (Len(doc) + 1) - 1 = Len(doc) /\ Len(doc) \in 0 .. Len(doc)
    BY <1>4, <1>5
  <2>2. At(doc', Len(doc) + 1) = Step(At(doc', (Len(doc) + 1) - 1), doc'[Len(doc) + 1])
    BY <1>5, <2>1, ScanSteps
  <2> QED  BY <1>6, <2>1, <2>2 DEF Over
<1>8. ~EofSeen
  <2>1. doc # << >> => Last(doc) # Eof
    BY DEF Reveal
  <2> QED  BY <1>4, <2>1 DEF EofSeen, Last
<1>9. DocInv'
  <2>1. ASSUME NEW i \in 1 .. Len(doc'), i # Len(doc')  PROVE doc'[i] # Eof
    <3>1. i \in 1 .. Len(doc) /\ doc'[i] = doc[i]
      BY <1>4, <1>5, <2>1
    <3>2. CASE i = Len(doc)
      BY <1>8, <3>1, <3>2 DEF EofSeen
    <3>3. CASE i # Len(doc)
      BY <1>1, <3>1, <3>3 DEF DocInv
    <3> QED  BY <3>2, <3>3
  <2>2. p' \in 1 .. Len(doc') + 1
    BY <1>3, <1>4, <1>5
  <2> QED  BY <1>1, <1>3, <1>5, <2>1, <2>2 DEF DocInv
<1>10. CASE Following
  <2>1. At(doc', p - 1) = Here
    BY <1>4, <1>6 DEF Here
  <2>2. \A i \in {p, p - 1} : i >= 1 /\ i <= Len(doc) => i <= Len(doc') /\ doc'[i] = doc[i]
    BY <1>4, <1>5
  <2>3. ModeOf(Here, dom, stack, phase, doc', p, attrs)
    <3>1. /\ phase \in {"content", "tag", "leaf"}
          /\ phase = "tag" => Here.mode = "tag" /\ Here.had = Range(attrs[Last(stack)])
      BY <1>10 DEF Following, ModeOf
    <3>2. ASSUME phase = "content"
          PROVE  \/ Here.mode = "content"
                 \/ Here.mode = "text" /\ p <= Len(doc') /\ IsHead(doc'[p]) /\ dom.kind[Last(stack)] = "element"
                 \/ Here.mode \in LeafNames \ {"text"} /\ p <= Len(doc') /\ doc'[p] = Eof /\ Here.out # << >>
      <4>1. \/ Here.mode = "content"
            \/ Here.mode = "text" /\ p <= Len(doc) /\ IsHead(doc[p]) /\ dom.kind[Last(stack)] = "element"
            \/ Here.mode \in LeafNames \ {"text"} /\ p <= Len(doc) /\ doc[p] = Eof /\ Here.out # << >>
        BY <1>10, <3>2 DEF Following, ModeOf
      <4>2. p <= Len(doc) => p <= Len(doc') /\ doc'[p] = doc[p]
        BY <1>4, <2>2
      <4> QED  BY <4>1, <4>2, Zenon
    <3>3. ASSUME phase = "leaf"
          PROVE  /\ Here.mode = dom.name[Last(stack)]
                 /\ Here.mode = "text" => Len(stack) > 2 /\ p > 1 /\ ~IsHead(doc'[p - 1])
      <4>1. /\ Here.mode = dom.name[Last(stack)]
            /\ Here.mode = "text" => Len(stack) > 2 /\ p > 1 /\ ~IsHead(doc[p - 1])
        BY <1>10, <3>3 DEF Following, ModeOf
      <4>2. p > 1 => doc'[p - 1] = doc[p - 1]
        BY <1>4, <2>2
      <4> QED  BY <4>1, <4>2, Zenon
    <3> QED  BY <3>1, <3>2, <3>3 DEF ModeOf
  <2>4. Following'
    BY <1>3, <1>10, <2>1, <2>3 DEF Following, Here
  <2> QED  BY <1>9, <2>4 DEF ScanInv
<1>11. CASE Failed
  <2>1. ~NoErrorIn(dom) /\ Over.mode = "bad"
    BY <1>8, <1>11 DEF Failed
  <2>2. Over' = Over
    BY <1>5, <1>7, <2>1, OverIs DEF Over
  <2>3. Failed'
    BY <1>3, <1>11, <2>1, <2>2 DEF Failed
  <2> QED  BY <1>9, <2>3 DEF ScanInv
<1> QED  BY <1>1, <1>8, <1>10, <1>11 DEF ScanInv, Endless, Done, Reveal

\* A tag or a leaf begins.
LEMMA IdentifyScan == ParseInv /\ Identify => DocInv' /\ ScanInv'
<1> SUFFICES ASSUME ParseInv, Identify  PROVE DocInv' /\ ScanInv'
  OBVIOUS
<1>1. WholeInv /\ DocInv /\ ScanInv
  BY DEF ParseInv
<1>2. PICK t \in Token :
        /\ Sees(t) /\ IsHead(t) /\ ~(t[1] = "</" /\ InElement)
        /\ IF t[1] = "<" THEN Begin("element", t[2], Top, "tag")
                         ELSE Begin("leaf", LeafName(t[1]), Top, "leaf")
  BY DEF Identify
<1>3. p <= Len(doc) /\ doc[p] = t /\ phase = "content"
  BY <1>2 DEF Sees, Identify
<1>4. Following
  BY <1>1, <1>2, <1>3, PhasesApart DEF Endless
<1>5. /\ At(doc, p) = Step(Here, t) /\ p \in Nat /\ (p + 1) - 1 = p /\ p >= 1
  BY <1>1, <1>3, LookIs
<1>6. /\ Whole(dom, stack) /\ Nested(dom, stack) /\ Last(stack) \in Node /\ Len(stack) \in Nat /\ Len(stack) >= 1
      /\ dom.kind[Last(stack)] \in {"document", "element", "leaf"}
      /\ Cardinality(Live(dom)) \in Nat
  BY <1>1, TypesOf
<1>7. Matches(Here, dom, stack) /\ Here \in Scanned /\ Cardinality(Live(dom)) <= p
  BY <1>4 DEF Following, Matches
<1>8. Open(Here, t)
  <2>1. t # Eof
    BY EofIs
  <2> QED  BY <1>3, <1>4, <2>1 DEF Following, ModeOf, Open
<1>9. dom.kind[Last(stack)] # "leaf"
  BY <1>1, <1>3 DEF WholeInv, PhaseOf
<1>10. CASE t[1] = "<"
  <2>1. t[2] \in Tag
    BY <1>10, TokenIs
  <2>2. t[2] \in Name
    BY <2>1, NamesAssumption
  <2>3. Begin("element", t[2], Last(stack), "tag")
    BY <1>2, <1>10 DEF Top
  <2>4. DocInv' /\ \E n \in Node : BeginsAs(n, "element", t[2], Last(stack), "tag")
    BY <1>1, <1>3, <1>9, <2>2, <2>3, BeginDoes
  <2>5. PICK n \in Node : BeginsAs(n, "element", t[2], Last(stack), "tag")
    BY <2>4
  <2> DEFINE b == At(doc, p)
  <2>6. /\ b \in Scanned /\ b.mode = "tag" /\ b.open = Append(Here.open, t[2]) /\ b.had = {}
        /\ b.out # << >>
    BY <1>5, <1>7, <1>8, <1>10, TagBegins
  <2> HIDE DEF b
  <2>7. Matches(b, dom', stack')
    BY <1>6, <1>7, <2>1, <2>5, <2>6, ElementMatches DEF BeginsAs
  <2>8. b.had = Range(attrs'[Last(stack')])
    <3>1. Range(<< >>) = {}
      BY DEF Range
    <3>2. attrs'[Last(stack')] = << >>
      BY <2>5 DEF BeginsAs
    <3> QED  BY <2>6, <3>1, <3>2
  <2>9. phase' = "tag"
    BY <2>5 DEF BeginsAs
  <2>10. ModeOf(b, dom', stack', phase', doc, p', attrs')
    BY <2>6, <2>8, <2>9 DEF ModeOf
  <2>11. doc' = doc /\ p' = p + 1 /\ p' - 1 = p /\ Cardinality(Live(dom')) <= p'
    BY <1>5, <1>6, <1>7, <2>5 DEF BeginsAs
  <2>12. Following'
    BY <2>7, <2>10, <2>11, FollowingNext DEF b
  <2> QED  BY <2>4, <2>12 DEF ScanInv
<1>11. CASE t[1] # "<"
  <2> DEFINE v == LeafName(t[1])
             b == At(doc, p)
  <2>1. v \in LeafNames /\ v # "text"
    BY LeafNameIs
  <2>2. v \in Name
    BY <2>1, NamesAssumption
  <2>3. Begin("leaf", v, Last(stack), "leaf")
    BY <1>2, <1>11 DEF Top
  <2>4. Last(stack) \in Maybe
    BY <1>6 DEF Maybe
  <2>5. t[1] # "</" \/ Here.open = << >>
    BY <1>2, <1>6, <1>7, <1>9, OpenTop DEF InElement, Top
  <2>6. b \in Scanned /\ b.mode = v /\ b.open = Here.open /\ b.out # << >>
    BY <1>2, <1>5, <1>7, <1>8, <1>11, <2>5, LeafBegins
  <2> HIDE DEF v, b
  <2>7. DocInv' /\ \E n \in Node : BeginsAs(n, "leaf", v, Last(stack), "leaf")
    BY <1>1, <1>3, <1>9, <2>2, <2>3, <2>4, BeginDoes
  <2>8. PICK n \in Node : BeginsAs(n, "leaf", v, Last(stack), "leaf")
    BY <2>7
  <2>9. Matches(b, dom', stack')
    BY <1>6, <1>7, <2>6, <2>8, LeafMatches DEF BeginsAs
  <2>10. ModeOf(b, dom', stack', phase', doc, p', attrs')
    BY <2>1, <2>6, <2>8 DEF ModeOf, BeginsAs
  <2>11. doc' = doc /\ p' = p + 1 /\ p' - 1 = p /\ Cardinality(Live(dom')) <= p'
    BY <1>5, <1>6, <1>7, <2>8 DEF BeginsAs
  <2>12. Following'
    BY <2>9, <2>10, <2>11, FollowingNext DEF b
  <2> QED  BY <2>7, <2>12 DEF ScanInv
<1> QED  BY <1>10, <1>11

\* A text begins, once or again.
LEMMA ReadTextScan == ParseInv /\ ReadText => DocInv' /\ ScanInv'
<1> SUFFICES ASSUME ParseInv, ReadText  PROVE DocInv' /\ ScanInv'
  OBVIOUS
<1>1. WholeInv /\ DocInv /\ ScanInv
  BY DEF ParseInv
<1>2. PICK t \in Token : Sees(t) /\ ~IsHead(t) /\ Begin("leaf", "text", Nil, "leaf")
  BY DEF ReadText
<1>3. p <= Len(doc) /\ doc[p] = t /\ phase = "content" /\ dom.kind[Last(stack)] = "element"
  BY <1>2 DEF Sees, ReadText, InElement, Top
<1>4. /\ At(doc, p) = Step(Here, t) /\ p \in Nat /\ (p + 1) - 1 = p /\ p >= 1 /\ p + 1 > 1
  BY <1>1, <1>3, LookIs
<1>5. /\ Whole(dom, stack) /\ Nested(dom, stack) /\ Last(stack) \in Node
      /\ Cardinality(Live(dom)) \in Nat
  BY <1>1, TypesOf
<1>6. Len(stack) >= 2 /\ Len(stack) \in Nat
  BY <1>1, <1>3, NotAlone
<1>7. "text" \in LeafNames /\ "text" \in Name /\ Nil \in Maybe
  <2>1. "text" \in LeafNames
    BY DEF LeafNames
  <2> QED  BY <2>1, NamesAssumption DEF Maybe
<1>8. DocInv' /\ \E n \in Node : BeginsAs(n, "leaf", "text", Nil, "leaf")
  BY <1>1, <1>2, <1>3, <1>7, BeginDoes
<1>9. PICK n \in Node : BeginsAs(n, "leaf", "text", Nil, "leaf")
  BY <1>8
<1>10. /\ Len(stack') > 2 /\ phase' = "leaf" /\ dom'.name[Last(stack')] = "text" /\ doc' = doc
       /\ p' = p + 1 /\ p' - 1 = p /\ p' > 1 /\ ~IsHead(doc[p' - 1])
  BY <1>2, <1>3, <1>4, <1>6, <1>9 DEF BeginsAs
<1>11. CASE Following
  <2> DEFINE b == At(doc, p)
  <2>1. Matches(Here, dom, stack) /\ Here \in Scanned /\ Cardinality(Live(dom)) <= p
    BY <1>11 DEF Following, Matches
  <2>2. Here.mode = "content"
    <3>1. t # Eof
      BY EofIs
    <3> QED  BY <1>2, <1>3, <1>11, <3>1 DEF Following, ModeOf
  <2>3. Here.open # << >>
    BY <1>3, <1>5, <2>1, OpenTop
  <2>4. b \in Scanned /\ b.mode = "text" /\ b.open = Here.open /\ b.out # << >>
    BY <1>2, <1>4, <2>1, <2>2, <2>3, TextBegins
  <2> HIDE DEF b
  <2>5. Matches(b, dom', stack')
    BY <1>5, <1>9, <2>1, <2>4, LeafMatches DEF BeginsAs
  <2>6. ModeOf(b, dom', stack', phase', doc, p', attrs')
    BY <1>10, <2>4 DEF ModeOf
  <2>7. Cardinality(Live(dom')) <= p'
    BY <1>4, <1>5, <1>9, <2>1 DEF BeginsAs
  <2>8. Following'
    BY <1>10, <2>5, <2>6, <2>7, FollowingNext DEF b
  <2> QED  BY <1>8, <2>8 DEF ScanInv
<1>12. CASE Endless
  <2>1. Over.mode = "endless" /\ EofSeen /\ p = Len(doc) - 1
    BY <1>3, <1>12 DEF Endless
  <2>2. p' = Len(doc)
    <3>1. Len(doc) \in Nat
      BY <1>1, DocIs
    <3> QED  BY <1>10, <2>1, <3>1
  <2>3. Endless'
    BY <1>10, <2>1, <2>2 DEF Endless, Over, EofSeen, Top
  <2> QED  BY <1>8, <2>3 DEF ScanInv
<1> QED  BY <1>1, <1>3, <1>11, <1>12, PhasesApart

\* Numbers, for the size of the stack.
LEMMA SizeIs ==
  \A n \in Nat : (n >= 2 => n # 1) /\ (n > 2 => n # 2) /\ (n >= 2 /\ n # 2 => n > 2)
OBVIOUS

\* The document's loop stops: with an error exactly if it holds nothing.
LEMMA DocumentEndsScan == ParseInv /\ DocumentEnds => DocInv' /\ ScanInv'
<1> SUFFICES ASSUME ParseInv, DocumentEnds  PROVE DocInv' /\ ScanInv'
  OBVIOUS
<1>1. WholeInv /\ DocInv /\ ScanInv
  BY DEF ParseInv
<1>2. phase = "content" /\ p <= Len(doc) /\ ~IsHead(doc[p]) /\ ~InElement
  BY DEF DocumentEnds
<1>3. Following
  BY <1>1, <1>2, PhasesApart DEF Endless
<1>4. /\ At(doc, p) = Step(Here, doc[p]) /\ p \in 1 .. Len(doc) /\ p \in 0 .. Len(doc) /\ p \in 1 .. Len(doc) + 1
      /\ doc[p] = Eof \/ doc[p] # Eof
  BY <1>1, <1>2, LookIs
<1>5. /\ Whole(dom, stack) /\ Nested(dom, stack) /\ dom \in Trees
      /\ dom.kind[Last(stack)] \in {"document", "element", "leaf"}
      /\ Cardinality(Live(dom)) \in Nat
  BY <1>1, TypesOf
<1>6. Matches(Here, dom, stack) /\ Here \in Scanned /\ Cardinality(Live(dom)) <= p
  BY <1>3 DEF Following, Matches
<1>7. dom.kind[Last(stack)] = "document"
  BY <1>1, <1>2, <1>5 DEF WholeInv, PhaseOf, InElement, Top
<1>8. Here.open = << >> /\ Len(stack) = 1 /\ Last(stack) = stack[1]
  BY <1>5, <1>6, <1>7, OpenTop
<1>9. Here.out = << >> <=> dom.first[Top] = Nil
  BY <1>6, <1>8 DEF Matches, Top
<1> DEFINE b == At(doc, p)
<1>10. b.mode = IF Here.out = << >> THEN "bad" ELSE "end"
  <2>1. CASE Here.mode = "content"
    <3>1. doc[p] = Eof \/ (~IsHead(doc[p]) /\ Here.open = << >>)
      BY <1>2, <1>8
    <3>2. b.mode = IF Here.open # << >> \/ Here.out = << >> THEN "bad" ELSE "end"
      BY <1>4, <1>6, <2>1, <3>1, ContentEnds
    <3> QED  BY <1>8, <3>2
  <2>2. CASE Here.mode \in LeafNames \ {"text"} /\ doc[p] = Eof /\ Here.out # << >>
    <3>1. b.mode = IF Here.open = << >> THEN "end" ELSE "bad"
      BY <1>4, <1>6, <2>2, LeafIs
    <3> QED  BY <1>8, <2>2, <3>1
  <2>3. CASE Here.mode = "text"
    BY <1>2, <1>3, <2>3 DEF Following, ModeOf, LeafNames
  <2> QED  BY <1>2, <1>3, <2>1, <2>2, <2>3 DEF Following, ModeOf
<1> HIDE DEF b
<1>11. Over = b
  BY <1>1, <1>4, <1>10, OverAt DEF b
<1>12. /\ stack' = stack /\ phase' = "done" /\ p' = p /\ doc' = doc /\ attrs' = attrs
       /\ dom' = IF dom.first[Top] = Nil THEN SetError(dom, Top) ELSE dom
  BY DEF DocumentEnds
<1>13. NoErrorIn(dom') <=> Here.out # << >>
  <2>1. CASE dom.first[Top] = Nil
    <3>1. \E n \in Node : SetError(dom, Top).error[n]
      BY <1>5, <1>7, ErrorSet DEF Top
    <3> QED  BY <1>9, <1>12, <2>1, <3>1 DEF NoErrorIn
  <2>2. CASE dom.first[Top] # Nil
    BY <1>6, <1>9, <1>12, <2>2 DEF Matches
  <2> QED  BY <2>1, <2>2
<1>14. dom'.kind = dom.kind
  BY <1>5, <1>12, ErredIs DEF Erred
<1>15. Live(dom') = Live(dom) /\ Free(dom') = Free(dom)
  BY <1>14, SameLive
<1>16. DocInv'
  BY <1>1, <1>4, <1>12, <1>15, DocSame
<1>17. Over' = Over
  BY <1>12 DEF Over
<1>18. Done'
  <2>1. Cardinality(Live(dom')) <= p'
    BY <1>6, <1>12, <1>15
  <2>2. CASE Here.out = << >>
    BY <1>10, <1>11, <1>12, <1>13, <1>17, <2>1, <2>2 DEF Done
  <2>3. CASE Here.out # << >>
    BY <1>10, <1>11, <1>12, <1>13, <1>17, <2>1, <2>3 DEF Done
  <2> QED  BY <2>2, <2>3
<1> QED  BY <1>16, <1>18 DEF ScanInv

\* A leaf has ended: the parser is where content may follow.
LEMMA LeafEnds ==
  ASSUME ParseInv, Following, phase = "leaf", NEW k \in {0, 1}, Finish(k), p + k \in 1 .. Len(doc) + 1,
         NEW b \in Scanned, b = At(doc, (p + k) - 1), b.open = Here.open, b.out # << >>,
         \/ b.mode = "content"
         \/ b.mode = "text" /\ p + k <= Len(doc) /\ IsHead(doc[p + k]) /\ Len(stack) > 2
         \/ b.mode \in LeafNames \ {"text"} /\ p + k <= Len(doc) /\ doc[p + k] = Eof
  PROVE  DocInv' /\ ScanInv'
<1>1. WholeInv /\ DocInv
  BY DEF ParseInv
<1>2. Whole(dom, stack) /\ Cardinality(Live(dom)) \in Nat /\ p \in Nat
  BY <1>1, TypesOf, DocIs
<1>3. dom.kind[Last(stack)] = "leaf"
  BY <1>1 DEF WholeInv, PhaseOf
<1>4. /\ DocInv' /\ Len(stack) >= 2 /\ Len(stack) \in Nat
      /\ dom' = LinkEndChild(dom, stack[Len(stack) - 1], Last(stack)) /\ stack' = Front(stack)
      /\ phase' = "content" /\ p' = p + k /\ doc' = doc /\ attrs' = attrs
      /\ Live(dom') = Live(dom)
      /\ dom'.kind[Last(stack')] = IF Len(stack) = 2 THEN "document" ELSE "element"
  BY <1>1, <1>3, FinishDoes
<1>5. Matches(Here, dom, stack) /\ Cardinality(Live(dom)) <= p
  BY DEF Following
<1>6. Matches(b, dom', stack')
  BY <1>2, <1>3, <1>4, <1>5, LinkedMatches
<1>7. b.mode = "text" => dom'.kind[Last(stack')] = "element"
  <2>1. b.mode = "text" => Len(stack) > 2
    BY Zenon
  <2>2. Len(stack) > 2 => Len(stack) # 2
    BY <1>4, SizeIs
  <2> QED  BY <1>4, <2>1, <2>2
<1>8. ModeOf(b, dom', stack', phase', doc, p', attrs')
  <2>1. \/ b.mode = "content"
        \/ b.mode = "text" /\ p' <= Len(doc) /\ IsHead(doc[p']) /\ dom'.kind[Last(stack')] = "element"
        \/ b.mode \in LeafNames \ {"text"} /\ p' <= Len(doc) /\ doc[p'] = Eof /\ b.out # << >>
    BY <1>4, <1>7, Zenon
  <2> QED  BY <1>4, <2>1 DEF ModeOf
<1>9. Cardinality(Live(dom')) <= p'
  BY <1>2, <1>4, <1>5
<1>10. Following'
  BY <1>4, <1>6, <1>8, <1>9, FollowingNext
<1> QED  BY <1>4, <1>10 DEF ScanInv

\* A token in a leaf.
LEMMA LeafScanScan == ParseInv /\ LeafScan => DocInv' /\ ScanInv'
<1> SUFFICES ASSUME ParseInv, LeafScan  PROVE DocInv' /\ ScanInv'
  OBVIOUS
<1>1. WholeInv /\ DocInv /\ ScanInv
  BY DEF ParseInv
<1>2. PICK t \in Token :
        /\ Sees(t)
        /\ IF EndsLeaf(dom.name[Top], t)
           THEN Finish(IF dom.name[Top] = "text" THEN 0 ELSE 1)
           ELSE p' = p + 1 /\ UNCHANGED <<dom, doc, stack, attrs, phase>>
  BY DEF LeafScan
<1>3. p <= Len(doc) /\ doc[p] = t /\ phase = "leaf" /\ t # Eof
  BY <1>2, EofIs DEF Sees, LeafScan
<1>4. /\ At(doc, p) = Step(Here, t) /\ p \in Nat /\ (p + 1) - 1 = p /\ p >= 1 /\ p + 1 > 1
      /\ p + 1 \in 1 .. Len(doc) + 1 /\ p + 0 = p /\ p \in 1 .. Len(doc) + 1
  BY <1>1, <1>3, LookIs
<1>5. Following
  BY <1>1, <1>2, <1>3, PhasesApart DEF Endless, EofSeen
<1>6. /\ Nested(dom, stack) /\ Cardinality(Live(dom)) \in Nat
  BY <1>1, TypesOf
<1>7. Matches(Here, dom, stack) /\ Here \in Scanned /\ Cardinality(Live(dom)) <= p
  BY <1>5 DEF Following, Matches
<1>8. dom.kind[Last(stack)] = "leaf" /\ dom.name[Top] \in LeafNames
  BY <1>1, <1>3 DEF WholeInv, PhaseOf, Top
<1>9. Len(stack) >= 2 /\ Len(stack) \in Nat
  BY <1>1, <1>8, NotAlone
<1>10. Here.out # << >> /\ (Here.open = << >> <=> Len(stack) = 2) /\ Len(stack) # 1
  <2>1. Len(stack) # 1
    BY <1>9, SizeIs
  <2> QED  BY <1>6, <1>7, <1>8, <2>1, OpenTop
<1>11. /\ Here.mode = dom.name[Top]
       /\ Here.mode = "text" => Len(stack) > 2
  BY <1>3, <1>5 DEF Following, ModeOf, Top
<1> DEFINE b == At(doc, p)
<1>12. CASE Here.mode = "text"
  <2>1. Here.open # << >>
    <3>1. Len(stack) # 2
      BY <1>9, <1>11, <1>12, SizeIs
    <3> QED  BY <1>10, <3>1
  <2>2. EndsLeaf(dom.name[Top], t) <=> IsHead(t)
    BY <1>11, <1>12, Zenon DEF EndsLeaf, EndsText
  <2>3. CASE IsHead(t)
    <3>1. Finish(0)
      BY <1>2, <1>11, <1>12, <2>2, <2>3
    <3>2. Here = At(doc, (p + 0) - 1)
      BY <1>4 DEF Here
    <3>3. IsHead(doc[p + 0]) /\ p + 0 <= Len(doc) /\ p + 0 \in 1 .. Len(doc) + 1
      BY <1>3, <1>4, <2>3
    <3> QED  BY <1>3, <1>5, <1>7, <1>10, <1>11, <1>12, <3>1, <3>2, <3>3, LeafEnds
  <2>4. CASE ~IsHead(t)
    <3>1. /\ p' = p + 1 /\ dom' = dom /\ doc' = doc /\ stack' = stack
          /\ attrs' = attrs /\ phase' = phase
      BY <1>2, <2>2, <2>4
    <3>2. b = Here
      BY <1>3, <1>4, <1>7, <1>12, <2>1, <2>4, TextGoesOn
    <3> HIDE DEF b
    <3>3. p' - 1 = p /\ p' > 1 /\ ~IsHead(doc[p' - 1]) /\ Cardinality(Live(dom')) <= p'
      BY <1>3, <1>4, <1>6, <1>7, <2>4, <3>1
    <3>4. ModeOf(b, dom', stack', phase', doc, p', attrs')
      BY <1>3, <1>11, <1>12, <3>1, <3>2, <3>3 DEF ModeOf, Top
    <3>5. Following'
      BY <1>7, <3>1, <3>2, <3>3, <3>4, FollowingNext DEF b
    <3>6. DocInv'
      BY <1>1, <1>4, <3>1, DocSame
    <3> QED  BY <3>5, <3>6 DEF ScanInv
  <2> QED  BY <2>3, <2>4
<1>13. CASE Here.mode # "text"
  <2>1. /\ b \in Scanned /\ b.open = Here.open /\ b.out = Here.out
        /\ b.mode = IF EndsLeaf(Here.mode, t) THEN "content" ELSE Here.mode
    BY <1>3, <1>4, <1>7, <1>8, <1>11, <1>13, LeafIs
  <2> HIDE DEF b
  <2>2. CASE EndsLeaf(Here.mode, t)
    <3>1. Finish(1)
      BY <1>2, <1>11, <1>13, <2>2
    <3>2. b.mode = "content" /\ b = At(doc, (p + 1) - 1) /\ b.out # << >>
      BY <1>4, <1>10, <2>1, <2>2 DEF b
    <3> QED  BY <1>3, <1>4, <1>5, <2>1, <3>1, <3>2, LeafEnds
  <2>3. CASE ~EndsLeaf(Here.mode, t)
    <3>1. /\ p' = p + 1 /\ dom' = dom /\ doc' = doc /\ stack' = stack
          /\ attrs' = attrs /\ phase' = phase
      BY <1>2, <1>11, <2>3
    <3>2. Matches(b, dom, stack)
      BY <1>7, <1>10, <2>1, SameMatches
    <3>3. p' - 1 = p /\ Cardinality(Live(dom')) <= p'
      BY <1>4, <1>6, <1>7, <3>1
    <3>4. b.mode = Here.mode
      BY <2>1, <2>3
    <3>5. ModeOf(b, dom', stack', phase', doc, p', attrs')
      BY <1>3, <1>11, <1>13, <3>1, <3>4 DEF ModeOf, Top
    <3>6. Following'
      BY <3>1, <3>2, <3>3, <3>5, FollowingNext DEF b
    <3>7. DocInv'
      BY <1>1, <1>4, <3>1, DocSame
    <3> QED  BY <3>6, <3>7 DEF ScanInv
  <2> QED  BY <2>2, <2>3
<1> QED  BY <1>12, <1>13

\* The document ends in a leaf.
LEMMA LeafEofScan == ParseInv /\ LeafEof => DocInv' /\ ScanInv'
<1> SUFFICES ASSUME ParseInv, LeafEof  PROVE DocInv' /\ ScanInv'
  OBVIOUS
<1>1. WholeInv /\ DocInv /\ ScanInv
  BY DEF ParseInv
<1>2. phase = "leaf" /\ p <= Len(doc) /\ doc[p] = Eof
  BY DEF LeafEof, Sees
<1>3. /\ dom.name[Top] = "text" => Finish(0 - 1)
      /\ dom.name[Top] = "declaration" =>
            phase' = "failed" /\ dom' = dom /\ doc' = doc /\ p' = p /\ stack' = stack /\ attrs' = attrs
      /\ dom.name[Top] \notin {"text", "declaration"} => Finish(0)
  BY DEF LeafEof
<1>4. /\ At(doc, p) = Step(Here, Eof) /\ p \in Nat /\ p >= 1 /\ p \in 1 .. Len(doc) + 1 /\ p + 0 = p
      /\ EofSeen /\ p = Len(doc) /\ Over = Step(Here, Eof)
  BY <1>1, <1>2, LookIs, EofLast
<1>5. /\ Nested(dom, stack) /\ Cardinality(Live(dom)) \in Nat
  BY <1>1, TypesOf
<1>6. dom.kind[Last(stack)] = "leaf" /\ dom.name[Top] \in LeafNames
  BY <1>1, <1>2 DEF WholeInv, PhaseOf, Top
<1>7. Len(stack) >= 2 /\ Len(stack) \in Nat /\ Len(stack) # 1
  BY <1>1, <1>6, NotAlone, SizeIs
<1>8. ASSUME dom.name[Top] = "text", Len(stack) > 2, p > 1, ~IsHead(doc[p - 1]), Over.mode = "endless"
      PROVE  DocInv' /\ ScanInv'
  <2>1. Finish(0 - 1) /\ p + (0 - 1) = p - 1 /\ p - 1 \in 1 .. Len(doc) + 1
    BY <1>3, <1>4, <1>8
  <2>2. /\ DocInv' /\ phase' = "content" /\ p' = p + (0 - 1) /\ doc' = doc
        /\ dom'.kind[Last(stack')] = IF Len(stack) = 2 THEN "document" ELSE "element"
    BY <1>1, <1>6, <2>1, FinishDoes
  <2>3. dom'.kind[Last(stack')] = "element"
    BY <1>7, <1>8, <2>2, SizeIs
  <2>4. p' = Len(doc) - 1 /\ ~IsHead(doc[p'])
    BY <1>4, <1>8, <2>1, <2>2
  <2>5. Over' = Over /\ EofSeen'
    BY <1>4, <2>2 DEF Over, EofSeen
  <2>6. Endless'
    BY <1>8, <2>2, <2>3, <2>4, <2>5 DEF Endless, InElement, Top
  <2> QED  BY <2>2, <2>6 DEF ScanInv
<1>9. CASE Following
  <2>1. Matches(Here, dom, stack) /\ Here \in Scanned /\ Cardinality(Live(dom)) <= p
    BY <1>9 DEF Following, Matches
  <2>2. Here.out # << >> /\ (Here.open = << >> <=> Len(stack) = 2)
    BY <1>5, <1>6, <1>7, <2>1, OpenTop
  <2>3. /\ Here.mode = dom.name[Top]
        /\ Here.mode = "text" => Len(stack) > 2 /\ p > 1 /\ ~IsHead(doc[p - 1])
    BY <1>2, <1>9 DEF Following, ModeOf, Top
  <2>4. CASE Here.mode = "text"
    <3>1. Len(stack) # 2
      BY <1>7, <2>3, <2>4, SizeIs
    <3>2. Here.open # << >>
      BY <2>2, <3>1
    <3>3. Over.mode = "endless"
      BY <1>4, <2>1, <2>4, <3>2, EofIs, TextGoesOn
    <3> QED  BY <1>8, <2>3, <2>4, <3>3
  <2>5. CASE Here.mode = "declaration"
    <3>1. phase' = "failed" /\ dom' = dom /\ doc' = doc /\ p' = p /\ stack' = stack /\ attrs' = attrs
      BY <1>3, <2>3, <2>5
    <3>2. Over.mode = IF Len(stack) = 2 THEN "end" ELSE "bad"
      <4>1. "declaration" \in LeafNames /\ "declaration" # "text"
        BY DEF LeafNames
      <4>2. Over.mode = IF Here.open = << >> THEN "end" ELSE "bad"
        BY <1>4, <2>1, <2>5, <4>1, LeafIs
      <4> QED  BY <2>2, <4>2
    <3>3. NoErrorIn(dom)
      BY <2>1 DEF Matches
    <3>4. Failed'
      BY <1>4, <1>6, <2>1, <3>1, <3>2, <3>3 DEF Failed, Over, EofSeen, Top
    <3>5. DocInv'
      BY <1>1, <1>4, <3>1, DocSame
    <3> QED  BY <3>4, <3>5 DEF ScanInv
  <2>6. CASE Here.mode \notin {"text", "declaration"}
    <3>1. Finish(0)
      BY <1>3, <2>3, <2>6
    <3>2. Here = At(doc, (p + 0) - 1)
      BY <1>4 DEF Here
    <3>3. Here.mode \in LeafNames \ {"text"} /\ p + 0 <= Len(doc) /\ doc[p + 0] = Eof /\ p + 0 \in 1 .. Len(doc) + 1
      BY <1>2, <1>4, <1>6, <2>3, <2>6
    <3> QED  BY <1>2, <1>9, <2>1, <2>2, <3>1, <3>2, <3>3, LeafEnds
  <2> QED  BY <2>4, <2>5, <2>6
<1>10. CASE Endless
  BY <1>2, <1>8, <1>10 DEF Endless
<1> QED  BY <1>1, <1>2, <1>9, <1>10, PhasesApart

\* What the invariant says in a tag.
LEMMA InTagIs ==
  ASSUME ParseInv, phase = "tag", p <= Len(doc)
  PROVE  /\ WholeInv /\ DocInv /\ Following
         /\ At(doc, p) = Step(Here, doc[p]) /\ p \in Nat /\ p >= 1 /\ (p + 1) - 1 = p
         /\ p \in 0 .. Len(doc) /\ p + 1 \in 1 .. Len(doc) + 1
         /\ Matches(Here, dom, stack) /\ Here \in Scanned /\ Cardinality(Live(dom)) <= p
         /\ Cardinality(Live(dom)) \in Nat
         /\ Here.mode = "tag" /\ Here.had = Range(attrs[Last(stack)])
         /\ Whole(dom, stack) /\ Nested(dom, stack) /\ Last(stack) \in Node
         /\ dom.kind[Last(stack)] = "element" /\ Len(stack) >= 2 /\ Len(stack) \in Nat /\ Len(stack) # 1
         /\ Here.open # << >> /\ Here.open \in Seq(Tag) /\ Here.out # << >>
         /\ Last(Here.open) = dom.name[Last(stack)]
<1>1. WholeInv /\ DocInv /\ Following
  BY PhasesApart DEF ParseInv
<1>2. /\ At(doc, p) = Step(Here, doc[p]) /\ p \in Nat /\ p >= 1 /\ (p + 1) - 1 = p
      /\ p \in 0 .. Len(doc) /\ p + 1 \in 1 .. Len(doc) + 1
  BY <1>1, LookIs
<1>3. /\ Matches(Here, dom, stack) /\ Here \in Scanned /\ Cardinality(Live(dom)) <= p
      /\ Here.mode = "tag" /\ Here.had = Range(attrs[Last(stack)])
  BY <1>1 DEF Following, Matches, ModeOf
<1>4. /\ Whole(dom, stack) /\ Nested(dom, stack) /\ Last(stack) \in Node
      /\ Cardinality(Live(dom)) \in Nat
  BY <1>1, TypesOf
<1>5. dom.kind[Last(stack)] = "element"
  BY <1>1 DEF WholeInv, PhaseOf
<1>6. Len(stack) >= 2 /\ Len(stack) \in Nat /\ Len(stack) # 1
  BY <1>1, <1>5, NotAlone, SizeIs
<1>7. /\ Here.open # << >> /\ Here.open \in Seq(Tag) /\ Here.out # << >>
      /\ Last(Here.open) = dom.name[Last(stack)]
  BY <1>3, <1>4, <1>5, <1>6, OpenTop
<1> QED  BY <1>1, <1>2, <1>3, <1>4, <1>5, <1>6, <1>7

\* An attribute: a name that is new, and something after it.
LEMMA AttributeScan == ParseInv /\ Attribute => DocInv' /\ ScanInv'
<1> SUFFICES ASSUME ParseInv, Attribute  PROVE DocInv' /\ ScanInv'
  OBVIOUS
<1>1. PICK x \in Attr :
        /\ Sees(<<"=", x>>) /\ p < Len(doc)
        /\ IF SeesNext(Eof) \/ Contains(attrs[Top], x) THEN Fail
           ELSE /\ attrs' = [attrs EXCEPT ![Top] = Append(@, x)]
                /\ p' = p + 1
                /\ UNCHANGED <<dom, doc, stack, phase>>
  BY DEF Attribute
<1> DEFINE t == doc[p]
           b == At(doc, p)
<1>2. p <= Len(doc) /\ t = <<"=", x>> /\ phase = "tag"
  BY <1>1 DEF Sees, Attribute
<1>3. t \in Token /\ t[1] = "=" /\ t[2] = x
  BY <1>2 DEF Token
<1>4. /\ WholeInv /\ DocInv /\ b = Step(Here, t) /\ p \in Nat /\ p >= 1 /\ (p + 1) - 1 = p
      /\ p \in 0 .. Len(doc) /\ p + 1 \in 1 .. Len(doc) + 1
      /\ Matches(Here, dom, stack) /\ Here \in Scanned /\ Cardinality(Live(dom)) <= p
      /\ Cardinality(Live(dom)) \in Nat
      /\ Here.mode = "tag" /\ Here.had = Range(attrs[Last(stack)])
      /\ Last(stack) \in Node /\ dom.kind[Last(stack)] = "element" /\ Len(stack) # 1
  BY <1>2, InTagIs
<1> HIDE DEF t
<1>5. IF x \in Here.had THEN b \in Scanned /\ b.mode = "bad"
      ELSE b \in Scanned /\ b.mode = "tag" /\ b.open = Here.open /\ b.had = Here.had \union {x}
           /\ b.out # << >>
  BY <1>3, <1>4, AttributeIs
<1> HIDE DEF b
<1>6. attrs[Last(stack)] \in Seq(Attr) /\ attrs \in [Node -> Seq(Attr)]
  BY <1>4 DEF DocInv
<1>7. Contains(attrs[Top], x) <=> x \in Here.had
  <2> DEFINE s == attrs[Last(stack)]
  <2>1. DOMAIN s = 1 .. Len(s)
    BY <1>6
  <2> HIDE DEF s
  <2>2. (\E i \in 1 .. Len(s) : s[i] = x) <=> x \in Range(s)
    BY <2>1 DEF Range
  <2> QED  BY <1>4, <2>2 DEF Contains, Top, s
<1>8. CASE x \in Here.had
  <2>1. Fail
    BY <1>1, <1>7, <1>8
  <2>2. Over.mode = "bad"
    BY <1>4, <1>5, <1>8, OverAt DEF b
  <2> QED  BY <1>4, <2>1, <2>2, FailDoes
<1>9. CASE x \notin Here.had /\ SeesNext(Eof)
  <2>1. Fail
    BY <1>1, <1>9
  <2>2. At(doc, p + 1) = Step(b, Eof) /\ p + 1 \in 0 .. Len(doc)
    BY <1>1, <1>4, <1>9, NextIs DEF SeesNext, b
  <2>3. At(doc, p + 1).mode = "bad"
    <3>1. Eof[1] \notin {"=", "/>", ">"}
      BY EofIs
    <3> QED  BY <1>5, <1>9, <2>2, <3>1, BadTagIs
  <2>4. Over.mode = "bad"
    BY <1>4, <2>2, <2>3, OverAt
  <2> QED  BY <1>4, <2>1, <2>4, FailDoes
<1>10. CASE x \notin Here.had /\ ~SeesNext(Eof)
  <2> DEFINE s == attrs[Last(stack)]
             r == Append(s, x)
  <2>1. /\ attrs' = [attrs EXCEPT ![Last(stack)] = r]
        /\ p' = p + 1 /\ dom' = dom /\ doc' = doc /\ stack' = stack /\ phase' = phase
    BY <1>1, <1>7, <1>10 DEF Top
  <2>2. r \in Seq(Attr) /\ Range(r) = Range(s) \union {x}
    <3>1. /\ s \in Seq(Attr) /\ Len(s) \in Nat /\ DOMAIN s = 1 .. Len(s)
          /\ r \in Seq(Attr) /\ Len(r) = Len(s) + 1 /\ DOMAIN r = 1 .. Len(s) + 1
          /\ r[Len(s) + 1] = x /\ \A i \in 1 .. Len(s) : r[i] = s[i]
      BY <1>6
    <3> HIDE DEF s, r
    <3>2. \A i \in 1 .. Len(s) + 1 : i \in 1 .. Len(s) \/ i = Len(s) + 1
      BY <3>1
    <3>3. Len(s) + 1 \in 1 .. Len(s) + 1 /\ \A i \in 1 .. Len(s) : i \in 1 .. Len(s) + 1
      BY <3>1
    <3> QED  BY <3>1, <3>2, <3>3 DEF Range
  <2> HIDE DEF r
  <2>3. attrs'[Last(stack)] = r /\ attrs' \in [Node -> Seq(Attr)]
        /\ \A n \in Node : n # Last(stack) => attrs'[n] = attrs[n]
    BY <1>4, <1>6, <2>1, <2>2
  <2>4. DocInv'
    <3>1. Last(stack) \notin Free(dom)
      BY <1>4 DEF Free
    <3>2. \A n \in Free(dom) : attrs'[n] = << >>
      BY <1>4, <2>3, <3>1 DEF Free, DocInv
    <3> QED  BY <1>4, <2>1, <2>3, <3>2 DEF DocInv
  <2>5. Matches(b, dom', stack')
    BY <1>4, <1>5, <1>10, <2>1, SameMatches
  <2>6. b.mode = "tag" /\ b.had = Range(attrs'[Last(stack')])
    BY <1>4, <1>5, <1>10, <2>1, <2>2, <2>3
  <2>7. ModeOf(b, dom', stack', phase', doc, p', attrs')
    BY <1>2, <2>1, <2>6 DEF ModeOf
  <2>8. p' - 1 = p /\ Cardinality(Live(dom')) <= p'
    BY <1>4, <2>1
  <2>9. Following'
    BY <2>1, <2>5, <2>7, <2>8, FollowingNext DEF b
  <2> QED  BY <2>4, <2>9 DEF ScanInv
<1> QED  BY <1>8, <1>9, <1>10

\* An empty tag ends its element.
LEMMA EmptyTagScan == ParseInv /\ EmptyTag => DocInv' /\ ScanInv'
<1> SUFFICES ASSUME ParseInv, EmptyTag  PROVE DocInv' /\ ScanInv'
  OBVIOUS
<1> DEFINE t == doc[p]
           b == At(doc, p)
<1>1. phase = "tag" /\ p <= Len(doc) /\ t = One("/>") /\ Finish(1)
  BY DEF EmptyTag, Sees
<1>2. /\ WholeInv /\ DocInv /\ b = Step(Here, t) /\ p \in Nat /\ p >= 1 /\ (p + 1) - 1 = p
      /\ p + 1 \in 1 .. Len(doc) + 1
      /\ Matches(Here, dom, stack) /\ Here \in Scanned /\ Cardinality(Live(dom)) <= p
      /\ Cardinality(Live(dom)) \in Nat /\ Whole(dom, stack)
      /\ Here.mode = "tag" /\ dom.kind[Last(stack)] = "element" /\ Here.open # << >>
  BY <1>1, InTagIs
<1>3. b \in Scanned /\ b.mode = "content" /\ b.open = Front(Here.open) /\ b.out # << >>
  BY <1>1, <1>2, EmptyTagIs
<1> HIDE DEF t, b
<1>4. /\ DocInv' /\ Len(stack) >= 2
      /\ dom' = LinkEndChild(dom, stack[Len(stack) - 1], Last(stack)) /\ stack' = Front(stack)
      /\ phase' = "content" /\ p' = p + 1 /\ doc' = doc /\ attrs' = attrs
      /\ Live(dom') = Live(dom)
  BY <1>1, <1>2, FinishDoes
<1>5. Matches(b, dom', stack')
  BY <1>2, <1>3, <1>4, LinkedMatches
<1>6. ModeOf(b, dom', stack', phase', doc, p', attrs')
  BY <1>3, <1>4 DEF ModeOf
<1>7. p' - 1 = p /\ Cardinality(Live(dom')) <= p'
  BY <1>2, <1>4
<1>8. Following'
  BY <1>4, <1>5, <1>6, <1>7, FollowingNext DEF b
<1> QED  BY <1>4, <1>8 DEF ScanInv

\* The end of a start tag.
LEMMA StartTagScan == ParseInv /\ StartTag => DocInv' /\ ScanInv'
<1> SUFFICES ASSUME ParseInv, StartTag  PROVE DocInv' /\ ScanInv'
  OBVIOUS
<1> DEFINE t == doc[p]
           b == At(doc, p)
<1>1. /\ phase = "tag" /\ p <= Len(doc) /\ t = One(">")
      /\ phase' = "content" /\ p' = p + 1 /\ dom' = dom /\ doc' = doc /\ stack' = stack /\ attrs' = attrs
  BY DEF StartTag, Sees
<1>2. /\ WholeInv /\ DocInv /\ b = Step(Here, t) /\ p \in Nat /\ p >= 1 /\ (p + 1) - 1 = p
      /\ p + 1 \in 1 .. Len(doc) + 1
      /\ Matches(Here, dom, stack) /\ Here \in Scanned /\ Cardinality(Live(dom)) <= p
      /\ Cardinality(Live(dom)) \in Nat /\ Here.mode = "tag" /\ Len(stack) # 1
  BY <1>1, InTagIs
<1>3. b \in Scanned /\ b.mode = "content" /\ b.open = Here.open /\ b.out # << >>
  BY <1>1, <1>2, TagEnds1
<1> HIDE DEF t, b
<1>4. DocInv'
  BY <1>1, <1>2, DocSame
<1>5. Matches(b, dom', stack')
  BY <1>1, <1>2, <1>3, SameMatches
<1>6. ModeOf(b, dom', stack', phase', doc, p', attrs')
  BY <1>1, <1>3 DEF ModeOf
<1>7. p' - 1 = p /\ Cardinality(Live(dom')) <= p'
  BY <1>1, <1>2
<1>8. Following'
  BY <1>1, <1>5, <1>6, <1>7, FollowingNext DEF b
<1> QED  BY <1>4, <1>8 DEF ScanInv

\* Anything else in a tag is an error.
LEMMA BadTagScan == ParseInv /\ BadTag => DocInv' /\ ScanInv'
<1> SUFFICES ASSUME ParseInv, BadTag  PROVE DocInv' /\ ScanInv'
  OBVIOUS
<1>1. phase = "tag" /\ p <= Len(doc) /\ doc[p][1] \notin {"=", "/>", ">"} /\ Fail
  BY DEF BadTag
<1>2. /\ WholeInv /\ DocInv /\ At(doc, p) = Step(Here, doc[p]) /\ p \in 0 .. Len(doc)
      /\ Here \in Scanned /\ Cardinality(Live(dom)) <= p
      /\ Here.mode = "tag" /\ dom.kind[Last(stack)] = "element"
  BY <1>1, InTagIs
<1>3. At(doc, p).mode = "bad"
  BY <1>1, <1>2, BadTagIs
<1>4. Over.mode = "bad"
  BY <1>2, <1>3, OverAt
<1> QED  BY <1>1, <1>2, <1>4, FailDoes

\* What the invariant says where the content of an element may go on or end.
LEMMA InContentIs ==
  ASSUME ParseInv, phase = "content", InElement, p <= Len(doc), Following
  PROVE  /\ WholeInv /\ DocInv
         /\ At(doc, p) = Step(Here, doc[p]) /\ p \in Nat /\ p >= 1
         /\ p \in 0 .. Len(doc)
         /\ Matches(Here, dom, stack) /\ Here \in Scanned /\ Cardinality(Live(dom)) <= p
         /\ Cardinality(Live(dom)) \in Nat
         /\ \/ Here.mode = "content"
            \/ Here.mode = "text" /\ IsHead(doc[p])
            \/ Here.mode \in LeafNames \ {"text"} /\ doc[p] = Eof
         /\ Whole(dom, stack) /\ Nested(dom, stack)
         /\ dom.kind[Last(stack)] = "element"
         /\ Here.open # << >> /\ Here.open \in Seq(Tag) /\ Here.out # << >>
         /\ Last(Here.open) = dom.name[Last(stack)]
<1>1. WholeInv /\ DocInv
  BY DEF ParseInv
<1>2. At(doc, p) = Step(Here, doc[p]) /\ p \in Nat /\ p >= 1 /\ p \in 0 .. Len(doc)
  BY <1>1, LookIs
<1>3. /\ Matches(Here, dom, stack) /\ Here \in Scanned /\ Cardinality(Live(dom)) <= p
      /\ \/ Here.mode = "content"
         \/ Here.mode = "text" /\ IsHead(doc[p])
         \/ Here.mode \in LeafNames \ {"text"} /\ doc[p] = Eof
  BY <1>1 DEF Following, Matches, ModeOf
<1>4. /\ Whole(dom, stack) /\ Nested(dom, stack) /\ Cardinality(Live(dom)) \in Nat
  BY <1>1, TypesOf
<1>5. dom.kind[Last(stack)] = "element"
  BY DEF InElement, Top
<1>6. Len(stack) >= 2 /\ Len(stack) \in Nat /\ Len(stack) # 1
  BY <1>1, <1>5, NotAlone, SizeIs
<1>7. /\ Here.open # << >> /\ Here.open \in Seq(Tag) /\ Here.out # << >>
      /\ Last(Here.open) = dom.name[Last(stack)]
  BY <1>3, <1>4, <1>5, <1>6, OpenTop
<1> QED  BY <1>1, <1>2, <1>3, <1>4, <1>5, <1>7

\* An end tag: of the innermost element and closed, or an error.
LEMMA EndTagScan == ParseInv /\ EndTag => DocInv' /\ ScanInv'
<1> SUFFICES ASSUME ParseInv, EndTag  PROVE DocInv' /\ ScanInv'
  OBVIOUS
<1>1. PICK v \in Tag :
        /\ Sees(<<"</", v>>) /\ p < Len(doc)
        /\ IF v = dom.name[Top] /\ SeesNext(One(">")) THEN Finish(2) ELSE Fail
  BY DEF EndTag
<1> DEFINE t == doc[p]
           b == At(doc, p)
           c == At(doc, p + 1)
           u == doc[p + 1]
<1>2. p <= Len(doc) /\ t = <<"</", v>> /\ phase = "content" /\ InElement
  BY <1>1 DEF Sees, EndTag
<1>3. t \in Token /\ t[1] = "</" /\ t[2] = v
  BY <1>2 DEF Token
<1>4. IsHead(t) /\ t # Eof
  BY <1>3, EofIs DEF IsHead
<1>5. Following
  BY <1>2, <1>4, PhasesApart DEF ParseInv, Endless
<1>6. /\ WholeInv /\ DocInv /\ b = Step(Here, t) /\ p \in Nat /\ p >= 1 /\ p \in 0 .. Len(doc)
      /\ Matches(Here, dom, stack) /\ Here \in Scanned /\ Cardinality(Live(dom)) <= p
      /\ Cardinality(Live(dom)) \in Nat
      /\ Here.mode = "content" \/ (Here.mode = "text" /\ IsHead(t))
      /\ Whole(dom, stack) /\ dom.kind[Last(stack)] = "element"
      /\ Here.open # << >> /\ Here.out # << >>
      /\ Last(Here.open) = dom.name[Last(stack)]
  BY <1>2, <1>4, <1>5, InContentIs
<1>7. /\ c = Step(b, u) /\ p + 1 \in 0 .. Len(doc) /\ p + 2 \in 1 .. Len(doc) + 1 /\ (p + 2) - 1 = p + 1
      /\ u \in Token \union {Eof}
  BY <1>1, <1>6, NextIs
<1> HIDE DEF t, u
<1>8. /\ b \in Scanned /\ b.mode = IF v = dom.name[Top] THEN "endtag" ELSE "bad"
      /\ b.open = Here.open /\ b.out = Here.out
  <2>1. Open(Here, t)
    BY <1>6 DEF Open
  <2> QED  BY <1>3, <1>6, <2>1, EndTagBegins DEF Top
<1> HIDE DEF b, c
<1>9. CASE v # dom.name[Top]
  <2>1. Over.mode = "bad"
    BY <1>6, <1>8, <1>9, OverAt DEF b
  <2>2. Fail
    BY <1>1, <1>9
  <2> QED  BY <1>6, <2>1, <2>2, FailDoes
<1>10. CASE v = dom.name[Top] /\ ~SeesNext(One(">"))
  <2>1. u # One(">")
    BY <1>1, <1>10 DEF SeesNext, u
  <2>2. u[1] # ">"
    <3>1. CASE u = Eof
      BY <3>1, EofIs
    <3>2. CASE u \in Token
      <4>1. ">" \in Classes
        BY DEF Classes, TagEnds
      <4> QED  BY <2>1, <3>2, <4>1, TokenIs
    <3> QED  BY <1>7, <3>1, <3>2
  <2>3. c.mode = "bad"
    BY <1>7, <1>8, <1>10, <2>2, EndTagIs
  <2>4. Over.mode = "bad"
    BY <1>6, <1>7, <2>3, OverAt DEF c
  <2>5. Fail
    BY <1>1, <1>10
  <2> QED  BY <1>6, <2>4, <2>5, FailDoes
<1>11. CASE v = dom.name[Top] /\ SeesNext(One(">"))
  <2>1. u[1] = ">" /\ Finish(2)
    <3>1. u = One(">")
      BY <1>11 DEF SeesNext, u
    <3> QED  BY <1>1, <1>11, <3>1, OneIs
  <2>2. c \in Scanned /\ c.mode = "content" /\ c.open = Front(Here.open) /\ c.out # << >>
    <3>1. c = Close(b) /\ b.open # << >>
      BY <1>6, <1>7, <1>8, <1>11, <2>1, EndTagIs
    <3> QED  BY <1>8, <3>1, CloseIs
  <2>3. /\ DocInv' /\ Len(stack) >= 2
        /\ dom' = LinkEndChild(dom, stack[Len(stack) - 1], Last(stack)) /\ stack' = Front(stack)
        /\ phase' = "content" /\ p' = p + 2 /\ doc' = doc /\ attrs' = attrs
        /\ Live(dom') = Live(dom)
    BY <1>6, <1>7, <2>1, FinishDoes
  <2>4. Matches(c, dom', stack')
    BY <1>6, <2>2, <2>3, LinkedMatches
  <2>5. ModeOf(c, dom', stack', phase', doc, p', attrs')
    BY <2>2, <2>3 DEF ModeOf
  <2>6. p' - 1 = p + 1 /\ Cardinality(Live(dom')) <= p'
    BY <1>6, <1>7, <2>3
  <2>7. Following'
    BY <2>3, <2>4, <2>5, <2>6, FollowingNext DEF c
  <2> QED  BY <2>3, <2>7 DEF ScanInv
<1> QED  BY <1>9, <1>10, <1>11

\* The document ends within an element.
LEMMA NoEndTagScan == ParseInv /\ NoEndTag => DocInv' /\ ScanInv'
<1> SUFFICES ASSUME ParseInv, NoEndTag  PROVE DocInv' /\ ScanInv'
  OBVIOUS
<1>1. phase = "content" /\ InElement /\ p <= Len(doc) /\ doc[p] = Eof /\ Fail
  BY DEF NoEndTag, Sees
<1>2. WholeInv /\ DocInv /\ ScanInv
  BY DEF ParseInv
<1>3. EofSeen /\ p = Len(doc) /\ Over = Step(Here, Eof) /\ p \in Nat
  BY <1>1, <1>2, EofLast, DocIs
<1>4. Following
  <2>1. ~Endless
    <3>1. \A n \in Nat : n # n - 1
      OBVIOUS
    <3> QED  BY <1>1, <1>3, <3>1 DEF Endless
  <2> QED  BY <1>1, <1>2, <2>1, PhasesApart
<1>5. /\ Here \in Scanned /\ Cardinality(Live(dom)) <= p
      /\ Here.mode = "content" \/ Here.mode \in LeafNames \ {"text"}
      /\ dom.kind[Last(stack)] = "element" /\ Here.open # << >>
  BY <1>1, <1>4, InContentIs, EofIs
<1>6. Over.mode = "bad"
  <2>1. CASE Here.mode = "content"
    BY <1>3, <1>5, <2>1, ContentEnds
  <2>2. CASE Here.mode \in LeafNames \ {"text"}
    BY <1>3, <1>5, <2>2, LeafIs
  <2> QED  BY <1>5, <2>1, <2>2
<1> QED  BY <1>1, <1>2, <1>5, <1>6, FailDoes

\* Errors are never taken back.
LEMMA ErrorStays ==
  ASSUME NEW T \in Trees, NEW n, ~NoErrorIn(T)
  PROVE  ~NoErrorIn(SetError(T, n))
<1> DEFINE f == Put(T.error, GetDocument(T, n), TRUE)
<1>1. \A m \in Node : T.error[m] => f[m]
  BY DEF Put, Trees
<1>2. SetError(T, n) = [T EXCEPT !.error = f]
  BY DEF SetError
<1> HIDE DEF f
<1>3. SetError(T, n).error = f
  BY <1>2 DEF Trees
<1> QED  BY <1>1, <1>3 DEF NoErrorIn

\* Null returns to the caller.
LEMMA UnwindScan == ParseInv /\ Unwind => DocInv' /\ ScanInv'
<1> SUFFICES ASSUME ParseInv, Unwind  PROVE DocInv' /\ ScanInv'
  OBVIOUS
<1> DEFINE u == stack[Len(stack) - 1]
           f == Front(stack)
           L == LinkEndChild(dom, u, Last(stack))
<1>1. WholeInv /\ DocInv /\ ScanInv /\ phase = "failed"
  BY DEF ParseInv, Unwind
<1>2. Failed
  BY <1>1, PhasesApart
<1>3. /\ Whole(dom, stack) /\ Nested(dom, stack) /\ dom \in Trees /\ Last(stack) \in Node
      /\ Len(stack) \in Nat
  BY <1>1, TypesOf
<1>4. Len(stack) >= 2
  BY <1>1 DEF WholeInv, PhaseOf
<1>5. /\ dom' = IF dom.kind[u] = "element" THEN SetError(L, u) ELSE L
      /\ stack' = f
      /\ phase' = IF Len(stack) = 2 THEN "done" ELSE "failed"
      /\ p' = p /\ doc' = doc /\ attrs' = attrs
  BY DEF Unwind, Up, Top
<1>6. u \in Node /\ Last(f) = u
  BY <1>3, <1>4, UpIs
<1>7. Whole(L, f)
  BY <1>3, <1>4, LinkedWhole
<1>8. /\ Len(stack) = 2 => dom.kind[u] = "document"
      /\ Len(stack) # 2 => dom.kind[u] = "element"
  <2>1. CASE Len(stack) = 2
    <3>1. u = stack[1]
      BY <2>1
    <3> QED  BY <1>3, <1>6, <2>1, <3>1 DEF Nested
  <2>2. CASE Len(stack) # 2
    <3>0. \A n \in Nat : n >= 2 /\ n # 2 => n - 1 \in 2 .. n /\ n - 1 # n
      OBVIOUS
    <3>1. Len(stack) - 1 \in 2 .. Len(stack) /\ Len(stack) - 1 # Len(stack)
      BY <1>3, <1>4, <2>2, <3>0
    <3> QED  BY <1>3, <2>2, <3>1 DEF Nested
  <2> QED  BY <2>1, <2>2
<1> HIDE DEF u
<1>9. EndLinked(dom, L, u, Last(stack))
  BY <1>3, <1>6, EndLinkedIs
<1> HIDE DEF L, f
<1>10. L \in Trees /\ L.kind = dom.kind /\ L.error = dom.error
  BY <1>9 DEF EndLinked
<1>11. dom'.kind = dom.kind
  <2>1. SetError(L, u).kind = L.kind
    BY <1>10, ErredIs DEF Erred
  <2> QED  BY <1>5, <1>10, <2>1
<1>12. Live(dom') = Live(dom) /\ Free(dom') = Free(dom)
  BY <1>11, SameLive
<1>13. DocInv'
  <2>1. p \in 1 .. Len(doc) + 1
    BY <1>1 DEF DocInv
  <2> QED  BY <1>1, <1>5, <1>12, <2>1, DocSame
<1>14. Over' = Over /\ Cardinality(Live(dom')) <= p'
  BY <1>2, <1>5, <1>12 DEF Over, Failed
<1>15. CASE Len(stack) = 2
  <2>1. dom' = L /\ phase' = "done"
    BY <1>5, <1>8, <1>15
  <2>2. NoErrorIn(dom') <=> NoErrorIn(dom)
    BY <1>10, <2>1 DEF NoErrorIn
  <2>3. Done'
    BY <1>2, <1>14, <1>15, <2>1, <2>2 DEF Failed, Done
  <2> QED  BY <1>13, <2>3 DEF ScanInv
<1>16. CASE Len(stack) # 2
  <2>1. dom' = SetError(L, u) /\ phase' = "failed"
    BY <1>5, <1>8, <1>16
  <2>2. Over.mode = "bad"
    BY <1>2, <1>16 DEF Failed
  <2>3. ~NoErrorIn(dom')
    <3>1. L.kind[Last(f)] # "leaf"
      BY <1>6, <1>8, <1>10, <1>16
    <3>2. \E n \in Node : SetError(L, Last(f)).error[n]
      BY <1>7, <3>1, ErrorSet
    <3> QED  BY <1>6, <2>1, <3>2 DEF NoErrorIn
  <2>4. Failed'
    BY <1>14, <2>1, <2>2, <2>3 DEF Failed
  <2> QED  BY <1>13, <2>4 DEF ScanInv
<1> QED  BY <1>15, <1>16

-----------------------------------------------------------------------------
(* The theorems.                                                           *)

\* The invariant holds at the start.
LEMMA ParseInitInv == ParseInit => ParseInv
<1> SUFFICES ASSUME ParseInit  PROVE ParseInv
  OBVIOUS
<1>1. WholeInv
  BY WholeInit
<1>2. /\ doc = << >> /\ p = 1 /\ attrs = [n \in Node |-> << >>] /\ phase = "content"
      /\ lexicon \in Lexicons
  BY DEF ParseInit
<1>3. Len(doc) = 0 /\ doc \in Seq(Token \union {Eof}) /\ p - 1 = 0
  BY <1>2
<1>4. DocInv
  <2>1. \A n \in Free(dom) : attrs[n] = << >>
    BY <1>2 DEF Free
  <2>2. attrs \in [Node -> Seq(Attr)]
    <3>1. << >> \in Seq(Attr)
      OBVIOUS
    <3> QED  BY <1>2, <3>1
  <2>3. p \in 1 .. Len(doc) + 1 /\ \A i \in 1 .. Len(doc) : i # Len(doc) => doc[i] # Eof
    BY <1>2, <1>3
  <2> QED  BY <1>3, <2>1, <2>2, <2>3 DEF DocInv
<1>5. Here = Start
  BY <1>3, ScanSteps DEF Here
<1>6. Matches(Here, dom, stack) /\ Here.mode = "content"
  BY <1>5, StartMatches
<1>7. ModeOf(Here, dom, stack, phase, doc, p, attrs)
  BY <1>2, <1>6 DEF ModeOf
<1>8. Cardinality(Live(dom)) <= p
  <2>1. PICK d \in Node : dom = NewNode(NoTree, d, "document", "") /\ stack = <<d>>
    BY DEF ParseInit
  <2>2. dom.kind = [n \in Node |-> IF n = d THEN "document" ELSE "free"]
    BY <2>1 DEF NewNode, NoTree
  <2>3. Live(dom) = {d}
    <3>1. \A n \in Node : dom.kind[n] # "free" <=> n = d
      BY <2>2
    <3> QED  BY <3>1 DEF Live, Free
  <2>4. Cardinality({d}) = 1
    BY FS_Singleton
  <2> QED  BY <1>2, <2>3, <2>4
<1>9. ScanInv
  BY <1>6, <1>7, <1>8 DEF ScanInv, Following
<1> QED  BY <1>1, <1>2, <1>4, <1>9 DEF ParseInv

\* Every step keeps it.
LEMMA ParseStep == ParseInv /\ [ParseNext]_xvars => ParseInv'
<1> SUFFICES ASSUME ParseInv, [ParseNext]_xvars  PROVE ParseInv'
  OBVIOUS
<1>1. WholeInv' /\ lexicon' \in Lexicons
  <2>1. lexicon' = lexicon
    BY DEF ParseNext, xvars
  <2> QED  BY <2>1, WholeStep DEF ParseInv
<1>2. DocInv' /\ ScanInv'
  <2>1. CASE UNCHANGED xvars
    <3>1. /\ dom' = dom /\ doc' = doc /\ p' = p /\ stack' = stack /\ attrs' = attrs /\ phase' = phase
      BY <2>1 DEF xvars
    <3>2. DocInv'
      BY <3>1 DEF ParseInv, DocInv
    <3>3. Following' <=> Following
      BY <3>1 DEF Following, Here
    <3>4. Endless' <=> Endless
      BY <3>1 DEF Endless, Over, EofSeen, InElement, Top
    <3>5. Failed' <=> Failed
      BY <3>1 DEF Failed, Over, EofSeen, Top
    <3>6. Done' <=> Done
      BY <3>1 DEF Done, Over
    <3> QED  BY <3>2, <3>3, <3>4, <3>5, <3>6 DEF ParseInv, ScanInv
  <2>2. CASE Reveal
    BY <2>2, RevealScan
  <2>3. CASE Identify
    BY <2>3, IdentifyScan
  <2>4. CASE ReadText
    BY <2>4, ReadTextScan
  <2>5. CASE DocumentEnds
    BY <2>5, DocumentEndsScan
  <2>6. CASE LeafScan
    BY <2>6, LeafScanScan
  <2>7. CASE LeafEof
    BY <2>7, LeafEofScan
  <2>8. CASE Attribute
    BY <2>8, AttributeScan
  <2>9. CASE EmptyTag
    BY <2>9, EmptyTagScan
  <2>10. CASE StartTag
    BY <2>10, StartTagScan
  <2>11. CASE BadTag
    BY <2>11, BadTagScan
  <2>12. CASE EndTag
    BY <2>12, EndTagScan
  <2>13. CASE NoEndTag
    BY <2>13, NoEndTagScan
  <2>14. CASE Unwind
    BY <2>14, UnwindScan
  <2> QED  BY <2>1, <2>2, <2>3, <2>4, <2>5, <2>6, <2>7, <2>8, <2>9, <2>10, <2>11, <2>12, <2>13, <2>14
           DEF ParseNext
<1> QED  BY <1>1, <1>2 DEF ParseInv

\* The recursive descent is at every token where the one pass of the reference is: the
\* stack of Parse calls holds the open elements, attributes that are refused were there
\* before, and null returned up the stack means a document that the reference refuses.
THEOREM ParserFollowsScan == ParseSpec => []ParseInv
<1> QED  BY ParseInitInv, ParseStep, PTL DEF ParseSpec

\* The scan at the end of what is revealed is the reference.
LEMMA CanonicalIs ==
  ASSUME ParseInv
  PROVE  Canonical(doc) = Over
<1>1. doc \in Seq(Token \union {Eof})
  BY DEF ParseInv, DocInv
<1> QED  BY <1>1, ScanSteps DEF Over

\* Error() after Parse: set for exactly the documents the reference refuses, whatever
\* the tokens, their number and the names.
THEOREM AllErrorsReported == ParseSpec => []ErrorsReported
<1>1. ParseInv => ErrorsReported
  <2> SUFFICES ASSUME ParseInv, phase = "done"
               PROVE  Canonical(doc).mode = "bad" <=> \E n \in Node : dom.error[n]
    BY DEF ErrorsReported
  <2>1. Done
    BY DEF ParseInv, ScanInv, Following, Endless, Failed, Done, ModeOf
  <2>2. Canonical(doc) = Over
    BY CanonicalIs
  <2> QED  BY <2>1, <2>2 DEF Done, NoErrorIn
<1> QED  BY <1>1, ParserFollowsScan, PTL

\* Parse makes at most one node of a token, but of a text that the document ends in
\* inside an element.
THEOREM OneNodeEach == ParseSpec => []OneNodePerToken
<1>1. ParseInv => OneNodePerToken
  <2> SUFFICES ASSUME ParseInv  PROVE OneNodePerToken
    OBVIOUS
  <2>1. Canonical(doc) = Over
    BY CanonicalIs
  <2> QED  BY <2>1 DEF ParseInv, ScanInv, Following, Endless, Failed, Done, OneNodePerToken
<1> QED  BY <1>1, ParserFollowsScan, PTL
=============================================================================
