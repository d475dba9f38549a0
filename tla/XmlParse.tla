------------------------------ MODULE XmlParse ------------------------------
(***************************************************************************)
(* Building the DOM from a document: the Parse methods call each other     *)
(* down the nesting of the document, so that the nodes whose Parse runs    *)
(* form a stack.  A node is created with its parent set, so that errors    *)
(* find the document, and linked only when its Parse has returned.         *)
(*                                                                         *)
(* The document is a sequence of tokens <<class, name>>: what the parser's *)
(* tests for white space, tag heads and tag ends tell apart.  It is fixed, *)
(* but revealed to the model only as far as the parser looks.  White space *)
(* lies between any two tokens; quotes, entities and the encoding are not  *)
(* modelled here (see XmlText).                                            *)
(***************************************************************************)
EXTENDS XmlTree, SequencesExt

CONSTANTS Tag, Attr,  \* names of elements and attributes
          Lexicons,   \* bound: the sets of tokens that documents are made of
          MaxDoc      \* bound: the tokens of a document, its end included

VARIABLES dom,    \* the tree that is built
          lexicon, \* the tokens of this document
          doc,    \* those revealed
          p,      \* the index of the next one
          stack,  \* the nodes whose Parse runs, the document first
          attrs,  \* node -> the names in its attribute set
          phase   \* what the innermost Parse does

xvars == <<dom, lexicon, doc, p, stack, attrs, phase>>

One(c)    == <<c, "">>   \* a token without a name

LeafHeads == {"<!--", "<![CDATA[", "<!", "<?xml"}
LeafNames == {"comment", "cdata", "declaration", "unknown", "text"}
TagEnds   == {">", "/>", "-->", "]]>"}
Classes   == LeafHeads \union TagEnds \union {"text"}

Eof   == One("eof")
Token == ({"<", "</"} \X Tag) \union ({"="} \X Attr) \union {One(c) : c \in Classes}

ASSUME NamesAssumption == Tag \union LeafNames \subseteq Name
ASSUME LexiconsAssumption == \A l \in Lexicons : l \subseteq Token

IsHead(t) == t[1] \in LeafHeads \union {"<", "</"}   \* *p == '<'

ParseInit ==
    /\ \E d \in Node : dom = NewNode(NoTree, d, "document", "") /\ stack = <<d>>
    /\ lexicon \in Lexicons
    /\ doc = << >>
    /\ p = 1
    /\ attrs = [n \in Node |-> << >>]
    /\ phase = "content"

-----------------------------------------------------------------------------
Reveal ==
    /\ p >= Len(doc) /\ (doc # << >> => Last(doc) # Eof) /\ phase # "done"
    /\ \E t \in lexicon \union {Eof} :
        /\ Len(doc) + 1 = MaxDoc => t = Eof
        /\ doc' = Append(doc, t)
    /\ UNCHANGED <<dom, p, stack, attrs, phase>>

Sees(t) == p <= Len(doc) /\ doc[p] = t
SeesNext(t) == p < Len(doc) /\ doc[p + 1] = t
Top == Last(stack)
Up == stack[Len(stack) - 1]
InElement == dom.kind[Top] = "element"

\* A new node on the stack, its parent set or not yet.  Which address it gets
\* makes no difference to the parser.
Begin(k, v, parent, next) == Free(dom) # {} /\ LET n == CHOOSE n \in Free(dom) : TRUE IN
    /\ dom' = [NewNode(dom, n, k, v) EXCEPT !.parent[n] = parent]
    /\ stack' = Append(stack, n)
    /\ phase' = next
    /\ p' = p + 1
    /\ UNCHANGED <<doc, attrs>>

\* Mutant of Finish: the node becomes the first child.
FinishFirst(k) ==
    /\ dom' = IF dom.first[Up] = Nil THEN LinkEndChild(dom, Up, Top)
              ELSE LinkBefore(dom, Up, dom.first[Up], Top)
    /\ stack' = Front(stack)
    /\ phase' = "content"
    /\ p' = p + k
    /\ UNCHANGED <<doc, attrs>>

\* Parse of the innermost node returns after k tokens: its caller links it.
Finish(k) ==
    /\ dom' = LinkEndChild(dom, Up, Top)
    /\ stack' = Front(stack)
    /\ phase' = "content"
    /\ p' = p + k
    /\ UNCHANGED <<doc, attrs>>

\* It returns null instead, and reports an error.
Fail ==
    /\ dom' = SetError(dom, Top)
    /\ phase' = "failed"
    /\ UNCHANGED <<doc, p, stack, attrs>>

\* What Identify makes of a tag head; an end tag is unknown to a document.
LeafName(c) == CASE c = "<!--" -> "comment" [] c = "<![CDATA[" -> "cdata"
                 [] c = "<?xml" -> "declaration" [] OTHER -> "unknown"

Identify == phase = "content" /\ \E t \in Token :
    /\ Sees(t) /\ IsHead(t)
    /\ ~(t[1] = "</" /\ InElement)
    /\ IF t[1] = "<" THEN Begin("element", t[2], Top, "tag")
                     ELSE Begin("leaf", LeafName(t[1]), Top, "leaf")

\* ReadValue: text is not identified, and has no parent before it is linked.
ReadText == phase = "content" /\ InElement /\ \E t \in Token :
    /\ Sees(t) /\ ~IsHead(t)
    /\ Begin("leaf", "text", Nil, "leaf")

\* The document's loop stops at the end, or at anything that is no tag.
DocumentEnds ==
    /\ phase = "content" /\ ~InElement
    /\ p <= Len(doc) /\ ~IsHead(doc[p])
    /\ dom' = IF dom.first[Top] = Nil THEN SetError(dom, Top) ELSE dom
    /\ phase' = "done"
    /\ UNCHANGED <<doc, p, stack, attrs>>

\* Where the Parse of each leaf stops looking for its end.
EndsComment(t)     == t[1] = "-->"
EndsCdata(t)       == t[1] = "]]>"
EndsText(t)        == IsHead(t)
EndsUnknown(t)     == t[1] \in TagEnds
EndsDeclaration(t) == t[1] \in TagEnds

EndsLeaf(v, t) ==
    CASE v = "comment"     -> EndsComment(t)
      [] v = "cdata"       -> EndsCdata(t)
      [] v = "text"        -> EndsText(t)
      [] v = "declaration" -> EndsDeclaration(t)
      [] OTHER             -> EndsUnknown(t)

LeafScan == phase = "leaf" /\ \E t \in Token :
    /\ Sees(t)
    /\ IF EndsLeaf(dom.name[Top], t)
       THEN Finish(IF dom.name[Top] = "text" THEN 0 ELSE 1)
       ELSE p' = p + 1 /\ UNCHANGED <<dom, doc, stack, attrs, phase>>

\* Mutant of LeafEof: every leaf returns the pointer that text returns.
LeafEofBack ==
    /\ phase = "leaf" /\ Sees(Eof)
    /\ IF dom.name[Top] # "declaration" THEN Finish(0 - 1)
       ELSE phase' = "failed" /\ UNCHANGED <<dom, doc, p, stack, attrs>>

\* At the end of the document a comment, CDATA section or unknown ends too, a
\* declaration returns null, and text returns a pointer to its last character (no
\* white space lies between a text and the end).
LeafEof ==
    /\ phase = "leaf" /\ Sees(Eof)
    /\ CASE dom.name[Top] = "text" -> Finish(0 - 1)
         [] dom.name[Top] = "declaration" ->
                phase' = "failed" /\ UNCHANGED <<dom, doc, p, stack, attrs>>
         [] OTHER -> Finish(0)

\* Mutant of Attribute: a second attribute of a name is added.
AttributeTwice == phase = "tag" /\ \E x \in Attr :
    /\ Sees(<<"=", x>>) /\ p < Len(doc)
    /\ IF SeesNext(Eof) THEN Fail
       ELSE /\ attrs' = [attrs EXCEPT ![Top] = Append(@, x)]
            /\ p' = p + 1
            /\ UNCHANGED <<dom, doc, stack, phase>>

\* An attribute must be new, and something must follow it.
Attribute == phase = "tag" /\ \E x \in Attr :
    /\ Sees(<<"=", x>>) /\ p < Len(doc)
    /\ IF SeesNext(Eof) \/ Contains(attrs[Top], x) THEN Fail
       ELSE /\ attrs' = [attrs EXCEPT ![Top] = Append(@, x)]
            /\ p' = p + 1
            /\ UNCHANGED <<dom, doc, stack, phase>>

EmptyTag == phase = "tag" /\ Sees(One("/>")) /\ Finish(1)

StartTag ==
    /\ phase = "tag" /\ Sees(One(">"))
    /\ phase' = "content"
    /\ p' = p + 1
    /\ UNCHANGED <<dom, doc, stack, attrs>>

BadTag ==
    /\ phase = "tag" /\ p <= Len(doc)
    /\ doc[p][1] \notin {"=", "/>", ">"}
    /\ Fail

EndTag == phase = "content" /\ InElement /\ \E v \in Tag :
    /\ Sees(<<"</", v>>) /\ p < Len(doc)
    /\ IF v = dom.name[Top] /\ SeesNext(One(">")) THEN Finish(2) ELSE Fail

NoEndTag == phase = "content" /\ InElement /\ Sees(Eof) /\ Fail

\* Mutant of Unwind: the node of a failed Parse is not linked.
UnwindUnlinked ==
    /\ phase = "failed"
    /\ dom' = IF dom.kind[Up] = "element" THEN SetError(dom, Up) ELSE dom
    /\ stack' = Front(stack)
    /\ phase' = IF Len(stack) = 2 THEN "done" ELSE "failed"
    /\ UNCHANGED <<doc, p, attrs>>

\* Null is returned up the stack: every caller links the node it parsed, and an
\* element's ReadValue reports an error of its own (only the first is kept).
Unwind ==
    /\ phase = "failed"
    /\ LET linked == LinkEndChild(dom, Up, Top)
       IN dom' = IF dom.kind[Up] = "element" THEN SetError(linked, Up) ELSE linked
    /\ stack' = Front(stack)
    /\ phase' = IF Len(stack) = 2 THEN "done" ELSE "failed"
    /\ UNCHANGED <<doc, p, attrs>>

ParseNext ==
    /\ \/ Reveal \/ Identify \/ ReadText \/ DocumentEnds \/ LeafScan \/ LeafEof
       \/ Attribute \/ EmptyTag \/ StartTag \/ BadTag \/ EndTag \/ NoEndTag \/ Unwind
    /\ UNCHANGED lexicon

ParseSpec == ParseInit /\ [][ParseNext]_xvars

-----------------------------------------------------------------------------
(* Reference: one pass over the tokens with a stack of names.  out is the  *)
(* canonical text of the document: empty tags opened and closed, leaves    *)
(* without their contents, what the document's end leaves open closed.     *)

Start == [mode |-> "content", open |-> << >>, out |-> << >>, had |-> {}]

Emit(a, t, mode) == [a EXCEPT !.out = Append(@, t), !.mode = mode]

Close(a) == [Emit(a, <<"</", Last(a.open)>>, "content") EXCEPT !.open = Front(@)]

InContent(a, t) ==
    CASE t[1] = "<" -> [Emit(a, t, "tag") EXCEPT !.open = Append(@, t[2]), !.had = {}]
      [] t[1] = "</" /\ a.open # << >> ->
            [a EXCEPT !.mode = IF t[2] = Last(a.open) THEN "endtag" ELSE "bad"]
      [] t[1] \in LeafHeads \/ (t[1] = "</" /\ a.open = << >>) ->
            Emit(a, One(LeafName(t[1])), LeafName(t[1]))
      [] t = Eof -> [a EXCEPT !.mode = IF a.open # << >> \/ a.out = << >> THEN "bad" ELSE "end"]
      [] OTHER -> IF a.mode = "text" THEN a
                  ELSE IF a.open # << >> THEN Emit(a, One("text"), "text")
                  ELSE [a EXCEPT !.mode = IF a.out = << >> THEN "bad" ELSE "end"]

InTag(a, t) ==
    CASE t[1] = "=" /\ t[2] \notin a.had -> [Emit(a, t, "tag") EXCEPT !.had = @ \union {t[2]}]
      [] t[1] = ">" -> Emit(a, t, "content")
      [] t[1] = "/>" -> Close(Emit(a, One(">"), "content"))
      [] OTHER -> [a EXCEPT !.mode = "bad"]

InLeaf(a, t) ==
    IF t = Eof THEN [a EXCEPT !.mode = IF a.open = << >> THEN "end" ELSE "bad"]
    ELSE IF EndsLeaf(a.mode, t) THEN [a EXCEPT !.mode = "content"] ELSE a

Step(a, t) ==
    CASE a.mode \in {"bad", "end"} -> a
      [] a.mode \in {"content", "text"} ->
            IF a.mode = "text" /\ t = Eof THEN [a EXCEPT !.mode = "endless"] ELSE InContent(a, t)
      [] a.mode = "tag" -> InTag(a, t)
      [] a.mode = "endtag" -> IF t[1] = ">" THEN Close(a) ELSE [a EXCEPT !.mode = "bad"]
      [] OTHER -> InLeaf(a, t)

Canonical(d) ==
    LET upTo[n \in 0 .. Len(d)] == IF n = 0 THEN Start ELSE Step(upTo[n - 1], d[n])
    IN upTo[Len(d)]

-----------------------------------------------------------------------------
(* Properties.                                                             *)

ParseTypeOK ==
    /\ dom \in Trees
    /\ p \in 1 .. MaxDoc + 1 /\ doc \in BoundedSeq(Token \union {Eof}, MaxDoc)
    /\ phase \in {"content", "tag", "leaf", "failed", "done"}

\* Parse reports an error for exactly the documents the reference refuses.
ErrorsReported == phase = "done" =>
    (Canonical(doc).mode = "bad" <=> \E n \in Node : dom.error[n])

\* Every node is in the tree once the Parse that made it has returned, after an
\* error too; until then it is on the stack.
NoNodeLost == \A n \in Live(dom) :
    \/ \E i \in 1 .. Len(stack) : stack[i] = n
    \/ dom.parent[n] # Nil /\ Contains(Children(dom, dom.parent[n]), n)

\* The parser makes at most one node of a token, unless the document ends in
\* text inside an element: then it makes nodes of the last character for ever.
OneNodePerToken ==
    Cardinality(Live(dom)) <= p \/ Canonical(doc).mode = "endless"

\* The comment on ReadValue: it "should terminate with the current end tag".  Then
\* each node it makes uses up at least one token.  A text that the document ends in
\* uses up none: ReadValue finds it again and makes another node of it, for ever.
ReadValueAdvances == Cardinality(Live(dom)) <= p
=============================================================================
