------------------------------ MODULE XmlPrint ------------------------------
(***************************************************************************)
(* The two ways a document is written: Accept with a TiXmlPrinter, and     *)
(* Print.  What they write is a document again, as a sequence of tokens;   *)
(* the layout is left out.                                                 *)
(***************************************************************************)
EXTENDS XmlParse

Opens(n)    == <<<<"<", dom.name[n]>>>>
ClosesAs(n) == <<<<"</", dom.name[n]>>, One(">")>>
Childless(n) == dom.first[n] = Nil

PrintAttributes(n) == [i \in DOMAIN attrs[n] |-> <<"=", attrs[n][i]>>]

\* Text that is no CDATA section is written encoded, without marks of its own.
PrintText(v)     == IF v = "cdata" THEN <<One("<![CDATA["), One("]]>")>> ELSE <<One("text")>>
PrintComment     == <<One("<!--"), One("-->")>>
PrintDeclaration == <<One("<?xml"), One(">")>>
PrintUnknown     == <<One("<!"), One(">")>>

PrintLeaf(n) ==
    CASE dom.name[n] = "comment"     -> PrintComment
      [] dom.name[n] = "declaration" -> PrintDeclaration
      [] dom.name[n] = "unknown"     -> PrintUnknown
      [] OTHER                       -> PrintText(dom.name[n])

-----------------------------------------------------------------------------
(* TiXmlPrinter.                                                           *)

VisitEnter(n) ==
    Opens(n) \o PrintAttributes(n) \o (IF Childless(n) THEN <<One("/>")>> ELSE <<One(">")>>)

VisitExit(n) == IF Childless(n) THEN << >> ELSE ClosesAs(n)

Visit(n) == PrintLeaf(n)

RECURSIVE Accepted(_)

\* Accept of the children, first to last.
AcceptedChildren(n) ==
    LET kids == Children(dom, n) IN FlattenSeq([i \in 1 .. Len(kids) |-> Accepted(kids[i])])

Accepted(n) ==
    CASE dom.kind[n] = "document" -> AcceptedChildren(n)
      [] dom.kind[n] = "leaf"     -> Visit(n)
      [] OTHER                    -> VisitEnter(n) \o AcceptedChildren(n) \o VisitExit(n)

-----------------------------------------------------------------------------
(* Print.                                                                  *)

RECURSIVE Printed(_)

PrintedChildren(n) ==
    LET kids == Children(dom, n) IN FlattenSeq([i \in 1 .. Len(kids) |-> Printed(kids[i])])

Printed(n) ==
    CASE dom.kind[n] = "document" -> PrintedChildren(n)
      [] dom.kind[n] = "leaf"     -> PrintLeaf(n)
      [] Childless(n)             -> Opens(n) \o PrintAttributes(n) \o <<One("/>")>>
      [] OTHER -> Opens(n) \o PrintAttributes(n) \o <<One(">")>>
                  \o PrintedChildren(n) \o ClosesAs(n)

-----------------------------------------------------------------------------
\* What was parsed without an error is printed, in both ways, as the same
\* document: no node is lost, doubled, misplaced or given to the wrong parent.
RoundTrip ==
    phase = "done" /\ (\A n \in Node : ~dom.error[n]) =>
        LET printed == Accepted(stack[1])
        IN /\ Printed(stack[1]) = printed
           /\ Canonical(Append(printed, Eof)).out = Canonical(doc).out
=============================================================================
