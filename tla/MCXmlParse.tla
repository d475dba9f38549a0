----------------------------- MODULE MCXmlParse -----------------------------
(***************************************************************************)
(* Documents parsed and printed, for model checking.                       *)
(***************************************************************************)
EXTENDS XmlPrint

Head1(v) == <<"<", v>>
End(v)   == <<"</", v>>

\* Nesting; attributes; texts beside comments, unknowns, CDATA and declarations.
MCLexicons == {
    {Head1("a"), Head1("b"), End("a"), End("b"), One(">"), One("/>")},
    {Head1("a"), End("a"), One(">"), One("/>"), <<"=", "x">>},
    {Head1("a"), End("a"), One(">"), One("text"), One("<!--"), One("-->")},
    {Head1("a"), End("a"), One(">"), One("text"), One("<!")},
    {Head1("a"), End("a"), One(">"), One("text"), One("<![CDATA["), One("]]>")},
    {Head1("a"), End("a"), One(">"), One("text"), One("<?xml")}}

\* The client's tree of XmlTree takes no part.  Which address the document has
\* makes no difference.
Init == TreeInit /\ ParseInit /\ stack = <<1>>
Next == ParseNext /\ UNCHANGED tree

Spec == Init /\ [][Next]_<<tree, xvars>>
=============================================================================
