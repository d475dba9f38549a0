------------------------------ MODULE MCParsers ------------------------------
(***************************************************************************)
(* The two parsers of the library, of XML and of JSON, for model checking. *)
(* They do not use each other: one of them moves in a behaviour.           *)
(***************************************************************************)
EXTENDS MCXmlParse, JsonPull

VARIABLE language

\* Strings that are plain, empty, or have escapes; objects and arrays in
\* each other, with blanks and without; documents that the parser is not defined
\* for, malformed ones, and all beginnings of one.
Str(s) == <<"\"">> \o s \o <<"\"">>
Obj(k, v) == <<"{">> \o Str(<<k>>) \o <<":">> \o v \o <<"}">>
Obj2(v, w) == <<"{", " ">> \o Str(<<"k">>) \o <<" ", ":">> \o v \o <<" ", ",">>
              \o Str(<<"m">>) \o <<":", " ">> \o w \o <<" ", "}">>
Arr(s) == <<"[">> \o s \o <<"]">>

Flat == {Str(<<"s">>), Str(<< >>), Str(<<"\\", "\"">>), Str(<<"}", "\\", "\\">>),
         Arr(<< >>), <<"{", "}">>, Arr(<<"{", "}", ",", " ", "{", "}">>), Arr(<<"[", "]", " ">>)}
Nested == Flat \union {Obj("m", v) : v \in Flat} \union {Arr(Obj("k", v)) : v \in Flat}
Unusual == {Str(<<"\\", "\\", "\\", "\"">>), Arr(Str(<<"s">>)), <<"1">>}
Beside == {Str(<<"\\", "\"">>), Arr(<<"{", "}", ",", " ", "{", "}">>)}
Sound == {Obj2(v, w) : v \in Nested, w \in Beside} \union {Obj2(w, v) : v \in Nested, w \in Beside}
         \union {Arr(Obj("k", v) \o <<",", " ">> \o Obj("m", w)) : v \in Beside, w \in Nested}
Malformed == {Obj("k", <<",">>), <<"{", ",", "}">>, <<"{", "k">>,
              <<"{">> \o Str(<<"k">>) \o Str(<<"m">>) \o <<"}">>}
Beginnings == LET d == Obj2(Str(<<"s">>), Arr(Obj("k", Str(<<"s">>))))
              IN {SubSeq(d, 1, n) : n \in 0 .. Len(d) - 1}

MCDocs == Sound \union Malformed \union Beginnings
          \union {Obj2(v, w) : v \in Unusual, w \in Flat}

ParsersInit ==
    /\ language \in {"xml", "json"}
    /\ Init /\ (language = "json" => lexicon = CHOOSE l \in MCLexicons : TRUE)
    /\ PullInit /\ (language = "xml" => json = << >>)

ParsersNext ==
    /\ \/ language = "xml" /\ Next /\ UNCHANGED jvars
       \/ language = "json" /\ PullNext /\ UNCHANGED <<tree, xvars>>
    /\ UNCHANGED language

ParsersSpec == ParsersInit /\ [][ParsersNext]_<<tree, xvars, jvars, language>>
=============================================================================
