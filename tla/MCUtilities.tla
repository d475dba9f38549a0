----------------------------- MODULE MCUtilities -----------------------------
(***************************************************************************)
(* The parts of the library that one caller uses and that keep no thread:  *)
(* the DOM, attributes, strings and texts of the XML library, files,       *)
(* chunks, digests and helpers.  They do not use each other here, and one  *)
(* of them moves in a behaviour; pure functions take no step.              *)
(***************************************************************************)
EXTENDS XmlTree, XmlAttributes, XmlString, XmlText, FileInputStream, Chunker, Digest, Helpers

VARIABLES part, sample

vars == <<tree, avars, svars, fvars, cvars, dvars, part, sample>>

-----------------------------------------------------------------------------
MCChars == {"a", "b"}

MCPieces == {<< >>, <<"a">>, <<"b", "a">>}

\* Samples of the pure functions of the XML library: texts with what has an
\* entity, the code points around every boundary of UTF-8, lines of characters
\* that are whole (of one to four bytes) or cut off, and the digits of references,
\* 15 a hexadecimal one and 99 none.
MarkedTexts == UNION {[1 .. n -> {"&", "<", "\"", "LF", "CR", "#", "x", ";", " "}] : n \in 0 .. 4}
CodePoints  == UNION {{b - 1, b, b + 1} : b \in {1, 128, 2048, 4096, 65536, 1048576, 1114111}}
LineChars   == {<<10>>, <<13>>, <<9>>, <<120>>, <<195, 169>>, <<239, 187, 191>>,
                <<239, 188, 129>>, <<240, 159, 146, 169>>}
CutChars    == {<<195>>, <<187>>, <<239>>, <<239, 187>>, <<240, 159>>}
Lines       == UNION {[1 .. n -> LineChars \union CutChars] : n \in 0 .. 3}
DigitLists  == UNION {[1 .. n -> {0, 1, 9, 15, 99}] : n \in 0 .. 3}

XmlSamples == ({"marked"} \X MarkedTexts) \union ({"code"} \X CodePoints)
              \union ({"lines"} \X Lines) \union ({"digits"} \X DigitLists)

\* Samples of the helpers: texts, bytes, and ints of both signs.
Texts       == UNION {[1 .. n -> {"a", "b", " ", "LF"}] : n \in 0 .. 4}
ByteStrings == UNION {[1 .. n -> {0, 1, 128, 255}] : n \in 0 .. 4}
Ints        == {b * s : b \in {0, 1, 127, 128, 255, 256, 65535, 65536, 16777216, 2147483647}, s \in {1, -1}}
               \union {(-2147483647) - 1}

HelperSamples == ({"text"} \X Texts) \union ({"bytes"} \X ByteStrings) \union ({"int"} \X Ints)

-----------------------------------------------------------------------------
Init ==
    /\ part \in {"tree", "attributes", "string", "conversions", "file", "chunker", "digest", "helpers"}
    /\ CASE part = "conversions" -> sample \in XmlSamples
         [] part = "helpers"     -> sample \in HelperSamples
         [] OTHER                -> sample = << >>
    /\ DigestInit /\ (part = "digest" \/ kind = "md5")
    /\ TreeInit /\ AttrInit /\ StringInit /\ FileInit /\ ChunkerInit

Next ==
    /\ \/ part = "tree" /\ TreeNext /\ UNCHANGED <<avars, svars, fvars, cvars, dvars>>
       \/ part = "attributes" /\ AttrNext /\ UNCHANGED <<tree, svars, fvars, cvars, dvars>>
       \/ part = "string" /\ StringNext /\ UNCHANGED <<tree, avars, fvars, cvars, dvars>>
       \/ part = "file" /\ FileNext /\ UNCHANGED <<tree, avars, svars, cvars, dvars>>
       \/ part = "chunker" /\ ChunkerNext /\ UNCHANGED <<tree, avars, svars, fvars, dvars>>
       \/ part = "digest" /\ DigestNext /\ UNCHANGED <<tree, avars, svars, fvars, cvars>>
    /\ UNCHANGED <<part, sample>>

Spec == Init /\ [][Next]_vars

-----------------------------------------------------------------------------
\* A sample of the converted part survives: a text is read back as EncodeString
\* wrote it and LoadFile keeps its lines; the bytes of a code point are as many
\* as the parser will take for it; lines are counted; digits make their number.
TextSurvives == part = "conversions" =>
    CASE sample[1] = "marked" -> Escaped(sample[2]) /\ Normalized(sample[2])
      [] sample[1] = "code"   -> Framed(sample[2])
      [] sample[1] = "lines"  -> Located(sample[2])
      [] OTHER -> \A base \in {10, 16} : Referenced(sample[2], base)

\* The pure functions agree with what they promise: strings are trimmed and
\* split, bytes survive base64, and an int survives its bytes.
HelpersExact == part = "helpers" =>
    CASE sample[1] = "text"  -> TextExact(sample[2])
      [] sample[1] = "bytes" -> Base64Exact(sample[2])
      [] OTHER               -> IntExact(sample[2])

Symmetry == Permutations(Node)
=============================================================================
