------------------------------ MODULE JsonPull ------------------------------
(***************************************************************************)
(* The pull parser of JSON and its enumerations (json_pull,                *)
(* json_enumeration): a client takes events one by one, or enumerates the  *)
(* keys of objects and the elements of arrays, and may leave what it does  *)
(* not want unread.  The stream gives one byte a call.                     *)
(*                                                                         *)
(* Reading an uninitialised byte after the end of the document and popping *)
(* an empty buffer are undefined: nothing is said of the parser afterwards *)
(* (status "wild"), only of when that happens.                             *)
(*                                                                         *)
(* The client enumerates through its innermost open enumerations, asks for *)
(* an element only when told there is one, and stops at the end of the     *)
(* root.                                                                   *)
(***************************************************************************)
EXTENDS Integers, SequencesExt

CONSTANT Docs   \* documents, as sequences of characters

ASSUME DocsAssumption == Docs \subseteq Seq(STRING)

VARIABLES json,    \* the document in the stream
          ref,     \* what the reference makes of it
          pull,    \* the parser's fields
          events,  \* history: the events returned, <<event, position in json>>
          frames   \* the client's open enumerations, the outermost first

jvars == <<json, ref, pull, events, frames>>

Blank(c)  == c = " "
Quote     == "\""
Backslash == "\\"

-----------------------------------------------------------------------------
(* Reference: the events of a document by one pass over its characters,    *)
(* with the open brackets and what is wanted next; bad once the document   *)
(* is malformed, odd once it has what the parser is not defined for: a     *)
(* number or literal, a string in an array, three backslashes or more in a *)
(* row.                                                                    *)

Fresh == [open |-> << >>, want |-> "value", out |-> << >>, slashes |-> 0, i |-> 0,
          bad |-> FALSE, odd |-> FALSE]

After(a) == [a EXCEPT !.want = IF a.open = << >> THEN "nothing" ELSE "separator"]

Inside(a) == IF a.open = << >> THEN "none" ELSE Last(a.open)

InString(a, c) ==
    IF c = Backslash THEN [a EXCEPT !.slashes = @ + 1, !.odd = @ \/ a.slashes = 2]
    ELSE IF c # Quote \/ a.slashes % 2 = 1 THEN [a EXCEPT !.slashes = 0]
    ELSE IF a.want = "string" THEN After([a EXCEPT !.out = Append(@, <<"string", a.i>>)])
    ELSE [a EXCEPT !.want = "colon"]

Outside(a, c) ==
    CASE c = Quote /\ a.want = "value" ->
            [a EXCEPT !.want = "string", !.slashes = 0, !.odd = @ \/ Inside(a) = "["]
      [] c = Quote /\ a.want = "key" -> [a EXCEPT !.want = "keytext", !.slashes = 0]
      [] c = ":" /\ a.want = "colon" -> [a EXCEPT !.want = "value", !.out = Append(@, <<"key", a.i>>)]
      [] c \in {"{", "["} /\ a.want = "value" ->
            [a EXCEPT !.open = Append(@, c), !.want = IF c = "{" THEN "key" ELSE "value",
                      !.out = Append(@, <<c, a.i>>)]
      [] c = "," /\ a.want = "separator" ->
            [a EXCEPT !.want = IF Inside(a) = "{" THEN "key" ELSE "value"]
      [] c \in {"}", "]"} /\ a.open # << >> /\ Inside(a) = (IF c = "}" THEN "{" ELSE "[")
         /\ a.want \in {"separator", "key", "value"} /\ ~(c = "}" /\ a.want = "value") ->
            After([a EXCEPT !.open = Front(@), !.out = Append(@, <<c, a.i>>)])
      [] a.want = "value" /\ c \notin {"{", "}", "[", "]", ",", ":", Quote} -> [After(a) EXCEPT !.odd = TRUE]
      [] OTHER -> [a EXCEPT !.bad = TRUE]

ScanStep(a, c) ==
    LET b == [a EXCEPT !.i = @ + 1]
    IN IF a.bad \/ a.odd THEN b
       ELSE IF a.want \in {"string", "keytext"} THEN InString(b, c)
       ELSE IF Blank(c) THEN b ELSE Outside(b, c)

Scan(d) ==
    LET upTo[n \in 0 .. Len(d)] == IF n = 0 THEN Fresh ELSE ScanStep(upTo[n - 1], d[n])
    IN upTo[Len(d)]

\* The number of brackets open after the first n events.
Depth(out, n) ==
    Cardinality({i \in 1 .. n : out[i][1] \in {"{", "["}})
      - Cardinality({i \in 1 .. n : out[i][1] \in {"}", "]"}})

\* The events that are keys of the object begun by event s.
KeysOf(out, s) ==
    {n \in s + 1 .. Len(out) : /\ out[n][1] = "key" /\ Depth(out, n) = Depth(out, s)
                              /\ \A m \in s .. n : Depth(out, m) >= Depth(out, s)}

\* What the document is, and the keys of the object that each event begins.
\* plain: the parser is defined for it.
Reference(d) ==
    LET a == Scan(d)
    IN [out |-> a.out, plain |-> ~a.bad /\ ~a.odd,
        whole |-> ~a.bad /\ ~a.odd /\ a.want = "nothing",
        keys |-> [n \in DOMAIN a.out |-> KeysOf(a.out, n)]]

-----------------------------------------------------------------------------
\* state starts as STATE_VALUE over STATE_END.
PullInit ==
    /\ json \in Docs /\ ref = Reference(json)
    /\ pull = [state |-> "value", stack |-> <<"end">>, buffer |-> << >>, pos |-> 0,
               status |-> "ok", event |-> "none"]
    /\ events = << >>
    /\ frames = << >>

-----------------------------------------------------------------------------
(* The parser; each operator is a function of its fields.                  *)

Throw(P) == [P EXCEPT !.status = "thrown"]
Wild(P)  == [P EXCEPT !.status = "wild"]

\* F of P, unless P has failed.
Then(P, F(_)) == IF P.status = "ok" THEN F(P) ELSE P

\* next_value once n characters of the document are read: blanks in front go.
Fronted(P, n) ==
    LET input == P.buffer \o SubSeq(json, P.pos + 1, n)
        i == SelectInSeq(input, LAMBDA c : ~Blank(c))
    IN IF i = 0 THEN Wild(P) ELSE [P EXCEPT !.buffer = SubSeq(input, i, Len(input)), !.pos = n]

\* The place of the next character that is not blank, or the end.
NextAt(P) ==
    LET ahead == {n \in P.pos + 1 .. Len(json) : ~Blank(json[n])}
    IN IF ahead = {} THEN Len(json) ELSE Min(ahead)

InFront(P) == \E i \in DOMAIN P.buffer : ~Blank(P.buffer[i])

\* Mutant of NextValue: a blank in front of a value is taken for it.
NextValueBlank(P) ==
    IF P.buffer # << >> THEN P
    ELSE IF P.pos = Len(json) THEN Wild(P)
    ELSE [P EXCEPT !.buffer = <<json[P.pos + 1]>>, !.pos = @ + 1]

\* Mutant of NextValue: one byte more is read.
NextValueAhead(P) ==
    IF InFront(P) \/ NextAt(P) = Len(json) THEN Fronted(P, NextAt(P)) ELSE Fronted(P, NextAt(P) + 1)

\* next_value: bytes are read one at a time until one that is not blank is in
\* front.
NextValue(P) == IF InFront(P) THEN Fronted(P, P.pos) ELSE Fronted(P, NextAt(P))

\* index_of: a quote is none after a backslash that has no backslash before it.
EndsString(from, j) ==
    /\ json[j] = Quote
    /\ j - 1 > from /\ json[j - 1] = Backslash => j - 2 > from /\ json[j - 2] = Backslash

\* parse_and_set_string, from the opening quote in front to the closing one.
ParseString(P) ==
    LET ends == {j \in P.pos + 1 .. Len(json) : EndsString(P.pos, j)}
    IN IF ends = {} THEN Wild(P)
       ELSE [P EXCEPT !.buffer = Tail(@), !.pos = Min(ends)]

Push(P, s) == [P EXCEPT !.stack = Append(@, P.state), !.state = s]
Pop(P)     == [P EXCEPT !.stack = Front(@), !.state = Last(P.stack)]

\* return_value takes the first byte away; there may be none.
ReturnValue(P, e) ==
    Then(P, LAMBDA Q : IF Q.buffer = << >> THEN Wild(Q)
                       ELSE [Q EXCEPT !.buffer = Tail(@), !.event = e])

\* A dummy is pushed after a string for ReturnValue to pop.  A variable is
\* trimmed to nothing, since everything is white space to set_string, and then
\* popped from the empty buffer.
ValueState(P) ==
    CASE Head(P.buffer) = Quote -> Then(ParseString(P), LAMBDA Q : [Pop(Q) EXCEPT !.event = "string"])
      [] Head(P.buffer) = "{" -> ReturnValue([P EXCEPT !.state = "object"], "{")
      [] Head(P.buffer) = "[" -> ReturnValue([P EXCEPT !.state = "array"], "[")
      [] OTHER -> Wild(P)

SkipSeparator(P) ==
    IF Head(P.buffer) = "," THEN NextValue([P EXCEPT !.buffer = Tail(@)]) ELSE P

\* No dummy here: a string leaves nothing to pop.
ArrayState(P) ==
    CASE Head(P.buffer) = "]" -> ReturnValue(Pop(P), "]")
      [] Head(P.buffer) = Quote -> ReturnValue(ParseString(P), "string")
      [] Head(P.buffer) = "{" -> ReturnValue(Push(P, "object"), "{")
      [] Head(P.buffer) = "[" -> ReturnValue(Push(P, "array"), "[")
      [] OTHER -> Wild(P)

Colon(P) == IF Head(P.buffer) = ":" THEN ReturnValue(Push(P, "value"), "key") ELSE Throw(P)

ObjectState(P) ==
    CASE Head(P.buffer) = "}" -> ReturnValue(Pop(P), "}")
      [] Head(P.buffer) = Quote -> Then(Then(ParseString(P), NextValue), Colon)
      [] OTHER -> Throw(P)

InState(P) ==
    CASE P.state = "value" -> ValueState(P)
      [] P.state = "array" -> Then(SkipSeparator(P), ArrayState)
      [] P.state = "object" -> Then(SkipSeparator(P), ObjectState)
      [] OTHER -> Throw(P)

NextEvent(P) == Then(NextValue(P), InState)

\* R is the parser and the events it has returned: both after one more next.
Advance(R) ==
    LET P == NextEvent(R[1])
    IN <<P, IF P.status = "ok" THEN Append(R[2], <<P.event, P.pos>>) ELSE R[2]>>

\* R after as many more as it takes to reach Done; each takes a character or more.
AdvanceTo(Done(_), R) ==
    LET after[n \in 0 .. Len(json)] ==
            IF n = 0 THEN R
            ELSE LET Q == after[n - 1] IN IF Q[1].status # "ok" \/ Done(Q) THEN Q ELSE Advance(Q)
    IN after[Len(json)]

\* Mutant of SeekLevel: it stops at the end of any object.
SeekLevelShort(level) ==
    AdvanceTo(LAMBDA R : Len(R[1].stack) <= level \/ R[1].event = "}", <<pull, events>>)

\* seek_level: next() until the stack is no higher.
SeekLevel(level) == AdvanceTo(LAMBDA R : Len(R[1].stack) <= level, <<pull, events>>)

-----------------------------------------------------------------------------
(* The client's calls.                                                     *)

Running == pull.status = "ok" /\ pull.state # "end"

Becomes(R) == pull' = R[1] /\ events' = R[2]

\* next() once; assert_event_type throws on another event than the wanted.
Take(e) == \E R \in {Advance(<<pull, events>>)} :
    /\ pull' = IF R[1].status = "ok" /\ R[1].event # e
               THEN [R[1] EXCEPT !.status = "refused"] ELSE R[1]
    /\ events' = R[2]

PullEvent ==
    /\ Running /\ frames = << >>
    /\ Becomes(Advance(<<pull, events>>))
    /\ UNCHANGED <<json, ref, frames>>

\* An element that was announced has not been taken.
Due == frames # << >> /\ Last(frames).due

\* object_elements and array_elements: as the root, as the value of a key just
\* taken, or as the element of an array.
Elements(start, end) ==
    /\ Running
    /\ \/ frames = << >>
       \/ pull.state = "value"
       \/ Due /\ pull.state = "array"
    /\ Take(start)
    /\ frames' = IF pull'.status # "ok" THEN frames
                 ELSE Append(IF frames = << >> THEN << >>
                             ELSE [frames EXCEPT ![Len(frames)].due = FALSE],
                             [level |-> Len(pull'.stack), end |-> end, start |-> Len(events'),
                              keys |-> << >>, due |-> FALSE, over |-> FALSE])
    /\ UNCHANGED <<json, ref>>

\* has_more_elements of any open enumeration; those inside it are given up.  At
\* its end the enumeration is over, and the terminator taken.
HasMore(k) ==
    /\ Running /\ k \in DOMAIN frames /\ ~frames[k].over
    /\ \E R \in {SeekLevel(frames[k].level)} : \E P \in {Then(R[1], NextValue)} :
        LET more == P.status = "ok" /\ Head(P.buffer) # frames[k].end
            over == P.status = "ok" /\ ~more
        IN /\ Becomes(IF over THEN Advance(<<P, R[2]>>) ELSE <<P, R[2]>>)
           /\ frames' = [SubSeq(frames, 1, k) EXCEPT ![k].due = more, ![k].over = over]
    /\ UNCHANGED <<json, ref>>

\* next_element, of an object.
NextElement ==
    /\ Running /\ Due
    /\ Take("key")
    /\ frames' = [frames EXCEPT ![Len(frames)].due = FALSE,
                                ![Len(frames)].keys = Append(@, Len(events'))]
    /\ UNCHANGED <<json, ref>>

\* get_string_value of the value of a key.
StringValue ==
    /\ Running /\ frames # << >> /\ pull.state = "value"
    /\ Take("string")
    /\ UNCHANGED <<json, ref, frames>>

PullNext ==
    \/ PullEvent \/ Elements("{", "}") \/ Elements("[", "]")
    \/ \E k \in 1 .. Len(frames) : HasMore(k)
    \/ NextElement \/ StringValue

PullSpec == PullInit /\ [][PullNext]_jvars

-----------------------------------------------------------------------------
(* Properties.                                                             *)

\* The events returned are the document's, in order, whatever was skipped; and
\* the parser fails only on documents that are malformed, cut short or of the
\* kinds it is not defined for.
EventsExact ==
    /\ ref.plain => IsPrefix(events, ref.out)
    /\ ref.whole => pull.status \in {"ok", "refused"}
    /\ ref.whole /\ pull.status = "ok" => (events = ref.out <=> pull.state = "end")

\* An enumeration gives the keys of its own object, none of an object inside,
\* each once and in order; it has none left out of what was read, and there are
\* no more of them when it is over.
KeysExact == \A k \in DOMAIN frames :
    pull.status = "ok" /\ ref.plain /\ frames[k].end = "}" =>
        LET keys == frames[k].keys
            own  == ref.keys[frames[k].start]
        IN /\ \A i, j \in DOMAIN keys : i < j => keys[i] < keys[j]
           /\ ToSet(keys) = {n \in own : n <= Len(events)}
           /\ frames[k].over => own \subseteq 1 .. Len(events)

\* At most one byte is read that no event has used, and none after the end of
\* the root: a stream that stays open is never waited for in vain.
ReadsNoFurther ==
    pull.status = "ok" /\ ref.plain =>
        /\ Len(pull.buffer) <= 1
        /\ IF Len(events) < Len(ref.out)
           THEN pull.pos <= ref.out[Len(events) + 1][2]
           ELSE pull.state = "end" => pull.pos = Last(ref.out)[2]
=============================================================================
