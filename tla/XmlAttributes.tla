---------------------------- MODULE XmlAttributes ----------------------------
(***************************************************************************)
(* The attributes of an element (TiXmlAttributeSet): a ring of nodes       *)
(* closed by a sentinel, which is told from the others by having neither   *)
(* name nor value.  The client may rename an attribute, which looks for no *)
(* namesake: it keeps the names apart itself.                              *)
(***************************************************************************)
EXTENDS Naturals, Sequences, FiniteSets

CONSTANTS Slot,      \* the addresses of attributes
          Sentinel,  \* the address of the sentinel
          AttrName, AttrValue  \* "" is in both

ASSUME SlotAssumption == IsFiniteSet(Slot)
ASSUME SentinelAssumption == Sentinel \notin Slot
ASSUME EmptyAssumption == "" \in AttrName /\ "" \in AttrValue
ASSUME NoneAssumption == "none" \notin AttrValue   \* it stands for null

VARIABLES ring,    \* the fields of each attribute: name, value, next, prev
          alive,   \* the attributes allocated, those not yet linked included
          given,   \* history: name -> the value last given to it, or "none"
          aborted  \* an assertion has failed

avars == <<ring, alive, given, aborted>>

Ring == Slot \union {Sentinel}

Apart == [name |-> "", value |-> "", next |-> Sentinel, prev |-> Sentinel]

AttrInit ==
    /\ ring = [a \in Ring |-> Apart]
    /\ alive = {}
    /\ given = [v \in AttrName |-> "none"]
    /\ aborted = FALSE

-----------------------------------------------------------------------------
\* The attributes met along a link, from the sentinel back to it.
Round(link) ==
    LET at[i \in 0 .. Cardinality(Slot)] ==
            IF i = 0 THEN ring[Sentinel][link]
            ELSE IF at[i - 1] = Sentinel THEN Sentinel ELSE ring[at[i - 1]][link]
        n == Cardinality({i \in DOMAIN at : at[i] # Sentinel})
    IN [i \in 1 .. n |-> at[i - 1]]

Members == Round("next")

Find(v) ==
    LET hits == {i \in DOMAIN Members : ring[Members[i]].name = v}
    IN IF hits = {} THEN Sentinel ELSE Members[CHOOSE i \in hits : \A j \in hits : i <= j]

\* TiXmlElement::Attribute(v), null being "none".
Attribute(v) == IF Find(v) = Sentinel THEN "none" ELSE ring[Find(v)].value

IsNumber(w) == w # ""   \* sscanf finds one

\* QueryIntAttribute and QueryDoubleAttribute.
Query(v) == IF Find(v) = Sentinel THEN "NO_ATTRIBUTE"
            ELSE IF IsNumber(ring[Find(v)].value) THEN "SUCCESS" ELSE "WRONG_TYPE"

Blank(a) == ring[a].name = "" /\ ring[a].value = ""

\* for (a = First(); a; a = a->Next()), or from Last() with Previous().
Iterated(link) ==
    LET all == Round(link)
        stops == {i \in 2 .. Len(all) : Blank(all[i])}
    IN SubSeq(all, 1, IF stops = {} THEN Len(all)
                      ELSE (CHOOSE i \in stops : \A j \in stops : i <= j) - 1)

\* The ring with a, made of name v and value w, before the sentinel.
Added(a, v, w) ==
    LET z == ring[Sentinel].prev
        r == [ring EXCEPT ![a] = [name |-> v, value |-> w, next |-> Sentinel, prev |-> z]]
    IN [r EXCEPT ![z].next = a, ![Sentinel].prev = a]

\* Mutant of Removed: the backward link is left.
RemovedForward(a) == [ring EXCEPT ![ring[a].prev].next = ring[a].next, ![a] = Apart]

\* The ring without a.
Removed(a) ==
    LET r == [ring EXCEPT ![ring[a].prev].next = ring[a].next]
    IN [r EXCEPT ![r[a].next].prev = r[a].prev, ![a] = Apart]

-----------------------------------------------------------------------------
\* Add asserts that no attribute has the new one's name, which is still empty.
SetAttribute(v, w) ==
    /\ ~aborted
    /\ IF Find(v) # Sentinel
       THEN /\ ring' = [ring EXCEPT ![Find(v)].value = w]
            /\ given' = [given EXCEPT ![v] = w]
            /\ UNCHANGED <<alive, aborted>>
       ELSE IF Find("") # Sentinel THEN aborted' = TRUE /\ UNCHANGED <<ring, alive, given>>
       ELSE \E a \in Slot \ alive :
            /\ ring' = Added(a, v, w)
            /\ alive' = alive \union {a}
            /\ given' = [given EXCEPT ![v] = w]
            /\ UNCHANGED aborted

\* The parser's own addition: a second attribute of a name is deleted again.
ParseAttribute(v, w) ==
    /\ ~aborted /\ Find(v) = Sentinel
    /\ \E a \in Slot \ alive : ring' = Added(a, v, w) /\ alive' = alive \union {a}
    /\ given' = [given EXCEPT ![v] = w]
    /\ UNCHANGED aborted

RemoveAttribute(v) ==
    /\ ~aborted /\ Find(v) # Sentinel
    /\ ring' = Removed(Find(v))
    /\ alive' = alive \ {Find(v)}
    /\ given' = [given EXCEPT ![v] = "none"]
    /\ UNCHANGED aborted

SetName(a, v) ==
    /\ ~aborted /\ a \in alive /\ Find(v) = Sentinel
    /\ ring' = [ring EXCEPT ![a].name = v]
    /\ given' = [given EXCEPT ![v] = ring[a].value, ![ring[a].name] = "none"]
    /\ UNCHANGED <<alive, aborted>>

\* ClearThis: the first attribute is removed until there is none.
ClearAttributes ==
    /\ ~aborted /\ alive # {}
    /\ ring' = [a \in Ring |-> Apart]
    /\ alive' = alive \ {Members[i] : i \in DOMAIN Members}
    /\ given' = [v \in AttrName |-> "none"]
    /\ UNCHANGED aborted

AttrNext ==
    \/ \E v \in AttrName, w \in AttrValue : SetAttribute(v, w) \/ ParseAttribute(v, w)
    \/ \E v \in AttrName : RemoveAttribute(v)
    \/ \E a \in Slot, v \in AttrName : SetName(a, v)
    \/ ClearAttributes

AttrSpec == AttrInit /\ [][AttrNext]_avars

-----------------------------------------------------------------------------
\* Both directions list the attributes that are allocated, each once, under
\* different names; an iteration, and so a copy or a print of the element, lists
\* them up to the first that has neither name nor value.  A name has the value
\* last given to it.
AttributesListed ==
    LET all == Members
    IN /\ Len(all) = Cardinality(alive) /\ {all[i] : i \in DOMAIN all} = alive
       /\ \A i \in DOMAIN all : Round("prev")[i] = all[Len(all) + 1 - i]
       /\ \A i, j \in DOMAIN all : ring[all[i]].name = ring[all[j]].name => i = j
       /\ \A v \in AttrName : /\ Attribute(v) = given[v]
                              /\ Query(v) = "NO_ATTRIBUTE" <=> given[v] = "none"
       /\ (\A i \in DOMAIN all : ~Blank(all[i])) => Iterated("next") = all
=============================================================================
