------------------------------- MODULE Forest -------------------------------
(***************************************************************************)
(* What the DOM promises its clients: every node has a sequence of         *)
(* children, an insertion puts a node, or a copy of one, at its place in   *)
(* that sequence, and a removal deletes the node with all below it.  No    *)
(* pointers: XmlTree implements this with its five links per node.         *)
(***************************************************************************)
EXTENDS Naturals, Sequences, FiniteSets, SequencesExt

CONSTANTS Node,  \* the addresses of nodes
          Name   \* the values of a node: element names, texts

VARIABLES kind,  \* node -> "free", "document", "element" or "leaf"
          name,  \* node -> its value
          kids   \* node -> the sequence of its children

fvars == <<kind, name, kids>>

Live == {n \in Node : kind[n] # "free"}

Below(n) ==
    LET below == [x \in Node |-> Range(kids[x])]
        upTo[i \in 0 .. Cardinality(Node)] ==
            IF i = 0 THEN {n} ELSE LET S == upTo[i - 1] IN S \union UNION {below[x] : x \in S}
    IN upTo[Cardinality(Node)]

IsRoot(n) == n \in Live /\ LET K == kids IN \A p \in Node : n \notin Range(K[p])

\* Injections from the nodes below a to unused nodes.
Copies(a) == {c \in [Below(a) -> Node \ Live] : IsInjective(c)}

Image(c) == {c[x] : x \in DOMAIN c}

Source(c, m) == CHOOSE x \in DOMAIN c : c[x] = m

Map(c, s) == [i \in DOMAIN s |-> c[s[i]]]

\* f with the image of each node below a given the value of the original.
Copied(f, c) ==
    LET img == Image(c)
    IN [m \in Node |-> IF m \in img THEN f[Source(c, m)] ELSE f[m]]

CopiedKids(c) ==
    LET K == kids  img == Image(c)
    IN [m \in Node |-> IF m \in img THEN Map(c, K[Source(c, m)]) ELSE K[m]]

\* f with every node of D given the value v.
Wiped(f, D, v) == [m \in Node |-> IF m \in D THEN v ELSE f[m]]

-----------------------------------------------------------------------------
Init ==
    /\ kind \in [Node -> {"free", "document"}]
    /\ name = [n \in Node |-> ""]
    /\ kids = [n \in Node |-> << >>]

New == \E n \in Node \ Live, k \in {"document", "element", "leaf"}, v \in Name :
    /\ kind' = [kind EXCEPT ![n] = k]
    /\ name' = [name EXCEPT ![n] = v]
    /\ kids' = kids

Link ==
    /\ UNCHANGED <<kind, name>>
    /\ \E p \in Live, n \in Node :
        /\ IsRoot(n)
        /\ kids' = [kids EXCEPT ![p] = Append(@, n)]

Insert == \E a \in Live : \E c \in Copies(a) :
    /\ kind' = Copied(kind, c)
    /\ name' = Copied(name, c)
    /\ \E p \in Live : \E i \in 1 .. Len(kids[p]) + 1 :
        kids' = [CopiedKids(c) EXCEPT ![p] = InsertAt(@, i, c[a])]

Replace == \E r \in Live : LET D == Below(r) IN \E a \in Live : \E c \in Copies(a) :
    /\ kind' = Wiped(Copied(kind, c), D, "free")
    /\ name' = Wiped(Copied(name, c), D, "")
    /\ \E p \in Live : \E i \in 1 .. Len(kids[p]) :
        /\ kids[p][i] = r
        /\ kids' = [Wiped(CopiedKids(c), D, << >>) EXCEPT ![p] = [@ EXCEPT ![i] = c[a]]]

RemoveChild == \E r \in Live : LET D == Below(r) IN
    /\ kind' = Wiped(kind, D, "free")
    /\ name' = Wiped(name, D, "")
    /\ \E p \in Live : \E i \in 1 .. Len(kids[p]) :
        /\ kids[p][i] = r
        /\ kids' = [Wiped(kids, D, << >>) EXCEPT ![p] = RemoveAt(@, i)]

\* All below p, and p itself if it is deleted too.
Drop == \E p \in Live : \E D \in {Below(p), Below(p) \ {p}} :
    /\ kind' = Wiped(kind, D, "free")
    /\ name' = Wiped(name, D, "")
    /\ p \in D => IsRoot(p)
    /\ kids' = Wiped(kids, D \union {p}, << >>)

\* t becomes a copy of s and stays in its place.
Assign == \E t, s \in Live : LET D == Below(t) \ {t} IN
    /\ kind[t] = kind[s] /\ t # s
    /\ \E c \in [Below(s) -> (Node \ Live) \union D \union {t}] :
        /\ IsInjective(c) /\ c[s] = t
        /\ kind' = Wiped(Copied(kind, c), D \ Image(c), "free")
        /\ name' = Wiped(Copied(name, c), D \ Image(c), "")
        /\ kids' = Wiped(CopiedKids(c), D \ Image(c), << >>)

Next == New \/ Link \/ Insert \/ Replace \/ RemoveChild \/ Drop \/ Assign

Spec == Init /\ [][Next]_fvars
=============================================================================
