------------------------------- MODULE XmlTree -------------------------------
(***************************************************************************)
(* The nodes of the DOM and the calls that link, copy, move and delete     *)
(* them (TiXmlNode, TiXmlElement, TiXmlDocument).  A tree is a record of   *)
(* one function per field; each call is an operator from trees to trees,   *)
(* so that the parser, which links nodes with the same calls, uses them    *)
(* too.  The leaf kinds (comment, text, unknown, declaration) differ in    *)
(* nothing these calls look at.                                            *)
(*                                                                         *)
(* Left to the client by the code, and kept by this client: it links only  *)
(* roots it owns, never below themselves; leaves stay leaves; it assigns   *)
(* no node to one above or below it.                                       *)
(***************************************************************************)
EXTENDS Naturals, Sequences, FiniteSets, Functions

CONSTANTS Node,  \* the addresses of nodes
          Nil,   \* the null pointer
          Name   \* the values of a node: element names, texts

ASSUME NilAssumption == Nil \notin Node
ASSUME NodeAssumption == IsFiniteSet(Node)

VARIABLE tree

Maybe == Node \union {Nil}

Kinds == {"document", "element", "leaf"}

Trees == [kind : [Node -> Kinds \union {"free"}], name : [Node -> Name \union {""}],
          parent : [Node -> Maybe], first : [Node -> Maybe], last : [Node -> Maybe],
          prev : [Node -> Maybe], next : [Node -> Maybe], error : [Node -> BOOLEAN]]

NoTree ==
    LET null == [n \in Node |-> Nil]
    IN [kind |-> [n \in Node |-> "free"], name |-> [n \in Node |-> ""],
        parent |-> null, first |-> null, last |-> null, prev |-> null, next |-> null,
        error |-> [n \in Node |-> FALSE]]

Free(T) == {n \in Node : T.kind[n] = "free"}
Live(T) == Node \ Free(T)
Parents(T) == {n \in Live(T) : T.kind[n] # "leaf"}

\* What deleting a node deletes: the least set that holds n and, with a node,
\* its children.
Under(T, n) ==
    {m \in Node : \A S \in SUBSET Node :
        n \in S /\ (\A x \in Node : T.parent[x] \in S => x \in S) => m \in S}

\* *(pointer).field = v, when the pointer is not null.
Put(f, x, v) == IF x = Nil THEN f ELSE [f EXCEPT ![x] = v]

-----------------------------------------------------------------------------
(* Walking the links.                                                      *)

\* The nodes met from n on along a link, up to the null pointer.
Walk(n, link) ==
    LET at[i \in 0 .. Cardinality(Node)] ==
            IF i = 0 THEN n
            ELSE LET m == at[i - 1] IN IF m = Nil THEN Nil ELSE link[m]
        met == {i \in 0 .. Cardinality(Node) : at[i] # Nil}
    IN [i \in 1 .. Cardinality(met) |-> at[i - 1]]

\* for (child = FirstChild(); child; child = child->NextSibling())
Children(T, p) == Walk(T.first[p], T.next)

\* The first node of S that is met from n on.
FirstAlong(n, link, S) ==
    LET met  == Walk(n, link)
        hits == {i \in DOMAIN met : met[i] \in S}
    IN IF hits = {} THEN Nil ELSE met[CHOOSE i \in hits : \A j \in hits : i <= j]

Called(T, v)    == {n \in Node : T.name[n] = v}
KindNodes(T, k) == {n \in Node : T.kind[n] = k}

FirstChild(T, p, v)      == FirstAlong(T.first[p], T.next, Called(T, v))
LastChild(T, p, v)       == FirstAlong(T.last[p], T.prev, Called(T, v))
NextSibling(T, n, v)     == FirstAlong(T.next[n], T.next, Called(T, v))
PreviousSibling(T, n, v) == FirstAlong(T.prev[n], T.prev, Called(T, v))

\* FirstChildElement(v): the loop goes on from a namesake that is no element.
FirstChildElement(T, p, v) ==
    LET at[i \in 0 .. Cardinality(Node)] ==
            IF i = 0 THEN FirstChild(T, p, v)
            ELSE LET m == at[i - 1]
                 IN IF m = Nil \/ T.kind[m] = "element" THEN m ELSE NextSibling(T, m, v)
    IN at[Cardinality(Node)]

\* Mutant of NextSiblingElement: a namesake that is no element ends the search.
NextSiblingElementOnce(T, n, v) ==
    LET m == NextSibling(T, n, v) IN IF m # Nil /\ T.kind[m] # "element" THEN Nil ELSE m

NextSiblingElement(T, n, v) ==
    LET at[i \in 0 .. Cardinality(Node)] ==
            IF i = 0 THEN NextSibling(T, n, v)
            ELSE LET m == at[i - 1]
                 IN IF m = Nil \/ T.kind[m] = "element" THEN m ELSE NextSibling(T, m, v)
    IN at[Cardinality(Node)]

\* TiXmlHandle::ChildElement(v, count).
HandleChildElement(T, p, v, count) ==
    LET at[i \in 0 .. count] ==
            IF i = 0 THEN FirstChildElement(T, p, v)
            ELSE LET m == at[i - 1] IN IF m = Nil THEN Nil ELSE NextSiblingElement(T, m, v)
    IN at[count]

\* The same without a value, and without a kind.
FirstElement(T, p) == FirstAlong(T.first[p], T.next, KindNodes(T, "element"))
ElementAfter(T, n) == FirstAlong(T.next[n], T.next, KindNodes(T, "element"))

HandleElement(T, p, count) ==
    LET at[i \in 0 .. count] ==
            IF i = 0 THEN FirstElement(T, p)
            ELSE LET m == at[i - 1] IN IF m = Nil THEN Nil ELSE ElementAfter(T, m)
    IN at[count]

HandleChild(T, p, count) ==
    LET met == Walk(T.first[p], T.next) IN IF count < Len(met) THEN met[count + 1] ELSE Nil

GetDocument(T, n) == FirstAlong(n, T.parent, KindNodes(T, "document"))

SetError(T, n) == [T EXCEPT !.error = Put(@, GetDocument(T, n), TRUE)]

-----------------------------------------------------------------------------
(* The calls.                                                              *)

NewNode(T, n, k, v) == [T EXCEPT !.kind[n] = k, !.name[n] = v]

LinkEndChild(T, p, n) ==
    [T EXCEPT !.parent[n] = p,
              !.prev[n]  = T.last[p],
              !.next     = Put([@ EXCEPT ![n] = Nil], T.last[p], n),
              !.first[p] = IF T.last[p] = Nil THEN n ELSE @,
              !.last[p]  = n]

LinkBefore(T, p, b, n) ==
    [T EXCEPT !.parent[n] = p,
              !.next     = Put([@ EXCEPT ![n] = b], T.prev[b], n),
              !.prev     = [@ EXCEPT ![n] = T.prev[b], ![b] = n],
              !.first[p] = IF T.prev[b] = Nil THEN n ELSE @]

LinkAfter(T, p, a, n) ==
    [T EXCEPT !.parent[n] = p,
              !.prev    = Put([@ EXCEPT ![n] = a], T.next[a], n),
              !.next    = [@ EXCEPT ![n] = T.next[a], ![a] = n],
              !.last[p] = IF T.next[a] = Nil THEN n ELSE @]

\* The node n in the place of r; r still points at its old neighbours.
LinkInstead(T, p, r, n) ==
    [T EXCEPT !.parent[n] = p,
              !.next     = Put([@ EXCEPT ![n] = T.next[r]], T.prev[r], n),
              !.prev     = Put([@ EXCEPT ![n] = T.prev[r]], T.next[r], n),
              !.last[p]  = IF T.next[r] = Nil THEN n ELSE @,
              !.first[p] = IF T.prev[r] = Nil THEN n ELSE @]

\* Mutant of Unlink: the last child is not told of.
UnlinkForward(T, p, r) ==
    [T EXCEPT !.prev     = Put(@, T.next[r], T.prev[r]),
              !.next     = Put(@, T.prev[r], T.next[r]),
              !.first[p] = IF T.prev[r] = Nil THEN T.next[r] ELSE @]

Unlink(T, p, r) ==
    [T EXCEPT !.prev     = Put(@, T.next[r], T.prev[r]),
              !.next     = Put(@, T.prev[r], T.next[r]),
              !.last[p]  = IF T.next[r] = Nil THEN T.prev[r] ELSE @,
              !.first[p] = IF T.prev[r] = Nil THEN T.next[r] ELSE @]

\* The fields of the nodes of D as the allocator finds them.
Delete(T, D) ==
    [f \in DOMAIN T |-> [n \in Node |-> IF n \in D THEN NoTree[f][n] ELSE T[f][n]]]

Clear(T, p) == [Delete(T, Under(T, p) \ {p}) EXCEPT !.first[p] = Nil, !.last[p] = Nil]

\* Where a copy of all below a may go: a itself to the node t, or to a new one.
CloneMaps(T, a, Target) ==
    {c \in [Under(T, a) -> Target] : IsInjective(c)}

\* f with the image of each node below a given what to makes of the original's.
Copied(f, c, to(_)) ==
    [m \in Node |-> IF m \in Range(c) THEN to(f[CHOOSE x \in DOMAIN c : c[x] = m]) ELSE f[m]]

\* The copied nodes, linked to each other; the copy of a keeps its own place.
CopyShape(T, a, c) ==
    LET to(x) == IF x \in DOMAIN c THEN c[x] ELSE Nil
        inside(f) == [Copied(f, c, to) EXCEPT ![c[a]] = f[c[a]]]
    IN [T EXCEPT !.kind = Copied(@, c, LAMBDA k : k),
                 !.first = Copied(@, c, to), !.last = Copied(@, c, to),
                 !.parent = inside(@), !.prev = inside(@), !.next = inside(@)]

\* Mutant of CopyTo: the values are not copied.
CopyToNameless(T, a, c) == CopyShape(T, a, c)

\* The copy that CopyTo writes: the structure below a, and the values.
CopyTo(T, a, c) == [CopyShape(T, a, c) EXCEPT !.name = Copied(@, c, LAMBDA v : v)]

-----------------------------------------------------------------------------
(* The client.                                                             *)

TreeInit == tree = NoTree

New == \E n \in Free(tree), k \in Kinds, v \in Name : tree' = NewNode(tree, n, k, v)

IsRoot(T, n) == n \in Live(T) /\ T.parent[n] = Nil

\* LinkEndChild deletes a document that it is given.  No sound call gives it one:
\* the assertion before allows only the document the parent is itself in.
Link == \E p \in Parents(tree), n \in Node :
    /\ IsRoot(tree, n) /\ tree.kind[n] # "document"
    /\ p \notin Under(tree, n)
    /\ tree' = LinkEndChild(tree, p, n)

\* A copy of a, which is no document, and its tree with the copy.
Cloning(Then(_, _)) == \E a \in Live(tree) :
    /\ tree.kind[a] # "document"
    /\ \E c \in CloneMaps(tree, a, Free(tree)) : tree' = Then(CopyTo(tree, a, c), c[a])

InsertEnd == \E p \in Parents(tree) : Cloning(LAMBDA T, n : LinkEndChild(T, p, n))

InsertBefore == \E b \in Live(tree) : tree.parent[b] # Nil /\
    Cloning(LAMBDA T, n : LinkBefore(T, T.parent[b], b, n))

InsertAfter == \E b \in Live(tree) : tree.parent[b] # Nil /\
    Cloning(LAMBDA T, n : LinkAfter(T, T.parent[b], b, n))

ReplaceChild == \E r \in Live(tree) : tree.parent[r] # Nil /\
    Cloning(LAMBDA T, n : LET U == LinkInstead(T, T.parent[r], r, n)
                          IN Delete(U, Under(U, r)))

\* Any of the four with a document: an error, and nothing is inserted.
InsertDocument == \E p \in Parents(tree) :
    /\ \E a \in Live(tree) : tree.kind[a] = "document"
    /\ tree' = SetError(tree, p)

ClearError == \E d \in Live(tree) : tree.error[d] /\ tree' = [tree EXCEPT !.error[d] = FALSE]

RemoveChild == \E r \in Live(tree) :
    /\ tree.parent[r] # Nil
    /\ LET U == Unlink(tree, tree.parent[r], r) IN tree' = Delete(U, Under(U, r))

ClearNode == \E p \in Live(tree) : tree.first[p] # Nil /\ tree' = Clear(tree, p)

DeleteTree == \E n \in Node : IsRoot(tree, n) /\ tree' = Delete(tree, Under(tree, n))

\* operator=.  Assigned to itself a node loses its children and copies none.
AssignNode == \E t, s \in Live(tree) :
    /\ tree.kind[t] = tree.kind[s] /\ tree.kind[t] # "leaf"
    /\ s \notin Under(tree, t) \ {t} /\ t \notin Under(tree, s) \ {s}
    /\ LET T == Clear(tree, t)
       IN IF s = t THEN tree' = T
          ELSE \E c \in CloneMaps(T, s, Free(T) \union {t}) :
                   c[s] = t /\ tree' = [CopyTo(T, s, c) EXCEPT !.error[t] = T.error[s]]

TreeNext ==
    \/ New \/ Link \/ InsertEnd \/ InsertBefore \/ InsertAfter \/ ReplaceChild
    \/ InsertDocument \/ ClearError \/ RemoveChild \/ ClearNode \/ DeleteTree \/ AssignNode

TreeSpec == TreeInit /\ [][TreeNext]_tree

-----------------------------------------------------------------------------
(* Properties.                                                             *)

TypeOK == tree \in Trees

\* The links of a node agree with those of its neighbours, its parent and its
\* children.
WellLinked(T, n) ==
    /\ T.first[n] # Nil => T.parent[T.first[n]] = n /\ T.prev[T.first[n]] = Nil
    /\ T.last[n] # Nil => T.parent[T.last[n]] = n /\ T.next[T.last[n]] = Nil
    /\ T.next[n] # Nil => T.parent[n] # Nil /\ T.prev[T.next[n]] = n /\ T.parent[T.next[n]] = T.parent[n]
    /\ T.prev[n] # Nil => T.parent[n] # Nil /\ T.next[T.prev[n]] = n /\ T.parent[T.prev[n]] = T.parent[n]
    /\ T.parent[n] # Nil => (T.prev[n] = Nil => T.first[T.parent[n]] = n)
                         /\ (T.next[n] = Nil => T.last[T.parent[n]] = n)

\* A deleted node is pointed at by nobody, and points at nobody.
NoDangling(T, n) ==
    /\ T.parent[n] # Nil => T.kind[T.parent[n]] \in {"document", "element"} /\ T.kind[n] \in {"element", "leaf"}
    /\ T.kind[n] = "free" => T.parent[n] = Nil /\ T.first[n] = Nil /\ T.last[n] = Nil

\* Whatever the calls, the sibling lists stay consistent in both directions and
\* no pointer is left to a deleted node.
LinksConsistent == \A n \in Node : WellLinked(tree, n) /\ NoDangling(tree, n)

\* Of the members of S in a sequence the i-th, from 0, as the handles give it.
Nth(seq, S, i) ==
    LET at == {j \in DOMAIN seq : /\ seq[j] \in S
                                 /\ Cardinality({k \in 1 .. j - 1 : seq[k] \in S}) = i}
    IN IF at = {} THEN Nil ELSE seq[CHOOSE j \in at : TRUE]

\* The walks agree: forwards all children of a node are met, backwards the same
\* in the reverse order.
WalksAgree == \A p \in Live(tree) :
    LET kids == Children(tree, p)
        back == Walk(tree.last[p], tree.prev)
    IN /\ Range(kids) = {n \in Node : tree.parent[n] = p}
       /\ Len(back) = Len(kids)
       /\ \A i \in DOMAIN kids : kids[i] = back[Len(kids) + 1 - i]

\* A handle's i-th child, element or element called v is the i-th among all
\* children, and the last child called v is the last.
SearchesExact == \A p \in Live(tree) :
    LET kids == Children(tree, p)
        elements == KindNodes(tree, "element")
    IN /\ \A i \in 0 .. 2 : /\ HandleChild(tree, p, i) = Nth(kids, Node, i)
                           /\ HandleElement(tree, p, i) = Nth(kids, elements, i)
       /\ \A v \in Name :
            LET called == Called(tree, v)
                count  == Cardinality({i \in DOMAIN kids : kids[i] \in called})
            IN /\ LastChild(tree, p, v) = Nth(kids, called, count - 1)
               /\ \A i \in 0 .. 2 : HandleChildElement(tree, p, v, i)
                                     = Nth(kids, called \cap elements, i)

\* So clients who walk, search or use handles see the same children.
NavigationExact == WalksAgree /\ SearchesExact

\* The five links of each node implement sequences of children.
Dom == INSTANCE Forest WITH kind <- tree.kind, name <- tree.name,
                            kids <- [n \in Node |-> Children(tree, n)]

ImplementsForest == Dom!Spec
=============================================================================
