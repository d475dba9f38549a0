--------------------------- MODULE XmlTreeProofs ----------------------------
(***************************************************************************)
(* What holds of the tree for any number of nodes and every sequence of    *)
(* calls: its links stay consistent, as the tree stays sound; and what the *)
(* links mean: the children of each node are a sequence, which every walk  *)
(* over siblings follows and every call changes as Forest says.            *)
(***************************************************************************)
EXTENDS XmlTree, SequenceTheorems, FiniteSetTheorems, WellFoundedInduction, TLAPS

-----------------------------------------------------------------------------
(* Grounded links, and what is below a node.                               *)

\* Following f one gets out of every set of nodes: there is no cycle.
Grounded(f) == \A S \in SUBSET Node : S # {} => \E m \in S : f[m] \notin S

Linked(T) == \A n \in Node : WellLinked(T, n) /\ NoDangling(T, n)

\* A node has a first child exactly if it has a last.
Even(T) == \A n \in Node : T.first[n] = Nil <=> T.last[n] = Nil

\* The inductive invariant: LinksConsistent does not exclude a cycle of siblings or of
\* parents, nor a first child without a last.
Sound(T) == /\ T \in Trees /\ Linked(T) /\ Even(T)
            /\ Grounded(T.parent) /\ Grounded(T.prev)

\* Cutting links keeps a link grounded.
LEMMA GroundedPart ==
  ASSUME NEW f, Grounded(f), NEW g, \A m \in Node : g[m] \in Node => g[m] = f[m]
  PROVE  Grounded(g)
<1> SUFFICES ASSUME NEW S \in SUBSET Node, S # {}, \A m \in S : g[m] \in S
             PROVE  FALSE
  BY DEF Grounded
<1>1. PICK m \in S : f[m] \notin S
  BY DEF Grounded
<1> QED  BY <1>1

\* No node follows itself along a grounded link.
LEMMA GroundedNotOwn ==
  ASSUME NEW f, Grounded(f), NEW m \in Node
  PROVE  f[m] # m
<1>1. PICK x \in {m} : f[x] \notin {m}
  BY DEF Grounded
<1> QED  BY <1>1

\* A node that nobody points at may be put between m and what m points at.
LEMMA GroundedInsert ==
  ASSUME NEW f, Grounded(f), NEW g, NEW n \in Node,
         \A m \in Node : f[m] # n,
         g[n] # n,
         \A m \in Node : m # n => g[m] = f[m] \/ (g[m] = n /\ f[m] = g[n])
  PROVE  Grounded(g)
<1> SUFFICES ASSUME NEW S \in SUBSET Node, S # {}, \A m \in S : g[m] \in S
             PROVE  FALSE
  BY DEF Grounded
<1>1. S \ {n} # {}
  BY DEF Grounded
<1>2. PICK m \in S \ {n} : f[m] \notin S \ {n}
  BY <1>1 DEF Grounded
<1> QED  BY <1>2

\* Such a node may take the place of r, if r goes on to what it pointed at.
LEMMA GroundedInstead ==
  ASSUME NEW f, Grounded(f), NEW g, NEW n \in Node, NEW r \in Node, n # r,
         \A m \in Node : f[m] # n,
         g[n] = f[r],
         g[r] = f[r],
         \A m \in Node : m # n => g[m] = f[m] \/ (g[m] = n /\ f[m] = r)
  PROVE  Grounded(g)
<1> SUFFICES ASSUME NEW S \in SUBSET Node, S # {}, \A m \in S : g[m] \in S
             PROVE  FALSE
  BY DEF Grounded
<1>1. CASE n \notin S
  <2>1. PICK m \in S : f[m] \notin S
    BY DEF Grounded
  <2> QED  BY <2>1, <1>1
<1>2. CASE n \in S
  <2> DEFINE R == (S \ {n}) \union {r}
  <2>1. PICK m \in R : f[m] \notin R
    BY DEF Grounded
  <2>2. f[r] \in R
    BY <1>2
  <2> QED  BY <2>1, <2>2
<1> QED  BY <1>1, <1>2

\* A node may be skipped.
LEMMA GroundedSkip ==
  ASSUME NEW f, Grounded(f), NEW g, NEW r \in Node,
         \A m \in Node : g[m] = f[m] \/ (g[m] = f[r] /\ f[m] = r)
  PROVE  Grounded(g)
<1> SUFFICES ASSUME NEW S \in SUBSET Node, S # {}, \A m \in S : g[m] \in S
             PROVE  FALSE
  BY DEF Grounded
<1>1. CASE \A m \in S : g[m] = f[m]
  <2>1. PICK m \in S : f[m] \notin S
    BY DEF Grounded
  <2> QED  BY <2>1, <1>1
<1>2. CASE \E m \in S : g[m] = f[r] /\ f[m] = r
  <2> DEFINE R == S \union {r}
  <2>1. PICK m \in R : f[m] \notin R
    BY DEF Grounded
  <2> QED  BY <2>1, <1>2
<1> QED  BY <1>1, <1>2

\* Under is closed under children, and holds the node itself.
LEMMA UnderHolds ==
  ASSUME NEW T, NEW n \in Node
  PROVE  /\ n \in Under(T, n)
         /\ Under(T, n) \subseteq Node
         /\ \A x \in Node : T.parent[x] \in Under(T, n) => x \in Under(T, n)
  BY DEF Under

\* It is the least such set.
LEMMA UnderLeast ==
  ASSUME NEW T, NEW n \in Node, NEW S \in SUBSET Node, n \in S,
         \A x \in Node : T.parent[x] \in S => x \in S
  PROVE  Under(T, n) \subseteq S
  BY DEF Under

\* All in it but the node itself are children of others in it.
LEMMA UnderParent ==
  ASSUME NEW T, NEW n \in Node, NEW x \in Under(T, n), x # n
  PROVE  T.parent[x] \in Under(T, n)
<1> SUFFICES ASSUME T.parent[x] \notin Under(T, n)
             PROVE  FALSE
  OBVIOUS
<1> DEFINE S == Under(T, n) \ {x}
<1>1. S \in SUBSET Node /\ n \in S
  BY UnderHolds
<1>2. \A y \in Node : T.parent[y] \in S => y \in S
  BY UnderHolds
<1>3. Under(T, n) \subseteq S
  BY <1>1, <1>2, UnderLeast
<1> QED  BY <1>3

\* If parents are grounded, a node is not below itself.
LEMMA NotUnderItself ==
  ASSUME NEW T, Grounded(T.parent), NEW n \in Node
  PROVE  T.parent[n] \notin Under(T, n)
<1> SUFFICES ASSUME T.parent[n] \in Under(T, n)
             PROVE  FALSE
  OBVIOUS
<1>1. PICK m \in Under(T, n) : T.parent[m] \notin Under(T, n)
  BY UnderHolds DEF Grounded
<1> QED  BY <1>1, UnderParent

\* The parent links stay grounded when n is linked under p, which is not below n.
LEMMA GroundedLink ==
  ASSUME NEW T, Grounded(T.parent), NEW n \in Node, NEW p \in Node, p \notin Under(T, n),
         NEW g, g[n] = p, \A m \in Node : m # n => g[m] = T.parent[m]
  PROVE  Grounded(g)
<1> SUFFICES ASSUME NEW S \in SUBSET Node, S # {}, \A m \in S : g[m] \in S
             PROVE  FALSE
  BY DEF Grounded
<1>1. CASE n \notin S
  <2>1. PICK m \in S : T.parent[m] \notin S
    BY DEF Grounded
  <2> QED  BY <2>1, <1>1
<1>2. CASE n \in S
  <2> DEFINE R == S \ Under(T, n)
  <2>1. p \in R
    BY <1>2
  <2>2. PICK m \in R : T.parent[m] \notin R
    BY <2>1 DEF Grounded
  <2> QED  BY <2>2, UnderHolds
<1> QED  BY <1>1, <1>2

-----------------------------------------------------------------------------
\* The types of the fields the calls look at.
LEMMA TreeFields ==
  ASSUME NEW T \in Trees
  PROVE  /\ T.kind \in [Node -> Kinds \union {"free"}]
         /\ T.parent \in [Node -> Maybe]
         /\ T.first \in [Node -> Maybe]
         /\ T.last \in [Node -> Maybe]
         /\ T.prev \in [Node -> Maybe]
         /\ T.next \in [Node -> Maybe]
  BY DEF Trees

\* What a call that links n under p may count on.
MayLink(T, p, n) ==
    /\ p \in Node /\ n \in Node
    /\ T.kind[p] \in {"document", "element"} /\ T.kind[n] \in {"element", "leaf"}
    /\ T.parent[n] = Nil /\ p \notin Under(T, n)

\* Nobody points at n, a root, and n at no sibling.
Alone(T, n) ==
    /\ T.prev[n] = Nil /\ T.next[n] = Nil
    /\ \A m \in Node : T.first[m] # n /\ T.last[m] # n /\ T.prev[m] # n /\ T.next[m] # n

\* A node without a parent has no siblings, and is nobody's child.
LEMMA RootAlone ==
  ASSUME NEW T, Sound(T), NEW n \in Node, T.parent[n] = Nil
  PROVE  Alone(T, n)
<1>1. WellLinked(T, n)
  BY DEF Sound, Linked
<1>2. T.prev[n] = Nil /\ T.next[n] = Nil
  BY <1>1 DEF WellLinked
<1>3. ASSUME NEW m \in Node
      PROVE  T.first[m] # n /\ T.last[m] # n /\ T.prev[m] # n /\ T.next[m] # n
  <2>1. WellLinked(T, m)
    BY DEF Sound, Linked
  <2> QED  BY <2>1, NilAssumption DEF WellLinked
<1> QED  BY <1>2, <1>3 DEF Alone

\* Such a node may be linked: nothing else points at it.
LEMMA MayLinkAlone ==
  ASSUME NEW T, Sound(T), NEW p, NEW n, MayLink(T, p, n)
  PROVE  p # n /\ Alone(T, n) /\ p \in Node /\ n \in Node
  BY RootAlone, UnderHolds DEF MayLink

\* LinkEndChild keeps the tree sound.
LEMMA LinkEndSound ==
  ASSUME NEW T, Sound(T), NEW p, NEW n, MayLink(T, p, n)
  PROVE  Sound(LinkEndChild(T, p, n))
<1> DEFINE U == LinkEndChild(T, p, n)
<1>0. p # n /\ Alone(T, n) /\ p \in Node /\ n \in Node /\ T \in Trees
  BY MayLinkAlone DEF Sound
<1>1. /\ U \in Trees
      /\ U.kind = T.kind
      /\ U.parent = [T.parent EXCEPT ![n] = p]
      /\ U.prev = [T.prev EXCEPT ![n] = T.last[p]]
      /\ U.next = Put([T.next EXCEPT ![n] = Nil], T.last[p], n)
      /\ U.first = [T.first EXCEPT ![p] = IF T.last[p] = Nil THEN n ELSE T.first[p]]
      /\ U.last = [T.last EXCEPT ![p] = n]
  BY <1>0, NilAssumption DEF LinkEndChild, Trees, Put, Maybe
<1> HIDE DEF U
<1>2. ASSUME NEW m \in Node
      PROVE  WellLinked(U, m)
  <2>1. WellLinked(T, m) /\ WellLinked(T, p) /\ Even(T) /\ T.parent[n] = Nil
    BY <1>0 DEF Sound, Linked, MayLink
  <2> QED  BY <1>0, <1>1, <2>1, TreeFields, NilAssumption DEF Alone, WellLinked, Maybe, Put, Even
<1>3. ASSUME NEW m \in Node
      PROVE  NoDangling(U, m)
  <2>1. NoDangling(T, m) /\ T.kind[p] \in {"document", "element"} /\ T.kind[n] \in {"element", "leaf"}
    BY <1>0 DEF Sound, Linked, MayLink
  <2> QED  BY <1>0, <1>1, <2>1, TreeFields, NilAssumption DEF NoDangling, Maybe
<1>4. Even(U)
  BY <1>0, <1>1, TreeFields, NilAssumption DEF Sound, Even, Maybe
<1>5. Grounded(U.parent)
  BY <1>0, <1>1, TreeFields, GroundedLink DEF Sound, MayLink
<1>6. Grounded(U.prev)
  BY <1>0, <1>1, TreeFields, GroundedInsert DEF Sound, Alone
<1>7. Sound(U)
  BY <1>1, <1>2, <1>3, <1>4, <1>5, <1>6 DEF Sound, Linked
<1> QED  BY <1>7 DEF U

\* So do the links InsertBeforeChild sets,
LEMMA LinkBeforeSound ==
  ASSUME NEW T, Sound(T), NEW p, NEW n, MayLink(T, p, n), NEW b \in Node, T.parent[b] = p
  PROVE  Sound(LinkBefore(T, p, b, n))
<1> DEFINE U == LinkBefore(T, p, b, n)
<1>0. p # n /\ b # n /\ Alone(T, n) /\ p \in Node /\ n \in Node /\ T \in Trees
  BY MayLinkAlone, NilAssumption DEF Sound, MayLink
<1>1. /\ U \in Trees
      /\ U.kind = T.kind
      /\ U.parent = [T.parent EXCEPT ![n] = p]
      /\ U.next = Put([T.next EXCEPT ![n] = b], T.prev[b], n)
      /\ U.prev = [T.prev EXCEPT ![n] = T.prev[b], ![b] = n]
      /\ U.first = [T.first EXCEPT ![p] = IF T.prev[b] = Nil THEN n ELSE T.first[p]]
      /\ U.last = T.last
  <2> DEFINE parent == [T.parent EXCEPT ![n] = p]
             next == Put([T.next EXCEPT ![n] = b], T.prev[b], n)
             prev == [T.prev EXCEPT ![n] = T.prev[b], ![b] = n]
             first == [T.first EXCEPT ![p] = IF T.prev[b] = Nil THEN n ELSE T.first[p]]
  <2>1. /\ parent \in [Node -> Maybe] /\ prev \in [Node -> Maybe] /\ first \in [Node -> Maybe]
        /\ next \in [Node -> Maybe]
    BY <1>0, TreeFields DEF Put, Maybe
  <2>2. U = [T EXCEPT !.parent = parent, !.next = next, !.prev = prev, !.first = first]
    BY <1>0 DEF LinkBefore, Trees
  <2> HIDE DEF U, parent, next, prev, first
  <2>3. /\ U \in Trees /\ U.kind = T.kind /\ U.parent = parent /\ U.next = next
        /\ U.prev = prev /\ U.first = first /\ U.last = T.last
    BY <1>0, <2>1, <2>2 DEF Trees
  <2> QED  BY <2>3 DEF parent, next, prev, first
<1> HIDE DEF U
<1>2. ASSUME NEW m \in Node
      PROVE  WellLinked(U, m)
  <2>1. WellLinked(T, m) /\ WellLinked(T, b) /\ Even(T) /\ T.parent[n] = Nil
    BY <1>0 DEF Sound, Linked, MayLink
  <2> QED  BY <1>0, <1>1, <2>1, TreeFields, NilAssumption DEF Alone, WellLinked, Maybe, Put, Even
<1>3. ASSUME NEW m \in Node
      PROVE  NoDangling(U, m)
  <2>1. NoDangling(T, m) /\ T.kind[p] \in {"document", "element"} /\ T.kind[n] \in {"element", "leaf"}
    BY <1>0 DEF Sound, Linked, MayLink
  <2> QED  BY <1>0, <1>1, <2>1, TreeFields, NilAssumption DEF NoDangling, Maybe
<1>4. Even(U)
  <2>1. WellLinked(T, b) /\ Even(T)
    BY <1>0 DEF Sound, Linked
  <2> QED  BY <1>0, <1>1, <2>1, TreeFields, NilAssumption DEF Even, WellLinked, Maybe
<1>5. Grounded(U.parent)
  BY <1>0, <1>1, TreeFields, GroundedLink DEF Sound, MayLink
<1>6. Grounded(U.prev)
  BY <1>0, <1>1, TreeFields, GroundedInsert DEF Sound, Alone
<1>7. Sound(U)
  BY <1>1, <1>2, <1>3, <1>4, <1>5, <1>6 DEF Sound, Linked
<1> QED  BY <1>7 DEF U

\* and those InsertAfterChild sets.
LEMMA LinkAfterSound ==
  ASSUME NEW T, Sound(T), NEW p, NEW n, MayLink(T, p, n), NEW a \in Node, T.parent[a] = p
  PROVE  Sound(LinkAfter(T, p, a, n))
<1> DEFINE U == LinkAfter(T, p, a, n)
<1>0. p # n /\ a # n /\ Alone(T, n) /\ p \in Node /\ n \in Node /\ T \in Trees
  BY MayLinkAlone, NilAssumption DEF Sound, MayLink
<1>1. /\ U \in Trees
      /\ U.kind = T.kind
      /\ U.parent = [T.parent EXCEPT ![n] = p]
      /\ U.prev = Put([T.prev EXCEPT ![n] = a], T.next[a], n)
      /\ U.next = [T.next EXCEPT ![n] = T.next[a], ![a] = n]
      /\ U.last = [T.last EXCEPT ![p] = IF T.next[a] = Nil THEN n ELSE T.last[p]]
      /\ U.first = T.first
  BY <1>0, NilAssumption DEF LinkAfter, Trees, Put, Maybe
<1> HIDE DEF U
<1>2. ASSUME NEW m \in Node
      PROVE  WellLinked(U, m)
  <2>1. WellLinked(T, m) /\ WellLinked(T, a) /\ Even(T) /\ T.parent[n] = Nil
    BY <1>0 DEF Sound, Linked, MayLink
  <2> QED  BY <1>0, <1>1, <2>1, TreeFields, NilAssumption DEF Alone, WellLinked, Maybe, Put, Even
<1>3. ASSUME NEW m \in Node
      PROVE  NoDangling(U, m)
  <2>1. NoDangling(T, m) /\ T.kind[p] \in {"document", "element"} /\ T.kind[n] \in {"element", "leaf"}
    BY <1>0 DEF Sound, Linked, MayLink
  <2> QED  BY <1>0, <1>1, <2>1, TreeFields, NilAssumption DEF NoDangling, Maybe
<1>4. Even(U)
  <2>1. WellLinked(T, a) /\ Even(T)
    BY <1>0 DEF Sound, Linked
  <2> QED  BY <1>0, <1>1, <2>1, TreeFields, NilAssumption DEF Even, WellLinked, Maybe
<1>5. Grounded(U.parent)
  BY <1>0, <1>1, TreeFields, GroundedLink DEF Sound, MayLink
<1>6. Grounded(U.prev)
  <2>1. \A m \in Node : WellLinked(T, m)
    BY DEF Sound, Linked
  <2>2. \A m \in Node : T.next[a] = m => T.prev[m] = a
    BY <2>1, NilAssumption DEF WellLinked
  <2> QED  BY <1>0, <1>1, <2>2, TreeFields, GroundedInsert, NilAssumption DEF Sound, Alone, Put, Maybe
<1>7. Sound(U)
  BY <1>1, <1>2, <1>3, <1>4, <1>5, <1>6 DEF Sound, Linked
<1> QED  BY <1>7 DEF U

-----------------------------------------------------------------------------
\* Sound, but for r, which nobody points at but its children.
Severed(T, r) ==
    /\ T \in Trees /\ Even(T) /\ Grounded(T.parent) /\ Grounded(T.prev)
    /\ \A n \in Node : NoDangling(T, n)
    /\ \A n \in Node \ {r} : /\ WellLinked(T, n)
                             /\ T.first[n] # r /\ T.last[n] # r /\ T.prev[n] # r /\ T.next[n] # r

\* What the fields of the nodes of D become.
Deleted(T, U, D) ==
    /\ U \in Trees
    /\ \A n \in Node :
         /\ U.kind[n] = (IF n \in D THEN "free" ELSE T.kind[n])
         /\ U.name[n] = (IF n \in D THEN "" ELSE T.name[n])
         /\ U.parent[n] = (IF n \in D THEN Nil ELSE T.parent[n])
         /\ U.first[n] = (IF n \in D THEN Nil ELSE T.first[n])
         /\ U.last[n] = (IF n \in D THEN Nil ELSE T.last[n])
         /\ U.prev[n] = (IF n \in D THEN Nil ELSE T.prev[n])
         /\ U.next[n] = (IF n \in D THEN Nil ELSE T.next[n])

\* Delete does to the fields what Deleted says.
LEMMA DeleteFields ==
  ASSUME NEW T \in Trees, NEW D
  PROVE  Deleted(T, Delete(T, D), D)
<1>1. Delete(T, D) \in Trees
  BY DEF Trees, Delete, NoTree, Maybe
<1>2. ASSUME NEW n \in Node
      PROVE  /\ Delete(T, D).kind[n] = (IF n \in D THEN "free" ELSE T.kind[n])
             /\ Delete(T, D).name[n] = (IF n \in D THEN "" ELSE T.name[n])
             /\ Delete(T, D).parent[n] = (IF n \in D THEN Nil ELSE T.parent[n])
             /\ Delete(T, D).first[n] = (IF n \in D THEN Nil ELSE T.first[n])
             /\ Delete(T, D).last[n] = (IF n \in D THEN Nil ELSE T.last[n])
             /\ Delete(T, D).prev[n] = (IF n \in D THEN Nil ELSE T.prev[n])
             /\ Delete(T, D).next[n] = (IF n \in D THEN Nil ELSE T.next[n])
  BY DEF Trees, Delete, NoTree, Maybe
<1> QED  BY <1>1, <1>2 DEF Deleted

\* Whoever is left of a severed node's tree points at none of it.
LEMMA LeftAlone ==
  ASSUME NEW T, NEW r \in Node, Severed(T, r), NEW n \in Node \ Under(T, r)
  PROVE  /\ T.parent[n] \notin Under(T, r) /\ T.first[n] \notin Under(T, r)
         /\ T.last[n] \notin Under(T, r)
         /\ T.prev[n] \notin Under(T, r) /\ T.next[n] \notin Under(T, r)
<1> DEFINE D == Under(T, r)
<1>1. n # r /\ r \in D /\ Nil \notin D /\ D \subseteq Node
  BY UnderHolds, NilAssumption
<1>2. \A x \in Node : T.parent[x] \in D => x \in D
  BY UnderHolds
<1>3. \A x \in D : x # r => T.parent[x] \in D
  BY UnderParent
<1>4. WellLinked(T, n) /\ T.first[n] # r /\ T.last[n] # r /\ T.prev[n] # r /\ T.next[n] # r
  BY <1>1 DEF Severed
<1> HIDE DEF D
<1>5. T.parent[n] \notin D
  BY <1>2 DEF D
<1>6. T.first[n] \notin D /\ T.last[n] \notin D /\ T.prev[n] \notin D /\ T.next[n] \notin D
  <2>1. n \notin D
    BY DEF D
  <2> QED  BY <1>1, <1>3, <1>4, <1>5, <2>1 DEF WellLinked
<1> QED  BY <1>5, <1>6 DEF D

\* When a node has been cut off, deleting it with all below leaves a sound tree.
LEMMA DeleteSound ==
  ASSUME NEW T, NEW r \in Node, Severed(T, r)
  PROVE  Sound(Delete(T, Under(T, r)))
<1> DEFINE D == Under(T, r)
           U == Delete(T, D)
<1>0. T \in Trees /\ r \in D
  BY UnderHolds DEF Severed
<1>1. Deleted(T, U, D)
  BY <1>0, DeleteFields
<1>2. /\ U \in Trees
      /\ \A n \in Node : /\ U.kind[n] = (IF n \in D THEN "free" ELSE T.kind[n])
                          /\ U.parent[n] = (IF n \in D THEN Nil ELSE T.parent[n])
                          /\ U.first[n] = (IF n \in D THEN Nil ELSE T.first[n])
                          /\ U.last[n] = (IF n \in D THEN Nil ELSE T.last[n])
                          /\ U.prev[n] = (IF n \in D THEN Nil ELSE T.prev[n])
                          /\ U.next[n] = (IF n \in D THEN Nil ELSE T.next[n])
  BY <1>1 DEF Deleted
<1>3. ASSUME NEW n \in Node \ D
      PROVE  /\ T.parent[n] \notin D /\ T.first[n] \notin D
             /\ T.last[n] \notin D /\ T.prev[n] \notin D /\ T.next[n] \notin D
  BY LeftAlone
<1> HIDE DEF U, D
<1>4. ASSUME NEW n \in Node
      PROVE  WellLinked(U, n)
  <2>1. CASE n \in D
    BY <1>1, <2>1 DEF Deleted, WellLinked
  <2>2. CASE n \notin D
    <3>1. WellLinked(T, n)
      BY <1>0, <2>2 DEF Severed
    <3>2. /\ T.parent[n] \in Maybe /\ T.first[n] \in Maybe /\ T.last[n] \in Maybe
          /\ T.prev[n] \in Maybe /\ T.next[n] \in Maybe
      BY <1>0, TreeFields
    <3>3. /\ U.parent[n] = T.parent[n] /\ U.first[n] = T.first[n] /\ U.last[n] = T.last[n]
          /\ U.prev[n] = T.prev[n] /\ U.next[n] = T.next[n]
      BY <1>2, <2>2
    <3> QED  BY <1>2, <1>3, <2>2, <3>1, <3>2, <3>3 DEF WellLinked, Maybe
  <2> QED  BY <2>1, <2>2
<1>5. ASSUME NEW n \in Node
      PROVE  NoDangling(U, n)
  <2>1. NoDangling(T, n)
    BY DEF Severed
  <2>2. T.parent[n] \in Maybe
    BY <1>0, TreeFields
  <2> QED  BY <1>2, <1>3, <2>1, <2>2 DEF NoDangling, Maybe
<1>6. Even(U)
  BY <1>1 DEF Deleted, Severed, Even
<1>7. Grounded(U.parent)
  BY <1>2, GroundedPart, NilAssumption DEF Severed
<1>8. Grounded(U.prev)
  BY <1>2, GroundedPart, NilAssumption DEF Severed
<1>9. Sound(U)
  BY <1>1, <1>4, <1>5, <1>6, <1>7, <1>8 DEF Deleted, Sound, Linked
<1> QED  BY <1>9 DEF U, D

\* A root is cut off,
LEMMA RootSevered ==
  ASSUME NEW T, Sound(T), NEW n \in Node, T.parent[n] = Nil
  PROVE  Severed(T, n)
  BY RootAlone DEF Alone, Sound, Linked, Severed

\* a child is after RemoveChild's unlinking,
LEMMA UnlinkSevered ==
  ASSUME NEW T, Sound(T), NEW p \in Node, NEW r \in Node, T.parent[r] = p
  PROVE  Severed(Unlink(T, p, r), r)
<1> DEFINE U == Unlink(T, p, r)
<1>0. T \in Trees /\ WellLinked(T, r) /\ Even(T)
  BY DEF Sound, Linked
<1>1. /\ U \in Trees
      /\ U.kind = T.kind
      /\ U.parent = T.parent
      /\ U.prev = Put(T.prev, T.next[r], T.prev[r])
      /\ U.next = Put(T.next, T.prev[r], T.next[r])
      /\ U.first = [T.first EXCEPT ![p] = IF T.prev[r] = Nil THEN T.next[r] ELSE T.first[p]]
      /\ U.last = [T.last EXCEPT ![p] = IF T.next[r] = Nil THEN T.prev[r] ELSE T.last[p]]
  <2> DEFINE prev == Put(T.prev, T.next[r], T.prev[r])
             next == Put(T.next, T.prev[r], T.next[r])
             first == [T.first EXCEPT ![p] = IF T.prev[r] = Nil THEN T.next[r] ELSE T.first[p]]
             last == [T.last EXCEPT ![p] = IF T.next[r] = Nil THEN T.prev[r] ELSE T.last[p]]
  <2>1. /\ prev \in [Node -> Maybe] /\ next \in [Node -> Maybe]
        /\ first \in [Node -> Maybe] /\ last \in [Node -> Maybe]
    BY <1>0, TreeFields DEF Put, Maybe
  <2>2. U = [T EXCEPT !.prev = prev, !.next = next, !.last = last, !.first = first]
    BY <1>0 DEF Unlink, Trees
  <2> HIDE DEF U, prev, next, first, last
  <2>3. /\ U \in Trees /\ U.kind = T.kind /\ U.parent = T.parent /\ U.next = next
        /\ U.prev = prev /\ U.first = first /\ U.last = last
    BY <1>0, <2>1, <2>2 DEF Trees
  <2> QED  BY <2>3 DEF prev, next, first, last
<1> HIDE DEF U
<1>2. T.prev[r] # r
  BY GroundedNotOwn DEF Sound
<1>3. ASSUME NEW n \in Node \ {r}
      PROVE  /\ WellLinked(U, n)
             /\ U.first[n] # r /\ U.last[n] # r /\ U.prev[n] # r /\ U.next[n] # r
  <2>1. WellLinked(T, n)
    BY DEF Sound, Linked
  <2>2. T.next[r] # r
    BY <1>0, <1>2, NilAssumption DEF WellLinked
  <2> QED  BY <1>0, <1>1, <1>2, <2>1, <2>2, TreeFields, NilAssumption DEF WellLinked, Put, Maybe
<1>4. ASSUME NEW n \in Node
      PROVE  NoDangling(U, n)
  <2>1. NoDangling(T, n) /\ T.kind[p] # "free"
    BY <1>0, NilAssumption DEF Sound, Linked, NoDangling
  <2> QED  BY <1>0, <1>1, <2>1, TreeFields DEF NoDangling, Maybe
<1>5. Even(U)
  BY <1>0, <1>1, TreeFields, NilAssumption DEF Even, WellLinked, Maybe
<1>6. Grounded(U.parent)
  BY <1>1 DEF Sound
<1>7. Grounded(U.prev)
  BY <1>0, <1>1, TreeFields, GroundedSkip, NilAssumption DEF Sound, WellLinked, Put, Maybe
<1>8. Severed(U, r)
  BY <1>1, <1>3, <1>4, <1>5, <1>6, <1>7 DEF Severed
<1> QED  BY <1>8 DEF U

\* and after a new node was linked in its place, as ReplaceChild does.
LEMMA LinkInsteadSevered ==
  ASSUME NEW T, Sound(T), NEW p, NEW n, MayLink(T, p, n), NEW r \in Node, T.parent[r] = p
  PROVE  Severed(LinkInstead(T, p, r, n), r)
<1> DEFINE U == LinkInstead(T, p, r, n)
<1>0. /\ p # n /\ r # n /\ Alone(T, n) /\ p \in Node /\ n \in Node
      /\ T \in Trees /\ WellLinked(T, r) /\ Even(T)
  BY MayLinkAlone, NilAssumption DEF Sound, Linked, MayLink
<1>1. /\ U \in Trees
      /\ U.kind = T.kind
      /\ U.parent = [T.parent EXCEPT ![n] = p]
      /\ U.next = Put([T.next EXCEPT ![n] = T.next[r]], T.prev[r], n)
      /\ U.prev = Put([T.prev EXCEPT ![n] = T.prev[r]], T.next[r], n)
      /\ U.last = [T.last EXCEPT ![p] = IF T.next[r] = Nil THEN n ELSE T.last[p]]
      /\ U.first = [T.first EXCEPT ![p] = IF T.prev[r] = Nil THEN n ELSE T.first[p]]
  <2> DEFINE parent == [T.parent EXCEPT ![n] = p]
             next == Put([T.next EXCEPT ![n] = T.next[r]], T.prev[r], n)
             prev == Put([T.prev EXCEPT ![n] = T.prev[r]], T.next[r], n)
             last == [T.last EXCEPT ![p] = IF T.next[r] = Nil THEN n ELSE T.last[p]]
             first == [T.first EXCEPT ![p] = IF T.prev[r] = Nil THEN n ELSE T.first[p]]
  <2>1. /\ parent \in [Node -> Maybe] /\ next \in [Node -> Maybe] /\ prev \in [Node -> Maybe]
        /\ last \in [Node -> Maybe] /\ first \in [Node -> Maybe]
    BY <1>0, TreeFields DEF Put, Maybe
  <2>2. U = [T EXCEPT !.parent = parent, !.next = next, !.prev = prev, !.last = last, !.first = first]
    BY <1>0 DEF LinkInstead, Trees
  <2> HIDE DEF U, parent, next, prev, last, first
  <2>3. /\ U \in Trees /\ U.kind = T.kind /\ U.parent = parent /\ U.next = next
        /\ U.prev = prev /\ U.last = last /\ U.first = first
    BY <1>0, <2>1, <2>2 DEF Trees
  <2> QED  BY <2>3 DEF parent, next, prev, last, first
<1> HIDE DEF U
<1>2. T.prev[r] # r /\ T.next[r] # r
  <2>1. T.prev[r] # r
    BY GroundedNotOwn DEF Sound
  <2> QED  BY <1>0, <2>1, NilAssumption DEF WellLinked
<1>3. ASSUME NEW m \in Node \ {r}
      PROVE  /\ WellLinked(U, m)
             /\ U.first[m] # r /\ U.last[m] # r /\ U.prev[m] # r /\ U.next[m] # r
  <2>1. WellLinked(T, m) /\ T.parent[n] = Nil
    BY DEF Sound, Linked, MayLink
  <2> QED  BY <1>0, <1>1, <1>2, <2>1, TreeFields, NilAssumption DEF Alone, WellLinked, Put, Maybe
<1>4. ASSUME NEW m \in Node
      PROVE  NoDangling(U, m)
  <2>1. NoDangling(T, m) /\ T.kind[p] \in {"document", "element"} /\ T.kind[n] \in {"element", "leaf"}
    BY <1>0 DEF Sound, Linked, MayLink
  <2> QED  BY <1>0, <1>1, <2>1, TreeFields, NilAssumption DEF NoDangling, Maybe
<1>5. Even(U)
  BY <1>0, <1>1, TreeFields, NilAssumption DEF Even, WellLinked, Maybe
<1>6. Grounded(U.parent)
  BY <1>0, <1>1, TreeFields, GroundedLink DEF Sound, MayLink
<1>7. Grounded(U.prev)
  <2>1. \A m \in Node : T.next[r] = m => T.prev[m] = r
    BY <1>0, NilAssumption DEF WellLinked
  <2>2. /\ \A m \in Node : T.prev[m] # n
        /\ U.prev[n] = T.prev[r] /\ U.prev[r] = T.prev[r]
        /\ \A m \in Node : m # n => U.prev[m] = T.prev[m] \/ (U.prev[m] = n /\ T.prev[m] = r)
    BY <1>0, <1>1, <1>2, <2>1, TreeFields, NilAssumption DEF Alone, Put, Maybe
  <2> QED  BY <1>0, <2>2, GroundedInstead DEF Sound
<1>8. Severed(U, r)
  BY <1>1, <1>3, <1>4, <1>5, <1>6, <1>7 DEF Severed
<1> QED  BY <1>8 DEF U

-----------------------------------------------------------------------------
(* Clear, new nodes and copies.                                            *)

\* Clear keeps the tree sound: p has no child left, all below it are deleted, and the
\* others keep their links.
LEMMA ClearSound ==
  ASSUME NEW T, Sound(T), NEW p \in Node
  PROVE  /\ Sound(Clear(T, p))
         /\ \A n \in Node : Clear(T, p).parent[n] # p
         /\ \A n \in Node : Clear(T, p).parent[n] # Nil => Clear(T, p).parent[n] = T.parent[n]
         /\ \A n \in Node \ (Under(T, p) \ {p}) : Clear(T, p).kind[n] = T.kind[n]
         /\ Clear(T, p).first[p] = Nil
<1> DEFINE B == Under(T, p)
           D == B \ {p}
           U == Clear(T, p)
<1>0. /\ T \in Trees /\ p \in B /\ T.parent[p] \notin B /\ B \subseteq Node
      /\ \A x \in Node : T.parent[x] \in B => x \in B
      /\ \A x \in B : x # p => T.parent[x] \in B
  BY UnderHolds, NotUnderItself, UnderParent DEF Sound
<1>1. /\ U \in Trees
      /\ \A n \in Node :
           /\ U.kind[n] = (IF n \in D THEN "free" ELSE T.kind[n])
           /\ U.parent[n] = (IF n \in D THEN Nil ELSE T.parent[n])
           /\ U.first[n] = (IF n \in B THEN Nil ELSE T.first[n])
           /\ U.last[n] = (IF n \in B THEN Nil ELSE T.last[n])
           /\ U.prev[n] = (IF n \in D THEN Nil ELSE T.prev[n])
           /\ U.next[n] = (IF n \in D THEN Nil ELSE T.next[n])
  <2> HIDE DEF B
  <2> DEFINE V == Delete(T, D)
  <2>1. Deleted(T, V, D)
    BY <1>0, DeleteFields
  <2>2. U = [V EXCEPT !.first[p] = Nil, !.last[p] = Nil]
    BY DEF Clear, B
  <2> HIDE DEF U, V
  <2>3. /\ U \in Trees /\ U.kind = V.kind /\ U.parent = V.parent /\ U.prev = V.prev
        /\ U.next = V.next /\ U.first = [V.first EXCEPT ![p] = Nil]
        /\ U.last = [V.last EXCEPT ![p] = Nil]
    <3>1. V \in Trees
      BY <2>1 DEF Deleted
    <3> QED  BY <3>1, <2>2 DEF Trees, Maybe
  <2>4. V.first \in [Node -> Maybe] /\ V.last \in [Node -> Maybe]
    BY <2>1, TreeFields DEF Deleted
  <2>5. \A n \in Node :
           /\ V.kind[n] = (IF n \in D THEN "free" ELSE T.kind[n])
           /\ V.parent[n] = (IF n \in D THEN Nil ELSE T.parent[n])
           /\ V.first[n] = (IF n \in D THEN Nil ELSE T.first[n])
           /\ V.last[n] = (IF n \in D THEN Nil ELSE T.last[n])
           /\ V.prev[n] = (IF n \in D THEN Nil ELSE T.prev[n])
           /\ V.next[n] = (IF n \in D THEN Nil ELSE T.next[n])
    BY <2>1, Zenon DEF Deleted
  <2> QED  BY <1>0, <2>3, <2>4, <2>5
<1> HIDE DEF B, U
<1>2. ASSUME NEW n \in Node, n \notin D
      PROVE  /\ WellLinked(T, n) /\ NoDangling(T, n)
             /\ T.parent[n] \notin B
             /\ T.prev[n] \notin D /\ T.next[n] \notin D
             /\ n # p => T.first[n] \notin D /\ T.last[n] \notin D
  <2>1. WellLinked(T, n) /\ NoDangling(T, n)
    BY DEF Sound, Linked
  <2>2. T.parent[n] \notin B
    BY <1>0, <1>2
  <2>3. T.prev[n] \notin D /\ T.next[n] \notin D
    BY <1>0, <2>1, <2>2, NilAssumption DEF WellLinked
  <2>4. n # p => T.first[n] \notin D /\ T.last[n] \notin D
    BY <1>0, <1>2, <2>1, NilAssumption DEF WellLinked
  <2> QED  BY <2>1, <2>2, <2>3, <2>4
<1>3. ASSUME NEW n \in Node
      PROVE  WellLinked(U, n)
  <2>1. CASE n \in D
    BY <1>0, <1>1, <2>1 DEF WellLinked
  <2>2. CASE n = p
    BY <1>0, <1>1, <1>2, <2>2, TreeFields, NilAssumption DEF WellLinked, Maybe
  <2>3. CASE n \notin B
    BY <1>0, <1>1, <1>2, <2>3, TreeFields, NilAssumption DEF WellLinked, Maybe
  <2> QED  BY <2>1, <2>2, <2>3
<1>4. ASSUME NEW n \in Node
      PROVE  NoDangling(U, n)
  BY <1>0, <1>1, <1>2, TreeFields DEF NoDangling, Maybe
<1>5. Even(U)
  BY <1>1 DEF Sound, Even
<1>6. Grounded(U.parent) /\ Grounded(U.prev)
  BY <1>1, GroundedPart, NilAssumption DEF Sound
<1>7. Sound(U)
  BY <1>1, <1>3, <1>4, <1>5, <1>6 DEF Sound, Linked
<1>8. \A n \in Node : U.parent[n] # p
  BY <1>0, <1>1, <1>2, NilAssumption
<1> QED  BY <1>0, <1>1, <1>7, <1>8 DEF U, B

\* A new node is a root without children.
LEMMA NewSound ==
  ASSUME NEW T, Sound(T), NEW n \in Free(T), NEW k \in Kinds, NEW v \in Name
  PROVE  Sound(NewNode(T, n, k, v))
<1> DEFINE U == NewNode(T, n, k, v)
<1>0. T \in Trees /\ n \in Node /\ T.kind[n] = "free"
  BY DEF Free, Sound
<1>1. /\ U \in Trees /\ U.kind = [T.kind EXCEPT ![n] = k]
      /\ U.parent = T.parent /\ U.first = T.first /\ U.last = T.last
      /\ U.prev = T.prev /\ U.next = T.next
  BY <1>0 DEF NewNode, Trees
<1> HIDE DEF U
<1>2. ASSUME NEW m \in Node
      PROVE  WellLinked(U, m)
  BY <1>1 DEF Sound, Linked, WellLinked
<1>3. ASSUME NEW m \in Node
      PROVE  NoDangling(U, m)
  <2>1. NoDangling(T, m) /\ NoDangling(T, n)
    BY <1>0 DEF Sound, Linked
  <2> QED  BY <1>0, <1>1, <2>1, TreeFields, NilAssumption DEF NoDangling, Maybe, Kinds
<1>4. Even(U) /\ Grounded(U.parent) /\ Grounded(U.prev)
  BY <1>1 DEF Sound, Even
<1>5. Sound(U)
  BY <1>1, <1>2, <1>3, <1>4 DEF Sound, Linked
<1> QED  BY <1>5 DEF U

\* Where the copy of x is, if x is copied.
Image(c, x) == IF x \in DOMAIN c THEN c[x] ELSE Nil

\* What CopyTo makes of the fields of T.
CopyOf(T, U, a, c) ==
    /\ U \in Trees
    /\ \A x \in DOMAIN c : /\ U.kind[c[x]] = T.kind[x] /\ U.name[c[x]] = T.name[x]
                           /\ U.first[c[x]] = Image(c, T.first[x])
                           /\ U.last[c[x]] = Image(c, T.last[x])
    /\ \A x \in DOMAIN c \ {a} : /\ U.parent[c[x]] = Image(c, T.parent[x])
                                 /\ U.prev[c[x]] = Image(c, T.prev[x])
                                 /\ U.next[c[x]] = Image(c, T.next[x])
    /\ \A m \in Node \ Range(c) : /\ U.kind[m] = T.kind[m] /\ U.name[m] = T.name[m]
                                  /\ U.first[m] = T.first[m] /\ U.last[m] = T.last[m]
    /\ \A m \in Node \ {c[x] : x \in DOMAIN c \ {a}} :
            U.parent[m] = T.parent[m] /\ U.prev[m] = T.prev[m] /\ U.next[m] = T.next[m]

\* The original of a copy.
LEMMA SourceOf ==
  ASSUME NEW c, IsInjective(c), NEW x \in DOMAIN c
  PROVE  (CHOOSE y \in DOMAIN c : c[y] = c[x]) = x
  BY DEF IsInjective

\* CopyTo does to the fields what CopyOf says.
LEMMA CopyFields ==
  ASSUME NEW T \in Trees, NEW a, NEW S \in SUBSET Node, a \in S,
         NEW c \in [S -> Node], IsInjective(c)
  PROVE  CopyOf(T, CopyTo(T, a, c), a, c)
<1> DEFINE to(x) == IF x \in DOMAIN c THEN c[x] ELSE Nil
           inside(f) == [Copied(f, c, to) EXCEPT ![c[a]] = f[c[a]]]
           U == CopyTo(T, a, c)
<1>1. U = [T EXCEPT !.kind = Copied(T.kind, c, LAMBDA k : k),
                    !.first = Copied(T.first, c, to), !.last = Copied(T.last, c, to),
                    !.parent = inside(T.parent), !.prev = inside(T.prev),
                    !.next = inside(T.next), !.name = Copied(T.name, c, LAMBDA v : v)]
  BY DEF CopyTo, CopyShape, Trees
<1>2. ASSUME NEW f \in [Node -> Maybe]
      PROVE  /\ Copied(f, c, to) \in [Node -> Maybe]
             /\ \A x \in S : Copied(f, c, to)[c[x]] = Image(c, f[x])
             /\ \A m \in Node \ Range(c) : Copied(f, c, to)[m] = f[m]
  <2>1. ASSUME NEW m \in Node
        PROVE  to(f[CHOOSE x \in DOMAIN c : c[x] = m]) \in Maybe
    BY DEF Maybe
  <2>2. Copied(f, c, to) \in [Node -> Maybe]
    BY <2>1 DEF Copied, Maybe
  <2>3. ASSUME NEW x \in S
        PROVE  Copied(f, c, to)[c[x]] = Image(c, f[x])
    BY SourceOf DEF Copied, Image, Range
  <2>4. \A m \in Node \ Range(c) : Copied(f, c, to)[m] = f[m]
    BY DEF Copied
  <2> QED  BY <2>2, <2>3, <2>4
<1>3. ASSUME NEW V, NEW f \in [Node -> V]
      PROVE  /\ Copied(f, c, LAMBDA v : v) \in [Node -> V]
             /\ \A x \in S : Copied(f, c, LAMBDA v : v)[c[x]] = f[x]
             /\ \A m \in Node \ Range(c) : Copied(f, c, LAMBDA v : v)[m] = f[m]
  <2>1. ASSUME NEW m \in Range(c)
        PROVE  (CHOOSE x \in DOMAIN c : c[x] = m) \in Node
    BY DEF Range
  <2>2. Copied(f, c, LAMBDA v : v) \in [Node -> V]
    BY <2>1 DEF Copied
  <2>3. ASSUME NEW x \in S
        PROVE  Copied(f, c, LAMBDA v : v)[c[x]] = f[x]
    BY SourceOf DEF Copied, Range
  <2>4. \A m \in Node \ Range(c) : Copied(f, c, LAMBDA v : v)[m] = f[m]
    BY DEF Copied
  <2> QED  BY <2>2, <2>3, <2>4
<1>4. ASSUME NEW f \in [Node -> Maybe]
      PROVE  /\ inside(f) \in [Node -> Maybe]
             /\ \A x \in S \ {a} : inside(f)[c[x]] = Image(c, f[x])
             /\ \A m \in Node \ {c[x] : x \in DOMAIN c \ {a}} : inside(f)[m] = f[m]
  <2> DEFINE g == Copied(f, c, to)
  <2>1. /\ g \in [Node -> Maybe]
        /\ \A x \in S : g[c[x]] = Image(c, f[x])
        /\ \A m \in Node \ Range(c) : g[m] = f[m]
    BY <1>2
  <2> HIDE DEF g
  <2>2. \A x \in S \ {a} : c[x] # c[a]
    BY DEF IsInjective
  <2>3. [g EXCEPT ![c[a]] = f[c[a]]] \in [Node -> Maybe]
    BY <2>1
  <2>4. \A x \in S \ {a} : [g EXCEPT ![c[a]] = f[c[a]]][c[x]] = Image(c, f[x])
    BY <2>1, <2>2
  <2>5. \A m \in Node \ {c[x] : x \in DOMAIN c \ {a}} : [g EXCEPT ![c[a]] = f[c[a]]][m] = f[m]
    BY <2>1 DEF Range
  <2> QED  BY <2>3, <2>4, <2>5 DEF g
<1>5. /\ T.kind \in [Node -> Kinds \union {"free"}] /\ T.name \in [Node -> Name \union {""}]
      /\ T.parent \in [Node -> Maybe] /\ T.first \in [Node -> Maybe] /\ T.last \in [Node -> Maybe]
      /\ T.prev \in [Node -> Maybe] /\ T.next \in [Node -> Maybe]
  BY DEF Trees
<1> DEFINE kind == Copied(T.kind, c, LAMBDA k : k)
           name == Copied(T.name, c, LAMBDA v : v)
           first == Copied(T.first, c, to)
           last == Copied(T.last, c, to)
           parent == inside(T.parent)
           prev == inside(T.prev)
           next == inside(T.next)
<1>6. /\ kind \in [Node -> Kinds \union {"free"}]
      /\ \A x \in S : kind[c[x]] = T.kind[x]
      /\ \A m \in Node \ Range(c) : kind[m] = T.kind[m]
  <2>1. T.kind \in [Node -> Kinds \union {"free"}]
    BY <1>5
  <2> QED  BY <1>3, <2>1
<1>7. /\ name \in [Node -> Name \union {""}]
      /\ \A x \in S : name[c[x]] = T.name[x]
      /\ \A m \in Node \ Range(c) : name[m] = T.name[m]
  BY <1>3, <1>5
<1>8. /\ first \in [Node -> Maybe] /\ last \in [Node -> Maybe]
      /\ \A x \in S : first[c[x]] = Image(c, T.first[x]) /\ last[c[x]] = Image(c, T.last[x])
      /\ \A m \in Node \ Range(c) : first[m] = T.first[m] /\ last[m] = T.last[m]
  BY <1>2, <1>5
<1>9. /\ parent \in [Node -> Maybe] /\ prev \in [Node -> Maybe] /\ next \in [Node -> Maybe]
      /\ \A x \in S \ {a} : /\ parent[c[x]] = Image(c, T.parent[x])
                             /\ prev[c[x]] = Image(c, T.prev[x])
                             /\ next[c[x]] = Image(c, T.next[x])
      /\ \A m \in Node \ {c[x] : x \in DOMAIN c \ {a}} :
            parent[m] = T.parent[m] /\ prev[m] = T.prev[m] /\ next[m] = T.next[m]
  <2>1. /\ parent \in [Node -> Maybe]
        /\ \A x \in S \ {a} : parent[c[x]] = Image(c, T.parent[x])
        /\ \A m \in Node \ {c[x] : x \in DOMAIN c \ {a}} : parent[m] = T.parent[m]
    BY <1>4, <1>5
  <2>2. /\ prev \in [Node -> Maybe]
        /\ \A x \in S \ {a} : prev[c[x]] = Image(c, T.prev[x])
        /\ \A m \in Node \ {c[x] : x \in DOMAIN c \ {a}} : prev[m] = T.prev[m]
    BY <1>4, <1>5
  <2>3. /\ next \in [Node -> Maybe]
        /\ \A x \in S \ {a} : next[c[x]] = Image(c, T.next[x])
        /\ \A m \in Node \ {c[x] : x \in DOMAIN c \ {a}} : next[m] = T.next[m]
    BY <1>4, <1>5
  <2> HIDE DEF parent, prev, next
  <2> QED  BY <2>1, <2>2, <2>3
<1>10. U = [T EXCEPT !.kind = kind, !.first = first, !.last = last, !.parent = parent,
                     !.prev = prev, !.next = next, !.name = name]
  BY <1>1
<1> HIDE DEF U, kind, name, first, last, parent, prev, next
<1>11. /\ U \in Trees /\ U.kind = kind /\ U.name = name /\ U.first = first /\ U.last = last
       /\ U.parent = parent /\ U.prev = prev /\ U.next = next
  BY <1>6, <1>7, <1>8, <1>9, <1>10 DEF Trees
<1>12. CopyOf(T, U, a, c)
  BY <1>6, <1>7, <1>8, <1>9, <1>11 DEF CopyOf
<1> QED  BY <1>12 DEF U

\* A grounded link stays grounded when part of it is copied along c to new nodes.
LEMMA GroundedCopied ==
  ASSUME NEW f, Grounded(f), NEW a, NEW S \in SUBSET Node, a \in S,
         NEW c \in [S -> Node], IsInjective(c), NEW g,
         \A x \in S \ {a} : g[c[x]] = Image(c, f[x]),
         \A m \in Node \ {c[x] : x \in S \ {a}} : g[m] = f[m],
         \A m \in Node : f[m] \notin {c[x] : x \in S \ {a}}
  PROVE  Grounded(g)
<1> DEFINE Fresh == {c[x] : x \in S \ {a}}
<1> SUFFICES ASSUME NEW R \in SUBSET Node, R # {}, \A m \in R : g[m] \in R
             PROVE  FALSE
  BY DEF Grounded
<1>1. CASE R \ Fresh # {}
  <2>1. PICK m \in R \ Fresh : f[m] \notin R \ Fresh
    BY <1>1 DEF Grounded
  <2> QED  BY <2>1
<1>2. CASE R \ Fresh = {}
  <2> DEFINE Q == {x \in S \ {a} : c[x] \in R}
  <2>1. Q # {}
    BY <1>2
  <2>2. PICK x \in Q : f[x] \notin Q
    BY <2>1 DEF Grounded
  <2>3. g[c[x]] \in R /\ g[c[x]] \in Fresh
    BY <1>2
  <2>4. g[c[x]] = Image(c, f[x])
    OBVIOUS
  <2>5. PICK y \in S \ {a} : g[c[x]] = c[y]
    BY <2>3
  <2>6. CASE f[x] \in S
    <3>1. c[f[x]] = c[y]
      BY <2>4, <2>5, <2>6 DEF Image
    <3>2. f[x] = y
      BY <3>1, <2>6 DEF IsInjective
    <3> QED  BY <3>2, <2>2, <2>3, <2>5
  <2>7. CASE f[x] \notin S
    <3>1. g[c[x]] = Nil
      BY <2>4, <2>7 DEF Image
    <3> QED  BY <3>1, <2>3, NilAssumption
  <2> QED  BY <2>6, <2>7
<1> QED  BY <1>1, <1>2

\* What a call that copies a along c may count on: the copies are new nodes, but
\* the copy of a may be a node of a's kind, without children and not below a.
MayCopy(T, a, c) ==
    /\ a \in Node /\ T.kind[a] # "free"
    /\ c \in [Under(T, a) -> Node] /\ IsInjective(c)
    /\ \A x \in Under(T, a) \ {a} : T.kind[c[x]] = "free"
    /\ T.kind[c[a]] \in {"free", T.kind[a]}
    /\ \A m \in Node : T.parent[m] # c[a]
    /\ c[a] \notin Under(T, a)

\* Nobody points at a deleted node, and none is above another.
LEMMA FreeAlone ==
  ASSUME NEW T, Sound(T), NEW n \in Node, T.kind[n] = "free"
  PROVE  /\ Alone(T, n) /\ T.parent[n] = Nil /\ T.first[n] = Nil /\ T.last[n] = Nil
         /\ \A m \in Node : T.parent[m] # n
<1>1. T.parent[n] = Nil /\ T.first[n] = Nil /\ T.last[n] = Nil
  BY DEF Sound, Linked, NoDangling
<1>2. ASSUME NEW m \in Node
      PROVE  T.parent[m] # n
  <2>1. NoDangling(T, m)
    BY DEF Sound, Linked
  <2> QED  BY <2>1, NilAssumption DEF NoDangling
<1> QED  BY <1>1, <1>2, RootAlone

\* The nodes below a live node are live, and all but itself are children.
LEMMA UnderLive ==
  ASSUME NEW T, Sound(T), NEW a \in Node, T.kind[a] # "free", NEW x \in Under(T, a)
  PROVE  /\ T.kind[x] # "free" /\ x \in Node
         /\ x # a => T.parent[x] \in Under(T, a)
<1>1. x \in Node /\ Nil \notin Under(T, a)
  BY UnderHolds, NilAssumption
<1>2. CASE x = a
  BY <1>1, <1>2
<1>3. CASE x # a
  <2>1. T.parent[x] \in Under(T, a)
    BY <1>3, UnderParent
  <2>2. NoDangling(T, x)
    BY <1>1 DEF Sound, Linked
  <2> QED  BY <1>1, <2>1, <2>2 DEF NoDangling
<1> QED  BY <1>2, <1>3

\* A copy beside the tree keeps it sound: the links of the copies are those of the
\* originals, moved along c.
LEMMA CopySound ==
  ASSUME NEW T, Sound(T), NEW a, NEW c, MayCopy(T, a, c)
  PROVE  Sound(CopyTo(T, a, c))
<1> DEFINE S == Under(T, a)
           Fresh == {c[x] : x \in S \ {a}}
           U == CopyTo(T, a, c)
<1>0. /\ T \in Trees /\ a \in S /\ S \in SUBSET Node /\ c \in [S -> Node] /\ IsInjective(c)
      /\ a \in Node
  BY UnderHolds DEF Sound, MayCopy
<1>1. CopyOf(T, U, a, c) /\ U \in Trees
  BY <1>0, CopyFields DEF CopyOf
<1>2. ASSUME NEW n \in Fresh
      PROVE  /\ Alone(T, n) /\ \A m \in Node : T.parent[m] # n
             /\ T.kind[n] = "free" /\ n \in Node
  BY <1>0, FreeAlone DEF MayCopy
<1>3. /\ T.parent[a] \notin S
      /\ \A x \in S : T.kind[x] # "free" /\ x # c[a] /\ x \notin Fresh
      /\ \A x \in S \ {a} : T.parent[x] \in S
      /\ \A x \in Node : T.parent[x] \in S => x \in S
  BY <1>0, <1>2, UnderLive, NotUnderItself, UnderHolds DEF MayCopy, Sound
<1>4. /\ \A m \in Node : T.parent[m] # c[a]
      /\ T.first[c[a]] = Nil /\ T.last[c[a]] = Nil
      /\ c[a] \in Node /\ c[a] \notin Fresh
  <2>1. WellLinked(T, c[a]) /\ c[a] \in Node
    BY <1>0 DEF Sound, Linked
  <2>2. \A m \in Node : T.parent[m] # c[a]
    BY DEF MayCopy
  <2>3. T.first[c[a]] \in Maybe /\ T.last[c[a]] \in Maybe
    BY <1>0, TreeFields
  <2> QED  BY <1>0, <2>1, <2>2, <2>3 DEF WellLinked, Maybe, IsInjective
<1>5. /\ \A x \in S : /\ U.kind[c[x]] = T.kind[x]
                      /\ U.first[c[x]] = Image(c, T.first[x])
                      /\ U.last[c[x]] = Image(c, T.last[x])
      /\ \A x \in S \ {a} : /\ U.parent[c[x]] = Image(c, T.parent[x])
                            /\ U.prev[c[x]] = Image(c, T.prev[x])
                            /\ U.next[c[x]] = Image(c, T.next[x])
      /\ \A m \in Node \ (Fresh \union {c[a]}) :
             U.kind[m] = T.kind[m] /\ U.first[m] = T.first[m] /\ U.last[m] = T.last[m]
      /\ \A m \in Node \ Fresh :
             U.parent[m] = T.parent[m] /\ U.prev[m] = T.prev[m] /\ U.next[m] = T.next[m]
  BY <1>0, <1>1 DEF CopyOf, Range
<1>6. \A x \in S : \A y \in S : c[x] = c[y] => x = y
  BY <1>0 DEF IsInjective
<1> HIDE DEF S, Fresh, U
<1>7. \A m \in Node : WellLinked(T, m) /\ NoDangling(T, m)
  BY DEF Sound, Linked
\* A copied node: its links are the images of the links of the original.
<1>8. ASSUME NEW x \in S \ {a}
      PROVE  WellLinked(U, c[x]) /\ NoDangling(U, c[x])
  <2>1. /\ x \in Node /\ WellLinked(T, x) /\ NoDangling(T, x)
        /\ c[x] \in Node /\ T.parent[x] \in S /\ c[T.parent[x]] \in Node
    BY <1>0, <1>3, <1>7
  <2>2. /\ T.first[x] # Nil => T.first[x] \in S \ {a}
        /\ T.last[x] # Nil => T.last[x] \in S \ {a}
        /\ T.next[x] # Nil => T.next[x] \in S \ {a}
        /\ T.prev[x] # Nil => T.prev[x] \in S \ {a}
    BY <1>0, <1>3, <2>1, TreeFields DEF WellLinked, Maybe
  <2>3. Nil \notin S /\ \A y \in S : c[y] # Nil
    BY <1>0, NilAssumption
  <2>4. WellLinked(U, c[x])
    <3> DEFINE y == c[x]
    <3>1. /\ U.first[y] = Image(c, T.first[x]) /\ U.last[y] = Image(c, T.last[x])
          /\ U.next[y] = Image(c, T.next[x]) /\ U.prev[y] = Image(c, T.prev[x])
          /\ U.parent[y] = c[T.parent[x]] /\ U.parent[y] # Nil
      <4>1. DOMAIN c = S /\ U.parent[y] = Image(c, T.parent[x])
        BY <1>0, <1>5
      <4>2. U.parent[y] = c[T.parent[x]]
        BY <2>1, <4>1 DEF Image
      <4> QED  BY <1>5, <2>1, <2>3, <4>2
    <3>2. U.first[y] # Nil => U.parent[U.first[y]] = y /\ U.prev[U.first[y]] = Nil
      BY <1>0, <1>5, <2>1, <2>2, <2>3, <3>1 DEF WellLinked, Image
    <3>3. U.last[y] # Nil => U.parent[U.last[y]] = y /\ U.next[U.last[y]] = Nil
      BY <1>0, <1>5, <2>1, <2>2, <2>3, <3>1 DEF WellLinked, Image
    <3>4. U.next[y] # Nil => U.prev[U.next[y]] = y /\ U.parent[U.next[y]] = U.parent[y]
      BY <1>0, <1>5, <2>1, <2>2, <2>3, <3>1 DEF WellLinked, Image
    <3>5. U.prev[y] # Nil => U.next[U.prev[y]] = y /\ U.parent[U.prev[y]] = U.parent[y]
      BY <1>0, <1>5, <2>1, <2>2, <2>3, <3>1 DEF WellLinked, Image
    <3>6. U.prev[y] = Nil => U.first[U.parent[y]] = y
      BY <1>0, <1>5, <2>1, <2>2, <2>3, <3>1, NilAssumption DEF WellLinked, Image
    <3>7. U.next[y] = Nil => U.last[U.parent[y]] = y
      BY <1>0, <1>5, <2>1, <2>2, <2>3, <3>1, NilAssumption DEF WellLinked, Image
    <3> HIDE DEF y
    <3>8. WellLinked(U, y)
      BY <3>1, <3>2, <3>3, <3>4, <3>5, <3>6, <3>7 DEF WellLinked
    <3> QED  BY <3>8 DEF y
  <2>5. NoDangling(U, c[x])
    BY <1>0, <1>3, <1>5, <2>1, <2>3 DEF NoDangling, Image
  <2> QED  BY <2>4, <2>5
\* The copy of a keeps its place.
<1>9. WellLinked(U, c[a]) /\ NoDangling(U, c[a])
  <2>1. WellLinked(T, a) /\ WellLinked(T, c[a]) /\ NoDangling(T, c[a])
    BY <1>0, <1>4, <1>7
  <2>2. /\ T.first[a] # Nil => T.first[a] \in S \ {a}
        /\ T.last[a] # Nil => T.last[a] \in S \ {a}
    BY <1>0, <1>3, <2>1, TreeFields DEF WellLinked, Maybe
  <2>3. /\ U.next[c[a]] = T.next[c[a]] /\ U.prev[c[a]] = T.prev[c[a]]
        /\ U.parent[c[a]] = T.parent[c[a]]
    BY <1>4, <1>5
  <2>4. /\ T.next[c[a]] \in Maybe \ Fresh /\ T.prev[c[a]] \in Maybe \ Fresh
        /\ T.parent[c[a]] \in Maybe \ (Fresh \union {c[a]})
    BY <1>0, <1>2, <1>4, TreeFields DEF Alone
  <2>5. Nil \notin S /\ \A y \in S : c[y] # Nil
    BY <1>0, NilAssumption
  <2>6. WellLinked(U, c[a])
    BY <1>0, <1>4, <1>5, <2>1, <2>2, <2>3, <2>4, <2>5, NilAssumption DEF WellLinked, Image, Maybe
  <2>7. NoDangling(U, c[a])
    <3>1. U.kind[c[a]] = T.kind[a] /\ T.kind[a] # "free" /\ T.kind[c[a]] \in {"free", T.kind[a]}
      BY <1>0, <1>5 DEF MayCopy
    <3>2. T.parent[c[a]] # Nil => U.kind[T.parent[c[a]]] = T.kind[T.parent[c[a]]]
      BY <1>5, <2>4 DEF Maybe
    <3> QED  BY <2>1, <2>3, <3>1, <3>2 DEF NoDangling
  <2> QED  BY <2>6, <2>7
\* All other nodes keep their links, which lead to no new node.
<1>10. ASSUME NEW m \in Node \ (Fresh \union {c[a]})
       PROVE  WellLinked(U, m) /\ NoDangling(U, m)
  <2>1. /\ U.first[m] = T.first[m] /\ U.last[m] = T.last[m] /\ U.next[m] = T.next[m]
        /\ U.prev[m] = T.prev[m] /\ U.parent[m] = T.parent[m] /\ U.kind[m] = T.kind[m]
    BY <1>5
  <2>2. /\ T.first[m] \in Maybe \ Fresh /\ T.last[m] \in Maybe \ Fresh
        /\ T.next[m] \in Maybe \ Fresh /\ T.prev[m] \in Maybe \ Fresh
        /\ T.parent[m] \in Maybe \ (Fresh \union {c[a]})
    BY <1>0, <1>2, <1>4, TreeFields DEF Alone
  <2>3. WellLinked(U, m)
    BY <1>5, <1>7, <2>1, <2>2 DEF WellLinked, Maybe
  <2>4. NoDangling(U, m)
    BY <1>5, <1>7, <2>1, <2>2 DEF NoDangling, Maybe
  <2> QED  BY <2>3, <2>4
<1>11. Linked(U)
  BY <1>8, <1>9, <1>10 DEF Linked, Fresh
<1>12. Even(U)
  <2>1. ASSUME NEW x \in S
        PROVE  U.first[c[x]] = Nil <=> U.last[c[x]] = Nil
    <3>1. /\ T.first[x] # Nil => T.first[x] \in S
          /\ T.last[x] # Nil => T.last[x] \in S
      BY <1>0, <1>3, <1>7, TreeFields DEF WellLinked, Maybe
    <3>2. T.first[x] = Nil <=> T.last[x] = Nil
      BY <1>0 DEF Sound, Even
    <3> QED  BY <1>0, <1>5, <3>1, <3>2, NilAssumption DEF Image
  <2>2. ASSUME NEW m \in Node \ (Fresh \union {c[a]})
        PROVE  U.first[m] = Nil <=> U.last[m] = Nil
    BY <1>5 DEF Sound, Even
  <2> QED  BY <1>0, <2>1, <2>2 DEF Even, Fresh
<1>13. Grounded(U.parent)
  <2>1. \A m \in Node : T.parent[m] \notin {c[x] : x \in S \ {a}}
    BY <1>2 DEF Fresh
  <2>2. /\ \A x \in S \ {a} : U.parent[c[x]] = Image(c, T.parent[x])
        /\ \A m \in Node \ {c[x] : x \in S \ {a}} : U.parent[m] = T.parent[m]
    BY <1>5 DEF Fresh
  <2>3. Grounded(T.parent)
    BY DEF Sound
  <2> QED  BY <1>0, <2>1, <2>2, <2>3, GroundedCopied
<1>14. Grounded(U.prev)
  <2>1. \A m \in Node : T.prev[m] \notin {c[x] : x \in S \ {a}}
    BY <1>2 DEF Alone, Fresh
  <2>2. /\ \A x \in S \ {a} : U.prev[c[x]] = Image(c, T.prev[x])
        /\ \A m \in Node \ {c[x] : x \in S \ {a}} : U.prev[m] = T.prev[m]
    BY <1>5 DEF Fresh
  <2>3. Grounded(T.prev)
    BY DEF Sound
  <2> QED  BY <1>0, <2>1, <2>2, <2>3, GroundedCopied
<1>15. Sound(U)
  BY <1>1, <1>11, <1>12, <1>13, <1>14 DEF Sound
<1> QED  BY <1>15 DEF U

-----------------------------------------------------------------------------
(* The steps.                                                              *)

IInv == Sound(tree)

\* At first there is no node.
LEMMA SoundInit == TreeInit => IInv
<1> SUFFICES Sound(NoTree)
  BY DEF TreeInit, IInv
<1>1. NoTree \in Trees
  BY DEF NoTree, Trees, Maybe, Kinds
<1>2. \A n \in Node : WellLinked(NoTree, n) /\ NoDangling(NoTree, n)
  BY DEF NoTree, WellLinked, NoDangling
<1>3. Even(NoTree)
  BY DEF Even, NoTree
<1>4. Grounded(NoTree.parent) /\ Grounded(NoTree.prev)
  BY NilAssumption DEF Grounded, NoTree
<1> QED  BY <1>1, <1>2, <1>3, <1>4 DEF Sound, Linked

\* Soundness looks at kinds and links only.
LEMMA SameLinksSound ==
  ASSUME NEW T, Sound(T), NEW U \in Trees, U.kind = T.kind, U.parent = T.parent,
         U.first = T.first, U.last = T.last, U.prev = T.prev, U.next = T.next
  PROVE  Sound(U)
  BY DEF Sound, Linked, WellLinked, NoDangling, Even

\* Who may have children, or has one, is a document or an element.
LEMMA ParentKind ==
  ASSUME NEW T, Sound(T), NEW p \in Node,
         p \in Parents(T) \/ \E b \in Node : T.parent[b] = p
  PROVE  T.kind[p] \in {"document", "element"}
<1>1. CASE p \in Parents(T)
  <2>1. T.kind \in [Node -> Kinds \union {"free"}]
    BY TreeFields DEF Sound
  <2> QED  BY <1>1, <2>1 DEF Parents, Live, Free, Kinds
<1>2. ASSUME NEW b \in Node, T.parent[b] = p
      PROVE  T.kind[p] \in {"document", "element"}
  BY <1>2, NilAssumption DEF Sound, Linked, NoDangling
<1> QED  BY <1>1, <1>2

\* A client's copy may be made.
LEMMA CloneMayCopy ==
  ASSUME NEW T, Sound(T), NEW a \in Live(T), NEW c \in CloneMaps(T, a, Free(T))
  PROVE  /\ MayCopy(T, a, c) /\ Sound(CopyTo(T, a, c))
         /\ \A m \in Range(c) : m \in Free(T) /\ T.parent[m] = Nil
<1> DEFINE S == Under(T, a)
<1>0. /\ a \in Node /\ T.kind[a] # "free" /\ a \in S /\ S \in SUBSET Node
      /\ c \in [S -> Free(T)] /\ IsInjective(c)
      /\ \A x \in S : c[x] \in Node /\ T.kind[c[x]] = "free"
  BY UnderHolds DEF CloneMaps, Live, Free
<1>1. MayCopy(T, a, c)
  <2>1. c \in [S -> Node]
    BY <1>0
  <2>2. \A x \in S : T.kind[x] # "free"
    BY <1>0, UnderLive
  <2>3. \A m \in Node : T.parent[m] # c[a]
    BY <1>0, FreeAlone
  <2> QED  BY <1>0, <2>1, <2>2, <2>3 DEF MayCopy
<1>2. Sound(CopyTo(T, a, c))
  BY <1>1, CopySound
<1>3. ASSUME NEW m \in Range(c)  PROVE m \in Free(T) /\ T.parent[m] = Nil
  <2>1. m \in Node /\ T.kind[m] = "free"
    BY <1>0 DEF Range
  <2> QED  BY <2>1, FreeAlone DEF Free
<1> QED  BY <1>1, <1>2, <1>3

\* A copy into free nodes, which may then be linked under any parent.
LEMMA CloneSound ==
  ASSUME NEW T, Sound(T), NEW a \in Live(T), T.kind[a] # "document",
         NEW c \in CloneMaps(T, a, Free(T))
  PROVE  /\ Sound(CopyTo(T, a, c))
         /\ c[a] \in Free(T)
         /\ \A p \in Node : T.kind[p] \in {"document", "element"} => MayLink(CopyTo(T, a, c), p, c[a])
         /\ \A b \in Live(T) : CopyTo(T, a, c).parent[b] = T.parent[b]
<1> DEFINE U == CopyTo(T, a, c)
           S == Under(T, a)
<1>0. /\ T \in Trees /\ a \in Node /\ T.kind[a] # "free" /\ a \in S /\ S \in SUBSET Node
      /\ c \in [S -> Free(T)] /\ IsInjective(c)
      /\ \A x \in S : c[x] \in Node /\ T.kind[c[x]] = "free"
      /\ T.kind[a] \in {"element", "leaf"}
  <2>1. T.kind \in [Node -> Kinds \union {"free"}] /\ T \in Trees
    BY TreeFields DEF Sound
  <2> QED  BY <2>1, UnderHolds DEF CloneMaps, Live, Free, Kinds
<1>1. MayCopy(T, a, c)
  BY CloneMayCopy
<1>2. Sound(U) /\ CopyOf(T, U, a, c)
  BY <1>0, <1>1, CopySound, CopyFields DEF MayCopy
<1>3. /\ U.kind[c[a]] = T.kind[a]
      /\ \A m \in Node \ Range(c) : U.kind[m] = T.kind[m] /\ U.parent[m] = T.parent[m]
      /\ U.parent[c[a]] = T.parent[c[a]]
      /\ \A m \in Range(c) : m \in Node /\ T.kind[m] = "free"
      /\ c[a] \in Range(c)
  <2>1. DOMAIN c = S
    BY <1>0
  <2>2. c[a] \notin {c[x] : x \in S \ {a}}
    BY <1>0, <2>1 DEF IsInjective
  <2> QED  BY <1>0, <1>2, <2>1, <2>2 DEF CopyOf, Range
<1>4. T.parent[c[a]] = Nil
  BY <1>0, FreeAlone
<1> HIDE DEF U, S
<1>5. Under(U, c[a]) \subseteq Range(c)
  <2>1. \A x \in Node : U.parent[x] \in Range(c) => x \in Range(c)
    BY <1>3, FreeAlone
  <2> QED  BY <1>0, <1>3, <2>1, UnderLeast
<1>6. ASSUME NEW p \in Node, T.kind[p] \in {"document", "element"}
      PROVE  MayLink(U, p, c[a])
  <2>1. p \notin Range(c)
    BY <1>3, <1>6
  <2> QED  BY <1>0, <1>3, <1>4, <1>5, <1>6, <2>1 DEF MayLink
<1>7. \A b \in Live(T) : U.parent[b] = T.parent[b]
  BY <1>3 DEF Live, Free
<1> QED  BY <1>0, <1>2, <1>6, <1>7 DEF U

\* One lemma for each of the client's calls.
LEMMA NewStep == IInv /\ New => IInv'
  BY NewSound DEF IInv, New

LEMMA LinkStep == IInv /\ Link => IInv'
<1> SUFFICES ASSUME IInv, NEW p \in Parents(tree), NEW n \in Node,
                    IsRoot(tree, n), tree.kind[n] # "document", p \notin Under(tree, n),
                    tree' = LinkEndChild(tree, p, n)
             PROVE  IInv'
  BY DEF Link
<1>1. tree \in Trees /\ p \in Node
  BY DEF IInv, Sound, Parents, Live
<1>2. tree.kind[p] \in {"document", "element"}
  BY <1>1, ParentKind DEF IInv
<1>3. tree.kind[n] \in {"element", "leaf"} /\ tree.parent[n] = Nil
  BY <1>1, TreeFields DEF IsRoot, Live, Free, Kinds
<1>4. MayLink(tree, p, n)
  BY <1>1, <1>2, <1>3 DEF MayLink
<1> QED  BY <1>4, LinkEndSound DEF IInv

LEMMA InsertEndStep == IInv /\ InsertEnd => IInv'
<1> SUFFICES ASSUME IInv, NEW p \in Parents(tree), NEW a \in Live(tree), tree.kind[a] # "document",
                    NEW c \in CloneMaps(tree, a, Free(tree)),
                    tree' = LinkEndChild(CopyTo(tree, a, c), p, c[a])
             PROVE  IInv'
  BY DEF InsertEnd, Cloning
<1>1. p \in Node /\ tree.kind[p] \in {"document", "element"}
  BY ParentKind DEF IInv, Parents, Live
<1>2. Sound(CopyTo(tree, a, c)) /\ MayLink(CopyTo(tree, a, c), p, c[a])
  BY <1>1, CloneSound DEF IInv
<1> QED  BY <1>2, LinkEndSound DEF IInv

\* The parent that InsertBefore, InsertAfter and ReplaceChild insert under may have the copy.
LEMMA SiblingStep ==
  ASSUME IInv, NEW b \in Live(tree), tree.parent[b] # Nil,
         NEW a \in Live(tree), tree.kind[a] # "document",
         NEW c \in CloneMaps(tree, a, Free(tree))
  PROVE  /\ Sound(CopyTo(tree, a, c)) /\ b \in Node
         /\ MayLink(CopyTo(tree, a, c), CopyTo(tree, a, c).parent[b], c[a])
<1>1. b \in Node /\ tree.parent[b] \in Node
  BY TreeFields DEF IInv, Sound, Live, Maybe
<1>2. tree.kind[tree.parent[b]] \in {"document", "element"}
  BY <1>1, ParentKind DEF IInv
<1>3. CopyTo(tree, a, c).parent[b] = tree.parent[b]
  BY CloneSound DEF IInv
<1> QED  BY <1>1, <1>2, <1>3, CloneSound DEF IInv

LEMMA InsertBeforeStep == IInv /\ InsertBefore => IInv'
<1> SUFFICES ASSUME IInv, NEW b \in Live(tree), tree.parent[b] # Nil,
                    NEW a \in Live(tree), tree.kind[a] # "document",
                    NEW c \in CloneMaps(tree, a, Free(tree)),
                    tree' = LinkBefore(CopyTo(tree, a, c), CopyTo(tree, a, c).parent[b], b, c[a])
             PROVE  IInv'
  BY DEF InsertBefore, Cloning
<1> QED  BY SiblingStep, LinkBeforeSound DEF IInv

LEMMA InsertAfterStep == IInv /\ InsertAfter => IInv'
<1> SUFFICES ASSUME IInv, NEW b \in Live(tree), tree.parent[b] # Nil,
                    NEW a \in Live(tree), tree.kind[a] # "document",
                    NEW c \in CloneMaps(tree, a, Free(tree)),
                    tree' = LinkAfter(CopyTo(tree, a, c), CopyTo(tree, a, c).parent[b], b, c[a])
             PROVE  IInv'
  BY DEF InsertAfter, Cloning
<1> QED  BY SiblingStep, LinkAfterSound DEF IInv

LEMMA ReplaceChildStep == IInv /\ ReplaceChild => IInv'
<1> SUFFICES ASSUME IInv, NEW r \in Live(tree), tree.parent[r] # Nil,
                    NEW a \in Live(tree), tree.kind[a] # "document",
                    NEW c \in CloneMaps(tree, a, Free(tree)), NEW T, NEW U,
                    T = CopyTo(tree, a, c), U = LinkInstead(T, T.parent[r], r, c[a]),
                    tree' = Delete(U, Under(U, r))
             PROVE  IInv'
  BY DEF ReplaceChild, Cloning
<1>1. Sound(T) /\ r \in Node /\ MayLink(T, T.parent[r], c[a])
  BY SiblingStep
<1>2. Severed(U, r)
  BY <1>1, LinkInsteadSevered
<1> QED  BY <1>1, <1>2, DeleteSound DEF IInv

LEMMA ErrorStep == IInv /\ (InsertDocument \/ ClearError) => IInv'
<1> SUFFICES ASSUME IInv, InsertDocument \/ ClearError
             PROVE  IInv'
  OBVIOUS
<1>1. tree \in Trees
  BY DEF IInv, Sound
<1>2. PICK f \in [Node -> BOOLEAN] : tree' = [tree EXCEPT !.error = f]
  <2>1. tree.error \in [Node -> BOOLEAN]
    BY <1>1 DEF Trees
  <2>2. CASE InsertDocument
    <3>1. PICK p \in Parents(tree) : tree' = SetError(tree, p)
      BY <2>2 DEF InsertDocument
    <3>2. Put(tree.error, GetDocument(tree, p), TRUE) \in [Node -> BOOLEAN]
      BY <2>1 DEF Put
    <3> QED  BY <3>1, <3>2 DEF SetError
  <2>3. CASE ClearError
    <3>1. PICK d \in Live(tree) : tree' = [tree EXCEPT !.error[d] = FALSE]
      BY <2>3 DEF ClearError
    <3>2. [tree.error EXCEPT ![d] = FALSE] \in [Node -> BOOLEAN]
      BY <2>1
    <3> QED  BY <3>1, <3>2
  <2> QED  BY <2>2, <2>3
<1>3. /\ tree' \in Trees /\ tree'.kind = tree.kind /\ tree'.parent = tree.parent
      /\ tree'.first = tree.first /\ tree'.last = tree.last
      /\ tree'.prev = tree.prev /\ tree'.next = tree.next
  BY <1>1, <1>2 DEF Trees
<1> QED  BY <1>3, SameLinksSound DEF IInv

LEMMA RemoveChildStep == IInv /\ RemoveChild => IInv'
<1> SUFFICES ASSUME IInv, NEW r \in Live(tree), tree.parent[r] # Nil, NEW U,
                    U = Unlink(tree, tree.parent[r], r), tree' = Delete(U, Under(U, r))
             PROVE  IInv'
  BY DEF RemoveChild
<1>1. r \in Node /\ tree.parent[r] \in Node
  BY TreeFields DEF IInv, Sound, Live, Maybe
<1>2. Severed(U, r)
  BY <1>1, UnlinkSevered DEF IInv
<1> QED  BY <1>1, <1>2, DeleteSound DEF IInv

LEMMA ClearNodeStep == IInv /\ ClearNode => IInv'
  BY ClearSound DEF IInv, ClearNode, Live

LEMMA DeleteTreeStep == IInv /\ DeleteTree => IInv'
  BY RootSevered, DeleteSound DEF IInv, DeleteTree, IsRoot

\* What AssignNode may count on when it copies s to t, whose children it deleted.
LEMMA AssignMayCopy ==
  ASSUME NEW R, Sound(R), NEW t \in Live(R), NEW s \in Live(R), s # t, R.kind[t] = R.kind[s],
         s \notin Under(R, t), t \notin Under(R, s), NEW T, T = Clear(R, t),
         NEW c \in CloneMaps(T, s, Free(T) \union {t}), c[s] = t
  PROVE  Sound(T) /\ MayCopy(T, s, c)
<1> DEFINE S == Under(T, s)
<1>1. /\ t \in Node /\ s \in Node /\ R.kind[s] # "free" /\ Sound(T) /\ T \in Trees
      /\ \A n \in Node : T.parent[n] # t
      /\ \A n \in Node : T.parent[n] # Nil => T.parent[n] = R.parent[n]
      /\ T.kind[s] = R.kind[s] /\ T.kind[t] = R.kind[t]
  <2>1. t \in Node /\ s \in Node /\ R.kind[s] # "free"
    BY DEF Live, Free
  <2> DEFINE C == Clear(R, t)
  <2>1a. /\ Sound(C) /\ \A n \in Node : C.parent[n] # t
         /\ \A n \in Node : C.parent[n] # Nil => C.parent[n] = R.parent[n]
         /\ \A n \in Node \ (Under(R, t) \ {t}) : C.kind[n] = R.kind[n]
    BY <2>1, ClearSound, SMTT(30)
  <2> HIDE DEF C
  <2>2. /\ Sound(T) /\ \A n \in Node : T.parent[n] # t
        /\ \A n \in Node : T.parent[n] # Nil => T.parent[n] = R.parent[n]
        /\ \A n \in Node \ (Under(R, t) \ {t}) : T.kind[n] = R.kind[n]
    <3>1. T = C
      BY DEF C
    <3> QED  BY <2>1a, <3>1, Zenon
  <2>3. T \in Trees
    BY <2>2 DEF Sound
  <2> QED  BY <2>1, <2>2, <2>3
<1>2. /\ c \in [S -> Free(T) \union {t}] /\ IsInjective(c) /\ s \in S /\ S \in SUBSET Node
      /\ c \in [S -> Node]
  BY <1>1, UnderHolds DEF CloneMaps, Free
<1>3. \A x \in S \ {s} : T.kind[c[x]] = "free"
  BY <1>2 DEF IsInjective, Free
<1>4. t \notin S
  <2>1. \A x \in Node : T.parent[x] \in Under(R, s) => x \in Under(R, s)
    BY <1>1, UnderHolds, NilAssumption
  <2>2. S \subseteq Under(R, s)
    BY <1>1, <2>1, UnderLeast, UnderHolds
  <2> QED  BY <2>2
<1> QED  BY <1>1, <1>2, <1>3, <1>4 DEF MayCopy

\* What AssignNode does but for the error, which nobody's links depend on.
LEMMA AssignFields ==
  ASSUME NEW T, Sound(T), NEW a, NEW c, MayCopy(T, a, c), NEW V, V = CopyTo(T, a, c),
         NEW t, NEW b \in Node, NEW U, U = [V EXCEPT !.error[t] = T.error[b]]
  PROVE  /\ U \in Trees /\ U.kind = V.kind /\ U.name = V.name
         /\ U.parent = V.parent /\ U.first = V.first /\ U.last = V.last
         /\ U.prev = V.prev /\ U.next = V.next
<1>1. V \in Trees
  BY CopySound DEF Sound
<1>2. T.error[b] \in BOOLEAN
  BY DEF Sound, Trees
<1> QED  BY <1>1, <1>2 DEF Trees

LEMMA AssignNodeStep == IInv /\ AssignNode => IInv'
<1> SUFFICES ASSUME IInv, NEW t \in Live(tree), NEW s \in Live(tree),
                    tree.kind[t] = tree.kind[s],
                    s \notin Under(tree, t) \ {t}, t \notin Under(tree, s) \ {s},
                    NEW T, T = Clear(tree, t),
                    IF s = t THEN tree' = T
                    ELSE \E c \in CloneMaps(T, s, Free(T) \union {t}) :
                            c[s] = t /\ tree' = [CopyTo(T, s, c) EXCEPT !.error[t] = T.error[s]]
             PROVE  IInv'
  BY DEF AssignNode
<1>1. CASE s = t
  BY <1>1, ClearSound DEF IInv, Live
<1>2. CASE s # t
  <2>1. PICK c \in CloneMaps(T, s, Free(T) \union {t}) :
            c[s] = t /\ tree' = [CopyTo(T, s, c) EXCEPT !.error[t] = T.error[s]]
    BY <1>2
  <2>2. Sound(T) /\ MayCopy(T, s, c)
    BY <1>2, <2>1, AssignMayCopy DEF IInv
  <2> DEFINE V == CopyTo(T, s, c)
  <2>3. Sound(V)
    BY <2>2, CopySound
  <2>4. /\ tree' \in Trees /\ tree'.kind = V.kind /\ tree'.parent = V.parent
        /\ tree'.first = V.first /\ tree'.last = V.last
        /\ tree'.prev = V.prev /\ tree'.next = V.next
    BY <2>1, <2>2, AssignFields DEF Live
  <2> QED  BY <2>3, <2>4, SameLinksSound DEF IInv
<1> QED  BY <1>1, <1>2

\* Whatever the calls, the tree is sound.
THEOREM TreeSound == TreeSpec => []IInv
<1>1. IInv /\ [TreeNext]_tree => IInv'
  <2> SUFFICES ASSUME IInv, [TreeNext]_tree
               PROVE  IInv'
    OBVIOUS
  <2>1. CASE UNCHANGED tree
    BY <2>1 DEF IInv
  <2> QED  BY <2>1, NewStep, LinkStep, InsertEndStep, InsertBeforeStep, InsertAfterStep,
              ReplaceChildStep, ErrorStep, RemoveChildStep, ClearNodeStep, DeleteTreeStep,
              AssignNodeStep DEF TreeNext
<1> QED  BY <1>1, SoundInit, PTL DEF TreeSpec

\* The fields keep their types.
THEOREM TreeTypeOK == TreeSpec => []TypeOK
<1>1. IInv => TypeOK
  BY DEF IInv, Sound, TypeOK
<1> QED  BY <1>1, TreeSound, PTL

\* For any number of nodes and every sequence of calls, the sibling lists are consistent
\* in both directions, with first, last and parent, and nothing points at a deleted node.
THEOREM TreeLinksConsistent == TreeSpec => []LinksConsistent
<1>1. IInv => LinksConsistent
  BY DEF IInv, Sound, Linked, LinksConsistent
<1> QED  BY <1>1, TreeSound, PTL

-----------------------------------------------------------------------------
(* Walks, and lists of children.                                           *)

\* A set of numbers has a least.
LEMMA LeastOf ==
  ASSUME NEW S, S \subseteq Nat, S # {}
  PROVE  \E i \in S : \A j \in S : i <= j
<1>1. PICK i \in S : \A j \in S : <<j, i>> \notin OpToRel(<, Nat)
  BY WFMin, NatLessThanWellFounded, Zenon
<1>2. \A j \in S : ~(j < i)
  BY <1>1, Zenon DEF OpToRel
<1>3. \A j \in S : i <= j
  BY <1>2
<1> QED  BY <1>3

\* There are n numbers below n.
LEMMA CountBelow ==
  ASSUME NEW k \in Nat
  PROVE  Cardinality(0 .. (k - 1)) = k
<1>1. k - 1 \in Int
  OBVIOUS
<1>2. Cardinality(0 .. (k - 1)) = IF 0 > k - 1 THEN 0 ELSE (k - 1) - 0 + 1
  BY <1>1, FS_Interval
<1> QED  BY <1>2

\* s is what is met from n on along link.
Along(n, link, s) ==
    /\ s \in Seq(Node)
    /\ \A i, j \in 1 .. Len(s) : s[i] = s[j] => i = j
    /\ n = IF Len(s) = 0 THEN Nil ELSE s[1]
    /\ \A i \in 1 .. Len(s) : link[s[i]] = IF i < Len(s) THEN s[i + 1] ELSE Nil

\* Such a sequence is no longer than there are nodes.
LEMMA AlongLength ==
  ASSUME NEW n, NEW link, NEW s, Along(n, link, s)
  PROVE  Len(s) \in Nat /\ Cardinality(Node) \in Nat /\ Len(s) <= Cardinality(Node)
<1>1. Len(s) \in Nat /\ s \in [1 .. Len(s) -> Node]
  BY LenProperties DEF Along
<1>2. s \in Injection(1 .. Len(s), Node)
  BY <1>1 DEF Along, Injection, IsInjective
<1>3. /\ IsFiniteSet(1 .. Len(s)) /\ Cardinality(1 .. Len(s)) = Len(s)
  BY <1>1, FS_Interval
<1>4. Cardinality(1 .. Len(s)) <= Cardinality(Node)
  BY <1>2, <1>3, NodeAssumption, FS_Injection
<1> QED  BY <1>1, <1>3, <1>4, NodeAssumption, FS_CardinalityType

\* A walk is the sequence of what is met.
LEMMA WalkIs ==
  ASSUME NEW n, NEW link, NEW s, Along(n, link, s)
  PROVE  Walk(n, link) = s
<1> DEFINE N == Cardinality(Node)
           Meets(at) == at = [i \in 0 .. N |->
               IF i = 0 THEN n ELSE IF at[i - 1] = Nil THEN Nil ELSE link[at[i - 1]]]
           f == [i \in 0 .. N |-> IF i < Len(s) THEN s[i + 1] ELSE Nil]
           at == CHOOSE g : Meets(g)
           met == {i \in 0 .. N : at[i] # Nil}
<1>0. Len(s) \in Nat /\ N \in Nat /\ Len(s) <= N
  BY AlongLength
<1>1. Walk(n, link) = [i \in 1 .. Cardinality(met) |-> at[i - 1]]
  BY DEF Walk
<1>2. s \in Seq(Node) /\ \A i \in 1 .. Len(s) : s[i] \in Node
  BY DEF Along
<1> HIDE DEF N
<1>3. Meets(f)
  <2>1. ASSUME NEW i \in 0 .. N
        PROVE  f[i] = IF i = 0 THEN n ELSE IF f[i - 1] = Nil THEN Nil ELSE link[f[i - 1]]
    BY <1>0, <1>2, NilAssumption DEF Along
  <2> QED  BY <2>1
<1>4. Meets(at)
  BY <1>3
<1> HIDE DEF at
<1>5. \A i \in 0 .. N : at[i] = f[i]
  <2> DEFINE bad == {i \in 0 .. N : at[i] # f[i]}
  <2>1. SUFFICES ASSUME bad # {}  PROVE FALSE
    OBVIOUS
  <2>2. PICK i \in bad : \A j \in bad : i <= j
    <3> HIDE DEF bad
    <3>1. bad \subseteq Nat
      BY DEF bad
    <3> QED  BY <2>1, <3>1, LeastOf
  <2>3. at[i] = IF i = 0 THEN n ELSE IF at[i - 1] = Nil THEN Nil ELSE link[at[i - 1]]
    BY <1>4
  <2>4. f[i] = IF i = 0 THEN n ELSE IF f[i - 1] = Nil THEN Nil ELSE link[f[i - 1]]
    BY <1>3
  <2>5. i # 0 => at[i - 1] = f[i - 1]
    BY <1>0, <2>2
  <2> QED  BY <2>2, <2>3, <2>4, <2>5
<1>6. met = 0 .. (Len(s) - 1)
  BY <1>0, <1>2, <1>5, NilAssumption
<1>7. Cardinality(met) = Len(s)
  <2> HIDE DEF met
  <2>1. Cardinality(0 .. (Len(s) - 1)) = Len(s)
    BY <1>0, CountBelow
  <2> QED  BY <1>6, <2>1
<1>8. \A i \in 1 .. Len(s) : at[i - 1] = s[i]
  BY <1>0, <1>5
<1>9. Walk(n, link) = [i \in 1 .. Len(s) |-> s[i]]
  BY <1>1, <1>7, <1>8
<1> QED  BY <1>2, <1>9

\* The sequence s lists the children of p, and all links agree with it.
ListOf(T, p, s) ==
    /\ s \in Seq(Node)
    /\ \A i, j \in 1 .. Len(s) : s[i] = s[j] => i = j
    /\ T.first[p] = IF Len(s) = 0 THEN Nil ELSE s[1]
    /\ T.last[p] = IF Len(s) = 0 THEN Nil ELSE s[Len(s)]
    /\ \A i \in 1 .. Len(s) : /\ T.parent[s[i]] = p
                              /\ T.next[s[i]] = IF i < Len(s) THEN s[i + 1] ELSE Nil
                              /\ T.prev[s[i]] = IF i > 1 THEN s[i - 1] ELSE Nil
    /\ \A n \in Node : T.parent[n] = p => \E i \in 1 .. Len(s) : s[i] = n

\* s lists the first children of p, one after the other.
Path(T, p, s) ==
    /\ s \in Seq(Node)
    /\ \A i \in 1 .. Len(s) : /\ T.parent[s[i]] = p
                              /\ T.prev[s[i]] = IF i > 1 THEN s[i - 1] ELSE Nil

\* No node is twice in a path: its predecessors would be, back to the first.
LEMMA PathInjective ==
  ASSUME NEW T, NEW p, NEW s, Path(T, p, s)
  PROVE  \A i, j \in 1 .. Len(s) : s[i] = s[j] => i = j
<1>0. Len(s) \in Nat /\ \A i \in 1 .. Len(s) : s[i] \in Node /\ T.prev[s[i]] = IF i > 1 THEN s[i - 1] ELSE Nil
  BY DEF Path
<1> DEFINE twice == {i \in 1 .. Len(s) : \E j \in 1 .. Len(s) : i < j /\ s[i] = s[j]}
<1>1. twice = {}
  <2>1. SUFFICES ASSUME twice # {}  PROVE FALSE
    OBVIOUS
  <2>2. PICK i \in twice : \A j \in twice : i <= j
    <3> HIDE DEF twice
    <3>1. twice \subseteq Nat
      BY <1>0 DEF twice
    <3> QED  BY <2>1, <3>1, LeastOf
  <2>3. PICK j \in 1 .. Len(s) : i < j /\ s[i] = s[j]
    BY <2>2
  <2>4. j - 1 \in 1 .. Len(s) /\ T.prev[s[j]] = s[j - 1] /\ s[j - 1] # Nil
    BY <1>0, <2>2, <2>3, NilAssumption
  <2>5. i > 1 /\ i - 1 \in 1 .. Len(s) /\ s[i - 1] = s[j - 1]
    BY <1>0, <2>2, <2>3, <2>4
  <2>6. i - 1 \in twice
    BY <1>0, <2>2, <2>3, <2>4, <2>5
  <2> QED  BY <1>0, <2>2, <2>6
<1> QED  BY <1>0, <1>1

\* So it is no longer than there are nodes.
LEMMA PathShort ==
  ASSUME NEW T, NEW p, NEW s, Path(T, p, s)
  PROVE  Len(s) \in Nat /\ Cardinality(Node) \in Nat /\ Len(s) <= Cardinality(Node)
<1>1. Len(s) \in Nat /\ s \in [1 .. Len(s) -> Node]
  BY LenProperties DEF Path
<1>2. s \in Injection(1 .. Len(s), Node)
  BY <1>1, PathInjective DEF Injection, IsInjective
<1>3. /\ IsFiniteSet(1 .. Len(s)) /\ Cardinality(1 .. Len(s)) = Len(s)
  BY <1>1, FS_Interval
<1>4. Cardinality(1 .. Len(s)) <= Cardinality(Node)
  BY <1>2, <1>3, NodeAssumption, FS_Injection
<1> QED  BY <1>1, <1>3, <1>4, NodeAssumption, FS_CardinalityType

\* A path that misses no child is the list of them.
LEMMA PathIsList ==
  ASSUME NEW T, Sound(T), NEW p \in Node, NEW s, Path(T, p, s),
         \A n \in Node : T.parent[n] = p => \E i \in 1 .. Len(s) : s[i] = n
  PROVE  ListOf(T, p, s)
<1>1. /\ T.next \in [Node -> Maybe] /\ T.first \in [Node -> Maybe] /\ T.last \in [Node -> Maybe]
  BY TreeFields DEF Sound
<1>2. /\ Len(s) \in Nat
      /\ \A i \in 1 .. Len(s) : /\ s[i] \in Node /\ T.parent[s[i]] = p
                                /\ T.prev[s[i]] = IF i > 1 THEN s[i - 1] ELSE Nil
  BY DEF Path
<1>3. Linked(T)
  BY DEF Sound
<1>4. ASSUME NEW i \in 1 .. Len(s)
      PROVE  T.next[s[i]] = IF i < Len(s) THEN s[i + 1] ELSE Nil
  <2>1. CASE i < Len(s)
    <3>1. i + 1 \in 1 .. Len(s) /\ s[i + 1] \in Node /\ T.prev[s[i + 1]] = s[i] /\ s[i] \in Node
      BY <1>2, <2>1
    <3> QED  BY <1>3, <2>1, <3>1, NilAssumption DEF Linked, WellLinked
  <2>2. CASE i = Len(s)
    <3>1. SUFFICES ASSUME T.next[s[i]] # Nil  PROVE FALSE
      BY <2>2
    <3> DEFINE n == T.next[s[i]]
    <3>2. n \in Node /\ T.prev[n] = s[i] /\ T.parent[n] = p
      BY <1>1, <1>2, <1>3, <3>1 DEF Linked, WellLinked, Maybe
    <3>3. PICK j \in 1 .. Len(s) : s[j] = n
      BY <3>2
    <3>4. j > 1 /\ s[j - 1] = s[i] /\ j - 1 \in 1 .. Len(s)
      BY <1>2, <3>2, <3>3, NilAssumption
    <3>5. j - 1 = i
      BY <3>4, PathInjective
    <3> QED  BY <1>2, <2>2, <3>5
  <2> QED  BY <1>2, <2>1, <2>2
<1>5. T.first[p] = IF Len(s) = 0 THEN Nil ELSE s[1]
  <2>1. CASE Len(s) = 0
    <3>1. T.first[p] # Nil => T.first[p] \in Node /\ T.parent[T.first[p]] = p
      BY <1>1, <1>3 DEF Linked, WellLinked, Maybe
    <3> QED  BY <2>1, <3>1
  <2>2. CASE Len(s) # 0
    <3>1. s[1] \in Node /\ T.parent[s[1]] = p /\ T.prev[s[1]] = Nil
      BY <1>2, <2>2
    <3> QED  BY <1>3, <2>2, <3>1, NilAssumption DEF Linked, WellLinked
  <2> QED  BY <2>1, <2>2
<1>6. T.last[p] = IF Len(s) = 0 THEN Nil ELSE s[Len(s)]
  <2>1. CASE Len(s) = 0
    <3>1. T.last[p] # Nil => T.last[p] \in Node /\ T.parent[T.last[p]] = p
      BY <1>1, <1>3 DEF Linked, WellLinked, Maybe
    <3> QED  BY <2>1, <3>1
  <2>2. CASE Len(s) # 0
    <3>1. Len(s) \in 1 .. Len(s)
      BY <1>2, <2>2
    <3>2. s[Len(s)] \in Node /\ T.parent[s[Len(s)]] = p /\ T.next[s[Len(s)]] = Nil
      BY <1>2, <1>4, <3>1
    <3> QED  BY <1>3, <2>2, <3>2, NilAssumption DEF Linked, WellLinked
  <2> QED  BY <2>1, <2>2
<1>7. \A i \in 1 .. Len(s) : /\ T.parent[s[i]] = p
                             /\ T.next[s[i]] = IF i < Len(s) THEN s[i + 1] ELSE Nil
                             /\ T.prev[s[i]] = IF i > 1 THEN s[i - 1] ELSE Nil
  BY <1>2, <1>4
<1>8. s \in Seq(Node) /\ \A i, j \in 1 .. Len(s) : s[i] = s[j] => i = j
  <2>1. s \in Seq(Node)
    BY DEF Path
  <2> QED  BY <2>1, PathInjective
<1>9. \A n \in Node : T.parent[n] = p => \E i \in 1 .. Len(s) : s[i] = n
  OBVIOUS
<1> QED  BY <1>5, <1>6, <1>7, <1>8, <1>9 DEF ListOf

\* Every node's children are a list: the longest path from the first child misses none,
\* as predecessors are grounded.
LEMMA ChildrenListed ==
  ASSUME NEW T, Sound(T), NEW p \in Node
  PROVE  \E s \in Seq(Node) : ListOf(T, p, s)
<1> DEFINE lengths == {k \in Nat : ~ \E s \in Seq(Node) : Path(T, p, s) /\ Len(s) = k}
<1>0. Cardinality(Node) \in Nat
  BY NodeAssumption, FS_CardinalityType
<1>1. PICK k \in lengths : \A j \in lengths : k <= j
  <2>1. Cardinality(Node) + 1 \in lengths
    BY <1>0, PathShort
  <2> HIDE DEF lengths
  <2>2. lengths \subseteq Nat
    BY DEF lengths
  <2> QED  BY <2>1, <2>2, LeastOf
<1>2. k # 0
  <2>1. Path(T, p, << >>) /\ << >> \in Seq(Node) /\ Len(<< >>) = 0
    BY DEF Path
  <2> QED  BY <2>1
<1>3. PICK s \in Seq(Node) : Path(T, p, s) /\ Len(s) = k - 1
  <2>1. k \in Nat /\ k - 1 \in Nat /\ ~(k <= k - 1)
    BY <1>1, <1>2
  <2>2. k - 1 \notin lengths
    <3> HIDE DEF lengths
    <3> QED  BY <1>1, <2>1
  <2> QED  BY <2>1, <2>2
<1>4. ASSUME NEW n \in Node, Path(T, p, Append(s, n))  PROVE FALSE
  <2>1. Append(s, n) \in Seq(Node) /\ Len(Append(s, n)) = k
    BY <1>3, AppendProperties
  <2> QED  BY <1>1, <1>4, <2>1
<1> HIDE DEF lengths
<1>5. /\ T.parent \in [Node -> Maybe] /\ T.prev \in [Node -> Maybe] /\ T.next \in [Node -> Maybe]
      /\ T.first \in [Node -> Maybe] /\ T.last \in [Node -> Maybe]
  BY TreeFields DEF Sound
<1>6. /\ Len(s) \in Nat
      /\ \A i \in 1 .. Len(s) : /\ s[i] \in Node /\ T.parent[s[i]] = p
                                /\ T.prev[s[i]] = IF i > 1 THEN s[i - 1] ELSE Nil
  BY <1>3 DEF Path
<1>7. Linked(T)
  BY DEF Sound
\* A child that follows the last of s would make a longer path.
<1>9. ASSUME NEW n \in Node, T.parent[n] = p, T.prev[n] = IF Len(s) = 0 THEN Nil ELSE s[Len(s)]
      PROVE  FALSE
  <2>1. /\ Append(s, n) \in Seq(Node) /\ Len(Append(s, n)) = Len(s) + 1
        /\ \A i \in 1 .. Len(s) : Append(s, n)[i] = s[i]
        /\ Append(s, n)[Len(s) + 1] = n
    BY <1>3, AppendProperties
  <2>2. Path(T, p, Append(s, n))
    <3> DEFINE r == Append(s, n)
    <3> HIDE DEF r
    <3>1. \A i \in 1 .. Len(s) : T.parent[r[i]] = p /\ T.prev[r[i]] = IF i > 1 THEN r[i - 1] ELSE Nil
      BY <1>6, <2>1 DEF r
    <3>2. T.parent[r[Len(s) + 1]] = p /\ T.prev[r[Len(s) + 1]] = IF Len(s) + 1 > 1 THEN r[Len(s)] ELSE Nil
      BY <1>6, <1>9, <2>1 DEF r
    <3>3. \A i \in 1 .. Len(r) : i \in 1 .. Len(s) \/ i = Len(s) + 1
      BY <1>6, <2>1 DEF r
    <3>4. \A i \in 1 .. Len(r) : T.parent[r[i]] = p /\ T.prev[r[i]] = IF i > 1 THEN r[i - 1] ELSE Nil
      BY <1>6, <3>1, <3>2, <3>3
    <3> QED  BY <2>1, <3>4 DEF Path, r
  <2> QED  BY <1>4, <2>2
<1>10. \A n \in Node : T.parent[n] = p => \E i \in 1 .. Len(s) : s[i] = n
  <2> DEFINE rest == {n \in Node : T.parent[n] = p /\ \A i \in 1 .. Len(s) : s[i] # n}
  <2>1. SUFFICES ASSUME rest # {}  PROVE FALSE
    OBVIOUS
  <2>2. PICK n \in rest : T.prev[n] \notin rest
    <3>1. Grounded(T.prev) /\ rest \subseteq Node
      BY DEF Sound
    <3> HIDE DEF rest
    <3> QED  BY <2>1, <3>1 DEF Grounded
  <2>3. n \in Node /\ T.parent[n] = p
    OBVIOUS
  <2>4. CASE T.prev[n] = Nil
    <3>1. T.first[p] = n
      BY <1>5, <1>7, <2>3, <2>4, NilAssumption DEF Linked, WellLinked
    <3>2. Len(s) # 0 => s[1] = n
      <4>1. ASSUME Len(s) # 0  PROVE s[1] = n
        <5>1. 1 \in 1 .. Len(s) /\ s[1] \in Node /\ T.parent[s[1]] = p /\ T.prev[s[1]] = Nil
          BY <1>6, <4>1
        <5>2. T.first[p] = s[1]
          BY <1>5, <1>7, <5>1, NilAssumption DEF Linked, WellLinked
        <5> QED  BY <3>1, <5>2
      <4> QED  BY <4>1
    <3>3. Len(s) = 0
      BY <1>6, <2>2, <3>2
    <3> QED  BY <1>9, <2>3, <2>4, <3>3
  <2>5. CASE T.prev[n] # Nil
    <3>1. T.prev[n] \in Node /\ T.next[T.prev[n]] = n /\ T.parent[T.prev[n]] = p
      BY <1>5, <1>7, <2>3, <2>5 DEF Linked, WellLinked, Maybe
    <3>2. PICK i \in 1 .. Len(s) : s[i] = T.prev[n]
      BY <2>2, <3>1
    <3>3. i # Len(s)
      BY <1>6, <1>9, <2>3, <3>2
    <3>4. i + 1 \in 1 .. Len(s) /\ T.prev[s[i + 1]] = s[i] /\ s[i + 1] \in Node
      BY <1>6, <3>2, <3>3
    <3>5. T.next[s[i]] = s[i + 1]
      BY <1>5, <1>7, <3>1, <3>2, <3>4, NilAssumption DEF Linked, WellLinked
    <3> QED  BY <2>2, <3>1, <3>2, <3>4, <3>5
  <2> QED  BY <2>4, <2>5
<1> QED  BY <1>3, <1>10, PathIsList

\* The walk over the children is that list,
LEMMA ChildrenIs ==
  ASSUME NEW T, NEW p, NEW s, ListOf(T, p, s)
  PROVE  Children(T, p) = s
<1>1. Along(T.first[p], T.next, s)
  BY DEF ListOf, Along
<1> QED  BY <1>1, WalkIs DEF Children

\* and the walk from the last child is the list backwards.
LEMMA BackAlong ==
  ASSUME NEW T, NEW p, NEW s, ListOf(T, p, s)
  PROVE  Along(T.last[p], T.prev, [i \in 1 .. Len(s) |-> s[Len(s) + 1 - i]])
<1> DEFINE r == [i \in 1 .. Len(s) |-> s[Len(s) + 1 - i]]
<1>1. Len(s) \in Nat /\ s \in Seq(Node) /\ \A i \in 1 .. Len(s) : s[i] \in Node
  BY DEF ListOf
<1>2. r \in Seq(Node) /\ Len(r) = Len(s)
  BY <1>1, IsASeq
<1>3. \A i \in 1 .. Len(s) : r[i] = s[Len(s) + 1 - i] /\ Len(s) + 1 - i \in 1 .. Len(s)
  BY <1>1
<1> HIDE DEF r
<1>4. \A i, j \in 1 .. Len(r) : r[i] = r[j] => i = j
  <2>1. \A i, j \in 1 .. Len(s) : s[i] = s[j] => i = j
    BY DEF ListOf
  <2>2. ASSUME NEW i \in 1 .. Len(s), NEW j \in 1 .. Len(s), r[i] = r[j]  PROVE i = j
    <3>1. Len(s) + 1 - i = Len(s) + 1 - j
      BY <1>3, <2>1, <2>2
    <3> QED  BY <1>1, <3>1
  <2> QED  BY <1>2, <2>2
<1>5. T.last[p] = IF Len(r) = 0 THEN Nil ELSE r[1]
  <2>1. CASE Len(s) = 0
    BY <1>2, <2>1 DEF ListOf
  <2>2. CASE Len(s) # 0
    <3>1. r[1] = s[Len(s)]
      BY <1>1, <1>3, <2>2
    <3> QED  BY <1>2, <2>2, <3>1 DEF ListOf
  <2> QED  BY <2>1, <2>2
<1>6. ASSUME NEW i \in 1 .. Len(r)
      PROVE  T.prev[r[i]] = IF i < Len(r) THEN r[i + 1] ELSE Nil
  <2> DEFINE k == Len(s) + 1 - i
  <2>1. k \in 1 .. Len(s) /\ r[i] = s[k]
    BY <1>2, <1>3
  <2>2. T.prev[s[k]] = IF k > 1 THEN s[k - 1] ELSE Nil
    BY <2>1 DEF ListOf
  <2>3. i < Len(s) => k > 1 /\ r[i + 1] = s[k - 1]
    <3>1. ASSUME i < Len(s)  PROVE k > 1 /\ r[i + 1] = s[k - 1]
      <4>1. i + 1 \in 1 .. Len(s) /\ Len(s) + 1 - (i + 1) = k - 1 /\ k > 1
        BY <1>1, <1>2, <3>1
      <4> QED  BY <1>3, <4>1
    <3> QED  BY <3>1
  <2>4. ~(i < Len(s)) => k = 1
    BY <1>1, <1>2
  <2> QED  BY <1>2, <2>1, <2>2, <2>3, <2>4
<1>7. Along(T.last[p], T.prev, r)
  BY <1>2, <1>4, <1>5, <1>6 DEF Along
<1> QED  BY <1>7 DEF r

-----------------------------------------------------------------------------
(* Searches and loops along a list.                                        *)

\* g[i] is where i steps from a lead.
Iterates(g, N, M, a, step) ==
    /\ g \in [0 .. N -> M]
    /\ \A i \in 0 .. N : g[i] = IF i = 0 THEN a ELSE step[g[i - 1]]

\* A loop that steps N times, as a function of the count: it exists by induction.
LEMMA IterExists ==
  ASSUME NEW N \in Nat, NEW M, NEW a \in M, NEW step \in [M -> M]
  PROVE  \E g : Iterates(g, N, M, a, step)
<1> USE DEF Iterates
<1> DEFINE Upto(k, g) == g \in [0 .. k -> M] /\ \A i \in 0 .. k : g[i] = IF i = 0 THEN a ELSE step[g[i - 1]]
           bad == {k \in Nat : ~ \E g : Upto(k, g)}
<1>1. SUFFICES ASSUME bad # {}  PROVE FALSE
  OBVIOUS
<1>2. PICK k \in bad : \A j \in bad : k <= j
  <2> HIDE DEF bad
  <2>1. bad \subseteq Nat
    BY DEF bad
  <2> QED  BY <1>1, <2>1, LeastOf
<1>3. CASE k = 0
  <2> DEFINE g == [i \in 0 .. 0 |-> a]
  <2>1. Upto(0, g)
    OBVIOUS
  <2> HIDE DEF g
  <2> QED  BY <1>2, <1>3, <2>1
<1>4. CASE k # 0
  <2>1. k \in Nat /\ k - 1 \in Nat /\ k - 1 \notin bad
    <3>1. k \in Nat /\ k - 1 \in Nat /\ ~(k <= k - 1)
      BY <1>2, <1>4
    <3> HIDE DEF bad
    <3> QED  BY <1>2, <3>1
  <2>2. PICK h : Upto(k - 1, h)
    BY <2>1
  <2> DEFINE g == [i \in 0 .. k |-> IF i = k THEN step[h[k - 1]] ELSE h[i]]
  <2>3. \A i \in 0 .. k : i # k => i \in 0 .. (k - 1) /\ (i # 0 => i - 1 \in 0 .. (k - 1))
    BY <2>1
  <2>4. h[k - 1] \in M /\ k - 1 \in 0 .. k /\ k - 1 # k
    BY <2>1, <2>2
  <2>5. g \in [0 .. k -> M]
    BY <2>2, <2>3, <2>4
  <2>6. ASSUME NEW i \in 0 .. k
        PROVE  g[i] = IF i = 0 THEN a ELSE step[g[i - 1]]
    <3>1. CASE i = k
      BY <1>4, <2>4, <3>1
    <3>2. CASE i # k
      <4>1. i # 0 => g[i - 1] = h[i - 1]
        BY <2>1, <2>3, <3>2
      <4> QED  BY <2>2, <2>3, <3>2, <4>1
    <3> QED  BY <3>1, <3>2
  <2> HIDE DEF g
  <2> QED  BY <1>2, <2>5, <2>6
<1> QED  BY <1>3, <1>4

\* m is the first member of S in s after the j-th place, or the null pointer.
IsNext(s, S, j, m) ==
    \/ m = Nil /\ \A k \in j + 1 .. Len(s) : s[k] \notin S
    \/ \E k \in j + 1 .. Len(s) : m = s[k] /\ s[k] \in S /\ \A l \in j + 1 .. k - 1 : s[l] \notin S

\* FirstAlong, from the first node of a list, is the first member of S in it;
LEMMA FirstAlongIs ==
  ASSUME NEW n, NEW link, NEW s, Along(n, link, s), NEW S
  PROVE  IsNext(s, S, 0, FirstAlong(n, link, S))
<1> DEFINE hits == {i \in DOMAIN s : s[i] \in S}
           least == CHOOSE i \in hits : \A j \in hits : i <= j
<1>1. FirstAlong(n, link, S) = IF hits = {} THEN Nil ELSE s[least]
  <2>1. Walk(n, link) = s
    BY WalkIs
  <2> QED  BY <2>1 DEF FirstAlong
<1>2. Len(s) \in Nat /\ DOMAIN s = 1 .. Len(s)
  BY DEF Along
<1>3. CASE hits = {}
  BY <1>1, <1>2, <1>3 DEF IsNext
<1>4. CASE hits # {}
  <2>1. hits \subseteq Nat
    BY <1>2
  <2>2. \E i \in hits : \A j \in hits : i <= j
    <3> HIDE DEF hits
    <3> QED  BY <1>4, <2>1, LeastOf
  <2>3. least \in hits /\ \A j \in hits : least <= j
    <3> HIDE DEF hits
    <3> QED  BY <2>2
  <2> HIDE DEF least
  <2>4. \A l \in 1 .. least - 1 : s[l] \notin S
    BY <1>2, <2>3
  <2> QED  BY <1>1, <1>2, <1>4, <2>3, <2>4 DEF IsNext
<1> QED  BY <1>3, <1>4

\* from behind the j-th it is the next.
LEMMA FirstAfter ==
  ASSUME NEW n, NEW link, NEW s, Along(n, link, s), NEW S, NEW j \in 1 .. Len(s)
  PROVE  IsNext(s, S, j, FirstAlong(link[s[j]], link, S))
<1> DEFINE t == SubSeq(s, j + 1, Len(s))
<1>1. Len(s) \in Nat /\ s \in Seq(Node) /\ \A i \in 1 .. Len(s) : s[i] \in Node
  BY DEF Along
<1>2. t \in Seq(Node) /\ Len(t) = Len(s) - j /\ \A i \in 1 .. Len(s) - j : t[i] = s[j + i]
  <2>1. \A i \in j + 1 .. Len(s) : s[i] \in Node
    BY <1>1
  <2>2. /\ t \in Seq(Node)
        /\ Len(t) = IF j + 1 <= Len(s) THEN Len(s) - (j + 1) + 1 ELSE 0
        /\ \A i \in 1 .. Len(s) - (j + 1) + 1 : t[i] = s[(j + 1) + i - 1]
    BY <1>1, <2>1, SubSeqProperties
  <2>3. Len(s) - (j + 1) + 1 = Len(s) - j /\ \A i \in 1 .. Len(s) - j : (j + 1) + i - 1 = j + i
    BY <1>1
  <2>4. Len(t) = Len(s) - j
    BY <1>1, <2>2
  <2> QED  BY <2>2, <2>3, <2>4
<1> HIDE DEF t
<1>3. Along(link[s[j]], link, t)
  <2>1. \A i \in 1 .. Len(t) : j + i \in 1 .. Len(s) /\ t[i] = s[j + i]
    BY <1>1, <1>2
  <2>2. \A i, k \in 1 .. Len(t) : t[i] = t[k] => i = k
    <3>1. \A i, k \in 1 .. Len(s) : s[i] = s[k] => i = k
      BY DEF Along
    <3>2. ASSUME NEW i \in 1 .. Len(t), NEW k \in 1 .. Len(t), t[i] = t[k]  PROVE i = k
      <4>1. j + i = j + k
        BY <2>1, <3>1, <3>2
      <4> QED  BY <1>1, <4>1
    <3> QED  BY <3>2
  <2>3. \A i \in 1 .. Len(s) : link[s[i]] = IF i < Len(s) THEN s[i + 1] ELSE Nil
    BY DEF Along
  <2>4. link[s[j]] = IF Len(t) = 0 THEN Nil ELSE t[1]
    <3>1. CASE j = Len(s)
      BY <1>1, <1>2, <2>3, <3>1
    <3>2. CASE j < Len(s)
      <4>1. t[1] = s[j + 1] /\ Len(t) # 0
        BY <1>1, <1>2, <3>2
      <4> QED  BY <2>3, <3>2, <4>1
    <3> QED  BY <1>1, <3>1, <3>2
  <2>5. ASSUME NEW i \in 1 .. Len(t)
        PROVE  link[t[i]] = IF i < Len(t) THEN t[i + 1] ELSE Nil
    <3>1. link[s[j + i]] = IF j + i < Len(s) THEN s[(j + i) + 1] ELSE Nil
      BY <2>1, <2>3
    <3>2. i < Len(t) <=> j + i < Len(s)
      BY <1>1, <1>2
    <3>3. i < Len(t) => t[i + 1] = s[(j + i) + 1]
      <4>1. ASSUME i < Len(t)  PROVE i + 1 \in 1 .. Len(t) /\ j + (i + 1) = (j + i) + 1
        BY <1>1, <1>2, <4>1
      <4> QED  BY <2>1, <4>1
    <3> QED  BY <2>1, <3>1, <3>2, <3>3
  <2> QED  BY <1>2, <2>2, <2>4, <2>5 DEF Along
<1>4. IsNext(t, S, 0, FirstAlong(link[s[j]], link, S))
  BY <1>3, FirstAlongIs
<1> DEFINE m == FirstAlong(link[s[j]], link, S)
<1> HIDE DEF m
<1>5. ASSUME m = Nil, \A k \in 1 .. Len(t) : t[k] \notin S
      PROVE  IsNext(s, S, j, m)
  <2>1. ASSUME NEW k \in j + 1 .. Len(s)  PROVE s[k] \notin S
    <3>1. k - j \in 1 .. Len(s) - j /\ j + (k - j) = k
      BY <1>1
    <3> QED  BY <1>2, <1>5, <3>1
  <2> QED  BY <1>5, <2>1 DEF IsNext
<1>6. ASSUME NEW k \in 1 .. Len(t), m = t[k], t[k] \in S, \A l \in 1 .. k - 1 : t[l] \notin S
      PROVE  IsNext(s, S, j, m)
  <2>1. j + k \in j + 1 .. Len(s) /\ t[k] = s[j + k]
    BY <1>1, <1>2
  <2>2. ASSUME NEW l \in j + 1 .. (j + k) - 1  PROVE s[l] \notin S
    <3>1. l - j \in 1 .. k - 1 /\ l - j \in 1 .. Len(s) - j /\ j + (l - j) = l
      BY <1>1, <1>2
    <3> QED  BY <1>2, <1>6, <3>1
  <2> QED  BY <1>6, <2>1, <2>2 DEF IsNext
<1>7. IsNext(t, S, 0, m)
  BY <1>4 DEF m
<1>8. IsNext(s, S, j, m)
  BY <1>5, <1>6, <1>7 DEF IsNext
<1> QED  BY <1>8 DEF m

\* The members of S before the j-th place.
Before(s, S, j) == {k \in 1 .. j - 1 : s[k] \in S}

\* How many members of S are before the j-th place grows with each.
LEMMA CountsBefore ==
  ASSUME NEW s, NEW S, NEW j \in Nat
  PROVE  /\ IsFiniteSet(Before(s, S, j)) /\ Cardinality(Before(s, S, j)) \in Nat
         /\ \A k \in Nat : k <= j => Cardinality(Before(s, S, k)) <= Cardinality(Before(s, S, j))
         /\ \A k \in 1 .. j - 1 : s[k] \in S => Cardinality(Before(s, S, k)) < Cardinality(Before(s, S, j))
<1>1. IsFiniteSet(1 .. j - 1)
  <2>1. j - 1 \in Int
    OBVIOUS
  <2> QED  BY <2>1, FS_Interval
<1>2. IsFiniteSet(Before(s, S, j)) /\ Cardinality(Before(s, S, j)) \in Nat
  <2>1. Before(s, S, j) \in SUBSET (1 .. j - 1)
    BY DEF Before
  <2> QED  BY <1>1, <2>1, FS_Subset, FS_CardinalityType
<1>3. ASSUME NEW k \in Nat, k <= j
      PROVE  /\ Before(s, S, k) \in SUBSET Before(s, S, j)
             /\ IsFiniteSet(Before(s, S, k)) /\ Cardinality(Before(s, S, k)) \in Nat
             /\ Cardinality(Before(s, S, k)) <= Cardinality(Before(s, S, j))
             /\ Cardinality(Before(s, S, j)) = Cardinality(Before(s, S, k)) => Before(s, S, k) = Before(s, S, j)
  <2>1. Before(s, S, k) \in SUBSET Before(s, S, j)
    BY <1>3 DEF Before
  <2> QED  BY <1>2, <2>1, FS_Subset, FS_CardinalityType
<1>4. ASSUME NEW k \in 1 .. j - 1, s[k] \in S
      PROVE  Cardinality(Before(s, S, k)) < Cardinality(Before(s, S, j))
  <2>1. k \in Before(s, S, j) /\ k \notin Before(s, S, k) /\ k \in Nat /\ k <= j
    BY <1>4 DEF Before
  <2>2. Cardinality(Before(s, S, j)) # Cardinality(Before(s, S, k))
    BY <1>3, <2>1
  <2> QED  BY <1>2, <1>3, <2>1, <2>2
<1> QED  BY <1>2, <1>3, <1>4

\* m is the i-th, from 0, of the members of S in s, or the null pointer.
IsRanked(s, S, i, m) ==
    \/ m = Nil /\ \A j \in 1 .. Len(s) : s[j] \in S => Cardinality(Before(s, S, j)) < i
    \/ \E j \in 1 .. Len(s) : m = s[j] /\ s[j] \in S /\ Cardinality(Before(s, S, j)) = i

\* The i-th member is unique, and is what Nth picks.
LEMMA RankedIsNth ==
  ASSUME NEW s \in Seq(Node), NEW S, NEW i \in Int, NEW m, IsRanked(s, S, i, m)
  PROVE  Nth(s, S, i) = m
<1> DEFINE at == {j \in DOMAIN s : s[j] \in S /\ Cardinality({k \in 1 .. j - 1 : s[k] \in S}) = i}
<1>1. Nth(s, S, i) = IF at = {} THEN Nil ELSE s[CHOOSE j \in at : TRUE]
  BY DEF Nth
<1>2. Len(s) \in Nat /\ DOMAIN s = 1 .. Len(s)
  OBVIOUS
<1>3. \A j : j \in at <=> j \in 1 .. Len(s) /\ s[j] \in S /\ Cardinality(Before(s, S, j)) = i
  BY <1>2 DEF Before
<1> HIDE DEF at
<1>4. \A j \in 1 .. Len(s) : j \in Nat /\ Cardinality(Before(s, S, j)) \in Nat
  BY <1>2, CountsBefore
<1>5. CASE m = Nil /\ \A j \in 1 .. Len(s) : s[j] \in S => Cardinality(Before(s, S, j)) < i
  <2>1. at = {}
    BY <1>3, <1>4, <1>5
  <2> QED  BY <1>1, <1>5, <2>1
<1>6. ASSUME NEW j \in 1 .. Len(s), m = s[j], s[j] \in S, Cardinality(Before(s, S, j)) = i
      PROVE  Nth(s, S, i) = m
  <2>1. j \in at
    BY <1>3, <1>6
  <2>2. ASSUME NEW k \in at  PROVE k = j
    <3>1. k \in 1 .. Len(s) /\ s[k] \in S /\ Cardinality(Before(s, S, k)) = i
      BY <1>3
    <3>2. k < j => Cardinality(Before(s, S, k)) < Cardinality(Before(s, S, j))
      BY <1>2, <3>1, CountsBefore
    <3>3. j < k => Cardinality(Before(s, S, j)) < Cardinality(Before(s, S, k))
      BY <1>2, <1>6, <3>1, CountsBefore
    <3> QED  BY <1>2, <1>6, <3>1, <3>2, <3>3
  <2> QED  BY <1>1, <1>6, <2>1, <2>2
<1> QED  BY <1>5, <1>6 DEF IsRanked

\* The first is the 0-th,
LEMMA RankFirst ==
  ASSUME NEW s \in Seq(Node), NEW S, NEW m, IsNext(s, S, 0, m)
  PROVE  IsRanked(s, S, 0, m)
<1>1. Len(s) \in Nat
  OBVIOUS
<1>2. CASE m = Nil /\ \A k \in 1 .. Len(s) : s[k] \notin S
  BY <1>2 DEF IsRanked
<1>3. ASSUME NEW k \in 1 .. Len(s), m = s[k], s[k] \in S, \A l \in 1 .. k - 1 : s[l] \notin S
      PROVE  IsRanked(s, S, 0, m)
  <2>1. Before(s, S, k) = {}
    BY <1>3 DEF Before
  <2>2. Cardinality(Before(s, S, k)) = 0
    BY <2>1, FS_EmptySet
  <2> QED  BY <1>3, <2>2 DEF IsRanked
<1> QED  BY <1>2, <1>3 DEF IsNext

\* and what is next after the i-th is the one with the number i + 1.
LEMMA RankNext ==
  ASSUME NEW s \in Seq(Node), NEW S, NEW j \in 1 .. Len(s), s[j] \in S,
         NEW m, IsNext(s, S, j, m)
  PROVE  IsRanked(s, S, Cardinality(Before(s, S, j)) + 1, m)
<1>1. Len(s) \in Nat /\ j \in Nat
  OBVIOUS
<1> DEFINE i == Cardinality(Before(s, S, j))
<1>2. \A k \in 1 .. Len(s) : k \in Nat /\ Cardinality(Before(s, S, k)) \in Nat /\ IsFiniteSet(Before(s, S, k))
  BY <1>1, CountsBefore
<1>3. CASE m = Nil /\ \A k \in j + 1 .. Len(s) : s[k] \notin S
  <2>1. ASSUME NEW k \in 1 .. Len(s), s[k] \in S  PROVE Cardinality(Before(s, S, k)) < i + 1
    <3>1. k <= j
      BY <1>1, <1>3, <2>1
    <3>2. Cardinality(Before(s, S, k)) <= i
      BY <1>1, <1>2, <3>1, CountsBefore
    <3> QED  BY <1>2, <3>2
  <2> QED  BY <1>3, <2>1 DEF IsRanked
<1>4. ASSUME NEW k \in j + 1 .. Len(s), m = s[k], s[k] \in S, \A l \in j + 1 .. k - 1 : s[l] \notin S
      PROVE  IsRanked(s, S, i + 1, m)
  <2>1. Before(s, S, k) = Before(s, S, j) \union {j}
    BY <1>1, <1>4 DEF Before
  <2>2. j \notin Before(s, S, j)
    BY DEF Before
  <2>3. Cardinality(Before(s, S, k)) = i + 1
    BY <1>2, <2>1, <2>2, FS_AddElement
  <2>4. k \in 1 .. Len(s)
    BY <1>1
  <2> QED  BY <1>4, <2>3, <2>4 DEF IsRanked
<1> QED  BY <1>3, <1>4 DEF IsNext

\* The nodes of a sequence, and null.
Met(s) == {Nil} \union {s[i] : i \in 1 .. Len(s)}

\* The next member is a node of the list, or null.
LEMMA NextMet ==
  ASSUME NEW s \in Seq(Node), NEW S, NEW j \in Nat, NEW m, IsNext(s, S, j, m)
  PROVE  m \in Met(s)
<1>1. \A k \in j + 1 .. Len(s) : k \in 1 .. Len(s)
  OBVIOUS
<1> QED  BY <1>1 DEF IsNext, Met

\* Going on count times from the first member of S one is at the count-th.
LEMMA RankedLoop ==
  ASSUME NEW s \in Seq(Node), NEW S, NEW count \in Nat, NEW at,
         IsNext(s, S, 0, at[0]),
         \A i \in 1 .. count : at[i - 1] = Nil => at[i] = Nil,
         \A i \in 1 .. count, j \in 1 .. Len(s) :
            at[i - 1] = s[j] /\ s[j] \in S => IsNext(s, S, j, at[i])
  PROVE  IsRanked(s, S, count, at[count])
<1> DEFINE bad == {i \in 0 .. count : ~ IsRanked(s, S, i, at[i])}
<1>1. SUFFICES ASSUME bad # {}  PROVE FALSE
  OBVIOUS
<1>2. PICK i \in bad : \A j \in bad : i <= j
  <2> HIDE DEF bad
  <2>1. bad \subseteq Nat
    BY DEF bad
  <2> QED  BY <1>1, <2>1, LeastOf
<1>3. CASE i = 0
  BY <1>2, <1>3, RankFirst
<1>4. CASE i # 0
  <2>1. i \in 1 .. count /\ i - 1 \in 0 .. count /\ i - 1 \notin bad
    BY <1>2, <1>4
  <2>2. IsRanked(s, S, i - 1, at[i - 1])
    BY <2>1
  <2>3. \A k \in 1 .. Len(s) : Cardinality(Before(s, S, k)) \in Nat
    BY CountsBefore
  <2>4. CASE at[i - 1] = Nil /\ \A j \in 1 .. Len(s) : s[j] \in S => Cardinality(Before(s, S, j)) < i - 1
    <3>1. at[i] = Nil
      BY <2>1, <2>4
    <3>2. IsRanked(s, S, i, at[i])
      BY <2>1, <2>3, <2>4, <3>1 DEF IsRanked
    <3> QED  BY <1>2, <3>2
  <2>5. ASSUME NEW j \in 1 .. Len(s), at[i - 1] = s[j], s[j] \in S, Cardinality(Before(s, S, j)) = i - 1
        PROVE  FALSE
    <3>1. IsNext(s, S, j, at[i])
      BY <2>1, <2>5
    <3>2. IsRanked(s, S, (i - 1) + 1, at[i])
      BY <2>5, <3>1, RankNext
    <3>3. (i - 1) + 1 = i
      BY <2>1
    <3> QED  BY <1>2, <3>2, <3>3
  <2> QED  BY <2>2, <2>4, <2>5 DEF IsRanked
<1> QED  BY <1>3, <1>4

\* Going on from member to member of C until one is in E.
LEMMA SearchLoop ==
  ASSUME NEW s \in Seq(Node), NEW C, NEW E, NEW j0 \in 0 .. Len(s), NEW N \in Nat, Len(s) <= N, NEW at,
         Nil \notin E,
         IsNext(s, C, j0, at[0]),
         \A i \in 1 .. N : at[i - 1] = Nil \/ at[i - 1] \in E => at[i] = at[i - 1],
         \A i \in 1 .. N, j \in 1 .. Len(s) :
            at[i - 1] = s[j] /\ s[j] \in C /\ s[j] \notin E => IsNext(s, C, j, at[i])
  PROVE  IsNext(s, C \cap E, j0, at[N])
<1> DEFINE Reached(i) ==
              \/ at[i] = Nil /\ \A k \in j0 + 1 .. Len(s) : s[k] \notin C \cap E
              \/ \E k \in j0 + 1 .. Len(s) :
                    /\ at[i] = s[k] /\ s[k] \in C /\ (s[k] \in E \/ k > j0 + i)
                    /\ \A l \in j0 + 1 .. k - 1 : s[l] \notin C \cap E
           bad == {i \in 0 .. N : ~ Reached(i)}
<1>0. Len(s) \in Nat /\ \A k \in 1 .. Len(s) : s[k] \in Node
  OBVIOUS
<1>1. bad = {}
  <2>1. SUFFICES ASSUME bad # {}  PROVE FALSE
    OBVIOUS
  <2>2. PICK i \in bad : \A j \in bad : i <= j
    <3> HIDE DEF bad
    <3>1. bad \subseteq Nat
      BY DEF bad
    <3> QED  BY <2>1, <3>1, LeastOf
  <2>3. i \in 0 .. N /\ ~ Reached(i)
    BY <2>2
  <2>4. CASE i = 0
    <3>1. CASE at[0] = Nil /\ \A k \in j0 + 1 .. Len(s) : s[k] \notin C
      BY <2>3, <2>4, <3>1
    <3>2. ASSUME NEW k \in j0 + 1 .. Len(s), at[0] = s[k], s[k] \in C, \A l \in j0 + 1 .. k - 1 : s[l] \notin C
          PROVE  FALSE
      <4>1. k > j0 + 0
        BY <1>0
      <4> QED  BY <2>3, <2>4, <3>2, <4>1
    <3> QED  BY <3>1, <3>2 DEF IsNext
  <2>5. CASE i # 0
    <3>1. i \in 1 .. N /\ i - 1 \in 0 .. N /\ i - 1 \notin bad
      BY <2>2, <2>5
    <3>2. Reached(i - 1)
      BY <3>1
    <3>3. CASE at[i - 1] = Nil /\ \A k \in j0 + 1 .. Len(s) : s[k] \notin C \cap E
      <4>1. at[i] = Nil
        BY <3>1, <3>3
      <4> QED  BY <2>3, <3>3, <4>1
    <3>4. ASSUME NEW k \in j0 + 1 .. Len(s), at[i - 1] = s[k], s[k] \in C, s[k] \in E \/ k > j0 + (i - 1),
                 \A l \in j0 + 1 .. k - 1 : s[l] \notin C \cap E
          PROVE  FALSE
      <4>1. CASE s[k] \in E
        <5>1. at[i] = at[i - 1]
          BY <3>1, <3>4, <4>1
        <5> QED  BY <2>3, <3>4, <4>1, <5>1
      <4>2. CASE s[k] \notin E
        <5>1. k \in 1 .. Len(s) /\ k \in Nat
          BY <1>0
        <5>2. IsNext(s, C, k, at[i])
          BY <3>1, <3>4, <4>2, <5>1
        <5>3. CASE at[i] = Nil /\ \A l \in k + 1 .. Len(s) : s[l] \notin C
          <6>1. \A l \in j0 + 1 .. Len(s) : s[l] \notin C \cap E
            <7>1. \A l \in j0 + 1 .. Len(s) : l \in j0 + 1 .. k - 1 \/ l = k \/ l \in k + 1 .. Len(s)
              BY <1>0, <5>1
            <7> QED  BY <3>4, <4>2, <5>3, <7>1
          <6> QED  BY <2>3, <5>3, <6>1
        <5>4. ASSUME NEW h \in k + 1 .. Len(s), at[i] = s[h], s[h] \in C, \A l \in k + 1 .. h - 1 : s[l] \notin C
              PROVE  FALSE
          <6>1. h \in j0 + 1 .. Len(s) /\ h > j0 + i
            BY <1>0, <3>1, <3>4, <4>2, <5>1
          <6>2. \A l \in j0 + 1 .. h - 1 : s[l] \notin C \cap E
            <7>1. \A l \in j0 + 1 .. h - 1 : l \in j0 + 1 .. k - 1 \/ l = k \/ l \in k + 1 .. h - 1
              BY <1>0, <5>1, <6>1
            <7> QED  BY <3>4, <4>2, <5>4, <7>1
          <6> QED  BY <2>3, <5>4, <6>1, <6>2
        <5> QED  BY <5>2, <5>3, <5>4 DEF IsNext
      <4> QED  BY <4>1, <4>2
    <3> QED  BY <3>2, <3>3, <3>4
  <2> QED  BY <2>4, <2>5
<1>2. Reached(N)
  <2>1. N \in 0 .. N
    OBVIOUS
  <2>2. N \notin bad
    BY <1>1
  <2> HIDE DEF Reached
  <2> QED  BY <2>1, <2>2
<1>3. \A k \in j0 + 1 .. Len(s) : ~(k > j0 + N)
  BY <1>0
<1> QED  BY <1>2, <1>3 DEF IsNext

-----------------------------------------------------------------------------
(* The calls of the tree. *)

\* A list of children is what is met from the first child on.
LEMMA ListAlong ==
  ASSUME NEW T, NEW p, NEW s, ListOf(T, p, s)
  PROVE  /\ s \in Seq(Node) /\ Along(T.first[p], T.next, s)
         /\ Len(s) \in Nat /\ Cardinality(Node) \in Nat /\ Len(s) <= Cardinality(Node)
<1>1. s \in Seq(Node) /\ Along(T.first[p], T.next, s)
  BY DEF ListOf, Along
<1> QED  BY <1>1, AlongLength

\* FirstChild(v) is the first child called v,
LEMMA FirstChildIs ==
  ASSUME NEW T, NEW p, NEW s, ListOf(T, p, s), NEW v
  PROVE  IsNext(s, Called(T, v), 0, FirstChild(T, p, v))
BY ListAlong, FirstAlongIs DEF FirstChild

\* and NextSibling(v) the next.
LEMMA NextSiblingIs ==
  ASSUME NEW T, NEW p, NEW s, ListOf(T, p, s), NEW v, NEW j \in 1 .. Len(s)
  PROVE  IsNext(s, Called(T, v), j, NextSibling(T, s[j], v))
BY ListAlong, FirstAfter DEF NextSibling

\* The loop of FirstChildElement and NextSiblingElement, from the first namesake on.
LEMMA ElementLoop ==
  ASSUME NEW T, NEW p, NEW s, ListOf(T, p, s), NEW v, NEW j0 \in 0 .. Len(s), NEW a,
         IsNext(s, Called(T, v), j0, a),
         NEW f, f = CHOOSE at : at = [i \in 0 .. Cardinality(Node) |->
                IF i = 0 THEN a
                ELSE IF at[i - 1] = Nil \/ T.kind[at[i - 1]] = "element" THEN at[i - 1]
                     ELSE NextSibling(T, at[i - 1], v)]
  PROVE  IsNext(s, Called(T, v) \cap KindNodes(T, "element"), j0, f[Cardinality(Node)])
<1> DEFINE N == Cardinality(Node)
           Loops(at) == at = [i \in 0 .. N |->
                IF i = 0 THEN a
                ELSE IF at[i - 1] = Nil \/ T.kind[at[i - 1]] = "element" THEN at[i - 1]
                     ELSE NextSibling(T, at[i - 1], v)]
           step == [m \in Met(s) |-> IF m = Nil \/ T.kind[m] = "element" THEN m ELSE NextSibling(T, m, v)]
<1>0. s \in Seq(Node) /\ Len(s) \in Nat /\ N \in Nat /\ Len(s) <= N
  BY ListAlong
<1>1. a \in Met(s)
  BY <1>0, NextMet
<1>2. step \in [Met(s) -> Met(s)]
  <2>1. \A j \in 1 .. Len(s) : NextSibling(T, s[j], v) \in Met(s)
    BY <1>0, NextSiblingIs, NextMet
  <2> QED  BY <2>1 DEF Met
<1> HIDE DEF N
<1>3. \E g : Loops(g)
  <2>0. PICK g : Iterates(g, N, Met(s), a, step)
    <3> HIDE DEF step
    <3> QED  BY <1>0, <1>1, <1>2, IterExists
  <2>1. g \in [0 .. N -> Met(s)] /\ \A i \in 0 .. N : g[i] = IF i = 0 THEN a ELSE step[g[i - 1]]
    <3> HIDE DEF step
    <3> QED  BY <2>0 DEF Iterates
  <2>2. \A i \in 0 .. N : i # 0 => i - 1 \in 0 .. N
    BY <1>0
  <2>3. \A i \in 0 .. N : g[i] = IF i = 0 THEN a
                ELSE IF g[i - 1] = Nil \/ T.kind[g[i - 1]] = "element" THEN g[i - 1]
                     ELSE NextSibling(T, g[i - 1], v)
    BY <2>1, <2>2
  <2>4. Loops(g)
    BY <2>1, <2>3
  <2> HIDE DEF Loops
  <2> QED  BY <2>4
<1>4. Loops(f)
  <2>1. f = CHOOSE at : Loops(at)
    BY DEF N
  <2> HIDE DEF Loops
  <2> QED  BY <1>3, <2>1
<1> DEFINE C == Called(T, v)
           E == KindNodes(T, "element")
<1>5. f[0] = a
  <2>1. \A i \in 0 .. N : i = 0 => f[i] = a
    BY <1>4
  <2> QED  BY <1>0, <2>1
<1>6. \A i \in 1 .. N : f[i] = IF f[i - 1] = Nil \/ T.kind[f[i - 1]] = "element" THEN f[i - 1]
                               ELSE NextSibling(T, f[i - 1], v)
  <2>1. \A i \in 1 .. N : i \in 0 .. N /\ i # 0
    BY <1>0
  <2>2. \A i \in 0 .. N : f[i] = IF i = 0 THEN a
                ELSE IF f[i - 1] = Nil \/ T.kind[f[i - 1]] = "element" THEN f[i - 1]
                     ELSE NextSibling(T, f[i - 1], v)
    BY <1>4
  <2> QED  BY <2>1, <2>2
<1> HIDE DEF Loops
<1>7. Nil \notin E /\ \A m \in E : T.kind[m] = "element"
  BY NilAssumption DEF KindNodes
<1>8. \A i \in 1 .. N : f[i - 1] = Nil \/ f[i - 1] \in E => f[i] = f[i - 1]
  BY <1>6, <1>7
<1>9. ASSUME NEW i \in 1 .. N, NEW j \in 1 .. Len(s), f[i - 1] = s[j], s[j] \in C, s[j] \notin E
      PROVE  IsNext(s, C, j, f[i])
  <2>1. s[j] \in Node
    BY <1>0
  <2>2. f[i] = NextSibling(T, s[j], v)
    BY <1>6, <1>9, <2>1, NilAssumption DEF KindNodes
  <2> QED  BY <2>2, NextSiblingIs
<1>10. IsNext(s, C \cap E, j0, f[N])
  <2> HIDE DEF C, E
  <2>1. IsNext(s, C, j0, f[0])
    BY <1>5 DEF C
  <2> QED  BY <1>0, <1>7, <1>8, <1>9, <2>1, SearchLoop
<1> QED  BY <1>10 DEF N

\* FirstChildElement(v) is the first element called v,
LEMMA FirstChildElementIs ==
  ASSUME NEW T, NEW p, NEW s, ListOf(T, p, s), NEW v
  PROVE  IsNext(s, Called(T, v) \cap KindNodes(T, "element"), 0, FirstChildElement(T, p, v))
<1> DEFINE a == FirstChild(T, p, v)
           f == CHOOSE at : at = [i \in 0 .. Cardinality(Node) |->
                IF i = 0 THEN a
                ELSE IF at[i - 1] = Nil \/ T.kind[at[i - 1]] = "element" THEN at[i - 1]
                     ELSE NextSibling(T, at[i - 1], v)]
<1>1. FirstChildElement(T, p, v) = f[Cardinality(Node)]
  BY DEF FirstChildElement
<1>4. 0 \in 0 .. Len(s)
  BY ListAlong
<1>5. IsNext(s, Called(T, v), 0, a)
  BY FirstChildIs
<1> HIDE DEF a
<1>6. IsNext(s, Called(T, v) \cap KindNodes(T, "element"), 0, f[Cardinality(Node)])
  BY <1>4, <1>5, ElementLoop
<1> QED  BY <1>1, <1>6 DEF a

\* and NextSiblingElement(v) the next.
LEMMA NextSiblingElementIs ==
  ASSUME NEW T, NEW p, NEW s, ListOf(T, p, s), NEW v, NEW j \in 1 .. Len(s)
  PROVE  IsNext(s, Called(T, v) \cap KindNodes(T, "element"), j, NextSiblingElement(T, s[j], v))
<1> DEFINE a == NextSibling(T, s[j], v)
           f == CHOOSE at : at = [i \in 0 .. Cardinality(Node) |->
                IF i = 0 THEN a
                ELSE IF at[i - 1] = Nil \/ T.kind[at[i - 1]] = "element" THEN at[i - 1]
                     ELSE NextSibling(T, at[i - 1], v)]
<1>1. NextSiblingElement(T, s[j], v) = f[Cardinality(Node)]
  BY DEF NextSiblingElement
<1>4. j \in 0 .. Len(s)
  BY ListAlong
<1>5. IsNext(s, Called(T, v), j, a)
  BY NextSiblingIs
<1> HIDE DEF a
<1>6. IsNext(s, Called(T, v) \cap KindNodes(T, "element"), j, f[Cardinality(Node)])
  BY <1>4, <1>5, ElementLoop
<1> QED  BY <1>1, <1>6 DEF a

\* TiXmlHandle's Element, ChildElement, LastChild and Child, in this order, for any count.
LEMMA HandleElementIs ==
  ASSUME NEW T, NEW p, NEW s, ListOf(T, p, s), NEW count \in Nat
  PROVE  IsRanked(s, KindNodes(T, "element"), count, HandleElement(T, p, count))
<1> DEFINE E == KindNodes(T, "element")
           Loops(at) == at = [i \in 0 .. count |->
                IF i = 0 THEN FirstElement(T, p)
                ELSE IF at[i - 1] = Nil THEN Nil ELSE ElementAfter(T, at[i - 1])]
           f == CHOOSE at : Loops(at)
           step == [m \in Met(s) |-> IF m = Nil THEN Nil ELSE ElementAfter(T, m)]
<1>1. HandleElement(T, p, count) = f[count]
  BY DEF HandleElement
<1>2. IsNext(s, E, 0, FirstElement(T, p)) /\ s \in Seq(Node)
  BY ListAlong, FirstAlongIs DEF FirstElement
<1>3. \A j \in 1 .. Len(s) : IsNext(s, E, j, ElementAfter(T, s[j]))
  BY ListAlong, FirstAfter DEF ElementAfter
<1>4. FirstElement(T, p) \in Met(s) /\ \A j \in 1 .. Len(s) : ElementAfter(T, s[j]) \in Met(s)
  BY <1>2, <1>3, NextMet
<1>5. step \in [Met(s) -> Met(s)]
  BY <1>4 DEF Met
<1>6. \E g : Loops(g)
  <2>1. PICK g : Iterates(g, count, Met(s), FirstElement(T, p), step)
    <3> HIDE DEF step
    <3> QED  BY <1>4, <1>5, IterExists
  <2>2. /\ g \in [0 .. count -> Met(s)]
        /\ \A i \in 0 .. count : g[i] = IF i = 0 THEN FirstElement(T, p) ELSE step[g[i - 1]]
    <3> HIDE DEF step
    <3> QED  BY <2>1 DEF Iterates
  <2>3. \A i \in 0 .. count : i # 0 => i - 1 \in 0 .. count
    OBVIOUS
  <2>4. \A i \in 0 .. count : g[i] = IF i = 0 THEN FirstElement(T, p)
                ELSE IF g[i - 1] = Nil THEN Nil ELSE ElementAfter(T, g[i - 1])
    BY <2>2, <2>3
  <2>5. Loops(g)
    BY <2>2, <2>4
  <2> HIDE DEF Loops
  <2> QED  BY <2>5
<1>7. Loops(f)
  <2> HIDE DEF Loops
  <2> QED  BY <1>6
<1> HIDE DEF f
<1>8. \A i \in 0 .. count : f[i] = IF i = 0 THEN FirstElement(T, p)
                ELSE IF f[i - 1] = Nil THEN Nil ELSE ElementAfter(T, f[i - 1])
  BY <1>7
<1>9. /\ \A i \in 1 .. count : i \in 0 .. count /\ i # 0
      /\ 0 \in 0 .. count
  OBVIOUS
<1>10. IsNext(s, E, 0, f[0])
  BY <1>2, <1>8, <1>9
<1>11. \A i \in 1 .. count : f[i - 1] = Nil => f[i] = Nil
  BY <1>8, <1>9
<1>12. ASSUME NEW i \in 1 .. count, NEW j \in 1 .. Len(s), f[i - 1] = s[j], s[j] \in E
       PROVE  IsNext(s, E, j, f[i])
  <2>1. s[j] # Nil
    BY <1>12, NilAssumption DEF KindNodes
  <2>2. f[i] = ElementAfter(T, s[j])
    BY <1>8, <1>9, <1>12, <2>1
  <2> QED  BY <1>3, <2>2
<1>13. IsRanked(s, E, count, f[count])
  <2> HIDE DEF E
  <2> QED  BY <1>2, <1>10, <1>11, <1>12, RankedLoop
<1> QED  BY <1>1, <1>13 DEF f

LEMMA HandleChildElementIs ==
  ASSUME NEW T, NEW p, NEW s, ListOf(T, p, s), NEW v, NEW count \in Nat
  PROVE  IsRanked(s, Called(T, v) \cap KindNodes(T, "element"), count, HandleChildElement(T, p, v, count))
<1> DEFINE E == Called(T, v) \cap KindNodes(T, "element")
           Loops(at) == at = [i \in 0 .. count |->
                IF i = 0 THEN FirstChildElement(T, p, v)
                ELSE IF at[i - 1] = Nil THEN Nil ELSE NextSiblingElement(T, at[i - 1], v)]
           f == CHOOSE at : Loops(at)
           step == [m \in Met(s) |-> IF m = Nil THEN Nil ELSE NextSiblingElement(T, m, v)]
<1>1. HandleChildElement(T, p, v, count) = f[count]
  BY DEF HandleChildElement
<1>2. IsNext(s, E, 0, FirstChildElement(T, p, v)) /\ s \in Seq(Node)
  BY ListAlong, FirstChildElementIs
<1>3. \A j \in 1 .. Len(s) : IsNext(s, E, j, NextSiblingElement(T, s[j], v))
  BY NextSiblingElementIs
<1>4. FirstChildElement(T, p, v) \in Met(s)
  BY <1>2, NextMet
<1>5. \A j \in 1 .. Len(s) : NextSiblingElement(T, s[j], v) \in Met(s)
  BY <1>2, <1>3, NextMet
<1>6. step \in [Met(s) -> Met(s)]
  BY <1>5 DEF Met
<1>7. \E g : Loops(g)
  <2>1. PICK g : Iterates(g, count, Met(s), FirstChildElement(T, p, v), step)
    <3> HIDE DEF step
    <3> QED  BY <1>4, <1>6, IterExists
  <2>2. /\ g \in [0 .. count -> Met(s)]
        /\ \A i \in 0 .. count : g[i] = IF i = 0 THEN FirstChildElement(T, p, v) ELSE step[g[i - 1]]
    <3> HIDE DEF step
    <3> QED  BY <2>1 DEF Iterates
  <2>3. \A i \in 0 .. count : i # 0 => i - 1 \in 0 .. count
    OBVIOUS
  <2>4. \A i \in 0 .. count : g[i] = IF i = 0 THEN FirstChildElement(T, p, v)
                ELSE IF g[i - 1] = Nil THEN Nil ELSE NextSiblingElement(T, g[i - 1], v)
    BY <2>2, <2>3
  <2>5. Loops(g)
    BY <2>2, <2>4
  <2> HIDE DEF Loops
  <2> QED  BY <2>5
<1>8. Loops(f)
  <2> HIDE DEF Loops
  <2> QED  BY <1>7
<1> HIDE DEF f
<1>9. \A i \in 0 .. count : f[i] = IF i = 0 THEN FirstChildElement(T, p, v)
                ELSE IF f[i - 1] = Nil THEN Nil ELSE NextSiblingElement(T, f[i - 1], v)
  BY <1>8
<1>10. /\ \A i \in 1 .. count : i \in 0 .. count /\ i # 0
       /\ 0 \in 0 .. count
  OBVIOUS
<1>11. IsNext(s, E, 0, f[0])
  BY <1>2, <1>9, <1>10
<1>12. \A i \in 1 .. count : f[i - 1] = Nil => f[i] = Nil
  BY <1>9, <1>10
<1>13. ASSUME NEW i \in 1 .. count, NEW j \in 1 .. Len(s), f[i - 1] = s[j], s[j] \in E
       PROVE  IsNext(s, E, j, f[i])
  <2>1. s[j] # Nil
    BY <1>13, NilAssumption DEF KindNodes
  <2>2. f[i] = NextSiblingElement(T, s[j], v)
    BY <1>9, <1>10, <1>13, <2>1
  <2> QED  BY <1>3, <2>2
<1>14. IsRanked(s, E, count, f[count])
  <2> HIDE DEF E
  <2> QED  BY <1>2, <1>11, <1>12, <1>13, RankedLoop
<1> QED  BY <1>1, <1>14 DEF f

LEMMA LastChildIs ==
  ASSUME NEW T, NEW p, NEW s, ListOf(T, p, s), NEW v
  PROVE  IsRanked(s, Called(T, v), Cardinality({i \in DOMAIN s : s[i] \in Called(T, v)}) - 1, LastChild(T, p, v))
<1> DEFINE C == Called(T, v)
           r == [i \in 1 .. Len(s) |-> s[Len(s) + 1 - i]]
           m == LastChild(T, p, v)
           all == {i \in DOMAIN s : s[i] \in C}
<1>1. IsNext(r, C, 0, m)
  <2>1. Along(T.last[p], T.prev, r)
    BY BackAlong
  <2> HIDE DEF r
  <2> QED  BY <2>1, FirstAlongIs DEF LastChild
<1>2. s \in Seq(Node) /\ Len(s) \in Nat /\ DOMAIN s = 1 .. Len(s)
  BY DEF ListOf
<1>3. r \in Seq(Node) /\ Len(r) = Len(s) /\ \A i \in 1 .. Len(s) : r[i] = s[Len(s) + 1 - i]
  <2>1. \A i \in 1 .. Len(s) : s[Len(s) + 1 - i] \in Node
    BY <1>2
  <2> QED  BY <1>2, <2>1, IsASeq
<1> HIDE DEF r, m, C
<1>4. CASE m = Nil /\ \A k \in 1 .. Len(r) : r[k] \notin C
  <2>1. ASSUME NEW i \in 1 .. Len(s)  PROVE s[i] \notin C
    <3>1. Len(s) + 1 - i \in 1 .. Len(s) /\ Len(s) + 1 - (Len(s) + 1 - i) = i
      BY <1>2
    <3> QED  BY <1>3, <1>4, <3>1
  <2> QED  BY <1>4, <2>1 DEF IsRanked, C, m
<1>5. ASSUME NEW k \in 1 .. Len(r), m = r[k], r[k] \in C, \A l \in 1 .. k - 1 : r[l] \notin C
      PROVE  IsRanked(s, C, Cardinality(all) - 1, m)
  <2> DEFINE j == Len(s) + 1 - k
  <2>1. j \in 1 .. Len(s) /\ m = s[j] /\ s[j] \in C
    BY <1>2, <1>3, <1>5
  <2>2. ASSUME NEW i \in 1 .. Len(s), s[i] \in C  PROVE i <= j
    <3>1. SUFFICES ASSUME i > j  PROVE FALSE
      BY <1>2, <2>1
    <3>2. Len(s) + 1 - i \in 1 .. k - 1 /\ Len(s) + 1 - i \in 1 .. Len(s) /\ Len(s) + 1 - (Len(s) + 1 - i) = i
      BY <1>2, <1>3, <3>1
    <3> QED  BY <1>3, <1>5, <2>2, <3>2
  <2> HIDE DEF j
  <2>3. all = Before(s, C, j) \union {j} /\ j \notin Before(s, C, j)
    BY <1>2, <2>1, <2>2 DEF Before
  <2>4. IsFiniteSet(Before(s, C, j)) /\ Cardinality(Before(s, C, j)) \in Nat
    BY <2>1, CountsBefore
  <2>5. Cardinality(all) - 1 = Cardinality(Before(s, C, j))
    <3>1. Cardinality(Before(s, C, j) \union {j}) = Cardinality(Before(s, C, j)) + 1
      BY <2>3, <2>4, FS_AddElement
    <3> HIDE DEF all
    <3>2. Cardinality(all) = Cardinality(Before(s, C, j)) + 1
      BY <2>3, <3>1
    <3> QED  BY <2>4, <3>2
  <2> QED  BY <2>1, <2>5 DEF IsRanked
<1> QED  BY <1>1, <1>4, <1>5 DEF IsNext, C, m

LEMMA HandleChildIs ==
  ASSUME NEW T, NEW p, NEW s, ListOf(T, p, s), NEW count \in Nat
  PROVE  HandleChild(T, p, count) = Nth(s, Node, count)
<1>1. s \in Seq(Node) /\ Len(s) \in Nat /\ \A j \in 1 .. Len(s) : s[j] \in Node
  BY DEF ListOf
<1>2. HandleChild(T, p, count) = IF count < Len(s) THEN s[count + 1] ELSE Nil
  <2>1. Walk(T.first[p], T.next) = s
    BY ListAlong, WalkIs
  <2> QED  BY <2>1 DEF HandleChild
<1>3. ASSUME NEW j \in 1 .. Len(s)  PROVE Cardinality(Before(s, Node, j)) = j - 1
  <2>1. Before(s, Node, j) = 1 .. j - 1
    BY <1>1 DEF Before
  <2>2. Cardinality(1 .. j - 1) = j - 1
    <3>1. j - 1 \in Int /\ ~(1 > j - 1) => (j - 1) - 1 + 1 = j - 1
      OBVIOUS
    <3>2. 1 \in Int /\ j - 1 \in Int
      OBVIOUS
    <3>3. Cardinality(1 .. j - 1) = IF 1 > j - 1 THEN 0 ELSE (j - 1) - 1 + 1
      BY <3>2, FS_Interval
    <3> QED  BY <1>1, <3>3
  <2> QED  BY <2>1, <2>2
<1>4. CASE count < Len(s)
  <2>1. count + 1 \in 1 .. Len(s) /\ (count + 1) - 1 = count
    BY <1>1, <1>4
  <2>2. IsRanked(s, Node, count, s[count + 1])
    BY <1>1, <1>3, <2>1 DEF IsRanked
  <2> QED  BY <1>1, <1>2, <1>4, <2>2, RankedIsNth
<1>5. CASE ~(count < Len(s))
  <2>1. IsRanked(s, Node, count, Nil)
    <3>1. \A j \in 1 .. Len(s) : j - 1 < count
      BY <1>1, <1>5
    <3> QED  BY <1>3, <3>1 DEF IsRanked
  <2> QED  BY <1>1, <1>2, <1>5, <2>1, RankedIsNth
<1> QED  BY <1>4, <1>5

-----------------------------------------------------------------------------
(* The properties.                                                         *)

\* In a sound tree the walks agree,
LEMMA SoundWalksAgree == IInv => WalksAgree
<1> SUFFICES ASSUME IInv, NEW p \in Live(tree)
             PROVE  LET kids == Children(tree, p)
                        back == Walk(tree.last[p], tree.prev)
                    IN /\ Range(kids) = {n \in Node : tree.parent[n] = p}
                       /\ Len(back) = Len(kids)
                       /\ \A i \in DOMAIN kids : kids[i] = back[Len(kids) + 1 - i]
  BY DEF WalksAgree
<1>1. PICK s \in Seq(Node) : ListOf(tree, p, s)
  BY ChildrenListed DEF IInv, Live
<1> DEFINE r == [i \in 1 .. Len(s) |-> s[Len(s) + 1 - i]]
<1>2. Children(tree, p) = s
  BY <1>1, ChildrenIs
<1>3. Walk(tree.last[p], tree.prev) = r
  BY <1>1, BackAlong, WalkIs
<1>4. Len(s) \in Nat /\ DOMAIN s = 1 .. Len(s) /\ \A i \in 1 .. Len(s) : s[i] \in Node
  OBVIOUS
<1>5. Range(s) = {n \in Node : tree.parent[n] = p}
  <2>1. ASSUME NEW n \in Range(s)  PROVE n \in Node /\ tree.parent[n] = p
    <3>1. PICK i \in 1 .. Len(s) : n = s[i]
      BY <1>4 DEF Range
    <3> QED  BY <1>1, <1>4, <3>1 DEF ListOf
  <2>2. ASSUME NEW n \in Node, tree.parent[n] = p  PROVE n \in Range(s)
    <3>1. PICK i \in 1 .. Len(s) : n = s[i]
      BY <1>1, <2>2 DEF ListOf
    <3> QED  BY <1>4, <3>1 DEF Range
  <2> QED  BY <2>1, <2>2
<1>6. Len(r) = Len(s)
  BY <1>4
<1>7. ASSUME NEW i \in 1 .. Len(s)  PROVE s[i] = r[Len(s) + 1 - i]
  <2>1. Len(s) + 1 - i \in 1 .. Len(s) /\ Len(s) + 1 - (Len(s) + 1 - i) = i
    BY <1>4
  <2> QED  BY <2>1
<1> HIDE DEF r
<1> QED  BY <1>2, <1>3, <1>4, <1>5, <1>6, <1>7

\* and the handles count what the walk over all children meets.
LEMMA SoundSearches == IInv => SearchesExact
<1> SUFFICES ASSUME IInv, NEW p \in Live(tree)
             PROVE  LET kids == Children(tree, p)
                        elements == KindNodes(tree, "element")
                    IN /\ \A i \in 0 .. 2 : /\ HandleChild(tree, p, i) = Nth(kids, Node, i)
                                            /\ HandleElement(tree, p, i) = Nth(kids, elements, i)
                       /\ \A v \in Name :
                            LET called == Called(tree, v)
                                count  == Cardinality({i \in DOMAIN kids : kids[i] \in called})
                            IN /\ LastChild(tree, p, v) = Nth(kids, called, count - 1)
                               /\ \A i \in 0 .. 2 : HandleChildElement(tree, p, v, i)
                                                     = Nth(kids, called \cap elements, i)
  BY DEF SearchesExact
<1>1. PICK s \in Seq(Node) : ListOf(tree, p, s)
  BY ChildrenListed DEF IInv, Live
<1>2. Children(tree, p) = s
  BY <1>1, ChildrenIs
<1>3. ASSUME NEW i \in 0 .. 2
      PROVE  /\ HandleChild(tree, p, i) = Nth(s, Node, i)
             /\ HandleElement(tree, p, i) = Nth(s, KindNodes(tree, "element"), i)
  BY <1>1, HandleChildIs, HandleElementIs, RankedIsNth
<1>4. ASSUME NEW v \in Name, NEW i \in 0 .. 2
      PROVE  HandleChildElement(tree, p, v, i) = Nth(s, Called(tree, v) \cap KindNodes(tree, "element"), i)
  <2>1. IsRanked(s, Called(tree, v) \cap KindNodes(tree, "element"), i, HandleChildElement(tree, p, v, i))
    BY <1>1, HandleChildElementIs
  <2> QED  BY <2>1, RankedIsNth
<1>5. ASSUME NEW v \in Name
      PROVE  LastChild(tree, p, v) = Nth(s, Called(tree, v), Cardinality({i \in DOMAIN s : s[i] \in Called(tree, v)}) - 1)
  <2> DEFINE count == Cardinality({i \in DOMAIN s : s[i] \in Called(tree, v)})
  <2>1. count \in Nat
    <3>1. {i \in DOMAIN s : s[i] \in Called(tree, v)} = Before(s, Called(tree, v), Len(s) + 1)
      BY DEF Before
    <3>2. Len(s) + 1 \in Nat
      OBVIOUS
    <3> QED  BY <3>1, <3>2, CountsBefore
  <2>2. IsRanked(s, Called(tree, v), count - 1, LastChild(tree, p, v))
    BY <1>1, LastChildIs
  <2> HIDE DEF count
  <2>3. LastChild(tree, p, v) = Nth(s, Called(tree, v), count - 1)
    BY <2>1, <2>2, RankedIsNth
  <2> QED  BY <2>3 DEF count
<1> QED  BY <1>2, <1>3, <1>4, <1>5

\* In every reachable tree all walks over siblings meet all children of the parent, and the
\* handles and the searches by name and kind find exactly the child they are asked for.
THEOREM TreeNavigationExact == TreeSpec => []NavigationExact
<1>1. IInv => NavigationExact
  BY SoundWalksAgree, SoundSearches DEF NavigationExact
<1> QED  BY TreeSound, <1>1, PTL

-----------------------------------------------------------------------------
(* Lists of children under the calls.                                      *)

\* What such a list says of the links of its nodes.
LEMMA ListPath ==
  ASSUME NEW T, NEW p, NEW s, ListOf(T, p, s)
  PROVE  /\ s \in Seq(Node) /\ Len(s) \in Nat
         /\ \A i \in 1 .. Len(s) : /\ s[i] \in Node /\ T.parent[s[i]] = p
                                   /\ T.prev[s[i]] = IF i > 1 THEN s[i - 1] ELSE Nil
                                   /\ T.next[s[i]] = IF i < Len(s) THEN s[i + 1] ELSE Nil
         /\ \A i, j \in 1 .. Len(s) : s[i] = s[j] => i = j
         /\ \A n \in Node : T.parent[n] = p => \E i \in 1 .. Len(s) : s[i] = n
         /\ T.first[p] = IF Len(s) = 0 THEN Nil ELSE s[1]
         /\ T.last[p] = IF Len(s) = 0 THEN Nil ELSE s[Len(s)]
  BY DEF ListOf

\* From T to U q keeps its children, and they their predecessors.
KeepsKids(T, U, q) ==
    /\ \A m \in Node : T.parent[m] = q => U.parent[m] = q /\ U.prev[m] = T.prev[m]
    /\ \A m \in Node : U.parent[m] = q => T.parent[m] = q

\* Then its list is the same.
LEMMA ListKept ==
  ASSUME NEW T, NEW U, Sound(U), NEW q \in Node, NEW s, ListOf(T, q, s), KeepsKids(T, U, q)
  PROVE  ListOf(U, q, s)
<1>1. Path(U, q, s)
  BY ListPath DEF Path, KeepsKids
<1>2. \A n \in Node : U.parent[n] = q => \E i \in 1 .. Len(s) : s[i] = n
  BY ListPath DEF KeepsKids
<1> QED  BY <1>1, <1>2, PathIsList

\* r is s with n as its i-th member,
Inserted(s, i, n, r) ==
    /\ r \in Seq(Node) /\ Len(r) = Len(s) + 1
    /\ \A j \in 1 .. Len(s) + 1 : r[j] = IF j < i THEN s[j] ELSE IF j = i THEN n ELSE s[j - 1]

\* without its i-th member,
Taken(s, i, r) ==
    /\ r \in Seq(Node) /\ Len(r) = Len(s) - 1
    /\ \A j \in 1 .. Len(s) - 1 : r[j] = IF j < i THEN s[j] ELSE s[j + 1]

\* and with n for its i-th member.
Exchanged(s, i, n, r) ==
    /\ r \in Seq(Node) /\ Len(r) = Len(s)
    /\ \A j \in 1 .. Len(s) : r[j] = IF j = i THEN n ELSE s[j]

\* From T to U the node n becomes the i-th child of p, whose children were s,
GainsKid(T, U, p, s, i, n) ==
    /\ U.parent[n] = p /\ U.prev[n] = IF i > 1 THEN s[i - 1] ELSE Nil
    /\ \A j \in 1 .. Len(s) : /\ U.parent[s[j]] = p
                              /\ U.prev[s[j]] = IF j = i THEN n ELSE T.prev[s[j]]
    /\ \A m \in Node : U.parent[m] = p => m = n \/ T.parent[m] = p

\* the i-th child is taken from it,
LosesKid(T, U, p, s, i) ==
    /\ \A j \in 1 .. Len(s) : j # i =>
            /\ U.parent[s[j]] = p
            /\ U.prev[s[j]] = IF j = i + 1 THEN T.prev[s[i]] ELSE T.prev[s[j]]
    /\ \A m \in Node : U.parent[m] = p => m # s[i] /\ T.parent[m] = p

\* or n takes the place of the i-th child.
SwapsKid(T, U, p, s, i, n) ==
    /\ U.parent[n] = p /\ U.prev[n] = T.prev[s[i]]
    /\ \A j \in 1 .. Len(s) : j # i =>
            /\ U.parent[s[j]] = p
            /\ U.prev[s[j]] = IF j = i + 1 THEN n ELSE T.prev[s[j]]
    /\ \A m \in Node : U.parent[m] = p => m = n \/ (m # s[i] /\ T.parent[m] = p)

\* The list grows with the insertion,
LEMMA ListGrown ==
  ASSUME NEW T, NEW U, Sound(U), NEW p \in Node, NEW s, ListOf(T, p, s), NEW n \in Node,
         NEW i \in 1 .. Len(s) + 1, NEW r, Inserted(s, i, n, r), GainsKid(T, U, p, s, i, n)
  PROVE  ListOf(U, p, r)
<1> USE DEF Inserted, GainsKid
<1>0. /\ Len(s) \in Nat /\ i \in Nat
      /\ \A j \in 1 .. Len(s) : s[j] \in Node /\ T.prev[s[j]] = IF j > 1 THEN s[j - 1] ELSE Nil
      /\ \A m \in Node : T.parent[m] = p => \E j \in 1 .. Len(s) : s[j] = m
  BY ListPath
<1>1. ASSUME NEW j \in 1 .. Len(r)
      PROVE  U.parent[r[j]] = p /\ U.prev[r[j]] = IF j > 1 THEN r[j - 1] ELSE Nil
  <2>1. CASE j < i
    <3>1. j \in 1 .. Len(s) /\ r[j] = s[j] /\ j # i
      BY <1>0, <2>1
    <3>2. j > 1 => r[j - 1] = s[j - 1]
      BY <1>0, <2>1
    <3> QED  BY <1>0, <3>1, <3>2
  <2>2. CASE j = i
    <3>1. j > 1 => r[j - 1] = s[j - 1]
      BY <1>0, <2>2
    <3> QED  BY <1>0, <2>2, <3>1
  <2>3. CASE j > i
    <3>1. j - 1 \in 1 .. Len(s) /\ r[j] = s[j - 1] /\ j > 1 /\ j - 1 \in 1 .. Len(r)
      BY <1>0, <2>3
    <3>2. CASE j - 1 = i
      <4>1. r[j - 1] = n
        BY <1>0, <3>2
      <4> QED  BY <3>1, <3>2, <4>1
    <3>3. CASE j - 1 # i
      <4>1. j - 1 > i /\ j - 1 > 1 /\ r[j - 1] = s[(j - 1) - 1]
        BY <1>0, <2>3, <3>1, <3>3
      <4> QED  BY <1>0, <3>1, <3>3, <4>1
    <3> QED  BY <3>2, <3>3
  <2> QED  BY <1>0, <2>1, <2>2, <2>3
<1>2. ASSUME NEW m \in Node, U.parent[m] = p
      PROVE  \E j \in 1 .. Len(r) : r[j] = m
  <2>1. CASE m = n
    BY <1>0, <2>1
  <2>2. CASE T.parent[m] = p
    <3>1. PICK j \in 1 .. Len(s) : s[j] = m
      BY <1>0, <2>2
    <3>2. CASE j < i
      BY <1>0, <3>1, <3>2
    <3>3. CASE j >= i
      <4>1. j + 1 \in 1 .. Len(r) /\ (j + 1) - 1 = j /\ ~(j + 1 < i) /\ j + 1 # i
        BY <1>0, <3>3
      <4>2. r[j + 1] = s[j]
        BY <4>1
      <4> QED  BY <3>1, <4>1, <4>2
    <3> QED  BY <1>0, <3>2, <3>3
  <2> QED  BY <1>2, <2>1, <2>2
<1>3. Path(U, p, r)
  BY <1>1 DEF Path
<1> QED  BY <1>2, <1>3, PathIsList

\* shrinks with the removal,
LEMMA ListShrunk ==
  ASSUME NEW T, NEW U, Sound(U), NEW p \in Node, NEW s, ListOf(T, p, s),
         NEW i \in 1 .. Len(s), NEW r, Taken(s, i, r), LosesKid(T, U, p, s, i)
  PROVE  ListOf(U, p, r)
<1> USE DEF Taken, LosesKid
<1>0. /\ Len(s) \in Nat /\ i \in Nat
      /\ \A j \in 1 .. Len(s) : s[j] \in Node /\ T.prev[s[j]] = IF j > 1 THEN s[j - 1] ELSE Nil
      /\ \A m \in Node : T.parent[m] = p => \E j \in 1 .. Len(s) : s[j] = m
  BY ListPath
<1>1. ASSUME NEW j \in 1 .. Len(r)
      PROVE  U.parent[r[j]] = p /\ U.prev[r[j]] = IF j > 1 THEN r[j - 1] ELSE Nil
  <2>1. CASE j < i
    <3>1. j \in 1 .. Len(s) /\ r[j] = s[j] /\ j # i /\ j # i + 1
      BY <1>0, <2>1
    <3>2. j > 1 => r[j - 1] = s[j - 1]
      <4>1. ASSUME j > 1  PROVE j - 1 \in 1 .. Len(s) - 1 /\ j - 1 < i
        BY <1>0, <2>1, <4>1
      <4> QED  BY <4>1
    <3> QED  BY <1>0, <3>1, <3>2
  <2>2. CASE j >= i
    <3>1. j + 1 \in 1 .. Len(s) /\ r[j] = s[j + 1] /\ j + 1 # i /\ j \in 1 .. Len(s)
      BY <1>0, <2>2
    <3>2. CASE j = i
      <4>1. U.prev[s[j + 1]] = T.prev[s[j]]
        BY <3>1, <3>2
      <4>2. j > 1 => r[j - 1] = s[j - 1]
        BY <1>0, <3>2
      <4> QED  BY <1>0, <3>1, <4>1, <4>2
    <3>3. CASE j # i
      <4>1. U.prev[s[j + 1]] = T.prev[s[j + 1]]
        BY <1>0, <3>1, <3>3
      <4>2. T.prev[s[j + 1]] = s[(j + 1) - 1] /\ (j + 1) - 1 = j
        BY <1>0, <3>1
      <4>3. j > 1 /\ r[j - 1] = s[(j - 1) + 1] /\ (j - 1) + 1 = j
        BY <1>0, <2>2, <3>3
      <4> QED  BY <3>1, <4>1, <4>2, <4>3
    <3> QED  BY <3>2, <3>3
  <2> QED  BY <1>0, <2>1, <2>2
<1>2. ASSUME NEW m \in Node, U.parent[m] = p
      PROVE  \E j \in 1 .. Len(r) : r[j] = m
  <2>1. PICK j \in 1 .. Len(s) : s[j] = m
    BY <1>0, <1>2
  <2>2. j # i
    BY <1>2, <2>1
  <2>3. CASE j < i
    <3>1. j \in 1 .. Len(s) - 1
      BY <1>0, <2>3
    <3> QED  BY <2>1, <2>3, <3>1
  <2>4. CASE j > i
    <3>1. j - 1 \in 1 .. Len(r) /\ ~(j - 1 < i) /\ (j - 1) + 1 = j
      BY <1>0, <2>4
    <3>2. r[j - 1] = s[j]
      BY <3>1
    <3> QED  BY <2>1, <3>1, <3>2
  <2> QED  BY <1>0, <2>2, <2>3, <2>4
<1>3. Path(U, p, r)
  BY <1>1 DEF Path
<1> QED  BY <1>2, <1>3, PathIsList

\* and keeps its length with the exchange.
LEMMA ListReplaced ==
  ASSUME NEW T, NEW U, Sound(U), NEW p \in Node, NEW s, ListOf(T, p, s), NEW n \in Node,
         NEW i \in 1 .. Len(s), NEW r, Exchanged(s, i, n, r), SwapsKid(T, U, p, s, i, n)
  PROVE  ListOf(U, p, r)
<1> USE DEF Exchanged, SwapsKid
<1>0. /\ Len(s) \in Nat /\ i \in Nat
      /\ \A j \in 1 .. Len(s) : s[j] \in Node /\ T.prev[s[j]] = IF j > 1 THEN s[j - 1] ELSE Nil
      /\ \A m \in Node : T.parent[m] = p => \E j \in 1 .. Len(s) : s[j] = m
  BY ListPath
<1>1. ASSUME NEW j \in 1 .. Len(r)
      PROVE  U.parent[r[j]] = p /\ U.prev[r[j]] = IF j > 1 THEN r[j - 1] ELSE Nil
  <2>1. CASE j = i
    <3>1. j > 1 => r[j - 1] = s[j - 1]
      BY <1>0, <2>1
    <3> QED  BY <1>0, <2>1, <3>1
  <2>2. CASE j = i + 1
    <3>1. r[j] = s[j] /\ j # i /\ j > 1 /\ r[j - 1] = n
      BY <1>0, <2>2
    <3> QED  BY <1>0, <2>2, <3>1
  <2>3. CASE j # i /\ j # i + 1
    <3>1. r[j] = s[j] /\ (j > 1 => r[j - 1] = s[j - 1])
      BY <1>0, <2>3
    <3> QED  BY <1>0, <2>3, <3>1
  <2> QED  BY <2>1, <2>2, <2>3
<1>2. ASSUME NEW m \in Node, U.parent[m] = p
      PROVE  \E j \in 1 .. Len(r) : r[j] = m
  <2>1. CASE m = n
    BY <1>0, <2>1
  <2>2. CASE m # s[i] /\ T.parent[m] = p
    <3>1. PICK j \in 1 .. Len(s) : s[j] = m
      BY <1>0, <2>2
    <3> QED  BY <2>2, <3>1
  <2> QED  BY <1>2, <2>1, <2>2
<1>3. Path(U, p, r)
  BY <1>1 DEF Path
<1> QED  BY <1>2, <1>3, PathIsList

\* The community modules' operators on sequences make these changes.
LEMMA InsertAtIs ==
  ASSUME NEW s \in Seq(Node), NEW i \in 1 .. Len(s) + 1, NEW e \in Node
  PROVE  Inserted(s, i, e, Dom!InsertAt(s, i, e))
<1> DEFINE a == SubSeq(s, 1, i - 1)
           b == SubSeq(s, i, Len(s))
           r == Dom!InsertAt(s, i, e)
<1>0. Len(s) \in Nat /\ i \in Nat /\ \A j \in 1 .. Len(s) : s[j] \in Node
  OBVIOUS
<1>1. r = a \o <<e>> \o b
  BY DEF Dom!InsertAt
<1>2. a \in Seq(Node) /\ Len(a) = i - 1 /\ \A j \in 1 .. i - 1 : a[j] = s[j]
  <2>1. \A j \in 1 .. i - 1 : s[j] \in Node
    BY <1>0
  <2>2. /\ a \in Seq(Node) /\ Len(a) = IF 1 <= i - 1 THEN (i - 1) - 1 + 1 ELSE 0
        /\ \A j \in 1 .. (i - 1) - 1 + 1 : a[j] = s[1 + j - 1]
    BY <1>0, <2>1, SubSeqProperties
  <2>3. (i - 1) - 1 + 1 = i - 1 /\ \A j \in 1 .. i - 1 : 1 + j - 1 = j
    BY <1>0
  <2>4. Len(a) = i - 1
    BY <1>0, <2>2
  <2> QED  BY <2>2, <2>3, <2>4
<1>3. b \in Seq(Node) /\ Len(b) = Len(s) - i + 1 /\ \A j \in 1 .. Len(s) - i + 1 : b[j] = s[i + j - 1]
  <2>1. \A j \in i .. Len(s) : s[j] \in Node
    BY <1>0
  <2>2. /\ b \in Seq(Node) /\ Len(b) = IF i <= Len(s) THEN Len(s) - i + 1 ELSE 0
        /\ \A j \in 1 .. Len(s) - i + 1 : b[j] = s[i + j - 1]
    BY <1>0, <2>1, SubSeqProperties
  <2>3. Len(b) = Len(s) - i + 1
    BY <1>0, <2>2
  <2> QED  BY <2>2, <2>3
<1>4. <<e>> \in Seq(Node) /\ Len(<<e>>) = 1 /\ <<e>>[1] = e
  OBVIOUS
<1> DEFINE u == a \o <<e>>
<1>5. /\ u \in Seq(Node) /\ Len(u) = i
      /\ \A j \in 1 .. i : u[j] = IF j < i THEN s[j] ELSE e
  <2> HIDE DEF a
  <2>1. /\ u \in Seq(Node) /\ Len(u) = Len(a) + Len(<<e>>)
        /\ \A j \in 1 .. Len(a) + Len(<<e>>) : u[j] = IF j <= Len(a) THEN a[j] ELSE <<e>>[j - Len(a)]
    BY <1>2, <1>4, ConcatProperties
  <2>2. Len(a) + Len(<<e>>) = i
    BY <1>0, <1>2, <1>4
  <2> HIDE DEF u
  <2>3. ASSUME NEW j \in 1 .. i  PROVE u[j] = IF j < i THEN s[j] ELSE e
    <3>1. CASE j < i
      <4>1. j \in 1 .. i - 1 /\ j <= Len(a)
        BY <1>0, <1>2, <3>1
      <4> QED  BY <1>2, <2>1, <2>2, <3>1, <4>1
    <3>2. CASE j = i
      <4>1. ~(j <= Len(a)) /\ j - Len(a) = 1
        BY <1>0, <1>2, <3>2
      <4> QED  BY <1>4, <2>1, <2>2, <3>2, <4>1
    <3> QED  BY <1>0, <3>1, <3>2
  <2> QED  BY <2>1, <2>2, <2>3
<1> HIDE DEF a, b, u, r
<1>6. r = u \o b
  BY <1>1 DEF u
<1>7. /\ r \in Seq(Node) /\ Len(r) = Len(u) + Len(b)
      /\ \A j \in 1 .. Len(u) + Len(b) : r[j] = IF j <= Len(u) THEN u[j] ELSE b[j - Len(u)]
  BY <1>3, <1>5, <1>6, ConcatProperties
<1>8. Len(u) + Len(b) = Len(s) + 1
  BY <1>0, <1>3, <1>5
<1>9. ASSUME NEW j \in 1 .. Len(s) + 1
      PROVE  r[j] = IF j < i THEN s[j] ELSE IF j = i THEN e ELSE s[j - 1]
  <2>1. CASE j <= i
    <3>1. r[j] = u[j] /\ j \in 1 .. i
      BY <1>0, <1>5, <1>7, <1>8, <2>1
    <3> QED  BY <1>0, <1>5, <2>1, <3>1
  <2>2. CASE j > i
    <3>1. r[j] = b[j - i] /\ j - i \in 1 .. Len(s) - i + 1 /\ i + (j - i) - 1 = j - 1
      BY <1>0, <1>5, <1>7, <1>8, <2>2
    <3> QED  BY <1>0, <1>3, <2>2, <3>1
  <2> QED  BY <1>0, <2>1, <2>2
<1>10. r \in Seq(Node) /\ Len(r) = Len(s) + 1
  BY <1>7, <1>8
<1> QED  BY <1>9, <1>10 DEF r, Inserted

\* RemoveAt takes the i-th member out,
LEMMA RemoveAtIs ==
  ASSUME NEW s \in Seq(Node), NEW i \in 1 .. Len(s)
  PROVE  Taken(s, i, Dom!RemoveAt(s, i))
<1> DEFINE a == SubSeq(s, 1, i - 1)
           b == SubSeq(s, i + 1, Len(s))
           r == Dom!RemoveAt(s, i)
<1>0. Len(s) \in Nat /\ i \in Nat /\ \A j \in 1 .. Len(s) : s[j] \in Node
  OBVIOUS
<1>1. r = a \o b
  BY DEF Dom!RemoveAt
<1>2. a \in Seq(Node) /\ Len(a) = i - 1 /\ \A j \in 1 .. i - 1 : a[j] = s[j]
  <2>1. \A j \in 1 .. i - 1 : s[j] \in Node
    BY <1>0
  <2>2. /\ a \in Seq(Node) /\ Len(a) = IF 1 <= i - 1 THEN (i - 1) - 1 + 1 ELSE 0
        /\ \A j \in 1 .. (i - 1) - 1 + 1 : a[j] = s[1 + j - 1]
    BY <1>0, <2>1, SubSeqProperties
  <2>3. (i - 1) - 1 + 1 = i - 1 /\ \A j \in 1 .. i - 1 : 1 + j - 1 = j
    BY <1>0
  <2>4. Len(a) = i - 1
    BY <1>0, <2>2
  <2> QED  BY <2>2, <2>3, <2>4
<1>3. b \in Seq(Node) /\ Len(b) = Len(s) - i /\ \A j \in 1 .. Len(s) - i : b[j] = s[i + j]
  <2>1. \A j \in i + 1 .. Len(s) : s[j] \in Node
    BY <1>0
  <2>2. /\ b \in Seq(Node) /\ Len(b) = IF i + 1 <= Len(s) THEN Len(s) - (i + 1) + 1 ELSE 0
        /\ \A j \in 1 .. Len(s) - (i + 1) + 1 : b[j] = s[(i + 1) + j - 1]
    BY <1>0, <2>1, SubSeqProperties
  <2>3. Len(s) - (i + 1) + 1 = Len(s) - i /\ \A j \in 1 .. Len(s) - i : (i + 1) + j - 1 = i + j
    BY <1>0
  <2>4. Len(b) = Len(s) - i
    BY <1>0, <2>2
  <2> QED  BY <2>2, <2>3, <2>4
<1> HIDE DEF a, b, r
<1>4. /\ r \in Seq(Node) /\ Len(r) = Len(a) + Len(b)
      /\ \A j \in 1 .. Len(a) + Len(b) : r[j] = IF j <= Len(a) THEN a[j] ELSE b[j - Len(a)]
  BY <1>1, <1>2, <1>3, ConcatProperties
<1>5. Len(a) + Len(b) = Len(s) - 1
  BY <1>0, <1>2, <1>3
<1>6. ASSUME NEW j \in 1 .. Len(s) - 1
      PROVE  r[j] = IF j < i THEN s[j] ELSE s[j + 1]
  <2>1. CASE j < i
    <3>1. r[j] = a[j] /\ j \in 1 .. i - 1
      BY <1>0, <1>2, <1>4, <1>5, <2>1
    <3> QED  BY <1>2, <2>1, <3>1
  <2>2. CASE ~(j < i)
    <3>1. r[j] = b[j - (i - 1)] /\ j - (i - 1) \in 1 .. Len(s) - i /\ i + (j - (i - 1)) = j + 1
      BY <1>0, <1>2, <1>4, <1>5, <2>2
    <3> QED  BY <1>3, <2>2, <3>1
  <2> QED  BY <2>1, <2>2
<1>7. r \in Seq(Node) /\ Len(r) = Len(s) - 1
  BY <1>4, <1>5
<1> QED  BY <1>6, <1>7 DEF r, Taken

\* S holds all children of its nodes.
Closed(T, S) == \A x \in Node : T.parent[x] \in S => x \in S

\* The walk over the children of p is their list.
LEMMA KidsAre ==
  ASSUME NEW T, Sound(T), NEW p \in Node
  PROVE  /\ Children(T, p) \in Seq(Node) /\ ListOf(T, p, Children(T, p))
         /\ Range(Children(T, p)) = {m \in Node : T.parent[m] = p}
<1>1. PICK s \in Seq(Node) : ListOf(T, p, s)
  BY ChildrenListed
<1>2. Children(T, p) = s
  BY <1>1, ChildrenIs
<1>3. Len(s) \in Nat /\ DOMAIN s = 1 .. Len(s) /\ \A i \in 1 .. Len(s) : s[i] \in Node
  OBVIOUS
<1>4. ASSUME NEW n \in Range(s)  PROVE n \in Node /\ T.parent[n] = p
  <2>1. PICK i \in 1 .. Len(s) : n = s[i]
    BY <1>3 DEF Range
  <2> QED  BY <1>1, <1>3, <2>1 DEF ListOf
<1>5. ASSUME NEW n \in Node, T.parent[n] = p  PROVE n \in Range(s)
  <2>1. PICK i \in 1 .. Len(s) : n = s[i]
    BY <1>1, <1>5 DEF ListOf
  <2> QED  BY <1>3, <2>1 DEF Range
<1> QED  BY <1>1, <1>2, <1>4, <1>5

\* Forest's Below, a loop over the children of what it has met, is what deleting deletes:
\* each round adds a node or there is none to add.
LEMMA BelowIs ==
  ASSUME IInv, NEW n \in Node
  PROVE  Dom!Below(n) = Under(tree, n)
<1> DEFINE N == Cardinality(Node)
           below == [x \in Node |-> Range([y \in Node |-> Children(tree, y)][x])]
           Loops(at) == at = [i \in 0 .. N |->
               IF i = 0 THEN {n} ELSE at[i - 1] \union UNION {below[x] : x \in at[i - 1]}]
           upTo == CHOOSE at : Loops(at)
           step == [S \in SUBSET Node |-> S \union UNION {below[x] : x \in S}]
<1>1. Dom!Below(n) = upTo[N]
  <2>1. Dom!Cardinality(Node) = N
    BY DEF Dom!Cardinality, Cardinality
  <2> HIDE DEF N
  <2> QED  BY <2>1 DEF Dom!Below, Dom!Range, Range
<1>2. N \in Nat
  BY NodeAssumption, FS_CardinalityType
<1>3. \A x \in Node : below[x] = {m \in Node : tree.parent[m] = x}
  BY KidsAre DEF IInv
<1> HIDE DEF N, below
<1>4. step \in [SUBSET Node -> SUBSET Node]
  BY <1>3
<1>5. \E g : Loops(g)
  <2>1. PICK g : Iterates(g, N, SUBSET Node, {n}, step)
    <3> HIDE DEF step
    <3>1. {n} \in SUBSET Node
      OBVIOUS
    <3> QED  BY <1>2, <1>4, <3>1, IterExists
  <2>2. /\ g \in [0 .. N -> SUBSET Node]
        /\ \A i \in 0 .. N : g[i] = IF i = 0 THEN {n} ELSE step[g[i - 1]]
    <3> HIDE DEF step
    <3> QED  BY <2>1 DEF Iterates
  <2>3. \A i \in 0 .. N : i # 0 => i - 1 \in 0 .. N
    BY <1>2
  <2>4. \A i \in 0 .. N : i # 0 => g[i - 1] \in SUBSET Node
    BY <2>2, <2>3
  <2>5. \A S \in SUBSET Node : step[S] = S \union UNION {below[x] : x \in S}
    OBVIOUS
  <2>6. \A i \in 0 .. N : g[i] = IF i = 0 THEN {n} ELSE g[i - 1] \union UNION {below[x] : x \in g[i - 1]}
    <3> HIDE DEF step
    <3> QED  BY <2>2, <2>4, <2>5
  <2>7. Loops(g)
    BY <2>2, <2>6
  <2> HIDE DEF Loops
  <2> QED  BY <2>7
<1>6. Loops(upTo)
  <2> HIDE DEF Loops
  <2> QED  BY <1>5
<1> HIDE DEF upTo
<1>7. /\ upTo[0] = {n}
      /\ \A i \in 1 .. N : upTo[i] = upTo[i - 1] \union UNION {below[x] : x \in upTo[i - 1]}
  <2>1. \A i \in 0 .. N : upTo[i] = IF i = 0 THEN {n} ELSE upTo[i - 1] \union UNION {below[x] : x \in upTo[i - 1]}
    BY <1>6
  <2>2. 0 \in 0 .. N /\ \A i \in 1 .. N : i \in 0 .. N /\ i # 0
    BY <1>2
  <2> QED  BY <2>1, <2>2
<1> DEFINE Grown(i) == /\ n \in upTo[i] /\ upTo[i] \subseteq Under(tree, n)
                       /\ Closed(tree, upTo[i]) \/ Cardinality(upTo[i]) >= i + 1
           bad == {i \in 0 .. N : ~ Grown(i)}
<1>8. /\ n \in Under(tree, n) /\ Under(tree, n) \subseteq Node
      /\ \A x \in Node : tree.parent[x] \in Under(tree, n) => x \in Under(tree, n)
  BY UnderHolds
<1>9. bad = {}
  <2>1. SUFFICES ASSUME bad # {}  PROVE FALSE
    OBVIOUS
  <2>2. PICK i \in bad : \A j \in bad : i <= j
    <3> HIDE DEF bad
    <3>1. bad \subseteq Nat
      BY DEF bad
    <3> QED  BY <2>1, <3>1, LeastOf
  <2>3. i \in 0 .. N /\ ~ Grown(i)
    BY <2>2
  <2>4. CASE i = 0
    <3>1. Cardinality({n}) = 1
      BY FS_Singleton
    <3> QED  BY <1>7, <1>8, <2>3, <2>4, <3>1
  <2>5. CASE i # 0
    <3> DEFINE R == upTo[i - 1]
               S == upTo[i]
    <3>1. i \in 1 .. N /\ i - 1 \in 0 .. N /\ i - 1 \notin bad
      <4>1. i \in 1 .. N /\ i - 1 \in 0 .. N /\ ~(i <= i - 1)
        BY <1>2, <2>3, <2>5
      <4> HIDE DEF bad
      <4> QED  BY <2>2, <4>1
    <3>2. Grown(i - 1)
      BY <3>1
    <3>3. n \in R /\ R \subseteq Node
      BY <1>8, <3>2
    <3>4. S = R \union UNION {below[x] : x \in R}
      BY <1>7, <3>1
    <3>5. S \subseteq Under(tree, n) /\ n \in S
      <4>1. ASSUME NEW m \in S  PROVE m \in Under(tree, n)
        <5>1. CASE m \in R
          BY <3>2, <5>1
        <5>2. CASE m \notin R
          <6>1. PICK x \in R : m \in below[x]
            BY <3>4, <4>1, <5>2
          <6>2. m \in Node /\ tree.parent[m] = x
            BY <1>3, <3>3, <6>1
          <6> QED  BY <1>8, <3>2, <6>1, <6>2
        <5> QED  BY <5>1, <5>2
      <4> QED  BY <3>3, <3>4, <4>1
    <3>6. \A m \in Node : tree.parent[m] \in R => m \in S
      <4>1. ASSUME NEW m \in Node, tree.parent[m] \in R  PROVE m \in S
        <5>1. m \in below[tree.parent[m]]
          BY <1>3, <3>3, <4>1
        <5> QED  BY <3>4, <4>1, <5>1
      <4> QED  BY <4>1
    <3> HIDE DEF S, R
    <3>7. CASE Closed(tree, R)
      <4>1. S = R
        <5>1. ASSUME NEW x \in R, NEW m \in below[x]  PROVE m \in R
          <6>1. m \in Node /\ tree.parent[m] = x
            BY <1>3, <3>3, <5>1
          <6> QED  BY <3>7, <6>1 DEF Closed
        <5> QED  BY <3>4, <5>1
      <4>2. Closed(tree, S)
        BY <3>7, <4>1
      <4> QED  BY <2>3, <3>5, <4>2 DEF S
    <3>8. CASE ~Closed(tree, R)
      <4>1. PICK m \in Node : tree.parent[m] \in R /\ m \notin R
        BY <3>8 DEF Closed
      <4>2. m \in S /\ R \union {m} \subseteq S
        BY <3>4, <3>6, <4>1
      <4>3. IsFiniteSet(R) /\ IsFiniteSet(S) /\ Cardinality(R) \in Nat /\ Cardinality(S) \in Nat
        <5>1. R \in SUBSET Node /\ S \in SUBSET Node
          BY <1>8, <3>3, <3>5
        <5> QED  BY <5>1, NodeAssumption, FS_Subset, FS_CardinalityType
      <4>4. Cardinality(R \union {m}) = Cardinality(R) + 1
        BY <4>1, <4>3, FS_AddElement
      <4>5. Cardinality(R \union {m}) <= Cardinality(S)
        <5>1. R \union {m} \in SUBSET S
          BY <4>2
        <5> QED  BY <4>3, <5>1, FS_Subset
      <4>6. Cardinality(R) >= (i - 1) + 1
        BY <3>2, <3>8 DEF R
      <4>7. Cardinality(S) >= i + 1
        BY <3>1, <4>3, <4>4, <4>5, <4>6
      <4> QED  BY <2>3, <3>5, <4>7 DEF S
    <3> QED  BY <3>7, <3>8
  <2> QED  BY <2>4, <2>5
<1>10. Grown(N)
  <2>1. N \in 0 .. N
    BY <1>2
  <2>2. N \notin bad
    BY <1>9
  <2> HIDE DEF Grown
  <2> QED  BY <2>1, <2>2
<1>11. Closed(tree, upTo[N])
  <2>1. upTo[N] \in SUBSET Node
    BY <1>8, <1>10
  <2>2. Cardinality(upTo[N]) \in Nat /\ Cardinality(upTo[N]) <= N
    BY <2>1, NodeAssumption, FS_Subset, FS_CardinalityType DEF N
  <2> QED  BY <1>2, <1>10, <2>2
<1>12. Under(tree, n) \subseteq upTo[N]
  <2>1. upTo[N] \in SUBSET Node /\ n \in upTo[N]
    BY <1>8, <1>10
  <2>2. \A x \in Node : tree.parent[x] \in upTo[N] => x \in upTo[N]
    BY <1>11 DEF Closed
  <2> QED  BY <2>1, <2>2, UnderLeast
<1> QED  BY <1>1, <1>10, <1>12

\* What the client sees of the links: kinds and values stay, and of the parents and
\* predecessors these change.
LEMMA LinkEndFields ==
  ASSUME NEW T \in Trees, NEW p \in Node, NEW n \in Node, NEW U, U = LinkEndChild(T, p, n)
  PROVE  /\ U.kind = T.kind /\ U.name = T.name
         /\ \A m \in Node : /\ U.parent[m] = IF m = n THEN p ELSE T.parent[m]
                            /\ U.prev[m] = IF m = n THEN T.last[p] ELSE T.prev[m]
  BY TreeFields DEF LinkEndChild

\* The same for LinkBefore,
LEMMA LinkBeforeFields ==
  ASSUME NEW T \in Trees, NEW p \in Node, NEW b \in Node, NEW n \in Node, b # n,
         NEW U, U = LinkBefore(T, p, b, n)
  PROVE  /\ U.kind = T.kind /\ U.name = T.name
         /\ \A m \in Node : /\ U.parent[m] = IF m = n THEN p ELSE T.parent[m]
                            /\ U.prev[m] = IF m = n THEN T.prev[b] ELSE IF m = b THEN n ELSE T.prev[m]
  BY TreeFields DEF LinkBefore

\* LinkAfter,
LEMMA LinkAfterFields ==
  ASSUME NEW T \in Trees, NEW p \in Node, NEW a \in Node, NEW n \in Node, T.next[a] # n,
         NEW U, U = LinkAfter(T, p, a, n)
  PROVE  /\ U.kind = T.kind /\ U.name = T.name
         /\ \A m \in Node : /\ U.parent[m] = IF m = n THEN p ELSE T.parent[m]
                            /\ U.prev[m] = IF m = n THEN a ELSE IF m = T.next[a] THEN n ELSE T.prev[m]
  BY TreeFields, NilAssumption DEF LinkAfter, Put, Maybe

\* LinkInstead
LEMMA LinkInsteadFields ==
  ASSUME NEW T \in Trees, NEW p \in Node, NEW r \in Node, NEW n \in Node, T.next[r] # n,
         NEW U, U = LinkInstead(T, p, r, n)
  PROVE  /\ U.kind = T.kind /\ U.name = T.name
         /\ \A m \in Node : /\ U.parent[m] = IF m = n THEN p ELSE T.parent[m]
                            /\ U.prev[m] = IF m = n THEN T.prev[r] ELSE IF m = T.next[r] THEN n ELSE T.prev[m]
  BY TreeFields, NilAssumption DEF LinkInstead, Put, Maybe

\* and Unlink.
LEMMA UnlinkFields ==
  ASSUME NEW T \in Trees, NEW p \in Node, NEW r \in Node, NEW U, U = Unlink(T, p, r)
  PROVE  /\ U.kind = T.kind /\ U.name = T.name /\ U.parent = T.parent
         /\ \A m \in Node : U.prev[m] = IF m = T.next[r] THEN T.prev[r] ELSE T.prev[m]
  BY TreeFields, NilAssumption DEF Unlink, Put, Maybe

\* Linking n under p as the i-th child changes the children of p, and nobody else's.
LinksAt(T, U, p, s, i, n) ==
    /\ \A m \in Node : U.parent[m] = IF m = n THEN p ELSE T.parent[m]
    /\ U.prev[n] = IF i > 1 THEN s[i - 1] ELSE Nil
    /\ \A m \in Node \ {n} : U.prev[m] = IF i <= Len(s) /\ m = s[i] THEN n ELSE T.prev[m]

\* r becomes the children of p, and all others keep theirs.
KidsBecome(T, U, p, r) == \A q \in Node : Children(U, q) = IF q = p THEN r ELSE Children(T, q)

\* So it does: n is put into the list of p, and no other list changes.
LEMMA LinkedKids ==
  ASSUME NEW T, Sound(T), NEW U, Sound(U), NEW p \in Node, NEW n \in Node, T.parent[n] = Nil,
         NEW s, ListOf(T, p, s), NEW i \in 1 .. Len(s) + 1, LinksAt(T, U, p, s, i, n),
         NEW r, Inserted(s, i, n, r)
  PROVE  KidsBecome(T, U, p, r)
<1>0. \A m \in Node : U.parent[m] = IF m = n THEN p ELSE T.parent[m]
  BY DEF LinksAt
<1>1. /\ U.prev[n] = IF i > 1 THEN s[i - 1] ELSE Nil
      /\ \A m \in Node \ {n} : U.prev[m] = IF i <= Len(s) /\ m = s[i] THEN n ELSE T.prev[m]
  BY DEF LinksAt
<1>2. /\ Len(s) \in Nat
      /\ \A j \in 1 .. Len(s) : s[j] \in Node /\ T.parent[s[j]] = p
      /\ \A j, k \in 1 .. Len(s) : s[j] = s[k] => j = k
  BY ListPath
<1>3. ASSUME NEW j \in 1 .. Len(s)
      PROVE  U.parent[s[j]] = p /\ U.prev[s[j]] = IF j = i THEN n ELSE T.prev[s[j]]
  <2>1. s[j] \in Node /\ s[j] # n
    BY <1>2, NilAssumption
  <2>2. i <= Len(s) /\ s[j] = s[i] <=> j = i
    BY <1>2
  <2> QED  BY <1>0, <1>1, <1>2, <2>1, <2>2
<1>4. GainsKid(T, U, p, s, i, n)
  BY <1>0, <1>1, <1>3 DEF GainsKid
<1>5. ListOf(U, p, r)
  BY <1>4, ListGrown
<1>6. ASSUME NEW q \in Node \ {p}  PROVE Children(U, q) = Children(T, q)
  <2>1. ListOf(T, q, Children(T, q))
    BY KidsAre
  <2>2. \A m \in Node : U.parent[m] = q => T.parent[m] = q
    BY <1>0
  <2>3. ASSUME NEW m \in Node, T.parent[m] = q  PROVE U.parent[m] = q /\ U.prev[m] = T.prev[m]
    <3>1. m # n
      BY <2>3, NilAssumption
    <3>2. ~(i <= Len(s) /\ m = s[i])
      BY <1>2, <2>3
    <3> QED  BY <1>0, <1>1, <2>3, <3>1, <3>2
  <2>4. KeepsKids(T, U, q)
    BY <2>2, <2>3 DEF KeepsKids
  <2>5. ListOf(U, q, Children(T, q))
    BY <2>1, <2>4, ListKept
  <2> QED  BY <2>5, ChildrenIs
<1> QED  BY <1>5, <1>6, ChildrenIs DEF KidsBecome

\* LinkEndChild makes n the last child,
LEMMA LinkEndKids ==
  ASSUME NEW T, Sound(T), NEW p, NEW n, MayLink(T, p, n), NEW s, ListOf(T, p, s)
  PROVE  LinksAt(T, LinkEndChild(T, p, n), p, s, Len(s) + 1, n)
<1> DEFINE U == LinkEndChild(T, p, n)
<1>1. p \in Node /\ n \in Node /\ T \in Trees /\ T.prev \in [Node -> Maybe]
  BY TreeFields DEF MayLink, Sound
<1>2. \A m \in Node : /\ U.parent[m] = IF m = n THEN p ELSE T.parent[m]
                      /\ U.prev[m] = IF m = n THEN T.last[p] ELSE T.prev[m]
  BY <1>1, LinkEndFields
<1> HIDE DEF U
<1>3. Len(s) \in Nat /\ T.last[p] = IF Len(s) = 0 THEN Nil ELSE s[Len(s)]
  BY ListPath
<1>4. (Len(s) + 1 > 1 <=> Len(s) # 0) /\ (Len(s) + 1) - 1 = Len(s) /\ ~(Len(s) + 1 <= Len(s))
  BY <1>3
<1>5. LinksAt(T, U, p, s, Len(s) + 1, n)
  BY <1>1, <1>2, <1>3, <1>4 DEF LinksAt
<1> QED  BY <1>5 DEF U

\* InsertBeforeChild's links give it the place of b,
LEMMA LinkBeforeKids ==
  ASSUME NEW T, Sound(T), NEW p, NEW n, MayLink(T, p, n), NEW s, ListOf(T, p, s),
         NEW i \in 1 .. Len(s), NEW b, b = s[i]
  PROVE  LinksAt(T, LinkBefore(T, p, b, n), p, s, i, n)
<1> DEFINE U == LinkBefore(T, p, b, n)
<1>1. p \in Node /\ n \in Node /\ T \in Trees /\ T.prev \in [Node -> Maybe] /\ T.parent[n] = Nil
  BY TreeFields DEF MayLink, Sound
<1>2. /\ b \in Node /\ b # n /\ i <= Len(s) /\ i \in Nat
      /\ T.prev[b] = IF i > 1 THEN s[i - 1] ELSE Nil
  <2>1. b \in Node /\ T.parent[b] = p /\ i <= Len(s) /\ i \in Nat
        /\ T.prev[b] = IF i > 1 THEN s[i - 1] ELSE Nil
    BY ListPath
  <2> QED  BY <1>1, <2>1, NilAssumption
<1>3. \A m \in Node : /\ U.parent[m] = IF m = n THEN p ELSE T.parent[m]
                      /\ U.prev[m] = IF m = n THEN T.prev[b] ELSE IF m = b THEN n ELSE T.prev[m]
  BY <1>1, <1>2, LinkBeforeFields
<1> HIDE DEF U
<1>4. LinksAt(T, U, p, s, i, n)
  BY <1>1, <1>2, <1>3 DEF LinksAt
<1> QED  BY <1>4 DEF U

\* and InsertAfterChild's the one after it.
LEMMA LinkAfterKids ==
  ASSUME NEW T, Sound(T), NEW p, NEW n, MayLink(T, p, n), NEW s, ListOf(T, p, s),
         NEW i \in 1 .. Len(s), NEW b, b = s[i]
  PROVE  LinksAt(T, LinkAfter(T, p, b, n), p, s, i + 1, n)
<1> DEFINE U == LinkAfter(T, p, b, n)
<1>1. p \in Node /\ n \in Node /\ T \in Trees /\ T.prev \in [Node -> Maybe] /\ T.parent[n] = Nil
  BY TreeFields DEF MayLink, Sound
<1>2. /\ b \in Node /\ b # n /\ i <= Len(s) /\ i \in Nat /\ Len(s) \in Nat
      /\ T.next[b] = IF i < Len(s) THEN s[i + 1] ELSE Nil
  <2>1. b \in Node /\ T.parent[b] = p /\ i <= Len(s) /\ i \in Nat /\ Len(s) \in Nat
        /\ T.next[b] = IF i < Len(s) THEN s[i + 1] ELSE Nil
    BY ListPath
  <2> QED  BY <1>1, <2>1, NilAssumption
<1>4. (i + 1 <= Len(s) <=> i < Len(s)) /\ i + 1 > 1 /\ (i + 1) - 1 = i
  BY <1>2
<1>5. i < Len(s) => s[i + 1] \in Node /\ s[i + 1] # n
  <2>1. i < Len(s) => i + 1 \in 1 .. Len(s)
    BY <1>2
  <2> QED  BY <1>1, <2>1, ListPath, NilAssumption
<1>3. \A m \in Node : /\ U.parent[m] = IF m = n THEN p ELSE T.parent[m]
                      /\ U.prev[m] = IF m = n THEN b ELSE IF m = T.next[b] THEN n ELSE T.prev[m]
  <2>1. T.next[b] # n
    BY <1>1, <1>2, <1>5, NilAssumption
  <2> QED  BY <1>1, <1>2, <2>1, LinkAfterFields
<1> HIDE DEF U
<1>6. \A m \in Node \ {n} : U.prev[m] = IF i + 1 <= Len(s) /\ m = s[i + 1] THEN n ELSE T.prev[m]
  BY <1>1, <1>2, <1>3, <1>4, NilAssumption
<1>7. LinksAt(T, U, p, s, i + 1, n)
  BY <1>1, <1>2, <1>3, <1>4, <1>6 DEF LinksAt
<1> QED  BY <1>7 DEF U

\* Who is nobody's parent has no children.
LEMMA NoKids ==
  ASSUME NEW U, Sound(U), NEW q \in Node, \A m \in Node : U.parent[m] # q
  PROVE  Children(U, q) = << >>
<1>1. Path(U, q, << >>)
  BY DEF Path
<1>2. ListOf(U, q, << >>)
  BY <1>1, PathIsList
<1> QED  BY <1>2, ChildrenIs

\* Who keeps its children, keeps their order.
LEMMA KeptKids ==
  ASSUME NEW T, Sound(T), NEW U, Sound(U), NEW q \in Node, KeepsKids(T, U, q)
  PROVE  Children(U, q) = Children(T, q)
<1>1. ListOf(T, q, Children(T, q))
  BY KidsAre
<1>2. ListOf(U, q, Children(T, q))
  BY <1>1, ListKept
<1> QED  BY <1>2, ChildrenIs

\* What is below r stays below it when parents change elsewhere.
LEMMA UnderSame ==
  ASSUME NEW T, NEW U, NEW r \in Node,
         \A x \in Node : U.parent[x] \in Under(T, r) => x \in Under(T, r),
         \A x \in Node : T.parent[x] \in Under(T, r) => U.parent[x] = T.parent[x]
  PROVE  Under(U, r) = Under(T, r)
<1> DEFINE S == Under(T, r)
           B == Under(U, r)
<1>1. /\ r \in S /\ S \in SUBSET Node /\ \A x \in Node : T.parent[x] \in S => x \in S
      /\ r \in B /\ B \in SUBSET Node /\ \A x \in Node : U.parent[x] \in B => x \in B
  BY UnderHolds
<1>2. B \subseteq S
  BY <1>1, UnderLeast
<1>3. S \subseteq S \cap B
  <2>1. S \cap B \in SUBSET Node /\ r \in S \cap B
    BY <1>1
  <2>2. \A x \in Node : T.parent[x] \in S \cap B => x \in S \cap B
    <3> HIDE DEF S, B
    <3>1. ASSUME NEW x \in Node, T.parent[x] \in S \cap B  PROVE x \in S \cap B
      <4>1. T.parent[x] \in S /\ T.parent[x] \in B
        BY <3>1
      <4>2. U.parent[x] = T.parent[x]
        BY <4>1 DEF S
      <4> QED  BY <1>1, <4>1, <4>2
    <3> QED  BY <3>1
  <2> HIDE DEF B
  <2> QED  BY <2>1, <2>2, UnderLeast
<1> QED  BY <1>2, <1>3

\* What is below a child, and its parent and siblings, are apart.
LEMMA ApartFromChild ==
  ASSUME NEW T, Sound(T), NEW p \in Node, NEW r \in Node, T.parent[r] = p
  PROVE  /\ p \notin Under(T, r) /\ r \in Under(T, r)
         /\ \A m \in Node : T.parent[m] \in Under(T, r) => m \in Under(T, r)
         /\ \A m \in Under(T, r) : m \in Node /\ (m = r \/ T.parent[m] \in Under(T, r))
<1>1. Grounded(T.parent)
  BY DEF Sound
<1>2. T.parent[r] \notin Under(T, r)
  BY <1>1, NotUnderItself
<1>3. \A m \in Under(T, r) : m \in Node
  BY UnderHolds
<1>4. \A m \in Under(T, r) : m # r => T.parent[m] \in Under(T, r)
  BY UnderParent
<1> QED  BY <1>2, <1>3, <1>4, UnderHolds

\* The neighbours of the i-th child.
LEMMA NeighbourOf ==
  ASSUME NEW T, Sound(T), NEW p \in Node, NEW s, ListOf(T, p, s), NEW i \in 1 .. Len(s),
         NEW r, r = s[i]
  PROVE  /\ r \in Node /\ T.parent[r] = p
         /\ \A j \in 1 .. Len(s) : s[j] = T.next[r] <=> j = i + 1
         /\ \A j \in 1 .. Len(s) : j # i => s[j] # r
         /\ \A m \in Node : m = T.next[r] => T.parent[m] = p
<1>1. /\ s \in Seq(Node) /\ Len(s) \in Nat
      /\ \A j \in 1 .. Len(s) : s[j] \in Node /\ T.parent[s[j]] = p
      /\ \A j, k \in 1 .. Len(s) : s[j] = s[k] => j = k
      /\ T.next[r] = IF i < Len(s) THEN s[i + 1] ELSE Nil
  BY ListPath
<1>2. i < Len(s) => i + 1 \in 1 .. Len(s)
  BY <1>1
<1>3. \A j \in 1 .. Len(s) : s[j] = T.next[r] <=> j = i + 1
  BY <1>1, <1>2, NilAssumption
<1>4. \A m \in Node : m = T.next[r] => T.parent[m] = p
  BY <1>1, <1>2, NilAssumption
<1> QED  BY <1>1, <1>3, <1>4

\* Deleting, field by field.
LEMMA DeletedLinks ==
  ASSUME NEW T, NEW U, NEW D, Deleted(T, U, D)
  PROVE  \A m \in Node : /\ U.parent[m] = IF m \in D THEN Nil ELSE T.parent[m]
                         /\ U.prev[m] = IF m \in D THEN Nil ELSE T.prev[m]
  BY Zenon DEF Deleted

\* Kinds and values of T after the nodes of D were deleted.
Gone(T, D)     == Dom!Wiped(T.kind, D, "free")
Nameless(T, D) == Dom!Wiped(T.name, D, "")

\* The nodes deleted are free,
LEMMA DeletedKinds ==
  ASSUME NEW T, NEW U \in Trees, NEW D, Deleted(T, U, D)
  PROVE  U.kind = Gone(T, D)
<1>1. U.kind \in [Node -> Kinds \union {"free"}]
  BY DEF Trees
<1>2. \A n \in Node : U.kind[n] = (IF n \in D THEN "free" ELSE T.kind[n])
  BY Zenon DEF Deleted
<1> QED  BY <1>1, <1>2 DEF Gone, Dom!Wiped

\* and have no value.
LEMMA DeletedNames ==
  ASSUME NEW T, NEW U \in Trees, NEW D, Deleted(T, U, D)
  PROVE  U.name = Nameless(T, D)
<1>1. U.name \in [Node -> Name \union {""}]
  BY DEF Trees
<1>2. \A n \in Node : U.name[n] = (IF n \in D THEN "" ELSE T.name[n])
  BY Zenon DEF Deleted
<1> QED  BY <1>1, <1>2 DEF Nameless, Dom!Wiped

\* RemoveChild takes r from its parent's children, and those below r lose theirs.
LEMMA RemovedKids ==
  ASSUME NEW T, Sound(T), NEW p \in Node, NEW s, ListOf(T, p, s), NEW i \in 1 .. Len(s),
         NEW r, r = s[i], NEW t, Taken(s, i, t),
         NEW V, V = Unlink(T, p, r), NEW U, U = Delete(V, Under(V, r)), Sound(U)
  PROVE  /\ \A q \in Node : Children(U, q) = IF q \in Under(T, r) THEN << >>
                                             ELSE IF q = p THEN t ELSE Children(T, q)
         /\ U.kind = Gone(T, Under(T, r)) /\ U.name = Nameless(T, Under(T, r))
<1> DEFINE D == Under(T, r)
<1>1. /\ r \in Node /\ T.parent[r] = p
      /\ \A j \in 1 .. Len(s) : s[j] = T.next[r] <=> j = i + 1
      /\ \A j \in 1 .. Len(s) : j # i => s[j] # r
      /\ \A m \in Node : m = T.next[r] => T.parent[m] = p
  BY NeighbourOf
<1>2. /\ p \notin D /\ r \in D
      /\ \A m \in Node : T.parent[m] \in D => m \in D
      /\ \A m \in D : m \in Node /\ (m = r \/ T.parent[m] \in D)
  BY <1>1, ApartFromChild
<1>3. /\ V.kind = T.kind /\ V.name = T.name /\ V.parent = T.parent
      /\ \A m \in Node : V.prev[m] = IF m = T.next[r] THEN T.prev[r] ELSE T.prev[m]
  BY <1>1, UnlinkFields DEF Sound
<1>4. Under(V, r) = D
  BY <1>3 DEF Under
<1>5. V \in Trees
  BY <1>1, UnlinkSevered DEF Severed
<1>6. Deleted(V, U, D)
  BY <1>4, <1>5, DeleteFields
<1> HIDE DEF D
<1>7. \A m \in Node : /\ U.parent[m] = IF m \in D THEN Nil ELSE T.parent[m]
                      /\ U.prev[m] = IF m \in D THEN Nil
                                     ELSE IF m = T.next[r] THEN T.prev[r] ELSE T.prev[m]
  BY <1>3, <1>6, DeletedLinks
<1>13. U.kind = Gone(T, D) /\ U.name = Nameless(T, D)
  <2>1. U \in Trees
    BY DEF Sound
  <2>2. U.kind = Gone(V, D) /\ U.name = Nameless(V, D)
    BY <1>6, <2>1, DeletedKinds, DeletedNames
  <2> QED  BY <1>3, <2>2 DEF Gone, Nameless
<1>8. \A j \in 1 .. Len(s) : s[j] \in Node /\ T.parent[s[j]] = p
  BY ListPath
<1>9. Children(U, p) = t
  <2>1. ASSUME NEW j \in 1 .. Len(s), j # i
        PROVE  U.parent[s[j]] = p /\ U.prev[s[j]] = IF j = i + 1 THEN T.prev[s[i]] ELSE T.prev[s[j]]
    <3>1. s[j] \in Node /\ T.parent[s[j]] = p /\ s[j] # r /\ (s[j] = T.next[r] <=> j = i + 1)
      BY <1>1, <1>8, <2>1
    <3>2. s[j] \notin D
      BY <1>2, <3>1
    <3> QED  BY <1>7, <3>1, <3>2
  <2>2. ASSUME NEW m \in Node, U.parent[m] = p  PROVE m # s[i] /\ T.parent[m] = p
    BY <1>2, <1>7, <2>2, NilAssumption
  <2>3. LosesKid(T, U, p, s, i)
    BY <2>1, <2>2 DEF LosesKid
  <2>4. ListOf(U, p, t)
    BY <2>3, ListShrunk
  <2> QED  BY <2>4, ChildrenIs
<1>10. ASSUME NEW q \in D  PROVE Children(U, q) = << >>
  <2>1. \A m \in Node : U.parent[m] # q
    BY <1>2, <1>7, <1>10, NilAssumption
  <2> QED  BY <1>2, <1>10, <2>1, NoKids
<1>11. ASSUME NEW q \in Node \ D, q # p  PROVE Children(U, q) = Children(T, q)
  <2>1. ASSUME NEW m \in Node, T.parent[m] = q  PROVE U.parent[m] = q /\ U.prev[m] = T.prev[m]
    <3>1. m \notin D /\ m # T.next[r]
      BY <1>1, <1>2, <1>11, <2>1
    <3> QED  BY <1>7, <2>1, <3>1
  <2>2. \A m \in Node : U.parent[m] = q => T.parent[m] = q
    BY <1>7, NilAssumption
  <2>3. KeepsKids(T, U, q)
    BY <2>1, <2>2 DEF KeepsKids
  <2> QED  BY <2>3, KeptKids
<1>15. \A q \in Node : Children(U, q) = IF q \in D THEN << >> ELSE IF q = p THEN t ELSE Children(T, q)
  BY <1>2, <1>9, <1>10, <1>11
<1> QED  BY <1>13, <1>15 DEF D

\* ReplaceChild puts n in its place.
LEMMA ReplacedKids ==
  ASSUME NEW T, Sound(T), NEW p, NEW n, MayLink(T, p, n), NEW s, ListOf(T, p, s),
         NEW i \in 1 .. Len(s), NEW r, r = s[i], n \notin Under(T, r),
         NEW t, Exchanged(s, i, n, t),
         NEW V, V = LinkInstead(T, p, r, n), NEW U, U = Delete(V, Under(V, r)), Sound(U)
  PROVE  /\ \A q \in Node : Children(U, q) = IF q \in Under(T, r) THEN << >>
                                             ELSE IF q = p THEN t ELSE Children(T, q)
         /\ U.kind = Gone(T, Under(T, r)) /\ U.name = Nameless(T, Under(T, r))
<1> DEFINE D == Under(T, r)
<1>0. p \in Node /\ n \in Node /\ T \in Trees /\ T.parent[n] = Nil
  BY DEF MayLink, Sound
<1>1. /\ r \in Node /\ T.parent[r] = p
      /\ \A j \in 1 .. Len(s) : s[j] = T.next[r] <=> j = i + 1
      /\ \A j \in 1 .. Len(s) : j # i => s[j] # r
      /\ \A m \in Node : m = T.next[r] => T.parent[m] = p
  BY <1>0, NeighbourOf
<1>2. /\ p \notin D /\ r \in D
      /\ \A m \in Node : T.parent[m] \in D => m \in D
      /\ \A m \in D : m \in Node /\ (m = r \/ T.parent[m] \in D)
  BY <1>0, <1>1, ApartFromChild
<1>3. /\ V.kind = T.kind /\ V.name = T.name
      /\ \A m \in Node : /\ V.parent[m] = IF m = n THEN p ELSE T.parent[m]
                         /\ V.prev[m] = IF m = n THEN T.prev[r] ELSE IF m = T.next[r] THEN n ELSE T.prev[m]
  <2>1. T.next[r] # n
    BY <1>0, <1>1, NilAssumption
  <2> QED  BY <1>0, <1>1, <2>1, LinkInsteadFields
<1>4. Under(V, r) = D
  <2>1. \A x \in Node : V.parent[x] \in D => x \in D
    <3> HIDE DEF D
    <3> QED  BY <1>2, <1>3
  <2>2. \A x \in Node : T.parent[x] \in D => V.parent[x] = T.parent[x]
    <3>1. n \notin D
      OBVIOUS
    <3> HIDE DEF D
    <3> QED  BY <1>2, <1>3, <3>1
  <2> QED  BY <1>1, <2>1, <2>2, UnderSame
<1>5. V \in Trees
  BY <1>0, <1>1, LinkInsteadSevered DEF Severed
<1>6. Deleted(V, U, D)
  BY <1>4, <1>5, DeleteFields
<1>12. n \notin D
  OBVIOUS
<1> HIDE DEF D
<1>7. \A m \in Node : /\ U.parent[m] = IF m \in D THEN Nil ELSE IF m = n THEN p ELSE T.parent[m]
                      /\ U.prev[m] = IF m \in D THEN Nil ELSE IF m = n THEN T.prev[r]
                                     ELSE IF m = T.next[r] THEN n ELSE T.prev[m]
  BY <1>3, <1>6, DeletedLinks
<1>13. U.kind = Gone(T, D) /\ U.name = Nameless(T, D)
  <2>1. U \in Trees
    BY DEF Sound
  <2>2. U.kind = Gone(V, D) /\ U.name = Nameless(V, D)
    BY <1>6, <2>1, DeletedKinds, DeletedNames
  <2> QED  BY <1>3, <2>2 DEF Gone, Nameless
<1>8. \A j \in 1 .. Len(s) : s[j] \in Node /\ T.parent[s[j]] = p
  BY ListPath
<1>9. Children(U, p) = t
  <2>1. ASSUME NEW j \in 1 .. Len(s), j # i
        PROVE  U.parent[s[j]] = p /\ U.prev[s[j]] = IF j = i + 1 THEN n ELSE T.prev[s[j]]
    <3>1. s[j] \in Node /\ T.parent[s[j]] = p /\ s[j] # r /\ (s[j] = T.next[r] <=> j = i + 1)
      BY <1>1, <1>8, <2>1
    <3>2. s[j] \notin D /\ s[j] # n
      BY <1>0, <1>2, <3>1, NilAssumption
    <3> QED  BY <1>7, <3>1, <3>2
  <2>2. ASSUME NEW m \in Node, U.parent[m] = p  PROVE m = n \/ (m # s[i] /\ T.parent[m] = p)
    BY <1>0, <1>2, <1>7, <2>2, NilAssumption
  <2>3. U.parent[n] = p /\ U.prev[n] = T.prev[s[i]]
    BY <1>0, <1>7, <1>12
  <2>4. SwapsKid(T, U, p, s, i, n)
    BY <2>1, <2>2, <2>3 DEF SwapsKid
  <2>5. ListOf(U, p, t)
    BY <1>0, <2>4, ListReplaced
  <2> QED  BY <2>5, ChildrenIs
<1>10. ASSUME NEW q \in D  PROVE Children(U, q) = << >>
  <2>1. \A m \in Node : U.parent[m] # q
    BY <1>0, <1>2, <1>7, <1>10, NilAssumption
  <2> QED  BY <1>2, <1>10, <2>1, NoKids
<1>11. ASSUME NEW q \in Node \ D, q # p  PROVE Children(U, q) = Children(T, q)
  <2>1. ASSUME NEW m \in Node, T.parent[m] = q  PROVE U.parent[m] = q /\ U.prev[m] = T.prev[m]
    <3>1. m \notin D /\ m # T.next[r] /\ m # n
      BY <1>0, <1>1, <1>2, <1>11, <2>1, NilAssumption
    <3> QED  BY <1>7, <2>1, <3>1
  <2>2. \A m \in Node : U.parent[m] = q => T.parent[m] = q
    BY <1>7, <1>11, NilAssumption
  <2>3. KeepsKids(T, U, q)
    BY <2>1, <2>2 DEF KeepsKids
  <2> QED  BY <2>3, KeptKids
<1>15. \A q \in Node : Children(U, q) = IF q \in D THEN << >> ELSE IF q = p THEN t ELSE Children(T, q)
  BY <1>2, <1>9, <1>10, <1>11
<1> QED  BY <1>13, <1>15 DEF D

\* From T to U the nodes of D are deleted, which are the children of those in S, and roots.
Wipes(T, U, S, D) ==
    /\ S \subseteq Node /\ D \subseteq Node
    /\ \A m \in Node : T.parent[m] \in S => m \in D
    /\ \A m \in D : T.parent[m] \in S \union {Nil}
    /\ \A m \in Node : /\ U.parent[m] = IF m \in D THEN Nil ELSE T.parent[m]
                       /\ U.prev[m] = IF m \in D THEN Nil ELSE T.prev[m]

\* Then who is in S has no children left, and the others keep theirs.
LEMMA WipedKids ==
  ASSUME NEW T, Sound(T), NEW U, Sound(U), NEW S, NEW D, Wipes(T, U, S, D)
  PROVE  \A q \in Node : Children(U, q) = IF q \in S THEN << >> ELSE Children(T, q)
<1>1. ASSUME NEW q \in S  PROVE Children(U, q) = << >>
  <2>1. \A m \in Node : U.parent[m] # q
    BY <1>1, NilAssumption DEF Wipes
  <2> QED  BY <1>1, <2>1, NoKids DEF Wipes
<1>2. ASSUME NEW q \in Node \ S  PROVE Children(U, q) = Children(T, q)
  <2>1. ASSUME NEW m \in Node, T.parent[m] = q  PROVE U.parent[m] = q /\ U.prev[m] = T.prev[m]
    <3>1. m \notin D
      BY <1>2, <2>1, NilAssumption DEF Wipes
    <3> QED  BY <2>1, <3>1 DEF Wipes
  <2>2. \A m \in Node : U.parent[m] = q => T.parent[m] = q
    BY NilAssumption DEF Wipes
  <2>3. KeepsKids(T, U, q)
    BY <2>1, <2>2 DEF KeepsKids
  <2> QED  BY <2>3, KeptKids
<1> QED  BY <1>1, <1>2

\* Deleting a root leaves its tree's nodes without children.
LEMMA DeletedKids ==
  ASSUME NEW T, Sound(T), NEW n \in Node, T.parent[n] = Nil,
         NEW U, U = Delete(T, Under(T, n)), Sound(U)
  PROVE  /\ \A q \in Node : Children(U, q) = IF q \in Under(T, n) THEN << >> ELSE Children(T, q)
         /\ U.kind = Gone(T, Under(T, n)) /\ U.name = Nameless(T, Under(T, n))
<1> DEFINE D == Under(T, n)
<1>1. /\ T \in Trees /\ U \in Trees /\ D \in SUBSET Node
      /\ \A m \in Node : T.parent[m] \in D => m \in D
      /\ \A m \in D : m = n \/ T.parent[m] \in D
  <2>1. \A m \in D : m # n => T.parent[m] \in D
    BY UnderParent
  <2> QED  BY <2>1, UnderHolds DEF Sound
<1>2. Deleted(T, U, D)
  BY <1>1, DeleteFields
<1>3. U.kind = Gone(T, D) /\ U.name = Nameless(T, D)
  BY <1>1, <1>2, DeletedKinds, DeletedNames
<1> HIDE DEF D
<1>4. \A m \in Node : /\ U.parent[m] = IF m \in D THEN Nil ELSE T.parent[m]
                      /\ U.prev[m] = IF m \in D THEN Nil ELSE T.prev[m]
  BY <1>2, DeletedLinks
<1>5. \A m \in D : T.parent[m] \in D \union {Nil}
  BY <1>1
<1>6. \A q \in Node : Children(U, q) = IF q \in D THEN << >> ELSE Children(T, q)
  <2>1. Wipes(T, U, D, D)
    BY <1>1, <1>4, <1>5 DEF Wipes
  <2> QED  BY <2>1, WipedKids
<1> QED  BY <1>3, <1>6 DEF D

\* Clear leaves p without children, and those that were below it.
LEMMA ClearedKids ==
  ASSUME NEW T, Sound(T), NEW p \in Node, NEW U, U = Clear(T, p)
  PROVE  /\ Sound(U)
         /\ \A q \in Node : Children(U, q) = IF q \in Under(T, p) THEN << >> ELSE Children(T, q)
         /\ U.kind = Gone(T, Under(T, p) \ {p}) /\ U.name = Nameless(T, Under(T, p) \ {p})
         /\ \A m \in Node : U.parent[m] = IF m \in Under(T, p) \ {p} THEN Nil ELSE T.parent[m]
<1> DEFINE S == Under(T, p)
           D == S \ {p}
           V == Delete(T, D)
<1>1. /\ T \in Trees /\ p \in S /\ T.parent[p] \notin S /\ S \in SUBSET Node
      /\ \A x \in Node : T.parent[x] \in S => x \in S
      /\ \A x \in S : x # p => T.parent[x] \in S
  BY UnderHolds, NotUnderItself, UnderParent DEF Sound
<1>2. Sound(U)
  BY ClearSound
<1>3. U = [V EXCEPT !.first[p] = Nil, !.last[p] = Nil]
  BY DEF Clear
<1> HIDE DEF S
<1>4. Deleted(T, V, D)
  BY <1>1, DeleteFields
<1> HIDE DEF V
<1>5. V \in Trees
  BY <1>4 DEF Deleted
<1>6. U.kind = V.kind /\ U.name = V.name /\ U.parent = V.parent /\ U.prev = V.prev
  BY <1>3, <1>5 DEF Trees
<1> HIDE DEF D
<1>7. V.kind = Gone(T, D) /\ V.name = Nameless(T, D)
  BY <1>4, <1>5, DeletedKinds, DeletedNames
<1>8. \A m \in Node : /\ U.parent[m] = IF m \in D THEN Nil ELSE T.parent[m]
                      /\ U.prev[m] = IF m \in D THEN Nil ELSE T.prev[m]
  BY <1>4, <1>6, DeletedLinks
<1>9. /\ D \in SUBSET Node /\ \A m \in Node : T.parent[m] \in S => m \in D
      /\ \A m \in D : T.parent[m] \in S \union {Nil}
  BY <1>1 DEF D
<1>10. \A q \in Node : Children(U, q) = IF q \in S THEN << >> ELSE Children(T, q)
  <2>1. Wipes(T, U, S, D)
    BY <1>1, <1>8, <1>9 DEF Wipes
  <2> QED  BY <1>2, <2>1, WipedKids
<1> QED  BY <1>2, <1>6, <1>7, <1>8, <1>10 DEF D, S

\* CopyTo copies the sequences of children along c.
LEMMA CopiedKids ==
  ASSUME NEW T, Sound(T), NEW a, NEW c, MayCopy(T, a, c), NEW U, U = CopyTo(T, a, c)
  PROVE  /\ \A x \in Under(T, a) : Children(U, c[x]) = Dom!Map(c, Children(T, x))
         /\ \A m \in Node \ Range(c) : Children(U, m) = Children(T, m)
<1> DEFINE S == Under(T, a)
           Fresh == {c[x] : x \in S \ {a}}
<1>0. /\ T \in Trees /\ a \in S /\ S \in SUBSET Node /\ c \in [S -> Node] /\ IsInjective(c)
      /\ a \in Node
  BY UnderHolds DEF Sound, MayCopy
<1>1. CopyOf(T, U, a, c)
  BY <1>0, CopyFields
<1>2. Sound(U)
  BY CopySound
<1>3. ASSUME NEW n \in Fresh
      PROVE  T.parent[n] = Nil /\ n \in Node /\ \A m \in Node : T.parent[m] # n
  BY <1>0, FreeAlone DEF MayCopy
<1>4. /\ T.parent[a] \notin S
      /\ \A x \in S \ {a} : T.parent[x] \in S
      /\ \A x \in Node : T.parent[x] \in S => x \in S
  BY <1>0, UnderParent, NotUnderItself, UnderHolds DEF Sound
<1>5. \A m \in Node : T.parent[m] # c[a]
  BY DEF MayCopy
<1>6. /\ \A x \in S \ {a} : /\ U.parent[c[x]] = Image(c, T.parent[x])
                            /\ U.prev[c[x]] = Image(c, T.prev[x])
      /\ \A m \in Node \ Fresh : U.parent[m] = T.parent[m] /\ U.prev[m] = T.prev[m]
  BY <1>0, <1>1 DEF CopyOf
<1>7. \A x \in S : \A y \in S : c[x] = c[y] => x = y
  BY <1>0 DEF IsInjective
<1>8. /\ \A n \in Fresh : \E x \in S \ {a} : n = c[x]
      /\ \A x \in S \ {a} : c[x] \in Fresh
      /\ \A n \in Range(c) : \E x \in S : n = c[x]
      /\ \A x \in S : c[x] \in Range(c) /\ c[x] \in Node
      /\ DOMAIN c = S /\ Nil \notin S
  BY <1>0, NilAssumption DEF Range
<1> HIDE DEF S, Fresh
<1>9. ASSUME NEW x \in S  PROVE Children(U, c[x]) = Dom!Map(c, Children(T, x))
  <2> DEFINE s == Children(T, x)
             r == Dom!Map(c, s)
  <2>1. ListOf(T, x, s)
    BY <1>0, <1>9, KidsAre
  <2>2. /\ s \in Seq(Node) /\ Len(s) \in Nat
        /\ \A i \in 1 .. Len(s) : s[i] \in Node /\ T.parent[s[i]] = x
                                  /\ T.prev[s[i]] = IF i > 1 THEN s[i - 1] ELSE Nil
        /\ \A n \in Node : T.parent[n] = x => \E i \in 1 .. Len(s) : s[i] = n
    BY <2>1, ListPath
  <2> HIDE DEF s
  <2>3. \A i \in 1 .. Len(s) : s[i] \in S \ {a}
    BY <1>4, <1>9, <2>2
  <2>4. r \in Seq(Node) /\ Len(r) = Len(s) /\ \A i \in 1 .. Len(s) : r[i] = c[s[i]]
    <3>1. r = [i \in 1 .. Len(s) |-> c[s[i]]]
      BY <2>2 DEF Dom!Map
    <3>2. \A i \in 1 .. Len(s) : c[s[i]] \in Node
      BY <1>8, <2>3
    <3> HIDE DEF r
    <3> QED  BY <2>2, <3>1, <3>2
  <2> HIDE DEF r
  <2>5. ASSUME NEW i \in 1 .. Len(r)
        PROVE  U.parent[r[i]] = c[x] /\ U.prev[r[i]] = IF i > 1 THEN r[i - 1] ELSE Nil
    <3>1. i \in 1 .. Len(s) /\ s[i] \in S \ {a} /\ r[i] = c[s[i]]
      BY <2>3, <2>4
    <3>2. U.parent[r[i]] = c[x]
      BY <1>6, <1>8, <1>9, <2>2, <3>1 DEF Image
    <3>3. CASE i > 1
      <4>1. i - 1 \in 1 .. Len(s)
        BY <2>2, <3>1, <3>3
      <4>2. T.prev[s[i]] = s[i - 1] /\ s[i - 1] \in S /\ r[i - 1] = c[s[i - 1]]
        BY <2>2, <2>3, <2>4, <3>1, <3>3, <4>1
      <4> QED  BY <1>6, <1>8, <3>1, <3>2, <3>3, <4>2 DEF Image
    <3>4. CASE ~(i > 1)
      <4>1. T.prev[s[i]] = Nil
        BY <2>2, <3>1, <3>4
      <4> QED  BY <1>6, <1>8, <3>1, <3>2, <3>4, <4>1 DEF Image
    <3> QED  BY <3>3, <3>4
  <2>6. Path(U, c[x], r)
    BY <2>4, <2>5 DEF Path
  <2>7. ASSUME NEW m \in Node, U.parent[m] = c[x]  PROVE \E i \in 1 .. Len(r) : r[i] = m
    <3>1. m \in Fresh
      <4>1. CASE x = a
        BY <1>5, <1>6, <2>7, <4>1
      <4>2. CASE x # a
        BY <1>3, <1>6, <1>8, <1>9, <2>7, <4>2
      <4> QED  BY <4>1, <4>2
    <3>2. PICK y \in S \ {a} : m = c[y]
      BY <1>8, <3>1
    <3>3. T.parent[y] = x
      BY <1>4, <1>6, <1>7, <1>8, <1>9, <2>7, <3>2 DEF Image
    <3>4. PICK i \in 1 .. Len(s) : s[i] = y
      BY <1>0, <2>2, <3>2, <3>3
    <3> QED  BY <2>4, <3>2, <3>4
  <2>8. ListOf(U, c[x], r)
    BY <1>2, <1>8, <1>9, <2>6, <2>7, PathIsList
  <2>9. Children(U, c[x]) = r
    BY <2>8, ChildrenIs
  <2> QED  BY <2>9 DEF r, s
<1>10. ASSUME NEW q \in Node \ Range(c)  PROVE Children(U, q) = Children(T, q)
  <2>1. ASSUME NEW m \in Node, T.parent[m] = q  PROVE U.parent[m] = q /\ U.prev[m] = T.prev[m]
    <3>1. m \notin Fresh
      BY <1>3, <2>1, NilAssumption
    <3> QED  BY <1>6, <2>1, <3>1
  <2>2. ASSUME NEW m \in Node, U.parent[m] = q  PROVE T.parent[m] = q
    <3>1. m \notin Fresh
      <4>1. SUFFICES ASSUME m \in Fresh  PROVE FALSE
        OBVIOUS
      <4>2. PICK y \in S \ {a} : m = c[y]
        BY <1>8, <4>1
      <4>3. q = c[T.parent[y]] /\ T.parent[y] \in S
        BY <1>4, <1>6, <1>8, <2>2, <4>2 DEF Image
      <4> QED  BY <1>8, <1>10, <4>3
    <3> QED  BY <1>6, <2>2, <3>1
  <2>3. KeepsKids(T, U, q)
    BY <2>1, <2>2 DEF KeepsKids
  <2> QED  BY <1>2, <2>3, KeptKids
<1> QED  BY <1>9, <1>10 DEF S

-----------------------------------------------------------------------------
(* The refinement of Forest.                                               *)

\* The refinement mapping's children.
KidsOf(T) == [n \in Node |-> Children(T, n)]

\* The same nodes are live,
LEMMA DomLive == Dom!Live = Live(tree)
  BY DEF Dom!Live, Live, Free

\* and the same are roots.
LEMMA DomRoot ==
  ASSUME IInv, NEW n \in Node
  PROVE  Dom!IsRoot(n) <=> IsRoot(tree, n)
<1>1. \A p \in Node : Dom!Range(Children(tree, p)) = {m \in Node : tree.parent[m] = p}
  <2>1. \A f : Dom!Range(f) = Range(f)
    BY DEF Dom!Range, Range
  <2> QED  BY <2>1, KidsAre DEF IInv
<1>2. tree.parent[n] \in Maybe
  BY TreeFields DEF IInv, Sound
<1>3. (\A p \in Node : n \notin Dom!Range(Children(tree, p))) <=> tree.parent[n] = Nil
  BY <1>1, <1>2, NilAssumption DEF Maybe
<1>4. Dom!IsRoot(n) <=> n \in Dom!Live /\ \A p \in Node : n \notin Dom!Range(Children(tree, p))
  BY DEF Dom!IsRoot
<1> QED  BY <1>3, <1>4, DomLive DEF IsRoot

\* Children depend on two of the links.
LEMMA SameKids ==
  ASSUME NEW T, NEW U, U.first = T.first, U.next = T.next
  PROVE  KidsOf(U) = KidsOf(T)
  BY DEF KidsOf, Children

\* At first no node has children.
LEMMA ForestInit == TreeInit => Dom!Init
<1> SUFFICES ASSUME TreeInit  PROVE Dom!Init
  OBVIOUS
<1>1. /\ tree.kind = [n \in Node |-> "free"] /\ tree.name = [n \in Node |-> ""]
      /\ \A n \in Node : tree.parent[n] = Nil
  BY DEF TreeInit, NoTree
<1>2. \A n \in Node : Children(tree, n) = << >>
  BY <1>1, SoundInit, NoKids, NilAssumption DEF IInv
<1>3. [n \in Node |-> Children(tree, n)] = [n \in Node |-> << >>]
  BY <1>2
<1>4. tree.kind \in [Node -> {"free", "document"}]
  BY <1>1
<1> QED  BY <1>1, <1>3, <1>4 DEF Dom!Init

\* One lemma for each call: it is a step of Forest. New,
LEMMA ForestNew == IInv /\ New => Dom!Next
<1> SUFFICES ASSUME IInv, NEW n \in Free(tree), NEW k \in Kinds, NEW v \in Name,
                    tree' = NewNode(tree, n, k, v)
             PROVE  Dom!Next
  BY DEF New
<1>1. tree \in Trees
  BY DEF IInv, Sound
<1>2. /\ tree'.kind = [tree.kind EXCEPT ![n] = k] /\ tree'.name = [tree.name EXCEPT ![n] = v]
      /\ tree'.first = tree.first /\ tree'.next = tree.next
  BY <1>1 DEF NewNode, Trees
<1>3. KidsOf(tree') = KidsOf(tree)
  BY <1>2, SameKids
<1>4. n \in Node \ Dom!Live /\ k \in {"document", "element", "leaf"}
  BY DomLive DEF Live, Free, Kinds
<1>5. Dom!New
  <2>1. [x \in Node |-> Children(tree', x)] = [x \in Node |-> Children(tree, x)]
    BY <1>3 DEF KidsOf
  <2> n \in Node \ Dom!Live /\ k \in {"document", "element", "leaf"}
    BY <1>4
  <2>2. /\ tree.kind' = [tree.kind EXCEPT ![n] = k] /\ tree.name' = [tree.name EXCEPT ![n] = v]
        /\ [x \in Node |-> Children(tree, x)]' = [x \in Node |-> Children(tree, x)]
    BY <1>2, <2>1
  <2> SUFFICES \E m \in Node \ Dom!Live, l \in {"document", "element", "leaf"}, w \in Name :
                   /\ tree.kind' = [tree.kind EXCEPT ![m] = l]
                   /\ tree.name' = [tree.name EXCEPT ![m] = w]
                   /\ [x \in Node |-> Children(tree, x)]' = [x \in Node |-> Children(tree, x)]
    BY DEF Dom!New
  <2> WITNESS n \in Node \ Dom!Live, k \in {"document", "element", "leaf"}, v \in Name
  <2> QED  BY <2>2
<1> QED  BY <1>5 DEF Dom!Next

\* the calls that only set or clear an error,
LEMMA ForestErrors == IInv /\ (InsertDocument \/ ClearError) => UNCHANGED Dom!fvars
<1> SUFFICES ASSUME IInv, InsertDocument \/ ClearError  PROVE UNCHANGED Dom!fvars
  OBVIOUS
<1>1. tree \in Trees
  BY DEF IInv, Sound
<1>2. PICK e : tree' = [tree EXCEPT !.error = e]
  <2>1. CASE InsertDocument
    BY <2>1 DEF InsertDocument, SetError
  <2>2. CASE ClearError
    <3>1. PICK d \in Live(tree) : tree' = [tree EXCEPT !.error[d] = FALSE]
      BY <2>2 DEF ClearError
    <3> QED  BY <1>1, <3>1 DEF Trees
  <2> QED  BY <2>1, <2>2
<1>3. /\ tree'.kind = tree.kind /\ tree'.name = tree.name
      /\ tree'.first = tree.first /\ tree'.next = tree.next
  BY <1>1, <1>2 DEF Trees
<1>4. KidsOf(tree') = KidsOf(tree)
  BY <1>3, SameKids
<1> QED  BY <1>3, <1>4 DEF Dom!fvars, KidsOf

\* and Append puts a new one behind the last,
LEMMA AppendIs ==
  ASSUME NEW s \in Seq(Node), NEW n \in Node
  PROVE  Inserted(s, Len(s) + 1, n, Append(s, n))
<1>1. /\ Len(s) \in Nat /\ Append(s, n) \in Seq(Node) /\ Len(Append(s, n)) = Len(s) + 1
      /\ \A j \in 1 .. Len(s) + 1 : Append(s, n)[j] = IF j = Len(s) + 1 THEN n ELSE s[j]
  OBVIOUS
<1>2. \A j \in 1 .. Len(s) + 1 : (j < Len(s) + 1 <=> j # Len(s) + 1)
  BY <1>1
<1> QED  BY <1>1, <1>2 DEF Inserted

\* LinkEndChild,
LEMMA ForestLink == IInv /\ Link => Dom!Next
<1> SUFFICES ASSUME IInv, NEW p \in Parents(tree), NEW n \in Node,
                    IsRoot(tree, n), tree.kind[n] # "document", p \notin Under(tree, n),
                    tree' = LinkEndChild(tree, p, n)
             PROVE  Dom!Next
  BY DEF Link
<1> DEFINE s == Children(tree, p)
<1>1. p \in Live(tree) /\ p \in Node
  BY DEF Parents, Live
<1>2. MayLink(tree, p, n)
  <2>1. tree.kind[p] \in {"document", "element"}
    BY <1>1, ParentKind DEF IInv
  <2>2. tree.kind[n] \in {"element", "leaf"}
    BY TreeFields DEF IInv, Sound, IsRoot, Live, Free, Kinds
  <2> QED  BY <1>1, <2>1, <2>2 DEF MayLink, IsRoot
<1>3. Sound(tree')
  BY <1>2, LinkEndSound DEF IInv
<1>4. s \in Seq(Node) /\ ListOf(tree, p, s)
  BY <1>1, KidsAre DEF IInv
<1>5. Len(s) \in Nat /\ Len(s) + 1 \in 1 .. Len(s) + 1
  BY <1>4
<1>6. LinksAt(tree, tree', p, s, Len(s) + 1, n) /\ tree.parent[n] = Nil
  BY <1>2, <1>4, LinkEndKids DEF IInv, MayLink
<1>7. Inserted(s, Len(s) + 1, n, Append(s, n))
  BY <1>4, AppendIs
<1>8. KidsBecome(tree, tree', p, Append(s, n))
  <2> HIDE DEF s
  <2>1. Sound(tree) /\ n \in Node
    BY <1>2 DEF IInv, MayLink
  <2> QED  BY <1>1, <1>3, <1>4, <1>5, <1>6, <1>7, <2>1, LinkedKids
<1>9. KidsOf(tree') = [KidsOf(tree) EXCEPT ![p] = Append(s, n)]
  <2> HIDE DEF s
  <2> QED  BY <1>1, <1>8 DEF KidsBecome, KidsOf
<1>10. KidsOf(tree') = [KidsOf(tree) EXCEPT ![p] = Append(@, n)]
  BY <1>1, <1>9 DEF KidsOf
<1>11. tree'.kind = tree.kind /\ tree'.name = tree.name
  BY <1>1, LinkEndFields DEF IInv, Sound
<1>12. p \in Dom!Live /\ Dom!IsRoot(n)
  BY <1>1, DomLive, DomRoot
<1>13. Dom!Link
  BY <1>10, <1>11, <1>12 DEF Dom!Link, KidsOf
<1> QED  BY <1>13 DEF Dom!Next

\* g is f copied along c.
LEMMA CopiedIs ==
  ASSUME NEW S, NEW c \in [S -> Node], IsInjective(c), NEW f, NEW g, g = [m \in Node |-> g[m]],
         \A x \in S : g[c[x]] = f[x], \A m \in Node \ Range(c) : g[m] = f[m]
  PROVE  g = Dom!Copied(f, c)
<1>1. Dom!Image(c) = Range(c)
  BY DEF Dom!Image, Range
<1>2. ASSUME NEW m \in Range(c)  PROVE g[m] = f[Dom!Source(c, m)]
  <2>1. PICK x \in S : m = c[x]
    BY DEF Range
  <2> QED  BY <2>1, SourceOf DEF Dom!Source
<1>3. Dom!Copied(f, c) = [m \in Node |-> IF m \in Range(c) THEN f[Dom!Source(c, m)] ELSE f[m]]
  BY <1>1 DEF Dom!Copied
<1>4. \A m \in Node : g[m] = IF m \in Range(c) THEN f[Dom!Source(c, m)] ELSE f[m]
  BY <1>2
<1> QED  BY <1>3, <1>4

\* CopyTo copies kinds and values, and leaves the other nodes where they are.
LEMMA CopiedValues ==
  ASSUME NEW T, Sound(T), NEW a, NEW c, MayCopy(T, a, c), NEW U, U = CopyTo(T, a, c)
  PROVE  /\ U.kind = Dom!Copied(T.kind, c) /\ U.name = Dom!Copied(T.name, c)
         /\ \A m \in Node \ Range(c) : U.parent[m] = T.parent[m]
<1> DEFINE S == Under(T, a)
<1>1. T \in Trees /\ S \in SUBSET Node /\ a \in S /\ c \in [S -> Node] /\ IsInjective(c) /\ DOMAIN c = S
  BY UnderHolds DEF Sound, MayCopy
<1>2. CopyOf(T, U, a, c)
  BY <1>1, CopyFields
<1> HIDE DEF S
<1>3. U.kind = [m \in Node |-> U.kind[m]] /\ U.name = [m \in Node |-> U.name[m]]
  BY <1>2, TreeFields DEF CopyOf, Trees
<1>4. /\ \A x \in S : U.kind[c[x]] = T.kind[x] /\ U.name[c[x]] = T.name[x]
      /\ \A m \in Node \ Range(c) : U.kind[m] = T.kind[m] /\ U.name[m] = T.name[m]
      /\ \A m \in Node \ {c[x] : x \in DOMAIN c \ {a}} : U.parent[m] = T.parent[m]
  BY <1>1, <1>2 DEF CopyOf
<1>5. U.kind = Dom!Copied(T.kind, c)
  <2> DEFINE f == T.kind  g == U.kind
  <2>1. /\ \A x \in S : g[c[x]] = f[x]
        /\ \A m \in Node \ Range(c) : g[m] = f[m]
        /\ g = [m \in Node |-> g[m]]
    BY <1>3, <1>4
  <2> HIDE DEF f, g
  <2>2. g = Dom!Copied(f, c)
    BY <1>1, <2>1, CopiedIs
  <2> QED  BY <2>2 DEF f, g
<1>6. U.name = Dom!Copied(T.name, c)
  <2> DEFINE f == T.name  g == U.name
  <2>1. /\ \A x \in S : g[c[x]] = f[x]
        /\ \A m \in Node \ Range(c) : g[m] = f[m]
        /\ g = [m \in Node |-> g[m]]
    BY <1>3, <1>4
  <2> HIDE DEF f, g
  <2>2. g = Dom!Copied(f, c)
    BY <1>1, <2>1, CopiedIs
  <2> QED  BY <2>2 DEF f, g
<1>7. \A m \in Node \ Range(c) : U.parent[m] = T.parent[m]
  BY <1>4 DEF Range
<1> QED  BY <1>5, <1>6, <1>7

\* What the client sees of the tree with the copy.
LEMMA ClonedForest ==
  ASSUME IInv, NEW a \in Live(tree), NEW c \in CloneMaps(tree, a, Free(tree)),
         NEW T, T = CopyTo(tree, a, c)
  PROVE  /\ a \in Dom!Live /\ c \in Dom!Copies(a)
         /\ T.kind = Dom!Copied(tree.kind, c) /\ T.name = Dom!Copied(tree.name, c)
         /\ KidsOf(T) = Dom!CopiedKids(c)
         /\ \A m \in Node \ Range(c) : /\ Children(T, m) = Children(tree, m)
                                       /\ T.parent[m] = tree.parent[m]
<1> DEFINE S == Under(tree, a)
<1>1. /\ MayCopy(tree, a, c) /\ Sound(tree) /\ a \in Node /\ S \subseteq Node
      /\ a \in S /\ c \in [S -> Node] /\ IsInjective(c) /\ DOMAIN c = S
  BY CloneMayCopy, UnderHolds DEF IInv, Live, MayCopy
<1>2. a \in Dom!Live /\ c \in Dom!Copies(a)
  <2>1. Dom!Below(a) = S /\ Node \ Dom!Live = Free(tree)
    BY <1>1, BelowIs, DomLive DEF Live, Free
  <2>2. c \in [S -> Free(tree)] /\ Dom!IsInjective(c)
    BY DEF CloneMaps, IsInjective, Dom!IsInjective
  <2> QED  BY <2>1, <2>2, DomLive DEF Dom!Copies
<1>3. /\ T.kind = Dom!Copied(tree.kind, c) /\ T.name = Dom!Copied(tree.name, c)
      /\ \A m \in Node \ Range(c) : T.parent[m] = tree.parent[m]
  BY <1>1, CopiedValues
<1>4. /\ \A x \in S : Children(T, c[x]) = Dom!Map(c, Children(tree, x))
      /\ \A m \in Node \ Range(c) : Children(T, m) = Children(tree, m)
  BY <1>1, CopiedKids
<1> HIDE DEF S
<1>5. KidsOf(T) = Dom!CopiedKids(c)
  <2> DEFINE K == KidsOf(tree)
  <2>1. Dom!Image(c) = Range(c)
    BY DEF Dom!Image, Range
  <2>2. ASSUME NEW m \in Range(c)  PROVE Children(T, m) = Dom!Map(c, K[Dom!Source(c, m)])
    <3>1. PICK x \in S : m = c[x]
      BY <1>1 DEF Range
    <3>2. Dom!Source(c, m) = x
      BY <1>1, <3>1, SourceOf DEF Dom!Source
    <3>3. K[x] = Children(tree, x)
      BY <1>1, <3>1 DEF KidsOf
    <3> HIDE DEF K
    <3> QED  BY <1>4, <3>1, <3>2, <3>3
  <2>3. \A m \in Node \ Range(c) : Children(T, m) = K[m]
    BY <1>4 DEF KidsOf
  <2>4. Dom!CopiedKids(c) = [m \in Node |-> IF m \in Range(c) THEN Dom!Map(c, K[Dom!Source(c, m)]) ELSE K[m]]
    BY <2>1 DEF Dom!CopiedKids, KidsOf
  <2> HIDE DEF K
  <2> QED  BY <2>2, <2>3, <2>4 DEF KidsOf
<1> QED  BY <1>2, <1>3, <1>4, <1>5

\* The copy c[a] linked as the i-th child of p.
LEMMA InsertedForest ==
  ASSUME IInv, NEW a \in Live(tree), NEW c \in CloneMaps(tree, a, Free(tree)),
         NEW T, T = CopyTo(tree, a, c), NEW p \in Live(tree),
         MayLink(T, p, c[a]), NEW i \in 1 .. Len(Children(tree, p)) + 1,
         Sound(tree'), LinksAt(T, tree', p, Children(tree, p), i, c[a]),
         tree'.kind = T.kind, tree'.name = T.name
  PROVE  Dom!Next
<1> DEFINE s == Children(tree, p)
           n == c[a]
           r == Dom!InsertAt(s, i, n)
           K == Dom!CopiedKids(c)
<1>1. /\ a \in Dom!Live /\ c \in Dom!Copies(a)
      /\ T.kind = Dom!Copied(tree.kind, c) /\ T.name = Dom!Copied(tree.name, c)
      /\ KidsOf(T) = K
      /\ \A m \in Node \ Range(c) : Children(T, m) = s \/ m # p
  BY ClonedForest
<1>2. p \in Node \ Range(c) /\ p \in Node /\ Sound(T) /\ Sound(tree)
  BY CloneMayCopy DEF IInv, Live
<1>3. Children(T, p) = s
  BY <1>1, <1>2
<1>4. n \in Node /\ T.parent[n] = Nil
  BY DEF MayLink
<1>5. s \in Seq(Node) /\ ListOf(T, p, s)
  BY <1>2, <1>3, KidsAre
<1>6. i \in 1 .. Len(s) + 1 /\ LinksAt(T, tree', p, s, i, n)
  OBVIOUS
<1> HIDE DEF s, n
<1>7. Inserted(s, i, n, r)
  BY <1>4, <1>5, <1>6, InsertAtIs
<1> HIDE DEF r
<1>8. KidsBecome(T, tree', p, r)
  BY <1>2, <1>4, <1>5, <1>6, <1>7, LinkedKids
<1>9. KidsOf(tree') = [KidsOf(T) EXCEPT ![p] = r]
  BY <1>2, <1>8 DEF KidsBecome, KidsOf
<1>10. KidsOf(T)[p] = s /\ KidsOf(tree)[p] = s
  BY <1>2, <1>3 DEF KidsOf, s
<1>11. KidsOf(tree') = [K EXCEPT ![p] = Dom!InsertAt(@, i, n)]
  <2> HIDE DEF K
  <2> QED  BY <1>1, <1>9, <1>10 DEF r
<1>12. p \in Dom!Live /\ i \in 1 .. Len(KidsOf(tree)[p]) + 1
  BY <1>6, <1>10, DomLive
<1> HIDE DEF K
<1>13. Dom!Insert
  <2> a \in Dom!Live /\ c \in Dom!Copies(a)
    BY <1>1
  <2>1. /\ tree'.kind = Dom!Copied(tree.kind, c) /\ tree'.name = Dom!Copied(tree.name, c)
        /\ \E q \in Dom!Live : \E j \in 1 .. Len(KidsOf(tree)[q]) + 1 :
               KidsOf(tree') = [K EXCEPT ![q] = Dom!InsertAt(@, j, c[a])]
    BY <1>1, <1>11, <1>12 DEF n
  <2> QED  BY <2>1 DEF Dom!Insert, K, KidsOf
<1> QED  BY <1>13 DEF Dom!Next

\* So InsertEndChild inserts the copy at the end,
LEMMA ForestInsertEnd == IInv /\ InsertEnd => Dom!Next
<1> SUFFICES ASSUME IInv, NEW p \in Parents(tree), NEW a \in Live(tree), tree.kind[a] # "document",
                    NEW c \in CloneMaps(tree, a, Free(tree)), NEW T, T = CopyTo(tree, a, c),
                    tree' = LinkEndChild(T, p, c[a])
             PROVE  Dom!Next
  BY DEF InsertEnd, Cloning
<1> DEFINE s == Children(tree, p)
<1>1. p \in Node /\ p \in Live(tree) /\ tree.kind[p] \in {"document", "element"}
  BY ParentKind DEF IInv, Parents, Live
<1>2. Sound(T) /\ MayLink(T, p, c[a])
  BY <1>1, CloneSound DEF IInv
<1>3. Sound(tree')
  BY <1>2, LinkEndSound
<1>4. ListOf(T, p, s) /\ s \in Seq(Node)
  <2>1. p \in Node \ Range(c)
    BY <1>1, CloneMayCopy DEF IInv, Live
  <2>2. Children(T, p) = s
    BY <2>1, ClonedForest
  <2> QED  BY <1>1, <1>2, <2>2, KidsAre
<1>5. LinksAt(T, tree', p, s, Len(s) + 1, c[a])
  BY <1>2, <1>4, LinkEndKids
<1>6. Len(s) + 1 \in 1 .. Len(s) + 1
  BY <1>4
<1>7. tree'.kind = T.kind /\ tree'.name = T.name
  BY <1>2, LinkEndFields DEF Sound, MayLink
<1> QED  BY <1>1, <1>2, <1>3, <1>5, <1>6, <1>7, InsertedForest

\* What InsertBefore, InsertAfter and ReplaceChild start from: b is the i-th child of p.
LEMMA SiblingForest ==
  ASSUME IInv, NEW b \in Live(tree), tree.parent[b] # Nil,
         NEW a \in Live(tree), tree.kind[a] # "document",
         NEW c \in CloneMaps(tree, a, Free(tree)), NEW T, T = CopyTo(tree, a, c),
         NEW p, p = T.parent[b], NEW s, s = Children(tree, p)
  PROVE  /\ p = tree.parent[b] /\ p \in Live(tree) /\ p \in Node \ Range(c)
         /\ b \in Node \ Range(c) /\ MayLink(T, p, c[a]) /\ Sound(T)
         /\ s \in Seq(Node) /\ Children(T, p) = s /\ ListOf(T, p, s)
         /\ \E i \in 1 .. Len(s) : s[i] = b
<1>1. Sound(T) /\ b \in Node /\ MayLink(T, p, c[a])
  BY SiblingStep
<1>2. b \in Node \ Range(c)
  BY <1>1, CloneMayCopy DEF IInv, Live
<1>3. p = tree.parent[b]
  BY <1>2, ClonedForest
<1>4. p \in Node /\ p \in Live(tree)
  <2>1. p \in Node
    BY <1>1 DEF MayLink
  <2>2. tree.kind[p] \in {"document", "element"}
    BY <1>1, <1>3, <2>1, ParentKind DEF IInv
  <2> QED  BY <2>1, <2>2 DEF Live, Free
<1>5. p \in Node \ Range(c)
  BY <1>4, CloneMayCopy DEF IInv, Live
<1>6. Children(T, p) = s
  BY <1>5, ClonedForest
<1>7. s \in Seq(Node) /\ ListOf(T, p, s)
  BY <1>1, <1>4, <1>6, KidsAre
<1>8. \E i \in 1 .. Len(s) : s[i] = b
  <2>1. T.parent[b] = p
    OBVIOUS
  <2> QED  BY <1>1, <1>7, <2>1, ListPath
<1> QED  BY <1>1, <1>2, <1>3, <1>4, <1>5, <1>6, <1>7, <1>8

\* InsertBeforeChild at the place of b,
LEMMA ForestInsertBefore == IInv /\ InsertBefore => Dom!Next
<1> SUFFICES ASSUME IInv, NEW b \in Live(tree), tree.parent[b] # Nil,
                    NEW a \in Live(tree), tree.kind[a] # "document",
                    NEW c \in CloneMaps(tree, a, Free(tree)), NEW T, T = CopyTo(tree, a, c),
                    NEW p, p = T.parent[b], tree' = LinkBefore(T, p, b, c[a])
             PROVE  Dom!Next
  BY DEF InsertBefore, Cloning
<1> DEFINE s == Children(tree, p)
<1>1. /\ p \in Live(tree) /\ p \in Node /\ b \in Node /\ MayLink(T, p, c[a]) /\ Sound(T)
      /\ s \in Seq(Node) /\ ListOf(T, p, s)
  BY SiblingForest
<1>2. PICK i \in 1 .. Len(s) : s[i] = b
  BY SiblingForest
<1>3. Sound(tree')
  BY <1>1, LinkBeforeSound
<1> HIDE DEF s
<1>4. LinksAt(T, tree', p, s, i, c[a])
  BY <1>1, <1>2, LinkBeforeKids
<1>5. i \in 1 .. Len(s) + 1
  BY <1>1
<1>6. tree'.kind = T.kind /\ tree'.name = T.name
  BY <1>1, <1>2, LinkBeforeFields, NilAssumption DEF Sound, MayLink
<1> QED  BY <1>1, <1>3, <1>4, <1>5, <1>6, InsertedForest DEF s

\* and InsertAfterChild behind it.
LEMMA ForestInsertAfter == IInv /\ InsertAfter => Dom!Next
<1> SUFFICES ASSUME IInv, NEW b \in Live(tree), tree.parent[b] # Nil,
                    NEW a \in Live(tree), tree.kind[a] # "document",
                    NEW c \in CloneMaps(tree, a, Free(tree)), NEW T, T = CopyTo(tree, a, c),
                    NEW p, p = T.parent[b], tree' = LinkAfter(T, p, b, c[a])
             PROVE  Dom!Next
  BY DEF InsertAfter, Cloning
<1> DEFINE s == Children(tree, p)
<1>1. /\ p \in Live(tree) /\ p \in Node /\ b \in Node /\ MayLink(T, p, c[a]) /\ Sound(T)
      /\ s \in Seq(Node) /\ ListOf(T, p, s)
  BY SiblingForest
<1>2. PICK i \in 1 .. Len(s) : s[i] = b
  BY SiblingForest
<1>3. Sound(tree')
  BY <1>1, LinkAfterSound
<1> HIDE DEF s
<1>4. LinksAt(T, tree', p, s, i + 1, c[a])
  BY <1>1, <1>2, LinkAfterKids
<1>5. i + 1 \in 1 .. Len(s) + 1
  BY <1>1
<1>6. T.next[b] # c[a]
  <2>1. c[a] \in Node /\ T.parent[c[a]] = Nil /\ T.parent[b] = p
    BY <1>1 DEF MayLink
  <2>2. \A m \in Node : m = T.next[b] => T.parent[m] = p
    BY <1>1, <1>2, NeighbourOf
  <2> QED  BY <1>1, <2>1, <2>2, NilAssumption
<1>7. tree'.kind = T.kind /\ tree'.name = T.name
  BY <1>1, <1>6, LinkAfterFields DEF Sound, MayLink
<1> QED  BY <1>1, <1>3, <1>4, <1>5, <1>7, InsertedForest DEF s

\* Copies have copies for parents, but for the copy of a.
LEMMA CopyParents ==
  ASSUME NEW T, Sound(T), NEW a, NEW c, MayCopy(T, a, c), NEW U, U = CopyTo(T, a, c)
  PROVE  /\ U.parent[c[a]] = T.parent[c[a]]
         /\ \A m \in Range(c) : m # c[a] => U.parent[m] \in Range(c)
<1> DEFINE S == Under(T, a)
<1>1. T \in Trees /\ a \in Node /\ S \in SUBSET Node /\ a \in S /\ c \in [S -> Node] /\ IsInjective(c) /\ DOMAIN c = S
  BY UnderHolds DEF Sound, MayCopy
<1>2. CopyOf(T, U, a, c)
  BY <1>1, CopyFields
<1>3. \A x \in S \ {a} : T.parent[x] \in S
  BY <1>1, UnderParent
<1> HIDE DEF S
<1>4. /\ \A x \in S \ {a} : U.parent[c[x]] = Image(c, T.parent[x])
      /\ \A m \in Node \ {c[x] : x \in S \ {a}} : U.parent[m] = T.parent[m]
  BY <1>1, <1>2 DEF CopyOf
<1>5. c[a] \in Node \ {c[x] : x \in S \ {a}}
  BY <1>1 DEF IsInjective
<1>6. ASSUME NEW m \in Range(c), m # c[a]  PROVE U.parent[m] \in Range(c)
  <2>1. PICK x \in S \ {a} : m = c[x]
    BY <1>1, <1>6 DEF Range
  <2>2. U.parent[m] = c[T.parent[x]] /\ T.parent[x] \in S
    BY <1>1, <1>3, <1>4, <2>1 DEF Image
  <2> QED  BY <1>1, <2>2 DEF Range
<1> QED  BY <1>4, <1>5, <1>6

\* while EXCEPT exchanges one.
LEMMA ExchangedIs ==
  ASSUME NEW s \in Seq(Node), NEW i \in 1 .. Len(s), NEW n \in Node
  PROVE  Exchanged(s, i, n, [s EXCEPT ![i] = n])
  BY DEF Exchanged

\* ReplaceChild: what is below r is none of the copied nodes, and goes as r does.
LEMMA ForestReplaceChild == IInv /\ ReplaceChild => Dom!Next
<1> SUFFICES ASSUME IInv, NEW r \in Live(tree), tree.parent[r] # Nil,
                    NEW a \in Live(tree), tree.kind[a] # "document",
                    NEW c \in CloneMaps(tree, a, Free(tree)), NEW T, T = CopyTo(tree, a, c),
                    NEW p, p = T.parent[r], NEW V, V = LinkInstead(T, p, r, c[a]),
                    tree' = Delete(V, Under(V, r))
             PROVE  Dom!Next
  BY DEF ReplaceChild, Cloning
<1> DEFINE s == Children(tree, p)
           n == c[a]
           D == Under(tree, r)
           K == Dom!CopiedKids(c)
<1>1. /\ p \in Live(tree) /\ p \in Node /\ r \in Node /\ MayLink(T, p, n) /\ Sound(T)
      /\ s \in Seq(Node) /\ ListOf(T, p, s) /\ Children(T, p) = s /\ p = tree.parent[r]
  BY SiblingForest
<1>2. PICK i \in 1 .. Len(s) : s[i] = r
  BY SiblingForest
<1>3. /\ a \in Dom!Live /\ c \in Dom!Copies(a)
      /\ T.kind = Dom!Copied(tree.kind, c) /\ T.name = Dom!Copied(tree.name, c)
      /\ KidsOf(T) = K
      /\ \A m \in Node \ Range(c) : T.parent[m] = tree.parent[m]
  BY ClonedForest
<1>4. MayCopy(tree, a, c) /\ \A m \in Range(c) : m \in Free(tree) /\ tree.parent[m] = Nil
  BY CloneMayCopy DEF IInv
<1>5. Sound(tree')
  <2>1. Severed(V, r)
    BY <1>1, LinkInsteadSevered
  <2> QED  BY <1>1, <2>1, DeleteSound
<1>6. /\ p \notin D /\ r \in D /\ \A m \in D : m \in Node /\ m \notin Free(tree)
      /\ \A m \in Node : tree.parent[m] \in D => m \in D
  <2>1. p \notin D /\ r \in D /\ \A m \in Node : tree.parent[m] \in D => m \in D
    BY <1>1, ApartFromChild DEF IInv
  <2>2. \A m \in D : m \in Node /\ m \notin Free(tree)
    BY <1>1, UnderLive DEF IInv, Live, Free
  <2> QED  BY <2>1, <2>2
<1>7. T.parent[n] = Nil /\ n \in Node /\ n \in Range(c) /\ n \notin D
  <2>1. a \in Under(tree, a) /\ DOMAIN c = Under(tree, a)
    BY <1>4, UnderHolds DEF MayCopy
  <2>2. n \in Range(c)
    BY <2>1 DEF Range
  <2> QED  BY <1>1, <1>4, <1>6, <2>2 DEF MayLink
<1>8. Under(T, r) = D
  <2>1. \A m \in Range(c) : m # n => T.parent[m] \in Range(c)
    BY <1>4, CopyParents DEF IInv
  <2> HIDE DEF n
  <2>2. \A x \in Node : T.parent[x] \in D => x \in D
    <3> HIDE DEF D
    <3> QED  BY <1>3, <1>4, <1>6, <1>7, <2>1, NilAssumption
  <2>3. \A x \in Node : tree.parent[x] \in D => T.parent[x] = tree.parent[x]
    <3> HIDE DEF D
    <3> QED  BY <1>3, <1>4, <1>6, <1>7, NilAssumption
  <2> QED  BY <1>1, <2>2, <2>3, UnderSame
<1> DEFINE t == [s EXCEPT ![i] = n]
<1>9. Exchanged(s, i, n, t)
  BY <1>1, <1>7, ExchangedIs
<1>10. n \notin Under(T, r)
  BY <1>7, <1>8
<1> HIDE DEF s, t, n, D
<1>11. /\ \A q \in Node : Children(tree', q) = IF q \in Under(T, r) THEN << >>
                                               ELSE IF q = p THEN t ELSE Children(T, q)
       /\ tree'.kind = Gone(T, Under(T, r)) /\ tree'.name = Nameless(T, Under(T, r))
  <2>1. V = LinkInstead(T, p, r, n)
    BY DEF n
  <2> QED  BY <1>1, <1>2, <1>5, <1>9, <1>10, <2>1, ReplacedKids
<1>12. /\ tree'.kind = Dom!Wiped(Dom!Copied(tree.kind, c), D, "free")
       /\ tree'.name = Dom!Wiped(Dom!Copied(tree.name, c), D, "")
  <2>1. tree'.kind = Dom!Wiped(Dom!Copied(tree.kind, c), D, "free")
    BY <1>3, <1>8, <1>11 DEF Gone
  <2>2. tree'.name = Dom!Wiped(Dom!Copied(tree.name, c), D, "")
    BY <1>3, <1>8, <1>11 DEF Nameless
  <2> QED  BY <2>1, <2>2
<1>13. KidsOf(tree') = [Dom!Wiped(K, D, << >>) EXCEPT ![p] = [@ EXCEPT ![i] = n]]
  <2> DEFINE W == Dom!Wiped(K, D, << >>)
  <2>1. W = [m \in Node |-> IF m \in D THEN << >> ELSE K[m]]
    BY DEF Dom!Wiped
  <2>2. K[p] = s /\ \A m \in Node : K[m] = Children(T, m)
    BY <1>1, <1>3 DEF KidsOf
  <2> HIDE DEF K
  <2>3. W[p] = s
    BY <1>1, <1>6, <2>1, <2>2
  <2>4. KidsOf(tree') = [W EXCEPT ![p] = t]
    <3> HIDE DEF W
    <3> QED  BY <1>1, <1>6, <1>8, <1>11, <2>1, <2>2 DEF KidsOf
  <2> HIDE DEF W
  <2>5. KidsOf(tree') = [W EXCEPT ![p] = [@ EXCEPT ![i] = n]]
    BY <2>3, <2>4 DEF t
  <2> QED  BY <2>5 DEF W
<1>14. /\ r \in Dom!Live /\ p \in Dom!Live /\ Dom!Below(r) = D
       /\ i \in 1 .. Len(KidsOf(tree)[p]) /\ KidsOf(tree)[p][i] = r
  <2>1. KidsOf(tree)[p] = s
    BY <1>1 DEF KidsOf, s
  <2> QED  BY <1>1, <1>2, <2>1, BelowIs, DomLive DEF D
<1> HIDE DEF K
<1>15. Dom!Replace
  <2>1. \E q \in Dom!Live : \E j \in 1 .. Len(KidsOf(tree)[q]) :
            /\ KidsOf(tree)[q][j] = r
            /\ KidsOf(tree') = [Dom!Wiped(K, Dom!Below(r), << >>) EXCEPT ![q] = [@ EXCEPT ![j] = c[a]]]
    BY <1>13, <1>14 DEF n
  <2> r \in Dom!Live /\ a \in Dom!Live /\ c \in Dom!Copies(a)
    BY <1>3, <1>14
  <2>2. /\ tree'.kind = Dom!Wiped(Dom!Copied(tree.kind, c), Dom!Below(r), "free")
        /\ tree'.name = Dom!Wiped(Dom!Copied(tree.name, c), Dom!Below(r), "")
    BY <1>12, <1>14
  <2> QED  BY <2>1, <2>2, Zenon DEF Dom!Replace, K, KidsOf
<1> QED  BY <1>15 DEF Dom!Next

\* RemoveChild takes r out of the list of p, and deletes what is below r.
LEMMA ForestRemoveChild == IInv /\ RemoveChild => Dom!Next
<1> SUFFICES ASSUME IInv, NEW r \in Live(tree), tree.parent[r] # Nil,
                    NEW p, p = tree.parent[r], NEW V, V = Unlink(tree, p, r),
                    tree' = Delete(V, Under(V, r))
             PROVE  Dom!Next
  BY DEF RemoveChild
<1> DEFINE s == Children(tree, p)
           D == Under(tree, r)
           K == KidsOf(tree)
<1>1. r \in Node /\ p \in Node /\ p \in Live(tree) /\ Sound(tree) /\ tree.parent[r] = p
  <2>1. r \in Node /\ p \in Node
    BY TreeFields DEF IInv, Sound, Live, Maybe
  <2>2. tree.kind[p] \in {"document", "element"}
    BY <2>1, ParentKind DEF IInv
  <2> QED  BY <2>1, <2>2 DEF Live, Free, IInv
<1>2. s \in Seq(Node) /\ ListOf(tree, p, s)
  BY <1>1, KidsAre
<1>3. PICK i \in 1 .. Len(s) : s[i] = r
  BY <1>1, <1>2, ListPath
<1>4. Sound(tree')
  BY <1>1, UnlinkSevered, DeleteSound
<1>5. p \notin D
  BY <1>1, ApartFromChild
<1> DEFINE t == Dom!RemoveAt(s, i)
<1>6. Taken(s, i, t)
  BY <1>2, RemoveAtIs
<1> HIDE DEF s, t
<1>7. /\ \A q \in Node : Children(tree', q) = IF q \in Under(tree, r) THEN << >>
                                              ELSE IF q = p THEN t ELSE Children(tree, q)
      /\ tree'.kind = Gone(tree, Under(tree, r)) /\ tree'.name = Nameless(tree, Under(tree, r))
  BY <1>1, <1>2, <1>3, <1>4, <1>6, RemovedKids
<1>8. tree'.kind = Dom!Wiped(tree.kind, D, "free")
  BY <1>7 DEF Gone
<1>9. tree'.name = Dom!Wiped(tree.name, D, "")
  BY <1>7 DEF Nameless
<1>10. K[p] = s /\ \A m \in Node : K[m] = Children(tree, m)
  BY <1>1 DEF KidsOf, s
<1> HIDE DEF D
<1>11. KidsOf(tree') = [Dom!Wiped(K, D, << >>) EXCEPT ![p] = Dom!RemoveAt(@, i)]
  <2> DEFINE W == Dom!Wiped(K, D, << >>)
  <2>1. W = [m \in Node |-> IF m \in D THEN << >> ELSE K[m]]
    BY DEF Dom!Wiped
  <2> HIDE DEF K
  <2>2. W[p] = s
    BY <1>1, <1>5, <1>10, <2>1
  <2>3. KidsOf(tree') = [W EXCEPT ![p] = t]
    <3> HIDE DEF W
    <3> QED  BY <1>1, <1>5, <1>7, <1>10, <2>1 DEF KidsOf, D
  <2> HIDE DEF W
  <2>4. KidsOf(tree') = [W EXCEPT ![p] = Dom!RemoveAt(@, i)]
    BY <2>2, <2>3 DEF t
  <2> QED  BY <2>4 DEF W
<1>12. /\ r \in Dom!Live /\ p \in Dom!Live /\ Dom!Below(r) = D
       /\ i \in 1 .. Len(K[p]) /\ K[p][i] = r
  BY <1>1, <1>3, <1>10, BelowIs, DomLive DEF D
<1> HIDE DEF K
<1>13. Dom!RemoveChild
  <2>1. \E q \in Dom!Live : \E j \in 1 .. Len(K[q]) :
            /\ K[q][j] = r
            /\ KidsOf(tree') = [Dom!Wiped(K, Dom!Below(r), << >>) EXCEPT ![q] = Dom!RemoveAt(@, j)]
    BY <1>11, <1>12
  <2>2. /\ tree'.kind = Dom!Wiped(tree.kind, Dom!Below(r), "free")
        /\ tree'.name = Dom!Wiped(tree.name, Dom!Below(r), "")
    BY <1>8, <1>9, <1>12
  <2> QED  BY <1>12, <2>1, <2>2, Zenon DEF Dom!RemoveChild, K, KidsOf
<1> QED  BY <1>13 DEF Dom!Next

\* Whether p goes with them or not, all below p go.
LEMMA DroppedForest ==
  ASSUME IInv, NEW p \in Live(tree), NEW D \in {Under(tree, p), Under(tree, p) \ {p}},
         p \in D => IsRoot(tree, p), tree'.kind = Gone(tree, D), tree'.name = Nameless(tree, D),
         \A q \in Node : Children(tree', q) = IF q \in Under(tree, p) THEN << >> ELSE Children(tree, q)
  PROVE  Dom!Next
<1> DEFINE K == KidsOf(tree)
<1>1. p \in Node /\ p \in Under(tree, p) /\ D \union {p} = Under(tree, p)
  BY UnderHolds DEF Live
<1>2. /\ p \in Dom!Live /\ D \in {Dom!Below(p), Dom!Below(p) \ {p}}
      /\ p \in D => Dom!IsRoot(p)
  BY <1>1, BelowIs, DomLive, DomRoot
<1>3. tree'.kind = Dom!Wiped(tree.kind, D, "free")
  BY DEF Gone
<1>4. tree'.name = Dom!Wiped(tree.name, D, "")
  BY DEF Nameless
<1>5. KidsOf(tree') = Dom!Wiped(K, D \union {p}, << >>)
  BY <1>1 DEF KidsOf, Dom!Wiped
<1> HIDE DEF K
<1>6. Dom!Drop
  BY <1>2, <1>3, <1>4, <1>5, Zenon DEF Dom!Drop, K, KidsOf
<1> QED  BY <1>6 DEF Dom!Next

\* Clear drops all below p but p,
LEMMA ClearedForest ==
  ASSUME IInv, NEW p \in Live(tree), tree' = Clear(tree, p)
  PROVE  Dom!Next
<1> DEFINE D == Under(tree, p) \ {p}
<1>1. p \in Node /\ Sound(tree)
  BY DEF Live, IInv
<1>2. /\ \A q \in Node : Children(tree', q) = IF q \in Under(tree, p) THEN << >> ELSE Children(tree, q)
      /\ tree'.kind = Gone(tree, D) /\ tree'.name = Nameless(tree, D)
  BY <1>1, ClearedKids
<1>3. D \in {Under(tree, p), Under(tree, p) \ {p}} /\ p \notin D
  OBVIOUS
<1> HIDE DEF D
<1> QED  BY <1>2, <1>3, DroppedForest

\* which is all that the call Clear does,
LEMMA ForestClearNode == IInv /\ ClearNode => Dom!Next
  BY ClearedForest DEF ClearNode

\* and deleting a root drops the root too.
LEMMA ForestDeleteTree == IInv /\ DeleteTree => Dom!Next
<1> SUFFICES ASSUME IInv, NEW n \in Node, IsRoot(tree, n), tree' = Delete(tree, Under(tree, n))
             PROVE  Dom!Next
  BY DEF DeleteTree
<1> DEFINE D == Under(tree, n)
<1>1. n \in Live(tree) /\ tree.parent[n] = Nil /\ Sound(tree)
  BY DEF IsRoot, IInv
<1>2. Sound(tree')
  BY <1>1, RootSevered, DeleteSound
<1>3. /\ \A q \in Node : Children(tree', q) = IF q \in Under(tree, n) THEN << >> ELSE Children(tree, q)
      /\ tree'.kind = Gone(tree, D) /\ tree'.name = Nameless(tree, D)
  BY <1>1, <1>2, DeletedKids
<1>4. D \in {Under(tree, n), Under(tree, n) \ {n}}
  OBVIOUS
<1> HIDE DEF D
<1> QED  BY <1>1, <1>3, <1>4, DroppedForest

\* Of two nodes of which neither is below the other no node is below both.
LEMMA UnderApart ==
  ASSUME NEW T, NEW s \in Node, NEW t \in Node, s \notin Under(T, t), t \notin Under(T, s)
  PROVE  Under(T, s) \cap Under(T, t) = {}
<1> DEFINE S == Under(T, s)
           B == Under(T, t)
<1>1. /\ s \in S /\ S \in SUBSET Node /\ \A x \in Node : T.parent[x] \in S => x \in S
      /\ \A x \in B : x # t => T.parent[x] \in B
  BY UnderHolds, UnderParent
<1> HIDE DEF B
<1>2. S \subseteq S \ B
  <2>1. s \in S \ B /\ S \ B \in SUBSET Node
    BY <1>1 DEF B
  <2>2. \A x \in Node : T.parent[x] \in S \ B => x \in S \ B
    BY <1>1
  <2> QED  BY <2>1, <2>2, UnderLeast
<1> QED  BY <1>2 DEF B

\* Wiping before copying is wiping what is not copied upon.
LEMMA CopiedWiped ==
  ASSUME NEW S \in SUBSET Node, NEW c \in [S -> Node], IsInjective(c),
         NEW D, S \cap D = {}, NEW f, NEW v
  PROVE  Dom!Copied(Dom!Wiped(f, D, v), c) = Dom!Wiped(Dom!Copied(f, c), D \ Range(c), v)
<1> DEFINE g == Dom!Wiped(f, D, v)
           h == Dom!Copied(f, c)
<1>0. Dom!Image(c) = Range(c)
  BY DEF Dom!Image, Range
<1>1. g = [m \in Node |-> IF m \in D THEN v ELSE f[m]]
  BY DEF Dom!Wiped
<1>2. h = [m \in Node |-> IF m \in Range(c) THEN f[Dom!Source(c, m)] ELSE f[m]]
  BY <1>0 DEF Dom!Copied
<1> HIDE DEF g, h
<1>3. ASSUME NEW m \in Range(c)  PROVE Dom!Source(c, m) \in Node \ D
  <2>1. PICK x \in S : m = c[x]
    BY DEF Range
  <2>2. Dom!Source(c, m) = x
    BY <2>1, SourceOf DEF Dom!Source
  <2> QED  BY <2>1, <2>2
<1>4. Dom!Copied(g, c) = [m \in Node |-> IF m \in Range(c) THEN g[Dom!Source(c, m)] ELSE g[m]]
  BY <1>0 DEF Dom!Copied
<1>5. Dom!Wiped(h, D \ Range(c), v) = [m \in Node |-> IF m \in D \ Range(c) THEN v ELSE h[m]]
  BY DEF Dom!Wiped
<1>6. ASSUME NEW m \in Node
      PROVE  (IF m \in Range(c) THEN g[Dom!Source(c, m)] ELSE g[m])
             = IF m \in D \ Range(c) THEN v ELSE h[m]
  <2>1. CASE m \in Range(c)
    BY <1>1, <1>2, <1>3, <2>1
  <2>2. CASE m \notin Range(c)
    BY <1>1, <1>2, <2>2
  <2> QED  BY <2>1, <2>2
<1>7. Dom!Copied(g, c) = Dom!Wiped(h, D \ Range(c), v)
  BY <1>4, <1>5, <1>6
<1> QED  BY <1>7 DEF g, h

\* t with the copy of s on it.
LEMMA AssignedForest ==
  ASSUME IInv, NEW t \in Live(tree), NEW s \in Live(tree), s # t,
         tree.kind[t] = tree.kind[s], s \notin Under(tree, t), t \notin Under(tree, s),
         NEW T, T = Clear(tree, t), NEW c \in CloneMaps(T, s, Free(T) \union {t}), c[s] = t,
         NEW V, V = CopyTo(T, s, c), tree'.kind = V.kind, tree'.name = V.name,
         tree'.first = V.first, tree'.next = V.next
  PROVE  Dom!Next
<1> DEFINE B == Under(tree, t)
           D == B \ {t}
           S == Under(tree, s)
           K == KidsOf(tree)
<1>1. t \in Node /\ s \in Node /\ Sound(tree)
  BY DEF Live, IInv
<1>2. /\ Sound(T)
      /\ \A q \in Node : Children(T, q) = IF q \in B THEN << >> ELSE Children(tree, q)
      /\ T.kind = Gone(tree, D) /\ T.name = Nameless(tree, D)
      /\ \A m \in Node : T.parent[m] = IF m \in D THEN Nil ELSE tree.parent[m]
  BY <1>1, ClearedKids
<1>3. /\ S \cap B = {} /\ t \in B /\ s \in S /\ S \in SUBSET Node /\ t \notin S /\ B \in SUBSET Node
      /\ \A x \in Node : tree.parent[x] \in S => x \in S
      /\ \A x \in Node : tree.parent[x] \in B => x \in B
  BY <1>1, UnderApart, UnderHolds
<1>4. Under(T, s) = S
  <2>1. \A x \in Node : T.parent[x] \in S => x \in S
    <3> HIDE DEF D, S
    <3> QED  BY <1>2, <1>3, NilAssumption
  <2>2. \A x \in Node : tree.parent[x] \in S => T.parent[x] = tree.parent[x]
    <3> HIDE DEF B, S
    <3> QED  BY <1>2, <1>3
  <2> QED  BY <1>1, <2>1, <2>2, UnderSame
<1>5. /\ Free(T) = Free(tree) \union D
      /\ T.kind[t] = tree.kind[t] /\ T.kind[s] = tree.kind[s] /\ t \in Live(T) /\ s \in Live(T)
  <2>1. T.kind = [m \in Node |-> IF m \in D THEN "free" ELSE tree.kind[m]]
    BY <1>2 DEF Gone, Dom!Wiped
  <2>2. t \notin D /\ s \notin D /\ D \subseteq Node
    BY <1>3
  <2> HIDE DEF D
  <2> QED  BY <1>1, <2>1, <2>2 DEF Free, Live
<1> HIDE DEF B, S
<1>6. MayCopy(T, s, c)
  BY <1>1, AssignMayCopy
<1>7. /\ V.kind = Dom!Copied(T.kind, c) /\ V.name = Dom!Copied(T.name, c)
      /\ \A x \in Under(T, s) : Children(V, c[x]) = Dom!Map(c, Children(T, x))
      /\ \A m \in Node \ Range(c) : Children(V, m) = Children(T, m)
      /\ Sound(V)
  BY <1>2, <1>6, CopiedValues, CopiedKids, CopySound
<1>9. KidsOf(tree') = KidsOf(V)
  BY SameKids
<1>10. c \in [S -> Node] /\ IsInjective(c) /\ DOMAIN c = S /\ t \in Range(c) /\ S \cap D = {}
  <2>1. c \in [S -> Node] /\ IsInjective(c)
    BY <1>4, <1>6 DEF MayCopy
  <2> QED  BY <1>3, <2>1 DEF Range
<1> HIDE DEF D
<1>11. tree'.kind = Dom!Wiped(Dom!Copied(tree.kind, c), D \ Range(c), "free")
  BY <1>2, <1>3, <1>7, <1>10, CopiedWiped DEF Gone
<1>12. tree'.name = Dom!Wiped(Dom!Copied(tree.name, c), D \ Range(c), "")
  <2> DEFINE v == ""
  <2>1. tree'.name = Dom!Copied(Dom!Wiped(tree.name, D, v), c)
    BY <1>2, <1>7 DEF Nameless
  <2> HIDE DEF v
  <2>2. tree'.name = Dom!Wiped(Dom!Copied(tree.name, c), D \ Range(c), v)
    BY <1>3, <1>10, <2>1, CopiedWiped
  <2> QED  BY <2>2 DEF v
<1>13. KidsOf(tree') = Dom!Wiped(Dom!CopiedKids(c), D \ Range(c), << >>)
  <2> DEFINE C == Dom!CopiedKids(c)
  <2>1. Dom!Image(c) = Range(c)
    BY DEF Dom!Image, Range
  <2>2. C = [m \in Node |-> IF m \in Range(c) THEN Dom!Map(c, K[Dom!Source(c, m)]) ELSE K[m]]
    BY <2>1 DEF Dom!CopiedKids, KidsOf
  <2>3. \A m \in Node : K[m] = Children(tree, m)
    BY DEF KidsOf
  <2> HIDE DEF K, C
  <2>4. ASSUME NEW m \in Range(c)
        PROVE  m \in Node /\ Children(V, m) = C[m]
    <3>1. PICK x \in S : m = c[x]
      BY <1>10 DEF Range
    <3>2. Dom!Source(c, m) = x
      BY <1>10, <3>1, SourceOf DEF Dom!Source
    <3>3. x \in Node /\ x \notin B /\ m \in Node
      BY <1>3, <1>10, <3>1
    <3>4. Children(T, x) = K[x]
      BY <1>2, <2>3, <3>3
    <3>5. Children(V, m) = Dom!Map(c, K[x])
      BY <1>4, <1>7, <3>1, <3>4
    <3> QED  BY <2>2, <3>2, <3>3, <3>5
  <2>5. ASSUME NEW m \in Node \ Range(c)
        PROVE  Children(V, m) = IF m \in D THEN << >> ELSE C[m]
    <3>1. m \in B <=> m \in D
      BY <1>10 DEF D
    <3> QED  BY <1>2, <1>7, <2>2, <2>3, <3>1
  <2>6. Dom!Wiped(C, D \ Range(c), << >>) = [m \in Node |-> IF m \in D \ Range(c) THEN << >> ELSE C[m]]
    BY DEF Dom!Wiped
  <2>7. \A m \in Node : Children(V, m) = IF m \in D \ Range(c) THEN << >> ELSE C[m]
    BY <2>4, <2>5
  <2>8. KidsOf(V) = Dom!Wiped(C, D \ Range(c), << >>)
    BY <2>6, <2>7 DEF KidsOf
  <2> QED  BY <1>9, <2>8 DEF C
<1>14. /\ t \in Dom!Live /\ s \in Dom!Live /\ tree.kind[t] = tree.kind[s] /\ t # s
       /\ Dom!Below(t) \ {t} = D /\ Dom!IsInjective(c) /\ c[s] = t /\ Dom!Image(c) = Range(c)
  BY <1>1, <1>2, <1>10, DomLive, BelowIs DEF B, D, IsInjective, Dom!IsInjective, Dom!Image, Range
<1>15. c \in [Dom!Below(s) -> (Node \ Dom!Live) \union D \union {t}]
  <2>1. Dom!Below(s) = S /\ Node \ Dom!Live = Free(tree)
    BY <1>1, BelowIs, DomLive DEF S, Live, Free
  <2>2. c \in [S -> (Free(tree) \union D) \union {t}]
    BY <1>4, <1>5 DEF CloneMaps
  <2> QED  BY <2>1, <2>2
<1>16. Dom!Assign
  <2> DEFINE E == Dom!Below(t) \ {t}
             M == [Dom!Below(s) -> (Node \ Dom!Live) \union E \union {t}]
  <2>1. /\ tree'.kind = Dom!Wiped(Dom!Copied(tree.kind, c), E \ Dom!Image(c), "free")
        /\ tree'.name = Dom!Wiped(Dom!Copied(tree.name, c), E \ Dom!Image(c), "")
        /\ KidsOf(tree') = Dom!Wiped(Dom!CopiedKids(c), E \ Dom!Image(c), << >>)
    BY <1>11, <1>12, <1>13, <1>14
  <2>2. c \in M
    BY <1>14, <1>15
  <2>3. /\ t \in Dom!Live /\ s \in Dom!Live /\ tree.kind[t] = tree.kind[s] /\ t # s
        /\ Dom!IsInjective(c) /\ c[s] = t
    BY <1>14
  <2> USE <2>2, <2>3
  <2> SUFFICES \E u, w \in Dom!Live :
         /\ tree.kind[u] = tree.kind[w] /\ u # w
         /\ \E d \in [Dom!Below(w) -> (Node \ Dom!Live) \union (Dom!Below(u) \ {u}) \union {u}] :
              /\ Dom!IsInjective(d) /\ d[w] = u
              /\ tree'.kind = Dom!Wiped(Dom!Copied(tree.kind, d), (Dom!Below(u) \ {u}) \ Dom!Image(d), "free")
              /\ tree'.name = Dom!Wiped(Dom!Copied(tree.name, d), (Dom!Below(u) \ {u}) \ Dom!Image(d), "")
              /\ KidsOf(tree') = Dom!Wiped(Dom!CopiedKids(d), (Dom!Below(u) \ {u}) \ Dom!Image(d), << >>)
    BY Zenon DEF Dom!Assign, KidsOf
  <2> WITNESS t \in Dom!Live, s \in Dom!Live
  <2> QED  BY <2>1, Zenon
<1> QED  BY <1>16 DEF Dom!Next

\* Assigned to itself a node is cleared, else it becomes a copy of s.
LEMMA ForestAssignNode == IInv /\ AssignNode => Dom!Next
<1> SUFFICES ASSUME IInv, NEW t \in Live(tree), NEW s \in Live(tree),
                    tree.kind[t] = tree.kind[s],
                    s \notin Under(tree, t) \ {t}, t \notin Under(tree, s) \ {s},
                    NEW T, T = Clear(tree, t),
                    IF s = t THEN tree' = T
                    ELSE \E c \in CloneMaps(T, s, Free(T) \union {t}) :
                            c[s] = t /\ tree' = [CopyTo(T, s, c) EXCEPT !.error[t] = T.error[s]]
             PROVE  Dom!Next
  BY DEF AssignNode
<1>1. CASE s = t
  <2>1. tree' = Clear(tree, t)
    BY <1>1
  <2> QED  BY <2>1, ClearedForest
<1>2. CASE s # t
  <2>1. PICK c \in CloneMaps(T, s, Free(T) \union {t}) :
            c[s] = t /\ tree' = [CopyTo(T, s, c) EXCEPT !.error[t] = T.error[s]]
    BY <1>2
  <2>2. Sound(T) /\ MayCopy(T, s, c)
    BY <1>2, <2>1, AssignMayCopy DEF IInv
  <2> DEFINE V == CopyTo(T, s, c)
  <2>3. /\ tree'.kind = V.kind /\ tree'.name = V.name
        /\ tree'.first = V.first /\ tree'.next = V.next
    BY <2>1, <2>2, AssignFields DEF Live
  <2>4. s \notin Under(tree, t) /\ t \notin Under(tree, s)
    BY <1>2
  <2> QED  BY <1>2, <2>1, <2>3, <2>4, AssignedForest
<1> QED  BY <1>1, <1>2

\* Whatever the calls, with any number of nodes, the five links of each node implement
\* Forest's sequences of children: every call does to the sequences what Forest says, and
\* nothing else.
THEOREM TreeImplementsForest == TreeSpec => ImplementsForest
<1>1. IInv /\ [TreeNext]_tree => [Dom!Next]_(Dom!fvars)
  <2> SUFFICES ASSUME IInv, [TreeNext]_tree
               PROVE  [Dom!Next]_(Dom!fvars)
    OBVIOUS
  <2>1. CASE UNCHANGED tree
    BY <2>1 DEF Dom!fvars, Children
  <2> QED  BY <2>1, ForestNew, ForestLink, ForestInsertEnd, ForestInsertBefore, ForestInsertAfter,
              ForestReplaceChild, ForestErrors, ForestRemoveChild, ForestClearNode,
              ForestDeleteTree, ForestAssignNode DEF TreeNext
<1> QED  BY <1>1, ForestInit, TreeSound, PTL DEF TreeSpec, ImplementsForest, Dom!Spec
=============================================================================
