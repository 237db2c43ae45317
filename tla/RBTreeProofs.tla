----------------------------- MODULE RBTreeProofs -----------------------------
(***************************************************************************)
(* Proofs about RBTree, for any number of keys: at every moment its nodes  *)
(* are linked both ways and in the order of their keys, between calls it   *)
(* is a red-black tree, and it implements a set of keys.                   *)
(*                                                                         *)
(* The properties are defined by recursion over the tree.  The invariant   *)
(* is not: it says that there are a set U[n] of the nodes below each node  *)
(* and a number B[n] of black nodes on the paths down from it that obey    *)
(* the equations the recursions stand for, and every step of the code says *)
(* how they change.  That the recursions compute the same is shown once.   *)
(***************************************************************************)
EXTENDS RBTreeProperties, FiniteSetTheorems, WellFoundedInduction, TLAPS

-----------------------------------------------------------------------------
(* The shape of a tree.                                                    *)

TreeRecord == [root: Node, child: [Dir -> [Node -> Node]], parent: [Node -> Node],
               red: SUBSET Key, size: Nat]

\* j belongs on side d of n, in a tree whose desc is r.
Side(r, d, j, n) == IF r = (d = "left") THEN j > n ELSE j < n

\* U[n] is n and what hangs below it.
Spans(t, U) ==
  /\ U \in [Node -> SUBSET Key]
  /\ U[Nil] = {}
  /\ \A n \in Key : U[n] = {n} \cup U[t.child["left"][n]] \cup U[t.child["right"][n]]

\* The nodes are in order and linked both ways, the sentinel has no children,
\* and a node outside the tree has none either.
Shape(r, t, U) ==
  /\ r \in BOOLEAN
  /\ t \in TreeRecord
  /\ Spans(t, U)
  /\ \A n \in Key, d \in Dir : \A j \in U[t.child[d][n]] : Side(r, d, j, n)
  /\ \A n \in Key, d \in Dir : t.child[d][n] # Nil => t.parent[t.child[d][n]] = n
  /\ \A d \in Dir : t.child[d][Nil] = Nil
  /\ t.root # Nil => t.parent[t.root] = Nil
  /\ \A n \in Key \ U[t.root], d \in Dir : t.child[d][n] = Nil

\* The sentinel is not a key, and there are two sides.
LEMMA Basics ==
  /\ Key \subseteq Int /\ Node = Key \cup {Nil} /\ Nil \notin Key
  /\ Dir = {"left", "right"} /\ "left" # "right"
  /\ \A d \in Dir : Other(d) \in Dir /\ Other(d) # d /\ Other(Other(d)) = d
                    /\ Dir = {d, Other(d)}
  /\ IsFiniteSet(Key) /\ IsFiniteSet(Node)
<1>1. IsFiniteSet(Key)
  BY MaxKeyAssumption, FS_Interval DEF Key
<1>2. IsFiniteSet(Node)
  BY <1>1, FS_AddElement DEF Node
<1> QED BY <1>1, <1>2, MaxKeyAssumption DEF Key, Node, Nil, Dir, Other

\* A side is a strict order, and the other side its converse.
LEMMA SideOrder ==
  ASSUME NEW r \in BOOLEAN, NEW d \in Dir, NEW i \in Key, NEW j \in Key, NEW k \in Key
  PROVE  /\ Side(r, d, i, j) => i # j /\ ~Side(r, d, j, i)
         /\ Side(r, d, i, j) /\ Side(r, d, j, k) => Side(r, d, i, k)
         /\ Side(r, Other(d), i, j) <=> Side(r, d, j, i)
         /\ i # j => Side(r, d, i, j) \/ Side(r, d, j, i)
BY Basics DEF Side, Dir, Other

\* A node hangs from one place.
LEMMA OnePlace ==
  ASSUME NEW r, NEW t, NEW U, Shape(r, t, U), NEW n \in Key, NEW p \in Node, NEW q \in Node,
         NEW d \in Dir, NEW e \in Dir, t.child[d][p] = n, t.child[e][q] = n
  PROVE  p = q /\ d = e /\ p \in Key /\ t.parent[n] = p
<1>1. p \in Key /\ q \in Key
  <2>1. t.child[d][Nil] = Nil /\ t.child[e][Nil] = Nil
    BY DEF Shape
  <2> QED BY <2>1, Basics
<1>2. p = t.parent[n] /\ q = t.parent[n]
  <2>1. /\ t.child[d][p] # Nil => t.parent[t.child[d][p]] = p
        /\ t.child[e][q] # Nil => t.parent[t.child[e][q]] = q
    BY <1>1 DEF Shape
  <2>2. n # Nil
    BY Basics
  <2> QED BY <2>1, <2>2
<1>3. n \in U[n]
  BY DEF Shape, Spans
<1>4. Side(r, d, n, p) /\ Side(r, e, n, p)
  <2>1. n \in U[t.child[d][p]] /\ n \in U[t.child[e][p]]
    BY <1>2, <1>3
  <2> QED BY <1>1, <2>1 DEF Shape
<1>5. d = e
  <2> SUFFICES ASSUME d # e PROVE FALSE
    OBVIOUS
  <2>1. e = Other(d)
    BY Basics
  <2> QED BY <1>1, <1>4, <2>1, SideOrder DEF Shape
<1> QED BY <1>1, <1>2, <1>5

\* What is on either side of a node.
LEMMA Halves ==
  ASSUME NEW r, NEW t, NEW U, Shape(r, t, U), NEW n \in Key, NEW d \in Dir
  PROVE  /\ U[n] = {n} \cup U[t.child[d][n]] \cup U[t.child[Other(d)][n]]
         /\ U[t.child[d][n]] \cap U[t.child[Other(d)][n]] = {}
         /\ n \notin U[t.child[d][n]]
         /\ t.child[d][n] \in Node
         /\ U[t.child[d][n]] \subseteq Key
         /\ \A m \in Key : m \in U[m]
<1>1. t.child[d][n] \in Node /\ t.child[Other(d)][n] \in Node
  BY Basics DEF Shape, TreeRecord
<1>2. U[t.child[d][n]] \subseteq Key /\ U[t.child[Other(d)][n]] \subseteq Key
  BY <1>1 DEF Shape, Spans
<1>3. U[n] = {n} \cup U[t.child[d][n]] \cup U[t.child[Other(d)][n]]
  BY DEF Shape, Spans, Dir, Other
<1>4. /\ \A j \in U[t.child[d][n]] : Side(r, d, j, n)
      /\ \A j \in U[t.child[Other(d)][n]] : Side(r, Other(d), j, n)
  BY Basics DEF Shape
<1>5. U[t.child[d][n]] \cap U[t.child[Other(d)][n]] = {} /\ n \notin U[t.child[d][n]]
  BY <1>2, <1>4, SideOrder DEF Shape
<1>6. \A m \in Key : m \in U[m]
  BY DEF Shape, Spans
<1> QED BY <1>1, <1>2, <1>3, <1>5, <1>6

\* Of some nodes, one with as little below it as any.
LEMMA Lowest ==
  ASSUME NEW r, NEW t, NEW U, Shape(r, t, U), NEW S \in SUBSET Node, S # {}
  PROVE  \E n \in S : \A m \in S : U[m] \subseteq U[n] => U[m] = U[n]
<1> DEFINE T == {U[n] : n \in S}
<1>1. T \subseteq SUBSET Key /\ T # {}
  BY DEF Shape, Spans
<1>2. IsWellFoundedOn(StrictSubsetOrdering(Key), SUBSET Key)
  <2>1. IsFiniteSet(Key)
    BY Basics
  <2> QED BY <2>1, FS_StrictSubsetOrderingWellFounded, FS_FiniteSubsetsOfFinite
<1>3. \E s \in T : \A u \in T : <<u, s>> \notin StrictSubsetOrdering(Key)
  <2> HIDE DEF T
  <2> QED BY <1>1, <1>2, WFMin, Zenon
<1>4. PICK n \in S : \A u \in T : <<u, U[n]>> \notin StrictSubsetOrdering(Key)
  BY <1>3
<1>5. \A m \in S : <<U[m], U[n]>> \notin StrictSubsetOrdering(Key)
  BY <1>4
<1>6. \A m \in S : U[m] \in SUBSET Key /\ n \in Node /\ U[n] \in SUBSET Key
  BY DEF Shape, Spans
<1> QED BY <1>4, <1>5, <1>6 DEF StrictSubsetOrdering

\* What is below a node is below whatever that is below.
LEMMA Nested ==
  ASSUME NEW r, NEW t, NEW U, Shape(r, t, U), NEW a \in Node, NEW b \in U[a]
  PROVE  b \in Key /\ U[b] \subseteq U[a]
<1> DEFINE Bad == {n \in Node : \E m \in U[n] : ~(U[m] \subseteq U[n])}
<1>0. \A n \in Node : U[n] \subseteq Key
  BY DEF Shape, Spans
<1> SUFFICES ASSUME Bad # {} PROVE FALSE
  BY <1>0
<1>1. PICK n \in Bad : \A m \in Bad : U[m] \subseteq U[n] => U[m] = U[n]
  <2> HIDE DEF Bad
  <2>1. Bad \in SUBSET Node
    BY DEF Bad
  <2> QED BY <2>1, Lowest
<1>2. PICK m \in U[n] : ~(U[m] \subseteq U[n])
  OBVIOUS
<1>3. n \in Key
  BY <1>2, Basics DEF Shape, Spans
<1>4. m # n
  BY <1>2
<1>5. PICK d \in Dir : m \in U[t.child[d][n]]
  BY <1>2, <1>3, <1>4 DEF Shape, Spans, Dir
<1> DEFINE c == t.child[d][n]
<1>6. U[c] \subseteq U[n] /\ n \notin U[c] /\ n \in U[n] /\ c \in Node
  BY <1>3, Halves
<1>7. c \notin Bad
  BY <1>1, <1>6
<1> QED BY <1>2, <1>5, <1>6, <1>7
\* A node of the tree hangs from its parent, unless it is the root.
LEMMA Parents ==
  ASSUME NEW r, NEW t, NEW U, Shape(r, t, U), NEW n \in U[t.root]
  PROVE  /\ n \in Key /\ t.root \in Key /\ t.root \in U[t.root]
         /\ n = t.root <=> t.parent[n] = Nil
         /\ n # t.root => /\ t.parent[n] \in U[t.root] /\ t.parent[n] \in Key
                          /\ SideOf(t, n) \in Dir
                          /\ t.child[SideOf(t, n)][t.parent[n]] = n
<1>1. t.root \in Node
  BY DEF Shape, TreeRecord
<1>2. t.root \in Key /\ t.root # Nil /\ n \in Key
  BY <1>1, Basics DEF Shape, Spans
<1>3. t.root \in U[t.root] /\ t.parent[t.root] = Nil
  BY <1>2 DEF Shape, Spans
<1>4. ASSUME n # t.root
      PROVE  /\ t.parent[n] \in U[t.root] /\ t.parent[n] \in Key
             /\ SideOf(t, n) \in Dir
             /\ t.child[SideOf(t, n)][t.parent[n]] = n
  <2> DEFINE S == {a \in U[t.root] : n \in U[a] /\ n # a}
  <2>1. t.root \in S /\ S \in SUBSET Node
    BY <1>2, <1>3, <1>4, Basics DEF Shape, Spans
  <2>2. PICK a \in S : \A m \in S : U[m] \subseteq U[a] => U[m] = U[a]
    <3> HIDE DEF S
    <3> QED BY <2>1, Lowest
  <2>3. a \in U[t.root] /\ a \in Key /\ n \in U[a] /\ n # a
    BY <1>1 DEF Shape, Spans
  <2>4. PICK d \in Dir : n \in U[t.child[d][a]]
    BY <2>3 DEF Shape, Spans, Dir
  <2> DEFINE c == t.child[d][a]
  <2>5. U[c] \subseteq U[a] /\ a \notin U[c] /\ a \in U[a] /\ c \in Node
    BY <2>3, Halves
  <2>6. c # Nil
    BY <2>4 DEF Shape, Spans
  <2>7. c \in Key /\ c \in U[c]
    BY <2>5, <2>6, Basics DEF Shape, Spans
  <2>8. c \in U[t.root]
    BY <1>1, <2>3, <2>5, <2>7, Nested
  <2>9. c = n
    BY <2>2, <2>4, <2>5, <2>8
  <2>10. t.parent[n] = a
    BY <2>3, <2>6, <2>9 DEF Shape
  <2>11. t.child[d][a] = n /\ d \in Dir
    BY <2>9
  <2> HIDE DEF S, c
  <2> QED BY <2>3, <2>10, <2>11 DEF SideOf, Dir
<1> QED BY <1>2, <1>3, <1>4, Basics

-----------------------------------------------------------------------------
(* Writing to a tree.                                                      *)

\* u is t with child y on side d of p,
ChildPut(t, d, p, y, u) ==
  /\ u \in TreeRecord
  /\ u.root = t.root /\ u.parent = t.parent /\ u.red = t.red /\ u.size = t.size
  /\ \A n \in Node, f \in Dir :
       u.child[f][n] = IF f = d /\ n = p THEN y ELSE t.child[f][n]

\* with p the parent of m,
ParentPut(t, m, p, u) ==
  /\ u \in TreeRecord
  /\ u.root = t.root /\ u.child = t.child /\ u.red = t.red /\ u.size = t.size
  /\ \A n \in Node : u.parent[n] = IF n = m THEN p ELSE t.parent[n]

\* with both,
BothPut(t, d, p, y, u) ==
  /\ u \in TreeRecord
  /\ u.root = t.root /\ u.red = t.red /\ u.size = t.size
  /\ \A n \in Node, f \in Dir :
       u.child[f][n] = IF f = d /\ n = p THEN y ELSE t.child[f][n]
  /\ \A n \in Node : u.parent[n] = IF n = y THEN p ELSE t.parent[n]

\* with other red nodes,
Painted(t, R, u) ==
  /\ u \in TreeRecord /\ u.red = R
  /\ u.root = t.root /\ u.child = t.child /\ u.parent = t.parent /\ u.size = t.size

\* or with v in the place of n.
Moved(t, n, v, u) ==
  /\ u \in TreeRecord
  /\ u.red = t.red /\ u.size = t.size
  /\ u.root = IF t.parent[n] = Nil THEN v ELSE t.root
  /\ \A m \in Node, f \in Dir :
       u.child[f][m] = IF t.parent[n] # Nil /\ m = t.parent[n] /\ f = SideOf(t, n) THEN v
                       ELSE t.child[f][m]
  /\ \A m \in Node : u.parent[m] = IF m = v THEN t.parent[n] ELSE t.parent[m]

LEMMA PutsChild ==
  ASSUME NEW t \in TreeRecord, NEW d \in Dir, NEW p \in Node, NEW y \in Node
  PROVE  ChildPut(t, d, p, y, SetChild(t, d, p, y))
<1> DEFINE k == [t.child[d] EXCEPT ![p] = y]
           c == [t.child EXCEPT ![d] = k]
           u == [t EXCEPT !.child = c]
<1>1. t.child \in [Dir -> [Node -> Node]]
  BY DEF TreeRecord
<1>2. k \in [Node -> Node] /\ \A n \in Node : k[n] = IF n = p THEN y ELSE t.child[d][n]
  BY <1>1
<1>3. u = SetChild(t, d, p, y)
  BY DEF SetChild
<1> HIDE DEF k
<1>4. /\ c \in [Dir -> [Node -> Node]]
      /\ \A n \in Node, f \in Dir : c[f][n] = IF f = d /\ n = p THEN y ELSE t.child[f][n]
  BY <1>1, <1>2
<1> HIDE DEF c
<1>5. /\ u \in TreeRecord /\ u.child = c
      /\ u.root = t.root /\ u.parent = t.parent /\ u.red = t.red /\ u.size = t.size
  BY <1>4 DEF TreeRecord
<1> HIDE DEF u
<1>6. ChildPut(t, d, p, y, u)
  BY <1>4, <1>5 DEF ChildPut
<1> QED BY <1>3, <1>6

LEMMA PutsParent ==
  ASSUME NEW t \in TreeRecord, NEW m \in Node, NEW p \in Node
  PROVE  ParentPut(t, m, p, SetParent(t, m, p))
<1> DEFINE k == [t.parent EXCEPT ![m] = p]
           u == [t EXCEPT !.parent = k]
<1>1. /\ k \in [Node -> Node]
      /\ \A n \in Node : k[n] = IF n = m THEN p ELSE t.parent[n]
  BY DEF TreeRecord
<1>2. u = SetParent(t, m, p)
  BY DEF SetParent
<1> HIDE DEF k
<1>3. /\ u \in TreeRecord /\ u.parent = k
      /\ u.root = t.root /\ u.child = t.child /\ u.red = t.red /\ u.size = t.size
  BY <1>1 DEF TreeRecord
<1> HIDE DEF u
<1>4. ParentPut(t, m, p, u)
  BY <1>1, <1>3 DEF ParentPut
<1> QED BY <1>2, <1>4

LEMMA PutsBoth ==
  ASSUME NEW t \in TreeRecord, NEW d \in Dir, NEW p \in Node, NEW y \in Node
  PROVE  BothPut(t, d, p, y, Attach(t, d, p, y))
<1> DEFINE s == SetChild(t, d, p, y)
           u == SetParent(s, y, p)
<1>1. ChildPut(t, d, p, y, s)
  BY PutsChild
<1>2. Attach(t, d, p, y) = u
  BY DEF Attach
<1> HIDE DEF s
<1>3. ParentPut(s, y, p, u)
  <2>1. s \in TreeRecord
    BY <1>1 DEF ChildPut
  <2> QED BY <2>1, PutsParent
<1> HIDE DEF u
<1>4. BothPut(t, d, p, y, u)
  BY <1>1, <1>3 DEF BothPut, ChildPut, ParentPut
<1> QED BY <1>2, <1>4

LEMMA Paints ==
  ASSUME NEW t \in TreeRecord, NEW R \in SUBSET Key
  PROVE  Painted(t, R, Paint(t, R))
BY DEF Painted, Paint, TreeRecord

LEMMA Transplants ==
  ASSUME NEW t \in TreeRecord, NEW n \in Node, NEW v \in Node
  PROVE  Moved(t, n, v, Transplant(t, n, v))
<1> DEFINE p == t.parent[n]
           s == Replace(t, n, v)
           u == SetParent(s, v, p)
<1>1. p \in Node /\ SideOf(t, n) \in Dir
  BY DEF TreeRecord, SideOf, Dir
<1>2. /\ s \in TreeRecord
      /\ s.parent = t.parent /\ s.red = t.red /\ s.size = t.size
      /\ s.root = IF p = Nil THEN v ELSE t.root
      /\ \A m \in Node, f \in Dir :
           s.child[f][m] = IF p # Nil /\ m = p /\ f = SideOf(t, n) THEN v
                           ELSE t.child[f][m]
  <2>1. CASE p = Nil
    <3>1. s = [t EXCEPT !.root = v]
      BY <2>1 DEF Replace
    <3> HIDE DEF s
    <3> QED BY <2>1, <3>1 DEF TreeRecord
  <2>2. CASE p # Nil
    <3>1. s = SetChild(t, SideOf(t, n), p, v)
      BY <2>2 DEF Replace
    <3>2. ChildPut(t, SideOf(t, n), p, v, s)
      <4> HIDE DEF s, p
      <4> QED BY <1>1, <3>1, PutsChild
    <3> HIDE DEF s, p
    <3> QED BY <2>2, <3>2 DEF ChildPut
  <2> QED BY <2>1, <2>2
<1>3. Transplant(t, n, v) = u
  BY DEF Transplant
<1> HIDE DEF s
<1>4. ParentPut(s, v, p, u)
  BY <1>1, <1>2, PutsParent
<1> HIDE DEF u
<1>5. Moved(t, n, v, u)
  BY <1>2, <1>4 DEF Moved, ParentPut
<1> QED BY <1>3, <1>5

-----------------------------------------------------------------------------
(* Rotations.                                                              *)

\* What a rotation at x makes of a tree: y comes up, x goes down, and what hung
\* between them changes sides.
Rotated(t, x, d, y, u) ==
  LET b == t.child[d][y]
  IN  /\ u \in TreeRecord
      /\ u.red = t.red /\ u.size = t.size
      /\ u.root = IF x = t.root THEN y ELSE t.root
      /\ \A n \in Node, f \in Dir :
           u.child[f][n] = IF n = y /\ f = d THEN x
                           ELSE IF n = x /\ f = Other(d) THEN b
                           ELSE IF t.child[f][n] = x THEN y
                           ELSE t.child[f][n]
      /\ \A n \in Key : u.parent[n] = IF n = x THEN y
                                      ELSE IF n = y THEN t.parent[x]
                                      ELSE IF n = b THEN x
                                      ELSE t.parent[n]

LEMMA RotateFields ==
  ASSUME NEW r, NEW t, NEW U, Shape(r, t, U), NEW x \in U[t.root], NEW d \in Dir,
         t.child[Other(d)][x] # Nil
  PROVE  Rotated(t, x, d, t.child[Other(d)][x], Rotate(t, x, d))
<1> DEFINE e == Other(d)
           y == t.child[e][x]
           b == t.child[d][y]
           p == t.parent[x]
           s == IF b = Nil THEN SetChild(t, e, x, Nil) ELSE Attach(t, e, x, b)
           v == Transplant(s, x, y)
           u == Rotate(t, x, d)
<1>1. x \in Key /\ e \in Dir /\ e # d /\ t \in TreeRecord /\ Key \subseteq Node
  BY Parents, Basics DEF Shape
<1>2. y \in Key /\ b \in Node /\ p \in Node
  <2>1. y \in Node
    BY <1>1 DEF TreeRecord
  <2>2. y \in Key
    BY <2>1, Basics
  <2> QED BY <1>1, <2>2 DEF TreeRecord
<1>3. x # y /\ y \in U[y]
  BY <1>1, <1>2, Halves
<1>4. b # x /\ b # y
  <2>1. x \notin U[y]
    BY <1>1, Halves
  <2>2. U[b] \subseteq U[y] /\ y \notin U[b]
    BY <1>2, Halves
  <2>3. b \in Key => b \in U[b]
    BY <1>1, Halves
  <2> QED BY <1>1, <1>2, <2>1, <2>2, <2>3
<1>5. /\ x = t.root <=> p = Nil
      /\ x # t.root => p \in Key /\ SideOf(t, x) \in Dir /\ t.child[SideOf(t, x)][p] = x
  BY Parents
<1>6. u = Attach(v, d, y, x)
  BY DEF Rotate
<1>7. /\ s \in TreeRecord
      /\ s.root = t.root /\ s.red = t.red /\ s.size = t.size
      /\ \A n \in Node, f \in Dir :
           s.child[f][n] = IF f = e /\ n = x THEN b ELSE t.child[f][n]
      /\ \A n \in Key : s.parent[n] = IF n = b THEN x ELSE t.parent[n]
  <2>0. x \in Node /\ Nil \in Node /\ Nil \notin Key
    BY <1>1, Basics
  <2>1. CASE b = Nil
    <3>1. s = SetChild(t, e, x, Nil)
      BY <2>1
    <3>2. ChildPut(t, e, x, Nil, s)
      <4> HIDE DEF s, b, e
      <4> QED BY <1>1, <2>0, <3>1, PutsChild
    <3> HIDE DEF s, b, e
    <3> QED BY <2>0, <2>1, <3>2 DEF ChildPut
  <2>2. CASE b # Nil
    <3>1. s = Attach(t, e, x, b)
      BY <2>2
    <3>2. BothPut(t, e, x, b, s)
      <4> HIDE DEF s, b, e
      <4> QED BY <1>1, <1>2, <2>0, <3>1, PutsBoth
    <3> HIDE DEF s, b, e
    <3> QED BY <1>1, <2>2, <3>2 DEF BothPut
  <2> QED BY <2>1, <2>2, Zenon
<1> HIDE DEF s
<1>8. s.parent[x] = p
  BY <1>1, <1>4, <1>7
<1>9. SideOf(s, x) = SideOf(t, x)
  <2>1. p # x
    <3>1. ASSUME p = x
          PROVE  FALSE
      <4>1. t.child[SideOf(t, x)][x] = x /\ SideOf(t, x) \in Dir
        BY <1>1, <1>5, <3>1, Basics
      <4>2. x \notin U[t.child[SideOf(t, x)][x]] /\ x \in U[x]
        BY <1>1, <4>1, Halves
      <4> QED BY <4>1, <4>2
    <3> QED BY <3>1
  <2>2. s.child["left"][p] = t.child["left"][p]
    BY <1>2, <1>7, <2>1 DEF Dir
  <2> QED BY <1>8, <2>2 DEF SideOf
<1>10. \A n \in Node, f \in Dir : t.child[f][n] = x =>
        n = p /\ f = SideOf(t, x) /\ x # t.root
  <2> TAKE n \in Node, f \in Dir
  <2> HAVE t.child[f][n] = x
  <2>1. n \in Key /\ n = p
    BY <1>1, OnePlace
  <2>2. x # t.root
    BY <1>5, <2>1, Basics
  <2>3. f = SideOf(t, x)
    BY <1>1, <1>5, <2>1, <2>2, OnePlace
  <2> QED BY <2>1, <2>2, <2>3
<1> HIDE DEF u, y, b, e
<1>11. /\ v \in TreeRecord
       /\ v.red = t.red /\ v.size = t.size
       /\ v.root = IF p = Nil THEN y ELSE t.root
       /\ \A n \in Node, f \in Dir :
            v.child[f][n] = IF p # Nil /\ n = p /\ f = SideOf(t, x) THEN y
                            ELSE s.child[f][n]
       /\ \A n \in Node : v.parent[n] = IF n = y THEN p ELSE s.parent[n]
  <2>1. Moved(s, x, y, v)
    BY <1>1, <1>2, <1>7, Transplants
  <2> HIDE DEF v
  <2>2. s.parent[x] = p /\ SideOf(s, x) = SideOf(t, x)
    BY <1>8, <1>9
  <2> HIDE DEF p
  <2> QED BY <1>7, <2>1, <2>2 DEF Moved
<1> HIDE DEF v, p
<1>12. /\ u \in TreeRecord /\ u.root = v.root /\ u.red = t.red /\ u.size = t.size
       /\ \A n \in Node, f \in Dir :
            u.child[f][n] = IF f = d /\ n = y THEN x ELSE v.child[f][n]
       /\ \A n \in Node : u.parent[n] = IF n = x THEN y ELSE v.parent[n]
  <2>1. BothPut(v, d, y, x, u)
    BY <1>1, <1>2, <1>6, <1>11, PutsBoth
  <2> QED BY <1>11, <2>1 DEF BothPut
<1>13. \A n \in Node, f \in Dir :
          u.child[f][n] = IF n = y /\ f = d THEN x
                          ELSE IF n = x /\ f = e THEN b
                          ELSE IF t.child[f][n] = x THEN y
                          ELSE t.child[f][n]
  <2> TAKE n \in Node, f \in Dir
  <2>1. n = x => ~(p # Nil /\ n = p /\ f = SideOf(t, x))
    <3>1. t.child[f][x] # x
      <4>1. x \notin U[t.child[f][x]] /\ x \in U[x]
        BY <1>1, Halves
      <4> QED BY <4>1
    <3> QED BY <1>5, <3>1 DEF p
  <2>2. t.child[f][n] = x <=> p # Nil /\ n = p /\ f = SideOf(t, x)
    BY <1>5, <1>10 DEF p
  <2> QED BY <1>7, <1>11, <1>12, <2>1, <2>2
<1>14. \A n \in Key : u.parent[n] = IF n = x THEN y
                                    ELSE IF n = y THEN p
                                    ELSE IF n = b THEN x
                                    ELSE t.parent[n]
  BY <1>1, <1>7, <1>11, <1>12
<1>15. u.root = IF x = t.root THEN y ELSE t.root
  BY <1>5, <1>11, <1>12 DEF p
<1>16. Rotated(t, x, d, y, u)
  BY <1>12, <1>13, <1>14, <1>15 DEF Rotated, b, e, p
<1> QED BY <1>16 DEF u, y, e

\* What is below the nodes then.
Lifted(t, U, x, d, y) ==
  [U EXCEPT ![y] = U[x],
            ![x] = {x} \cup U[t.child[d][x]] \cup U[t.child[d][y]]]

\* The nodes about a rotation.
Around(t, U, x, d, y) ==
  LET e == Other(d)
      a == t.child[d][x]
      b == t.child[d][y]
      c == t.child[e][y]
  IN  /\ x \in Key /\ e \in Dir /\ e # d /\ Dir = {d, e} /\ x # y
      /\ a \in Node /\ b \in Node /\ c \in Node
      /\ a # x /\ a # y /\ b # x /\ b # y /\ c # x /\ c # y
      /\ U[x] = {x} \cup U[a] \cup U[y]
      /\ U[y] = {y} \cup U[b] \cup U[c]
      /\ y \in U[t.root] /\ y # t.root
      /\ \A n \in Key, f \in Dir : t.child[f][n] = y => n = x /\ f = e
      /\ \A n \in Key, f \in Dir : t.child[f][n] # n

LEMMA RotationNodes ==
  ASSUME NEW r, NEW t, NEW U, Shape(r, t, U), NEW x \in U[t.root], NEW d \in Dir,
         NEW y \in Key, t.child[Other(d)][x] = y
  PROVE  Around(t, U, x, d, y)
<1> DEFINE e == Other(d)
           a == t.child[d][x]
           b == t.child[d][y]
           c == t.child[e][y]
<1>1. x \in Key /\ e \in Dir /\ e # d /\ Dir = {d, e} /\ Key \subseteq Node /\ Nil \notin Key
  BY Parents, Basics
<1>2. \A n \in Key, f \in Dir : t.child[f][n] = y => n = x /\ f = e
  BY <1>1, OnePlace
<1>3. \A n \in Key, f \in Dir : n \notin U[t.child[f][n]] /\ t.child[f][n] \in Node
  BY Halves
<1>4. \A m \in Key : m \in U[m]
  BY <1>1, Halves
<1>5. \A n \in Key, f \in Dir : t.child[f][n] # n
  BY <1>3, <1>4
<1>6. /\ U[x] = {x} \cup U[a] \cup U[y]
      /\ U[y] = {y} \cup U[b] \cup U[c]
  BY <1>1, Halves
<1>7. x # y /\ a # y /\ a # x /\ b # y /\ c # y
  BY <1>1, <1>2, <1>5
<1>8. x \notin U[y]
  BY <1>1, <1>3
<1>9. b # x /\ c # x
  BY <1>1, <1>4, <1>6, <1>8
<1>10. y \in U[t.root]
  <2>1. t.root \in Node
    BY DEF Shape, TreeRecord
  <2>2. U[x] \subseteq U[t.root]
    BY <2>1, Nested
  <2> QED BY <1>4, <1>6, <2>2
<1>11. y # t.root
  <2>1. t.parent[y] = x
    BY <1>1 DEF Shape
  <2> QED BY <1>1, <1>10, <2>1, Parents
<1> QED BY <1>1, <1>2, <1>3, <1>5, <1>6, <1>7, <1>9, <1>10, <1>11 DEF Around

\* A rotation keeps the shape, and every node.
LEMMA RotateKeepsShape ==
  ASSUME NEW r, NEW t, NEW U, Shape(r, t, U), NEW x \in U[t.root], NEW d \in Dir,
         NEW y \in Key, t.child[Other(d)][x] = y, NEW u, Rotated(t, x, d, y, u)
  PROVE  /\ Shape(r, u, Lifted(t, U, x, d, y))
         /\ Lifted(t, U, x, d, y)[u.root] = U[t.root]
<1> DEFINE V == Lifted(t, U, x, d, y)
           e == Other(d)
           a == t.child[d][x]
           b == t.child[d][y]
           c == t.child[e][y]
<1>1. /\ x \in Key /\ e \in Dir /\ e # d /\ Dir = {d, e} /\ x # y
      /\ a \in Node /\ b \in Node /\ c \in Node
      /\ a # x /\ a # y /\ b # x /\ b # y /\ c # x /\ c # y
      /\ U[x] = {x} \cup U[a] \cup U[y]
      /\ U[y] = {y} \cup U[b] \cup U[c]
      /\ y \in U[t.root] /\ y # t.root
      /\ \A n \in Key, f \in Dir : t.child[f][n] = y => n = x /\ f = e
  <2>1. Around(t, U, x, d, y)
    BY RotationNodes
  <2> QED BY <2>1 DEF Around
<1>2. Key \subseteq Node /\ Nil \in Node /\ Nil \notin Key /\ Node = Key \cup {Nil}
  BY Basics
<1>3. /\ U \in [Node -> SUBSET Key] /\ U[Nil] = {}
      /\ t.root \in Node
      /\ \A n \in Node, f \in Dir : t.child[f][n] \in Node
  BY DEF Shape, Spans, TreeRecord
<1>4. /\ V \in [Node -> SUBSET Key]
      /\ V[y] = U[x]
      /\ V[x] = {x} \cup U[a] \cup U[b]
      /\ \A n \in Node : n # x /\ n # y => V[n] = U[n]
  BY <1>1, <1>2, <1>3 DEF Lifted
<1>5. /\ \A n \in Node, f \in Dir :
           u.child[f][n] = IF n = y /\ f = d THEN x
                           ELSE IF n = x /\ f = e THEN b
                           ELSE IF t.child[f][n] = x THEN y
                           ELSE t.child[f][n]
      /\ \A n \in Key : u.parent[n] = IF n = x THEN y
                                      ELSE IF n = y THEN t.parent[x]
                                      ELSE IF n = b THEN x
                                      ELSE t.parent[n]
      /\ u.root = IF x = t.root THEN y ELSE t.root
      /\ u \in TreeRecord
  BY DEF Rotated
<1>6. /\ u.child[d][x] = a /\ u.child[e][x] = b
      /\ u.child[d][y] = x /\ u.child[e][y] = c
  BY <1>1, <1>2, <1>5
<1> HIDE DEF V, e, a, b, c
<1>7. \A n \in Key, f \in Dir : n # x /\ n # y => V[u.child[f][n]] = U[t.child[f][n]]
  <2> TAKE n \in Key, f \in Dir
  <2> HAVE n # x /\ n # y
  <2>1. t.child[f][n] # y
    BY <1>1
  <2>2. u.child[f][n] = IF t.child[f][n] = x THEN y ELSE t.child[f][n]
    BY <1>2, <1>5
  <2> QED BY <1>2, <1>3, <1>4, <2>1, <2>2
<1>8. \A n \in Key : U[n] = {n} \cup U[t.child[d][n]] \cup U[t.child[e][n]]
  BY Halves DEF e
<1>9. \A n \in Key : V[n] = {n} \cup V[u.child[d][n]] \cup V[u.child[e][n]]
  <2> TAKE n \in Key
  <2>1. CASE n = x
    BY <1>1, <1>4, <1>6, <2>1
  <2>2. CASE n = y
    BY <1>1, <1>4, <1>6, <2>2
  <2>3. CASE n # x /\ n # y
    BY <1>1, <1>2, <1>4, <1>7, <1>8, <2>3
  <2> QED BY <2>1, <2>2, <2>3
<1>10. Spans(u, V)
  <2>1. V[Nil] = {}
    BY <1>1, <1>2, <1>3, <1>4
  <2>2. \A n \in Key : V[n] = {n} \cup V[u.child["left"][n]] \cup V[u.child["right"][n]]
    BY <1>1, <1>9 DEF Dir
  <2> QED BY <1>4, <2>1, <2>2 DEF Spans
<1>11. /\ r \in BOOLEAN
       /\ \A n \in Key, f \in Dir : \A j \in U[t.child[f][n]] : Side(r, f, j, n)
  BY DEF Shape
<1>12. Side(r, d, x, y)
  <2>1. Side(r, e, y, x)
    BY <1>1, <1>11 DEF e
  <2> QED BY <1>1, <1>11, <2>1, SideOrder DEF e
<1>13. \A n \in Key, f \in Dir : \A j \in V[u.child[f][n]] : Side(r, f, j, n)
  <2> TAKE n \in Key, f \in Dir
  <2> TAKE j \in V[u.child[f][n]]
  <2>1. CASE n = x /\ f = d
    BY <1>1, <1>4, <1>6, <1>11, <2>1 DEF a
  <2>2. CASE n = x /\ f = e
    <3>1. j \in U[y]
      BY <1>1, <1>4, <1>6, <2>2
    <3> QED BY <1>1, <1>11, <2>2, <3>1 DEF e
  <2>3. CASE n = y /\ f = d
    <3>1. j \in {x} \cup U[a] \cup U[b]
      BY <1>4, <1>6, <2>3
    <3>2. CASE j \in U[a]
      <4>1. Side(r, d, j, x) /\ j \in Key
        BY <1>1, <1>3, <1>11, <3>2 DEF a
      <4> QED BY <1>1, <1>11, <1>12, <2>3, <4>1, SideOrder
    <3>3. CASE j \in U[b]
      BY <1>1, <1>11, <2>3, <3>3 DEF b
    <3> QED BY <1>12, <2>3, <3>1, <3>2, <3>3
  <2>4. CASE n = y /\ f = e
    BY <1>1, <1>4, <1>6, <1>11, <2>4 DEF c
  <2>5. CASE n # x /\ n # y
    BY <1>7, <1>11, <2>5
  <2> QED BY <1>1, <2>1, <2>2, <2>3, <2>4, <2>5
<1>14. \A n \in Key, f \in Dir : t.child[f][n] # Nil => t.parent[t.child[f][n]] = n
  BY DEF Shape
<1>15. \A n \in Key, f \in Dir : u.child[f][n] # Nil => u.parent[u.child[f][n]] = n
  <2> TAKE n \in Key, f \in Dir
  <2> DEFINE m == u.child[f][n]
  <2> HAVE m # Nil
  <2>0. b \in Key => t.parent[b] = y
    BY <1>1, <1>2, <1>14 DEF b
  <2>1. CASE n = x /\ f = d
    <3>1. m = a /\ a \in Key /\ t.parent[a] = x
      BY <1>1, <1>2, <1>6, <1>14, <2>1 DEF a
    <3> QED BY <1>1, <1>5, <2>0, <2>1, <3>1
  <2>2. CASE n = x /\ f = e
    BY <1>1, <1>2, <1>5, <1>6, <2>2
  <2>3. CASE n = y /\ f = d
    BY <1>1, <1>5, <1>6, <2>3
  <2>4. CASE n = y /\ f = e
    <3>1. m = c /\ c \in Key /\ t.parent[c] = y
      BY <1>1, <1>2, <1>6, <1>14, <2>4 DEF c
    <3>2. c # b
      BY <1>1, <1>2, <3>1, OnePlace DEF b, c
    <3> QED BY <1>1, <1>5, <2>4, <3>1, <3>2
  <2>5. CASE n # x /\ n # y
    <3>1. m = IF t.child[f][n] = x THEN y ELSE t.child[f][n]
      BY <1>2, <1>5, <2>5
    <3>2. CASE t.child[f][n] = x
      BY <1>1, <1>2, <1>5, <1>14, <3>1, <3>2
    <3>3. CASE t.child[f][n] # x
      <4>1. m = t.child[f][n] /\ m \in Key /\ t.parent[m] = n /\ m # x /\ m # y
        BY <1>1, <1>2, <1>3, <1>14, <2>5, <3>1, <3>3
      <4> QED BY <1>5, <2>0, <2>5, <4>1
    <3> QED BY <3>2, <3>3
  <2> QED BY <1>1, <2>1, <2>2, <2>3, <2>4, <2>5
<1>21. \A f \in Dir : u.child[f][Nil] = Nil
  BY <1>1, <1>2, <1>5 DEF Shape
<1>17. u.root # Nil => u.parent[u.root] = Nil
  <2>1. t.root \in Key /\ t.parent[t.root] = Nil
    BY Parents
  <2>2. b # t.root
    <3>1. b \in Key => t.parent[b] = y
      BY <1>1, <1>2, <1>14 DEF b
    <3> QED BY <1>1, <1>2, <2>1, <3>1
  <2> QED BY <1>1, <1>5, <2>1, <2>2
<1>18. V[u.root] = U[t.root]
  BY <1>1, <1>3, <1>4, <1>5
<1>19. \A n \in Key \ V[u.root], f \in Dir : u.child[f][n] = Nil
  <2> TAKE n \in Key \ V[u.root], f \in Dir
  <2>1. n \notin U[t.root] /\ n # x /\ n # y
    BY <1>1, <1>18
  <2>2. t.child[f][n] = Nil
    BY <2>1 DEF Shape
  <2> QED BY <1>1, <1>2, <1>5, <2>1, <2>2
<1>20. Shape(r, u, V)
  BY <1>5, <1>10, <1>11, <1>13, <1>15, <1>21, <1>17, <1>19 DEF Shape
<1> QED BY <1>18, <1>20 DEF V

-----------------------------------------------------------------------------
(* Colours.                                                                *)

\* What n adds to the black nodes of a path through it.
Black(t, n) == IF n \in t.red THEN 0 ELSE 1

\* The one black that the paths on side s of p are short of, while p # Nil.
Gap(p, s, n, d) == IF n = p /\ d = s THEN 1 ELSE 0

\* B[n] is the number of black nodes on each path from n down.
HeightAt(t, B, p, s, n) ==
  \A d \in Dir : B[n] = B[t.child[d][n]] + Gap(p, s, n, d) + Black(t, n)

Heights(t, B, p, s) == /\ B \in [Node -> Nat]
                       /\ B[Nil] = 0
                       /\ \A n \in Key : HeightAt(t, B, p, s, n)

\* The same, but for some nodes.
LevelBut(t, B, p, s, S) == /\ B \in [Node -> Nat]
                           /\ B[Nil] = 0
                           /\ \A n \in Key \ S : HeightAt(t, B, p, s, n)

\* One gap is the other, away from some nodes.
SameGap(p, s, q, g, S) == \A n \in Key \ S, d \in Dir : Gap(q, g, n, d) = Gap(p, s, n, d)

\* A red node has no red child and the root is black, except that x may be red
\* under a red parent or as the root and, if lax, may have a red child.
Reds(t, U, x, lax) ==
  /\ t.red \subseteq U[t.root]
  /\ \A n \in Key, d \in Dir :
       n \in t.red /\ t.child[d][n] \in t.red => t.child[d][n] = x \/ (lax /\ n = x)
  /\ t.root \in t.red => t.root = x

\* Other colours, the same shape.
LEMMA Recoloured ==
  ASSUME NEW r, NEW t, NEW U, Shape(r, t, U), NEW R \in SUBSET Key
  PROVE  LET u == Paint(t, R)
         IN  /\ Shape(r, u, U)
             /\ u.root = t.root /\ u.child = t.child /\ u.parent = t.parent
             /\ u.red = R /\ u.size = t.size
<1> DEFINE u == Paint(t, R)
<1>1. t \in TreeRecord
  BY DEF Shape
<1>2. u.root = t.root /\ u.child = t.child /\ u.parent = t.parent
      /\ u.red = R /\ u.size = t.size /\ u \in TreeRecord
  BY <1>1, Paints DEF Painted
<1> HIDE DEF u
<1>3. Shape(r, u, U)
  BY <1>2 DEF Shape, Spans
<1> QED BY <1>2, <1>3 DEF u

\* Heights are numbers.
LEMMA HeightTypes ==
  ASSUME NEW r, NEW t, NEW U, Shape(r, t, U), NEW B \in [Node -> Nat],
         NEW n \in Key, NEW d \in Dir
  PROVE  /\ t.child[d][n] \in Node
         /\ B[t.child[d][n]] \in Nat /\ B[n] \in Nat
         /\ Black(t, n) \in Nat
<1>1. t.child[d][n] \in Node
  BY Basics DEF Shape, TreeRecord
<1> QED BY <1>1, Basics DEF Black

\* Away from the gap both sides of a node are as high,
LEMMA LevelSide ==
  ASSUME NEW r, NEW t, NEW U, Shape(r, t, U), NEW B \in [Node -> Nat],
         NEW p, NEW s, NEW n \in Key, HeightAt(t, B, p, s, n), NEW d \in Dir,
         n # p \/ d # s
  PROVE  B[n] = B[t.child[d][n]] + Black(t, n)
<1>1. Gap(p, s, n, d) = 0
  BY DEF Gap
<1>2. B[t.child[d][n]] \in Nat /\ Black(t, n) \in Nat
  BY HeightTypes
<1>3. B[n] = B[t.child[d][n]] + Gap(p, s, n, d) + Black(t, n)
  BY DEF HeightAt
<1> QED BY <1>1, <1>2, <1>3

\* and at the gap one lacks a black.
LEMMA ShortSide ==
  ASSUME NEW r, NEW t, NEW U, Shape(r, t, U), NEW B \in [Node -> Nat],
         NEW s \in Dir, NEW n \in Key, HeightAt(t, B, n, s, n)
  PROVE  B[n] = B[t.child[s][n]] + 1 + Black(t, n)
BY DEF HeightAt, Gap

\* A rotation after which the two nodes add up again, perhaps with the gap in
\* another place, keeps the heights.
LEMMA RotateKeepsHeights ==
  ASSUME NEW r, NEW t, NEW U, Shape(r, t, U), NEW x \in U[t.root], NEW d \in Dir,
         NEW y \in Key, t.child[Other(d)][x] = y, NEW u, Rotated(t, x, d, y, u),
         NEW B, NEW p, NEW s, NEW q, NEW g,
         LevelBut(t, B, p, s, {x, y}), SameGap(p, s, q, g, {x, y}), NEW h \in Nat,
         h = B[t.child[d][x]] + Gap(q, g, x, d) + Black(t, x),
         h = B[t.child[d][y]] + Gap(q, g, x, Other(d)) + Black(t, x),
         B[x] = h + Gap(q, g, y, d) + Black(t, y),
         B[x] = B[t.child[Other(d)][y]] + Gap(q, g, y, Other(d)) + Black(t, y)
  PROVE  Heights(u, [B EXCEPT ![x] = h, ![y] = B[x]], q, g)
<1> DEFINE A == [B EXCEPT ![x] = h, ![y] = B[x]]
           e == Other(d)
           a == t.child[d][x]
           b == t.child[d][y]
           c == t.child[e][y]
<1>0. /\ B \in [Node -> Nat] /\ B[Nil] = 0
      /\ \A n \in Key \ {x, y} : HeightAt(t, B, p, s, n)
      /\ \A n \in Key \ {x, y}, f \in Dir : Gap(q, g, n, f) = Gap(p, s, n, f)
  BY DEF LevelBut, SameGap
<1>1. /\ x \in Key /\ e \in Dir /\ e # d /\ Dir = {d, e} /\ x # y
      /\ a \in Node /\ b \in Node /\ c \in Node
      /\ a # x /\ a # y /\ b # x /\ b # y /\ c # x /\ c # y
      /\ \A n \in Key, f \in Dir : t.child[f][n] = y => n = x /\ f = e
  <2>1. Around(t, U, x, d, y)
    BY RotationNodes
  <2> QED BY <2>1 DEF Around
<1>2. Key \subseteq Node /\ Nil \in Node /\ Nil \notin Key
  BY Basics
<1>3. /\ A \in [Node -> Nat] /\ A[x] = h /\ A[y] = B[x]
      /\ \A n \in Node : n # x /\ n # y => A[n] = B[n]
      /\ A[Nil] = 0
  BY <1>0, <1>1, <1>2
<1>4. /\ \A n \in Node, f \in Dir :
           u.child[f][n] = IF n = y /\ f = d THEN x
                           ELSE IF n = x /\ f = e THEN b
                           ELSE IF t.child[f][n] = x THEN y
                           ELSE t.child[f][n]
      /\ u.red = t.red
  BY DEF Rotated
<1>5. /\ u.child[d][x] = a /\ u.child[e][x] = b
      /\ u.child[d][y] = x /\ u.child[e][y] = c
  BY <1>1, <1>2, <1>4
<1>6. \A n \in Node, f \in Dir : t.child[f][n] \in Node
  BY DEF Shape, TreeRecord
<1>7. \A n : Black(u, n) = Black(t, n)
  BY <1>4 DEF Black
<1> HIDE DEF A, e, a, b, c
<1>8. HeightAt(u, A, q, g, x)
  <2>1. A[x] = A[u.child[d][x]] + Gap(q, g, x, d) + Black(u, x)
    BY <1>1, <1>3, <1>5, <1>7 DEF a
  <2>2. A[x] = A[u.child[e][x]] + Gap(q, g, x, e) + Black(u, x)
    BY <1>1, <1>3, <1>5, <1>7 DEF b, e
  <2> QED BY <1>1, <2>1, <2>2 DEF HeightAt
<1>9. HeightAt(u, A, q, g, y)
  <2>1. A[y] = A[u.child[d][y]] + Gap(q, g, y, d) + Black(u, y)
    BY <1>1, <1>3, <1>5, <1>7
  <2>2. A[y] = A[u.child[e][y]] + Gap(q, g, y, e) + Black(u, y)
    BY <1>1, <1>3, <1>5, <1>7 DEF c, e
  <2> QED BY <1>1, <2>1, <2>2 DEF HeightAt
<1>10. ASSUME NEW n \in Key, n # x, n # y
       PROVE  HeightAt(u, A, q, g, n)
  <2> SUFFICES ASSUME NEW f \in Dir
               PROVE  A[n] = A[u.child[f][n]] + Gap(q, g, n, f) + Black(u, n)
    BY DEF HeightAt
  <2>1. B[n] = B[t.child[f][n]] + Gap(p, s, n, f) + Black(t, n)
    BY <1>0, <1>10 DEF HeightAt
  <2>2. Gap(q, g, n, f) = Gap(p, s, n, f)
    BY <1>0, <1>10
  <2>3. A[u.child[f][n]] = B[t.child[f][n]]
    <3>1. u.child[f][n] = IF t.child[f][n] = x THEN y ELSE t.child[f][n]
      BY <1>2, <1>4, <1>10
    <3>2. t.child[f][n] # y /\ t.child[f][n] \in Node
      BY <1>1, <1>2, <1>6, <1>10
    <3> QED BY <1>3, <3>1, <3>2
  <2> QED BY <1>2, <1>3, <1>7, <1>10, <2>1, <2>2, <2>3
<1> QED BY <1>3, <1>8, <1>9, <1>10 DEF Heights, A

\* When the gap is at neither of the two nodes,
LEMMA RotateLevel ==
  ASSUME NEW r, NEW t, NEW U, Shape(r, t, U), NEW x \in U[t.root], NEW d \in Dir,
         NEW y \in Key, t.child[Other(d)][x] = y, NEW u, Rotated(t, x, d, y, u),
         NEW B, NEW p, NEW s, NEW q, NEW g,
         LevelBut(t, B, p, s, {x, y}), SameGap(p, s, q, g, {x, y}),
         q # x, q # y, NEW h \in Nat,
         h = B[t.child[d][x]] + Black(t, x),
         h = B[t.child[d][y]] + Black(t, x),
         B[x] = h + Black(t, y),
         B[x] = B[t.child[Other(d)][y]] + Black(t, y)
  PROVE  Heights(u, [B EXCEPT ![x] = h, ![y] = B[x]], q, g)
<1>1. \A f : Gap(q, g, x, f) = 0 /\ Gap(q, g, y, f) = 0
  BY DEF Gap
<1>2. x \in Key /\ Other(d) \in Dir /\ B \in [Node -> Nat]
  BY Parents, Basics DEF LevelBut
<1>3. /\ B[t.child[d][x]] \in Nat /\ B[t.child[d][y]] \in Nat
      /\ B[t.child[Other(d)][y]] \in Nat
      /\ Black(t, x) \in Nat /\ Black(t, y) \in Nat
  BY <1>2, HeightTypes
<1>5. /\ h = B[t.child[d][x]] + Gap(q, g, x, d) + Black(t, x)
      /\ h = B[t.child[d][y]] + Gap(q, g, x, Other(d)) + Black(t, x)
  BY <1>1, <1>3
<1>6. /\ B[x] = h + Gap(q, g, y, d) + Black(t, y)
      /\ B[x] = B[t.child[Other(d)][y]] + Gap(q, g, y, Other(d)) + Black(t, y)
  BY <1>1, <1>3
<1> QED BY <1>5, <1>6, RotateKeepsHeights

\* and when it is below the node that went down.
LEMMA RotateGap ==
  ASSUME NEW r, NEW t, NEW U, Shape(r, t, U), NEW x \in U[t.root], NEW d \in Dir,
         NEW y \in Key, t.child[Other(d)][x] = y, NEW u, Rotated(t, x, d, y, u),
         NEW B, LevelBut(t, B, x, d, {x, y}), x # y, NEW h \in Nat,
         h = B[t.child[d][x]] + 1 + Black(t, x),
         h = B[t.child[d][y]] + Black(t, x),
         B[x] = h + Black(t, y),
         B[x] = B[t.child[Other(d)][y]] + Black(t, y)
  PROVE  Heights(u, [B EXCEPT ![x] = h, ![y] = B[x]], x, d)
<1>1. \A f : Gap(x, d, y, f) = 0 /\ (f # d => Gap(x, d, x, f) = 0) /\ Gap(x, d, x, d) = 1
  BY DEF Gap
<1>2. x \in Key /\ Other(d) \in Dir /\ Other(d) # d /\ B \in [Node -> Nat]
  BY Parents, Basics DEF LevelBut
<1>3. /\ B[t.child[d][x]] \in Nat /\ B[t.child[d][y]] \in Nat
      /\ B[t.child[Other(d)][y]] \in Nat
      /\ Black(t, x) \in Nat /\ Black(t, y) \in Nat
  BY <1>2, HeightTypes
<1>4. SameGap(x, d, x, d, {x, y})
  BY DEF SameGap
<1>5. /\ h = B[t.child[d][x]] + Gap(x, d, x, d) + Black(t, x)
      /\ h = B[t.child[d][y]] + Gap(x, d, x, Other(d)) + Black(t, x)
  BY <1>1, <1>2, <1>3
<1>6. /\ B[x] = h + Gap(x, d, y, d) + Black(t, y)
      /\ B[x] = B[t.child[Other(d)][y]] + Gap(x, d, y, Other(d)) + Black(t, y)
  BY <1>1, <1>2, <1>3
<1> QED BY <1>4, <1>5, <1>6, RotateKeepsHeights
-----------------------------------------------------------------------------
(* A round of insertFixup.                                                 *)

\* What a round leaves: the same nodes, in shape and balance, and the conflict
\* at a red node.
Repaired(r, t, U, u, m) ==
  \E V, A : /\ Shape(r, u, V)
            /\ V[u.root] = U[t.root]
            /\ u.size = t.size
            /\ Heights(u, A, Nil, "left")
            /\ Reds(u, V, m, FALSE)
            /\ m \in V[u.root] /\ m \in u.red

\* The last round stands at a red node y and its red child m, on the same side of
\* g, whose other child is black.
Leaning(r, t, U, B, g, d, y, m) ==
  /\ Shape(r, t, U) /\ Heights(t, B, Nil, "left")
  /\ g \in U[t.root] /\ d \in Dir /\ y \in Key /\ m \in Key
  /\ t.child[d][g] = y /\ t.child[d][y] = m
  /\ t.child[Other(d)][g] \notin t.red
  /\ t.red \subseteq U[t.root] /\ t.root \notin t.red
  /\ y \in t.red /\ m \in t.red /\ g \notin t.red
  /\ \A n \in Key, f \in Dir :
       n \in t.red /\ t.child[f][n] \in t.red => n = y /\ t.child[f][n] = m

\* Nothing is left to repair at m.
Ended(u, m) == u.parent[m] \notin u.red

LEMMA StraightRound ==
  ASSUME NEW r, NEW t, NEW U, NEW B, NEW g, NEW d, NEW y, NEW m,
         Leaning(r, t, U, B, g, d, y, m)
  PROVE  LET u == Rotate(Paint(t, (t.red \ {y}) \cup {g}), g, Other(d))
         IN  Repaired(r, t, U, u, m) /\ Ended(u, m)
<1> DEFINE e == Other(d)
           R == (t.red \ {y}) \cup {g}
           v == Paint(t, R)
           u == Rotate(v, g, e)
           V == Lifted(v, U, g, e, y)
           b == t.child[e][y]
           A == [B EXCEPT ![g] = B[b], ![y] = B[g]]
<1>0. /\ Shape(r, t, U) /\ Heights(t, B, Nil, "left")
      /\ g \in U[t.root] /\ d \in Dir /\ y \in Key /\ m \in Key
      /\ t.child[d][g] = y /\ t.child[d][y] = m
      /\ t.child[Other(d)][g] \notin t.red
      /\ t.red \subseteq U[t.root] /\ t.root \notin t.red
      /\ y \in t.red /\ m \in t.red /\ g \notin t.red
      /\ \A n \in Key, f \in Dir :
           n \in t.red /\ t.child[f][n] \in t.red => n = y /\ t.child[f][n] = m
  BY DEF Leaning
<1> USE <1>0
<1>1. g \in Key /\ t.red \subseteq Key /\ R \in SUBSET Key /\ e \in Dir /\ Other(e) = d /\ e # d
      /\ Dir = {d, e}
  BY Parents, Basics DEF Shape, TreeRecord
<1>2. /\ Shape(r, v, U)
      /\ v.root = t.root /\ v.child = t.child /\ v.parent = t.parent
      /\ v.red = R /\ v.size = t.size
  BY <1>1, Recoloured
<1>3. v = Paint(t, (t.red \ {y}) \cup {g})
  OBVIOUS
<1> HIDE DEF v, R, e
<1>4. v.child[Other(e)][g] = y /\ y # Nil /\ g \in U[v.root]
  BY <1>1, <1>2, Basics
<1>5. Rotated(v, g, e, y, u)
  BY <1>1, <1>2, <1>4, RotateFields
<1>6. Shape(r, u, V) /\ V[u.root] = U[t.root]
  <2>1. Shape(r, u, V) /\ V[u.root] = U[v.root]
    <3>1. /\ Shape(r, v, U) /\ g \in U[v.root] /\ e \in Dir /\ y \in Key
          /\ v.child[Other(e)][g] = y /\ Rotated(v, g, e, y, u)
      BY <1>1, <1>2, <1>4, <1>5
    <3> HIDE <1>0
    <3> HIDE DEF u
    <3> QED BY <3>1, RotateKeepsShape
  <2> QED BY <1>2, <2>1
<1>7. /\ g # y /\ t.child[e][g] # y /\ b \in Node /\ b # g /\ b # y
      /\ \A n \in Key, f \in Dir : t.child[f][n] = y => n = g /\ f = d
      /\ y # t.root /\ y \in U[t.root]
  <2>1. Around(v, U, g, e, y)
    BY <1>1, <1>2, <1>4, RotationNodes
  <2> QED BY <1>1, <1>2, <2>1 DEF Around
<1>8. /\ u.red = R /\ u.size = t.size
      /\ u.root = IF g = t.root THEN y ELSE t.root
      /\ \A n \in Node, f \in Dir :
           u.child[f][n] = IF n = y /\ f = e THEN g
                           ELSE IF n = g /\ f = d THEN b
                           ELSE IF t.child[f][n] = g THEN y
                           ELSE t.child[f][n]
  BY <1>1, <1>2, <1>5 DEF Rotated
<1>9. Heights(u, A, Nil, "left")
  <2>1. /\ B \in [Node -> Nat] /\ B[Nil] = 0
        /\ \A n \in Key : HeightAt(t, B, Nil, "left", n)
    BY DEF Heights
  <2>0. Nil # g /\ Nil # y
    BY <1>1, Basics
  <2>2. /\ B[g] = B[y] + 1 /\ B[g] = B[t.child[e][g]] + 1
        /\ B[y] = B[m] /\ B[y] = B[b] /\ B[b] \in Nat
    <3>1. /\ B[g] = B[y] + Black(t, g)
          /\ B[g] = B[t.child[e][g]] + Black(t, g)
      BY <1>1, <2>0, <2>1, LevelSide
    <3>2. /\ B[y] = B[m] + Black(t, y)
          /\ B[y] = B[b] + Black(t, y)
      BY <1>1, <2>0, <2>1, LevelSide
    <3>3. Black(t, g) = 1 /\ Black(t, y) = 0
      BY DEF Black
    <3>4. B[b] \in Nat /\ B[m] \in Nat
      BY <1>7, <2>1, Basics
    <3> QED BY <3>1, <3>2, <3>3, <3>4
  <2>3. LevelBut(v, B, Nil, "left", {g, y})
    <3>1. ASSUME NEW n \in Key \ {g, y} PROVE HeightAt(v, B, Nil, "left", n)
      <4>1. HeightAt(t, B, Nil, "left", n)
        BY <2>1
      <4>2. Black(v, n) = Black(t, n)
        BY <1>2 DEF Black, R
      <4> QED BY <1>2, <4>1, <4>2 DEF HeightAt
    <3> QED BY <2>1, <3>1 DEF LevelBut
  <2>4. Black(v, g) = 0 /\ Black(v, y) = 1
    BY <1>2, <1>7 DEF Black, R
  <2>5. SameGap(Nil, "left", Nil, "left", {g, y})
    BY DEF SameGap
  <2>6. B[b] = B[v.child[e][g]] + Black(v, g) /\ B[b] = B[v.child[e][y]] + Black(v, g)
    <3>1. v.child[e][g] = t.child[e][g] /\ v.child[e][y] = b
      BY <1>2
    <3>2. B[t.child[e][g]] \in Nat
      BY <1>1, <2>1, HeightTypes
    <3> QED BY <2>2, <2>4, <3>1, <3>2
  <2>7. B[g] = B[b] + Black(v, y) /\ B[g] = B[v.child[Other(e)][y]] + Black(v, y)
    BY <1>1, <1>2, <2>2, <2>4
  <2> HIDE DEF u
  <2> QED BY <1>1, <1>2, <1>4, <1>5, <2>0, <2>2, <2>3, <2>5, <2>6, <2>7, RotateLevel
<1>10. m # y /\ m # g /\ m \in U[t.root] /\ m \in R
  <2>1. m # y
    <3>1. y \notin U[t.child[d][y]] /\ m \in U[m]
      BY Halves
    <3> QED BY <3>1
  <2>2. m # g /\ m \in U[t.root]
    OBVIOUS
  <2> QED BY <2>1, <2>2 DEF R
<1>11. Reds(u, V, m, FALSE)
  <2>1. u.red \subseteq V[u.root]
    BY <1>6, <1>8 DEF R
  <2>2. u.root \notin u.red
    BY <1>7, <1>8 DEF R
  <2>3. ASSUME NEW n \in Key, NEW f \in Dir, n \in R, u.child[f][n] \in R
        PROVE  FALSE
    <3>1. n # y /\ n \in Node
      BY <1>7, <2>3, Basics DEF R
    <3>2. CASE n = g /\ f = d
      <4>1. u.child[f][n] = b /\ b \in t.red
        BY <1>7, <1>8, <2>3, <3>1, <3>2 DEF R
      <4>2. b = m
        BY <1>1, <4>1
      <4> QED BY <1>1, <4>2, OnePlace, Basics
    <3>3. CASE n = g /\ f = e
      <4>1. t.child[e][g] # g
        <5>1. g \notin U[t.child[e][g]] /\ g \in U[g]
          BY <1>1, Halves
        <5> QED BY <5>1
      <4> QED BY <1>1, <1>8, <2>3, <3>1, <3>3, <4>1 DEF R, e
    <3>4. CASE n # g /\ t.child[f][n] = g
      BY <1>7, <1>8, <2>3, <3>1, <3>4 DEF R
    <3>5. CASE n # g /\ t.child[f][n] # g
      <4>1. n \in t.red /\ t.child[f][n] \in t.red
        BY <1>8, <2>3, <3>1, <3>5 DEF R
      <4> QED BY <2>3, <3>1, <4>1
    <3> QED BY <1>1, <3>2, <3>3, <3>4, <3>5
  <2> QED BY <1>8, <2>1, <2>2, <2>3 DEF Reds
<1> HIDE DEF u, V, A
<1>12. Repaired(r, t, U, u, m)
  BY <1>6, <1>8, <1>9, <1>10, <1>11 DEF Repaired
<1>13. Ended(u, m)
  <2>1. t.parent[m] = y /\ t.parent[y] = g /\ m # Nil
    BY <1>1, <1>4, Basics DEF Shape
  <2>2. m # g
    <3>1. t.parent[m] # t.parent[t.parent[m]]
      BY <1>7, <2>1
    <3>2. Side(r, d, y, g) /\ Side(r, d, m, y)
      BY <1>1 DEF Shape, Spans
    <3> QED BY <1>1, <3>2, SideOrder DEF Shape
  <2>3. m # y
    BY <1>1, Halves
  <2>4. m # b
    <3>1. m \in U[m] /\ U[t.child[d][y]] \cap U[t.child[e][y]] = {}
      BY Halves DEF e
    <3> QED BY <3>1
  <2>5. u.parent[m] = y
    BY <1>2, <1>5, <2>1, <2>2, <2>3, <2>4 DEF Rotated
  <2> QED BY <1>7, <1>8, <2>5 DEF Ended, R
<1> QED BY <1>3, <1>12, <1>13 DEF u, e

\* A red node whose parent is red has a black grandparent.
Conflict(r, t, U, B, n) ==
  /\ Shape(r, t, U) /\ Heights(t, B, Nil, "left") /\ Reds(t, U, n, FALSE)
  /\ n \in U[t.root] /\ n \in t.red /\ t.parent[n] \in t.red

\* The family of such a node, and the only red pair there is.
Family(t, U, n, p, g, c, d) ==
  /\ n \in Key /\ p \in Key /\ g \in Key /\ c \in Dir /\ d \in Dir
  /\ t.child[c][p] = n /\ t.child[d][g] = p /\ t.parent[p] = g
  /\ n # p /\ n # g /\ p # g
  /\ p \in U[t.root] /\ g \in U[t.root] /\ p # t.root
  /\ p \in t.red /\ g \notin t.red /\ t.root \notin t.red
  /\ t.red \subseteq U[t.root] /\ t.red \subseteq Key
  /\ \A m \in Key, f \in Dir :
       m \in t.red /\ t.child[f][m] \in t.red => t.child[f][m] = n /\ m = p /\ f = c

LEMMA Families ==
  ASSUME NEW r, NEW t, NEW U, NEW B, NEW n, Conflict(r, t, U, B, n)
  PROVE  Family(t, U, n, t.parent[n], t.parent[t.parent[n]],
                SideOf(t, n), SideOf(t, t.parent[n]))
<1> DEFINE p == t.parent[n]
           g == t.parent[p]
           c == SideOf(t, n)
           d == SideOf(t, p)
<1>1. /\ Shape(r, t, U) /\ n \in U[t.root] /\ n \in t.red /\ p \in t.red
      /\ t.red \subseteq Key /\ t.red \subseteq U[t.root] /\ Nil \notin Key
      /\ t.root \in t.red => t.root = n
      /\ \A m \in Key, f \in Dir : m \in t.red /\ t.child[f][m] \in t.red => t.child[f][m] = n
  BY Basics DEF Conflict, Shape, TreeRecord, Reds
<1>2. n \in Key /\ n # t.root /\ p \in U[t.root] /\ c \in Dir /\ t.child[c][p] = n /\ p \in Key
  BY <1>1, Parents
<1>3. \A m \in Key, f \in Dir : t.child[f][m] # m
  <2>1. \A m \in Key, f \in Dir : m \notin U[t.child[f][m]] /\ m \in U[m]
    BY <1>1, Halves
  <2> QED BY <2>1
<1>4. n # p /\ p # t.root /\ t.root \notin t.red
  BY <1>1, <1>2, <1>3
<1>5. g \in Key /\ g \in U[t.root] /\ d \in Dir /\ t.child[d][g] = p
  BY <1>1, <1>2, <1>4, Parents
<1>6. g \notin t.red
  BY <1>1, <1>4, <1>5
<1>7. p # g /\ n # g
  BY <1>1, <1>6
<1>8. ASSUME NEW m \in Key, NEW f \in Dir, m \in t.red, t.child[f][m] \in t.red
      PROVE  t.child[f][m] = n /\ m = p /\ f = c
  <2>1. t.child[f][m] = n
    BY <1>1, <1>8
  <2>2. m \in Node /\ p \in Node
    BY <1>2, Basics
  <2> QED BY <1>1, <1>2, <2>1, <2>2, OnePlace
<1> HIDE DEF p, g, c, d
<1>9. t.parent[p] = g
  BY DEF g
<1>10. Family(t, U, n, p, g, c, d)
  BY <1>1, <1>2, <1>4, <1>5, <1>6, <1>7, <1>8, <1>9 DEF Family
<1> QED BY <1>10 DEF p, g, c, d

\* The round before the last: it turns the parent p of an inner node n, and n
\* takes the place of p.
Bent(r, t, U, g, d, n, p, v) ==
  /\ \E V, A : Leaning(r, v, V, A, g, d, n, p) /\ V[v.root] = U[t.root]
  /\ v.red = t.red /\ v.size = t.size /\ v.parent[p] = n /\ v.parent[n] = g

LEMMA BentRound ==
  ASSUME NEW r, NEW t, NEW U, NEW B, NEW n, Conflict(r, t, U, B, n),
         NEW p, NEW g, NEW c, NEW d, Family(t, U, n, p, g, c, d),
         c = Other(d), t.child[c][g] \notin t.red
  PROVE  Bent(r, t, U, g, d, n, p, Rotate(t, p, d))
<1> DEFINE v == Rotate(t, p, d)
           b == t.child[d][n]
           V == Lifted(t, U, p, d, n)
           A == [B EXCEPT ![p] = B[p], ![n] = B[p]]
<1>1. /\ n \in Key /\ p \in Key /\ g \in Key /\ c \in Dir /\ d \in Dir
      /\ t.child[c][p] = n /\ t.child[d][g] = p /\ t.parent[p] = g
      /\ n # p /\ n # g /\ p # g
      /\ p \in U[t.root] /\ g \in U[t.root] /\ p # t.root
      /\ p \in t.red /\ g \notin t.red /\ t.root \notin t.red
      /\ t.red \subseteq U[t.root] /\ t.red \subseteq Key
      /\ \A m \in Key, f \in Dir :
           m \in t.red /\ t.child[f][m] \in t.red => t.child[f][m] = n /\ m = p /\ f = c
  BY DEF Family
<1>2. Shape(r, t, U) /\ Heights(t, B, Nil, "left") /\ n \in t.red
  BY DEF Conflict
<1>3. c # d /\ Dir = {d, c} /\ Nil \notin Key /\ Key \subseteq Node
  BY <1>1, Basics
<1>0. t.child[Other(d)][p] = n /\ n # Nil
  BY <1>1, <1>3
<1>4. Rotated(t, p, d, n, v)
  BY <1>0, <1>1, <1>2, RotateFields
<1> HIDE DEF v
<1>5. Shape(r, v, V) /\ V[v.root] = U[t.root]
  BY <1>0, <1>1, <1>2, <1>4, RotateKeepsShape
<1>6. /\ b \in Node /\ b # p /\ b # n
      /\ \A m \in Key, f \in Dir : t.child[f][m] = n => m = p /\ f = c
  <2>1. Around(t, U, p, d, n)
    BY <1>1, <1>2, RotationNodes
  <2> QED BY <2>1 DEF Around
<1>7. /\ v.red = t.red /\ v.size = t.size /\ v.root = t.root
      /\ v.parent[p] = n /\ v.parent[n] = g
      /\ \A m \in Key, f \in Dir :
           v.child[f][m] = IF m = n /\ f = d THEN p
                           ELSE IF m = p /\ f = c THEN b
                           ELSE IF t.child[f][m] = p THEN n
                           ELSE t.child[f][m]
  BY <1>1, <1>3, <1>4 DEF Rotated
<1>8. v.child[d][g] = n /\ v.child[d][n] = p
  BY <1>1, <1>7
<1>9. v.child[c][g] = t.child[c][g]
  <2>1. t.child[c][g] # p
    BY <1>1, <1>2, <1>3, OnePlace
  <2> QED BY <1>1, <1>3, <1>7, <2>1
<1>10. Heights(v, A, Nil, "left")
  <2>1. /\ B \in [Node -> Nat] /\ B[Nil] = 0 /\ Nil # p /\ Nil # n
        /\ HeightAt(t, B, Nil, "left", p) /\ HeightAt(t, B, Nil, "left", n)
    BY <1>1, <1>2, <1>3 DEF Heights
  <2>2. Black(t, p) = 0 /\ Black(t, n) = 0
    BY <1>1, <1>2 DEF Black
  <2>3. /\ B[p] = B[t.child[d][p]] + Black(t, p) /\ B[p] = B[n] + Black(t, p)
        /\ B[n] = B[b] + Black(t, n) /\ B[n] = B[t.child[c][n]] + Black(t, n)
    BY <1>1, <1>2, <2>1, LevelSide
  <2>4. B[p] \in Nat /\ B[n] \in Nat /\ B[b] \in Nat
    BY <1>1, <1>3, <1>6, <2>1
  <2>5. /\ B[p] = B[b] + Black(t, p) /\ B[p] = B[p] + Black(t, n)
        /\ B[p] = B[t.child[c][n]] + Black(t, n)
    <3>1. B[t.child[d][p]] \in Nat /\ B[t.child[c][n]] \in Nat
      BY <1>1, <1>2, <2>1, HeightTypes
    <3> QED BY <2>2, <2>3, <2>4, <3>1
  <2>6. LevelBut(t, B, Nil, "left", {p, n}) /\ SameGap(Nil, "left", Nil, "left", {p, n})
    BY <1>2 DEF Heights, LevelBut, SameGap
  <2>7. /\ p \in U[t.root] /\ d \in Dir /\ n \in Key
        /\ B[t.child[Other(d)][n]] = B[t.child[c][n]] /\ B[t.child[d][p]] \in Nat
    BY <1>1, <1>2, <2>1, HeightTypes
  <2>8. B[p] = B[t.child[d][p]] + Black(t, p)
    BY <2>3
  <2>9. B[p] = B[t.child[Other(d)][n]] + Black(t, n)
    BY <2>5, <2>7
  <2> QED BY <1>0, <1>2, <1>4, <2>1, <2>4, <2>5, <2>6, <2>7, <2>8, <2>9, RotateLevel
<1>11. ASSUME NEW m \in Key, NEW f \in Dir, m \in v.red, v.child[f][m] \in v.red
       PROVE  m = n /\ v.child[f][m] = p
  <2>1. b \notin t.red
    <3>1. b \in t.red => b = n
      BY <1>1, <1>2
    <3> QED BY <1>6, <3>1
  <2>2. CASE m = p /\ f = c
    BY <1>1, <1>7, <1>11, <2>1, <2>2
  <2>3. CASE m # p \/ f # c
    <3>1. t.child[f][m] \in t.red => m = p /\ f = c
      BY <1>1, <1>7, <1>11
    <3>2. t.child[f][m] # p
      BY <1>1, <1>7, <1>11, <2>3, <3>1
    <3> QED BY <1>7, <1>11, <2>3, <3>1, <3>2
  <2> QED BY <2>2, <2>3
<1>12. Leaning(r, v, V, A, g, d, n, p)
  <2> HIDE DEF V, A, b
  <2> QED BY <1>1, <1>2, <1>5, <1>7, <1>8, <1>9, <1>10, <1>11 DEF Leaning
<1>13. Bent(r, t, U, g, d, n, p, v)
  <2> HIDE DEF V, A
  <2> QED BY <1>5, <1>7, <1>12 DEF Bent
<1> QED BY <1>13 DEF v

\* A red uncle takes the conflict to the grandparent.
LEMMA UncleRound ==
  ASSUME NEW r, NEW t, NEW U, NEW B, NEW n, Conflict(r, t, U, B, n),
         NEW p, NEW g, NEW c, NEW d, Family(t, U, n, p, g, c, d),
         NEW q, q = t.child[Other(d)][g], q \in t.red
  PROVE  Repaired(r, t, U, Paint(t, (t.red \ {p, q}) \cup {g}), g)
<1> DEFINE R == (t.red \ {p, q}) \cup {g}
           v == Paint(t, R)
           e == Other(d)
           A == [B EXCEPT ![p] = B[p] + 1, ![q] = B[q] + 1]
<1>1. /\ n \in Key /\ p \in Key /\ g \in Key /\ d \in Dir
      /\ t.child[d][g] = p
      /\ p # g /\ p \in U[t.root] /\ g \in U[t.root]
      /\ p \in t.red /\ g \notin t.red /\ t.root \notin t.red
      /\ t.red \subseteq U[t.root] /\ t.red \subseteq Key
      /\ \A m \in Key, f \in Dir :
           m \in t.red /\ t.child[f][m] \in t.red => t.child[f][m] = n /\ m = p /\ f = c
  BY DEF Family
<1>2. Shape(r, t, U) /\ Heights(t, B, Nil, "left") /\ n \in t.red
  BY DEF Conflict
<1>3. /\ e \in Dir /\ e # d /\ Dir = {d, e} /\ Nil \notin Key /\ Key \subseteq Node
      /\ R \in SUBSET Key /\ q \in Key
  BY <1>1, Basics
<1>4. /\ Shape(r, v, U)
      /\ v.root = t.root /\ v.child = t.child /\ v.parent = t.parent
      /\ v.red = R /\ v.size = t.size
  BY <1>2, <1>3, Recoloured
<1>5. p # q
  BY <1>1, <1>2, <1>3, OnePlace
<1>6. q # g
  BY <1>1
<1>7. /\ \A m \in Key, f \in Dir : t.child[f][m] = p => m = g /\ f = d
      /\ \A m \in Key, f \in Dir : t.child[f][m] = q => m = g /\ f = e
  BY <1>1, <1>2, <1>3, OnePlace
<1>8. Heights(v, A, Nil, "left")
  <2>1. /\ B \in [Node -> Nat] /\ B[Nil] = 0
        /\ \A m \in Key : HeightAt(t, B, Nil, "left", m)
    BY <1>2 DEF Heights
  <2>0. \A m \in Key : Nil # m
    BY <1>3
  <2>2. \A m \in Key, f \in Dir : B[m] = B[t.child[f][m]] + Black(t, m)
    BY <1>2, <2>0, <2>1, LevelSide
  <2>3. /\ A \in [Node -> Nat] /\ A[p] = B[p] + 1 /\ A[q] = B[q] + 1
        /\ \A m \in Node : m # p /\ m # q => A[m] = B[m]
    BY <1>1, <1>3, <1>5, <2>1
  <2>4. A[Nil] = 0
    BY <1>1, <1>3, <2>1, <2>3, Basics
  <2>5. \A m \in Key, f \in Dir : t.child[f][m] \in Node /\ B[t.child[f][m]] \in Nat
    BY <1>2, <2>1, HeightTypes
  <2> HIDE DEF A
  <2>6. ASSUME NEW m \in Key, NEW f \in Dir
        PROVE  A[m] = A[v.child[f][m]] + Gap(Nil, "left", m, f) + Black(v, m)
    <3>1. Gap(Nil, "left", m, f) = 0
      BY <2>0 DEF Gap
    <3>2. B[m] = B[t.child[f][m]] + Black(t, m) /\ B[t.child[f][m]] \in Nat /\ B[m] \in Nat
      BY <1>3, <2>1, <2>2, <2>5
    <3>3. CASE m = g
      <4>1. A[v.child[f][m]] = B[t.child[f][m]] + 1
        BY <1>1, <1>3, <1>4, <2>3, <3>3
      <4>2. A[m] = B[m] /\ Black(v, m) = 0 /\ Black(t, m) = 1
        BY <1>1, <1>3, <1>4, <1>6, <2>3, <3>3 DEF Black
      <4> QED BY <3>1, <3>2, <4>1, <4>2
    <3>4. CASE m = p \/ m = q
      <4>1. t.child[f][m] # p /\ t.child[f][m] # q
        BY <1>1, <1>6, <1>7, <3>4
      <4>2. A[v.child[f][m]] = B[t.child[f][m]]
        BY <1>4, <2>3, <2>5, <4>1
      <4>3. A[m] = B[m] + 1 /\ Black(v, m) = 1 /\ Black(t, m) = 0
        BY <1>1, <1>4, <1>6, <2>3, <3>4 DEF Black
      <4> QED BY <3>1, <3>2, <4>2, <4>3
    <3>5. CASE m # g /\ m # p /\ m # q
      <4>1. t.child[f][m] # p /\ t.child[f][m] # q
        BY <1>7, <3>5
      <4>2. A[v.child[f][m]] = B[t.child[f][m]]
        BY <1>4, <2>3, <2>5, <4>1
      <4>3. A[m] = B[m] /\ Black(v, m) = Black(t, m)
        BY <1>3, <1>4, <2>3, <3>5 DEF Black
      <4> QED BY <3>1, <3>2, <4>2, <4>3
    <3> QED BY <3>3, <3>4, <3>5
  <2> QED BY <2>3, <2>4, <2>6 DEF Heights, HeightAt
<1>9. Reds(v, U, g, FALSE)
  <2>1. ASSUME NEW m \in Key, NEW f \in Dir, m \in R, t.child[f][m] \in R, t.child[f][m] # g
        PROVE  FALSE
    <3>1. t.child[f][m] \in t.red /\ t.child[f][m] # p /\ t.child[f][m] # q
      BY <2>1
    <3>2. m # g
      BY <1>1, <1>3, <3>1
    <3> QED BY <1>1, <2>1, <3>1, <3>2
  <2>2. v.red \subseteq U[v.root] /\ (v.root \in v.red => v.root = g)
    BY <1>1, <1>4
  <2> HIDE DEF v, R
  <2> QED BY <1>4, <2>1, <2>2 DEF Reds
<1>10. g \in U[v.root] /\ g \in v.red
  BY <1>1, <1>4
<1> HIDE DEF v, A
<1>11. Repaired(r, t, U, v, g)
  BY <1>4, <1>8, <1>9, <1>10 DEF Repaired
<1> QED BY <1>11 DEF v, R

\* Every round of insertFixup.
\* A round that only paints, and goes on at g.
Onward(t, g, u, m) == (\E R \in SUBSET Key : u = Paint(t, R)) /\ m = g

LEMMA InsertRounds ==
  ASSUME NEW r, NEW t, NEW U, NEW B, NEW n, Conflict(r, t, U, B, n)
  PROVE  LET round == InsertRound(t, n)
         IN  /\ Repaired(r, t, U, round.tree, round.at)
             /\ Onward(t, t.parent[t.parent[n]], round.tree, round.at) \/ Ended(round.tree, round.at)
<1> DEFINE p == t.parent[n]
           g == t.parent[p]
           c == SideOf(t, n)
           d == SideOf(t, p)
           q == t.child[Other(d)][g]
           inner == n = t.child[Other(d)][p]
           bent == IF inner THEN Rotate(t, p, d) ELSE t
           m == IF inner THEN p ELSE n
           top == bent.parent[m]
           old == bent.parent[top]
           done == Rotate(Paint(bent, (bent.red \ {top}) \cup {old}), old, Other(d))
<1>1. Family(t, U, n, p, g, c, d)
  BY Families
<1>2. CASE q \in t.red
  <2>1. InsertRound(t, n) = [tree |-> Paint(t, (t.red \ {p, q}) \cup {g}), at |-> g]
    BY <1>2 DEF InsertRound
  <2> HIDE DEF p, g, c, d, q
  <2>2. Repaired(r, t, U, Paint(t, (t.red \ {p, q}) \cup {g}), g)
    BY <1>1, <1>2, UncleRound DEF q
  <2>3. Onward(t, g, Paint(t, (t.red \ {p, q}) \cup {g}), g)
    BY <1>1, <1>2 DEF Onward, Family
  <2> QED BY <2>1, <2>2, <2>3 DEF g, p
<1>3. CASE q \notin t.red
  <2>1. InsertRound(t, n) = [tree |-> done, at |-> m]
    BY <1>3 DEF InsertRound
  <2>2. c \in Dir /\ d \in Dir /\ t.child[c][p] = n /\ t.child[d][g] = p /\ t.parent[p] = g
    BY <1>1 DEF Family
  <2>3. CASE inner
    <3>1. c = Other(d)
      <4>1. Shape(r, t, U) /\ n \in Key /\ p \in Node /\ Other(d) \in Dir
        BY <1>1, <2>2, Basics DEF Family, Conflict
      <4>2. t.child[Other(d)][p] = n
        BY <2>3
      <4> HIDE DEF p, c, d
      <4> QED BY <2>2, <4>1, <4>2, OnePlace
    <3>2. bent = Rotate(t, p, d) /\ m = p
      BY <2>3
    <3>3. Bent(r, t, U, g, d, n, p, bent)
      <4>1. t.child[c][g] \notin t.red
        BY <1>3, <3>1
      <4>2. Bent(r, t, U, g, d, n, p, Rotate(t, p, d))
        <5> HIDE DEF p, g, c, d
        <5> QED BY <1>1, <3>1, <4>1, BentRound
      <4> QED BY <3>2, <4>2
    <3>4. top = n /\ old = g
      BY <3>2, <3>3, ZenonT(30) DEF Bent
    <3>5. done = Rotate(Paint(bent, (bent.red \ {n}) \cup {g}), g, Other(d))
      BY <3>4, Zenon
    <3> HIDE DEF p, g, c, d, q, inner, bent, m, top, old, done
    <3>6. PICK V, A : Leaning(r, bent, V, A, g, d, n, p) /\ V[bent.root] = U[t.root]
      BY <3>3 DEF Bent
    <3>7. Repaired(r, bent, V, done, p) /\ Ended(done, p)
      BY <3>5, <3>6, StraightRound
    <3>8. bent.size = t.size
      BY <3>3 DEF Bent
    <3>9. Repaired(r, t, U, done, p)
      BY <3>6, <3>7, <3>8, Zenon DEF Repaired
    <3> QED BY <2>1, <3>2, <3>7, <3>9
  <2>4. CASE ~inner
    <3>1. bent = t /\ m = n /\ top = p /\ old = g
      BY <2>4
    <3>2. done = Rotate(Paint(t, (t.red \ {p}) \cup {g}), g, Other(d))
      BY <3>1, Zenon
    <3>3. c = d
      BY <2>2, <2>4, Basics
    <3>4. q = t.child[Other(d)][g]
      OBVIOUS
    <3> HIDE DEF p, g, c, d, q, inner, bent, m, top, old, done
    <3>5. Leaning(r, t, U, B, g, d, p, n)
      BY <1>1, <1>3, <3>3, <3>4 DEF Leaning, Family, Conflict
    <3>6. Repaired(r, t, U, done, n) /\ Ended(done, n)
      BY <3>2, <3>5, StraightRound
    <3> QED BY <2>1, <3>1, <3>6
  <2> QED BY <2>3, <2>4
<1> QED BY <1>2, <1>3

-----------------------------------------------------------------------------
(* Insert: a new node.                                                     *)

\* u is t with a node that lost its children.
Bared(t, n, u) ==
  /\ u \in TreeRecord
  /\ u.root = t.root /\ u.parent = t.parent /\ u.red = t.red /\ u.size = t.size
  /\ \A m \in Node, f \in Dir : u.child[f][m] = IF m = n THEN Nil ELSE t.child[f][m]

LEMMA Bares ==
  ASSUME NEW t \in TreeRecord, NEW n \in Node
  PROVE  Bared(t, n, Bare(t, n))
<1> DEFINE s == SetChild(t, "left", n, Nil)
           u == SetChild(s, "right", n, Nil)
<1>1. Nil \in Node /\ "left" \in Dir /\ "right" \in Dir /\ Dir = {"left", "right"}
  BY Basics
<1>2. ChildPut(t, "left", n, Nil, s)
  BY <1>1, PutsChild
<1>3. Bare(t, n) = u
  BY DEF Bare
<1> HIDE DEF s
<1>4. ChildPut(s, "right", n, Nil, u)
  <2>1. s \in TreeRecord
    BY <1>2 DEF ChildPut
  <2> QED BY <1>1, <2>1, PutsChild
<1> HIDE DEF u
<1>5. \A m \in Node, f \in Dir : u.child[f][m] = IF m = n THEN Nil ELSE t.child[f][m]
  <2> TAKE m \in Node, f \in Dir
  <2>1. /\ s.child[f][m] = IF f = "left" /\ m = n THEN Nil ELSE t.child[f][m]
        /\ u.child[f][m] = IF f = "right" /\ m = n THEN Nil ELSE s.child[f][m]
    BY <1>2, <1>4 DEF ChildPut
  <2> QED BY <1>1, <2>1
<1>6. Bared(t, n, u)
  BY <1>2, <1>4, <1>5 DEF ChildPut, Bared
<1> QED BY <1>3, <1>6

\* u is t with the new red node k on side d of p, or as the root.
Grown(t, k, p, d, u) ==
  /\ u \in TreeRecord
  /\ u.red = t.red \cup {k} /\ u.size = t.size + 1
  /\ u.root = IF p = Nil THEN k ELSE t.root
  /\ \A n \in Node, f \in Dir :
       u.child[f][n] = IF n = k THEN Nil
                       ELSE IF p # Nil /\ n = p /\ f = d THEN k
                       ELSE t.child[f][n]
  /\ \A n \in Node : u.parent[n] = IF n = k THEN p ELSE t.parent[n]

LEMMA HungGrows ==
  ASSUME tree \in TreeRecord, NEW k \in Key, NEW p \in Node, NEW d \in Dir
  PROVE  Grown(tree, k, p, d, Hung(k, p, d))
<1> DEFINE h == IF p = Nil THEN [tree EXCEPT !.root = k] ELSE SetChild(tree, d, p, k)
           b == Bare(h, k)
           q == SetParent(b, k, p)
           R == tree.red \cup {k}
           n == Paint(q, R)
           u == [n EXCEPT !.size = @ + 1]
<1>1. k \in Node /\ R \in SUBSET Key
  BY Basics DEF TreeRecord
<1>2. Hung(k, p, d) = u
  BY DEF Hung
<1>3. /\ h \in TreeRecord
      /\ h.root = IF p = Nil THEN k ELSE tree.root
      /\ h.parent = tree.parent /\ h.red = tree.red /\ h.size = tree.size
      /\ \A m \in Node, f \in Dir :
           h.child[f][m] = IF p # Nil /\ m = p /\ f = d THEN k ELSE tree.child[f][m]
  <2>1. CASE p = Nil
    <3>1. h = [tree EXCEPT !.root = k]
      BY <2>1
    <3> HIDE DEF h
    <3> QED BY <1>1, <2>1, <3>1 DEF TreeRecord
  <2>2. CASE p # Nil
    <3>1. h = SetChild(tree, d, p, k)
      BY <2>2
    <3>2. ChildPut(tree, d, p, k, h)
      BY <1>1, <3>1, PutsChild
    <3> HIDE DEF h
    <3> QED BY <2>2, <3>2 DEF ChildPut
  <2> QED BY <2>1, <2>2
<1> HIDE DEF h
<1>4. Bared(h, k, b)
  BY <1>1, <1>3, Bares
<1> HIDE DEF b
<1>5. ParentPut(b, k, p, q)
  <2>1. b \in TreeRecord
    BY <1>4 DEF Bared
  <2> QED BY <1>1, <2>1, PutsParent
<1> HIDE DEF q
<1>6. Painted(q, R, n)
  <2>1. q \in TreeRecord
    BY <1>5 DEF ParentPut
  <2> QED BY <1>1, <2>1, Paints
<1>7. /\ u \in TreeRecord /\ u.size = n.size + 1
      /\ u.root = n.root /\ u.child = n.child /\ u.parent = n.parent /\ u.red = n.red
  <2>1. n \in TreeRecord
    BY <1>6 DEF Painted
  <2> HIDE DEF n
  <2> QED BY <2>1 DEF TreeRecord
<1> HIDE DEF u, n
<1>8. /\ u \in TreeRecord /\ u.red = tree.red \cup {k} /\ u.size = tree.size + 1
      /\ u.root = IF p = Nil THEN k ELSE tree.root
  BY <1>3, <1>4, <1>5, <1>6, <1>7 DEF Bared, ParentPut, Painted
<1>9. \A m \in Node, f \in Dir :
         u.child[f][m] = IF m = k THEN Nil
                         ELSE IF p # Nil /\ m = p /\ f = d THEN k
                         ELSE tree.child[f][m]
  <2>1. u.child = b.child
    BY <1>5, <1>6, <1>7 DEF ParentPut, Painted
  <2>2. \A m \in Node, f \in Dir : b.child[f][m] = IF m = k THEN Nil ELSE h.child[f][m]
    BY <1>4 DEF Bared
  <2> QED BY <1>3, <2>1, <2>2
<1>10. \A m \in Node : u.parent[m] = IF m = k THEN p ELSE tree.parent[m]
  <2>1. u.parent = q.parent /\ b.parent = tree.parent
    BY <1>3, <1>4, <1>6, <1>7 DEF Bared, Painted
  <2> QED BY <1>5, <2>1 DEF ParentPut
<1>11. Grown(tree, k, p, d, u)
  BY <1>8, <1>9, <1>10 DEF Grown
<1> QED BY <1>2, <1>11

\* A node outside the tree hangs nowhere.
LEMMA Outside ==
  ASSUME NEW r, NEW t, NEW U, Shape(r, t, U), NEW k \in Key, k \notin U[t.root]
  PROVE  /\ U[k] = {k} /\ \A f \in Dir : t.child[f][k] = Nil
         /\ \A a \in Node : k \in U[a] => a = k
         /\ \A n \in Key, f \in Dir : t.child[f][n] # k
         /\ t.root # k
<1>1. \A n \in Key \ U[t.root] : U[n] = {n} /\ \A f \in Dir : t.child[f][n] = Nil
  BY DEF Shape, Spans, Dir
<1>2. ASSUME NEW a \in Node, k \in U[a]
      PROVE  a = k
  <2>1. a \in Key
    BY <1>2, Basics DEF Shape, Spans
  <2>2. CASE a \in U[t.root]
    <3>1. t.root \in Node
      BY DEF Shape, TreeRecord
    <3>2. U[a] \subseteq U[t.root]
      BY <2>2, <3>1, Nested
    <3> QED BY <1>2, <3>2
  <2>3. CASE a \notin U[t.root]
    BY <1>1, <1>2, <2>1, <2>3
  <2> QED BY <2>2, <2>3
<1>3. k # Nil /\ k \in Node
  BY Basics
<1>4. ASSUME NEW n \in Key, NEW f \in Dir, t.child[f][n] = k
      PROVE  FALSE
  <2>1. k \in U[n] /\ n \in Node
    <3>1. k \in U[k] /\ U[t.child[f][n]] \subseteq U[n]
      BY Halves
    <3> QED BY <1>4, <3>1, Basics
  <2>2. n = k
    BY <1>2, <2>1
  <2> QED BY <1>1, <1>3, <1>4, <2>2
<1>5. t.root # k
  BY DEF Shape, Spans
<1> QED BY <1>1, <1>2, <1>4, <1>5

\* The place a search for k that found nothing has led to.
Ready(r, t, U, k, p, d) ==
  /\ Shape(r, t, U)
  /\ k \in Key /\ k \notin U[t.root] /\ p \in Node /\ d \in Dir
  /\ p = Nil => t.root = Nil
  /\ p # Nil => p \in U[t.root] /\ t.child[d][p] = Nil /\ Side(r, d, k, p)
  /\ \A n \in Key, f \in Dir : p \in U[t.child[f][n]] => Side(r, f, k, n)

\* What is below the nodes with k there.
Grafted(U, k, p) ==
  [a \in Node |-> IF a = k THEN {k} ELSE IF p \in U[a] THEN U[a] \cup {k} ELSE U[a]]

LEMMA GrowKeepsShape ==
  ASSUME NEW r, NEW t, NEW U, NEW k, NEW p, NEW d, Ready(r, t, U, k, p, d),
         NEW u, Grown(t, k, p, d, u)
  PROVE  /\ Shape(r, u, Grafted(U, k, p))
         /\ Grafted(U, k, p)[u.root] = U[t.root] \cup {k}
<1> DEFINE V == Grafted(U, k, p)
           e == Other(d)
<1>1. /\ Shape(r, t, U)
      /\ k \in Key /\ k \notin U[t.root] /\ p \in Node /\ d \in Dir
      /\ p = Nil => t.root = Nil
      /\ p # Nil => p \in U[t.root] /\ t.child[d][p] = Nil /\ Side(r, d, k, p)
      /\ \A n \in Key, f \in Dir : p \in U[t.child[f][n]] => Side(r, f, k, n)
  BY DEF Ready
<1>2. /\ U \in [Node -> SUBSET Key] /\ U[Nil] = {}
      /\ \A n \in Key : U[n] = {n} \cup U[t.child["left"][n]] \cup U[t.child["right"][n]]
      /\ \A n \in Key, f \in Dir : \A j \in U[t.child[f][n]] : Side(r, f, j, n)
      /\ \A n \in Key, f \in Dir : t.child[f][n] # Nil => t.parent[t.child[f][n]] = n
      /\ \A f \in Dir : t.child[f][Nil] = Nil
      /\ t.root # Nil => t.parent[t.root] = Nil
      /\ \A n \in Key \ U[t.root], f \in Dir : t.child[f][n] = Nil
      /\ r \in BOOLEAN
  BY <1>1 DEF Shape, Spans
<1>3. /\ U[k] = {k} /\ \A f \in Dir : t.child[f][k] = Nil
      /\ \A a \in Node : k \in U[a] => a = k
      /\ \A n \in Key, f \in Dir : t.child[f][n] # k
      /\ t.root # k
  BY <1>1, Outside
<1>4. /\ Key \subseteq Node /\ Nil \in Node /\ Nil \notin Key /\ Node = Key \cup {Nil}
      /\ "left" \in Dir /\ "right" \in Dir /\ Dir = {d, e} /\ d # e /\ e \in Dir
      /\ Dir = {"left", "right"}
  BY <1>1, Basics
<1>5. /\ u \in TreeRecord
      /\ u.root = IF p = Nil THEN k ELSE t.root
      /\ \A n \in Node, f \in Dir :
           u.child[f][n] = IF n = k THEN Nil
                           ELSE IF p # Nil /\ n = p /\ f = d THEN k
                           ELSE t.child[f][n]
      /\ \A n \in Node : u.parent[n] = IF n = k THEN p ELSE t.parent[n]
  BY DEF Grown
<1>6. /\ V \in [Node -> SUBSET Key]
      /\ V[k] = {k} /\ V[Nil] = {}
      /\ \A a \in Node : a # k => V[a] = IF p \in U[a] THEN U[a] \cup {k} ELSE U[a]
  BY <1>1, <1>2, <1>4 DEF Grafted
<1> HIDE DEF V
<1>7. p # k
  BY <1>1, <1>4
<1>8. \A n \in Key, f \in Dir : t.child[f][n] \in Node
  BY <1>1, <1>4 DEF Shape, TreeRecord
<1>9. \A n \in Key, f \in Dir : n # k /\ ~(n = p /\ f = d) =>
        V[u.child[f][n]] = IF p \in U[t.child[f][n]] THEN U[t.child[f][n]] \cup {k}
                           ELSE U[t.child[f][n]]
  <2> TAKE n \in Key, f \in Dir
  <2> HAVE n # k /\ ~(n = p /\ f = d)
  <2>1. u.child[f][n] = t.child[f][n]
    BY <1>4, <1>5
  <2>2. t.child[f][n] \in Node /\ t.child[f][n] # k
    BY <1>3, <1>8
  <2> QED BY <1>6, <2>1, <2>2
<1>10. p # Nil => u.child[d][p] = k /\ U[t.child[d][p]] = {}
  BY <1>1, <1>2, <1>5, <1>7
<1>11. ASSUME NEW n \in Key
       PROVE  V[n] = {n} \cup V[u.child["left"][n]] \cup V[u.child["right"][n]]
  <2>1. CASE n = k
    BY <1>4, <1>5, <1>6, <2>1
  <2>2. CASE n = p
    <3>1. V[u.child[d][n]] = {k} /\ U[t.child[d][n]] = {}
      BY <1>4, <1>6, <1>10, <2>2
    <3>2. V[u.child[e][n]] = U[t.child[e][n]]
      <4>1. p \notin U[t.child[e][n]]
        BY <1>1, <1>4, <2>2, Halves
      <4> QED BY <1>4, <1>7, <1>9, <2>2, <4>1
    <3>3. V[n] = U[n] \cup {k}
      <4>1. n \in U[n]
        BY <1>2
      <4> QED BY <1>4, <1>6, <1>7, <2>2, <4>1
    <3>4. V[n] = {n} \cup V[u.child[d][n]] \cup V[u.child[e][n]]
      <4>1. U[n] = {n} \cup U[t.child[d][n]] \cup U[t.child[e][n]]
        BY <1>1, Halves
      <4> QED BY <3>1, <3>2, <3>3, <4>1
    <3> QED BY <1>4, <3>4
  <2>3. CASE n # k /\ n # p
    <3>1. V[n] = IF p \in U[n] THEN U[n] \cup {k} ELSE U[n]
      BY <1>4, <1>6, <2>3
    <3>2. \A f \in Dir : V[u.child[f][n]] = IF p \in U[t.child[f][n]] THEN U[t.child[f][n]] \cup {k}
                                            ELSE U[t.child[f][n]]
      BY <1>9, <2>3
    <3>3. U[n] = {n} \cup U[t.child["left"][n]] \cup U[t.child["right"][n]]
      BY <1>2
    <3>4. /\ V[u.child["left"][n]] = IF p \in U[t.child["left"][n]]
                                      THEN U[t.child["left"][n]] \cup {k}
                                     ELSE U[t.child["left"][n]]
          /\ V[u.child["right"][n]] = IF p \in U[t.child["right"][n]]
                                       THEN U[t.child["right"][n]] \cup {k}
                                      ELSE U[t.child["right"][n]]
      BY <1>4, <3>2
    <3> QED BY <2>3, <3>1, <3>3, <3>4
  <2> QED BY <2>1, <2>2, <2>3
<1>12. \A n \in Key, f \in Dir : \A j \in V[u.child[f][n]] : Side(r, f, j, n)
  <2> TAKE n \in Key, f \in Dir
  <2> TAKE j \in V[u.child[f][n]]
  <2>1. CASE n = k
    BY <1>4, <1>5, <1>6, <2>1
  <2>2. CASE n = p /\ f = d
    BY <1>1, <1>4, <1>6, <1>10, <2>2
  <2>3. CASE n # k /\ ~(n = p /\ f = d)
    <3>1. j \in U[t.child[f][n]] \/ (p \in U[t.child[f][n]] /\ j = k)
      BY <1>9, <2>3
    <3> QED BY <1>1, <1>2, <3>1
  <2> QED BY <2>1, <2>2, <2>3
<1>13. \A n \in Key, f \in Dir : u.child[f][n] # Nil => u.parent[u.child[f][n]] = n
  <2> TAKE n \in Key, f \in Dir
  <2> HAVE u.child[f][n] # Nil
  <2>1. CASE n = p /\ f = d
    <3>1. n # Nil /\ k \in Node /\ u.child[f][n] = k
      BY <1>1, <1>4, <1>10, <2>1
    <3> QED BY <1>5, <2>1, <3>1
  <2>2. CASE ~(n = p /\ f = d)
    <3>1. n # k /\ u.child[f][n] = t.child[f][n] /\ t.child[f][n] # k
      BY <1>3, <1>4, <1>5, <2>2
    <3> QED BY <1>2, <1>5, <1>8, <3>1
  <2> QED BY <2>1, <2>2
<1>14. /\ \A f \in Dir : u.child[f][Nil] = Nil
       /\ u.root # Nil => u.parent[u.root] = Nil
  <2>1. t.root \in Node
    BY <1>1 DEF Shape, TreeRecord
  <2> QED BY <1>1, <1>2, <1>3, <1>4, <1>5, <2>1
<1>15. V[u.root] = U[t.root] \cup {k}
  <2>1. t.root \in Node
    BY <1>1 DEF Shape, TreeRecord
  <2> QED BY <1>1, <1>2, <1>3, <1>5, <1>6, <2>1
<1>16. \A n \in Key \ V[u.root], f \in Dir : u.child[f][n] = Nil
  <2> TAKE n \in Key \ V[u.root], f \in Dir
  <2>1. n \notin U[t.root] /\ n # k
    BY <1>15
  <2>2. n # p
    BY <1>1, <1>4, <2>1
  <2> QED BY <1>2, <1>4, <1>5, <2>1, <2>2
<1>17. Shape(r, u, V)
  BY <1>2, <1>5, <1>6, <1>11, <1>12, <1>13, <1>14, <1>16 DEF Shape, Spans
<1> QED BY <1>15, <1>17 DEF V

\* The new node has no height yet.
LEMMA GrowKeepsHeights ==
  ASSUME NEW r, NEW t, NEW U, NEW k, NEW p, NEW d, Ready(r, t, U, k, p, d),
         NEW u, Grown(t, k, p, d, u), NEW B, Heights(t, B, Nil, "left")
  PROVE  Heights(u, [B EXCEPT ![k] = 0], Nil, "left")
<1> DEFINE A == [B EXCEPT ![k] = 0]
<1>1. /\ Shape(r, t, U)
      /\ k \in Key /\ k \notin U[t.root] /\ p \in Node /\ d \in Dir
      /\ p # Nil => t.child[d][p] = Nil
  BY DEF Ready
<1>2. /\ B \in [Node -> Nat] /\ B[Nil] = 0
      /\ \A n \in Key : HeightAt(t, B, Nil, "left", n)
  BY DEF Heights
<1>3. \A n \in Key, f \in Dir : t.child[f][n] # k
  BY <1>1, Outside
<1>4. Key \subseteq Node /\ Nil \in Node /\ Nil \notin Key
  BY Basics
<1>5. /\ A \in [Node -> Nat] /\ A[k] = 0 /\ A[Nil] = 0
      /\ \A n \in Node : n # k => A[n] = B[n]
  BY <1>1, <1>2, <1>4
<1> HIDE DEF A
<1>6. /\ u.red = t.red \cup {k}
      /\ \A n \in Key, f \in Dir :
           u.child[f][n] = IF n = k THEN Nil
                           ELSE IF p # Nil /\ n = p /\ f = d THEN k
                           ELSE t.child[f][n]
  BY <1>4 DEF Grown
<1>7. ASSUME NEW n \in Key, NEW f \in Dir
      PROVE  A[n] = A[u.child[f][n]] + Gap(Nil, "left", n, f) + Black(u, n)
  <2>0. Gap(Nil, "left", n, f) = 0
    BY <1>4 DEF Gap
  <2>1. CASE n = k
    <3>1. Black(u, n) = 0 /\ A[u.child[f][n]] = 0
      BY <1>5, <1>6, <2>1 DEF Black
    <3> QED BY <1>5, <2>0, <2>1, <3>1
  <2>2. CASE n # k
    <3>1. B[n] = B[t.child[f][n]] + Black(t, n) /\ t.child[f][n] \in Node
          /\ B[t.child[f][n]] \in Nat
      BY <1>1, <1>2, <1>4, LevelSide, HeightTypes
    <3>2. Black(u, n) = Black(t, n) /\ A[n] = B[n]
      BY <1>4, <1>5, <1>6, <2>2 DEF Black
    <3>3. A[u.child[f][n]] = B[t.child[f][n]]
      BY <1>1, <1>2, <1>3, <1>5, <1>6, <2>2, <3>1
    <3>4. Black(t, n) \in Nat
      BY DEF Black
    <3> QED BY <2>0, <3>1, <3>2, <3>3, <3>4
  <2> QED BY <2>1, <2>2
<1>8. Heights(u, A, Nil, "left")
  BY <1>5, <1>7 DEF Heights, HeightAt
<1> QED BY <1>8 DEF A

\* It is the only node that may be wrong.
LEMMA GrowKeepsReds ==
  ASSUME NEW r, NEW t, NEW U, NEW k, NEW p, NEW d, Ready(r, t, U, k, p, d),
         NEW u, Grown(t, k, p, d, u), Reds(t, U, Nil, FALSE)
  PROVE  /\ Reds(u, Grafted(U, k, p), k, FALSE)
         /\ k \in Grafted(U, k, p)[u.root] /\ k \in u.red
<1> DEFINE V == Grafted(U, k, p)
<1>1. V[u.root] = U[t.root] \cup {k}
  BY GrowKeepsShape
<1>2. /\ Shape(r, t, U) /\ k \in Key /\ Nil \notin Key /\ t.red \subseteq Key
      /\ p = Nil => t.root = Nil
  BY Basics DEF Ready, Shape, TreeRecord
<1>3. /\ t.red \subseteq U[t.root] /\ t.root \notin t.red
      /\ \A n \in Key, f \in Dir : ~(n \in t.red /\ t.child[f][n] \in t.red)
  BY <1>2 DEF Reds
<1>4. /\ u.red = t.red \cup {k}
      /\ u.root = IF p = Nil THEN k ELSE t.root
      /\ \A n \in Key, f \in Dir :
           u.child[f][n] = IF n = k THEN Nil
                           ELSE IF p # Nil /\ n = p /\ f = d THEN k
                           ELSE t.child[f][n]
  BY Basics DEF Grown
<1> HIDE DEF V
<1>5. ASSUME NEW n \in Key, NEW f \in Dir, n \in u.red, u.child[f][n] \in u.red
      PROVE  u.child[f][n] = k
  BY <1>2, <1>3, <1>4, <1>5
<1>6. u.root \in u.red => u.root = k
  BY <1>3, <1>4
<1>7. u.red \subseteq V[u.root]
  BY <1>1, <1>3, <1>4
<1>8. Reds(u, V, k, FALSE)
  BY <1>5, <1>6, <1>7 DEF Reds
<1> QED BY <1>1, <1>4, <1>8 DEF V

-----------------------------------------------------------------------------
(* Delete: a node leaves.                                                  *)

\* u is t with c in the place of z, and z outside.
Spliced(t, z, c, u) ==
  /\ u \in TreeRecord
  /\ u.red = t.red \ {z}
  /\ u.root = IF z = t.root THEN c ELSE t.root
  /\ \A n \in Key, f \in Dir :
       u.child[f][n] = IF n = z THEN Nil ELSE IF t.child[f][n] = z THEN c ELSE t.child[f][n]
  /\ \A f \in Dir : u.child[f][Nil] = Nil
  /\ \A n \in Key : u.parent[n] = IF n = z THEN Nil ELSE IF n = c THEN t.parent[z]
                                  ELSE t.parent[n]

\* z has at most one child, c, on side f.
Removable(r, t, U, z, f, c) ==
  /\ Shape(r, t, U)
  /\ z \in U[t.root] /\ f \in Dir
  /\ t.child[f][z] = c /\ t.child[Other(f)][z] = Nil

Without(U, z) == [a \in Node |-> IF a = z THEN {z} ELSE U[a] \ {z}]

LEMMA SpliceKeepsShape ==
  ASSUME NEW r, NEW t, NEW U, NEW z, NEW g, NEW c, Removable(r, t, U, z, g, c),
         NEW u, Spliced(t, z, c, u)
  PROVE  /\ Shape(r, u, Without(U, z))
         /\ Without(U, z)[u.root] = U[t.root] \ {z}
<1> DEFINE V == Without(U, z)
<1>1. /\ Shape(r, t, U) /\ z \in U[t.root] /\ g \in Dir
      /\ t.child[g][z] = c /\ t.child[Other(g)][z] = Nil
      /\ Nil \notin Key /\ Key \subseteq Node /\ Nil \in Node /\ Node = Key \cup {Nil}
      /\ "left" \in Dir /\ "right" \in Dir
  BY Basics DEF Removable
<1>2. z \in Key /\ t.root \in Key /\ (z = t.root <=> t.parent[z] = Nil)
  BY <1>1, Parents
<1>3. /\ U \in [Node -> SUBSET Key] /\ U[Nil] = {}
      /\ \A n \in Key : U[n] = {n} \cup U[t.child["left"][n]] \cup U[t.child["right"][n]]
      /\ \A n \in Key, f \in Dir : \A j \in U[t.child[f][n]] : Side(r, f, j, n)
      /\ \A n \in Key, f \in Dir : t.child[f][n] # Nil => t.parent[t.child[f][n]] = n
      /\ t.root # Nil => t.parent[t.root] = Nil
      /\ \A n \in Key \ U[t.root], f \in Dir : t.child[f][n] = Nil
      /\ r \in BOOLEAN
  BY <1>1 DEF Shape, Spans
<1>4. /\ u \in TreeRecord
      /\ u.root = IF z = t.root THEN c ELSE t.root
      /\ \A n \in Key, f \in Dir :
           u.child[f][n] = IF n = z THEN Nil ELSE IF t.child[f][n] = z THEN c
                           ELSE t.child[f][n]
      /\ \A f \in Dir : u.child[f][Nil] = Nil
      /\ \A n \in Key : u.parent[n] = IF n = z THEN Nil ELSE IF n = c THEN t.parent[z]
                                      ELSE t.parent[n]
  BY DEF Spliced
<1>5. /\ V \in [Node -> SUBSET Key]
      /\ V[z] = {z} /\ V[Nil] = {}
      /\ \A a \in Node : a # z => V[a] = U[a] \ {z}
  BY <1>1, <1>2, <1>3 DEF Without
<1> HIDE DEF V
<1>6. c \in Node /\ c # z /\ V[c] = U[z] \ {z}
  <2>1. /\ U[z] = {z} \cup U[c] \cup U[t.child[Other(g)][z]]
        /\ z \notin U[c] /\ c \in Node /\ z \in U[z]
    BY <1>1, <1>2, Halves
  <2> QED BY <1>1, <1>3, <1>5, <2>1
<1>7. \A n \in Key, f \in Dir : t.child[f][n] \in Node
  BY <1>1 DEF Shape, TreeRecord
<1>8. \A n \in Key, f \in Dir : n # z => V[u.child[f][n]] = U[t.child[f][n]] \ {z}
  <2> TAKE n \in Key, f \in Dir
  <2> HAVE n # z
  <2>1. CASE t.child[f][n] = z
    BY <1>4, <1>6, <2>1
  <2>2. CASE t.child[f][n] # z
    BY <1>4, <1>5, <1>7, <2>2
  <2> QED BY <2>1, <2>2
<1>9. ASSUME NEW n \in Key
      PROVE  V[n] = {n} \cup V[u.child["left"][n]] \cup V[u.child["right"][n]]
  <2>1. CASE n = z
    BY <1>1, <1>4, <1>5, <2>1
  <2>2. CASE n # z
    <3>1. V[n] = U[n] \ {z}
      BY <1>1, <1>5, <2>2
    <3>2. /\ V[u.child["left"][n]] = U[t.child["left"][n]] \ {z}
          /\ V[u.child["right"][n]] = U[t.child["right"][n]] \ {z}
      BY <1>1, <1>8, <2>2
    <3>3. U[n] = {n} \cup U[t.child["left"][n]] \cup U[t.child["right"][n]]
      BY <1>3
    <3> QED BY <2>2, <3>1, <3>2, <3>3
  <2> QED BY <2>1, <2>2
<1>10. \A n \in Key, f \in Dir : \A j \in V[u.child[f][n]] : Side(r, f, j, n)
  <2> TAKE n \in Key, f \in Dir
  <2> TAKE j \in V[u.child[f][n]]
  <2>1. n # z
    BY <1>1, <1>4, <1>5
  <2>2. j \in U[t.child[f][n]]
    BY <1>8, <2>1
  <2> QED BY <1>3, <2>2
<1>11. \A n \in Key, f \in Dir : u.child[f][n] # Nil => u.parent[u.child[f][n]] = n
  <2> TAKE n \in Key, f \in Dir
  <2> HAVE u.child[f][n] # Nil
  <2>1. n # z
    BY <1>4
  <2>2. CASE t.child[f][n] = z
    <3>1. u.child[f][n] = c /\ c \in Key
      BY <1>1, <1>4, <1>6, <2>1, <2>2
    <3>2. t.parent[z] = n
      BY <1>1, <1>2, <1>3, <2>2
    <3> QED BY <1>4, <1>6, <3>1, <3>2
  <2>3. CASE t.child[f][n] # z
    <3>1. u.child[f][n] = t.child[f][n] /\ t.child[f][n] \in Key
      BY <1>1, <1>4, <1>7, <2>1, <2>3
    <3>2. t.child[f][n] # c
      BY <1>1, <1>2, <2>1, <3>1, OnePlace
    <3> QED BY <1>3, <1>4, <2>3, <3>1, <3>2
  <2> QED BY <2>2, <2>3
<1>12. u.root # Nil => u.parent[u.root] = Nil
  <2>1. CASE z = t.root
    BY <1>1, <1>2, <1>3, <1>4, <1>6, <2>1
  <2>2. CASE z # t.root
    <3>1. t.root # c
      BY <1>1, <1>2, <1>3
    <3> QED BY <1>1, <1>2, <1>3, <1>4, <2>2, <3>1
  <2> QED BY <2>1, <2>2
<1>13. V[u.root] = U[t.root] \ {z}
  BY <1>1, <1>2, <1>4, <1>5, <1>6
<1>14. \A n \in Key \ V[u.root], f \in Dir : u.child[f][n] = Nil
  <2> TAKE n \in Key \ V[u.root], f \in Dir
  <2>1. n = z \/ n \notin U[t.root]
    BY <1>13
  <2>2. CASE n = z
    BY <1>4, <2>2
  <2>3. CASE n \notin U[t.root]
    <3>1. t.child[f][n] = Nil /\ Nil # z
      BY <1>1, <1>2, <1>3, <2>3
    <3> QED BY <1>4, <3>1
  <2> QED BY <2>1, <2>2, <2>3
<1>15. Shape(r, u, V)
  BY <1>3, <1>4, <1>5, <1>9, <1>10, <1>11, <1>12, <1>14 DEF Shape, Spans
<1> QED BY <1>13, <1>15 DEF V

\* A black node leaves a gap, unless it was the root.
GapOf(t, z, p, s) ==
  IF z \in t.red \/ z = t.root THEN p = Nil /\ s = "left"
  ELSE p = t.parent[z] /\ s = SideOf(t, z)

LEMMA SpliceKeepsHeights ==
  ASSUME NEW r, NEW t, NEW U, NEW z, NEW g, NEW c, Removable(r, t, U, z, g, c),
         NEW u, Spliced(t, z, c, u), NEW B, Heights(t, B, Nil, "left"),
         NEW p, NEW s, GapOf(t, z, p, s)
  PROVE  Heights(u, [B EXCEPT ![z] = 1], p, s)
<1> DEFINE A == [B EXCEPT ![z] = 1]
<1>1. /\ Shape(r, t, U) /\ z \in U[t.root] /\ g \in Dir /\ t.child[g][z] = c
      /\ Nil \notin Key /\ Key \subseteq Node /\ Nil \in Node
  BY Basics DEF Removable
<1>2. /\ z \in Key
      /\ z # t.root => /\ t.parent[z] \in Key /\ SideOf(t, z) \in Dir
                       /\ t.child[SideOf(t, z)][t.parent[z]] = z
  BY <1>1, Parents
<1>3. /\ B \in [Node -> Nat] /\ B[Nil] = 0
      /\ \A n \in Key : HeightAt(t, B, Nil, "left", n)
  BY DEF Heights
<1>4. /\ u.red = t.red \ {z}
      /\ \A n \in Key, f \in Dir :
           u.child[f][n] = IF n = z THEN Nil ELSE IF t.child[f][n] = z THEN c
                           ELSE t.child[f][n]
  BY DEF Spliced
<1>5. /\ A \in [Node -> Nat] /\ A[z] = 1 /\ A[Nil] = 0
      /\ \A n \in Node : n # z => A[n] = B[n]
  BY <1>1, <1>2, <1>3
<1> HIDE DEF A
<1>6. \A n \in Key, f \in Dir :
        /\ B[n] = B[t.child[f][n]] + Black(t, n)
        /\ t.child[f][n] \in Node /\ B[t.child[f][n]] \in Nat /\ Black(t, n) \in Nat
  BY <1>1, <1>3, LevelSide, HeightTypes
<1>7. c \in Node /\ c # z
  BY <1>1, <1>2, Halves
<1>8. ASSUME NEW n \in Key, NEW f \in Dir
      PROVE  A[n] = A[u.child[f][n]] + Gap(p, s, n, f) + Black(u, n)
  <2>1. CASE n = z
    <3>1. Gap(p, s, n, f) = 0
      <4>1. n # p
        <5>1. t.child[SideOf(t, z)][z] # z \/ SideOf(t, z) \notin Dir
          BY <1>1, <1>2, Halves
        <5> QED BY <1>1, <1>2, <2>1, <5>1 DEF GapOf
      <4> QED BY <4>1 DEF Gap
    <3>2. A[u.child[f][n]] = 0 /\ Black(u, n) = 1
      BY <1>4, <1>5, <2>1 DEF Black
    <3> QED BY <1>5, <2>1, <3>1, <3>2
  <2>2. CASE n # z /\ t.child[f][n] = z
    <3>1. A[n] = B[n] /\ Black(u, n) = Black(t, n) /\ A[u.child[f][n]] = B[c]
      BY <1>1, <1>4, <1>5, <1>7, <2>2 DEF Black
    <3>2. B[n] = B[z] + Black(t, n) /\ B[z] = B[c] + Black(t, z)
      BY <1>1, <1>2, <1>6, <2>2
    <3>3. Gap(p, s, n, f) = Black(t, z)
      <4>1. CASE z \in t.red
        BY <1>1, <4>1 DEF GapOf, Gap, Black
      <4>2. CASE z = t.root
        <5>1. t.parent[z] = n /\ t.parent[z] = Nil
          BY <1>1, <1>2, <2>2, <4>2 DEF Shape
        <5> QED BY <1>1, <5>1
      <4>3. CASE z \notin t.red /\ z # t.root
        <5>1. n = t.parent[z] /\ f = SideOf(t, z)
          <6>1. t.parent[z] \in Node /\ n \in Node
            BY <1>1, <1>2, <4>3
          <6> QED BY <1>1, <1>2, <2>2, <4>3, <6>1, OnePlace
        <5> QED BY <4>3, <5>1 DEF GapOf, Gap, Black
      <4> QED BY <4>1, <4>2, <4>3
    <3>4. B[c] \in Nat /\ Black(t, z) \in Nat /\ Black(t, n) \in Nat
      BY <1>2, <1>3, <1>6, <1>7
    <3> QED BY <3>1, <3>2, <3>3, <3>4
  <2>3. CASE n # z /\ t.child[f][n] # z
    <3>1. A[n] = B[n] /\ Black(u, n) = Black(t, n) /\ A[u.child[f][n]] = B[t.child[f][n]]
      BY <1>1, <1>4, <1>5, <1>6, <2>3 DEF Black
    <3>2. Gap(p, s, n, f) = 0
      <4>1. n # p \/ f # s
        BY <1>1, <1>2, <2>3 DEF GapOf
      <4> QED BY <4>1 DEF Gap
    <3> QED BY <1>6, <3>1, <3>2
  <2> QED BY <2>1, <2>2, <2>3
<1>9. Heights(u, A, p, s)
  BY <1>5, <1>8 DEF Heights, HeightAt
<1> QED BY <1>9 DEF A

\* What moved up may be red under a red parent, unless a red node left.
LEMMA SpliceKeepsReds ==
  ASSUME NEW r, NEW t, NEW U, NEW z, NEW g, NEW c, Removable(r, t, U, z, g, c),
         NEW u, Spliced(t, z, c, u), Reds(t, U, Nil, FALSE)
  PROVE  /\ Reds(u, Without(U, z), c, TRUE)
         /\ z \in t.red => Reds(u, Without(U, z), Nil, FALSE)
<1> DEFINE V == Without(U, z)
<1>1. V[u.root] = U[t.root] \ {z}
  BY SpliceKeepsShape
<1>2. /\ t.red \subseteq Key /\ Nil \notin Key
  BY Basics DEF Removable, Shape, TreeRecord
<1>3. /\ t.red \subseteq U[t.root] /\ t.root \notin t.red
      /\ \A n \in Key, f \in Dir : ~(n \in t.red /\ t.child[f][n] \in t.red)
  BY <1>2 DEF Reds
<1>4. /\ u.red = t.red \ {z}
      /\ u.root = IF z = t.root THEN c ELSE t.root
      /\ \A n \in Key, f \in Dir :
           u.child[f][n] = IF n = z THEN Nil ELSE IF t.child[f][n] = z THEN c
                           ELSE t.child[f][n]
  BY DEF Spliced
<1> HIDE DEF V
<1>5. ASSUME NEW n \in Key, NEW f \in Dir, n \in u.red, u.child[f][n] \in u.red
      PROVE  u.child[f][n] = c /\ z \notin t.red
  BY <1>2, <1>3, <1>4, <1>5
<1>6. u.root \in u.red => u.root = c /\ z \notin t.red
  BY <1>3, <1>4
<1>7. u.red \subseteq V[u.root]
  BY <1>1, <1>3, <1>4
<1>8. Reds(u, V, c, TRUE) /\ (z \in t.red => Reds(u, V, Nil, FALSE))
  BY <1>5, <1>6, <1>7 DEF Reds
<1> QED BY <1>8 DEF V

\* u is t with y in the place and the colour of z, and z outside.
Replaced(t, z, y, u) ==
  /\ u \in TreeRecord
  /\ u.red = IF z \in t.red THEN (t.red \ {z}) \cup {y} ELSE t.red
  /\ u.root = IF z = t.root THEN y ELSE t.root
  /\ \A n \in Key, f \in Dir :
       u.child[f][n] = IF n = z THEN Nil
                       ELSE IF n = y THEN t.child[f][z]
                       ELSE IF t.child[f][n] = z THEN y
                       ELSE t.child[f][n]
  /\ \A f \in Dir : u.child[f][Nil] = Nil
  /\ \A n \in Key :
       u.parent[n] = IF n = z THEN Nil
                     ELSE IF n = y THEN t.parent[z]
                     ELSE IF \E f \in Dir : t.child[f][z] = n THEN y
                     ELSE t.parent[n]

\* y is outside, and among the other nodes its place is that of z.
Neighbours(r, t, U, z, y) ==
  /\ Shape(r, t, U)
  /\ z \in U[t.root] /\ y \in Key /\ y \notin U[t.root]
  /\ \A j \in U[t.root], f \in Dir : j # z /\ Side(r, f, j, z) => Side(r, f, j, y)

Renamed(U, z, y) ==
  [a \in Node |-> IF a = z THEN {z}
                  ELSE IF a = y THEN (U[z] \ {z}) \cup {y}
                  ELSE IF z \in U[a] THEN (U[a] \ {z}) \cup {y}
                  ELSE U[a]]

LEMMA ReplaceKeepsShape ==
  ASSUME NEW r, NEW t, NEW U, NEW z, NEW y, Neighbours(r, t, U, z, y),
         NEW u, Replaced(t, z, y, u)
  PROVE  /\ Shape(r, u, Renamed(U, z, y))
         /\ Renamed(U, z, y)[u.root] = (U[t.root] \ {z}) \cup {y}
<1> DEFINE V == Renamed(U, z, y)
<1>1. /\ Shape(r, t, U) /\ z \in U[t.root] /\ y \in Key /\ y \notin U[t.root]
      /\ \A j \in U[t.root], f \in Dir : j # z /\ Side(r, f, j, z) => Side(r, f, j, y)
      /\ Nil \notin Key /\ Key \subseteq Node /\ Nil \in Node /\ Node = Key \cup {Nil}
      /\ "left" \in Dir /\ "right" \in Dir
  BY Basics DEF Neighbours
<1>2. /\ z \in Key /\ t.root \in Key /\ t.root \in Node
      /\ z = t.root <=> t.parent[z] = Nil
  BY <1>1, Parents
<1>3. /\ U \in [Node -> SUBSET Key] /\ U[Nil] = {}
      /\ \A n \in Key : U[n] = {n} \cup U[t.child["left"][n]] \cup U[t.child["right"][n]]
      /\ \A n \in Key, f \in Dir : \A j \in U[t.child[f][n]] : Side(r, f, j, n)
      /\ \A n \in Key, f \in Dir : t.child[f][n] # Nil => t.parent[t.child[f][n]] = n
      /\ t.root # Nil => t.parent[t.root] = Nil
      /\ \A n \in Key \ U[t.root], f \in Dir : t.child[f][n] = Nil
      /\ r \in BOOLEAN
  BY <1>1 DEF Shape, Spans
<1>4. /\ u \in TreeRecord
      /\ u.root = IF z = t.root THEN y ELSE t.root
      /\ \A n \in Key, f \in Dir :
           u.child[f][n] = IF n = z THEN Nil
                           ELSE IF n = y THEN t.child[f][z]
                           ELSE IF t.child[f][n] = z THEN y
                           ELSE t.child[f][n]
      /\ \A f \in Dir : u.child[f][Nil] = Nil
      /\ \A n \in Key :
           u.parent[n] = IF n = z THEN Nil
                         ELSE IF n = y THEN t.parent[z]
                         ELSE IF \E f \in Dir : t.child[f][z] = n THEN y
                         ELSE t.parent[n]
  BY DEF Replaced
<1>5. /\ V \in [Node -> SUBSET Key]
      /\ V[z] = {z} /\ V[y] = (U[z] \ {z}) \cup {y} /\ V[Nil] = {}
      /\ \A a \in Node : a # z /\ a # y =>
           V[a] = IF z \in U[a] THEN (U[a] \ {z}) \cup {y} ELSE U[a]
  BY <1>1, <1>2, <1>3 DEF Renamed
<1> HIDE DEF V
<1>6. /\ U[y] = {y} /\ \A f \in Dir : t.child[f][y] = Nil
      /\ \A a \in Node : y \in U[a] => a = y
      /\ \A n \in Key, f \in Dir : t.child[f][n] # y
      /\ t.root # y
  BY <1>1, Outside
<1>7. \A n \in Key, f \in Dir :
        t.child[f][n] \in Node /\ n \notin U[t.child[f][n]] /\ t.child[f][n] # n
  <2> TAKE n \in Key, f \in Dir
  <2>1. t.child[f][n] \in Node /\ n \notin U[t.child[f][n]] /\ n \in U[n]
    BY <1>1, Halves
  <2> QED BY <2>1
<1>8. z # y /\ z \in U[z]
  BY <1>1, <1>2, <1>3
<1>9. \A n \in Key, f \in Dir : n # z /\ n # y =>
        V[u.child[f][n]] = IF z \in U[t.child[f][n]] THEN (U[t.child[f][n]] \ {z}) \cup {y}
                           ELSE U[t.child[f][n]]
  <2> TAKE n \in Key, f \in Dir
  <2> HAVE n # z /\ n # y
  <2>1. CASE t.child[f][n] = z
    BY <1>4, <1>5, <1>8, <2>1
  <2>2. CASE t.child[f][n] # z
    <3>1. u.child[f][n] = t.child[f][n] /\ t.child[f][n] \in Node /\ t.child[f][n] # y
      BY <1>4, <1>6, <1>7, <2>2
    <3> QED BY <1>5, <2>2, <3>1
  <2> QED BY <2>1, <2>2
<1>10. \A f \in Dir : u.child[f][y] = t.child[f][z] /\ V[u.child[f][y]] = U[t.child[f][z]]
  <2> TAKE f \in Dir
  <2>1. u.child[f][y] = t.child[f][z]
    BY <1>1, <1>4, <1>8
  <2>2. /\ t.child[f][z] # z /\ t.child[f][z] # y /\ z \notin U[t.child[f][z]]
        /\ t.child[f][z] \in Node
    BY <1>2, <1>6, <1>7
  <2> QED BY <1>5, <2>1, <2>2
<1>11. ASSUME NEW n \in Key
       PROVE  V[n] = {n} \cup V[u.child["left"][n]] \cup V[u.child["right"][n]]
  <2>1. CASE n = z
    BY <1>1, <1>4, <1>5, <2>1
  <2>2. CASE n = y
    <3>1. U[z] = {z} \cup U[t.child["left"][z]] \cup U[t.child["right"][z]]
      BY <1>2, <1>3
    <3>2. z \notin U[t.child["left"][z]] /\ z \notin U[t.child["right"][z]]
      BY <1>1, <1>2, <1>7
    <3> QED BY <1>1, <1>5, <1>10, <2>2, <3>1, <3>2
  <2>3. CASE n # z /\ n # y
    <3>1. V[n] = IF z \in U[n] THEN (U[n] \ {z}) \cup {y} ELSE U[n]
      BY <1>1, <1>5, <2>3
    <3>2. /\ V[u.child["left"][n]] =
               IF z \in U[t.child["left"][n]] THEN (U[t.child["left"][n]] \ {z}) \cup {y}
               ELSE U[t.child["left"][n]]
          /\ V[u.child["right"][n]] =
               IF z \in U[t.child["right"][n]] THEN (U[t.child["right"][n]] \ {z}) \cup {y}
               ELSE U[t.child["right"][n]]
      BY <1>1, <1>9, <2>3
    <3>3. U[n] = {n} \cup U[t.child["left"][n]] \cup U[t.child["right"][n]]
      BY <1>3
    <3> QED BY <2>3, <3>1, <3>2, <3>3
  <2> QED BY <2>1, <2>2, <2>3
<1>12. \A n \in Key, f \in Dir : \A j \in V[u.child[f][n]] : Side(r, f, j, n)
  <2> TAKE n \in Key, f \in Dir
  <2> TAKE j \in V[u.child[f][n]]
  <2>1. CASE n = z
    BY <1>4, <1>5, <2>1
  <2>2. CASE n = y
    <3>1. j \in U[t.child[f][z]] /\ Side(r, f, j, z) /\ j # z
      BY <1>2, <1>3, <1>7, <1>10, <2>2
    <3>2. j \in U[t.root]
      <4>1. U[t.child[f][z]] \subseteq U[z] /\ U[z] \subseteq U[t.root]
        BY <1>1, <1>2, Nested, Halves
      <4> QED BY <3>1, <4>1
    <3> QED BY <1>1, <2>2, <3>1, <3>2
  <2>3. CASE n # z /\ n # y
    <3>1. j \in U[t.child[f][n]] \/ (z \in U[t.child[f][n]] /\ j = y)
      BY <1>9, <2>3
    <3>2. CASE j \in U[t.child[f][n]]
      BY <1>3, <3>2
    <3>3. CASE z \in U[t.child[f][n]] /\ j = y
      <4>1. Side(r, f, z, n)
        BY <1>3, <3>3
      <4>2. n \in U[t.root]
        BY <1>3, <3>3
      <4>3. Side(r, Other(f), n, z) /\ Other(f) \in Dir /\ Other(Other(f)) = f
        BY <1>2, <1>3, <4>1, SideOrder, Basics
      <4>4. Side(r, Other(f), n, y)
        BY <1>1, <2>3, <4>2, <4>3
      <4> QED BY <1>1, <1>3, <3>3, <4>3, <4>4, SideOrder
    <3> QED BY <3>1, <3>2, <3>3
  <2> QED BY <2>1, <2>2, <2>3
<1>13. \A n \in Key, f \in Dir : u.child[f][n] # Nil => u.parent[u.child[f][n]] = n
  <2> TAKE n \in Key, f \in Dir
  <2> HAVE u.child[f][n] # Nil
  <2>1. n # z
    BY <1>4
  <2>2. CASE n = y
    <3>1. u.child[f][n] = t.child[f][z] /\ u.child[f][n] \in Key
      BY <1>1, <1>2, <1>7, <1>10, <2>2
    <3>2. u.child[f][n] # z /\ u.child[f][n] # y
      BY <1>2, <1>6, <1>7, <3>1
    <3> QED BY <1>4, <2>2, <3>1, <3>2
  <2>3. CASE n # y /\ t.child[f][n] = z
    <3>1. u.child[f][n] = y /\ t.parent[z] = n
      BY <1>1, <1>2, <1>3, <1>4, <2>1, <2>3
    <3> QED BY <1>1, <1>4, <1>8, <3>1
  <2>4. CASE n # y /\ t.child[f][n] # z
    <3>1. u.child[f][n] = t.child[f][n] /\ t.child[f][n] \in Key /\ t.child[f][n] # y
      BY <1>1, <1>4, <1>6, <1>7, <2>1, <2>4
    <3>2. t.parent[t.child[f][n]] = n
      BY <1>1, <1>3, <3>1
    <3>3. \A g \in Dir : t.child[g][z] # t.child[f][n]
      BY <1>1, <1>2, <2>1, <3>1, OnePlace
    <3> QED BY <1>4, <2>4, <3>1, <3>2, <3>3
  <2> QED BY <2>2, <2>3, <2>4
<1>14. u.root # Nil => u.parent[u.root] = Nil
  <2>1. CASE z = t.root
    BY <1>1, <1>2, <1>4, <1>8, <2>1
  <2>2. CASE z # t.root
    <3>1. \A g \in Dir : t.child[g][z] # t.root
      BY <1>1, <1>2, <1>3
    <3> QED BY <1>1, <1>2, <1>3, <1>4, <1>6, <2>2, <3>1
  <2> QED BY <2>1, <2>2
<1>15. V[u.root] = (U[t.root] \ {z}) \cup {y}
  BY <1>1, <1>2, <1>4, <1>5, <1>6
<1>16. \A n \in Key \ V[u.root], f \in Dir : u.child[f][n] = Nil
  <2> TAKE n \in Key \ V[u.root], f \in Dir
  <2>1. n # y /\ (n = z \/ n \notin U[t.root])
    BY <1>15
  <2>2. CASE n = z
    BY <1>4, <2>2
  <2>3. CASE n \notin U[t.root]
    <3>1. t.child[f][n] = Nil /\ Nil # z
      BY <1>1, <1>2, <1>3, <2>3
    <3> QED BY <1>4, <2>1, <3>1
  <2> QED BY <2>1, <2>2, <2>3
<1>17. Shape(r, u, V)
  BY <1>3, <1>4, <1>5, <1>11, <1>12, <1>13, <1>14, <1>16 DEF Shape, Spans
<1> QED BY <1>15, <1>17 DEF V

LEMMA ReplaceKeepsHeights ==
  ASSUME NEW r, NEW t, NEW U, NEW z, NEW y, Neighbours(r, t, U, z, y),
         NEW u, Replaced(t, z, y, u), t.red \subseteq U[t.root],
         NEW B, NEW p, NEW s, Heights(t, B, p, s), p # y,
         NEW q, q = IF p = z THEN y ELSE p
  PROVE  Heights(u, [B EXCEPT ![y] = B[z], ![z] = 1], q, s)
<1> DEFINE A == [B EXCEPT ![y] = B[z], ![z] = 1]
<1>1. /\ Shape(r, t, U) /\ z \in U[t.root] /\ y \in Key /\ y \notin U[t.root]
      /\ Nil \notin Key /\ Key \subseteq Node /\ Nil \in Node /\ Node = Key \cup {Nil}
  BY Basics DEF Neighbours
<1>2. z \in Key /\ z # y
  BY <1>1, Parents
<1>3. /\ B \in [Node -> Nat] /\ B[Nil] = 0
      /\ \A n \in Key : HeightAt(t, B, p, s, n)
  BY DEF Heights
<1>4. /\ u.red = IF z \in t.red THEN (t.red \ {z}) \cup {y} ELSE t.red
      /\ \A n \in Key, f \in Dir :
           u.child[f][n] = IF n = z THEN Nil
                           ELSE IF n = y THEN t.child[f][z]
                           ELSE IF t.child[f][n] = z THEN y
                           ELSE t.child[f][n]
  BY DEF Replaced
<1>5. /\ A \in [Node -> Nat] /\ A[z] = 1 /\ A[y] = B[z] /\ A[Nil] = 0
      /\ \A n \in Node : n # z /\ n # y => A[n] = B[n]
  BY <1>1, <1>2, <1>3
<1> HIDE DEF A
<1>6. \A n \in Key, f \in Dir : t.child[f][n] # y
  BY <1>1, Outside
<1>7. \A n \in Key, f \in Dir :
        /\ B[n] = B[t.child[f][n]] + Gap(p, s, n, f) + Black(t, n)
        /\ t.child[f][n] \in Node /\ t.child[f][n] # n
  <2> TAKE n \in Key, f \in Dir
  <2>1. t.child[f][n] \in Node /\ n \notin U[t.child[f][n]] /\ n \in U[n]
    BY <1>1, Halves
  <2> QED BY <1>3, <2>1 DEF HeightAt
<1>8. y \notin t.red
  BY <1>1
<1>9. ASSUME NEW n \in Key, NEW f \in Dir
      PROVE  A[n] = A[u.child[f][n]] + Gap(q, s, n, f) + Black(u, n)
  <2>1. CASE n = z
    <3>1. Gap(q, s, n, f) = 0
      BY <1>2, <2>1 DEF Gap
    <3>2. A[u.child[f][n]] = 0 /\ Black(u, n) = 1
      BY <1>2, <1>4, <1>5, <2>1 DEF Black
    <3> QED BY <1>5, <2>1, <3>1, <3>2
  <2>2. CASE n = y
    <3>1. Gap(q, s, n, f) = Gap(p, s, z, f)
      BY <1>2, <2>2 DEF Gap
    <3>2. Black(u, n) = Black(t, z)
      BY <1>2, <1>4, <1>8, <2>2 DEF Black
    <3>3. A[u.child[f][n]] = B[t.child[f][z]]
      BY <1>2, <1>4, <1>5, <1>6, <1>7, <2>2
    <3> QED BY <1>2, <1>5, <1>7, <2>2, <3>1, <3>2, <3>3
  <2>3. CASE n # z /\ n # y
    <3>1. Gap(q, s, n, f) = Gap(p, s, n, f)
      BY <2>3 DEF Gap
    <3>2. Black(u, n) = Black(t, n)
      BY <1>4, <2>3 DEF Black
    <3>3. A[u.child[f][n]] = B[t.child[f][n]]
      BY <1>4, <1>5, <1>6, <1>7, <2>3
    <3> QED BY <1>1, <1>5, <1>7, <2>3, <3>1, <3>2, <3>3
  <2> QED BY <2>1, <2>2, <2>3
<1>10. Heights(u, A, q, s)
  BY <1>5, <1>9 DEF Heights, HeightAt
<1> QED BY <1>10 DEF A

LEMMA ReplaceKeepsReds ==
  ASSUME NEW r, NEW t, NEW U, NEW z, NEW y, Neighbours(r, t, U, z, y),
         NEW u, Replaced(t, z, y, u), NEW x, x # z, NEW lax \in BOOLEAN,
         Reds(t, U, x, lax)
  PROVE  Reds(u, Renamed(U, z, y), x, lax)
<1> DEFINE V == Renamed(U, z, y)
<1>1. V[u.root] = (U[t.root] \ {z}) \cup {y}
  BY ReplaceKeepsShape
<1>2. /\ Shape(r, t, U) /\ z \in U[t.root] /\ y \in Key /\ y \notin U[t.root]
      /\ t.red \subseteq Key /\ Nil \notin Key
  BY Basics DEF Neighbours, Shape, TreeRecord
<1>3. /\ t.red \subseteq U[t.root]
      /\ t.root \in t.red => t.root = x
      /\ \A n \in Key, f \in Dir :
           n \in t.red /\ t.child[f][n] \in t.red => t.child[f][n] = x \/ (lax /\ n = x)
  BY DEF Reds
<1>4. /\ u.red = IF z \in t.red THEN (t.red \ {z}) \cup {y} ELSE t.red
      /\ u.root = IF z = t.root THEN y ELSE t.root
      /\ \A n \in Key, f \in Dir :
           u.child[f][n] = IF n = z THEN Nil
                           ELSE IF n = y THEN t.child[f][z]
                           ELSE IF t.child[f][n] = z THEN y
                           ELSE t.child[f][n]
  BY DEF Replaced
<1> HIDE DEF V
<1>5. z \in Key /\ \A n \in Key, f \in Dir : t.child[f][n] # y
  BY <1>2, Outside, Parents
<1>6. y \notin t.red /\ z # y
  BY <1>2, <1>3
<1>7. ASSUME NEW n \in Key, NEW f \in Dir, n \in u.red, u.child[f][n] \in u.red
      PROVE  u.child[f][n] = x \/ (lax /\ n = x)
  <2>1. n # z
    <3>1. z \notin u.red
      BY <1>4, <1>6
    <3> QED BY <1>7, <3>1
  <2>2. CASE n = y
    <3>1. z \in t.red /\ t.child[f][z] \in t.red
      BY <1>4, <1>5, <1>6, <1>7, <2>1, <2>2
    <3> QED BY <1>3, <1>4, <1>5, <2>1, <2>2, <3>1
  <2>3. CASE n # y /\ t.child[f][n] = z
    <3>1. n \in t.red /\ z \in t.red
      BY <1>4, <1>6, <1>7, <2>1, <2>3
    <3> QED BY <1>3, <2>3, <3>1
  <2>4. CASE n # y /\ t.child[f][n] # z
    <3>1. u.child[f][n] = t.child[f][n] /\ n \in t.red /\ t.child[f][n] \in t.red
      BY <1>4, <1>5, <1>7, <2>1, <2>4
    <3> QED BY <1>3, <3>1
  <2> QED BY <2>2, <2>3, <2>4
<1>8. u.root \in u.red => u.root = x
  <2>1. CASE z = t.root
    BY <1>3, <1>4, <1>6, <2>1
  <2>2. CASE z # t.root
    BY <1>2, <1>3, <1>4, <1>6, <2>2, Outside
  <2> QED BY <2>1, <2>2
<1>9. u.red \subseteq V[u.root]
  BY <1>1, <1>3, <1>4
<1>10. Reds(u, V, x, lax)
  BY <1>7, <1>8, <1>9 DEF Reds
<1> QED BY <1>10 DEF V

-----------------------------------------------------------------------------
(* The last node in a direction.                                           *)

\* No node under n comes after w in direction d.
Ends(r, U, d, n, w) == w \in U[n] /\ \A j \in U[n] : j = w \/ Side(r, Other(d), j, w)

LEMMA EndsSteps ==
  ASSUME NEW r, NEW t, NEW U, Shape(r, t, U), NEW d \in Dir, NEW n \in Key
  PROVE  /\ t.child[d][n] = Nil => Ends(r, U, d, n, n)
         /\ \A w : Ends(r, U, d, t.child[d][n], w) => Ends(r, U, d, n, w)
         /\ \A v, w : Ends(r, U, d, n, v) /\ Ends(r, U, d, n, w) => v = w
<1> DEFINE e == Other(d)
           c == t.child[d][n]
<1>1. /\ U[n] = {n} \cup U[c] \cup U[t.child[e][n]]
      /\ n \in U[n] /\ U[n] \subseteq Key /\ e \in Dir /\ U[Nil] = {}
      /\ \A j \in U[t.child[e][n]] : Side(r, e, j, n)
      /\ \A j \in U[c] : Side(r, d, j, n)
      /\ r \in BOOLEAN
  BY Halves, Basics DEF Shape, Spans
<1>2. \A i \in U[c] : Side(r, e, n, i)
  BY <1>1, SideOrder
<1>3. ASSUME NEW w, Ends(r, U, d, c, w)
      PROVE  Ends(r, U, d, n, w)
  <2>1. w \in U[c] /\ w \in Key /\ Side(r, e, n, w)
    BY <1>1, <1>2, <1>3 DEF Ends
  <2>2. ASSUME NEW j \in U[t.child[e][n]] PROVE Side(r, e, j, w)
    <3>1. Side(r, e, j, n) /\ j \in Key
      BY <1>1
    <3> QED BY <1>1, <2>1, <3>1, SideOrder
  <2> QED BY <1>1, <1>3, <2>1, <2>2 DEF Ends
<1>4. ASSUME NEW v, NEW w, Ends(r, U, d, n, v), Ends(r, U, d, n, w)
      PROVE  v = w
  <2>1. v \in Key /\ w \in Key /\ (v = w \/ (Side(r, e, v, w) /\ Side(r, e, w, v)))
    BY <1>1, <1>4 DEF Ends
  <2> QED BY <1>1, <2>1, SideOrder
<1>5. c = Nil => Ends(r, U, d, n, n)
  BY <1>1 DEF Ends
<1> QED BY <1>3, <1>4, <1>5

\* Every node has one,
LEMMA EndExists ==
  ASSUME NEW r, NEW t, NEW U, Shape(r, t, U), NEW d \in Dir, NEW n \in Key
  PROVE  \E w : Ends(r, U, d, n, w)
<1> DEFINE Bad == {m \in Key : ~\E w : Ends(r, U, d, m, w)}
<1> SUFFICES ASSUME Bad # {} PROVE FALSE
  OBVIOUS
<1>1. PICK m \in Bad : \A i \in Bad : U[i] \subseteq U[m] => U[i] = U[m]
  <2>1. Bad \in SUBSET Node
    BY Basics
  <2> HIDE DEF Bad
  <2> QED BY <2>1, Lowest
<1> DEFINE c == t.child[d][m]
<1>2. m \in Key /\ ~\E w : Ends(r, U, d, m, w)
  OBVIOUS
<1>3. c # Nil
  BY <1>2, EndsSteps
<1>4. c \in Key /\ U[c] \subseteq U[m] /\ U[c] # U[m]
  <2>1. U[m] = {m} \cup U[c] \cup U[t.child[Other(d)][m]] /\ m \notin U[c] /\ c \in Node
    BY <1>2, Halves
  <2> QED BY <1>3, <2>1, Basics
<1>5. c \notin Bad
  BY <1>1, <1>4
<1>6. PICK w : Ends(r, U, d, c, w)
  BY <1>4, <1>5
<1>7. Ends(r, U, d, m, w)
  BY <1>2, <1>6, EndsSteps
<1> QED BY <1>2, <1>7

\* the function that Walk is meant to be exists,
LEMMA WalkUnfolds ==
  ASSUME NEW r, NEW t, NEW U, Shape(r, t, U), NEW d \in Dir
  PROVE  Walk(t, d) = [n \in Node |-> IF t.child[d][n] = Nil THEN n
                                      ELSE Walk(t, d)[t.child[d][n]]]
<1> DEFINE W == [n \in Node |-> IF n = Nil THEN Nil ELSE CHOOSE w : Ends(r, U, d, n, w)]
           walk == CHOOSE f : f = [n \in Node |-> IF t.child[d][n] = Nil THEN n
                                                  ELSE f[t.child[d][n]]]
<1>1. ASSUME NEW n \in Node
      PROVE  W[n] = IF t.child[d][n] = Nil THEN n ELSE W[t.child[d][n]]
  <2>1. CASE n = Nil
    BY <2>1 DEF Shape
  <2>2. CASE n # Nil
    <3>1. n \in Key /\ t.child[d][n] \in Node
      BY <2>2, Basics, Halves
    <3>2. Ends(r, U, d, n, W[n])
      BY <2>2, <3>1, EndExists
    <3>3. CASE t.child[d][n] = Nil
      <4> HIDE DEF W
      <4> QED BY <3>1, <3>2, <3>3, EndsSteps
    <3>4. CASE t.child[d][n] # Nil
      <4>1. t.child[d][n] \in Key
        BY <3>1, <3>4, Basics
      <4>2. Ends(r, U, d, t.child[d][n], W[t.child[d][n]])
        BY <3>1, <3>4, <4>1, EndExists
      <4> HIDE DEF W
      <4> QED BY <3>1, <3>2, <3>4, <4>2, EndsSteps
    <3> QED BY <3>3, <3>4
  <2> QED BY <2>1, <2>2
<1>2. W = [n \in Node |-> W[n]]
  OBVIOUS
<1>3. W = [n \in Node |-> IF t.child[d][n] = Nil THEN n ELSE W[t.child[d][n]]]
  <2> HIDE DEF W
  <2> QED BY <1>1, <1>2
<1>4. Walk(t, d) = walk
  BY DEF Walk
<1>5. \E f : f = [n \in Node |-> IF t.child[d][n] = Nil THEN n ELSE f[t.child[d][n]]]
  <2> HIDE DEF W
  <2> QED BY <1>3
<1>6. walk = [n \in Node |-> IF t.child[d][n] = Nil THEN n ELSE walk[t.child[d][n]]]
  BY <1>5
<1> HIDE DEF walk
<1> QED BY <1>4, <1>6

\* and Walk finds the last node.
LEMMA WalkEnds ==
  ASSUME NEW r, NEW t, NEW U, Shape(r, t, U), NEW d \in Dir
  PROVE  /\ Walk(t, d)[Nil] = Nil
         /\ \A n \in Key : LET w == Walk(t, d)[n]
                           IN  Ends(r, U, d, n, w) /\ w \in Key /\ t.child[d][w] = Nil
<1> DEFINE W == Walk(t, d)
           Bad == {m \in Key : ~Ends(r, U, d, m, W[m])}
<1>1. \A n \in Node : W[n] = IF t.child[d][n] = Nil THEN n ELSE W[t.child[d][n]]
  <2>1. W = [n \in Node |-> IF t.child[d][n] = Nil THEN n ELSE W[t.child[d][n]]]
    BY WalkUnfolds
  <2> HIDE DEF W
  <2> QED BY <2>1
<1> HIDE DEF W
<1>2. W[Nil] = Nil
  BY <1>1, Basics DEF Shape
<1>3. Bad = {}
  <2> SUFFICES ASSUME Bad # {} PROVE FALSE
    OBVIOUS
  <2>1. PICK m \in Bad : \A i \in Bad : U[i] \subseteq U[m] => U[i] = U[m]
    <3>1. Bad \in SUBSET Node
      BY Basics
    <3> HIDE DEF Bad
    <3> QED BY <3>1, Lowest
  <2> DEFINE c == t.child[d][m]
  <2>2. m \in Key /\ m \in Node /\ ~Ends(r, U, d, m, W[m])
    BY Basics
  <2>3. c # Nil
    BY <1>1, <2>2, EndsSteps
  <2>4. c \in Key /\ U[c] \subseteq U[m] /\ U[c] # U[m]
    <3>1. U[m] = {m} \cup U[c] \cup U[t.child[Other(d)][m]] /\ m \notin U[c] /\ c \in Node
      BY <2>2, Halves
    <3> QED BY <2>3, <3>1, Basics
  <2>5. c \notin Bad
    BY <2>1, <2>4
  <2>6. Ends(r, U, d, c, W[c])
    BY <2>4, <2>5
  <2>7. Ends(r, U, d, m, W[c])
    BY <2>2, <2>6, EndsSteps
  <2> QED BY <1>1, <2>2, <2>3, <2>7
<1>4. ASSUME NEW n \in Key
      PROVE  Ends(r, U, d, n, W[n]) /\ W[n] \in Key /\ t.child[d][W[n]] = Nil
  <2> DEFINE w == W[n]
             c == t.child[d][w]
  <2>1. Ends(r, U, d, n, w)
    BY <1>3
  <2> HIDE DEF w
  <2>2. w \in U[n] /\ w \in Key /\ n \in Node
    BY <2>1, Basics DEF Ends, Shape, Spans
  <2>3. ASSUME c # Nil PROVE FALSE
    <3>1. c \in Key /\ c \in U[w] /\ w \notin U[c] /\ c \in U[c]
      <4>1. U[w] = {w} \cup U[c] \cup U[t.child[Other(d)][w]] /\ c \in Node /\ w \notin U[c]
        BY <2>2, Halves
      <4>2. c \in Key
        BY <2>3, <4>1, Basics
      <4> QED BY <4>1, <4>2, Halves
    <3>2. c \in U[n] /\ c # w
      BY <2>2, <3>1, Nested
    <3>3. Side(r, Other(d), c, w)
      BY <2>1, <3>2 DEF Ends
    <3>4. Side(r, d, c, w)
      BY <2>2, <3>1 DEF Shape
    <3> QED BY <2>2, <3>1, <3>3, <3>4, SideOrder DEF Shape
  <2> QED BY <2>1, <2>2, <2>3 DEF w
<1> QED BY <1>2, <1>4 DEF W

-----------------------------------------------------------------------------
(* The recursions of the properties.                                       *)

\* Under, of any tree,
UnderOf(t, n) ==
  LET under[m \in Node] ==
        IF m = Nil THEN {}
        ELSE {m} \cup under[t.child["left"][m]] \cup under[t.child["right"][m]]
  IN  under[n]

\* computes what U says,
LEMMA UnderIs ==
  ASSUME NEW r, NEW t, NEW U, Shape(r, t, U)
  PROVE  \A n \in Node : UnderOf(t, n) = U[n]
<1> DEFINE body(f) == [m \in Node |-> IF m = Nil THEN {}
                                      ELSE {m} \cup f[t.child["left"][m]]
                                               \cup f[t.child["right"][m]]]
           under == CHOOSE f : f = body(f)
           Bad == {m \in Node : under[m] # U[m]}
<1>1. U = body(U)
  <2>1. U = [m \in Node |-> U[m]]
    BY DEF Shape, Spans
  <2>2. \A m \in Node : U[m] = body(U)[m]
    BY Basics, Zenon DEF Shape, Spans
  <2> QED BY <2>1, <2>2
<1>2. under = body(under)
  <2> HIDE DEF body
  <2> QED BY <1>1
<1>3. \A m \in Node : under[m] = IF m = Nil THEN {}
                                 ELSE {m} \cup under[t.child["left"][m]]
                                          \cup under[t.child["right"][m]]
  <2>1. \A m \in Node : under[m] = body(under)[m]
    BY <1>2, Zenon
  <2> HIDE DEF under
  <2> QED BY <2>1
<1>4. \A n : UnderOf(t, n) = under[n]
  BY DEF UnderOf
<1> HIDE DEF under, body
<1>5. Bad = {}
  <2> SUFFICES ASSUME Bad # {} PROVE FALSE
    OBVIOUS
  <2>1. PICK m \in Bad : \A i \in Bad : U[i] \subseteq U[m] => U[i] = U[m]
    <3>1. Bad \in SUBSET Node
      OBVIOUS
    <3> HIDE DEF Bad
    <3> QED BY <3>1, Lowest
  <2>2. m \in Node /\ under[m] # U[m]
    OBVIOUS
  <2>3. m \in Key
    BY <1>3, <2>2, Basics DEF Shape, Spans
  <2>4. ASSUME NEW d \in Dir PROVE under[t.child[d][m]] = U[t.child[d][m]]
    <3> DEFINE c == t.child[d][m]
    <3>1. U[m] = {m} \cup U[c] \cup U[t.child[Other(d)][m]] /\ m \notin U[c] /\ c \in Node
      BY <2>3, Halves
    <3>2. U[c] \subseteq U[m] /\ U[c] # U[m]
      BY <3>1
    <3>3. c \notin Bad
      BY <2>1, <3>2
    <3> QED BY <3>1, <3>3
  <2>5. under[m] = U[m]
    <3>1. U[m] = {m} \cup U[t.child["left"][m]] \cup U[t.child["right"][m]]
      BY <2>3 DEF Shape, Spans
    <3>2. under[m] = {m} \cup under[t.child["left"][m]] \cup under[t.child["right"][m]]
      BY <1>3, <2>2, <2>3, Basics
    <3> QED BY <2>4, <3>1, <3>2, Basics
  <2> QED BY <2>2, <2>5
<1> QED BY <1>4, <1>5

\* and with every path as black as B says there is one count.
LEMMA CountsAre ==
  ASSUME NEW r, NEW U, Shape(r, tree, U), NEW B, Heights(tree, B, Nil, "left")
  PROVE  PathCounts(Key \ tree.red) = {B[tree.root]}
<1> DEFINE kind == Key \ tree.red
           body(f) == [n \in Node |-> IF n = Nil THEN {0}
                                      ELSE {c + Cardinality({n} \cap kind) :
                                              c \in f[tree.child["left"][n]]
                                                      \cup f[tree.child["right"][n]]}]
           counts == CHOOSE f : f = body(f)
           C == [n \in Node |-> {B[n]}]
           Bad == {m \in Node : counts[m] # {B[m]}}
<1>1. ASSUME NEW n \in Key
      PROVE  /\ Cardinality({n} \cap kind) = Black(tree, n)
             /\ B[n] = B[tree.child["left"][n]] + Black(tree, n)
             /\ B[n] = B[tree.child["right"][n]] + Black(tree, n)
             /\ tree.child["left"][n] \in Node /\ tree.child["right"][n] \in Node
             /\ B[tree.child["left"][n]] = B[tree.child["right"][n]]
  <2>1. Cardinality({n} \cap kind) = Black(tree, n)
    <3>1. CASE n \in tree.red
      <4>1. {n} \cap kind = {}
        BY <3>1
      <4> QED BY <3>1, <4>1, FS_EmptySet DEF Black
    <3>2. CASE n \notin tree.red
      <4>1. {n} \cap kind = {n}
        BY <3>2
      <4> QED BY <3>2, <4>1, FS_Singleton DEF Black
    <3> QED BY <3>1, <3>2
  <2>2. Nil # n /\ B \in [Node -> Nat] /\ HeightAt(tree, B, Nil, "left", n)
    BY Basics DEF Heights
  <2>3. "left" \in Dir /\ "right" \in Dir
    BY Basics
  <2>4. /\ B[n] = B[tree.child["left"][n]] + Black(tree, n)
        /\ B[n] = B[tree.child["right"][n]] + Black(tree, n)
    BY <2>2, <2>3, LevelSide
  <2>5. /\ tree.child["left"][n] \in Node /\ tree.child["right"][n] \in Node
        /\ B[tree.child["left"][n]] \in Nat /\ B[tree.child["right"][n]] \in Nat
        /\ Black(tree, n) \in Nat
    BY <2>2, <2>3, HeightTypes
  <2>6. B[tree.child["left"][n]] = B[tree.child["right"][n]]
    BY <2>4, <2>5
  <2> QED BY <2>1, <2>4, <2>5, <2>6
<1>2. C = body(C)
  <2>1. ASSUME NEW n \in Node PROVE C[n] = body(C)[n]
    <3>1. CASE n = Nil
      BY <3>1 DEF Heights
    <3>2. CASE n # Nil
      <4>1. n \in Key
        BY <3>2, Basics
      <4>2. C[tree.child["left"][n]] \cup C[tree.child["right"][n]] = {B[tree.child["left"][n]]}
        <5>1. B[tree.child["left"][n]] = B[tree.child["right"][n]]
          BY <1>1, <4>1
        <5> QED BY <1>1, <4>1, <5>1
      <4> HIDE DEF C, kind
      <4>3. {c + Cardinality({n} \cap kind) :
               c \in C[tree.child["left"][n]] \cup C[tree.child["right"][n]]} = {B[n]}
        BY <1>1, <4>1, <4>2
      <4> QED BY <3>2, <4>3 DEF C
    <3> QED BY <3>1, <3>2
  <2> HIDE DEF body
  <2>2. C = [n \in Node |-> C[n]]
    OBVIOUS
  <2>3. body(C) = [n \in Node |-> body(C)[n]]
    BY DEF body
  <2> HIDE DEF C
  <2> QED BY <2>1, <2>2, <2>3
<1>3. counts = body(counts)
  <2> HIDE DEF body, C
  <2> QED BY <1>2
<1>4. \A n \in Node : counts[n] = IF n = Nil THEN {0}
                                  ELSE {c + Cardinality({n} \cap kind) :
                                          c \in counts[tree.child["left"][n]]
                                                  \cup counts[tree.child["right"][n]]}
  <2>1. \A n \in Node : counts[n] = body(counts)[n]
    BY <1>3, Zenon
  <2> HIDE DEF counts, kind
  <2> QED BY <2>1, Zenon
<1>5. PathCounts(kind) = counts[tree.root]
  BY DEF PathCounts
<1> HIDE DEF counts, body, C
<1>6. Bad = {}
  <2> SUFFICES ASSUME Bad # {} PROVE FALSE
    OBVIOUS
  <2>1. PICK m \in Bad : \A i \in Bad : U[i] \subseteq U[m] => U[i] = U[m]
    <3>1. Bad \in SUBSET Node
      OBVIOUS
    <3> HIDE DEF Bad
    <3> QED BY <3>1, Lowest
  <2>2. m \in Node /\ counts[m] # {B[m]}
    OBVIOUS
  <2>3. m \in Key
    <3>1. m # Nil
      BY <1>4, <2>2 DEF Heights
    <3> QED BY <2>2, <3>1, Basics
  <2>4. ASSUME NEW d \in Dir PROVE counts[tree.child[d][m]] = {B[tree.child[d][m]]}
    <3> DEFINE c == tree.child[d][m]
    <3>1. U[m] = {m} \cup U[c] \cup U[tree.child[Other(d)][m]] /\ m \notin U[c] /\ c \in Node
      BY <2>3, Halves
    <3>2. U[c] \subseteq U[m] /\ U[c] # U[m]
      BY <3>1
    <3>3. c \notin Bad
      BY <2>1, <3>2
    <3> QED BY <3>1, <3>3
  <2>5. counts[tree.child["left"][m]] \cup counts[tree.child["right"][m]]
          = {B[tree.child["left"][m]]}
    <3>1. B[tree.child["left"][m]] = B[tree.child["right"][m]]
      BY <1>1, <2>3
    <3> QED BY <2>4, <3>1, Basics
  <2>6. counts[m] = {B[m]}
    <3>1. counts[m] = {c + Cardinality({m} \cap kind) :
                         c \in counts[tree.child["left"][m]] \cup counts[tree.child["right"][m]]}
      BY <1>4, <2>2, <2>3, Basics
    <3> HIDE DEF kind
    <3> QED BY <1>1, <2>3, <2>5, <3>1
  <2> QED BY <2>2, <2>6
<1>7. tree.root \in Node
  BY DEF Shape, TreeRecord
<1> QED BY <1>5, <1>6, <1>7

-----------------------------------------------------------------------------
(* Delete: the code of deleteNode.                                         *)

\* Where a node of the tree hangs.
Hangs(t, z) ==
  /\ t.parent[z] \in Node /\ SideOf(t, z) \in Dir
  /\ z = t.root <=> t.parent[z] = Nil
  /\ \A n \in Key, f \in Dir :
       t.child[f][n] = z <=> t.parent[z] # Nil /\ n = t.parent[z] /\ f = SideOf(t, z)
  /\ \A n \in Key, f \in Dir : t.child[f][n] # n

LEMMA NodesHang ==
  ASSUME NEW r, NEW t, NEW U, Shape(r, t, U), NEW z \in U[t.root]
  PROVE  Hangs(t, z)
<1>1. /\ z \in Key /\ Nil \notin Key /\ Key \subseteq Node
      /\ z = t.root <=> t.parent[z] = Nil
      /\ z # t.root => /\ t.parent[z] \in Key /\ SideOf(t, z) \in Dir
                       /\ t.child[SideOf(t, z)][t.parent[z]] = z
  BY Parents, Basics
<1>2. \A n \in Key, f \in Dir : t.child[f][n] # n
  <2> TAKE n \in Key, f \in Dir
  <2>1. n \notin U[t.child[f][n]] /\ n \in U[n]
    BY Halves
  <2> QED BY <2>1
<1>3. t.parent[z] \in Node /\ SideOf(t, z) \in Dir
  BY <1>1 DEF Shape, TreeRecord, SideOf, Dir
<1>4. ASSUME NEW n \in Key, NEW f \in Dir, t.child[f][n] = z
      PROVE  t.parent[z] # Nil /\ n = t.parent[z] /\ f = SideOf(t, z)
  <2>1. t.parent[z] = n /\ n # Nil
    BY <1>1, <1>4 DEF Shape
  <2>2. z # t.root
    BY <1>1, <2>1
  <2>3. n \in Node /\ t.parent[z] \in Node
    BY <1>1, <2>1
  <2> QED BY <1>1, <1>4, <2>1, <2>2, <2>3, OnePlace
<1> QED BY <1>1, <1>2, <1>3, <1>4 DEF Hangs

\* u is t with z outside and forgotten.
Forgot(t, z, u) ==
  /\ u \in TreeRecord
  /\ u.red = t.red \ {z} /\ u.root = t.root /\ u.size = t.size
  /\ \A n \in Node, f \in Dir : u.child[f][n] = IF n = z THEN Nil ELSE t.child[f][n]
  /\ \A n \in Node : u.parent[n] = IF n = z THEN Nil ELSE t.parent[n]

LEMMA Forgets ==
  ASSUME NEW t \in TreeRecord, NEW z \in Node
  PROVE  Forgot(t, z, Forgotten(t, z))
<1> DEFINE b == Bare(t, z)
           q == SetParent(b, z, Nil)
           R == t.red \ {z}
           u == Paint(q, R)
<1>1. Nil \in Node /\ R \in SUBSET Key
  BY Basics DEF TreeRecord
<1>2. Forgotten(t, z) = u
  BY DEF Forgotten
<1>3. Bared(t, z, b)
  BY Bares
<1> HIDE DEF b
<1>4. ParentPut(b, z, Nil, q)
  <2>1. b \in TreeRecord
    BY <1>3 DEF Bared
  <2> QED BY <1>1, <2>1, PutsParent
<1> HIDE DEF q
<1>5. Painted(q, R, u)
  <2>1. q \in TreeRecord
    BY <1>4 DEF ParentPut
  <2> QED BY <1>1, <2>1, Paints
<1> HIDE DEF u
<1>6. Forgot(t, z, u)
  BY <1>3, <1>4, <1>5 DEF Bared, ParentPut, Painted, Forgot
<1> QED BY <1>2, <1>6

\* A node with at most one child is spliced out.
LEMMA UnlinkOne ==
  ASSUME NEW r, NEW t, NEW U, NEW z, NEW g, NEW c, Removable(r, t, U, z, g, c),
         NEW w, w = Forgotten(Transplant(t, z, c), z)
  PROVE  Spliced(t, z, c, w) /\ w.size = t.size /\ w.parent[c] = t.parent[z]
<1> DEFINE v == Transplant(t, z, c)
<1>1. /\ Shape(r, t, U) /\ z \in U[t.root] /\ g \in Dir /\ t.child[g][z] = c
      /\ Nil \notin Key /\ Key \subseteq Node /\ Nil \in Node
  BY Basics DEF Removable
<1>2. /\ z \in Key /\ c \in Node /\ t \in TreeRecord /\ z # Nil
      /\ \A f \in Dir : t.child[f][Nil] = Nil
  BY <1>1, Parents, Halves DEF Shape
<1>3. Hangs(t, z)
  BY <1>1, NodesHang
<1>4. c # z
  BY <1>1, <1>2, <1>3 DEF Hangs
<1>5. Moved(t, z, c, v)
  BY <1>1, <1>2, Transplants
<1> HIDE DEF v
<1>6. Forgot(v, z, w)
  <2>1. v \in TreeRecord /\ w = Forgotten(v, z) /\ z \in Node
    BY <1>1, <1>2, <1>5 DEF Moved, v
  <2> QED BY <2>1, Forgets
<1>7. /\ w \in TreeRecord /\ w.red = t.red \ {z} /\ w.size = t.size
      /\ w.root = IF z = t.root THEN c ELSE t.root
  BY <1>3, <1>5, <1>6 DEF Moved, Forgot, Hangs
<1>8. ASSUME NEW n \in Key, NEW f \in Dir
      PROVE  w.child[f][n] = IF n = z THEN Nil ELSE IF t.child[f][n] = z THEN c
                             ELSE t.child[f][n]
  <2>1. w.child[f][n] = IF n = z THEN Nil ELSE v.child[f][n]
    BY <1>1, <1>6 DEF Forgot
  <2>2. v.child[f][n] = IF t.parent[z] # Nil /\ n = t.parent[z] /\ f = SideOf(t, z) THEN c
                        ELSE t.child[f][n]
    BY <1>1, <1>5 DEF Moved
  <2>3. t.child[f][n] = z <=> t.parent[z] # Nil /\ n = t.parent[z] /\ f = SideOf(t, z)
    BY <1>3 DEF Hangs
  <2> QED BY <2>1, <2>2, <2>3
<1>9. ASSUME NEW f \in Dir PROVE w.child[f][Nil] = Nil
  BY <1>1, <1>2, <1>5, <1>6 DEF Moved, Forgot
<1>10. ASSUME NEW n \in Node
       PROVE  w.parent[n] = IF n = z THEN Nil ELSE IF n = c THEN t.parent[z] ELSE t.parent[n]
  BY <1>5, <1>6 DEF Moved, Forgot
<1>11. Spliced(t, z, c, w)
  BY <1>1, <1>7, <1>8, <1>9, <1>10 DEF Spliced
<1> QED BY <1>2, <1>4, <1>7, <1>10, <1>11

\* With two children the successor y is taken out first: but for what z still
\* refers to, fr is the tree t without y, with y before the right child of z.
Freed(t, z, y, fr) ==
  /\ fr \in TreeRecord /\ fr.root = t.root
  /\ \A n \in Key, f \in Dir :
       n # z => fr.child[f][n] = IF n = y /\ f = "right" THEN t.child["right"][z]
                                 ELSE t.child[f][n]
  /\ \A f \in Dir : fr.child[f][Nil] = Nil
  /\ \A n \in Key :
       n # y => fr.parent[n] = IF n = t.child["right"][z] THEN y ELSE t.parent[n]

\* Then it takes the place of z.
LEMMA TakesPlace ==
  ASSUME NEW r, NEW t, NEW U, NEW z, NEW y, Neighbours(r, t, U, z, y),
         NEW fr, Freed(t, z, y, fr),
         NEW l, l = t.child["left"][z], l # Nil,
         NEW R \in SUBSET Key,
         R \ {z} = IF z \in t.red THEN (t.red \ {z}) \cup {y} ELSE t.red,
         NEW w, w = Forgotten(Paint(Attach(Transplant(fr, z, y), "left", y, l), R), z)
  PROVE  Replaced(t, z, y, w) /\ w.size = fr.size /\ w.parent[Nil] = fr.parent[Nil]
<1> DEFINE v == Transplant(fr, z, y)
           a == Attach(v, "left", y, l)
           q == Paint(a, R)
<1>1. /\ Shape(r, t, U) /\ z \in U[t.root] /\ y \in Key /\ y \notin U[t.root]
      /\ Nil \notin Key /\ Key \subseteq Node /\ Nil \in Node /\ Node = Key \cup {Nil}
      /\ "left" \in Dir /\ "right" \in Dir /\ Dir = {"left", "right"} /\ "left" # "right"
  BY Basics DEF Neighbours
<1>2. z \in Key /\ z # y /\ z \in Node /\ y \in Node
  BY <1>1, Parents
<1>3. Hangs(t, z)
  BY <1>1, NodesHang
<1>4. /\ \A f \in Dir : t.child[f][y] = Nil
      /\ \A n \in Key, f \in Dir : t.child[f][n] # y
  BY <1>1, Outside
<1>5. l \in Key /\ l # y /\ l # z
  BY <1>1, <1>2, <1>3, <1>4, Halves DEF Hangs
<1>6. /\ fr \in TreeRecord /\ fr.root = t.root
      /\ \A n \in Key, f \in Dir :
           n # z => fr.child[f][n] = IF n = y /\ f = "right" THEN t.child["right"][z]
                                     ELSE t.child[f][n]
      /\ \A f \in Dir : fr.child[f][Nil] = Nil
      /\ \A n \in Key :
           n # y => fr.parent[n] = IF n = t.child["right"][z] THEN y ELSE t.parent[n]
  BY DEF Freed
<1>7. fr.parent[z] = t.parent[z]
  BY <1>1, <1>2, <1>3, <1>6 DEF Hangs
<1>8. t.parent[z] # Nil => SideOf(fr, z) = SideOf(t, z)
  <2> HAVE t.parent[z] # Nil
  <2>1. t.parent[z] \in Key /\ t.child[SideOf(t, z)][t.parent[z]] = z
    BY <1>1, <1>2, <1>3 DEF Hangs
  <2>2. t.parent[z] # z
    BY <1>1, <1>2, <1>3, <2>1 DEF Hangs
  <2>3. fr.child["left"][t.parent[z]] = t.child["left"][t.parent[z]]
    BY <1>1, <1>6, <2>1, <2>2
  <2> QED BY <1>7, <2>3 DEF SideOf
<1>9. Moved(fr, z, y, v)
  BY <1>2, <1>6, Transplants
<1> HIDE DEF v
<1>10. BothPut(v, "left", y, l, a)
  <2>1. v \in TreeRecord /\ l \in Node
    BY <1>1, <1>5, <1>9 DEF Moved
  <2> QED BY <1>1, <1>2, <2>1, PutsBoth
<1> HIDE DEF a
<1>11. Painted(a, R, q)
  <2>1. a \in TreeRecord
    BY <1>10 DEF BothPut
  <2> QED BY <2>1, Paints
<1>12. w = Forgotten(q, z)
  BY DEF v, a
<1> HIDE DEF q
<1>13. Forgot(q, z, w)
  <2>1. q \in TreeRecord
    BY <1>11 DEF Painted
  <2> QED BY <1>2, <1>12, <2>1, Forgets
<1>14. w \in TreeRecord /\ w.red = R \ {z} /\ w.size = fr.size
  BY <1>9, <1>10, <1>11, <1>13 DEF Moved, BothPut, Painted, Forgot
<1>15. w.root = IF z = t.root THEN y ELSE t.root
  <2>1. w.root = v.root
    BY <1>10, <1>11, <1>13 DEF BothPut, Painted, Forgot
  <2> QED BY <1>3, <1>6, <1>7, <1>9, <2>1 DEF Moved, Hangs
<1>16. \A n \in Node, f \in Dir :
         w.child[f][n] = IF n = z THEN Nil ELSE IF f = "left" /\ n = y THEN l
                         ELSE v.child[f][n]
  BY <1>10, <1>11, <1>13 DEF BothPut, Painted, Forgot
<1>17. \A n \in Node, f \in Dir :
         v.child[f][n] = IF t.parent[z] # Nil /\ n = t.parent[z] /\ f = SideOf(t, z) THEN y
                         ELSE fr.child[f][n]
  BY <1>7, <1>8, <1>9 DEF Moved
<1>18. ASSUME NEW n \in Key, NEW f \in Dir
       PROVE  w.child[f][n] = IF n = z THEN Nil
                              ELSE IF n = y THEN t.child[f][z]
                              ELSE IF t.child[f][n] = z THEN y
                              ELSE t.child[f][n]
  <2>1. t.child[f][n] = z <=> t.parent[z] # Nil /\ n = t.parent[z] /\ f = SideOf(t, z)
    BY <1>3 DEF Hangs
  <2>2. n \in Node
    BY <1>1
  <2>3. CASE n = z
    BY <1>16, <2>2, <2>3
  <2>4. CASE n = y
    <3>1. t.child[f][n] # z
      BY <1>1, <1>2, <1>4, <2>4
    <3>2. v.child[f][n] = fr.child[f][n]
      BY <1>17, <2>1, <2>2, <3>1
    <3> QED BY <1>1, <1>2, <1>6, <1>16, <2>2, <2>4, <3>2
  <2>5. CASE n # z /\ n # y
    <3>1. fr.child[f][n] = t.child[f][n]
      BY <1>6, <2>5
    <3> QED BY <1>16, <1>17, <2>1, <2>2, <2>5, <3>1
  <2> QED BY <2>3, <2>4, <2>5
<1>19. \A f \in Dir : w.child[f][Nil] = Nil
  BY <1>1, <1>2, <1>6, <1>16, <1>17
<1>20. \A n \in Node :
         w.parent[n] = IF n = z THEN Nil ELSE IF n = l THEN y
                       ELSE IF n = y THEN t.parent[z] ELSE fr.parent[n]
  BY <1>7, <1>9, <1>10, <1>11, <1>13 DEF Moved, BothPut, Painted, Forgot
<1>21. ASSUME NEW n \in Key
       PROVE  w.parent[n] = IF n = z THEN Nil
                            ELSE IF n = y THEN t.parent[z]
                            ELSE IF \E f \in Dir : t.child[f][z] = n THEN y
                            ELSE t.parent[n]
  <2>1. (\E f \in Dir : t.child[f][z] = n) <=> n = l \/ n = t.child["right"][z]
    BY <1>1
  <2>2. n \in Node
    BY <1>1
  <2> QED BY <1>5, <1>6, <1>20, <2>1, <2>2
<1>22. w.parent[Nil] = fr.parent[Nil]
  BY <1>1, <1>2, <1>5, <1>20
<1>23. Replaced(t, z, y, w)
  BY <1>14, <1>15, <1>18, <1>19, <1>21 DEF Replaced
<1> QED BY <1>14, <1>22, <1>23

\* deleteNode of a node z with two children: its successor y, the place x of y.
Twofold(r, t, U, z, y, x) ==
  /\ Shape(r, t, U) /\ z \in U[t.root]
  /\ t.child["left"][z] # Nil /\ t.child["right"][z] # Nil
  /\ y = Walk(t, "left")[t.child["right"][z]]
  /\ x = t.child["right"][y]

\* The successor is the lowest node on the right of z.
Succeeds(r, t, U, z, y, x) ==
  /\ Removable(r, t, U, y, "right", x)
  /\ z \in Key /\ y \in Key /\ x \in Node /\ y # z /\ x # y /\ x # z
  /\ y \in U[t.child["right"][z]] /\ y # t.root
  /\ t.parent[y] \in U[t.root] /\ t.parent[y] \in Key
  /\ t.parent[y] = z <=> t.child["right"][z] = y
  /\ t.child["left"][z] # y
  /\ \A j \in U[t.root], f \in Dir : j # z /\ j # y /\ Side(r, f, j, z) => Side(r, f, j, y)

LEMMA SuccessorIs ==
  ASSUME NEW r, NEW t, NEW U, NEW z, NEW y, NEW x, Twofold(r, t, U, z, y, x)
  PROVE  Succeeds(r, t, U, z, y, x)
<1> DEFINE c == t.child["right"][z]
           l == t.child["left"][z]
<1>1. /\ Shape(r, t, U) /\ z \in U[t.root] /\ l # Nil /\ c # Nil
      /\ y = Walk(t, "left")[c] /\ x = t.child["right"][y]
      /\ Nil \notin Key /\ Key \subseteq Node /\ Nil \in Node /\ Node = Key \cup {Nil}
      /\ "left" \in Dir /\ "right" \in Dir /\ Dir = {"left", "right"} /\ "left" # "right"
      /\ Other("left") = "right" /\ Other("right") = "left"
  BY Basics DEF Twofold, Other
<1>2. z \in Key /\ t.root \in Key /\ t.root \in Node /\ z \in Node
  BY <1>1, Parents
<1>3. /\ U[z] = {z} \cup U[l] \cup U[c] /\ U[l] \cap U[c] = {}
      /\ z \notin U[l] /\ z \notin U[c] /\ l \in Node /\ c \in Node
      /\ U[l] \subseteq Key /\ U[c] \subseteq Key /\ z \in U[z]
  BY <1>1, <1>2, Halves
<1>4. c \in Key /\ l \in Key /\ l \in U[l] /\ c \in U[c]
  <2>1. c \in Key /\ l \in Key
    BY <1>1, <1>3
  <2> QED BY <1>1, <2>1, Halves
<1>5. Ends(r, U, "left", c, y) /\ y \in Key /\ t.child["left"][y] = Nil
  BY <1>1, <1>4, WalkEnds
<1>6. y \in U[c] /\ \A j \in U[c] : j = y \/ Side(r, "right", j, y)
  BY <1>1, <1>5 DEF Ends
<1>7. y # z /\ l # y
  BY <1>3, <1>4, <1>6
<1>8. U[z] \subseteq U[t.root]
  BY <1>1, <1>2, Nested
<1>9. y \in U[t.root]
  BY <1>3, <1>6, <1>8
<1>10. Hangs(t, y) /\ Hangs(t, z)
  BY <1>1, <1>9, NodesHang
<1>11. t.parent[y] = z <=> c = y
  <2>1. ASSUME c = y PROVE t.parent[y] = z
    BY <1>1, <1>2, <1>10, <2>1, Zenon DEF Hangs
  <2>2. ASSUME t.parent[y] = z PROVE c = y
    <3>1. t.child[SideOf(t, y)][z] = y /\ SideOf(t, y) \in Dir
      BY <1>1, <1>2, <1>10, <2>2 DEF Hangs
    <3> QED BY <1>1, <1>7, <3>1
  <2> QED BY <2>1, <2>2
<1>12. y # t.root
  <2>1. ASSUME y = t.root PROVE FALSE
    <3>1. y \in Node /\ c \in Node
      BY <1>1, <1>3, <1>5
    <3>2. z \in U[c]
      BY <1>1, <1>3, <1>6, <2>1, <3>1, Nested
    <3> QED BY <1>3, <3>2
  <2> QED BY <2>1
<1>13. t.parent[y] \in U[t.root] /\ t.parent[y] \in Key
  BY <1>1, <1>9, <1>12, Parents
<1>14. x \in Node /\ x # y
  <2>1. t.child["right"][y] \in Node
    BY <1>1, <1>5, Halves
  <2> QED BY <1>1, <1>5, <1>10, <2>1, ZenonT(30) DEF Hangs
<1>15. x # z
  <2>1. ASSUME x = z PROVE FALSE
    <3>1. t.parent[z] = y /\ z \in U[y]
      <4>1. U[y] = {y} \cup U[t.child["right"][y]] \cup U[t.child["left"][y]]
        BY <1>1, <1>5, ZenonT(30) DEF Shape, Spans
      <4> QED BY <1>1, <1>2, <1>3, <1>5, <1>10, <2>1, <4>1, ZenonT(30) DEF Hangs
    <3>2. U[y] \subseteq U[c]
      BY <1>1, <1>3, <1>6, Nested
    <3> QED BY <1>3, <3>1, <3>2
  <2> QED BY <2>1
<1>16. ASSUME NEW j \in U[t.root], NEW f \in Dir, j # z, j # y, Side(r, f, j, z)
       PROVE  Side(r, f, j, y)
  <2>1. j \in Key /\ r \in BOOLEAN /\ Side(r, "right", y, z)
    <3>1. y \in U[t.child["right"][z]]
      BY <1>6
    <3> QED BY <1>1, <1>2, <3>1 DEF Shape, Spans
  <2>2. CASE f = "left"
    <3>1. Side(r, "left", z, y)
      BY <1>1, <1>2, <1>5, <2>1, SideOrder
    <3> QED BY <1>1, <1>2, <1>5, <1>16, <2>1, <2>2, <3>1, SideOrder
  <2>3. CASE f = "right" /\ j \in U[z]
    <3>1. j \notin U[l]
      <4>1. ASSUME j \in U[l] PROVE FALSE
        <5>1. Side(r, "left", j, z)
          BY <1>1, <1>2, <4>1 DEF Shape
        <5> QED BY <1>1, <1>2, <1>16, <2>1, <2>3, <5>1, SideOrder
      <4> QED BY <4>1
    <3>2. j \in U[c]
      BY <1>3, <1>16, <2>3, <3>1
    <3> QED BY <1>6, <1>16, <2>3, <3>2
  <2>4. CASE f = "right" /\ j \notin U[z]
    <3>1. \E a \in Key, g \in Dir, h \in Dir :
            g # h /\ z \in {a} \cup U[t.child[g][a]] /\ j \in {a} \cup U[t.child[h][a]]
            /\ (z = a => FALSE)
      <4> DEFINE S == {a \in U[t.root] : z \in U[a] /\ j \in U[a]}
      <4>1. t.root \in S /\ S \in SUBSET Node
        <5>1. t.root \in U[t.root] /\ U[t.root] \subseteq Key
          BY <1>1, <1>2 DEF Shape, Spans
        <5> QED BY <1>1, <5>1
      <4>2. PICK a \in S : \A m \in S : U[m] \subseteq U[a] => U[m] = U[a]
        <5> HIDE DEF S
        <5> QED BY <1>1, <4>1, Lowest
      <4>3. a \in Key /\ z \in U[a] /\ j \in U[a] /\ a \in U[t.root] /\ a # z
        BY <1>1, <1>2, <2>4 DEF Shape, Spans
      <4>4. PICK g \in Dir : z \in U[t.child[g][a]]
        BY <1>1, <4>3 DEF Shape, Spans
      <4>5. j \notin U[t.child[g][a]]
        <5> DEFINE b == t.child[g][a]
        <5>1. ASSUME j \in U[b] PROVE FALSE
          <6>1. /\ U[a] = {a} \cup U[b] \cup U[t.child[Other(g)][a]]
                /\ a \notin U[b] /\ b \in Node
            BY <1>1, <4>3, Halves
          <6>2. b \in Key /\ b \in U[b]
            BY <1>1, <4>4, <6>1 DEF Shape, Spans
          <6>3. b \in U[t.root]
            <7>1. U[a] \subseteq U[t.root]
              BY <1>1, <1>2, <4>3, Nested
            <7> QED BY <6>1, <6>2, <7>1
          <6>4. b \in S
            BY <4>4, <5>1, <6>3
          <6> QED BY <4>2, <4>3, <6>1, <6>4
        <5> QED BY <5>1
      <4>6. j \in {a} \cup U[t.child[Other(g)][a]] /\ Other(g) \in Dir /\ g # Other(g)
        BY <1>1, <4>3, <4>5, Halves, Basics
      <4> HIDE DEF S
      <4> QED BY <4>3, <4>4, <4>6
    <3>2. PICK a \in Key, g \in Dir, h \in Dir :
            g # h /\ z \in U[t.child[g][a]] /\ (j = a \/ j \in U[t.child[h][a]])
      BY <3>1
    <3>3. y \in U[t.child[g][a]]
      <4>1. U[z] \subseteq U[t.child[g][a]]
        <5>1. t.child[g][a] \in Node
          BY <1>1, Halves
        <5> QED BY <1>1, <3>2, <5>1, Nested
      <4> QED BY <1>3, <1>6, <4>1
    <3>4. Side(r, g, z, a) /\ Side(r, g, y, a)
      BY <1>1, <3>2, <3>3 DEF Shape
    <3>5. CASE j = a
      <4>1. g = "left"
        <5>1. ASSUME g = "right" PROVE FALSE
          BY <1>1, <1>2, <1>16, <2>1, <2>4, <3>4, <3>5, <5>1, SideOrder
        <5> QED BY <1>1, <5>1
      <4> QED BY <1>1, <1>5, <2>1, <2>4, <3>4, <3>5, <4>1, SideOrder
    <3>6. CASE j \in U[t.child[h][a]]
      <4>1. Side(r, h, j, a) /\ h = Other(g) /\ g = Other(h)
        BY <1>1, <3>2, <3>6, Basics DEF Shape
      <4>2. Side(r, h, a, z) /\ Side(r, h, a, y) /\ j \in Key
        BY <1>1, <1>2, <1>5, <2>1, <3>4, <4>1, SideOrder
      <4>3. Side(r, h, j, z) /\ Side(r, h, j, y)
        BY <1>2, <1>5, <2>1, <4>1, <4>2, SideOrder
      <4>4. ASSUME f # h PROVE FALSE
        <5>1. f = Other(h)
          BY <4>1, <4>4, Basics
        <5> QED BY <1>2, <1>16, <2>1, <4>3, <5>1, SideOrder
      <4> QED BY <4>3, <4>4
    <3> QED BY <3>2, <3>5, <3>6
  <2> QED BY <1>1, <2>2, <2>3, <2>4
<1>17. Removable(r, t, U, y, "right", x)
  BY <1>1, <1>5, <1>9 DEF Removable
<1> HIDE DEF c, l
<1>18. Succeeds(r, t, U, z, y, x)
  BY <1>2, <1>5, <1>6, <1>7, <1>11, <1>12, <1>13, <1>14, <1>15, <1>16, <1>17
     DEF Succeeds, c, l
<1> QED BY <1>18

\* The tree without the successor, and the tree that the code has then.
TakenOut(r, t, U, z, y, x, t1, fr) ==
  /\ Spliced(t, y, x, t1) /\ Neighbours(r, t1, Without(U, y), z, y)
  /\ Freed(t1, z, y, fr) /\ fr.red = t.red /\ fr.size = t.size
  /\ t1.child["left"][z] = t.child["left"][z]
  /\ fr.parent[x] = IF t.parent[y] = z THEN y ELSE t.parent[y]

LEMMA TakesOut ==
  ASSUME NEW r, NEW t, NEW U, NEW z, NEW y, NEW x, Twofold(r, t, U, z, y, x),
         NEW fr, fr = IF t.parent[y] = z THEN SetParent(t, x, y)
                      ELSE Attach(Transplant(t, y, x), "right", y, t.child["right"][z])
  PROVE  TakenOut(r, t, U, z, y, x, Forgotten(Transplant(t, y, x), y), fr)
<1> DEFINE t1 == Forgotten(Transplant(t, y, x), y)
           c == t.child["right"][z]
           T == Transplant(t, y, x)
<1>1. /\ Shape(r, t, U) /\ z \in U[t.root] /\ t \in TreeRecord
      /\ t.child["left"][z] # Nil /\ c # Nil
      /\ x = t.child["right"][y]
      /\ Nil \notin Key /\ Key \subseteq Node /\ Nil \in Node /\ Node = Key \cup {Nil}
      /\ "left" \in Dir /\ "right" \in Dir /\ Dir = {"left", "right"} /\ "left" # "right"
      /\ \A f \in Dir : t.child[f][Nil] = Nil
  BY Basics DEF Twofold, Shape
<1>2. /\ Removable(r, t, U, y, "right", x)
      /\ z \in Key /\ y \in Key /\ x \in Node /\ y # z /\ x # y /\ x # z
      /\ y # t.root
      /\ t.parent[y] \in U[t.root] /\ t.parent[y] \in Key
      /\ t.parent[y] = z <=> c = y
      /\ t.child["left"][z] # y
      /\ \A j \in U[t.root], f \in Dir : j # z /\ j # y /\ Side(r, f, j, z) => Side(r, f, j, y)
  BY SuccessorIs DEF Succeeds
<1>3. y \in U[t.root] /\ t.child["left"][y] = Nil
  BY <1>2, Basics DEF Removable, Other
<1>4. Hangs(t, y)
  BY <1>1, <1>3, NodesHang
<1>5. Spliced(t, y, x, t1)
  BY <1>2, UnlinkOne
<1> HIDE DEF t1
<1>6. Shape(r, t1, Without(U, y)) /\ Without(U, y)[t1.root] = U[t.root] \ {y}
  BY <1>2, <1>5, SpliceKeepsShape
<1>7. Neighbours(r, t1, Without(U, y), z, y)
  BY <1>1, <1>2, <1>6 DEF Neighbours
<1>8. /\ t1.root = t.root
      /\ \A n \in Key, f \in Dir :
           t1.child[f][n] = IF n = y THEN Nil ELSE IF t.child[f][n] = y THEN x
                            ELSE t.child[f][n]
      /\ \A n \in Key : t1.parent[n] = IF n = y THEN Nil ELSE IF n = x THEN t.parent[y]
                                       ELSE t.parent[n]
  BY <1>2, <1>5 DEF Spliced
<1>9. t1.child["left"][z] = t.child["left"][z]
  BY <1>1, <1>2, <1>8
<1>10. CASE t.parent[y] = z
  <2>1. fr = SetParent(t, x, y)
    BY <1>10
  <2>2. ParentPut(t, x, y, fr)
    BY <1>1, <1>2, <2>1, PutsParent
  <2>3. /\ fr \in TreeRecord /\ fr.root = t.root /\ fr.child = t.child /\ fr.red = t.red
        /\ fr.size = t.size
        /\ \A n \in Node : fr.parent[n] = IF n = x THEN y ELSE t.parent[n]
    BY <2>2 DEF ParentPut
  <2>4. t1.child["right"][z] = x
    BY <1>1, <1>2, <1>8, <1>10
  <2>5. ASSUME NEW n \in Key, NEW f \in Dir, n # z
        PROVE  fr.child[f][n] = IF n = y /\ f = "right" THEN t1.child["right"][z]
                                ELSE t1.child[f][n]
    <3>1. CASE n = y
      BY <1>1, <1>3, <1>8, <2>3, <2>4, <3>1
    <3>2. CASE n # y
      <4>1. t.child[f][n] # y
        BY <1>4, <1>10, <2>5 DEF Hangs
      <4> QED BY <1>8, <2>3, <3>2, <4>1
    <3> QED BY <3>1, <3>2
  <2>6. \A n \in Key :
          n # y => fr.parent[n] = IF n = t1.child["right"][z] THEN y ELSE t1.parent[n]
    BY <1>1, <1>8, <2>3, <2>4
  <2>7. Freed(t1, z, y, fr)
    BY <1>1, <1>8, <2>3, <2>5, <2>6, Zenon DEF Freed
  <2>8. fr.parent[x] = y
    BY <1>2, <2>3
  <2> QED BY <1>5, <1>7, <1>9, <1>10, <2>3, <2>7, <2>8 DEF TakenOut, t1
<1>11. CASE t.parent[y] # z
  <2>1. fr = Attach(T, "right", y, c)
    BY <1>11
  <2>2. c \in Node /\ c # y
    BY <1>1, <1>2, <1>11, Halves
  <2>3. Moved(t, y, x, T)
    BY <1>1, <1>2, Transplants
  <2> HIDE DEF T
  <2>4. BothPut(T, "right", y, c, fr)
    <3>1. T \in TreeRecord
      BY <2>3 DEF Moved
    <3> QED BY <1>1, <1>2, <2>1, <2>2, <3>1, PutsBoth
  <2>5. t.parent[y] # Nil /\ t.parent[y] # y
    BY <1>1, <1>2, <1>4 DEF Hangs
  <2>6. /\ fr \in TreeRecord /\ fr.root = t.root /\ fr.red = t.red /\ fr.size = t.size
    BY <2>3, <2>4, <2>5 DEF Moved, BothPut
  <2>7. \A n \in Node, f \in Dir :
          /\ fr.child[f][n] = IF f = "right" /\ n = y THEN c ELSE T.child[f][n]
          /\ T.child[f][n] = IF n = t.parent[y] /\ f = SideOf(t, y) THEN x ELSE t.child[f][n]
    BY <2>3, <2>4, <2>5 DEF Moved, BothPut
  <2>8. \A n \in Node : fr.parent[n] = IF n = c THEN y ELSE IF n = x THEN t.parent[y]
                                       ELSE t.parent[n]
    BY <2>3, <2>4 DEF Moved, BothPut
  <2>9. t1.child["right"][z] = c
    BY <1>1, <1>2, <1>8, <2>2
  <2>10. ASSUME NEW n \in Key, NEW f \in Dir
         PROVE  fr.child[f][n] = IF n = y /\ f = "right" THEN t1.child["right"][z]
                                 ELSE t1.child[f][n]
    <3>1. n \in Node
      BY <1>1
    <3>2. CASE n = y
      BY <1>1, <1>3, <1>8, <2>5, <2>7, <2>9, <3>1, <3>2
    <3>3. CASE n # y
      <4>1. t.child[f][n] = y <=> n = t.parent[y] /\ f = SideOf(t, y)
        BY <1>4, <2>5 DEF Hangs
      <4> QED BY <1>8, <2>7, <3>1, <3>3, <4>1
    <3> QED BY <3>2, <3>3
  <2>11. \A f \in Dir : fr.child[f][Nil] = Nil
    BY <1>1, <1>2, <2>5, <2>7
  <2>12. \A n \in Key :
          n # y => fr.parent[n] = IF n = t1.child["right"][z] THEN y ELSE t1.parent[n]
    BY <1>1, <1>8, <2>8, <2>9
  <2>13. Freed(t1, z, y, fr)
    BY <1>1, <1>8, <2>6, <2>10, <2>11, <2>12, ZenonT(30) DEF Freed
  <2>14. fr.parent[x] = t.parent[y]
    <3>1. x # c
      <4> HIDE DEF c
      <4>0. t.child["right"][z] = c
        BY DEF c
      <4>1. ASSUME x = c PROVE FALSE
        <5>1. c \in Key /\ y \in Node /\ z \in Node
          BY <1>1, <1>2, <2>2
        <5>2. t.child["right"][y] = c
          BY <1>1, <4>1
        <5>3. y = z
          BY <1>1, <4>0, <5>1, <5>2, OnePlace
        <5> QED BY <1>2, <5>3
      <4> QED BY <4>1
    <3> QED BY <1>2, <2>8, <3>1
  <2> QED BY <1>5, <1>7, <1>9, <1>11, <2>6, <2>13, <2>14 DEF TakenOut, t1
<1> QED BY <1>10, <1>11

\* x lacks a black: the gap is where it hangs, unless it is the root.
Lacking(r, t, U, B, x, p, s) ==
  /\ Shape(r, t, U) /\ Reds(t, U, x, TRUE) /\ Heights(t, B, p, s)
  /\ x = t.root => p = Nil
  /\ x # t.root => /\ p \in U[t.root] /\ s \in Dir
                   /\ t.child[s][p] = x /\ t.parent[x] = p

\* What deleteNode leaves: a tree without z that is right when the place that
\* vanished was red, and where x lacks a black when it was not.
Cut(r, t, U, z, u, x, gone) ==
  \E V : /\ Shape(r, u, V) /\ V[u.root] = U[t.root] \ {z} /\ u.size = t.size /\ x \in Node
         /\ gone \in t.red => /\ \E A : Heights(u, A, Nil, "left")
                              /\ Reds(u, V, Nil, FALSE)
         /\ gone \notin t.red => \E A, p, s : Lacking(r, u, V, A, x, p, s)

LEMMA CutOne ==
  ASSUME NEW r, NEW t, NEW U, NEW z, NEW g, NEW c, Removable(r, t, U, z, g, c),
         NEW B, Heights(t, B, Nil, "left"), Reds(t, U, Nil, FALSE)
  PROVE  Cut(r, t, U, z, Forgotten(Transplant(t, z, c), z), c, z)
<1> DEFINE u == Forgotten(Transplant(t, z, c), z)
           V == Without(U, z)
           A == [B EXCEPT ![z] = 1]
<1>1. /\ Shape(r, t, U) /\ z \in U[t.root] /\ g \in Dir /\ t.child[g][z] = c
      /\ U[Nil] = {} /\ Nil \notin Key
  BY Basics DEF Removable, Shape, Spans
<1>2. /\ Spliced(t, z, c, u) /\ u.size = t.size /\ u.parent[c] = t.parent[z]
      /\ c \in Node
  <2>1. z \in Key
    BY <1>1, Parents
  <2>2. c \in Node
    BY <1>1, <2>1, Halves
  <2> QED BY <2>2, UnlinkOne
<1> HIDE DEF u, V, A
<1>3. Shape(r, u, V) /\ V[u.root] = U[t.root] \ {z}
  BY <1>2, SpliceKeepsShape DEF V
<1>4. Reds(u, V, c, TRUE) /\ (z \in t.red => Reds(u, V, Nil, FALSE))
  BY <1>2, SpliceKeepsReds DEF V
<1>5. CASE z \in t.red
  <2>1. GapOf(t, z, Nil, "left")
    BY <1>5 DEF GapOf
  <2>2. Heights(u, A, Nil, "left")
    BY <1>2, <2>1, SpliceKeepsHeights DEF A
  <2> QED BY <1>2, <1>3, <1>4, <1>5, <2>2 DEF Cut, u
<1>6. CASE z \notin t.red /\ z = t.root
  <2>1. GapOf(t, z, Nil, "left")
    BY <1>6 DEF GapOf
  <2>2. Heights(u, A, Nil, "left")
    BY <1>2, <2>1, SpliceKeepsHeights DEF A
  <2>3. u.root = c
    BY <1>2, <1>6 DEF Spliced
  <2>4. Lacking(r, u, V, A, c, Nil, "left")
    BY <1>3, <1>4, <2>2, <2>3 DEF Lacking
  <2> QED BY <1>2, <1>3, <1>6, <2>4 DEF Cut, u
<1>7. CASE z \notin t.red /\ z # t.root
  <2> DEFINE p == t.parent[z]
             s == SideOf(t, z)
  <2>1. /\ z \in Key /\ t.root \in Key /\ p \in U[t.root] /\ p \in Key /\ s \in Dir
        /\ t.child[s][p] = z /\ t.parent[t.root] = Nil
    BY <1>1, <1>7, Parents
  <2>2. GapOf(t, z, p, s)
    BY <1>7 DEF GapOf
  <2> HIDE DEF p, s
  <2>3. Heights(u, A, p, s)
    BY <1>2, <2>2, SpliceKeepsHeights DEF A
  <2>4. u.root = t.root
    BY <1>2, <1>7 DEF Spliced
  <2>5. p # z
    <3>1. Hangs(t, z)
      BY <1>1, NodesHang
    <3> QED BY <2>1, <3>1 DEF Hangs
  <2>6. u.child[s][p] = c
    BY <1>2, <2>1, <2>5 DEF Spliced
  <2>7. u.parent[c] = p
    BY <1>2 DEF p
  <2>8. p \in V[u.root]
    BY <1>3, <2>1, <2>5
  <2>9. c # u.root
    <3>1. c # Nil => t.parent[c] = z
      BY <1>1, <2>1 DEF Shape
    <3> QED BY <1>1, <2>1, <2>4, <3>1
  <2>10. Lacking(r, u, V, A, c, p, s)
    BY <1>3, <1>4, <2>1, <2>3, <2>6, <2>7, <2>8, <2>9, Zenon DEF Lacking
  <2> QED BY <1>2, <1>3, <1>7, <2>10 DEF Cut, u
<1> QED BY <1>5, <1>6, <1>7

\* The trees of deleteNode for a node z with two children: fr, where y has let go
\* of its place, and u, where it is in that of z.
TwoMoves(t, z, y, x, fr, u) ==
  /\ fr = IF t.parent[y] = z THEN SetParent(t, x, y)
          ELSE Attach(Transplant(t, y, x), "right", y, t.child["right"][z])
  /\ u = Forgotten(Paint(Attach(Transplant(fr, z, y), "left", y, t.child["left"][z]),
                         IF z \in t.red THEN t.red \cup {y} ELSE t.red \ {y}), z)

LEMMA CutTwo ==
  ASSUME NEW r, NEW t, NEW U, NEW z, NEW y, NEW x, Twofold(r, t, U, z, y, x),
         NEW B, Heights(t, B, Nil, "left"), Reds(t, U, Nil, FALSE),
         NEW fr, NEW u, TwoMoves(t, z, y, x, fr, u)
  PROVE  Cut(r, t, U, z, u, x, y)
<1> DEFINE t1 == Forgotten(Transplant(t, y, x), y)
           U1 == Without(U, y)
           A1 == [B EXCEPT ![y] = 1]
           l == t.child["left"][z]
           R == IF z \in t.red THEN t.red \cup {y} ELSE t.red \ {y}
           V == Renamed(U1, z, y)
           A == [A1 EXCEPT ![y] = A1[z], ![z] = 1]
<1>1. /\ Shape(r, t, U) /\ z \in U[t.root] /\ t \in TreeRecord
      /\ l # Nil /\ t.child["right"][z] # Nil
      /\ Nil \notin Key /\ Key \subseteq Node /\ t.red \subseteq Key
      /\ x = t.child["right"][y] /\ Node = Key \cup {Nil} /\ Dir = {"left", "right"}
  BY Basics, Zenon DEF Twofold, Shape, TreeRecord
<1>2. /\ Removable(r, t, U, y, "right", x)
      /\ z \in Key /\ y \in Key /\ x \in Node /\ y # z /\ x # y /\ x # z
      /\ y # t.root /\ y \in U[t.root]
      /\ t.parent[y] \in U[t.root] /\ t.parent[y] \in Key
  <2>1. Succeeds(r, t, U, z, y, x)
    BY SuccessorIs
  <2> QED BY <2>1 DEF Succeeds, Removable
<1>3. TakenOut(r, t, U, z, y, x, t1, fr)
  BY TakesOut DEF TwoMoves
<1>4. u = Forgotten(Paint(Attach(Transplant(fr, z, y), "left", y, l), R), z)
  BY DEF TwoMoves
<1> HIDE DEF t1, U1, A1, l, R, V, A
<1>5. /\ Spliced(t, y, x, t1) /\ Neighbours(r, t1, U1, z, y)
      /\ Freed(t1, z, y, fr) /\ fr.red = t.red /\ fr.size = t.size
      /\ l = t1.child["left"][z]
      /\ fr.parent[x] = IF t.parent[y] = z THEN y ELSE t.parent[y]
  BY <1>3 DEF TakenOut, U1, l
<1>6. t1.red = t.red \ {y} /\ t1.root = t.root /\ t1 \in TreeRecord
  BY <1>2, <1>5 DEF Spliced
<1>7. R \in SUBSET Key /\ R \ {z} = IF z \in t1.red THEN (t1.red \ {z}) \cup {y} ELSE t1.red
  BY <1>1, <1>2, <1>6 DEF R
<1>8. Replaced(t1, z, y, u) /\ u.size = fr.size /\ u.parent[Nil] = fr.parent[Nil]
  BY <1>1, <1>4, <1>5, <1>7, TakesPlace
<1>9. Shape(r, t1, U1) /\ U1[t1.root] = U[t.root] \ {y}
  BY <1>2, <1>5, SpliceKeepsShape DEF U1
<1>10. Shape(r, u, V) /\ V[u.root] = (U1[t1.root] \ {z}) \cup {y}
  BY <1>5, <1>8, ReplaceKeepsShape DEF V
<1>11. V[u.root] = U[t.root] \ {z}
  BY <1>2, <1>9, <1>10
<1>12. Reds(t1, U1, x, TRUE) /\ (y \in t.red => Reds(t1, U1, Nil, FALSE))
  BY <1>2, <1>5, SpliceKeepsReds DEF U1
<1>13. t1.red \subseteq U1[t1.root]
  BY <1>12 DEF Reds
<1>14. Reds(u, V, x, TRUE) /\ (y \in t.red => Reds(u, V, Nil, FALSE))
  <2>1. Reds(u, V, x, TRUE)
    BY <1>2, <1>5, <1>8, <1>12, ReplaceKeepsReds DEF V
  <2>2. y \in t.red => Reds(u, V, Nil, FALSE)
    BY <1>1, <1>2, <1>5, <1>8, <1>12, ReplaceKeepsReds DEF V
  <2> QED BY <2>1, <2>2
<1>15. CASE y \in t.red
  <2>1. GapOf(t, y, Nil, "left")
    BY <1>15 DEF GapOf
  <2>2. Heights(t1, A1, Nil, "left")
    BY <1>2, <1>5, <2>1, SpliceKeepsHeights DEF A1
  <2>3. Nil # y /\ Nil = IF Nil = z THEN y ELSE Nil
    BY <1>1, <1>2
  <2>4. Heights(u, A, Nil, "left")
    BY <1>5, <1>8, <1>13, <2>2, <2>3, ReplaceKeepsHeights DEF A
  <2> QED BY <1>2, <1>5, <1>8, <1>10, <1>11, <1>14, <1>15, <2>4, Zenon DEF Cut
<1>16. CASE y \notin t.red
  <2> DEFINE p == t.parent[y]
             s == SideOf(t, y)
             q == IF p = z THEN y ELSE p
  <2>1. /\ t.root \in Key /\ p \in U[t.root] /\ p \in Key /\ s \in Dir
        /\ t.child[s][p] = y /\ t.parent[t.root] = Nil
    BY <1>1, <1>2, Parents
  <2>2. GapOf(t, y, p, s)
    BY <1>2, <1>16 DEF GapOf
  <2>3. p # y
    <3>1. Hangs(t, y)
      BY <1>1, <1>2, NodesHang
    <3> QED BY <2>1, <3>1 DEF Hangs
  <2>4. t1.child[s][p] = x
    BY <1>5, <2>1, <2>3 DEF Spliced
  <2>5. fr.parent[x] = q
    BY <1>5
  <2> HIDE DEF s
  <2>6. x # Nil => t1.parent[x] = p
    BY <2>1, <2>4, <1>9 DEF Shape
  <2> HIDE DEF p
  <2>7. Heights(t1, A1, p, s)
    BY <1>2, <1>5, <2>2, SpliceKeepsHeights DEF A1
  <2>8. Heights(u, A, q, s)
    BY <1>5, <1>8, <1>13, <2>3, <2>7, ReplaceKeepsHeights DEF A
  <2>9. q \in V[u.root]
    BY <1>2, <1>11, <2>1
  <2>10. u.child[s][q] = x
    <3>1. \A n \in Key : u.child[s][n] = IF n = z THEN Nil
                                         ELSE IF n = y THEN t1.child[s][z]
                                         ELSE IF t1.child[s][n] = z THEN y
                                         ELSE t1.child[s][n]
      <4>1. \A n \in Key, f \in Dir :
              u.child[f][n] = IF n = z THEN Nil
                              ELSE IF n = y THEN t1.child[f][z]
                              ELSE IF t1.child[f][n] = z THEN y
                              ELSE t1.child[f][n]
        BY <1>8, Zenon DEF Replaced
      <4> QED BY <2>1, <4>1
    <3>2. CASE p = z
      BY <1>2, <2>4, <3>1, <3>2
    <3>3. CASE p # z
      BY <1>2, <2>1, <2>3, <2>4, <3>1, <3>3
    <3> QED BY <3>2, <3>3
  <2>11. u.parent[x] = q
    <3>1. CASE x = Nil
      BY <1>8, <2>5, <3>1
    <3>2. CASE x # Nil
      <4>1. x \in Key
        BY <1>1, <1>2, <3>2
      <4>2. (\E f \in Dir : t1.child[f][z] = x) <=> p = z
        <5>1. ASSUME NEW f \in Dir, t1.child[f][z] = x PROVE p = z
          <6>1. p \in Node /\ z \in Node
            BY <1>1, <1>2, <2>1
          <6> QED BY <1>9, <2>1, <2>4, <4>1, <5>1, <6>1, OnePlace
        <5> QED BY <2>1, <2>4, <5>1
      <4> QED BY <1>2, <1>8, <2>6, <3>2, <4>1, <4>2, Zenon DEF Replaced
    <3> QED BY <3>1, <3>2
  <2>12. x # u.root
    <3>1. u.root = IF z = t.root THEN y ELSE t.root
      BY <1>6, <1>8, Zenon DEF Replaced
    <3>2. x # Nil => t.parent[x] = y
      BY <1>1, <1>2 DEF Shape
    <3> QED BY <1>1, <1>2, <2>1, <3>1, <3>2
  <2> HIDE DEF q
  <2>13. Lacking(r, u, V, A, x, q, s)
    BY <1>10, <1>14, <2>1, <2>8, <2>9, <2>10, <2>11, <2>12 DEF Lacking
  <2> QED BY <1>2, <1>5, <1>8, <1>10, <1>11, <1>16, <2>13, Zenon DEF Cut
<1> QED BY <1>15, <1>16

LEMMA Cuts ==
  ASSUME NEW r, NEW t, NEW U, Shape(r, t, U), NEW z \in U[t.root],
         NEW B, Heights(t, B, Nil, "left"), Reds(t, U, Nil, FALSE)
  PROVE  LET cut == Unlinked(t, z)
         IN  Cut(r, t, U, z, Forgotten(cut.tree, z), cut.at, cut.gone)
<1> DEFINE l == t.child["left"][z]
           c == t.child["right"][z]
           y == Walk(t, "left")[c]
           x == t.child["right"][y]
           fr == IF t.parent[y] = z THEN SetParent(t, x, y)
                 ELSE Attach(Transplant(t, y, x), "right", y, c)
           w == Paint(Attach(Transplant(fr, z, y), "left", y, l),
                      IF z \in t.red THEN t.red \cup {y} ELSE t.red \ {y})
<1>1. Unlinked(t, z) = IF l = Nil THEN [tree |-> Transplant(t, z, c), at |-> c, gone |-> z]
                       ELSE IF c = Nil
                              THEN [tree |-> Transplant(t, z, l), at |-> l, gone |-> z]
                              ELSE [tree |-> w, at |-> x, gone |-> y]
  BY DEF Unlinked
<1>2. "left" \in Dir /\ "right" \in Dir /\ Other("left") = "right" /\ Other("right") = "left"
  BY Basics DEF Other
<1>3. CASE l = Nil
  <2>1. Removable(r, t, U, z, "right", c)
    BY <1>2, <1>3 DEF Removable
  <2> HIDE DEF l, c, y, x, fr, w
  <2>2. Cut(r, t, U, z, Forgotten(Transplant(t, z, c), z), c, z)
    BY <2>1, CutOne
  <2> QED BY <1>1, <1>3, <2>2
<1>4. CASE l # Nil /\ c = Nil
  <2>1. Removable(r, t, U, z, "left", l)
    BY <1>2, <1>4 DEF Removable
  <2> HIDE DEF l, c, y, x, fr, w
  <2>2. Cut(r, t, U, z, Forgotten(Transplant(t, z, l), z), l, z)
    BY <2>1, CutOne
  <2> QED BY <1>1, <1>4, <2>2
<1>5. CASE l # Nil /\ c # Nil
  <2>1. Twofold(r, t, U, z, y, x)
    BY <1>5 DEF Twofold
  <2> DEFINE u == Forgotten(w, z)
  <2>2. TwoMoves(t, z, y, x, fr, u)
    BY DEF TwoMoves
  <2> HIDE DEF y, x, fr, u
  <2>3. Cut(r, t, U, z, u, x, y)
    BY <2>1, <2>2, CutTwo
  <2> HIDE DEF l, c, w
  <2> QED BY <1>1, <1>5, <2>3 DEF u
<1> QED BY <1>3, <1>4, <1>5

-----------------------------------------------------------------------------
(* A round of deleteFixup.                                                 *)

\* The paths on side d of p lack a black, and nothing else is wrong.
Short(r, t, U, B, p, d) ==
  /\ Shape(r, t, U) /\ Heights(t, B, p, d)
  /\ p \in U[t.root] /\ d \in Dir /\ t.child[d][p] \notin t.red
  /\ t.red \subseteq U[t.root] /\ t.root \notin t.red
  /\ \A n \in Key, f \in Dir : n \in t.red => t.child[f][n] \notin t.red

\* What hangs on the other side of p.
Sibling(t, U, B, p, d, w) ==
  /\ Other(d) \in Dir /\ Other(d) # d /\ Other(Other(d)) = d /\ Dir = {d, Other(d)}
  /\ p \in Key /\ w \in Key /\ p # w /\ w \in U[t.root] /\ w # t.root
  /\ t.child[Other(d)][p] = w /\ t.child[d][p] \in Node \ {p, w}
  /\ \A n \in Key, f \in Dir : t.child[f][n] = w => n = p /\ f = Other(d)
  /\ \A f \in Dir : t.child[f][w] \in Node \ {p, w}
  /\ B \in [Node -> Nat] /\ B[t.child[d][p]] \in Nat /\ B[w] \in Nat
  /\ B[p] = B[w] + Black(t, p) /\ B[w] = B[t.child[d][p]] + 1
  /\ \A f \in Dir : B[t.child[f][w]] \in Nat /\ B[w] = B[t.child[f][w]] + Black(t, w)

LEMMA SiblingIs ==
  ASSUME NEW r, NEW t, NEW U, NEW B, NEW p, NEW d, Short(r, t, U, B, p, d)
  PROVE  Sibling(t, U, B, p, d, t.child[Other(d)][p])
<1> DEFINE e == Other(d)
           w == t.child[e][p]
           x == t.child[d][p]
<1>1. /\ Shape(r, t, U) /\ p \in U[t.root] /\ d \in Dir
      /\ B \in [Node -> Nat] /\ B[Nil] = 0
      /\ \A n \in Key : HeightAt(t, B, p, d, n)
  BY DEF Short, Heights
<1>2. /\ e \in Dir /\ e # d /\ Other(e) = d /\ Dir = {d, e}
      /\ Node = Key \cup {Nil} /\ Nil \notin Key
  BY <1>1, Basics
<1>3. p \in Key /\ t.root \in Node /\ p \in Node
  BY <1>1, <1>2, Parents
<1> HIDE DEF e
<1>4. /\ w \in Node /\ x \in Node
      /\ B[w] \in Nat /\ B[x] \in Nat /\ B[p] \in Nat /\ Black(t, p) \in Nat
  BY <1>1, <1>2, <1>3, HeightTypes
<1>5. B[p] = B[x] + 1 + Black(t, p)
  BY <1>1, <1>3, ShortSide
<1>6. B[p] = B[w] + Black(t, p)
  <2>1. B[p] = B[t.child[e][p]] + Gap(p, d, p, e) + Black(t, p)
    BY <1>1, <1>2, <1>3 DEF HeightAt
  <2>2. Gap(p, d, p, e) = 0
    BY <1>2 DEF Gap
  <2> QED BY <1>4, <2>1, <2>2
<1>7. B[w] = B[x] + 1
  <2> HIDE DEF w, x
  <2> QED BY <1>4, <1>5, <1>6
<1>8. w \in Key /\ w # x
  <2>1. w # x /\ w # Nil
    <3> HIDE DEF w, x
    <3> QED BY <1>1, <1>4, <1>7
  <2> QED BY <1>2, <1>4, <2>1
<1>9. \A n \in Key, f \in Dir : t.child[f][n] = w => n = p /\ f = e
  <2>1. ASSUME NEW n \in Key, NEW f \in Dir, t.child[f][n] = w PROVE n = p /\ f = e
    <3>1. t.child[e][p] = w /\ n \in Node /\ p \in Node
      BY <1>2, <1>3
    <3> HIDE DEF w
    <3> QED BY <1>1, <1>2, <1>8, <2>1, <3>1, OnePlace
  <2> QED BY <2>1
<1>10. p \in U[p] /\ p \notin U[w] /\ p \notin U[x] /\ w \in U[w] /\ w \in U[p] /\ w # p
  <2>1. /\ U[p] = {p} \cup U[x] \cup U[w] /\ p \notin U[x] /\ p \in U[p]
    BY <1>1, <1>3, Halves DEF e
  <2>2. p \notin U[w]
    BY <1>1, <1>2, <1>3, Halves
  <2>3. w \in U[w]
    BY <1>1, <1>2, <1>8, Halves
  <2> QED BY <2>1, <2>2, <2>3
<1>11. w \in U[t.root]
  BY <1>1, <1>3, <1>10, Nested
<1>12. w # t.root
  <2>1. t.parent[w] = p
    BY <1>1, <1>2, <1>3, <1>8 DEF Shape
  <2>2. w = t.root <=> t.parent[w] = Nil
    BY <1>1, <1>11, Parents
  <2> QED BY <1>2, <1>3, <2>1, <2>2
<1>13. x # p
  BY <1>10
<1>14. ASSUME NEW f \in Dir
       PROVE  /\ t.child[f][w] \in Node \ {p, w}
              /\ B[t.child[f][w]] \in Nat /\ B[w] = B[t.child[f][w]] + Black(t, w)
  <2> HIDE DEF w
  <2>1. t.child[f][w] \in Node /\ B[t.child[f][w]] \in Nat
    BY <1>1, <1>8, HeightTypes
  <2>2. B[w] = B[t.child[f][w]] + Black(t, w)
    BY <1>1, <1>8, <1>10, LevelSide
  <2>3. U[t.child[f][w]] \subseteq U[w] /\ w \notin U[t.child[f][w]]
    BY <1>1, <1>8, Halves
  <2>4. t.child[f][w] # p /\ t.child[f][w] # w
    BY <1>10, <2>3
  <2> QED BY <2>1, <2>2, <2>4
<1>15. t.child[e][p] = w
  OBVIOUS
<1> HIDE DEF w
<1>16. Sibling(t, U, B, p, d, w)
  BY <1>1, <1>2, <1>3, <1>4, <1>6, <1>7, <1>8, <1>9, <1>10, <1>11, <1>12, <1>13, <1>14, <1>15
     DEF Sibling, e
<1> QED BY <1>16 DEF w, e

\* The gap is where it was, the sibling black.
Turned(r, t, U, v, p, d) ==
  /\ \E V, A : Short(r, v, V, A, p, d) /\ V[v.root] = U[t.root]
  /\ v.size = t.size
  /\ v.child[Other(d)][p] \notin v.red

\* A red sibling is rotated out of the way.
LEMMA RedSibling ==
  ASSUME NEW r, NEW t, NEW U, NEW B, NEW p, NEW d, Short(r, t, U, B, p, d),
         NEW w, Sibling(t, U, B, p, d, w), w \in t.red
  PROVE  Turned(r, t, U, Rotate(Paint(t, (t.red \ {w}) \cup {p}), p, d), p, d)
<1> DEFINE e == Other(d)
           R == (t.red \ {w}) \cup {p}
           c == Paint(t, R)
           v == Rotate(c, p, d)
           V == Lifted(c, U, p, d, w)
           x == t.child[d][p]
           b == t.child[d][w]
           h == B[w]
           A == [B EXCEPT ![p] = h, ![w] = B[p]]
<1>1. /\ Shape(r, t, U) /\ p \in U[t.root] /\ d \in Dir /\ x \notin t.red
      /\ t.red \subseteq U[t.root] /\ t.root \notin t.red
      /\ \A n \in Key, f \in Dir : n \in t.red => t.child[f][n] \notin t.red
      /\ B \in [Node -> Nat] /\ B[Nil] = 0
      /\ \A n \in Key : HeightAt(t, B, p, d, n)
  BY DEF Short, Heights
<1>2. /\ e \in Dir /\ e # d /\ Other(e) = d /\ Dir = {d, e}
      /\ p \in Key /\ w \in Key /\ p # w /\ w \in U[t.root] /\ w # t.root
      /\ t.child[e][p] = w /\ x \in Node /\ x # p /\ x # w
      /\ \A n \in Key, f \in Dir : t.child[f][n] = w => n = p /\ f = e
      /\ \A f \in Dir : t.child[f][w] \in Node /\ t.child[f][w] # p /\ t.child[f][w] # w
      /\ B[p] = B[w] + Black(t, p) /\ B[w] = B[x] + 1
      /\ B[x] \in Nat /\ B[w] \in Nat
      /\ \A f \in Dir : B[t.child[f][w]] \in Nat /\ B[w] = B[t.child[f][w]] + Black(t, w)
  BY DEF Sibling
<1>3. /\ Node = Key \cup {Nil} /\ Nil \notin Key /\ t.red \subseteq Key /\ t.root \in Node
  BY <1>1, Basics DEF Shape, TreeRecord
<1>4. p \notin t.red
  BY <1>1, <1>2
<1>5. R \in SUBSET Key
  BY <1>2, <1>3
<1>6. /\ Shape(r, c, U)
      /\ c.root = t.root /\ c.child = t.child /\ c.parent = t.parent
      /\ c.red = R /\ c.size = t.size
  BY <1>1, <1>5, Recoloured
<1>7. c = Paint(t, (t.red \ {w}) \cup {p})
  OBVIOUS
<1> HIDE DEF c, R, e
<1>8. c.child[Other(d)][p] = w /\ w # Nil /\ p \in U[c.root]
  BY <1>1, <1>2, <1>3, <1>6 DEF e
<1>9. Rotated(c, p, d, w, v)
  BY <1>1, <1>6, <1>8, RotateFields
<1> HIDE DEF v, V, A
<1>10. Shape(r, v, V) /\ V[v.root] = U[t.root]
  <2>1. Shape(r, v, V) /\ V[v.root] = U[c.root]
    BY <1>1, <1>2, <1>6, <1>8, <1>9, RotateKeepsShape DEF V
  <2> QED BY <1>6, <2>1
<1>11. /\ v.red = R /\ v.size = t.size
       /\ v.root = IF p = t.root THEN w ELSE t.root
       /\ \A n \in Node, f \in Dir :
            v.child[f][n] = IF n = w /\ f = d THEN p
                            ELSE IF n = p /\ f = e THEN b
                            ELSE IF t.child[f][n] = p THEN w
                            ELSE t.child[f][n]
  BY <1>6, <1>9 DEF Rotated, e
<1>12. Black(c, p) = 0 /\ Black(c, w) = 1 /\ Black(t, p) = 1 /\ Black(t, w) = 0
  BY <1>2, <1>4, <1>6 DEF Black, R
<1>13. Heights(v, A, p, d)
  <2>1. LevelBut(c, B, p, d, {p, w})
    <3>1. ASSUME NEW n \in Key \ {p, w} PROVE HeightAt(c, B, p, d, n)
      <4>1. HeightAt(t, B, p, d, n)
        BY <1>1
      <4>2. Black(c, n) = Black(t, n)
        BY <1>6 DEF Black, R
      <4> QED BY <1>6, <4>1, <4>2 DEF HeightAt
    <3> QED BY <1>1, <3>1 DEF LevelBut
  <2>2. c.child[d][p] = x /\ c.child[d][w] = b /\ c.child[Other(d)][w] = t.child[e][w]
    BY <1>6 DEF e
  <2>3. h = B[c.child[d][p]] + 1 + Black(c, p)
    BY <1>2, <1>12, <2>2
  <2>4. /\ B[w] = B[b] /\ B[b] \in Nat
        /\ B[w] = B[t.child[e][w]] /\ B[t.child[e][w]] \in Nat
    <3>1. B[w] = B[b] + 0 /\ B[b] \in Nat
      BY <1>1, <1>2, <1>12
    <3>2. B[w] = B[t.child[e][w]] + 0 /\ B[t.child[e][w]] \in Nat
      BY <1>2, <1>12
    <3> QED BY <3>1, <3>2
  <2>5. h = B[c.child[d][w]] + Black(c, p)
    BY <1>2, <1>12, <2>2, <2>4
  <2>6. B[p] = h + Black(c, w)
    BY <1>2, <1>12
  <2>7. B[p] = B[c.child[Other(d)][w]] + Black(c, w)
    BY <1>2, <1>12, <2>2, <2>4
  <2>8. h \in Nat /\ A = [B EXCEPT ![p] = h, ![w] = B[p]]
    BY <1>2 DEF A
  <2>9. Shape(r, c, U) /\ d \in Dir /\ p # w /\ w \in Key
    BY <1>1, <1>2, <1>6
  <2> HIDE DEF h, x, b
  <2> QED BY <1>8, <1>9, <2>1, <2>3, <2>5, <2>6, <2>7, <2>8, <2>9, RotateGap
<1>14. v.child[d][p] = x /\ v.child[e][p] = b
  BY <1>1, <1>2, <1>3, <1>11
<1>15. x \notin R /\ b \notin R
  BY <1>1, <1>2 DEF R
<1>16. v.red \subseteq V[v.root]
  BY <1>1, <1>10, <1>11 DEF R
<1>17. v.root \notin v.red
  BY <1>1, <1>2, <1>11 DEF R
<1>18. ASSUME NEW n \in Key, NEW f \in Dir, n \in R
       PROVE  v.child[f][n] \notin R
  <2>1. n # w /\ n \in Node
    BY <1>2, <1>3, <1>18 DEF R
  <2>2. CASE n = p
    BY <1>2, <1>14, <1>15, <2>2
  <2>3. CASE n # p /\ t.child[f][n] = p
    BY <1>2, <1>11, <2>1, <2>3 DEF R
  <2>4. CASE n # p /\ t.child[f][n] # p
    BY <1>1, <1>11, <1>18, <2>1, <2>4 DEF R
  <2> QED BY <2>2, <2>3, <2>4
<1>19. Short(r, v, V, A, p, d)
  <2>1. p \in V[v.root]
    BY <1>1, <1>10
  <2>2. v.child[d][p] \notin v.red
    BY <1>11, <1>14, <1>15
  <2> HIDE DEF x, b, h
  <2> QED BY <1>1, <1>10, <1>11, <1>13, <1>16, <1>17, <1>18, <2>1, <2>2 DEF Short
<1>20. Turned(r, t, U, v, p, d)
  BY <1>10, <1>11, <1>14, <1>15, <1>19 DEF Turned, e
<1> QED BY <1>7, <1>20 DEF v

\* What a round leaves: the same nodes, and m lacks a black.
Shaken(r, t, U, u, m) ==
  /\ \E V, A, q, g : Lacking(r, u, V, A, m, q, g) /\ V[u.root] = U[t.root]
  /\ u.size = t.size

\* Between black nephews the sibling gives up its black, and p lacks one.
LEMMA BlackNephews ==
  ASSUME NEW r, NEW t, NEW U, NEW B, NEW p, NEW d, Short(r, t, U, B, p, d),
         NEW w, Sibling(t, U, B, p, d, w), w \notin t.red,
         \A f \in Dir : t.child[f][w] \notin t.red
  PROVE  Shaken(r, t, U, Paint(t, t.red \cup {w}), p)
<1> DEFINE e == Other(d)
           R == t.red \cup {w}
           u == Paint(t, R)
           x == t.child[d][p]
           q == t.parent[p]
           g == SideOf(t, p)
           A == [B EXCEPT ![w] = B[x], ![p] = B[x] + Black(t, p)]
<1>1. /\ Shape(r, t, U) /\ p \in U[t.root] /\ d \in Dir /\ x \notin t.red
      /\ t.red \subseteq U[t.root] /\ t.root \notin t.red
      /\ \A n \in Key, f \in Dir : n \in t.red => t.child[f][n] \notin t.red
      /\ B \in [Node -> Nat] /\ B[Nil] = 0
      /\ \A n \in Key : HeightAt(t, B, p, d, n)
  BY DEF Short, Heights
<1>2. /\ e \in Dir /\ e # d /\ Dir = {d, e}
      /\ p \in Key /\ w \in Key /\ p # w /\ w \in U[t.root] /\ w # t.root
      /\ t.child[e][p] = w /\ x \in Node /\ x # p /\ x # w
      /\ \A n \in Key, f \in Dir : t.child[f][n] = w => n = p /\ f = e
      /\ \A f \in Dir : t.child[f][w] \in Node /\ t.child[f][w] # p /\ t.child[f][w] # w
      /\ B[p] = B[w] + Black(t, p) /\ B[w] = B[x] + 1
      /\ B[x] \in Nat /\ B[w] \in Nat
      /\ \A f \in Dir : B[t.child[f][w]] \in Nat /\ B[w] = B[t.child[f][w]] + Black(t, w)
  BY DEF Sibling
<1>3. /\ Node = Key \cup {Nil} /\ Nil \notin Key /\ t.red \subseteq Key
  BY <1>1, Basics DEF Shape, TreeRecord
<1>4. R \in SUBSET Key
  BY <1>2, <1>3
<1>5. /\ Shape(r, u, U)
      /\ u.root = t.root /\ u.child = t.child /\ u.parent = t.parent
      /\ u.red = R /\ u.size = t.size
  BY <1>1, <1>4, Recoloured
<1>6. u = Paint(t, t.red \cup {w})
  OBVIOUS
<1> HIDE DEF u, R, e, g
<1>7. /\ g \in Dir
      /\ p = t.root <=> q = Nil
      /\ \A n \in Key, f \in Dir : t.child[f][n] = p <=> n = q /\ f = g
  <2>1. Hangs(t, p)
    BY <1>1, NodesHang
  <2> QED BY <1>3, <2>1 DEF Hangs, g
<1>8. q # w /\ q # p
  <2>1. q \in Key => t.child[g][q] = p
    BY <1>7
  <2>2. q = p => t.child[g][p] = p
    BY <1>2, <2>1
  <2> QED BY <1>2, <1>7, <2>1, <2>2
<1>9. Black(t, p) \in Nat /\ Black(u, p) = Black(t, p) /\ Black(u, w) = 0 /\ Black(t, w) = 1
  BY <1>2, <1>5 DEF Black, R
<1>10. /\ A \in [Node -> Nat]
       /\ A[w] = B[x] /\ A[p] = B[x] + Black(t, p)
       /\ \A n \in Node : n # w /\ n # p => A[n] = B[n]
  BY <1>1, <1>2, <1>3, <1>9
<1> HIDE DEF A, x, q
<1>11. HeightAt(u, A, q, g, w)
  <2>1. ASSUME NEW f \in Dir
        PROVE  A[w] = A[u.child[f][w]] + Gap(q, g, w, f) + Black(u, w)
    <3>1. A[u.child[f][w]] = B[t.child[f][w]]
      BY <1>2, <1>5, <1>10
    <3>2. Gap(q, g, w, f) = 0
      BY <1>8 DEF Gap
    <3>3. B[t.child[f][w]] \in Nat /\ B[w] = B[t.child[f][w]] + 1
      BY <1>2, <1>9
    <3> QED BY <1>2, <1>9, <1>10, <3>1, <3>2, <3>3
  <2> QED BY <2>1 DEF HeightAt
<1>12. HeightAt(u, A, q, g, p)
  <2>1. ASSUME NEW f \in Dir
        PROVE  A[p] = A[u.child[f][p]] + Gap(q, g, p, f) + Black(u, p)
    <3>1. A[u.child[f][p]] = B[x]
      <4>1. CASE f = d
        <5>1. u.child[f][p] = x
          BY <1>5, <4>1 DEF x
        <5> QED BY <1>2, <1>10, <5>1
      <4>2. CASE f = e
        BY <1>2, <1>5, <1>10, <4>2
      <4> QED BY <1>2, <4>1, <4>2
    <3>2. Gap(q, g, p, f) = 0
      BY <1>8 DEF Gap
    <3> QED BY <1>2, <1>9, <1>10, <3>1, <3>2
  <2> QED BY <2>1 DEF HeightAt
<1>13. ASSUME NEW n \in Key, n # w, n # p PROVE HeightAt(u, A, q, g, n)
  <2>1. ASSUME NEW f \in Dir
        PROVE  A[n] = A[u.child[f][n]] + Gap(q, g, n, f) + Black(u, n)
    <3>1. B[n] = B[t.child[f][n]] + Black(t, n) /\ B[t.child[f][n]] \in Nat
      <4>1. HeightAt(t, B, p, d, n)
        BY <1>1
      <4> QED BY <1>1, <1>13, <4>1, LevelSide, HeightTypes
    <3>2. Black(u, n) = Black(t, n) /\ Black(t, n) \in Nat
      BY <1>5, <1>13 DEF Black, R
    <3>3. A[n] = B[n] /\ u.child[f][n] = t.child[f][n] /\ t.child[f][n] # w
          /\ t.child[f][n] \in Node
      BY <1>1, <1>2, <1>3, <1>5, <1>10, <1>13, HeightTypes
    <3>4. CASE t.child[f][n] = p
      <4>1. Gap(q, g, n, f) = 1
        BY <1>7, <3>4 DEF Gap
      <4>2. B[p] = A[p] + 1 /\ A[p] \in Nat
        BY <1>2, <1>9, <1>10
      <4> QED BY <3>1, <3>2, <3>3, <3>4, <4>1, <4>2
    <3>5. CASE t.child[f][n] # p
      <4>1. Gap(q, g, n, f) = 0
        BY <1>7, <3>5 DEF Gap
      <4>2. A[t.child[f][n]] = B[t.child[f][n]]
        BY <1>10, <3>3, <3>5
      <4> QED BY <3>1, <3>2, <3>3, <4>1, <4>2
    <3> QED BY <3>4, <3>5
  <2> QED BY <2>1 DEF HeightAt
<1>14. Heights(u, A, q, g)
  <2>1. A[Nil] = 0
    BY <1>1, <1>2, <1>3, <1>10
  <2> QED BY <1>10, <1>11, <1>12, <1>13, <2>1 DEF Heights
<1>15. Reds(u, U, p, TRUE)
  <2>1. u.red \subseteq U[u.root] /\ u.root \notin u.red
    BY <1>1, <1>2, <1>5 DEF R
  <2>2. ASSUME NEW n \in Key, NEW f \in Dir, n \in u.red, u.child[f][n] \in u.red
        PROVE  n = p
    <3>1. CASE n = w
      BY <1>2, <1>5, <2>2, <3>1 DEF R
    <3>2. CASE n # w
      BY <1>1, <1>2, <1>5, <2>2, <3>2 DEF R
    <3> QED BY <3>1, <3>2
  <2> QED BY <2>1, <2>2 DEF Reds
<1>16. p # t.root => q \in U[t.root] /\ t.child[g][q] = p
  BY <1>1, Parents DEF q, g
<1>17. Lacking(r, u, U, A, p, q, g)
  <2>1. u.parent[p] = q
    BY <1>5 DEF q
  <2> QED BY <1>5, <1>7, <1>14, <1>15, <1>16, <2>1 DEF Lacking
<1>18. Shaken(r, t, U, u, p)
  BY <1>5, <1>17 DEF Shaken
<1> QED BY <1>6, <1>18

\* With a red far nephew a rotation at p, with the colours R, ends the repair.
FarRed(t, p, d, v, far, R) ==
  /\ v \notin t.red /\ far = t.child[Other(d)][v] /\ far \in t.red
  /\ R = IF p \in t.red THEN (t.red \ {v, p, far}) \cup {v} ELSE t.red \ {v, p, far}

LEMMA FarRound ==
  ASSUME NEW r, NEW t, NEW U, NEW B, NEW p, NEW d, Short(r, t, U, B, p, d),
         NEW v, Sibling(t, U, B, p, d, v), NEW far, NEW R, FarRed(t, p, d, v, far, R)
  PROVE  Shaken(r, t, U, Rotate(Paint(t, R), p, d), Rotate(Paint(t, R), p, d).root)
<1> DEFINE e == Other(d)
           c == Paint(t, R)
           u == Rotate(c, p, d)
           V == Lifted(c, U, p, d, v)
           x == t.child[d][p]
           near == t.child[d][v]
           h == B[x] + 1
           C == [B EXCEPT ![far] = B[far] + 1]
           A == [C EXCEPT ![p] = h, ![v] = C[p]]
<1>1. /\ Shape(r, t, U) /\ p \in U[t.root] /\ d \in Dir /\ x \notin t.red
      /\ t.red \subseteq U[t.root] /\ t.root \notin t.red
      /\ \A n \in Key, f \in Dir : n \in t.red => t.child[f][n] \notin t.red
      /\ B \in [Node -> Nat] /\ B[Nil] = 0
      /\ \A n \in Key : HeightAt(t, B, p, d, n)
  BY DEF Short, Heights
<1>2. /\ e \in Dir /\ e # d /\ Other(e) = d /\ Dir = {d, e}
      /\ p \in Key /\ v \in Key /\ p # v /\ v \in U[t.root] /\ v # t.root
      /\ t.child[e][p] = v /\ x \in Node /\ x # p /\ x # v
      /\ \A n \in Key, f \in Dir : t.child[f][n] = v => n = p /\ f = e
      /\ \A f \in Dir : t.child[f][v] \in Node /\ t.child[f][v] # p /\ t.child[f][v] # v
      /\ B[p] = B[v] + Black(t, p) /\ B[v] = B[x] + 1
      /\ B[x] \in Nat /\ B[v] \in Nat
      /\ \A f \in Dir : B[t.child[f][v]] \in Nat /\ B[v] = B[t.child[f][v]] + Black(t, v)
  BY DEF Sibling
<1>3. /\ Node = Key \cup {Nil} /\ Nil \notin Key /\ t.red \subseteq Key
  BY <1>1, Basics DEF Shape, TreeRecord
<1>4. /\ R \in SUBSET Key /\ p \notin R /\ far \notin R
      /\ v \in R <=> p \in t.red
      /\ \A n : n # p /\ n # v /\ n # far => (n \in R <=> n \in t.red)
      /\ R \subseteq t.red \cup {v}
      /\ far # p /\ far # v
  BY <1>2, <1>3 DEF FarRed
<1>5. /\ Shape(r, c, U)
      /\ c.root = t.root /\ c.child = t.child /\ c.parent = t.parent
      /\ c.red = R /\ c.size = t.size
  BY <1>1, <1>4, Recoloured
<1> HIDE DEF c, u, e
<1>6. c.child[Other(d)][p] = v /\ v # Nil /\ p \in U[c.root]
  BY <1>1, <1>2, <1>3, <1>5 DEF e
<1>7. Rotated(c, p, d, v, u)
  BY <1>1, <1>5, <1>6, RotateFields DEF u
<1> HIDE DEF V, A, C
<1>8. Shape(r, u, V) /\ V[u.root] = U[t.root]
  <2>1. Shape(r, u, V) /\ V[u.root] = U[c.root]
    BY <1>1, <1>2, <1>5, <1>6, <1>7, RotateKeepsShape DEF V
  <2> QED BY <1>5, <2>1
<1>9. /\ u.red = R /\ u.size = t.size
      /\ u.root = IF p = t.root THEN v ELSE t.root
      /\ \A n \in Node, f \in Dir :
           u.child[f][n] = IF n = v /\ f = d THEN p
                           ELSE IF n = p /\ f = e THEN near
                           ELSE IF t.child[f][n] = p THEN v
                           ELSE t.child[f][n]
  BY <1>5, <1>7 DEF Rotated, e
<1>10. far \in Key /\ far = t.child[e][v] /\ far \in t.red /\ v \notin t.red
  BY <1>3 DEF FarRed, e
<1>11. x # far /\ near # far
  <2>1. x # far
    BY <1>1, <1>10
  <2>2. near # far
    <3>1. near = far => d = e
      <4>1. v \in Node
        BY <1>2, <1>3
      <4> HIDE DEF near
      <4> QED BY <1>1, <1>2, <1>10, <4>1, OnePlace DEF near
    <3> QED BY <1>2, <3>1
  <2> QED BY <2>1, <2>2
<1>12. /\ Black(t, v) = 1 /\ Black(t, far) = 0 /\ Black(c, far) = 1 /\ Black(c, p) = 1
       /\ Black(c, v) = Black(t, p) /\ Black(t, p) \in Nat
  BY <1>4, <1>5, <1>10 DEF Black
<1>13. B[p] = h + Black(t, p) /\ B[near] = B[x] /\ B[far] = B[x]
  <2>1. B[near] \in Nat /\ B[v] = B[near] + 1
    BY <1>1, <1>2, <1>12
  <2>2. B[far] \in Nat /\ B[v] = B[far] + 1
    BY <1>2, <1>10, <1>12
  <2> QED BY <1>2, <2>1, <2>2
<1>14. /\ C \in [Node -> Nat] /\ C[Nil] = 0 /\ C[far] = h
       /\ C[p] = B[p] /\ C[x] = B[x] /\ C[near] = B[near]
       /\ \A n \in Node : n # far => C[n] = B[n]
  <2>1. /\ C \in [Node -> Nat] /\ C[far] = B[far] + 1
        /\ \A n \in Node : n # far => C[n] = B[n]
    BY <1>1, <1>2, <1>3, <1>10, <1>13 DEF C
  <2>2. p \in Node /\ near \in Node /\ Nil \in Node
    BY <1>1, <1>2, <1>3
  <2> QED BY <1>1, <1>2, <1>3, <1>4, <1>10, <1>11, <1>13, <2>1, <2>2
<1>15. LevelBut(c, C, p, d, {p, v})
  <2>1. ASSUME NEW n \in Key \ {p, v} PROVE HeightAt(c, C, p, d, n)
    <3>1. HeightAt(t, B, p, d, n)
      BY <1>1
    <3>2. ASSUME NEW f \in Dir
          PROVE  C[n] = C[c.child[f][n]] + Gap(p, d, n, f) + Black(c, n)
      <4>1. B[n] = B[t.child[f][n]] + Gap(p, d, n, f) + Black(t, n)
        BY <3>1 DEF HeightAt
      <4>2. Gap(p, d, n, f) = 0
        BY DEF Gap
      <4>3. t.child[f][n] \in Node /\ B[t.child[f][n]] \in Nat
        BY <1>1, HeightTypes
      <4>4. t.child[f][n] # far
        <5>1. n \in Node /\ v \in Node
          BY <1>2, <1>3
        <5>2. t.child[f][n] = far => n = v
          <6> HIDE DEF x, near
          <6> QED BY <1>1, <1>2, <1>10, <5>1, OnePlace
        <5> QED BY <5>2
      <4>5. c.child[f][n] = t.child[f][n] /\ C[t.child[f][n]] = B[t.child[f][n]]
        BY <1>5, <1>14, <4>3, <4>4
      <4>6. CASE n = far
        BY <1>12, <1>13, <1>14, <4>1, <4>2, <4>3, <4>5, <4>6
      <4>7. CASE n # far
        <5>1. Black(c, n) = Black(t, n)
          BY <1>4, <1>5, <4>7 DEF Black
        <5>2. C[n] = B[n]
          BY <1>3, <1>14, <4>7
        <5> QED BY <4>1, <4>5, <5>1, <5>2
      <4> QED BY <4>6, <4>7
    <3> QED BY <3>2 DEF HeightAt
  <2> QED BY <1>14, <2>1 DEF LevelBut
<1>16. SameGap(p, d, Nil, "left", {p, v})
  BY <1>3 DEF SameGap, Gap
<1>17. Heights(u, A, Nil, "left")
  <2>1. /\ c.child[d][p] = x /\ c.child[d][v] = near /\ c.child[Other(d)][v] = far
    BY <1>5, <1>10 DEF e
  <2>2. h \in Nat /\ A = [C EXCEPT ![p] = h, ![v] = C[p]]
    BY <1>2 DEF A
  <2>3. Shape(r, c, U) /\ d \in Dir /\ Nil # p /\ Nil # v /\ v \in Key
    BY <1>1, <1>2, <1>3, <1>5
  <2>4. h = C[c.child[d][p]] + Black(c, p)
    BY <1>12, <1>14, <2>1
  <2>5. h = C[c.child[d][v]] + Black(c, p)
    BY <1>12, <1>13, <1>14, <2>1
  <2>6. C[p] = h + Black(c, v)
    BY <1>12, <1>13, <1>14
  <2>7. C[p] = C[c.child[Other(d)][v]] + Black(c, v)
    BY <1>14, <2>1, <2>6
  <2> HIDE DEF h, x, near
  <2> QED BY <1>6, <1>7, <1>15, <1>16, <2>2, <2>3, <2>4, <2>5, <2>6, <2>7, RotateLevel
<1>18. u.red \subseteq V[u.root] /\ u.root \notin u.red
  BY <1>1, <1>2, <1>4, <1>8, <1>9
<1>19. ASSUME NEW n \in Key, NEW f \in Dir, n \in R
       PROVE  u.child[f][n] \notin R
  <2>1. n # p /\ n # far /\ n \in Node
    BY <1>3, <1>4, <1>19
  <2>2. CASE n = v /\ f = d
    BY <1>4, <1>9, <2>1, <2>2
  <2>3. CASE n = v /\ f = e
    BY <1>2, <1>4, <1>9, <1>10, <2>1, <2>3
  <2>4. CASE n # v /\ t.child[f][n] = p
    <3>1. n \in t.red
      BY <1>4, <1>19, <2>4
    <3>2. u.child[f][n] = v /\ p \notin t.red
      BY <1>1, <1>9, <2>1, <2>4, <3>1
    <3> QED BY <1>4, <3>2
  <2>5. CASE n # v /\ t.child[f][n] # p
    <3>1. n \in t.red /\ t.child[f][n] \notin t.red
      BY <1>1, <1>4, <1>19, <2>5
    <3>2. u.child[f][n] = t.child[f][n] /\ t.child[f][n] # v
      BY <1>2, <1>9, <2>1, <2>5
    <3> QED BY <1>4, <3>1, <3>2
  <2> QED BY <1>2, <2>2, <2>3, <2>4, <2>5
<1>20. Lacking(r, u, V, A, u.root, Nil, "left")
  <2>1. Reds(u, V, u.root, TRUE)
    BY <1>9, <1>18, <1>19 DEF Reds
  <2> QED BY <1>8, <1>17, <2>1 DEF Lacking
<1>21. Shaken(r, t, U, u, u.root)
  BY <1>8, <1>9, <1>20 DEF Shaken
<1> QED BY <1>21 DEF u, c

\* The gap is where it was, the sibling black and the far nephew red.
Bowed(r, t, U, u, p, d) ==
  /\ Turned(r, t, U, u, p, d)
  /\ u.child[Other(d)][u.child[Other(d)][p]] \in u.red

\* With a red near nephew alone a rotation makes it the sibling.
LEMMA NearRound ==
  ASSUME NEW r, NEW t, NEW U, NEW B, NEW p, NEW d, Short(r, t, U, B, p, d),
         NEW w, Sibling(t, U, B, p, d, w), w \notin t.red,
         t.child[Other(d)][w] \notin t.red,
         NEW y, y = t.child[d][w], y \in t.red
  PROVE  Bowed(r, t, U, Rotate(Paint(t, (t.red \ {y}) \cup {w}), w, Other(d)), p, d)
<1> DEFINE e == Other(d)
           R == (t.red \ {y}) \cup {w}
           c == Paint(t, R)
           u == Rotate(c, w, e)
           V == Lifted(c, U, w, e, y)
           x == t.child[d][p]
           far == t.child[e][w]
           b == t.child[e][y]
           h == B[far]
           A == [B EXCEPT ![w] = h, ![y] = B[w]]
<1>1. /\ Shape(r, t, U) /\ p \in U[t.root] /\ d \in Dir /\ x \notin t.red
      /\ t.red \subseteq U[t.root] /\ t.root \notin t.red
      /\ \A n \in Key, f \in Dir : n \in t.red => t.child[f][n] \notin t.red
      /\ B \in [Node -> Nat] /\ B[Nil] = 0
      /\ \A n \in Key : HeightAt(t, B, p, d, n)
  BY DEF Short, Heights
<1>2. /\ e \in Dir /\ e # d /\ Other(e) = d /\ Dir = {d, e}
      /\ p \in Key /\ w \in Key /\ p # w /\ w \in U[t.root] /\ w # t.root
      /\ t.child[e][p] = w /\ x \in Node /\ x # p /\ x # w
      /\ \A n \in Key, f \in Dir : t.child[f][n] = w => n = p /\ f = e
      /\ \A f \in Dir : t.child[f][w] \in Node /\ t.child[f][w] # p /\ t.child[f][w] # w
      /\ B[p] = B[w] + Black(t, p) /\ B[w] = B[x] + 1
      /\ B[x] \in Nat /\ B[w] \in Nat
      /\ \A f \in Dir : B[t.child[f][w]] \in Nat /\ B[w] = B[t.child[f][w]] + Black(t, w)
  BY DEF Sibling
<1>3. /\ Node = Key \cup {Nil} /\ Nil \notin Key /\ t.red \subseteq Key
  BY <1>1, Basics DEF Shape, TreeRecord
<1>4. /\ R \in SUBSET Key /\ y \in Key /\ y # p /\ y # w /\ y \notin R /\ w \in R
      /\ far \notin R /\ x \notin R /\ b \notin t.red /\ far \notin t.red
      /\ t.child[d][w] = y /\ y \in t.red
  <2>1. y \in Key /\ y # p /\ y # w /\ b \notin t.red
    BY <1>1, <1>2, <1>3
  <2> QED BY <1>1, <1>2, <1>3, <2>1
<1>5. /\ Shape(r, c, U)
      /\ c.root = t.root /\ c.child = t.child /\ c.parent = t.parent
      /\ c.red = R /\ c.size = t.size
  BY <1>1, <1>4, Recoloured
<1>6. c = Paint(t, (t.red \ {y}) \cup {w})
  OBVIOUS
<1> HIDE DEF c, R, u, e
<1>7. c.child[Other(e)][w] = y /\ y # Nil /\ w \in U[c.root]
  BY <1>2, <1>3, <1>4, <1>5
<1>8. Rotated(c, w, e, y, u)
  BY <1>2, <1>5, <1>7, RotateFields DEF u
<1> HIDE DEF V, A
<1>9. Shape(r, u, V) /\ V[u.root] = U[t.root]
  <2>1. Shape(r, u, V) /\ V[u.root] = U[c.root]
    BY <1>2, <1>4, <1>5, <1>7, <1>8, RotateKeepsShape DEF V
  <2> QED BY <1>5, <2>1
<1>10. b # w /\ b # y
  <2>1. Around(c, U, w, e, y)
    BY <1>2, <1>4, <1>5, <1>7, RotationNodes
  <2> QED BY <1>5, <2>1, Zenon DEF Around
<1>11. /\ u.red = R /\ u.size = t.size /\ u.root = t.root
       /\ \A n \in Node, f \in Dir :
            u.child[f][n] = IF n = y /\ f = e THEN w
                            ELSE IF n = w /\ f = d THEN b
                            ELSE IF t.child[f][n] = w THEN y
                            ELSE t.child[f][n]
  BY <1>2, <1>5, <1>8 DEF Rotated
<1>12. Black(c, w) = 0 /\ Black(c, y) = 1 /\ Black(t, w) = 1 /\ Black(t, y) = 0
  BY <1>4, <1>5 DEF Black
<1>13. Heights(u, A, p, d)
  <2>1. LevelBut(c, B, p, d, {w, y})
    <3>1. ASSUME NEW n \in Key \ {w, y} PROVE HeightAt(c, B, p, d, n)
      <4>1. HeightAt(t, B, p, d, n)
        BY <1>1
      <4>2. Black(c, n) = Black(t, n)
        BY <1>5 DEF Black, R
      <4> QED BY <1>5, <4>1, <4>2 DEF HeightAt
    <3> QED BY <1>1, <3>1 DEF LevelBut
  <2>2. SameGap(p, d, p, d, {w, y})
    BY DEF SameGap
  <2>3. /\ c.child[e][w] = far /\ c.child[e][y] = b /\ c.child[Other(e)][y] = t.child[d][y]
    BY <1>2, <1>5
  <2>4. /\ h \in Nat /\ B[w] = h + 1 /\ B[y] = h
    <3>1. h \in Nat /\ B[w] = h + Black(t, w)
      BY <1>2
    <3>2. B[y] \in Nat /\ B[w] = B[y] + Black(t, w)
      BY <1>1, <1>2, <1>4
    <3> QED BY <1>12, <3>1, <3>2
  <2>5. ASSUME NEW f \in Dir PROVE B[t.child[f][y]] = h
    <3>1. HeightAt(t, B, p, d, y)
      BY <1>1, <1>4
    <3>2. B[y] = B[t.child[f][y]] + Black(t, y)
      BY <1>1, <1>4, <3>1, LevelSide
    <3>3. B[t.child[f][y]] \in Nat
      BY <1>1, <1>4, HeightTypes
    <3> QED BY <1>12, <2>4, <3>2, <3>3
  <2>6. h = B[c.child[e][w]] + Black(c, w) /\ h = B[c.child[e][y]] + Black(c, w)
    BY <1>2, <1>12, <2>3, <2>4, <2>5
  <2>7. B[w] = h + Black(c, y) /\ B[w] = B[c.child[Other(e)][y]] + Black(c, y)
    BY <1>1, <1>12, <2>3, <2>4, <2>5
  <2>8. A = [B EXCEPT ![w] = h, ![y] = B[w]]
    BY DEF A
  <2>9. p # w /\ p # y /\ e \in Dir /\ y \in Key
    BY <1>2, <1>4
  <2> HIDE DEF h, far, b
  <2> QED BY <1>5, <1>7, <1>8, <2>1, <2>2, <2>4, <2>6, <2>7, <2>8, <2>9, RotateLevel
<1>14. /\ u.child[d][p] = x /\ u.child[e][p] = y /\ u.child[e][y] = w
       /\ u.child[d][w] = b /\ u.child[e][w] = far
  BY <1>1, <1>2, <1>3, <1>4, <1>11
<1>15. u.red \subseteq V[u.root] /\ u.root \notin u.red /\ u.child[d][p] \notin u.red
  <2>1. R \subseteq U[t.root] /\ t.root \notin R
    BY <1>1, <1>2 DEF R
  <2> QED BY <1>4, <1>9, <1>11, <1>14, <2>1
<1>16. ASSUME NEW n \in Key, NEW f \in Dir, n \in R
       PROVE  u.child[f][n] \notin R
  <2>1. n # y /\ n \in Node
    BY <1>3, <1>4, <1>16
  <2>2. CASE n = w
    <3>1. b \notin R
      BY <1>4, <1>10 DEF R
    <3> QED BY <1>2, <1>4, <1>14, <2>2, <3>1
  <2>3. CASE n # w /\ t.child[f][n] = w
    BY <1>4, <1>11, <2>1, <2>3
  <2>4. CASE n # w /\ t.child[f][n] # w
    <3>1. t.child[f][n] \notin t.red
      BY <1>1, <1>16, <2>4 DEF R
    <3>2. u.child[f][n] = t.child[f][n]
      BY <1>11, <2>1, <2>4
    <3> QED BY <2>4, <3>1, <3>2 DEF R
  <2> QED BY <2>2, <2>3, <2>4
<1>17. Short(r, u, V, A, p, d)
  <2>1. p \in V[u.root] /\ d \in Dir
    BY <1>1, <1>9
  <2> QED BY <1>9, <1>11, <1>13, <1>15, <1>16, <2>1 DEF Short
<1>18. Bowed(r, t, U, u, p, d)
  <2>1. Turned(r, t, U, u, p, d)
    BY <1>4, <1>9, <1>11, <1>14, <1>17 DEF Turned, e
  <2> QED BY <1>4, <1>11, <1>14, <2>1 DEF Bowed, e
<1> QED BY <1>6, <1>18 DEF u, e

\* The part of the round below a black sibling,
LEMMA BlackSibling ==
  ASSUME NEW r, NEW t, NEW U, NEW B, NEW p, NEW d, Short(r, t, U, B, p, d),
         t.child[Other(d)][p] \notin t.red
  PROVE  Shaken(r, t, U, SiblingRound(t, p, d).tree, SiblingRound(t, p, d).at)
<1> DEFINE e == Other(d)
           w == t.child[e][p]
           near == t.child[d][w]
           far == t.child[e][w]
           u == IF far \in t.red THEN t
                ELSE Rotate(Paint(t, (t.red \ {near}) \cup {w}), w, e)
           v == u.child[e][p]
           outer == u.child[e][v]
           R == IF p \in u.red THEN (u.red \ {v, p, outer}) \cup {v}
                               ELSE u.red \ {v, p, outer}
           done == Rotate(Paint(u, R), p, d)
<1>1. SiblingRound(t, p, d) = IF {near, far} \cap t.red = {}
                                THEN [tree |-> Paint(t, t.red \cup {w}), at |-> p]
                                ELSE [tree |-> done, at |-> done.root]
  BY DEF SiblingRound
<1>2. Sibling(t, U, B, p, d, w)
  BY SiblingIs
<1>3. d \in Dir /\ e \in Dir /\ Dir = {d, e} /\ w \notin t.red
  BY <1>2 DEF Sibling, Short
<1>4. CASE {near, far} \cap t.red = {}
  <2>1. \A f \in Dir : t.child[f][w] \notin t.red
    BY <1>3, <1>4
  <2> HIDE DEF w, near, far, done
  <2>2. Shaken(r, t, U, Paint(t, t.red \cup {w}), p)
    BY <1>2, <1>3, <2>1, BlackNephews
  <2> QED BY <1>1, <1>4, <2>2
<1>5. CASE {near, far} \cap t.red # {}
  <2>1. Bowed(r, t, U, u, p, d)
    <3>1. CASE far \in t.red
      <4>1. Turned(r, t, U, t, p, d)
        BY <1>3 DEF Turned
      <4>2. Bowed(r, t, U, t, p, d)
        BY <3>1, <4>1 DEF Bowed
      <4> QED BY <3>1, <4>2
    <3>2. CASE far \notin t.red
      <4>1. near \in t.red
        BY <1>5, <3>2
      <4>2. t.child[Other(d)][w] \notin t.red /\ near = t.child[d][w]
        BY <3>2
      <4> DEFINE m == Rotate(Paint(t, (t.red \ {near}) \cup {w}), w, Other(d))
      <4> HIDE DEF near, w
      <4>3. Bowed(r, t, U, m, p, d)
        BY <1>2, <1>3, <4>1, <4>2, NearRound
      <4> QED BY <3>2, <4>3
    <3> QED BY <3>1, <3>2
  <2> HIDE DEF u
  <2>2. /\ Turned(r, t, U, u, p, d) /\ outer \in u.red
    BY <2>1 DEF Bowed
  <2>3. /\ u.size = t.size /\ v \notin u.red
        /\ \E V, A : Short(r, u, V, A, p, d) /\ V[u.root] = U[t.root]
    BY <2>2 DEF Turned
  <2>4. PICK V, A : Short(r, u, V, A, p, d) /\ V[u.root] = U[t.root]
    BY <2>3
  <2>5. Sibling(u, V, A, p, d, v)
    BY <2>4, SiblingIs
  <2>6. FarRed(u, p, d, v, outer, R)
    BY <2>2, <2>3 DEF FarRed
  <2>7. done = Rotate(Paint(u, R), p, d)
    OBVIOUS
  <2> HIDE DEF v, outer, R, done
  <2>8. Shaken(r, u, V, done, done.root)
    BY <2>4, <2>5, <2>6, <2>7, FarRound
  <2>9. Shaken(r, t, U, done, done.root)
    BY <2>3, <2>4, <2>8 DEF Shaken
  <2> QED BY <1>1, <1>5, <2>9
<1> QED BY <1>4, <1>5

\* and every round of deleteFixup.
LEMMA DeleteRounds ==
  ASSUME NEW r, NEW t, NEW U, NEW B, NEW x, NEW p, NEW s, Lacking(r, t, U, B, x, p, s),
         x # t.root, x \notin t.red
  PROVE  Shaken(r, t, U, DeleteRound(t, x).tree, DeleteRound(t, x).at)
<1> DEFINE w == t.child[Other(s)][p]
           v == Rotate(Paint(t, (t.red \ {w}) \cup {p}), p, s)
<1>1. /\ Shape(r, t, U) /\ Heights(t, B, p, s)
      /\ p \in U[t.root] /\ s \in Dir /\ t.child[s][p] = x /\ t.parent[x] = p
      /\ Reds(t, U, x, TRUE)
  BY DEF Lacking
<1>2. Short(r, t, U, B, p, s)
  BY <1>1 DEF Reds, Short
<1>3. Sibling(t, U, B, p, s, w)
  BY <1>2, SiblingIs
<1>4. w # x /\ Dir = {s, Other(s)} /\ Dir = {"left", "right"} /\ "left" # "right" /\ s # Other(s)
  BY <1>1, <1>3, Basics DEF Sibling
<1>5. SideOf(t, x) = s
  BY <1>1, <1>4 DEF SideOf
<1>6. DeleteRound(t, x) = IF w \in t.red THEN SiblingRound(v, p, s) ELSE SiblingRound(t, p, s)
  BY <1>1, <1>5 DEF DeleteRound
<1>7. CASE w \notin t.red
  <2>1. Shaken(r, t, U, SiblingRound(t, p, s).tree, SiblingRound(t, p, s).at)
    BY <1>2, <1>7, BlackSibling
  <2> HIDE DEF v, w
  <2> QED BY <1>6, <1>7, <2>1
<1>8. CASE w \in t.red
  <2> HIDE DEF w
  <2>1. Turned(r, t, U, v, p, s)
    BY <1>2, <1>3, <1>8, RedSibling
  <2> HIDE DEF v
  <2>2. /\ v.size = t.size /\ v.child[Other(s)][p] \notin v.red
        /\ \E V, A : Short(r, v, V, A, p, s) /\ V[v.root] = U[t.root]
    BY <2>1 DEF Turned
  <2>3. PICK V, A : Short(r, v, V, A, p, s) /\ V[v.root] = U[t.root]
    BY <2>2
  <2>4. Shaken(r, v, V, SiblingRound(v, p, s).tree, SiblingRound(v, p, s).at)
    BY <2>2, <2>3, BlackSibling
  <2>5. Shaken(r, t, U, SiblingRound(v, p, s).tree, SiblingRound(v, p, s).at)
    BY <2>2, <2>3, <2>4 DEF Shaken
  <2> QED BY <1>6, <1>8, <2>5
<1> QED BY <1>7, <1>8

-----------------------------------------------------------------------------
(* The search.                                                             *)

LEMMA LinkedIs ==
  ASSUME NEW r, NEW U, Shape(r, tree, U)
  PROVE  Linked = U[tree.root] /\ \A n \in Node : Under(n) = U[n]
<1>1. \A n : Under(n) = UnderOf(tree, n)
  BY DEF Under, UnderOf
<1>2. tree.root \in Node
  BY DEF Shape, TreeRecord
<1> QED BY <1>1, <1>2, UnderIs DEF Linked

LEMMA LinkedNext ==
  ASSUME NEW r, NEW U, Shape(r, tree', U)
  PROVE  Linked' = U[tree'.root]
<1>1. Linked' = UnderOf(tree', tree'.root)
  BY DEF Linked, Under, UnderOf
<1>2. tree'.root \in Node
  BY DEF Shape, TreeRecord
<1>3. \A n \in Node : UnderOf(tree', n) = U[n]
  BY UnderIs
<1> QED BY <1>1, <1>2, <1>3

\* compare looks to the left of a node for what comes before it.
LEMMA BeforeSide ==
  ASSUME desc \in BOOLEAN, NEW j \in Key, NEW n \in Key
  PROVE  /\ Before(j, n) <=> Side(desc, "left", j, n)
         /\ j # n /\ ~Before(j, n) => Side(desc, "right", j, n)
BY Basics DEF Before, Side

\* What is below a node hangs from a node that is below it too.
LEMMA ParentsBelow ==
  ASSUME NEW r, NEW t, NEW U, Shape(r, t, U), NEW a \in Node, NEW m \in U[a], m # a
  PROVE  t.parent[m] \in U[a]
<1> DEFINE S == {i \in Node : m \in U[i] /\ m # i /\ U[i] \subseteq U[a]}
<1>1. a \in S /\ S \in SUBSET Node
  OBVIOUS
<1>2. PICK i \in S : \A j \in S : U[j] \subseteq U[i] => U[j] = U[i]
  <2> HIDE DEF S
  <2> QED BY <1>1, Lowest
<1>3. i \in Node /\ m \in U[i] /\ m # i /\ U[i] \subseteq U[a]
  OBVIOUS
<1>4. i \in Key
  BY <1>3, Basics DEF Shape, Spans
<1>5. PICK d \in Dir : m \in U[t.child[d][i]]
  BY <1>3, <1>4 DEF Shape, Spans, Dir
<1> DEFINE c == t.child[d][i]
<1>6. U[c] \subseteq U[i] /\ i \notin U[c] /\ i \in U[i] /\ c \in Node
  BY <1>4, Halves
<1>7. c # Nil
  BY <1>5 DEF Shape, Spans
<1>8. c = m
  BY <1>2, <1>3, <1>5, <1>6
<1>9. t.parent[m] = i
  BY <1>4, <1>7, <1>8 DEF Shape
<1> QED BY <1>3, <1>6, <1>9

\* The search for k stands at a: a is where the order of the keys leads, and
\* below a is all there can be.
Searching(r, t, U, k, a) ==
  /\ a \in U[t.root] \/ (a = Nil /\ t.root = Nil)
  /\ \A n \in Key, f \in Dir : a \in U[t.child[f][n]] => Side(r, f, k, n)
  /\ k \in U[t.root] => k \in U[a]

LEMMA SearchStarts ==
  ASSUME NEW r, NEW t, NEW U, Shape(r, t, U), NEW k
  PROVE  Searching(r, t, U, k, t.root)
<1>1. t.root \in Node /\ Node = Key \cup {Nil} /\ Nil \notin Key /\ U[Nil] = {}
  BY Basics DEF Shape, TreeRecord, Spans
<1>2. t.root # Nil => t.root \in U[t.root]
  BY <1>1 DEF Shape, Spans
<1>3. ASSUME NEW n \in Key, NEW f \in Dir, t.root \in U[t.child[f][n]]
      PROVE  FALSE
  <2>1. n \in U[t.root]
    BY <1>1, <1>3 DEF Shape
  <2>2. t.child[f][n] \in Node /\ n \notin U[t.child[f][n]]
    BY Halves
  <2>3. U[t.root] \subseteq U[t.child[f][n]]
    BY <1>3, <2>2, Nested
  <2> QED BY <2>1, <2>2, <2>3
<1> QED BY <1>1, <1>2, <1>3 DEF Searching

\* A key that is not at a node is below it on its side, if anywhere below it.
LEMMA SearchSide ==
  ASSUME NEW r, NEW t, NEW U, Shape(r, t, U), NEW a \in Key, NEW k \in Key, k # a,
         NEW d \in Dir, Side(r, d, k, a), k \in U[a]
  PROVE  k \in U[t.child[d][a]]
<1>1. U[a] = {a} \cup U[t.child[d][a]] \cup U[t.child[Other(d)][a]]
  BY Halves
<1>2. ASSUME k \in U[t.child[Other(d)][a]] PROVE FALSE
  <2>1. Side(r, Other(d), k, a)
    BY <1>2, Basics DEF Shape
  <2> QED BY <2>1, SideOrder DEF Shape
<1> QED BY <1>1, <1>2

LEMMA SearchDescends ==
  ASSUME NEW r, NEW t, NEW U, Shape(r, t, U), NEW k \in Key, NEW a \in Key,
         Searching(r, t, U, k, a), k # a, NEW d \in Dir, Side(r, d, k, a),
         NEW c, c = t.child[d][a], c # Nil
  PROVE  Searching(r, t, U, k, c)
<1>1. /\ a \in U[t.root] /\ Nil \notin Key /\ Node = Key \cup {Nil}
      /\ \A n \in Key, f \in Dir : a \in U[t.child[f][n]] => Side(r, f, k, n)
      /\ k \in U[t.root] => k \in U[a]
  BY Basics DEF Searching
<1>2. U[a] = {a} \cup U[c] \cup U[t.child[Other(d)][a]] /\ c \in Node
  BY Halves
<1>3. c \in Key /\ c \in U[c] /\ a \in Node /\ t.root \in Node /\ t.parent[c] = a
  <2>1. c \in Key
    BY <1>1, <1>2
  <2>2. c \in U[c]
    BY <2>1, Halves
  <2>3. t.parent[c] = a /\ t.root \in Node
    BY DEF Shape, TreeRecord
  <2> QED BY <1>1, <2>1, <2>2, <2>3
<1>4. c \in U[t.root]
  BY <1>1, <1>2, <1>3, Nested
<1>5. k \in U[t.root] => k \in U[c]
  BY <1>1, SearchSide
<1>6. ASSUME NEW n \in Key, NEW f \in Dir, c \in U[t.child[f][n]]
      PROVE  Side(r, f, k, n)
  <2>1. CASE t.child[f][n] = c
    <3>1. n = a /\ f = d
      BY <1>1, <1>3, <2>1, OnePlace
    <3> QED BY <3>1
  <2>2. CASE t.child[f][n] # c
    <3>1. t.child[f][n] \in Node
      BY Halves
    <3>2. a \in U[t.child[f][n]]
      BY <1>3, <1>6, <2>2, <3>1, ParentsBelow
    <3> QED BY <1>1, <3>2
  <2> QED BY <2>1, <2>2
<1> QED BY <1>4, <1>5, <1>6 DEF Searching

\* Where the search leaves the tree the key is missing, and belongs there.
LEMMA SearchLands ==
  ASSUME NEW r, NEW t, NEW U, Shape(r, t, U), NEW k \in Key, NEW a,
         Searching(r, t, U, k, a), k # a, NEW d \in Dir,
         a # Nil => Side(r, d, k, a) /\ t.child[d][a] = Nil
  PROVE  k \notin U[t.root] /\ Ready(r, t, U, k, a, d)
<1>1. /\ a \in U[t.root] \/ (a = Nil /\ t.root = Nil)
      /\ Nil \notin Key /\ Node = Key \cup {Nil} /\ U[Nil] = {}
      /\ \A n \in Key, f \in Dir : a \in U[t.child[f][n]] => Side(r, f, k, n)
      /\ k \in U[t.root] => k \in U[a]
      /\ t.root \in Node
  BY Basics DEF Searching, Shape, Spans, TreeRecord
<1>2. a # Nil => a \in U[t.root] /\ a \in Key
  BY <1>1, Nested
<1>3. k \notin U[t.root]
  <2>1. CASE a = Nil
    BY <1>1, <2>1
  <2>2. CASE a # Nil
    <3>1. k \in U[a] => k \in U[t.child[d][a]]
      BY <1>2, <2>2, SearchSide
    <3> QED BY <1>1, <2>2, <3>1
  <2> QED BY <2>1, <2>2
<1>4. a = Nil => t.root = Nil
  <2>1. a = Nil => a \notin U[t.root]
    BY <1>1, Nested
  <2> QED BY <1>1, <2>1
<1> QED BY <1>1, <1>2, <1>3, <1>4 DEF Ready

-----------------------------------------------------------------------------
(* The end of a call.                                                      *)

\* u is t with another size.
Resized(t, n, u) ==
  /\ u \in TreeRecord /\ u.size = n
  /\ u.root = t.root /\ u.child = t.child /\ u.parent = t.parent /\ u.red = t.red

LEMMA Resizes ==
  ASSUME NEW t \in TreeRecord, NEW n \in Nat
  PROVE  Resized(t, n, [t EXCEPT !.size = n])
BY DEF TreeRecord, Resized

LEMMA SizeAside ==
  ASSUME NEW t, NEW n, NEW u, Resized(t, n, u), NEW r, NEW U, NEW B, NEW x, NEW p, NEW s,
         NEW lax
  PROVE  /\ Shape(r, t, U) => Shape(r, u, U)
         /\ Heights(t, B, p, s) => Heights(u, B, p, s)
         /\ Reds(t, U, x, lax) => Reds(u, U, x, lax)
         /\ Lacking(r, t, U, B, x, p, s) => Lacking(r, u, U, B, x, p, s)
<1>1. /\ u \in TreeRecord /\ u.root = t.root /\ u.child = t.child /\ u.parent = t.parent
      /\ u.red = t.red
  BY DEF Resized
<1>2. Shape(r, t, U) => Shape(r, u, U)
  BY <1>1 DEF Shape, Spans
<1>3. Heights(t, B, p, s) => Heights(u, B, p, s)
  BY <1>1 DEF Heights, HeightAt, Black
<1>4. Reds(t, U, x, lax) => Reds(u, U, x, lax)
  BY <1>1 DEF Reds
<1>5. Reds(t, U, x, TRUE) => Reds(u, U, x, TRUE)
  BY <1>1 DEF Reds
<1> QED BY <1>1, <1>2, <1>3, <1>4, <1>5 DEF Lacking

\* A root may become black without harm,
LEMMA BlackRoot ==
  ASSUME NEW r, NEW t, NEW U, Shape(r, t, U), NEW B, NEW s, Heights(t, B, Nil, s),
         t.red \subseteq U[t.root],
         \A n \in Key, f \in Dir :
           n \in t.red /\ t.child[f][n] \in t.red => n = t.root \/ t.child[f][n] = t.root
  PROVE  /\ \E A : Heights(Paint(t, t.red \ {t.root}), A, Nil, "left")
         /\ Reds(Paint(t, t.red \ {t.root}), U, Nil, FALSE)
<1> DEFINE m == t.root
           R == t.red \ {m}
           u == Paint(t, R)
           A == IF m \in t.red THEN [B EXCEPT ![m] = B[m] + 1] ELSE B
<1>1. /\ Node = Key \cup {Nil} /\ Nil \notin Key /\ R \in SUBSET Key /\ t.red \subseteq Key
      /\ m \in Node /\ B \in [Node -> Nat] /\ B[Nil] = 0
      /\ \A n \in Key : HeightAt(t, B, Nil, s, n)
  BY Basics DEF Shape, TreeRecord, Heights
<1>2. /\ Shape(r, u, U)
      /\ u.root = t.root /\ u.child = t.child /\ u.parent = t.parent
      /\ u.red = R /\ u.size = t.size
  BY <1>1, Recoloured
<1> HIDE DEF u, R
<1>3. ASSUME NEW n \in Key, NEW f \in Dir PROVE t.child[f][n] # m \/ m = Nil
  <2>1. t.child[f][n] # Nil => t.parent[t.child[f][n]] = n
    BY DEF Shape
  <2>2. m # Nil => t.parent[m] = Nil
    BY DEF Shape
  <2> QED BY <1>1, <2>1, <2>2
<1>4. A \in [Node -> Nat] /\ A[Nil] = 0 /\ \A n \in Node : n # m => A[n] = B[n]
  BY <1>1
<1>5. m \in t.red => A[m] = B[m] + 1
  BY <1>1
<1>6. m \notin t.red => A[m] = B[m]
  OBVIOUS
<1> HIDE DEF A
<1>7. ASSUME NEW n \in Key PROVE HeightAt(u, A, Nil, "left", n)
  <2>1. ASSUME NEW f \in Dir
        PROVE  A[n] = A[u.child[f][n]] + Gap(Nil, "left", n, f) + Black(u, n)
    <3>1. Gap(Nil, "left", n, f) = 0
      BY <1>1 DEF Gap
    <3>2. B[n] = B[t.child[f][n]] + Black(t, n) /\ B[t.child[f][n]] \in Nat
          /\ t.child[f][n] \in Node
      <4>1. B[n] = B[t.child[f][n]] + Gap(Nil, s, n, f) + Black(t, n)
        BY <1>1 DEF HeightAt
      <4>2. Gap(Nil, s, n, f) = 0
        BY <1>1 DEF Gap
      <4>3. B[t.child[f][n]] \in Nat /\ t.child[f][n] \in Node /\ Black(t, n) \in Nat
        BY <1>1, HeightTypes
      <4> QED BY <4>1, <4>2, <4>3
    <3>3. A[t.child[f][n]] = B[t.child[f][n]]
      BY <1>1, <1>3, <1>4, <3>2
    <3>4. CASE n = m /\ m \in t.red
      <4>1. Black(t, n) = 0 /\ Black(u, n) = 1
        BY <1>2, <3>4 DEF Black, R
      <4> QED BY <1>2, <1>5, <3>1, <3>2, <3>3, <3>4, <4>1
    <3>5. CASE ~(n = m /\ m \in t.red)
      <4>1. Black(u, n) = Black(t, n) /\ Black(t, n) \in Nat
        BY <1>2, <3>5 DEF Black, R
      <4>2. A[n] = B[n]
        BY <1>1, <1>4, <1>6, <3>5
      <4> QED BY <1>2, <3>1, <3>2, <3>3, <4>1, <4>2
    <3> QED BY <3>4, <3>5
  <2> QED BY <2>1 DEF HeightAt
<1>8. Heights(u, A, Nil, "left")
  BY <1>4, <1>7 DEF Heights
<1>9. Reds(u, U, Nil, FALSE)
  BY <1>2 DEF Reds, R
<1> QED BY <1>8, <1>9 DEF u, R

\* and a red node that lacks a black becomes black.
LEMMA BlackNode ==
  ASSUME NEW r, NEW t, NEW U, NEW B, NEW x, NEW p, NEW s, Lacking(r, t, U, B, x, p, s),
         x # t.root, x \in t.red
  PROVE  /\ \E A : Heights(Paint(t, t.red \ {x}), A, Nil, "left")
         /\ Reds(Paint(t, t.red \ {x}), U, Nil, FALSE)
<1> DEFINE R == t.red \ {x}
           u == Paint(t, R)
           A == [B EXCEPT ![x] = B[x] + 1]
<1>1. /\ Shape(r, t, U) /\ Reds(t, U, x, TRUE)
      /\ p \in U[t.root] /\ s \in Dir /\ t.child[s][p] = x
  BY DEF Lacking
<1>2. /\ Node = Key \cup {Nil} /\ Nil \notin Key /\ R \in SUBSET Key /\ t.red \subseteq Key
      /\ x \in Key /\ p \in Key /\ B \in [Node -> Nat] /\ B[Nil] = 0
      /\ \A n \in Key : HeightAt(t, B, p, s, n)
  BY <1>1, Basics, Parents DEF Shape, TreeRecord, Heights, Lacking
<1>3. /\ Shape(r, u, U)
      /\ u.root = t.root /\ u.child = t.child /\ u.parent = t.parent
      /\ u.red = R /\ u.size = t.size
  BY <1>1, <1>2, Recoloured
<1> HIDE DEF u, R
<1>4. ASSUME NEW n \in Key, NEW f \in Dir, t.child[f][n] = x PROVE n = p /\ f = s
  BY <1>1, <1>2, <1>4, OnePlace
<1>5. /\ A \in [Node -> Nat] /\ A[Nil] = 0 /\ A[x] = B[x] + 1
      /\ \A n \in Node : n # x => A[n] = B[n]
  BY <1>2
<1>6. p # x
  BY <1>1, <1>2, Halves
<1> HIDE DEF A
<1>7. ASSUME NEW n \in Key PROVE HeightAt(u, A, Nil, "left", n)
  <2>1. ASSUME NEW f \in Dir
        PROVE  A[n] = A[u.child[f][n]] + Gap(Nil, "left", n, f) + Black(u, n)
    <3>1. Gap(Nil, "left", n, f) = 0
      BY <1>2 DEF Gap
    <3>2. /\ B[n] = B[t.child[f][n]] + Gap(p, s, n, f) + Black(t, n)
          /\ B[t.child[f][n]] \in Nat /\ t.child[f][n] \in Node
      BY <1>1, <1>2, HeightTypes DEF HeightAt
    <3>3. CASE n = x
      <4>1. Black(t, n) = 0 /\ Black(u, n) = 1 /\ Gap(p, s, n, f) = 0
        BY <1>3, <1>6, <3>3 DEF Black, Gap, R
      <4>2. t.child[f][n] # x
        BY <1>4, <1>6, <3>3
      <4>3. A[t.child[f][n]] = B[t.child[f][n]]
        BY <1>5, <3>2, <4>2
      <4> QED BY <1>3, <1>5, <3>1, <3>2, <3>3, <4>1, <4>3
    <3>4. CASE n # x
      <4>1. Black(u, n) = Black(t, n) /\ Black(t, n) \in Nat
        BY <1>3, <3>4 DEF Black, R
      <4>2. A[n] = B[n]
        BY <1>2, <1>5, <3>4
      <4>3. CASE t.child[f][n] = x
        <5>1. Gap(p, s, n, f) = 1
          BY <1>4, <4>3 DEF Gap
        <5>2. B[n] = B[x] + 1 + Black(t, n) /\ A[u.child[f][n]] = B[x] + 1 /\ B[x] \in Nat
          BY <1>3, <1>5, <3>2, <4>3, <5>1
        <5> QED BY <3>1, <4>1, <4>2, <5>2
      <4>4. CASE t.child[f][n] # x
        <5>1. Gap(p, s, n, f) = 0
          BY <1>1, <4>4 DEF Gap
        <5>2. A[t.child[f][n]] = B[t.child[f][n]]
          BY <1>5, <3>2, <4>4
        <5> QED BY <1>3, <3>1, <3>2, <4>1, <4>2, <5>1, <5>2
      <4> QED BY <4>3, <4>4
    <3> QED BY <3>3, <3>4
  <2> QED BY <2>1 DEF HeightAt
<1>8. Heights(u, A, Nil, "left")
  BY <1>5, <1>7 DEF Heights
<1>9. Reds(u, U, Nil, FALSE)
  <2>1. R \subseteq U[t.root] /\ t.root \notin R
    BY <1>1 DEF Reds, R
  <2>2. ASSUME NEW n \in Key, NEW f \in Dir, n \in R, t.child[f][n] \in R PROVE FALSE
    BY <1>1, <2>2 DEF Reds, R
  <2> QED BY <1>3, <2>1, <2>2 DEF Reds
<1> QED BY <1>8, <1>9 DEF u, R

-----------------------------------------------------------------------------
(* The invariant.                                                          *)

Request == [kind : {"insert", "delete"}, key : Key]

Balanced(t, U) == (\E B : Heights(t, B, Nil, "left")) /\ Reds(t, U, Nil, FALSE)

Clashing(t, U, a) == /\ \E B : Heights(t, B, Nil, "left")
                     /\ Reds(t, U, a, FALSE)
                     /\ a \in U[t.root] /\ a \in t.red

\* What is so of a tree where a call for k is in loop c and stands at a.
Held(r, t, U, c, k, a) ==
  /\ Shape(r, t, U) /\ t.size = Cardinality(U[t.root])
  /\ c \in {"idle", "search"} => Balanced(t, U)
  /\ c = "search" => Searching(r, t, U, k, a)
  /\ c = "insertFixup" => Clashing(t, U, a)
  /\ c = "deleteFixup" => \E B, p, s : Lacking(r, t, U, B, a, p, s)

Calling == /\ pc \in {"idle", "search", "insertFixup", "deleteFixup"}
           /\ at \in Node
           /\ pc = "idle" => op = NoOp
           /\ pc # "idle" => op \in Request

TreeInv == Calling /\ \E U : Held(desc, tree, U, pc, op.key, at)

\* The sizes of the sets of nodes.
LEMMA NodeCounts ==
  ASSUME NEW r, NEW t, NEW U, Shape(r, t, U)
  PROVE  /\ Cardinality(U[t.root]) \in Nat
         /\ \A k \in U[t.root] : /\ Cardinality(U[t.root] \ {k}) = Cardinality(U[t.root]) - 1
                                 /\ Cardinality(U[t.root]) - 1 \in Nat
         /\ \A k : k \notin U[t.root] =>
              Cardinality(U[t.root] \cup {k}) = Cardinality(U[t.root]) + 1
<1> DEFINE S == U[t.root]
<1>1. IsFiniteSet(S)
  <2>1. t.root \in Node
    BY DEF Shape, TreeRecord
  <2>2. S \subseteq Key
    BY <2>1 DEF Shape, Spans
  <2> QED BY <2>2, Basics, FS_Subset
<1> HIDE DEF S
<1>2. Cardinality(S) \in Nat
  BY <1>1, FS_CardinalityType
<1>3. ASSUME NEW k \in S
      PROVE  Cardinality(S \ {k}) = Cardinality(S) - 1 /\ Cardinality(S) - 1 \in Nat
  <2>1. Cardinality(S \ {k}) = Cardinality(S) - 1
    BY <1>1, FS_RemoveElement
  <2>2. Cardinality(S \ {k}) \in Nat
    BY <1>1, FS_Subset, FS_CardinalityType
  <2> QED BY <2>1, <2>2
<1>4. ASSUME NEW k, k \notin S PROVE Cardinality(S \cup {k}) = Cardinality(S) + 1
  BY <1>1, <1>4, FS_AddElement
<1> QED BY <1>2, <1>3, <1>4 DEF S

LEMMA CallKeeps ==
  ASSUME TreeInv, Call
  PROVE  TreeInv' /\ Linked' = Linked /\ op = NoOp /\ op' \in Request
<1>1. PICK U : Held(desc, tree, U, pc, op.key, at)
  BY DEF TreeInv
<1>2. /\ pc = "idle" /\ op = NoOp /\ op' \in Request /\ pc' = "search" /\ at' = tree.root
      /\ tree' = tree /\ desc' = desc
  BY DEF Call, TreeInv, Calling, Request
<1>3. Shape(desc, tree, U) /\ Balanced(tree, U) /\ tree.size = Cardinality(U[tree.root])
  BY <1>1, <1>2 DEF Held
<1>4. Searching(desc, tree, U, op'.key, tree.root)
  BY <1>3, SearchStarts
<1>5. tree.root \in Node
  BY <1>3 DEF Shape, TreeRecord
<1>6. Held(desc', tree', U, pc', op'.key, at')
  BY <1>2, <1>3, <1>4 DEF Held
<1>7. Calling'
  BY <1>2, <1>5 DEF Calling
<1>8. Linked' = Linked
  <2>1. Shape(desc, tree', U)
    BY <1>2, <1>3
  <2> QED BY <1>2, <1>3, <2>1, LinkedIs, LinkedNext
<1> QED BY <1>2, <1>6, <1>7, <1>8 DEF TreeInv

LEMMA DescendKeeps ==
  ASSUME TreeInv, Descend
  PROVE  TreeInv' /\ Linked' = Linked /\ pc' = pc /\ op' = op
<1> DEFINE d == IF Before(op.key, at) THEN "left" ELSE "right"
<1>1. PICK U : Held(desc, tree, U, pc, op.key, at)
  BY DEF TreeInv
<1>2. /\ pc = "search" /\ pc' = pc /\ op' = op /\ tree' = tree /\ desc' = desc
      /\ at' = tree.child[d][at] /\ tree.child[d][at] # Nil
      /\ at # op.key /\ at \in Node /\ op.key \in Key /\ op \in Request
  BY DEF Descend, NotThere, Toward, TreeInv, Calling, Request
<1>3. /\ Shape(desc, tree, U) /\ Balanced(tree, U) /\ tree.size = Cardinality(U[tree.root])
      /\ Searching(desc, tree, U, op.key, at)
  BY <1>1, <1>2 DEF Held
<1>4. d \in Dir /\ desc \in BOOLEAN
  BY <1>3 DEF Dir, Shape
<1>5. at \in Key
  BY <1>2, <1>3, <1>4, Basics DEF Shape
<1>6. Side(desc, d, op.key, at)
  BY <1>2, <1>4, <1>5, BeforeSide
<1>7. tree.child[d][at] \in Node
  BY <1>3, <1>4, <1>5, Halves
<1> HIDE DEF d
<1>8. Searching(desc, tree, U, op.key, tree.child[d][at])
  BY <1>2, <1>3, <1>4, <1>5, <1>6, SearchDescends
<1>9. Held(desc', tree', U, pc', op'.key, at')
  BY <1>2, <1>3, <1>8 DEF Held
<1>10. Calling'
  BY <1>2, <1>7 DEF Calling
<1>11. Linked' = Linked
  <2>1. Shape(desc, tree', U)
    BY <1>2, <1>3
  <2> QED BY <1>2, <1>3, <2>1, LinkedIs, LinkedNext
<1> QED BY <1>2, <1>9, <1>10, <1>11 DEF TreeInv

\* A search that ends without its key has found where the key belongs.
LEMMA NotThereIs ==
  ASSUME Calling, pc = "search", NotThere, NEW U, Shape(desc, tree, U),
         Searching(desc, tree, U, op.key, at)
  PROVE  /\ op.key \notin U[tree.root]
         /\ Ready(desc, tree, U, op.key, at, IF Before(op.key, at) THEN "left" ELSE "right")
<1> DEFINE d == IF Before(op.key, at) THEN "left" ELSE "right"
<1>1. /\ op.key # at /\ tree.child[d][at] = Nil
      /\ at \in Node /\ op.key \in Key /\ Node = Key \cup {Nil} /\ desc \in BOOLEAN
  BY Basics DEF NotThere, Toward, Calling, Request, Shape
<1>2. d \in Dir
  BY DEF Dir
<1>3. at # Nil => Side(desc, d, op.key, at) /\ tree.child[d][at] = Nil
  BY <1>1, BeforeSide
<1>4. d = IF Before(op.key, at) THEN "left" ELSE "right"
  OBVIOUS
<1> HIDE DEF d
<1>5. op.key \notin U[tree.root] /\ Ready(desc, tree, U, op.key, at, d)
  BY <1>1, <1>2, <1>3, SearchLands
<1> QED BY <1>4, <1>5

LEMMA NothingToDoKeeps ==
  ASSUME TreeInv, NothingToDo
  PROVE  /\ TreeInv' /\ Linked' = Linked /\ pc = "search" /\ op \in Request
         /\ op' = NoOp /\ pc' = "idle"
         /\ op.kind = "insert" => op.key \in Linked
         /\ op.kind # "insert" => op.key \notin Linked
<1>1. PICK U : Held(desc, tree, U, pc, op.key, at)
  BY DEF TreeInv
<1>2. /\ pc = "search" /\ pc' = "idle" /\ op' = NoOp /\ tree' = tree /\ desc' = desc
      /\ at' = at /\ at \in Node /\ op.key \in Key /\ op \in Request
      /\ op.kind = "insert" => at = op.key
      /\ op.kind # "insert" => NotThere
      /\ Calling
  BY DEF NothingToDo, TreeInv, Calling, Request
<1>3. /\ Shape(desc, tree, U) /\ Balanced(tree, U) /\ tree.size = Cardinality(U[tree.root])
      /\ Searching(desc, tree, U, op.key, at)
  BY <1>1, <1>2 DEF Held
<1>4. Held(desc', tree', U, pc', op'.key, at')
  BY <1>2, <1>3 DEF Held
<1>5. Calling'
  BY <1>2 DEF Calling
<1>6. Linked' = Linked /\ Linked = U[tree.root]
  <2>1. Shape(desc, tree', U)
    BY <1>2, <1>3
  <2> QED BY <1>2, <1>3, <2>1, LinkedIs, LinkedNext
<1>7. op.kind = "insert" => op.key \in Linked
  BY <1>2, <1>3, <1>6, Basics DEF Searching
<1>8. op.kind # "insert" => op.key \notin Linked
  BY <1>2, <1>3, <1>6, NotThereIs
<1> QED BY <1>2, <1>4, <1>5, <1>6, <1>7, <1>8 DEF TreeInv

LEMMA LinkKeeps ==
  ASSUME TreeInv, Link
  PROVE  /\ TreeInv' /\ Linked' = Linked \cup {op.key} /\ pc = "search" /\ op \in Request
         /\ op.kind = "insert" /\ op' = op /\ pc' = "insertFixup"
<1> DEFINE d == IF Before(op.key, at) THEN "left" ELSE "right"
           k == op.key
<1>1. PICK U : Held(desc, tree, U, pc, op.key, at)
  BY DEF TreeInv
<1>2. /\ pc = "search" /\ pc' = "insertFixup" /\ op' = op /\ desc' = desc /\ at' = k
      /\ tree' = Hung(k, at, d) /\ op.kind = "insert" /\ NotThere
      /\ Calling /\ at \in Node /\ k \in Key /\ op \in Request
  BY DEF Link, TreeInv, Calling, Request
<1>3. /\ Shape(desc, tree, U) /\ Balanced(tree, U) /\ tree.size = Cardinality(U[tree.root])
      /\ Searching(desc, tree, U, op.key, at)
  BY <1>1, <1>2 DEF Held
<1>4. k \notin U[tree.root] /\ Ready(desc, tree, U, k, at, d)
  BY <1>2, <1>3, NotThereIs
<1>5. d \in Dir /\ tree \in TreeRecord
  BY <1>3 DEF Dir, Shape
<1> HIDE DEF d, k
<1>6. Grown(tree, k, at, d, tree')
  BY <1>2, <1>5, HungGrows
<1> DEFINE V == Grafted(U, k, at)
<1>7. Shape(desc, tree', V) /\ V[tree'.root] = U[tree.root] \cup {k}
  BY <1>4, <1>6, GrowKeepsShape
<1>8. PICK B : Heights(tree, B, Nil, "left")
  BY <1>3 DEF Balanced
<1>9. Heights(tree', [B EXCEPT ![k] = 0], Nil, "left")
  BY <1>4, <1>6, <1>8, GrowKeepsHeights
<1>10. Reds(tree', V, k, FALSE) /\ k \in V[tree'.root] /\ k \in tree'.red
  BY <1>3, <1>4, <1>6, GrowKeepsReds DEF Balanced
<1> HIDE DEF V
<1>11. tree'.size = Cardinality(V[tree'.root])
  <2>1. tree'.size = tree.size + 1
    BY <1>6 DEF Grown
  <2>2. Cardinality(U[tree.root] \cup {k}) = Cardinality(U[tree.root]) + 1
    BY <1>3, <1>4, NodeCounts
  <2> QED BY <1>3, <1>7, <2>1, <2>2
<1>12. Clashing(tree', V, k)
  BY <1>9, <1>10 DEF Clashing
<1>13. Held(desc', tree', V, pc', op'.key, at')
  BY <1>2, <1>7, <1>11, <1>12 DEF Held
<1>14. Calling'
  BY <1>2, Basics DEF Calling
<1>15. Linked' = Linked \cup {k}
  BY <1>3, <1>7, LinkedIs, LinkedNext
<1> QED BY <1>2, <1>13, <1>14, <1>15 DEF TreeInv, k

LEMMA InsertFixupKeeps ==
  ASSUME TreeInv, InsertFixup
  PROVE  TreeInv' /\ Linked' = Linked /\ op' = op /\ pc' = pc /\ pc = "insertFixup"
<1> DEFINE u == InsertRound(tree, at).tree
           m == InsertRound(tree, at).at
<1>1. PICK U : Held(desc, tree, U, pc, op.key, at)
  BY DEF TreeInv
<1>2. /\ pc = "insertFixup" /\ pc' = pc /\ op' = op /\ desc' = desc
      /\ tree' = u /\ at' = m /\ tree.parent[at] \in tree.red
      /\ Calling /\ op \in Request
  BY DEF InsertFixup, TreeInv, Calling
<1> HIDE DEF u, m
<1>3. /\ Shape(desc, tree, U) /\ Clashing(tree, U, at) /\ tree.size = Cardinality(U[tree.root])
  BY <1>1, <1>2 DEF Held
<1>4. PICK B : Conflict(desc, tree, U, B, at)
  BY <1>2, <1>3 DEF Clashing, Conflict
<1>5. Repaired(desc, tree, U, u, m)
  BY <1>4, InsertRounds DEF u, m
<1>6. PICK V, A : /\ Shape(desc, u, V) /\ V[u.root] = U[tree.root] /\ u.size = tree.size
                  /\ Heights(u, A, Nil, "left") /\ Reds(u, V, m, FALSE)
                  /\ m \in V[u.root] /\ m \in u.red
  BY <1>5 DEF Repaired
<1>7. Clashing(u, V, m)
  BY <1>6 DEF Clashing
<1>8. Held(desc', tree', V, pc', op'.key, at')
  BY <1>2, <1>3, <1>6, <1>7 DEF Held
<1>9. m \in Node
  BY <1>6, Basics DEF Shape, TreeRecord
<1>10. Calling'
  BY <1>2, <1>9 DEF Calling
<1>11. Linked' = Linked
  <2>1. Shape(desc, tree', V) /\ V[tree'.root] = U[tree.root]
    BY <1>2, <1>6
  <2> QED BY <1>3, <2>1, LinkedIs, LinkedNext
<1> QED BY <1>2, <1>8, <1>10, <1>11 DEF TreeInv

\* At the end of a repair the tree is painted, and whole.
LEMMA DoneKeeps ==
  ASSUME TreeInv, NEW U, Held(desc, tree, U, pc, op.key, at), NEW R \in SUBSET Key,
         tree' = Paint(tree, R), Balanced(Paint(tree, R), U),
         pc' = "idle", op' = NoOp, desc' = desc, at' = at
  PROVE  TreeInv' /\ Linked' = Linked
<1> DEFINE u == Paint(tree, R)
<1>1. Shape(desc, tree, U) /\ tree.size = Cardinality(U[tree.root])
  BY DEF Held
<1>2. Shape(desc, u, U) /\ u.root = tree.root /\ u.size = tree.size
  BY <1>1, Recoloured
<1>3. tree' = u /\ Balanced(u, U)
  OBVIOUS
<1> HIDE DEF u
<1>4. Held(desc', tree', U, pc', op'.key, at')
  BY <1>1, <1>2, <1>3 DEF Held
<1>5. Calling'
  BY DEF TreeInv, Calling
<1>6. Linked' = Linked
  <2>1. Shape(desc, tree', U) /\ U[tree'.root] = U[tree.root]
    BY <1>2, <1>3
  <2> QED BY <1>1, <2>1, LinkedIs, LinkedNext
<1> QED BY <1>4, <1>5, <1>6 DEF TreeInv

LEMMA InsertDoneKeeps ==
  ASSUME TreeInv, InsertDone
  PROVE  TreeInv' /\ Linked' = Linked /\ pc = "insertFixup" /\ op' = NoOp /\ pc' = "idle"
<1> DEFINE R == tree.red \ {tree.root}
<1>1. PICK U : Held(desc, tree, U, pc, op.key, at)
  BY DEF TreeInv
<1>2. /\ pc = "insertFixup" /\ pc' = "idle" /\ op' = NoOp /\ desc' = desc /\ at' = at
      /\ tree' = Paint(tree, R) /\ tree.parent[at] \notin tree.red
  BY DEF InsertDone, Paint
<1>3. Shape(desc, tree, U) /\ Clashing(tree, U, at)
  BY <1>1, <1>2 DEF Held
<1>4. PICK B : Heights(tree, B, Nil, "left")
  BY <1>3 DEF Clashing
<1>5. /\ tree.red \subseteq U[tree.root] /\ tree.red \subseteq Key /\ Nil \notin Key
      /\ \A n \in Key, f \in Dir :
           n \in tree.red /\ tree.child[f][n] \in tree.red => tree.child[f][n] = at
  BY <1>3, Basics DEF Clashing, Reds, Shape, TreeRecord
<1>6. ASSUME NEW n \in Key, NEW f \in Dir, n \in tree.red, tree.child[f][n] \in tree.red
      PROVE  FALSE
  <2>1. tree.child[f][n] = at /\ tree.child[f][n] # Nil
    BY <1>5, <1>6
  <2>2. tree.parent[at] = n
    BY <1>3, <2>1 DEF Shape
  <2> QED BY <1>2, <1>6, <2>2
<1>7. Balanced(Paint(tree, R), U)
  BY <1>3, <1>4, <1>5, <1>6, BlackRoot DEF Balanced
<1>8. R \in SUBSET Key
  BY <1>5
<1> HIDE DEF R
<1>9. TreeInv' /\ Linked' = Linked
  BY <1>1, <1>2, <1>7, <1>8, DoneKeeps
<1> QED BY <1>2, <1>9

LEMMA DeleteDoneKeeps ==
  ASSUME TreeInv, DeleteDone
  PROVE  TreeInv' /\ Linked' = Linked /\ pc = "deleteFixup" /\ op' = NoOp /\ pc' = "idle"
<1> DEFINE R == tree.red \ {at}
<1>1. PICK U : Held(desc, tree, U, pc, op.key, at)
  BY DEF TreeInv
<1>2. /\ pc = "deleteFixup" /\ pc' = "idle" /\ op' = NoOp /\ desc' = desc /\ at' = at
      /\ tree' = Paint(tree, R) /\ (at = tree.root \/ at \in tree.red)
  BY DEF DeleteDone, Paint
<1>3. PICK B, p, s : Lacking(desc, tree, U, B, at, p, s)
  BY <1>1, <1>2 DEF Held
<1>4. Shape(desc, tree, U) /\ Heights(tree, B, p, s) /\ Reds(tree, U, at, TRUE)
  BY <1>3 DEF Lacking
<1>5. tree.red \subseteq Key
  BY <1>4 DEF Shape, TreeRecord
<1>6. Balanced(Paint(tree, R), U)
  <2>1. CASE at = tree.root
    <3>1. p = Nil
      BY <1>3, <2>1 DEF Lacking
    <3>2. /\ tree.red \subseteq U[tree.root]
          /\ \A n \in Key, f \in Dir :
               n \in tree.red /\ tree.child[f][n] \in tree.red
                 => n = tree.root \/ tree.child[f][n] = tree.root
      BY <1>4, <2>1 DEF Reds
    <3> QED BY <1>4, <2>1, <3>1, <3>2, BlackRoot DEF Balanced
  <2>2. CASE at # tree.root
    <3>1. at \in tree.red
      BY <1>2, <2>2
    <3> QED BY <1>3, <2>2, <3>1, BlackNode DEF Balanced
  <2> QED BY <2>1, <2>2
<1>7. R \in SUBSET Key
  BY <1>5
<1> HIDE DEF R
<1>8. TreeInv' /\ Linked' = Linked
  BY <1>1, <1>2, <1>6, <1>7, DoneKeeps
<1> QED BY <1>2, <1>8

LEMMA DeleteFixupKeeps ==
  ASSUME TreeInv, DeleteFixup
  PROVE  TreeInv' /\ Linked' = Linked /\ op' = op /\ pc' = pc /\ pc = "deleteFixup"
<1> DEFINE u == DeleteRound(tree, at).tree
           m == DeleteRound(tree, at).at
<1>1. PICK U : Held(desc, tree, U, pc, op.key, at)
  BY DEF TreeInv
<1>2. /\ pc = "deleteFixup" /\ pc' = pc /\ op' = op /\ desc' = desc
      /\ tree' = u /\ at' = m /\ at # tree.root /\ at \notin tree.red
      /\ Calling /\ op \in Request
  BY DEF DeleteFixup, TreeInv, Calling
<1> HIDE DEF u, m
<1>3. Shape(desc, tree, U) /\ tree.size = Cardinality(U[tree.root])
  BY <1>1 DEF Held
<1>4. PICK B, p, s : Lacking(desc, tree, U, B, at, p, s)
  BY <1>1, <1>2 DEF Held
<1>5. Shaken(desc, tree, U, u, m)
  BY <1>2, <1>4, DeleteRounds DEF u, m
<1>6. u.size = tree.size
      /\ \E V, A, q, g : Lacking(desc, u, V, A, m, q, g) /\ V[u.root] = U[tree.root]
  BY <1>5 DEF Shaken
<1>7. PICK V, A, q, g : Lacking(desc, u, V, A, m, q, g) /\ V[u.root] = U[tree.root]
  BY <1>6
<1>8. Shape(desc, u, V)
  BY <1>7 DEF Lacking
<1>9. Held(desc', tree', V, pc', op'.key, at')
  BY <1>2, <1>3, <1>6, <1>7, <1>8 DEF Held
<1>10. m \in Node
  <2>1. CASE m = u.root
    BY <1>8, <2>1 DEF Shape, TreeRecord
  <2>2. CASE m # u.root
    <3>1. q \in V[u.root] /\ g \in Dir /\ u.child[g][q] = m
      BY <1>7, <2>2 DEF Lacking
    <3>2. q \in Key
      BY <1>8, <3>1, Parents
    <3> QED BY <1>8, <3>1, <3>2, Halves
  <2> QED BY <2>1, <2>2
<1>11. Calling'
  BY <1>2, <1>10 DEF Calling
<1>12. Linked' = Linked
  <2>1. Shape(desc, tree', V) /\ V[tree'.root] = U[tree.root]
    BY <1>2, <1>7, <1>8
  <2> QED BY <1>3, <2>1, LinkedIs, LinkedNext
<1> QED BY <1>2, <1>9, <1>11, <1>12 DEF TreeInv

LEMMA UnlinkKeeps ==
  ASSUME TreeInv, Unlink
  PROVE  /\ TreeInv' /\ Linked' = Linked \ {op.key} /\ pc = "search" /\ op \in Request
         /\ op.kind = "delete"
         /\ \/ op' = op /\ pc' = "deleteFixup"
            \/ op' = NoOp /\ pc' = "idle"
<1> DEFINE cut == Unlinked(tree, at)
           u == Forgotten(cut.tree, at)
           x == cut.at
           gone == cut.gone
           w == [u EXCEPT !.size = u.size - 1]
<1>1. PICK U : Held(desc, tree, U, pc, op.key, at)
  BY DEF TreeInv
<1>2. /\ pc = "search" /\ desc' = desc /\ at' = x /\ tree' = w
      /\ pc' = (IF gone \in tree.red THEN "idle" ELSE "deleteFixup")
      /\ op' = (IF gone \in tree.red THEN NoOp ELSE op)
      /\ op.kind = "delete" /\ at = op.key
  BY DEF Unlink
<1>3. Calling /\ op \in Request /\ at \in Key
  BY <1>2 DEF TreeInv, Calling, Request
<1>4. /\ Shape(desc, tree, U) /\ Balanced(tree, U) /\ tree.size = Cardinality(U[tree.root])
      /\ Searching(desc, tree, U, op.key, at)
  BY <1>1, <1>2 DEF Held
<1>5. at \in U[tree.root]
  BY <1>3, <1>4, Basics DEF Searching
<1>6. PICK B : Heights(tree, B, Nil, "left")
  BY <1>4 DEF Balanced
<1>7. Cut(desc, tree, U, at, u, x, gone)
  BY <1>4, <1>5, <1>6, Cuts DEF Balanced
<1> HIDE DEF u, x, gone
<1>8. PICK V :
        /\ Shape(desc, u, V) /\ V[u.root] = U[tree.root] \ {at} /\ u.size = tree.size
        /\ x \in Node
        /\ gone \in tree.red => Balanced(u, V)
        /\ gone \notin tree.red => \E A, p, s : Lacking(desc, u, V, A, x, p, s)
  BY <1>7 DEF Cut, Balanced
<1>9. /\ tree.size - 1 \in Nat
      /\ Cardinality(V[u.root]) = tree.size - 1
  BY <1>4, <1>5, <1>8, NodeCounts
<1>10. Resized(u, tree.size - 1, w)
  BY <1>8, <1>9, Resizes DEF Shape
<1> HIDE DEF w
<1>11. Shape(desc, w, V) /\ w.root = u.root /\ w.size = Cardinality(V[w.root])
  <2>1. Shape(desc, w, V)
    BY <1>8, <1>10, SizeAside
  <2> QED BY <1>9, <1>10, <2>1 DEF Resized
<1>12. gone \in tree.red => Balanced(w, V)
  BY <1>8, <1>10, SizeAside DEF Balanced
<1>13. gone \notin tree.red => \E A, p, s : Lacking(desc, w, V, A, x, p, s)
  BY <1>8, <1>10, SizeAside
<1>14. Held(desc', tree', V, pc', op'.key, at')
  BY <1>2, <1>11, <1>12, <1>13 DEF Held
<1>15. Calling'
  BY <1>2, <1>3, <1>8 DEF Calling
<1>16. Linked' = Linked \ {op.key}
  <2>1. Shape(desc, tree', V) /\ V[tree'.root] = U[tree.root] \ {op.key}
    BY <1>2, <1>8, <1>11
  <2> QED BY <1>4, <2>1, LinkedIs, LinkedNext
<1> QED BY <1>2, <1>3, <1>14, <1>15, <1>16 DEF TreeInv

\* The empty tree.
LEMMA FirstTree ==
  ASSUME Init
  PROVE  TreeInv /\ Linked = {}
<1> DEFINE U == [n \in Node |-> IF n = Nil THEN {} ELSE {n}]
           B == [n \in Node |-> IF n = Nil THEN 0 ELSE 1]
<1>1. /\ tree.root = Nil /\ tree.red = {} /\ tree.size = 0
      /\ \A d \in Dir, n \in Node : tree.child[d][n] = Nil
      /\ tree \in TreeRecord
      /\ desc \in BOOLEAN /\ op = NoOp /\ pc = "idle" /\ at = Nil
  BY Basics DEF Init, EmptyTree, TreeRecord
<1>2. /\ Node = Key \cup {Nil} /\ Nil \notin Key
      /\ "left" \in Dir /\ "right" \in Dir
  BY Basics
<1>3. /\ U \in [Node -> SUBSET Key] /\ U[Nil] = {} /\ \A n \in Key : U[n] = {n}
  BY <1>2
<1>4. /\ B \in [Node -> Nat] /\ B[Nil] = 0 /\ \A n \in Key : B[n] = 1
  BY <1>2
<1> HIDE DEF U, B
<1>5. Shape(desc, tree, U)
  BY <1>1, <1>2, <1>3 DEF Shape, Spans
<1>6. tree.size = Cardinality(U[tree.root])
  BY <1>1, <1>3, FS_EmptySet
<1>7. Heights(tree, B, Nil, "left")
  BY <1>1, <1>2, <1>4 DEF Heights, HeightAt, Gap, Black
<1>8. Reds(tree, U, Nil, FALSE)
  BY <1>1 DEF Reds
<1>9. Held(desc, tree, U, pc, op.key, at)
  BY <1>1, <1>5, <1>6, <1>7, <1>8 DEF Held, Balanced
<1>10. Calling
  BY <1>1, <1>2 DEF Calling
<1>11. Linked = {}
  BY <1>1, <1>3, <1>5, LinkedIs
<1> QED BY <1>9, <1>10, <1>11 DEF TreeInv

LEMMA TreeStep ==
  ASSUME TreeInv, [Next]_vars
  PROVE  TreeInv'
<1>1. CASE UNCHANGED vars
  BY <1>1 DEF vars, TreeInv, Calling
<1>2. CASE Call \/ Descend \/ NothingToDo
  BY <1>2, CallKeeps, DescendKeeps, NothingToDoKeeps
<1>3. CASE Link \/ InsertFixup \/ InsertDone
  BY <1>3, LinkKeeps, InsertFixupKeeps, InsertDoneKeeps
<1>4. CASE Unlink \/ DeleteFixup \/ DeleteDone
  BY <1>4, UnlinkKeeps, DeleteFixupKeeps, DeleteDoneKeeps
<1> QED BY <1>1, <1>2, <1>3, <1>4 DEF Next, Work

LEMMA AlwaysTreeInv == Spec => []TreeInv
BY FirstTree, TreeStep, PTL DEF Spec

-----------------------------------------------------------------------------
(* The theorems.                                                           *)

\* The variables keep their types.
THEOREM TreeTypes == Spec => []TypeOK
<1>1. TreeInv => TypeOK
  <2> SUFFICES ASSUME TreeInv PROVE TypeOK
    OBVIOUS
  <2>1. PICK U : Held(desc, tree, U, pc, op.key, at)
    BY DEF TreeInv
  <2>2. Shape(desc, tree, U)
    BY <2>1 DEF Held
  <2> QED BY <2>2, Basics DEF TypeOK, TreeInv, Calling, Shape, TreeRecord
<1> QED BY <1>1, AlwaysTreeInv, PTL

\* At every moment, also between the rounds of a repair, what hangs to the left
\* of a node comes before it and what hangs to the right comes after it.
THEOREM TreeIsOrdered == Spec => []KeysAreOrdered
<1>1. TreeInv => KeysAreOrdered
  <2> SUFFICES ASSUME TreeInv, NEW n \in Linked
               PROVE  /\ \A j \in Under(tree.child["left"][n]) : Before(j, n)
                      /\ \A j \in Under(tree.child["right"][n]) : Before(n, j)
    BY DEF KeysAreOrdered
  <2>1. PICK U : Held(desc, tree, U, pc, op.key, at)
    BY DEF TreeInv
  <2>2. Shape(desc, tree, U) /\ desc \in BOOLEAN
    BY <2>1 DEF Held, Shape
  <2>3. Linked = U[tree.root] /\ \A m \in Node : Under(m) = U[m]
    BY <2>2, LinkedIs
  <2>4. n \in Key
    BY <2>2, <2>3, Parents
  <2>5. ASSUME NEW d \in Dir
        PROVE  /\ tree.child[d][n] \in Node /\ U[tree.child[d][n]] \subseteq Key
               /\ \A j \in U[tree.child[d][n]] : Side(desc, d, j, n)
    <3>1. tree.child[d][n] \in Node /\ U[tree.child[d][n]] \subseteq Key
      BY <2>2, <2>4, Halves
    <3>2. \A j \in U[tree.child[d][n]] : Side(desc, d, j, n)
      BY <2>2, <2>4 DEF Shape
    <3> QED BY <3>1, <3>2
  <2>6. "left" \in Dir /\ "right" \in Dir /\ Other("right") = "left"
    BY DEF Dir, Other
  <2>7. ASSUME NEW j \in Under(tree.child["left"][n]) PROVE Before(j, n)
    <3>1. j \in Key /\ Side(desc, "left", j, n)
      BY <2>3, <2>5, <2>6
    <3> QED BY <2>2, <2>4, <3>1, BeforeSide
  <2>8. ASSUME NEW j \in Under(tree.child["right"][n]) PROVE Before(n, j)
    <3>1. j \in Key /\ Side(desc, "right", j, n)
      BY <2>3, <2>5, <2>6
    <3>2. Side(desc, "left", n, j)
      BY <2>2, <2>4, <2>6, <3>1, SideOrder
    <3> QED BY <2>2, <2>4, <3>1, <3>2, BeforeSide
  <2> QED BY <2>7, <2>8
<1> QED BY <1>1, AlwaysTreeInv, PTL

\* At every moment a node's parent is the node it hangs from, and the sentinel
\* stays black and childless.
THEOREM LinksAlwaysAgree == Spec => []LinksAgree
<1>1. TreeInv => LinksAgree
  <2> SUFFICES ASSUME TreeInv PROVE LinksAgree
    OBVIOUS
  <2>1. PICK U : Held(desc, tree, U, pc, op.key, at)
    BY DEF TreeInv
  <2>2. Shape(desc, tree, U)
    BY <2>1 DEF Held
  <2>3. Linked = U[tree.root]
    BY <2>2, LinkedIs
  <2>4. \A n \in Linked : n \in Key
    BY <2>2, <2>3, Parents
  <2>5. Nil \notin tree.red
    BY <2>2, Basics DEF Shape, TreeRecord
  <2> QED BY <2>2, <2>4, <2>5 DEF LinksAgree, Shape
<1> QED BY <1>1, AlwaysTreeInv, PTL

\* Between calls no red node has a red child and the root is black.
THEOREM NeverARedPair == Spec => []NoRedPair
<1>1. TreeInv => NoRedPair
  <2> SUFFICES ASSUME TreeInv, Idle PROVE NoRedPair
    BY DEF NoRedPair
  <2>1. PICK U : Held(desc, tree, U, pc, op.key, at)
    BY DEF TreeInv
  <2>2. Shape(desc, tree, U) /\ Reds(tree, U, Nil, FALSE)
    BY <2>1 DEF Held, Balanced, Idle
  <2>3. Linked = U[tree.root]
    BY <2>2, LinkedIs
  <2>4. tree.red \subseteq Key /\ Nil \notin Key
    BY <2>2, Basics DEF Shape, TreeRecord
  <2> QED BY <2>2, <2>3, <2>4 DEF NoRedPair, Reds
<1> QED BY <1>1, AlwaysTreeInv, PTL

\* Between calls every path down has the same number of black nodes.
THEOREM AlwaysBalanced == Spec => []BlackBalanced
<1>1. TreeInv => BlackBalanced
  <2> SUFFICES ASSUME TreeInv, Idle PROVE BlackBalanced
    BY DEF BlackBalanced
  <2>1. PICK U : Held(desc, tree, U, pc, op.key, at)
    BY DEF TreeInv
  <2>2. PICK B : Shape(desc, tree, U) /\ Heights(tree, B, Nil, "left")
    BY <2>1 DEF Held, Balanced, Idle
  <2>3. PathCounts(Key \ tree.red) = {B[tree.root]}
    BY <2>2, CountsAre
  <2> QED BY <2>3, FS_Singleton DEF BlackBalanced
<1> QED BY <1>1, AlwaysTreeInv, PTL

\* Between calls Min and Max are the lowest and the highest price in the tree,
\* whichever way it is sorted, and Size counts the levels.
THEOREM QueriesAlwaysRight == Spec => []QueriesAreRight
<1>1. TreeInv => QueriesAreRight
  <2> SUFFICES ASSUME TreeInv, Idle PROVE QueriesAreRight
    BY DEF QueriesAreRight
  <2>1. PICK U : Held(desc, tree, U, pc, op.key, at)
    BY DEF TreeInv
  <2>2. Shape(desc, tree, U) /\ tree.size = Cardinality(U[tree.root])
    BY <2>1 DEF Held
  <2>3. Linked = U[tree.root]
    BY <2>2, LinkedIs
  <2>4. /\ "left" \in Dir /\ "right" \in Dir /\ desc \in BOOLEAN
        /\ Other("left") = "right" /\ Other("right") = "left"
        /\ Node = Key \cup {Nil} /\ tree.root \in Node /\ U[Nil] = {} /\ Key \subseteq Int
    BY <2>2, Basics DEF Other, Shape, TreeRecord, Spans
  <2> DEFINE lo == IF desc THEN "right" ELSE "left"
             hi == IF desc THEN "left" ELSE "right"
  <2>5. Min = Walk(tree, lo)[tree.root] /\ Max = Walk(tree, hi)[tree.root]
    BY DEF Min, Max
  <2>6. lo \in Dir /\ hi \in Dir
    BY <2>4
  <2>7. CASE tree.root = Nil
    <3>1. Walk(tree, lo)[Nil] = Nil /\ Walk(tree, hi)[Nil] = Nil
      BY <2>2, <2>6, WalkEnds
    <3>2. Linked = {}
      BY <2>3, <2>4, <2>7
    <3> QED BY <2>2, <2>3, <2>5, <2>7, <3>1, <3>2 DEF QueriesAreRight
  <2>8. CASE tree.root # Nil
    <3>1. tree.root \in Key
      BY <2>4, <2>8
    <3>2. Ends(desc, U, lo, tree.root, Min) /\ Ends(desc, U, hi, tree.root, Max)
      BY <2>2, <2>5, <2>6, <3>1, WalkEnds
    <3>3. /\ Min \in Linked /\ \A j \in Linked : j = Min \/ Side(desc, Other(lo), j, Min)
          /\ Max \in Linked /\ \A j \in Linked : j = Max \/ Side(desc, Other(hi), j, Max)
      BY <2>3, <3>2 DEF Ends
    <3>4. \A j \in Linked : j \in Int
      BY <2>2, <2>3, <2>4, Parents
    <3>5. \A j \in Linked : Min <= j /\ j <= Max
      <4> HIDE DEF Min, Max
      <4>1. CASE desc
        <5>1. desc = TRUE
          BY <2>4, <4>1
        <5>2. Other(lo) = "left" /\ Other(hi) = "right"
          BY <2>4, <4>1
        <5> HIDE DEF lo, hi
        <5>3. ASSUME NEW j \in Linked PROVE Min <= j /\ j <= Max
          <6>1. j = Min \/ Side(TRUE, "left", j, Min)
            BY <3>3, <5>1, <5>2
          <6>2. j = Max \/ Side(TRUE, "right", j, Max)
            BY <3>3, <5>1, <5>2
          <6>3. j = Min \/ j > Min
            BY <6>1 DEF Side
          <6>4. j = Max \/ j < Max
            BY <2>4, <6>2 DEF Side
          <6> QED BY <3>3, <3>4, <6>3, <6>4
        <5> QED BY <5>3
      <4>2. CASE ~desc
        BY <2>4, <3>3, <3>4, <4>2 DEF Side
      <4> QED BY <4>1, <4>2
    <3> QED BY <2>2, <2>3, <3>3, <3>5 DEF QueriesAreRight
  <2> QED BY <2>7, <2>8
<1> QED BY <1>1, AlwaysTreeInv, PTL

\* Every step of a call asks or answers a request of SortedKeys, or stutters.
LEMMA StepsOfKeys ==
  ASSUME TreeInv, [Next]_vars
  PROVE  [Keys!Ask \/ Keys!Answer]_<<Linked, IF pc = "search" THEN op ELSE NoOp>>
<1> DEFINE req == IF pc = "search" THEN op ELSE NoOp
<1>1. Keys!NoRequest = NoOp /\ Keys!Request = Request
  BY DEF Keys!NoRequest, NoOp, Nil, Keys!Request, Request, Keys!Key, Key
<1>2. op \in Request => op # NoOp
  BY DEF Request, NoOp
<1>3. CASE UNCHANGED vars
  <2>1. Linked' = Linked
    BY <1>3 DEF vars, Linked, Under
  <2> QED BY <1>3, <2>1 DEF vars
<1>4. CASE Call
  <2>1. Linked' = Linked /\ op = NoOp /\ op' \in Request /\ pc' = "search"
    BY <1>4, CallKeeps DEF Call
  <2> QED BY <1>1, <2>1 DEF Keys!Ask
<1>5. CASE Descend \/ InsertFixup \/ DeleteFixup
  <2>1. Linked' = Linked /\ op' = op /\ pc' = pc
    BY <1>5, DescendKeeps, InsertFixupKeeps, DeleteFixupKeeps
  <2> QED BY <2>1
<1>6. CASE InsertDone \/ DeleteDone
  <2>1. Linked' = Linked /\ pc # "search" /\ pc' # "search"
    BY <1>6, InsertDoneKeeps, DeleteDoneKeeps
  <2> QED BY <2>1
<1>7. CASE NothingToDo
  <2>1. /\ Linked' = Linked /\ pc = "search" /\ op \in Request /\ pc' = "idle"
        /\ op.kind = "insert" => op.key \in Linked
        /\ op.kind # "insert" => op.key \notin Linked
    BY <1>7, NothingToDoKeeps
  <2> QED BY <1>1, <1>2, <2>1 DEF Keys!Answer
<1>8. CASE Link
  <2>1. /\ Linked' = Linked \cup {op.key} /\ pc = "search" /\ op \in Request
        /\ op.kind = "insert" /\ pc' = "insertFixup"
    BY <1>8, LinkKeeps
  <2> QED BY <1>1, <1>2, <2>1 DEF Keys!Answer
<1>9. CASE Unlink
  <2>1. /\ Linked' = Linked \ {op.key} /\ pc = "search" /\ op \in Request
        /\ op.kind = "delete" /\ pc' # "search"
    BY <1>9, UnlinkKeeps
  <2> QED BY <1>1, <1>2, <2>1 DEF Keys!Answer
<1> QED BY <1>3, <1>4, <1>5, <1>6, <1>7, <1>8, <1>9 DEF Next, Work

\* The tree implements a set of keys: a call takes effect in the step that links
\* or unlinks its node, and no repair loses or brings back another one.
THEOREM TreeImplementsKeys == Spec => ImplementsSortedKeys
<1>1. Init => Keys!KeysInit
  BY FirstTree DEF Init, Keys!KeysInit, Keys!NoRequest, NoOp, Nil
<1> QED BY <1>1, AlwaysTreeInv, StepsOfKeys, PTL DEF Spec, ImplementsSortedKeys, Keys!KeysSpec

-----------------------------------------------------------------------------
(* Every call ends.                                                        *)

\* The nodes from the parent of n up to the root.
Above(t, U, n) == {m \in U[t.root] : t.parent[n] \in U[m]}

\* The rank of a call that stands at a in loop c.
RankIn(t, U, c, a) ==
  CASE c = "search"      -> 2 * MaxKey + Cardinality(U[a])
    [] c = "insertFixup" -> IF t.parent[a] \in t.red THEN 2 + Cardinality(Above(t, U, a))
                            ELSE 1
    [] c = "deleteFixup" -> IF a = t.root \/ a \in t.red THEN 1
                            ELSE 2 + Cardinality(Above(t, U, a))
    [] OTHER             -> 0

LEMMA RankIs ==
  ASSUME NEW r, NEW U, Shape(r, tree, U), at \in Node
  PROVE  Rank = RankIn(tree, U, pc, at)
<1>1. Linked = U[tree.root] /\ \A n \in Node : Under(n) = U[n]
  BY LinkedIs
<1>2. U[tree.root] \subseteq Node
  BY Basics DEF Shape, Spans, TreeRecord
<1>3. {m \in Linked : tree.parent[at] \in Under(m)} = Above(tree, U, at)
  BY <1>1, <1>2 DEF Above
<1>4. Depth(at) = Cardinality(Above(tree, U, at))
  BY <1>3 DEF Depth
<1> QED BY <1>1, <1>4, Zenon DEF Rank, RankIn

LEMMA RankNext ==
  ASSUME NEW r, NEW U, Shape(r, tree', U), at' \in Node
  PROVE  Rank' = RankIn(tree', U, pc', at')
<1> DEFINE above == {m \in UnderOf(tree', tree'.root) : tree'.parent[at'] \in UnderOf(tree', m)}
<1>1. Rank' = CASE pc' = "search"      -> 2 * MaxKey + Cardinality(UnderOf(tree', at'))
                [] pc' = "insertFixup" -> IF tree'.parent[at'] \in tree'.red
                                            THEN 2 + Cardinality(above) ELSE 1
                [] pc' = "deleteFixup" -> IF at' = tree'.root \/ at' \in tree'.red THEN 1
                                          ELSE 2 + Cardinality(above)
                [] OTHER               -> 0
  BY Zenon DEF Rank, Depth, Linked, Under, UnderOf
<1>2. \A n \in Node : UnderOf(tree', n) = U[n]
  BY UnderIs
<1>3. tree'.root \in Node /\ U[tree'.root] \subseteq Node
  BY Basics DEF Shape, Spans, TreeRecord
<1>4. above = Above(tree', U, at')
  BY <1>2, <1>3 DEF Above
<1> HIDE DEF above
<1> QED BY <1>1, <1>2, <1>4, Zenon DEF RankIn

\* The numbers a rank is made of.
LEMMA RankParts ==
  ASSUME NEW r, NEW t, NEW U, Shape(r, t, U), NEW a \in Node
  PROVE  /\ Cardinality(Above(t, U, a)) \in Nat
         /\ Cardinality(Above(t, U, a)) <= Cardinality(U[t.root])
         /\ Cardinality(U[a]) \in Nat /\ Cardinality(U[t.root]) \in Nat
         /\ Cardinality(U[a]) <= MaxKey
         /\ a \in Key => Cardinality(U[a]) > 0
<1>1. \A n \in Node : U[n] \subseteq Key /\ t.root \in Node
  BY DEF Shape, Spans, TreeRecord
<1>2. IsFiniteSet(Key) /\ Cardinality(Key) = MaxKey
  BY MaxKeyAssumption, FS_Interval DEF Key
<1>3. \A n \in Node : /\ IsFiniteSet(U[n]) /\ Cardinality(U[n]) \in Nat
                      /\ Cardinality(U[n]) <= MaxKey
  BY <1>1, <1>2, FS_Subset, FS_CardinalityType
<1>4. Above(t, U, a) \subseteq U[t.root]
  BY DEF Above
<1>5. IsFiniteSet(Above(t, U, a)) /\ Cardinality(Above(t, U, a)) <= Cardinality(U[t.root])
  BY <1>1, <1>3, <1>4, FS_Subset
<1>6. Cardinality(Above(t, U, a)) \in Nat
  BY <1>5, FS_CardinalityType
<1>7. ASSUME a \in Key PROVE Cardinality(U[a]) > 0
  <2>1. a \in U[a]
    BY <1>7 DEF Shape, Spans
  <2>2. Cardinality(U[a]) # 0
    BY <1>3, <2>1, FS_EmptySet
  <2> QED BY <1>3, <2>2
<1> QED BY <1>1, <1>3, <1>5, <1>6, <1>7

\* There are fewer nodes above the parent.
LEMMA AboveShrinks ==
  ASSUME NEW r, NEW t, NEW U, Shape(r, t, U), NEW a \in Node, NEW p \in U[t.root],
         t.parent[a] = p
  PROVE  Cardinality(Above(t, U, p)) < Cardinality(Above(t, U, a))
<1>1. p \in Key /\ t.root \in Node
  BY Parents DEF Shape, TreeRecord
<1>2. p \in U[p]
  BY <1>1 DEF Shape, Spans
<1>3. p \in Above(t, U, a)
  BY <1>2 DEF Above
<1>4. Above(t, U, p) \subseteq Above(t, U, a)
  <2> SUFFICES ASSUME NEW m \in U[t.root], t.parent[p] \in U[m] PROVE p \in U[m]
    BY DEF Above
  <2>1. m \in Key /\ t.parent[p] \in Key
    BY <1>1, Nested, Basics
  <2>2. p # t.root
    BY <2>1, Parents, Basics
  <2>3. t.parent[p] \in Key /\ SideOf(t, p) \in Dir /\ t.child[SideOf(t, p)][t.parent[p]] = p
    BY <2>2, Parents
  <2>4. U[p] \subseteq U[t.parent[p]]
    BY <2>3, Halves
  <2>5. U[t.parent[p]] \subseteq U[m]
    BY <2>1, Nested, Basics
  <2> QED BY <1>2, <2>4, <2>5
<1>5. t.parent[p] \notin U[p]
  <2> SUFFICES ASSUME t.parent[p] \in U[p] PROVE FALSE
    OBVIOUS
  <2>1. t.parent[p] \in Key
    BY <1>1, Nested, Basics
  <2>2. p # t.root
    BY <2>1, Parents, Basics
  <2>3. t.parent[p] \in Key /\ SideOf(t, p) \in Dir /\ t.child[SideOf(t, p)][t.parent[p]] = p
    BY <2>2, Parents
  <2> QED BY <2>3, Halves
<1>6. p \notin Above(t, U, p)
  BY <1>5 DEF Above
<1>7. IsFiniteSet(Above(t, U, a))
  <2>1. Above(t, U, a) \subseteq Key
    BY <1>1 DEF Above, Shape, Spans
  <2> QED BY <2>1, Basics, FS_Subset
<1>8. /\ Cardinality(Above(t, U, p)) <= Cardinality(Above(t, U, a))
      /\ Cardinality(Above(t, U, p)) # Cardinality(Above(t, U, a))
  BY <1>3, <1>4, <1>6, <1>7, FS_Subset
<1>9. Cardinality(Above(t, U, p)) \in Nat /\ Cardinality(Above(t, U, a)) \in Nat
  BY <1>1, RankParts, Basics
<1> QED BY <1>8, <1>9

\* A round of deleteFixup only paints and goes on at p, or is the last one.
LEMMA DeleteOnward ==
  ASSUME NEW r, NEW t, NEW U, NEW B, NEW x, NEW p, NEW s, Lacking(r, t, U, B, x, p, s),
         x # t.root, x \notin t.red
  PROVE  LET round == DeleteRound(t, x)
         IN  \/ Onward(t, p, round.tree, round.at)
             \/ round.at = round.tree.root
             \/ round.at \in round.tree.red
<1> DEFINE d == SideOf(t, x)
           w == t.child[Other(d)][p]
           R == (t.red \ {w}) \cup {p}
           v == Rotate(Paint(t, R), p, d)
<1>1. /\ Shape(r, t, U) /\ p \in U[t.root] /\ t.parent[x] = p
      /\ t.red \subseteq U[t.root]
  BY DEF Lacking, Reds
<1>2. p \in Key /\ t.red \subseteq Key /\ d \in Dir
  BY <1>1, Parents DEF Shape, TreeRecord, SideOf, Dir
<1>3. DeleteRound(t, x) = IF w \in t.red THEN SiblingRound(v, p, d) ELSE SiblingRound(t, p, d)
  BY <1>1 DEF DeleteRound
<1>4. ASSUME NEW u
      PROVE  \/ SiblingRound(u, p, d).at = SiblingRound(u, p, d).tree.root
             \/ /\ SiblingRound(u, p, d).tree = Paint(u, u.red \cup {u.child[Other(d)][p]})
                /\ SiblingRound(u, p, d).at = p
  <2> DEFINE e == Other(d)
             h == u.child[e][p]
             near == u.child[d][h]
             far == u.child[e][h]
             turned == IF far \in u.red THEN u
                       ELSE Rotate(Paint(u, (u.red \ {near}) \cup {h}), h, e)
             z == turned.child[e][p]
             others == turned.red \ {z, p, turned.child[e][z]}
             reds == IF p \in turned.red THEN others \cup {z} ELSE others
             done == Rotate(Paint(turned, reds), p, d)
  <2>1. SiblingRound(u, p, d) =
          IF {near, far} \cap u.red = {} THEN [tree |-> Paint(u, u.red \cup {h}), at |-> p]
          ELSE [tree |-> done, at |-> done.root]
    BY Zenon DEF SiblingRound
  <2>2. h = u.child[Other(d)][p]
    OBVIOUS
  <2> HIDE DEF done, near, far, h
  <2> QED BY <2>1, <2>2
<1>5. CASE w \in t.red
  <2>1. p \in v.red /\ v \in TreeRecord
    <3> DEFINE c == Paint(t, R)
    <3>1. R \in SUBSET Key /\ p \in R
      BY <1>2
    <3>2. Shape(r, c, U) /\ c.root = t.root /\ c.child = t.child /\ c.red = R
      <4> HIDE DEF R
      <4> QED BY <1>1, <3>1, Recoloured
    <3>3. c.child[Other(d)][p] # Nil
      BY <1>2, <1>5, <3>2, Basics
    <3> HIDE DEF c
    <3>4. Rotated(c, p, d, c.child[Other(d)][p], Rotate(c, p, d))
      BY <1>1, <1>2, <3>2, <3>3, RotateFields
    <3> QED BY <3>1, <3>2, <3>4 DEF Rotated, c
  <2> HIDE DEF v, w
  <2>2. \/ SiblingRound(v, p, d).at = SiblingRound(v, p, d).tree.root
        \/ SiblingRound(v, p, d).at \in SiblingRound(v, p, d).tree.red
    <3>1. \A S : p \in Paint(v, v.red \cup S).red
      BY <2>1 DEF Paint, TreeRecord
    <3> QED BY <1>4, <3>1
  <2> QED BY <1>3, <1>5, <2>2
<1>6. CASE w \notin t.red
  <2>1. Short(r, t, U, B, p, s) /\ d = s
    <3>1. Dir = {"left", "right"} /\ "left" # "right" /\ s \in Dir
      BY Basics DEF Lacking
    <3>2. t.child[s][p] = x /\ t.parent[x] = p
      BY DEF Lacking
    <3>3. t.child[Other(s)][p] # x
      <4>1. Short(r, t, U, B, p, s)
        BY <1>1 DEF Lacking, Reds, Short
      <4>2. Sibling(t, U, B, p, s, t.child[Other(s)][p])
        BY <4>1, SiblingIs
      <4> QED BY <3>2, <4>2 DEF Sibling
    <3> QED BY <1>1, <3>1, <3>2, <3>3 DEF Lacking, Reds, Short, SideOf, Other
  <2>2. \/ SiblingRound(t, p, d).at = SiblingRound(t, p, d).tree.root
        \/ /\ SiblingRound(t, p, d).tree = Paint(t, t.red \cup {w})
           /\ SiblingRound(t, p, d).at = p
    BY <1>4
  <2>3. w \in Key
    <3> HIDE DEF d
    <3>1. Sibling(t, U, B, p, d, w)
      BY <2>1, SiblingIs
    <3> QED BY <3>1 DEF Sibling
  <2> HIDE DEF w
  <2> QED BY <1>2, <1>3, <1>6, <2>2, <2>3 DEF Onward
<1> QED BY <1>5, <1>6

\* Going on above, in a tree that was only painted, leaves less to do.
LEMMA OnwardIsLess ==
  ASSUME NEW r, NEW t, NEW U, Shape(r, t, U), NEW a \in Node, NEW p \in U[t.root],
         Cardinality(Above(t, U, p)) < Cardinality(Above(t, U, a)),
         NEW u, NEW m, Onward(t, p, u, m)
  PROVE  Shape(r, u, U) /\ Cardinality(Above(u, U, m)) < Cardinality(Above(t, U, a))
<1>1. PICK R \in SUBSET Key : u = Paint(t, R) /\ m = p
  BY DEF Onward
<1>2. Shape(r, u, U) /\ u.root = t.root /\ u.parent = t.parent
  BY <1>1, Recoloured
<1>3. Above(u, U, m) = Above(t, U, p)
  BY <1>1, <1>2 DEF Above
<1> QED BY <1>2, <1>3

LEMMA DescendIsLess ==
  ASSUME TreeInv, Descend
  PROVE  Rank' < Rank
<1>1. PICK U : Held(desc, tree, U, pc, op.key, at)
  BY DEF TreeInv
<1> DEFINE d == IF Before(op.key, at) THEN "left" ELSE "right"
<1>2. /\ Shape(desc, tree, U) /\ pc = "search" /\ pc' = "search" /\ tree' = tree
      /\ at' = tree.child[d][at] /\ at' # Nil /\ at \in Node /\ d \in Dir
  BY <1>1 DEF Held, Descend, NotThere, Toward, TreeInv, Calling, Dir
<1>3. at \in Key
  BY <1>2, Basics DEF Shape
<1> HIDE DEF d
<1>4. at' \in Node /\ U[at'] \subseteq U[at] /\ at \in U[at] /\ at \notin U[at']
  BY <1>2, <1>3, Halves
<1>5. Rank = 2 * MaxKey + Cardinality(U[at]) /\ Rank' = 2 * MaxKey + Cardinality(U[at'])
  <2>1. Rank = RankIn(tree, U, pc, at)
    BY <1>2, RankIs
  <2>2. Shape(desc, tree', U)
    BY <1>2
  <2>3. Rank' = RankIn(tree', U, pc', at')
    BY <1>4, <2>2, RankNext
  <2> QED BY <1>2, <2>1, <2>3 DEF RankIn
<1>6. /\ Cardinality(U[at]) \in Nat /\ Cardinality(U[at']) \in Nat
      /\ Cardinality(U[at']) <= Cardinality(U[at]) /\ Cardinality(U[at']) # Cardinality(U[at])
  <2>1. IsFiniteSet(U[at])
    <3>1. U[at] \subseteq Key
      BY <1>2 DEF Shape, Spans
    <3> QED BY <3>1, Basics, FS_Subset
  <2>2. /\ Cardinality(U[at']) <= Cardinality(U[at])
        /\ Cardinality(U[at']) # Cardinality(U[at])
    BY <1>4, <2>1, FS_Subset
  <2>3. Cardinality(U[at]) \in Nat /\ Cardinality(U[at']) \in Nat
    BY <1>2, <1>4, RankParts
  <2> QED BY <2>2, <2>3
<1> QED BY <1>5, <1>6, MaxKeyAssumption

\* A call that is not at its end has something to do.
LEMMA RankPositive ==
  ASSUME TreeInv, pc # "idle"
  PROVE  Rank > 0
<1>1. PICK U : Held(desc, tree, U, pc, op.key, at)
  BY DEF TreeInv
<1>2. Shape(desc, tree, U) /\ at \in Node /\ pc \in {"search", "insertFixup", "deleteFixup"}
  BY <1>1 DEF Held, TreeInv, Calling
<1>3. Rank = RankIn(tree, U, pc, at)
  BY <1>2, RankIs
<1>4. Cardinality(U[at]) \in Nat /\ Cardinality(Above(tree, U, at)) \in Nat
  BY <1>2, RankParts
<1> QED BY <1>2, <1>3, <1>4, MaxKeyAssumption DEF RankIn

LEMMA EndIsLess ==
  ASSUME TreeInv, NothingToDo \/ InsertDone \/ DeleteDone
  PROVE  Rank' < Rank
<1>1. pc # "idle" /\ pc' = "idle"
  BY DEF NothingToDo, InsertDone, DeleteDone
<1>2. Rank' = 0
  BY <1>1, Zenon DEF Rank
<1>3. Rank > 0
  BY <1>1, RankPositive
<1> QED BY <1>2, <1>3

LEMMA LinkIsLess ==
  ASSUME TreeInv, Link
  PROVE  Rank' < Rank
<1> DEFINE d == IF Before(op.key, at) THEN "left" ELSE "right"
<1>1. PICK U : Held(desc, tree, U, pc, op.key, at)
  BY DEF TreeInv
<1>2. /\ Shape(desc, tree, U) /\ pc = "search" /\ at \in Node /\ op.key \in Key /\ at # op.key
      /\ tree' = Hung(op.key, at, d) /\ at' = op.key /\ pc' = "insertFixup" /\ d \in Dir
  BY <1>1 DEF Held, Link, NotThere, TreeInv, Calling, Request, Dir
<1>3. PICK V : Held(desc', tree', V, pc', op'.key, at')
  BY LinkKeeps DEF TreeInv
<1> HIDE DEF d
<1>4. Grown(tree, op.key, at, d, tree')
  BY <1>2, HungGrows DEF Shape
<1>5. Shape(desc', tree', V) /\ at' \in Node /\ tree'.parent[at'] = at /\ Nil \notin tree'.red
  BY <1>2, <1>3, <1>4, Basics DEF Held, Grown, TreeRecord
<1>6. Rank = 2 * MaxKey + Cardinality(U[at])
  <2>1. Rank = RankIn(tree, U, pc, at)
    BY <1>2, RankIs
  <2> QED BY <1>2, <2>1 DEF RankIn
<1>7. Rank' = IF at \in tree'.red THEN 2 + Cardinality(Above(tree', V, at')) ELSE 1
  <2>1. Rank' = RankIn(tree', V, pc', at')
    BY <1>5, RankNext
  <2> QED BY <1>2, <1>5, <2>1 DEF RankIn
<1>8. /\ Cardinality(U[at]) \in Nat
      /\ at \in Key => Cardinality(U[at]) > 0
      /\ Cardinality(Above(tree', V, at')) \in Nat
      /\ Cardinality(Above(tree', V, at')) <= MaxKey
  <2>1. tree'.root \in Node
    BY <1>5 DEF Shape, TreeRecord
  <2>2. Cardinality(V[tree'.root]) <= MaxKey /\ Cardinality(V[tree'.root]) \in Nat
    BY <1>5, <2>1, RankParts
  <2> QED BY <1>2, <1>5, <2>2, RankParts, MaxKeyAssumption
<1>9. at = Nil \/ (at \in Key /\ MaxKey > 1)
  BY <1>2, Basics, MaxKeyAssumption DEF Key
<1>10. CASE at = Nil
  <2>1. Rank' = 1
    BY <1>5, <1>7, <1>10
  <2> QED BY <1>6, <1>8, <2>1, MaxKeyAssumption
<1>11. CASE at \in Key /\ MaxKey > 1
  <2> DEFINE c == Cardinality(Above(tree', V, at'))
             m == Cardinality(U[at])
  <2>1. Rank' = 2 + c \/ Rank' = 1
    BY <1>7
  <2>2. c \in Nat /\ c <= MaxKey /\ m \in Nat /\ m > 0 /\ Rank = 2 * MaxKey + m
    BY <1>6, <1>8, <1>11
  <2> HIDE DEF c, m
  <2> QED BY <1>11, <2>1, <2>2, MaxKeyAssumption
<1> QED BY <1>9, <1>10, <1>11

LEMMA UnlinkIsLess ==
  ASSUME TreeInv, Unlink
  PROVE  Rank' < Rank
<1>1. PICK U : Held(desc, tree, U, pc, op.key, at)
  BY DEF TreeInv
<1>2. Shape(desc, tree, U) /\ pc = "search" /\ at = op.key /\ at \in Key /\ at \in Node
  BY <1>1, Basics DEF Held, Unlink, TreeInv, Calling, Request
<1>3. /\ TreeInv' /\ Linked' = Linked \ {at}
      /\ pc' = "idle" \/ pc' = "deleteFixup"
  BY <1>2, UnlinkKeeps
<1>4. PICK V : Held(desc', tree', V, pc', op'.key, at')
  BY <1>3 DEF TreeInv
<1>5. Shape(desc', tree', V) /\ at' \in Node
  BY <1>3, <1>4 DEF Held, TreeInv, Calling
<1>6. Rank = 2 * MaxKey + Cardinality(U[at])
  <2>1. Rank = RankIn(tree, U, pc, at)
    BY <1>2, RankIs
  <2> QED BY <1>2, <2>1 DEF RankIn
<1>7. Rank' \in {0, 1, 2 + Cardinality(Above(tree', V, at'))}
  <2>1. Rank' = RankIn(tree', V, pc', at')
    BY <1>5, RankNext
  <2> QED BY <1>3, <2>1 DEF RankIn
<1>8. Cardinality(V[tree'.root]) < MaxKey
  <2>1. V[tree'.root] = U[tree.root] \ {at}
    BY <1>2, <1>3, <1>5, LinkedIs, LinkedNext
  <2>2. U[tree.root] \subseteq Key
    BY <1>2 DEF Shape, Spans, TreeRecord
  <2>3. IsFiniteSet(Key) /\ Cardinality(Key) = MaxKey
    BY MaxKeyAssumption, FS_Interval DEF Key
  <2>4. Cardinality(Key \ {at}) = MaxKey - 1 /\ IsFiniteSet(Key \ {at})
    BY <1>2, <2>3, FS_RemoveElement
  <2>5. V[tree'.root] \subseteq Key \ {at}
    BY <2>1, <2>2
  <2>6. Cardinality(V[tree'.root]) <= MaxKey - 1 /\ Cardinality(V[tree'.root]) \in Nat
    BY <2>4, <2>5, FS_Subset, FS_CardinalityType
  <2> QED BY <2>6, MaxKeyAssumption
<1>9. /\ Cardinality(U[at]) \in Nat /\ Cardinality(U[at]) > 0
      /\ Cardinality(Above(tree', V, at')) \in Nat
      /\ Cardinality(Above(tree', V, at')) <= Cardinality(V[tree'.root])
      /\ Cardinality(V[tree'.root]) \in Nat
  BY <1>2, <1>5, RankParts
<1> QED BY <1>6, <1>7, <1>8, <1>9, MaxKeyAssumption

LEMMA InsertFixupIsLess ==
  ASSUME TreeInv, InsertFixup
  PROVE  Rank' < Rank
<1> DEFINE round == InsertRound(tree, at)
           p == tree.parent[at]
           g == tree.parent[p]
<1>1. PICK U : Held(desc, tree, U, pc, op.key, at)
  BY DEF TreeInv
<1>2. /\ Shape(desc, tree, U) /\ pc = "insertFixup" /\ pc' = pc /\ p \in tree.red
      /\ tree' = round.tree /\ at' = round.at /\ at \in Node /\ desc' = desc
  BY <1>1 DEF Held, InsertFixup, TreeInv, Calling
<1>3. PICK B : Conflict(desc, tree, U, B, at)
  BY <1>1, <1>2 DEF Held, Clashing, Conflict
<1> HIDE DEF round
<1>4. Onward(tree, g, tree', at') \/ Ended(tree', at')
  BY <1>2, <1>3, InsertRounds DEF round
<1>5. PICK V : Held(desc', tree', V, pc', op'.key, at')
  BY InsertFixupKeeps DEF TreeInv
<1>6. Shape(desc', tree', V) /\ at' \in Node
  BY <1>5, InsertFixupKeeps DEF Held, TreeInv, Calling
<1>7. Rank = 2 + Cardinality(Above(tree, U, at))
  <2>1. Rank = RankIn(tree, U, pc, at)
    BY <1>2, RankIs
  <2> QED BY <1>2, <2>1 DEF RankIn
<1>8. Cardinality(Above(tree, U, at)) \in Nat
  BY <1>2, RankParts
<1>9. CASE Ended(tree', at')
  <2>1. Rank' = RankIn(tree', V, pc', at')
    BY <1>6, RankNext
  <2>2. Rank' = 1
    BY <1>2, <1>9, <2>1 DEF RankIn, Ended
  <2> QED BY <1>7, <1>8, <2>2
<1>10. CASE Onward(tree, g, tree', at')
  <2>1. p \in U[tree.root] /\ g \in U[tree.root] /\ p \in Node
    BY <1>3, Families, Basics DEF Family
  <2>2. Cardinality(Above(tree, U, p)) < Cardinality(Above(tree, U, at))
    BY <1>2, <2>1, AboveShrinks
  <2>3. Cardinality(Above(tree, U, g)) < Cardinality(Above(tree, U, p))
    BY <1>2, <2>1, AboveShrinks
  <2>4. g \in Node
    BY <1>2, <2>1, Parents, Basics
  <2>5. Cardinality(Above(tree, U, g)) \in Nat /\ Cardinality(Above(tree, U, p)) \in Nat
    BY <1>2, <2>1, <2>4, RankParts
  <2>6. Cardinality(Above(tree, U, g)) < Cardinality(Above(tree, U, at))
    BY <1>8, <2>2, <2>3, <2>5
  <2> HIDE DEF g, p
  <2>7. /\ Shape(desc, tree', U)
        /\ Cardinality(Above(tree', U, at')) < Cardinality(Above(tree, U, at))
    BY <1>2, <1>10, <2>1, <2>6, OnwardIsLess
  <2>8. Rank' = RankIn(tree', U, pc', at')
    BY <1>6, <2>7, RankNext
  <2>9. Cardinality(Above(tree', U, at')) \in Nat
    BY <1>6, <2>7, RankParts
  <2>10. Rank' \in {1, 2 + Cardinality(Above(tree', U, at'))}
    BY <1>2, <2>8 DEF RankIn
  <2> QED BY <1>7, <1>8, <2>7, <2>9, <2>10
<1> QED BY <1>4, <1>9, <1>10

LEMMA DeleteFixupIsLess ==
  ASSUME TreeInv, DeleteFixup
  PROVE  Rank' < Rank
<1> DEFINE round == DeleteRound(tree, at)
<1>1. PICK U : Held(desc, tree, U, pc, op.key, at)
  BY DEF TreeInv
<1>2. /\ Shape(desc, tree, U) /\ pc = "deleteFixup" /\ pc' = pc
      /\ at # tree.root /\ at \notin tree.red
      /\ tree' = round.tree /\ at' = round.at /\ at \in Node /\ desc' = desc
  BY <1>1 DEF Held, DeleteFixup, TreeInv, Calling
<1>3. PICK B, p, s : Lacking(desc, tree, U, B, at, p, s)
  BY <1>1, <1>2 DEF Held
<1> HIDE DEF round
<1>4. Onward(tree, p, tree', at') \/ at' = tree'.root \/ at' \in tree'.red
  BY <1>2, <1>3, DeleteOnward DEF round
<1>5. PICK V : Held(desc', tree', V, pc', op'.key, at')
  BY DeleteFixupKeeps DEF TreeInv
<1>6. Shape(desc', tree', V) /\ at' \in Node
  BY <1>5, DeleteFixupKeeps DEF Held, TreeInv, Calling
<1>7. Rank = 2 + Cardinality(Above(tree, U, at))
  <2>1. Rank = RankIn(tree, U, pc, at)
    BY <1>2, RankIs
  <2> QED BY <1>2, <2>1 DEF RankIn
<1>8. Cardinality(Above(tree, U, at)) \in Nat
  BY <1>2, RankParts
<1>9. CASE at' = tree'.root \/ at' \in tree'.red
  <2>1. Rank' = RankIn(tree', V, pc', at')
    BY <1>6, RankNext
  <2>2. Rank' = 1
    BY <1>2, <1>9, <2>1 DEF RankIn
  <2> QED BY <1>7, <1>8, <2>2
<1>10. CASE Onward(tree, p, tree', at')
  <2>1. p \in U[tree.root] /\ tree.parent[at] = p
    BY <1>2, <1>3 DEF Lacking
  <2>2. Cardinality(Above(tree, U, p)) < Cardinality(Above(tree, U, at))
    BY <1>2, <2>1, AboveShrinks
  <2>3. /\ Shape(desc, tree', U)
        /\ Cardinality(Above(tree', U, at')) < Cardinality(Above(tree, U, at))
    BY <1>2, <1>10, <2>1, <2>2, OnwardIsLess
  <2>4. Rank' = RankIn(tree', U, pc', at')
    BY <1>6, <2>3, RankNext
  <2>5. Cardinality(Above(tree', U, at')) \in Nat
    BY <1>6, <2>3, RankParts
  <2>6. Rank' \in {1, 2 + Cardinality(Above(tree', U, at'))}
    BY <1>2, <2>4 DEF RankIn
  <2> QED BY <1>7, <1>8, <2>3, <2>5, <2>6
<1> QED BY <1>4, <1>9, <1>10

\* The loops of the search and of both repairs, which have no counter, end: each
\* step of a call leaves less to do, also the rotations that push a node down.
THEOREM CallsAlwaysGetShorter == Spec => CallsGetShorter
<1>1. ASSUME TreeInv, [Next]_vars PROVE [Work => Rank' < Rank]_vars
  <2>1. ASSUME Work PROVE Rank' < Rank
    <3>1. CASE Descend
      BY <1>1, <3>1, DescendIsLess
    <3>2. CASE NothingToDo \/ InsertDone \/ DeleteDone
      BY <1>1, <3>2, EndIsLess
    <3>3. CASE Link
      BY <1>1, <3>3, LinkIsLess
    <3>4. CASE InsertFixup
      BY <1>1, <3>4, InsertFixupIsLess
    <3>5. CASE Unlink
      BY <1>1, <3>5, UnlinkIsLess
    <3>6. CASE DeleteFixup
      BY <1>1, <3>6, DeleteFixupIsLess
    <3> QED BY <2>1, <3>1, <3>2, <3>3, <3>4, <3>5, <3>6 DEF Work
  <2> QED BY <2>1
<1> QED BY <1>1, AlwaysTreeInv, PTL DEF Spec, CallsGetShorter

-----------------------------------------------------------------------------
(* The height.                                                             *)

\* A power of two counts the sets of some numbers.
LEMMA PowerCounts ==
  ASSUME NEW k \in Nat
  PROVE  /\ IsFiniteSet(SUBSET (1..k)) /\ 2^k = Cardinality(SUBSET (1..k)) /\ 2^k \in Nat
<1>1. IsFiniteSet(1..k) /\ Cardinality(1..k) = k
  BY FS_Interval
<1>2. IsFiniteSet(SUBSET (1..k)) /\ Cardinality(SUBSET (1..k)) = 2^k
  BY <1>1, FS_SUBSET
<1> QED BY <1>2, FS_CardinalityType

\* It grows,
LEMMA PowerGrows ==
  ASSUME NEW i \in Nat, NEW j \in Nat, i <= j
  PROVE  2^i <= 2^j
<1>1. 1..i \subseteq 1..j
  OBVIOUS
<1>2. SUBSET (1..i) \subseteq SUBSET (1..j)
  BY <1>1
<1>3. Cardinality(SUBSET (1..i)) <= Cardinality(SUBSET (1..j))
  BY <1>2, PowerCounts, FS_Subset
<1> QED BY <1>3, PowerCounts

\* and doubles: every set of the numbers below comes with and without the next.
LEMMA PowerDoubles ==
  ASSUME NEW k \in Nat
  PROVE  2^0 = 1 /\ 2^(k + 1) = 2^k + 2^k
<1> DEFINE x == k + 1
           S == SUBSET (1..k)
           T == {s \cup {x} : s \in S}
           f == [s \in S |-> s \cup {x}]
<1>1. 2^0 = 1
  <2>1. 1..0 = {}
    OBVIOUS
  <2>2. SUBSET (1..0) = {{}}
    BY <2>1
  <2> QED BY <2>2, PowerCounts, FS_Singleton
<1>2. 1..x = (1..k) \cup {x} /\ x \notin 1..k /\ x \in Nat
  OBVIOUS
<1>3. SUBSET (1..x) = S \cup T /\ S \cap T = {}
  <2> HIDE DEF x
  <2>1. ASSUME NEW s \in SUBSET (1..x), s \notin S PROVE s \in T
    <3>1. x \in s /\ s \ {x} \in S /\ s = (s \ {x}) \cup {x}
      BY <1>2, <2>1
    <3> QED BY <3>1
  <2>2. S \subseteq SUBSET (1..x) /\ T \subseteq SUBSET (1..x)
    BY <1>2
  <2>3. S \cap T = {}
    BY <1>2
  <2> QED BY <2>1, <2>2, <2>3
<1>4. IsFiniteSet(S) /\ Cardinality(S) = 2^k /\ 2^k \in Nat
  BY PowerCounts
<1>5. f \in Bijection(S, T)
  <2> HIDE DEF x
  <2>1. f \in [S -> T]
    OBVIOUS
  <2>2. ASSUME NEW a \in S, NEW b \in S, f[a] = f[b] PROVE a = b
    <3>1. x \notin a /\ x \notin b /\ a \cup {x} = b \cup {x}
      BY <1>2, <2>2
    <3> QED BY <3>1
  <2>3. \A u \in T : \E a \in S : f[a] = u
    OBVIOUS
  <2> HIDE DEF S, T, f
  <2> QED BY <2>1, <2>2, <2>3 DEF Bijection, Injection, Surjection, IsInjective
<1>6. IsFiniteSet(T) /\ Cardinality(T) = Cardinality(S)
  <2> HIDE DEF S, T, f
  <2> QED BY <1>4, <1>5, FS_Bijection DEF ExistsBijection
<1>7. Cardinality(S \cup T) = Cardinality(S) + Cardinality(T)
  <2> HIDE DEF S, T
  <2>1. Cardinality(S \cup T) = Cardinality(S) + Cardinality(T) - Cardinality(S \cap T)
    BY <1>4, <1>6, FS_Union
  <2> QED BY <1>3, <1>4, <1>6, <2>1, FS_EmptySet
<1>8. 2^x = Cardinality(SUBSET (1..x))
  BY <1>2, PowerCounts
<1> HIDE DEF S, T
<1> QED BY <1>1, <1>3, <1>4, <1>6, <1>7, <1>8

\* Below a node with B[n] blacks on its paths there are so many nodes at least.
LEMMA NodesOfHeight ==
  ASSUME NEW r, NEW t, NEW U, Shape(r, t, U), NEW B, Heights(t, B, Nil, "left")
  PROVE  \A n \in Node : 2^B[n] <= Cardinality(U[n]) + 1
<1> DEFINE Bad == {n \in Node : ~(2^B[n] <= Cardinality(U[n]) + 1)}
<1> SUFFICES ASSUME Bad # {} PROVE FALSE
  OBVIOUS
<1>1. PICK n \in Bad : \A i \in Bad : U[i] \subseteq U[n] => U[i] = U[n]
  <2>1. Bad \in SUBSET Node
    OBVIOUS
  <2> HIDE DEF Bad
  <2> QED BY <2>1, Lowest
<1>2. n \in Node /\ ~(2^B[n] <= Cardinality(U[n]) + 1)
  OBVIOUS
<1>3. B \in [Node -> Nat] /\ B[Nil] = 0 /\ U[Nil] = {}
  BY DEF Heights, Shape, Spans
<1>4. n \in Key
  <2>1. 2^B[Nil] <= Cardinality(U[Nil]) + 1
    BY <1>3, PowerDoubles, FS_EmptySet
  <2> QED BY <1>2, <2>1, Basics
<1> DEFINE l == t.child["left"][n]
           g == t.child["right"][n]
<1>5. /\ l \in Node /\ g \in Node /\ U[n] = {n} \cup U[l] \cup U[g]
      /\ U[l] \cap U[g] = {} /\ n \notin U[l] /\ n \notin U[g]
      /\ U[l] \subseteq Key /\ U[g] \subseteq Key
  <2>1. "left" \in Dir /\ "right" \in Dir /\ Other("left") = "right"
    BY Basics DEF Other
  <2> QED BY <1>4, <2>1, Halves
<1>6. /\ B[n] = B[l] + Black(t, n) /\ B[n] = B[g] + Black(t, n)
      /\ B[l] \in Nat /\ B[g] \in Nat /\ Black(t, n) \in {0, 1}
  <2>1. Nil # n /\ HeightAt(t, B, Nil, "left", n) /\ "left" \in Dir /\ "right" \in Dir
    BY <1>4, Basics DEF Heights
  <2> QED BY <1>3, <1>4, <1>5, <2>1, LevelSide DEF Black
<1>7. 2^B[l] <= Cardinality(U[l]) + 1 /\ 2^B[g] <= Cardinality(U[g]) + 1
  <2> HIDE DEF l, g
  <2>1. n \in U[n] /\ U[l] \subseteq U[n] /\ U[g] \subseteq U[n]
    BY <1>5
  <2>2. l \notin Bad /\ g \notin Bad
    BY <1>1, <1>5, <2>1
  <2> QED BY <1>5, <2>2
<1> HIDE DEF Bad, l, g
<1>8. /\ Cardinality(U[n]) = 1 + Cardinality(U[l]) + Cardinality(U[g])
      /\ Cardinality(U[l]) \in Nat /\ Cardinality(U[g]) \in Nat
  <2>1. IsFiniteSet(U[l]) /\ IsFiniteSet(U[g])
    BY <1>5, Basics, FS_Subset
  <2>2. Cardinality(U[l] \cup U[g]) = Cardinality(U[l]) + Cardinality(U[g])
        /\ IsFiniteSet(U[l] \cup U[g])
    <3>1. /\ Cardinality(U[l] \cup U[g])
               = Cardinality(U[l]) + Cardinality(U[g]) - Cardinality(U[l] \cap U[g])
          /\ IsFiniteSet(U[l] \cup U[g])
      BY <2>1, FS_Union
    <3>2. Cardinality(U[l] \cap U[g]) = 0
      BY <1>5, FS_EmptySet
    <3>3. Cardinality(U[l]) \in Nat /\ Cardinality(U[g]) \in Nat
      BY <2>1, FS_CardinalityType
    <3> QED BY <3>1, <3>2, <3>3
  <2>3. U[n] = (U[l] \cup U[g]) \cup {n} /\ n \notin U[l] \cup U[g]
    BY <1>5
  <2>4. Cardinality(U[n]) = Cardinality(U[l] \cup U[g]) + 1
    BY <2>2, <2>3, FS_AddElement
  <2> QED BY <2>1, <2>2, <2>4, FS_CardinalityType
<1>9. B[n] \in Nat /\ B[l] = B[g] /\ B[n] <= B[l] + 1
  BY <1>3, <1>4, <1>6, Basics
<1>10. /\ 2^B[n] <= 2^(B[l] + 1) /\ 2^(B[l] + 1) = 2^B[l] + 2^B[l]
       /\ 2^B[n] \in Nat /\ 2^B[l] \in Nat
  BY <1>6, <1>9, PowerGrows, PowerDoubles, PowerCounts
<1> QED BY <1>2, <1>7, <1>8, <1>9, <1>10

\* The nodes on the path from n down to m,
Way(U, n, m) == {a \in U[n] : m \in U[a]}

\* the nodes a path may end at, and the lengths of the paths from n down.
Lasts(t, U, n) == {m \in U[n] : \E d \in Dir : t.child[d][m] = Nil}

Lengths(t, U, n) == IF n = Nil THEN {0} ELSE {Cardinality(Way(U, n, m)) : m \in Lasts(t, U, n)}

\* A path that goes on from n is one node longer than what is left of it.
LEMMA WayGrows ==
  ASSUME NEW r, NEW t, NEW U, Shape(r, t, U), NEW n \in Key
  PROVE  /\ Cardinality(Way(U, n, n)) = 1
         /\ \A d \in Dir : \A m \in U[t.child[d][n]] :
              /\ m \in U[n]
              /\ Cardinality(Way(U, n, m)) = Cardinality(Way(U, t.child[d][n], m)) + 1
<1>1. Cardinality(Way(U, n, n)) = 1
  <2>1. ASSUME NEW a \in U[n], n \in U[a] PROVE a = n
    <3> SUFFICES ASSUME a # n PROVE FALSE
      OBVIOUS
    <3>1. PICK d \in Dir : a \in U[t.child[d][n]]
      BY DEF Shape, Spans, Dir
    <3>2. n \notin U[t.child[d][n]] /\ t.child[d][n] \in Node
      BY Halves
    <3>3. U[a] \subseteq U[t.child[d][n]]
      BY <3>1, <3>2, Nested
    <3> QED BY <2>1, <3>2, <3>3
  <2>2. n \in U[n]
    BY DEF Shape, Spans
  <2>3. Way(U, n, n) = {n}
    BY <2>1, <2>2 DEF Way
  <2> QED BY <2>3, FS_Singleton
<1>2. ASSUME NEW d \in Dir, NEW m \in U[t.child[d][n]]
      PROVE  /\ m \in U[n]
             /\ Cardinality(Way(U, n, m)) = Cardinality(Way(U, t.child[d][n], m)) + 1
  <2> DEFINE c == t.child[d][n]
             e == t.child[Other(d)][n]
  <2>1. /\ U[n] = {n} \cup U[c] \cup U[e] /\ U[c] \cap U[e] = {} /\ n \notin U[c]
        /\ c \in Node /\ U[c] \subseteq Key /\ e \in Node
    BY Basics, Halves
  <2> HIDE DEF c, e
  <2>2. m \in U[c] /\ m \in U[n]
    BY <2>1 DEF c
  <2>3. \A a \in U[e] : m \notin U[a]
    BY <2>1, <2>2, Nested
  <2>4. Way(U, n, m) = Way(U, c, m) \cup {n} /\ n \notin Way(U, c, m)
    BY <2>1, <2>2, <2>3 DEF Way
  <2>5. IsFiniteSet(Way(U, c, m))
    <3>1. Way(U, c, m) \subseteq Key
      BY <2>1 DEF Way
    <3> QED BY <3>1, Basics, FS_Subset
  <2>6. Cardinality(Way(U, n, m)) = Cardinality(Way(U, c, m)) + 1
    BY <2>4, <2>5, FS_AddElement
  <2> QED BY <2>2, <2>6 DEF c
<1> QED BY <1>1, <1>2

\* The lengths obey the recursion of PathCounts.
LEMMA LengthsGrow ==
  ASSUME NEW r, NEW t, NEW U, Shape(r, t, U), NEW n \in Key
  PROVE  Lengths(t, U, n) = {c + 1 : c \in Lengths(t, U, t.child["left"][n])
                                             \cup Lengths(t, U, t.child["right"][n])}
<1> DEFINE both == Lengths(t, U, t.child["left"][n]) \cup Lengths(t, U, t.child["right"][n])
<1>1. n # Nil /\ n \in U[n] /\ \A d \in Dir : t.child[d][n] \in Node
  <2>1. n \in U[n]
    BY DEF Shape, Spans
  <2> QED BY <2>1, Basics, Halves
<1>2. ASSUME NEW h \in Lengths(t, U, n) PROVE \E c \in both : h = c + 1
  <2>1. PICK m \in Lasts(t, U, n) : h = Cardinality(Way(U, n, m))
    BY <1>1 DEF Lengths
  <2>2. m \in U[n] /\ \E d \in Dir : t.child[d][m] = Nil
    BY <2>1 DEF Lasts
  <2>3. CASE m = n
    <3>1. PICK d \in Dir : t.child[d][n] = Nil
      BY <2>2, <2>3
    <3>2. 0 \in Lengths(t, U, t.child[d][n])
      BY <3>1 DEF Lengths
    <3>3. 0 \in both
      BY <3>2, Basics
    <3>4. h = 0 + 1
      BY <2>1, <2>3, WayGrows
    <3> QED BY <3>3, <3>4
  <2>4. CASE m # n
    <3>1. PICK d \in Dir : m \in U[t.child[d][n]]
      BY <2>2, <2>4 DEF Shape, Spans, Dir
    <3> DEFINE c == t.child[d][n]
    <3>2. h = Cardinality(Way(U, c, m)) + 1
      BY <2>1, <3>1, WayGrows
    <3>3. c # Nil
      BY <3>1 DEF Shape, Spans
    <3>4. Cardinality(Way(U, c, m)) \in Lengths(t, U, c)
      <4>1. m \in Lasts(t, U, c)
        BY <2>2, <3>1 DEF Lasts
      <4> QED BY <3>3, <4>1 DEF Lengths
    <3>5. Cardinality(Way(U, c, m)) \in both
      BY <3>4, Basics
    <3> QED BY <3>2, <3>5
  <2> QED BY <2>3, <2>4
<1>3. ASSUME NEW d \in Dir, NEW c \in Lengths(t, U, t.child[d][n])
      PROVE  c + 1 \in Lengths(t, U, n)
  <2>1. CASE t.child[d][n] = Nil
    <3>1. n \in Lasts(t, U, n)
      BY <1>1, <2>1 DEF Lasts
    <3>2. c = 0
      BY <2>1 DEF Lengths
    <3>3. Cardinality(Way(U, n, n)) = c + 1
      BY <3>2, WayGrows
    <3> QED BY <1>1, <3>1, <3>3 DEF Lengths
  <2>2. CASE t.child[d][n] # Nil
    <3>1. PICK m \in Lasts(t, U, t.child[d][n]) : c = Cardinality(Way(U, t.child[d][n], m))
      BY <2>2 DEF Lengths
    <3>2. m \in U[t.child[d][n]] /\ \E e \in Dir : t.child[e][m] = Nil
      BY <3>1 DEF Lasts
    <3>3. m \in U[n] /\ Cardinality(Way(U, n, m)) = c + 1
      BY <3>1, <3>2, WayGrows
    <3>4. m \in Lasts(t, U, n)
      BY <3>2, <3>3 DEF Lasts
    <3> QED BY <1>1, <3>3, <3>4 DEF Lengths
  <2> QED BY <2>1, <2>2
<1>4. \A c \in both : c + 1 \in Lengths(t, U, n)
  BY <1>3, Basics
<1> HIDE DEF both
<1>5. Lengths(t, U, n) = {c + 1 : c \in both}
  BY <1>2, <1>4
<1> QED BY <1>5 DEF both

\* No path has more red nodes than black ones below a black node, so that it is at
\* most twice as long as it is black, and one longer below a red one.
LEMMA PathsAreShort ==
  ASSUME NEW r, NEW U, Shape(r, tree, U), NEW B, Heights(tree, B, Nil, "left"),
         Reds(tree, U, Nil, FALSE)
  PROVE  \A h \in PathCounts(Key) : h \in Nat /\ h <= 2 * B[tree.root]
<1> DEFINE body(f) == [n \in Node |-> IF n = Nil THEN {0}
                                      ELSE {c + Cardinality({n} \cap Key) :
                                              c \in f[tree.child["left"][n]]
                                                      \cup f[tree.child["right"][n]]}]
           counts == CHOOSE f : f = body(f)
           C == [n \in Node |-> Lengths(tree, U, n)]
           few(n) == 2 * B[n] + 1 - Black(tree, n)
           Bad == {n \in Node : \E h \in counts[n] : ~(h \in Nat /\ h <= few(n))}
<1>1. ASSUME NEW n \in Key
      PROVE  /\ Cardinality({n} \cap Key) = 1
             /\ tree.child["left"][n] \in Node /\ tree.child["right"][n] \in Node
  <2>1. {n} \cap Key = {n} /\ Cardinality({n}) = 1
    BY FS_Singleton
  <2>2. "left" \in Dir /\ "right" \in Dir
    BY Basics
  <2>3. tree.child["left"][n] \in Node /\ tree.child["right"][n] \in Node
    BY <2>2, Halves
  <2> QED BY <2>1, <2>3
<1>2. C = body(C)
  <2>1. ASSUME NEW n \in Node PROVE C[n] = body(C)[n]
    <3>1. CASE n = Nil
      BY <3>1 DEF Lengths
    <3>2. CASE n # Nil
      <4>1. n \in Key
        BY <3>2, Basics
      <4>2. /\ C[tree.child["left"][n]] = Lengths(tree, U, tree.child["left"][n])
            /\ C[tree.child["right"][n]] = Lengths(tree, U, tree.child["right"][n])
            /\ C[n] = Lengths(tree, U, n)
        BY <1>1, <4>1
      <4>3. C[n] = {c + 1 : c \in C[tree.child["left"][n]] \cup C[tree.child["right"][n]]}
        BY <4>1, <4>2, LengthsGrow
      <4>4. body(C)[n] = {c + Cardinality({n} \cap Key) :
                            c \in C[tree.child["left"][n]] \cup C[tree.child["right"][n]]}
        <5> HIDE DEF C
        <5> QED BY <3>2
      <4> HIDE DEF C, body
      <4> QED BY <1>1, <4>1, <4>3, <4>4
    <3> QED BY <3>1, <3>2
  <2> HIDE DEF body
  <2>2. C = [n \in Node |-> C[n]]
    OBVIOUS
  <2>3. body(C) = [n \in Node |-> body(C)[n]]
    BY DEF body
  <2> HIDE DEF C
  <2> QED BY <2>1, <2>2, <2>3
<1>3. counts = body(counts)
  <2> HIDE DEF body, C
  <2> QED BY <1>2
<1>4. \A n \in Node : counts[n] = IF n = Nil THEN {0}
                                  ELSE {c + Cardinality({n} \cap Key) :
                                          c \in counts[tree.child["left"][n]]
                                                  \cup counts[tree.child["right"][n]]}
  <2>1. \A n \in Node : counts[n] = body(counts)[n]
    BY <1>3, Zenon
  <2> HIDE DEF counts
  <2> QED BY <2>1, Zenon
<1>5. PathCounts(Key) = counts[tree.root]
  BY DEF PathCounts
<1> HIDE DEF counts, body, C
<1>6. B \in [Node -> Nat] /\ B[Nil] = 0 /\ Nil \notin tree.red
  BY Basics DEF Heights, Shape, TreeRecord
<1>7. Bad = {}
  <2> SUFFICES ASSUME Bad # {} PROVE FALSE
    OBVIOUS
  <2>1. PICK n \in Bad : \A i \in Bad : U[i] \subseteq U[n] => U[i] = U[n]
    <3>1. Bad \in SUBSET Node
      OBVIOUS
    <3> HIDE DEF Bad
    <3> QED BY <3>1, Lowest
  <2>2. n \in Node /\ \E h \in counts[n] : ~(h \in Nat /\ h <= few(n))
    OBVIOUS
  <2>3. n \in Key
    <3>1. few(Nil) = 0
      BY <1>6 DEF Black
    <3>2. n # Nil
      <4> SUFFICES ASSUME n = Nil PROVE FALSE
        OBVIOUS
      <4>1. counts[n] = {0}
        BY <1>4, <2>2
      <4> HIDE DEF Bad, few
      <4> QED BY <2>2, <3>1, <4>1
    <3> QED BY <3>2, <2>2, Basics
  <2>4. ASSUME NEW d \in Dir, NEW c \in counts[tree.child[d][n]]
        PROVE  c \in Nat /\ c + 1 <= few(n)
    <3> DEFINE m == tree.child[d][n]
    <3>1. U[n] = {n} \cup U[m] \cup U[tree.child[Other(d)][n]] /\ n \notin U[m] /\ m \in Node
      BY <2>3, Halves
    <3>2. m \notin Bad
      BY <2>1, <3>1
    <3>3. c \in Nat /\ c <= 2 * B[m] + 1 - Black(tree, m)
      BY <3>1, <3>2
    <3>4. B[n] = B[m] + Black(tree, n) /\ B[m] \in Nat /\ B[n] \in Nat
      <4>1. Nil # n /\ HeightAt(tree, B, Nil, "left", n)
        BY <2>3, Basics DEF Heights
      <4>2. B[n] = B[m] + Black(tree, n)
        BY <1>6, <2>3, <4>1, LevelSide
      <4> QED BY <1>6, <2>2, <3>1, <4>2
    <3>5. n \in tree.red => m \notin tree.red
      <4>1. n \in tree.red /\ m \in tree.red => m = Nil
        BY <2>3 DEF Reds
      <4> QED BY <1>6, <4>1
    <3> HIDE DEF m, Bad
    <3> QED BY <3>3, <3>4, <3>5 DEF Black
  <2>5. counts[n] = {c + 1 : c \in counts[tree.child["left"][n]]
                                     \cup counts[tree.child["right"][n]]}
    <3>1. counts[n] = {c + Cardinality({n} \cap Key) :
                         c \in counts[tree.child["left"][n]] \cup counts[tree.child["right"][n]]}
      BY <1>4, <2>2, <2>3, Basics
    <3> QED BY <1>1, <2>3, <3>1
  <2>6. \A c \in counts[tree.child["left"][n]] \cup counts[tree.child["right"][n]] :
          c \in Nat /\ c + 1 <= few(n)
    <3> HIDE DEF few, Bad
    <3> QED BY <2>4, Basics
  <2> HIDE DEF few, Bad
  <2>7. \A h \in counts[n] : h \in Nat /\ h <= few(n)
    BY <2>5, <2>6
  <2> QED BY <2>2, <2>7
<1>8. tree.root \in Node /\ tree.root \notin tree.red
  BY <1>6 DEF Shape, TreeRecord, Reds
<1>9. few(tree.root) = 2 * B[tree.root]
  BY <1>6, <1>8 DEF Black
<1>10. \A h \in counts[tree.root] : h \in Nat /\ h <= few(tree.root)
  <2>1. tree.root \notin Bad
    BY <1>7
  <2> HIDE DEF few
  <2> QED BY <1>8, <2>1
<1> HIDE DEF few, Bad
<1> QED BY <1>5, <1>9, <1>10

\* README.md, "O(log N)": between calls the tree of N levels is at most
\* 2 log2(N + 1) high.
THEOREM HeightAlwaysLogarithmic == Spec => []HeightIsLogarithmic
<1>1. TreeInv => HeightIsLogarithmic
  <2> SUFFICES ASSUME TreeInv, Idle, NEW h \in PathCounts(Key)
               PROVE  2^((h + 1) \div 2) - 1 <= tree.size
    BY DEF HeightIsLogarithmic
  <2>1. PICK U : Held(desc, tree, U, pc, op.key, at)
    BY DEF TreeInv
  <2>2. /\ Shape(desc, tree, U) /\ tree.size = Cardinality(U[tree.root])
        /\ Reds(tree, U, Nil, FALSE)
    BY <2>1 DEF Held, Balanced, Idle
  <2>3. PICK B : Heights(tree, B, Nil, "left")
    BY <2>1 DEF Held, Balanced, Idle
  <2> DEFINE b == B[tree.root]
             k == (h + 1) \div 2
  <2>4. b \in Nat /\ tree.root \in Node /\ tree.size \in Nat
    BY <2>2, <2>3 DEF Heights, Shape, TreeRecord
  <2>5. h \in Nat /\ h <= 2 * b
    BY <2>2, <2>3, PathsAreShort
  <2>6. k \in Nat /\ k <= b
    <3> HIDE DEF b
    <3> QED BY <2>4, <2>5
  <2>7. 2^b <= tree.size + 1
    BY <2>2, <2>3, <2>4, NodesOfHeight
  <2> HIDE DEF b, k
  <2>8. 2^k <= 2^b /\ 2^k \in Nat /\ 2^b \in Nat
    BY <2>4, <2>6, PowerGrows, PowerCounts
  <2>9. 2^k - 1 <= tree.size
    BY <2>4, <2>7, <2>8
  <2> QED BY <2>9 DEF k
<1> QED BY <1>1, AlwaysTreeInv, PTL
=============================================================================
