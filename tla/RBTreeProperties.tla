--------------------------- MODULE RBTreeProperties ---------------------------
(***************************************************************************)
(* What makes the tree of RBTree right: the red-black rules between calls, *)
(* the order of the keys at every moment, and SortedKeys, the set of keys  *)
(* that it implements.                                                     *)
(***************************************************************************)
EXTENDS RBTree

\* The nodes below a node, and the node.
Under(n) ==
  LET under[m \in Node] ==
        IF m = Nil THEN {}
        ELSE {m} \cup under[tree.child["left"][m]] \cup under[tree.child["right"][m]]
  IN  under[n]

Linked == Under(tree.root)

\* The numbers of nodes of a kind on the paths from the root to the sentinel.
PathCounts(kind) ==
  LET counts[n \in Node] ==
        IF n = Nil THEN {0}
        ELSE {c + Cardinality({n} \cap kind) :
                c \in counts[tree.child["left"][n]] \cup counts[tree.child["right"][n]]}
  IN  counts[tree.root]

Idle == pc = "idle"

-----------------------------------------------------------------------------
\* The variables keep their types.
TypeOK ==
  /\ tree.root \in Node
  /\ tree.child \in [Dir -> [Node -> Node]]
  /\ tree.parent \in [Node -> Node]
  /\ tree.red \subseteq Node
  /\ tree.size \in Nat
  /\ desc \in BOOLEAN
  /\ pc \in {"idle", "search", "insertFixup", "deleteFixup"}
  /\ at \in Node

\* At every moment, also between the rounds of a repair, what hangs to the left
\* of a node comes before it and what hangs to the right comes after it.
KeysAreOrdered ==
  \A n \in Linked : /\ \A j \in Under(tree.child["left"][n]) : Before(j, n)
                    /\ \A j \in Under(tree.child["right"][n]) : Before(n, j)

\* At every moment a node's parent is the node it hangs from, and the sentinel,
\* whose own parent deleteNode overwrites, stays black and childless.
LinksAgree ==
  /\ \A n \in Linked, d \in Dir :
       tree.child[d][n] # Nil => tree.parent[tree.child[d][n]] = n
  /\ tree.root # Nil => tree.parent[tree.root] = Nil
  /\ Nil \notin tree.red
  /\ \A d \in Dir : tree.child[d][Nil] = Nil

\* Between calls no red node has a red child and the root is black.
NoRedPair ==
  Idle => /\ tree.root \notin tree.red
          /\ \A n \in Linked \cap tree.red, d \in Dir :
               tree.child[d][n] \notin tree.red

\* Between calls every path down has the same number of black nodes.
BlackBalanced == Idle => Cardinality(PathCounts(Key \ tree.red)) = 1

\* README.md, "O(log N)": between calls the tree of N levels is at most
\* 2 log2(N + 1) high.
HeightIsLogarithmic ==
  Idle => \A h \in PathCounts(Key) : 2^((h + 1) \div 2) - 1 <= tree.size

\* Between calls Min and Max are the lowest and the highest price in the tree,
\* whichever way it is sorted, and Size counts the levels.
QueriesAreRight ==
  Idle => /\ tree.size = Cardinality(Linked)
          /\ Linked = {} => Min = Nil /\ Max = Nil
          /\ Linked # {} => /\ {Min, Max} \subseteq Linked
                            /\ \A k \in Linked : Min <= k /\ k <= Max

\* The tree implements a set of keys: a call takes effect in the step that links
\* or unlinks its node, and no repair loses or brings back another one.
Keys == INSTANCE SortedKeys
          WITH keys <- Linked,
               request <- IF pc = "search" THEN op ELSE NoOp

ImplementsSortedKeys == Keys!KeysSpec

-----------------------------------------------------------------------------
(* Every call returns.                                                     *)

\* How many nodes there are above a node: the sentinel has the parent deleteNode
\* gave it.
Depth(n) == Cardinality({m \in Linked : tree.parent[n] \in Under(m)})

\* What is left to do of a call: the subtree a search is in; then the rounds of
\* a repair, none when its loop is about to end.
Rank ==
  CASE pc = "search"      -> 2 * MaxKey + Cardinality(Under(at))
    [] pc = "insertFixup" -> IF tree.parent[at] \in tree.red THEN 2 + Depth(at) ELSE 1
    [] pc = "deleteFixup" -> IF at = tree.root \/ at \in tree.red THEN 1
                             ELSE 2 + Depth(at)
    [] OTHER              -> 0

\* The loops of the search and of both repairs, which have no counter, end: each
\* step of a call leaves less to do, also the rotations that push a node down.
CallsGetShorter == [][Work => Rank' < Rank]_vars
=============================================================================
