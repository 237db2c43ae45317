-------------------------------- MODULE RBTree --------------------------------
(***************************************************************************)
(* The red-black tree of internal/orderbook/rbtree.go, which finds a       *)
(* side's price levels.  A node is named by its key: no two nodes of a     *)
(* tree share one, and a deleted node is never linked again.  The value of *)
(* a node is left out: it goes wherever the node goes.                     *)
(*                                                                         *)
(* Every turn of a loop is a step: one comparison of the search, one round *)
(* of insertFixup or deleteFixup.  The left and the right branches of the  *)
(* code mirror each other and are one definition here, with a direction.   *)
(***************************************************************************)
EXTENDS Integers, FiniteSets

CONSTANT MaxKey   \* the keys are 1..MaxKey (a bound)

ASSUME MaxKeyAssumption == MaxKey \in Nat \ {0}

Key == 1..MaxKey
Nil == 0                  \* nilNode, the sentinel
Node == Key \cup {Nil}
Dir == {"left", "right"}
Other(d) == IF d = "left" THEN "right" ELSE "left"

NoOp == [kind |-> "none", key |-> Nil]

VARIABLES tree,   \* root, children and parent of the nodes, the red nodes, size
          desc,   \* RBTree.desc, fixed when the tree is made
          op,     \* the call under way
          pc,     \* the loop it is in
          at      \* current, node or x: where the loop stands

vars == <<tree, desc, op, pc, at>>

EmptyTree == [root |-> Nil,
              child |-> [d \in Dir |-> [n \in Node |-> Nil]],
              parent |-> [n \in Node |-> Nil],
              red |-> {},
              size |-> 0]

Init == /\ tree = EmptyTree
        /\ desc \in BOOLEAN
        /\ op = NoOp
        /\ pc = "idle"
        /\ at = Nil

\* compare(key.Cmp(other)) < 0
Before(j, k) == IF desc THEN j > k ELSE j < k

\* The side of its parent a node hangs on.
SideOf(t, n) == IF n = t.child["left"][t.parent[n]] THEN "left" ELSE "right"

SetChild(t, d, p, n) == [t EXCEPT !.child[d][p] = n]
SetParent(t, n, p)   == [t EXCEPT !.parent[n] = p]
Paint(t, red)        == [t EXCEPT !.red = red]

\* A node without children.
Bare(t, n) == SetChild(SetChild(t, "left", n, Nil), "right", n, Nil)

\* Hangs n on side d of p.
Attach(t, d, p, n) == SetParent(SetChild(t, d, p, n), n, p)

\* Puts v where u hangs, without telling v.
Replace(t, u, v) == IF t.parent[u] = Nil THEN [t EXCEPT !.root = v]
                    ELSE SetChild(t, SideOf(t, u), t.parent[u], v)

\* Mutant of Transplant: v is not told its new parent.
TransplantHalf(t, u, v) == Replace(t, u, v)

Transplant(t, u, v) == SetParent(Replace(t, u, v), v, t.parent[u])

\* leftRotate (d = "left") and rightRotate (d = "right").
Rotate(t, x, d) ==
  LET y     == t.child[Other(d)][x]
      inner == t.child[d][y]
      s     == IF inner = Nil THEN SetChild(t, Other(d), x, Nil)
               ELSE Attach(t, Other(d), x, inner)
  IN  Attach(Transplant(s, x, y), d, y, x)

-----------------------------------------------------------------------------
(* The search that Insert and Delete begin with.                           *)

Call == /\ pc = "idle"
        /\ \E kind \in {"insert", "delete"}, k \in Key : op' = [kind |-> kind, key |-> k]
        /\ pc' = "search"
        /\ at' = tree.root
        /\ UNCHANGED <<tree, desc>>

Toward(n) == tree.child[IF Before(op.key, n) THEN "left" ELSE "right"][n]

\* The search has left the tree below at, the last node of its path.
NotThere == at # op.key /\ Toward(at) = Nil

Descend == /\ pc = "search"
           /\ at # op.key /\ ~NotThere
           /\ at' = Toward(at)
           /\ UNCHANGED <<tree, desc, op, pc>>

\* Mutant of NothingToDo: Delete counts before it knows that the key is there.
NothingToDoCounted == /\ pc = "search"
                      /\ IF op.kind = "insert" THEN at = op.key ELSE NotThere
                      /\ pc' = "idle"
                      /\ op' = NoOp
                      /\ tree' = IF op.kind = "insert" THEN tree
                                 ELSE [tree EXCEPT !.size = @ - 1]
                      /\ UNCHANGED <<desc, at>>

\* Insert of a key that is there only writes its value; Delete of a key that is
\* not there returns.
NothingToDo == /\ pc = "search"
               /\ IF op.kind = "insert" THEN at = op.key ELSE NotThere
               /\ pc' = "idle"
               /\ op' = NoOp
               /\ UNCHANGED <<tree, desc, at>>

-----------------------------------------------------------------------------
(* Insert.                                                                 *)

\* The tree with a new red node k under p.
Hung(k, p, d) ==
  LET hung == IF p = Nil THEN [tree EXCEPT !.root = k] ELSE SetChild(tree, d, p, k)
      new == Paint(SetParent(Bare(hung, k), k, p), tree.red \cup {k})
  IN  [new EXCEPT !.size = @ + 1]

\* Mutant of Link: the new node is hung without regard to desc.
LinkAscending ==
  /\ pc = "search"
  /\ op.kind = "insert" /\ NotThere
  /\ tree' = Hung(op.key, at, IF op.key < at THEN "left" ELSE "right")
  /\ at' = op.key
  /\ pc' = "insertFixup"
  /\ UNCHANGED <<desc, op>>

Link == /\ pc = "search"
        /\ op.kind = "insert" /\ NotThere
        /\ tree' = Hung(op.key, at, IF Before(op.key, at) THEN "left" ELSE "right")
        /\ at' = op.key
        /\ pc' = "insertFixup"
        /\ UNCHANGED <<desc, op>>

\* One round of insertFixup at a node n whose parent is red: a red uncle moves
\* the conflict up two generations, a black one ends it with rotations.
InsertRound(t, n) ==
  LET p == t.parent[n]
      g == t.parent[p]
      d == SideOf(t, p)
      uncle == t.child[Other(d)][g]
      inner == n = t.child[Other(d)][p]
      bent == IF inner THEN Rotate(t, p, d) ELSE t
      m == IF inner THEN p ELSE n
      top == bent.parent[m]
      old == bent.parent[top]
  IN  IF uncle \in t.red
        THEN [tree |-> Paint(t, (t.red \ {p, uncle}) \cup {g}), at |-> g]
        ELSE [tree |-> Rotate(Paint(bent, (bent.red \ {top}) \cup {old}), old, Other(d)),
              at |-> m]

\* Mutant of InsertFixup: the colours change, and nothing is rotated.
InsertFixupFlat == /\ pc = "insertFixup"
                   /\ tree.parent[at] \in tree.red
                   /\ LET round == InsertRound(tree, at)
                      IN  /\ tree' = [tree EXCEPT !.red = round.tree.red]
                          /\ at' = round.at
                   /\ UNCHANGED <<desc, op, pc>>

InsertFixup == /\ pc = "insertFixup"
               /\ tree.parent[at] \in tree.red
               /\ LET round == InsertRound(tree, at)
                  IN  tree' = round.tree /\ at' = round.at
               /\ UNCHANGED <<desc, op, pc>>

InsertDone == /\ pc = "insertFixup"
              /\ tree.parent[at] \notin tree.red
              /\ tree' = [tree EXCEPT !.red = @ \ {tree.root}]
              /\ pc' = "idle"
              /\ op' = NoOp
              /\ UNCHANGED <<desc, at>>

-----------------------------------------------------------------------------
(* Delete.                                                                 *)

\* What Walk(t, d)[n] finds: the last node from n in direction d.
Walk(t, d) ==
  LET walk[n \in Node] == IF t.child[d][n] = Nil THEN n ELSE walk[t.child[d][n]]
  IN  walk

\* deleteNode: z leaves, and with two children its successor y takes its place
\* and its colour.  x is what moved into the gap, perhaps the sentinel, whose
\* parent is set for deleteFixup.
Unlinked(t, z) ==
  LET l == t.child["left"][z]
      r == t.child["right"][z]
      y == Walk(t, "left")[r]
      x == t.child["right"][y]
      freed == IF t.parent[y] = z THEN SetParent(t, x, y)
               ELSE Attach(Transplant(t, y, x), "right", y, r)
      moved == Paint(Attach(Transplant(freed, z, y), "left", y, l),
                     IF z \in t.red THEN t.red \cup {y} ELSE t.red \ {y})
  IN  IF l = Nil THEN [tree |-> Transplant(t, z, r), at |-> r, gone |-> z]
      ELSE IF r = Nil THEN [tree |-> Transplant(t, z, l), at |-> l, gone |-> z]
      ELSE [tree |-> moved, at |-> x, gone |-> y]

\* The node that left is garbage.
Forgotten(t, z) == Paint(SetParent(Bare(t, z), z, Nil), t.red \ {z})

\* Mutant of Unlink: the successor does not take over z's left child.
UnlinkLeftBehind ==
  /\ pc = "search"
  /\ op.kind = "delete" /\ at = op.key
  /\ LET cut == Unlinked(tree, at)
         whole == cut.gone \in tree.red
     IN  /\ tree' = [Forgotten(cut.tree, at) EXCEPT !.size = @ - 1,
                                                    !.child["left"][cut.gone] = Nil]
         /\ at' = cut.at
         /\ pc' = IF whole THEN "idle" ELSE "deleteFixup"
         /\ op' = IF whole THEN NoOp ELSE op
  /\ UNCHANGED desc

\* Nothing is left to repair when the place that vanished was red.
Unlink == /\ pc = "search"
          /\ op.kind = "delete" /\ at = op.key
          /\ LET cut == Unlinked(tree, at)
                 whole == cut.gone \in tree.red
             IN  /\ tree' = [Forgotten(cut.tree, at) EXCEPT !.size = @ - 1]
                 /\ at' = cut.at
                 /\ pc' = IF whole THEN "idle" ELSE "deleteFixup"
                 /\ op' = IF whole THEN NoOp ELSE op
          /\ UNCHANGED desc

\* What a round does below p, where a black is missing on side d, once the node
\* on the other side is black: it gives up its own black, or a red child of it
\* is rotated in.
SiblingRound(t, p, d) ==
  LET e == Other(d)
      w == t.child[e][p]
      near == t.child[d][w]
      far == t.child[e][w]
      turned == IF far \in t.red THEN t
                ELSE Rotate(Paint(t, (t.red \ {near}) \cup {w}), w, e)
      v == turned.child[e][p]
      others == turned.red \ {v, p, turned.child[e][v]}
      reds == IF p \in turned.red THEN others \cup {v} ELSE others
      done == Rotate(Paint(turned, reds), p, d)
  IN  IF {near, far} \cap t.red = {} THEN [tree |-> Paint(t, t.red \cup {w}), at |-> p]
      ELSE [tree |-> done, at |-> done.root]

\* One round of deleteFixup at x, which lacks one black: a red sibling is first
\* rotated out of the way.
DeleteRound(t, x) ==
  LET p == t.parent[x]
      d == SideOf(t, x)
      w == t.child[Other(d)][p]
  IN  IF w \in t.red
        THEN SiblingRound(Rotate(Paint(t, (t.red \ {w}) \cup {p}), p, d), p, d)
        ELSE SiblingRound(t, p, d)

\* Mutant of DeleteFixup: x moves to the root also when it should climb.
DeleteFixupOnce == /\ pc = "deleteFixup"
                   /\ at # tree.root /\ at \notin tree.red
                   /\ tree' = DeleteRound(tree, at).tree
                   /\ at' = tree'.root
                   /\ UNCHANGED <<desc, op, pc>>

\* Mutant of DeleteFixup: the sibling is repaired, and x does not climb.
DeleteFixupStays == /\ pc = "deleteFixup"
                    /\ at # tree.root /\ at \notin tree.red
                    /\ tree' = DeleteRound(tree, at).tree
                    /\ UNCHANGED <<desc, op, pc, at>>

DeleteFixup == /\ pc = "deleteFixup"
               /\ at # tree.root /\ at \notin tree.red
               /\ LET round == DeleteRound(tree, at)
                  IN  tree' = round.tree /\ at' = round.at
               /\ UNCHANGED <<desc, op, pc>>

\* Mutant of DeleteDone: x keeps its colour.
DeleteDoneUnpainted == /\ pc = "deleteFixup"
                       /\ at = tree.root \/ at \in tree.red
                       /\ pc' = "idle"
                       /\ op' = NoOp
                       /\ UNCHANGED <<tree, desc, at>>

DeleteDone == /\ pc = "deleteFixup"
              /\ at = tree.root \/ at \in tree.red
              /\ tree' = [tree EXCEPT !.red = @ \ {at}]
              /\ pc' = "idle"
              /\ op' = NoOp
              /\ UNCHANGED <<desc, at>>

-----------------------------------------------------------------------------
(* The queries, and the specification.                                     *)

\* Mutant of Min: desc is not looked at.
MinLeftmost == Walk(tree, "left")[tree.root]

Min == Walk(tree, IF desc THEN "right" ELSE "left")[tree.root]
Max == Walk(tree, IF desc THEN "left" ELSE "right")[tree.root]

Work == \/ Descend \/ NothingToDo
        \/ Link \/ InsertFixup \/ InsertDone
        \/ Unlink \/ DeleteFixup \/ DeleteDone

Next == Call \/ Work

Spec == Init /\ [][Next]_vars
=============================================================================
