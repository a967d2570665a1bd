---------------------------- MODULE RedBlackTree -----------------------------
(***************************************************************************)
(* src/trees/red_black_tree.c: a red-black tree of linked nodes with a     *)
(* cached minimum.                                                         *)
(*                                                                         *)
(* A node is named by its key, which no operation copies into another      *)
(* node; its val stays with it and is left out.  Every turn of the two     *)
(* fix-up loops is a step.  A direction d stands for one arm of the code   *)
(* and its mirror: Rotate(t, "left", x) is rotate_left(t, x).              *)
(*                                                                         *)
(* contents is a history variable: the keys inserted and not deleted.      *)
(***************************************************************************)
EXTENDS Integers, FiniteSets

CONSTANTS
  Keys,  \* the int keys
  Nil    \* the sentinel t->nil

ASSUME KeysAssumption == Keys \subseteq Int /\ Nil \notin Keys

VARIABLES
  tree,      \* the linked nodes: root, child[d][n], parent[n], color[n]
  leftmost,  \* t->leftmost
  size,      \* t->size
  pc,        \* idle, insert and delete (in a fix-up loop), rebuild (leftmost)
  cur,       \* the node the fix-up loop looks at: z or x
  inserted,  \* the new node, during rbt_insert
  contents   \* history

vars == <<tree, leftmost, size, pc, cur, inserted, contents>>

Node == Keys \cup {Nil}
Side == {"left", "right"}
Other(d) == IF d = "left" THEN "right" ELSE "left"

Red(t, n) == n # Nil /\ t.color[n] = "red"
Painted(t, ns, c) ==
  [t EXCEPT !.color = [n \in Node |-> IF n \in ns THEN c ELSE @[n]]]

Init ==
  /\ tree = [root |-> Nil,
             child |-> [d \in Side |-> [n \in Node |-> Nil]],
             parent |-> [n \in Node |-> Nil],
             color |-> [n \in Node |-> "black"]]
  /\ leftmost = Nil
  /\ size = 0
  /\ pc = "idle" /\ cur = Nil /\ inserted = Nil
  /\ contents = {}
------------------------------------------------------------------------------
\* Walking the tree.

\* The side of n on which k belongs.
SideOf(k, n) == IF k < n THEN "left" ELSE "right"

\* Where the search for k ends (at k or Nil), and the node above that: the loop
\* over both.
Descent(t, k) ==
  LET walk[p \in Node \X Node] ==
        IF p[1] \in {Nil, k} THEN p
        ELSE walk[<<t.child[SideOf(k, p[1])][p[1]], p[1]>>]
      end == walk[<<t.root, Nil>>]
  IN  [at |-> end[1], above |-> end[2]]

Search(t, k) == Descent(t, k).at

\* The last node on side d of the subtree of n.
Outermost(t, d, n) ==
  LET walk[m \in Node] ==
        IF t.child[d][m] = Nil THEN m ELSE walk[t.child[d][m]]
  IN  walk[n]

Successor(t, n) ==
  LET climb[m \in Node] ==
        IF t.parent[m] # Nil /\ m = t.child["right"][t.parent[m]]
        THEN climb[t.parent[m]] ELSE t.parent[m]
  IN  IF t.child["right"][n] # Nil
      THEN Outermost(t, "left", t.child["right"][n])
      ELSE climb[n]
------------------------------------------------------------------------------
\* Surgery.

\* v, which may be Nil, takes the place of u.
Transplant(t, u, v) ==
  LET p == t.parent[u]
      d == IF u = t.child["left"][p] THEN "left" ELSE "right"
      linked == IF p = Nil THEN [t EXCEPT !.root = v]
                           ELSE [t EXCEPT !.child[d][p] = v]
  IN  [linked EXCEPT !.parent[v] = p]

\* c, which may be Nil, becomes the child of n on side d.
Hang(t, c, d, n) ==
  LET linked == [t EXCEPT !.child[d][n] = c]
  IN  IF c = Nil THEN linked ELSE [linked EXCEPT !.parent[c] = n]

\* x moves down on side d, and its child y from the other side moves up.
Rotate(t, d, x) ==
  LET y == t.child[Other(d)][x]
      lifted == Transplant(t, x, y)
  IN  Hang(Hang(lifted, t.child[d][y], Other(d), x), x, d, y)

\* The fields of a node that is not in the tree.
Blank(t, n) ==
  [t EXCEPT !.child["left"][n] = Nil, !.child["right"][n] = Nil,
            !.parent[n] = Nil, !.color[n] = "black"]
------------------------------------------------------------------------------
\* rbt_insert.

\* The new red node is linked below the node where the search ended.
InsertLink(k) ==
  /\ pc = "idle"
  /\ Search(tree, k) = Nil
  /\ LET y == Descent(tree, k).above
         fresh == [tree EXCEPT !.parent[k] = y, !.color[k] = "red"]
     IN  tree' = IF y = Nil THEN [fresh EXCEPT !.root = k]
                            ELSE [fresh EXCEPT !.child[SideOf(k, y)][y] = k]
  /\ size' = size + 1
  /\ pc' = "insert" /\ cur' = k /\ inserted' = k
  /\ contents' = contents \cup {k}
  /\ UNCHANGED leftmost

\* The key is there; its val is overwritten.
InsertUpdate(k) ==
  /\ pc = "idle"
  /\ Search(tree, k) = k
  /\ UNCHANGED vars

Parent == tree.parent[cur]
Grandparent == tree.parent[Parent]
ParentSide == IF Parent = tree.child["left"][Grandparent] THEN "left" ELSE "right"
Uncle == tree.child[Other(ParentSide)][Grandparent]

\* Case 1.
InsertRecolour ==
  /\ pc = "insert" /\ Red(tree, Parent) /\ Red(tree, Uncle)
  /\ tree' = Painted(Painted(tree, {Parent, Uncle}, "black"), {Grandparent}, "red")
  /\ cur' = Grandparent
  /\ UNCHANGED <<leftmost, size, pc, inserted, contents>>

\* Cases 2 and 3: an inner grandchild is first turned into an outer one.
InsertRotate ==
  /\ pc = "insert" /\ Red(tree, Parent) /\ ~Red(tree, Uncle)
  /\ LET d == ParentSide
         inner == cur = tree.child[Other(d)][Parent]
         z == IF inner THEN Parent ELSE cur
         t == IF inner THEN Rotate(tree, d, z) ELSE tree
         p == t.parent[z]
         g == t.parent[p]
     IN  /\ tree' = Rotate(Painted(Painted(t, {p}, "black"), {g}, "red"), Other(d), g)
         /\ cur' = z
  /\ UNCHANGED <<leftmost, size, pc, inserted, contents>>

InsertDone ==
  /\ pc = "insert" /\ ~Red(tree, Parent)
  /\ tree' = Painted(tree, {tree.root}, "black")
  /\ leftmost' = IF leftmost = Nil THEN inserted
                 ELSE IF inserted < leftmost THEN inserted ELSE leftmost
  /\ pc' = "idle" /\ cur' = Nil /\ inserted' = Nil
  /\ UNCHANGED <<size, contents>>
------------------------------------------------------------------------------
\* rbt_delete.

DeleteAbsent(k) ==
  /\ pc = "idle"
  /\ Search(tree, k) = Nil
  /\ UNCHANGED vars

\* The tree without z, the node x that moved up, and the colour that is
\* missing above it.
Unlinked(z) ==
  LET l == tree.child["left"][z]
      r == tree.child["right"][z]
      only == IF l = Nil THEN r ELSE l
      y == Outermost(tree, "left", r)
      x == tree.child["right"][y]
      lifted == IF tree.parent[y] = z THEN [tree EXCEPT !.parent[x] = y]
                ELSE Hang(Transplant(tree, y, x), r, "right", y)
      placed == Hang(Transplant(lifted, z, y), l, "left", y)
      moved == [placed EXCEPT !.color[y] = tree.color[z]]
  IN  IF l = Nil \/ r = Nil
      THEN [tree |-> Transplant(tree, z, only), at |-> only, lost |-> tree.color[z]]
      ELSE [tree |-> moved, at |-> x, lost |-> tree.color[y]]

DeleteUnlink(k) ==
  /\ pc = "idle"
  /\ Search(tree, k) = k
  /\ tree' = Blank(Unlinked(k).tree, k)
  /\ size' = size - 1
  /\ pc' = IF Unlinked(k).lost = "black" THEN "delete" ELSE "rebuild"
  /\ cur' = IF Unlinked(k).lost = "black" THEN Unlinked(k).at ELSE Nil
  /\ contents' = contents \ {k}
  /\ UNCHANGED <<leftmost, inserted>>

CurSide == IF cur = tree.child["left"][Parent] THEN "left" ELSE "right"

DeleteFixing == pc = "delete" /\ cur # tree.root /\ ~Red(tree, cur)

\* A red sibling is first rotated above the parent.
BlackSibling ==
  LET w == tree.child[Other(CurSide)][Parent]
  IN  IF Red(tree, w)
      THEN Rotate(Painted(Painted(tree, {w}, "black"), {Parent}, "red"), CurSide, Parent)
      ELSE tree

SiblingIn(t, d) == t.child[Other(d)][t.parent[cur]]

\* Mutant: the loop does not move up.
DeleteRecolourStays ==
  /\ DeleteFixing
  /\ LET t == BlackSibling
         w == SiblingIn(t, CurSide)
     IN  /\ \A d \in Side : ~Red(t, t.child[d][w])
         /\ tree' = Painted(t, {w}, "red")
  /\ UNCHANGED <<leftmost, size, pc, cur, inserted, contents>>

DeleteRecolour ==
  /\ DeleteFixing
  /\ LET t == BlackSibling
         w == SiblingIn(t, CurSide)
     IN  /\ \A d \in Side : ~Red(t, t.child[d][w])
         /\ tree' = Painted(t, {w}, "red")
         /\ cur' = t.parent[cur]
  /\ UNCHANGED <<leftmost, size, pc, inserted, contents>>

\* Mutant: a red nephew on the near side is not moved to the far side.
DeleteRotateNear ==
  /\ DeleteFixing
  /\ LET d == CurSide
         e == Other(d)
         s == BlackSibling
         w == SiblingIn(s, d)
         p == s.parent[cur]
         painted == Painted([s EXCEPT !.color[w] = s.color[p]],
                            {p, s.child[e][w]}, "black")
     IN  /\ \E side \in Side : Red(s, s.child[side][w])
         /\ tree' = Rotate(painted, d, p)
         /\ cur' = tree'.root
  /\ UNCHANGED <<leftmost, size, pc, inserted, contents>>

\* A red nephew on the near side is first moved to the far side.
DeleteRotate ==
  /\ DeleteFixing
  /\ LET d == CurSide
         e == Other(d)
         s == BlackSibling
         v == SiblingIn(s, d)
         near == s.child[d][v]
         t == IF Red(s, s.child[e][v]) THEN s
              ELSE Rotate(Painted(Painted(s, {near}, "black"), {v}, "red"), e, v)
         w == SiblingIn(t, d)
         p == t.parent[cur]
         painted == Painted([t EXCEPT !.color[w] = t.color[p]],
                            {p, t.child[e][w]}, "black")
     IN  /\ \E side \in Side : Red(s, s.child[side][v])
         /\ tree' = Rotate(painted, d, p)
         /\ cur' = tree'.root
  /\ UNCHANGED <<leftmost, size, pc, inserted, contents>>

DeleteFixed ==
  /\ pc = "delete" /\ ~DeleteFixing
  /\ tree' = Painted(tree, {cur}, "black")
  /\ pc' = "rebuild" /\ cur' = Nil
  /\ UNCHANGED <<leftmost, size, inserted, contents>>

\* Mutant: the cached minimum is rebuilt only when the tree became empty.
RebuildIfEmpty ==
  /\ pc = "rebuild"
  /\ leftmost' = IF tree.root = Nil THEN Nil ELSE leftmost
  /\ pc' = "idle"
  /\ UNCHANGED <<tree, size, cur, inserted, contents>>

Rebuild ==
  /\ pc = "rebuild"
  /\ leftmost' = IF tree.root = Nil THEN Nil ELSE Outermost(tree, "left", tree.root)
  /\ pc' = "idle"
  /\ UNCHANGED <<tree, size, cur, inserted, contents>>

Fix ==
  \/ InsertRecolour \/ InsertRotate \/ InsertDone
  \/ DeleteRecolour \/ DeleteRotate \/ DeleteFixed \/ Rebuild

Next ==
  \/ \E k \in Keys :
       InsertLink(k) \/ InsertUpdate(k) \/ DeleteUnlink(k) \/ DeleteAbsent(k)
  \/ Fix

Spec == Init /\ [][Next]_vars

\* A call that has begun runs on.
FairSpec == Spec /\ WF_vars(Fix)
------------------------------------------------------------------------------
TypeOK ==
  /\ tree \in [root : Node, child : [Side -> [Node -> Node]],
               parent : [Node -> Node], color : [Node -> {"red", "black"}]]
  /\ leftmost \in Node /\ cur \in Node /\ inserted \in Node
  /\ size \in Nat
  /\ pc \in {"idle", "insert", "delete", "rebuild"}
  /\ contents \subseteq Keys

\* The black nodes on a path down from n, when all paths have as many, or -1;
\* owed[m][d] counts the black nodes missing on side d of m.
BlackHeight(owed, n) ==
  LET bh[m \in Node] ==
        IF m = Nil THEN 1
        ELSE LET below == {LET b == bh[tree.child[d][m]]
                           IN IF b < 0 THEN -1 ELSE b + owed[m][d] : d \in Side}
             IN  IF Cardinality(below) # 1 \/ -1 \in below THEN -1
                 ELSE (CHOOSE b \in below : TRUE)
                        + (IF tree.color[m] = "black" THEN 1 ELSE 0)
  IN  bh[n]

NothingOwed == [n \in Node |-> [d \in Side |-> 0]]

\* The red nodes with a red parent.
RedPairs == {n \in contents : Red(tree, n) /\ Red(tree, tree.parent[n])}

\* What rbt_is_valid checks holds after every call, and the sentinel that all
\* fix-ups share is still black and childless.
Valid ==
  /\ pc \in {"idle", "rebuild"} =>
       ~Red(tree, tree.root) /\ RedPairs = {} /\ BlackHeight(NothingOwed, tree.root) > 0
  /\ tree.color[Nil] = "black" /\ \A d \in Side : tree.child[d][Nil] = Nil

\* In the middle of a fix-up only the node it looks at is out of order: an
\* insertion keeps the black heights, and only that node may be red below red
\* or a red root; a deletion keeps them up to one black owed there, and that
\* node is in every pair of red nodes.  Between calls nothing is.
OneDefect ==
  /\ TypeOK
  /\ Valid
  /\ pc = "insert" =>
       /\ RedPairs \subseteq {cur}
       /\ Red(tree, tree.root) => cur = tree.root
       /\ BlackHeight(NothingOwed, tree.root) > 0
  /\ pc = "delete" =>
       LET owed == [n \in Node |-> [d \in Side |->
                      IF tree.child[d][n] = cur /\ tree.parent[cur] = n THEN 1 ELSE 0]]
       IN  /\ \A n \in RedPairs : cur \in {n, tree.parent[n]}
           /\ BlackHeight(owed, tree.root) > 0

\* Between calls the cached minimum is the minimum of the tree.
LeftmostIsMin ==
  pc = "idle" =>
    IF contents = {} THEN leftmost = Nil
    ELSE leftmost \in contents /\ \A k \in contents : leftmost <= k

\* Between any two steps the links agree with each other, and search and
\* successor see exactly the keys inserted and not deleted, in order, from the
\* cached minimum on.
WalkIsSorted ==
  /\ LeftmostIsMin
  /\ tree.parent[tree.root] = Nil \/ tree.root = Nil
  /\ size = Cardinality(contents)
  /\ \A k \in Keys : Search(tree, k) = IF k \in contents THEN k ELSE Nil
  /\ \A k \in contents :
       LET above == {j \in contents : j > k}
           next == Successor(tree, k)
       IN  IF above = {} THEN next = Nil
           ELSE next \in above /\ \A j \in above : next <= j

\* Every insertion and deletion returns.
CallsReturn == (pc # "idle") ~> (pc = "idle")
==============================================================================
