------------------------- MODULE RedBlackTreeProofs --------------------------
(***************************************************************************)
(* The red-black tree is right for every set of integer keys: OneDefect    *)
(* and WalkIsSorted are invariants of RedBlackTree.                        *)
(*                                                                         *)
(* The inductive invariant, Sane, says that there are a function b of      *)
(* bounds and a function h of black heights that fit the links and the     *)
(* colours.  b[d][n] is the closest ancestor of n on side d: with it, being *)
(* a search tree is a fact about each node and its child (Shape), which    *)
(* every surgery keeps or changes at two nodes.  h[n] is the number of     *)
(* black nodes below n, up to what o says is owed: with it, the balance of *)
(* the tree is an equation about each node and its child (Heights).        *)
(*                                                                         *)
(* The loops of the code are recursive functions, whose equations have a   *)
(* solution (NaturalOrder) because a measure shrinks at each turn: the     *)
(* number of keys between the bounds on the way down, and of those outside *)
(* them on the way up.                                                     *)
(***************************************************************************)
EXTENDS RedBlackTree, NaturalOrder, FiniteSetTheorems
------------------------------------------------------------------------------
(* Search trees of nodes between bounds. *)

\* a lies on side d of k.
Before(d, a, k) == IF d = "left" THEN a < k ELSE k < a

\* The bound a on side d lets k through; Nil is no bound.
Past(d, a, k) == a = Nil \/ Before(d, a, k)

\* k lies between the bounds of n.
Inside(b, n, k) == \A d \in Side : Past(d, b[d][n], k)

\* The links of t are those of a search tree of the keys in C, in which the
\* subtree of n lies strictly between its bounds, the closest ancestors on its
\* two sides.
Shape(t, C, b) ==
  /\ t \in [root : Node, child : [Side -> [Node -> Node]],
            parent : [Node -> Node], color : [Node -> {"red", "black"}]]
  /\ C \subseteq Keys /\ IsFiniteSet(C)
  /\ b \in [Side -> [Node -> C \cup {Nil}]]
  /\ t.root \in C \cup {Nil}
  /\ t.root = Nil => C = {}
  /\ t.root # Nil => t.parent[t.root] = Nil /\ \A d \in Side : b[d][t.root] = Nil
  /\ \A n \in Node \ C, d \in Side : t.child[d][n] = Nil
  /\ \A n \in C : Inside(b, n, n)
  /\ \A n \in C, d \in Side : t.child[d][n] = Nil =>
       \A k \in C : ~(Past(d, b[d][n], k) /\ Before(d, k, n))
  /\ \A n \in C, d \in Side : t.child[d][n] # Nil =>
       /\ t.child[d][n] \in C
       /\ t.parent[t.child[d][n]] = n
       /\ b[d][t.child[d][n]] = b[d][n]
       /\ b[Other(d)][t.child[d][n]] = n
  /\ \A n \in C : n # t.root =>
       t.parent[n] \in C /\ \E d \in Side : t.child[d][t.parent[n]] = n

LEMMA SideFacts ==
  /\ Side = {"left", "right"}
  /\ \A d \in Side : Other(d) \in Side /\ Other(Other(d)) = d /\ Other(d) # d
                     /\ Side = {d, Other(d)}
BY DEF Side, Other

LEMMA KeyFacts == /\ \A k \in Keys : k \in Int /\ k # Nil
                  /\ Nil \in Node /\ Keys \subseteq Node
BY KeysAssumption DEF Node

\* Keys on both sides are ordered alike.
LEMMA BeforeFacts ==
  /\ \A d \in Side : \A x \in Keys : ~Before(d, x, x)
  /\ \A d \in Side : \A x, y, z \in Keys : Before(d, x, y) /\ Before(d, y, z) => Before(d, x, z)
  /\ \A d \in Side : \A x, y \in Keys : x = y \/ Before(d, x, y) \/ Before(d, y, x)
  /\ \A d \in Side : \A x, y \in Keys : ~(Before(d, x, y) /\ Before(d, y, x))
  /\ \A d \in Side : \A x, y \in Keys : Before(Other(d), x, y) <=> Before(d, y, x)
BY KeyFacts DEF Before, Side, Other

LEMMA BeforeTrans ==
  ASSUME NEW d \in Side, NEW x \in Keys, NEW y \in Keys, NEW z \in Keys,
         Before(d, x, y), Before(d, y, z)
  PROVE  Before(d, x, z)
BY BeforeFacts

LEMMA BeforeOther ==
  ASSUME NEW d \in Side, NEW x \in Keys, NEW y \in Keys
  PROVE  Before(Other(d), x, y) <=> Before(d, y, x)
BY BeforeFacts

LEMMA SideOfFacts ==
  ASSUME NEW k \in Keys, NEW n \in Keys, k # n
  PROVE  SideOf(k, n) \in Side /\ Before(SideOf(k, n), k, n)
BY KeyFacts DEF SideOf, Side, Before

\* Going down to a child keeps what lies on its side between the bounds.
LEMMA Downwards ==
  ASSUME NEW t, NEW C, NEW b, Shape(t, C, b), NEW n \in C, NEW d \in Side,
         t.child[d][n] # Nil
  PROVE  /\ t.child[d][n] \in C /\ t.child[d][n] # n /\ Before(d, t.child[d][n], n)
         /\ Inside(b, n, t.child[d][n])
         /\ \A k \in Keys : Inside(b, t.child[d][n], k) <=> Inside(b, n, k) /\ Before(d, k, n)
<1> DEFINE c == t.child[d][n]
<1>1. /\ c \in C /\ C \subseteq Keys /\ b[d][c] = b[d][n] /\ b[Other(d)][c] = n
      /\ Inside(b, n, n) /\ Inside(b, c, c) /\ b \in [Side -> [Node -> C \cup {Nil}]]
  BY DEF Shape
<1>2. Side = {d, Other(d)} /\ Other(d) \in Side
  BY SideFacts
<1>3. n \in Keys /\ c \in Keys /\ n # Nil /\ b[Other(d)][n] \in C \cup {Nil} /\ b[d][n] \in C \cup {Nil}
  BY <1>1, <1>2, KeyFacts
<1>4. \A k \in Keys : Inside(b, c, k) <=> Past(d, b[d][n], k) /\ Before(d, k, n)
  <2> TAKE k \in Keys
  <2>1. Inside(b, c, k) <=> Past(d, b[d][n], k) /\ Past(Other(d), n, k)
    BY <1>1, <1>2 DEF Inside
  <2>2. Past(Other(d), n, k) <=> Before(d, k, n)
    BY <1>3, BeforeFacts DEF Past
  <2> QED
    BY <2>1, <2>2
<1>5. \A k \in Keys : Before(d, k, n) => Past(Other(d), b[Other(d)][n], k)
  <2> TAKE k \in Keys
  <2> HAVE Before(d, k, n)
  <2>1. CASE b[Other(d)][n] = Nil
    BY <2>1 DEF Past
  <2>2. CASE b[Other(d)][n] # Nil
    <3>1. b[Other(d)][n] \in Keys /\ Before(Other(d), b[Other(d)][n], n)
      BY <1>1, <1>2, <1>3, <2>2 DEF Inside, Past
    <3>2. Before(d, n, b[Other(d)][n])
      BY <1>3, <3>1, BeforeFacts
    <3>3. Before(d, k, b[Other(d)][n])
      BY <1>3, <3>1, <3>2, BeforeFacts
    <3> QED
      BY <3>1, <3>3, BeforeFacts DEF Past
  <2> QED
    BY <2>1, <2>2
<1>6. \A k \in Keys : Inside(b, c, k) <=> Inside(b, n, k) /\ Before(d, k, n)
  <2> TAKE k \in Keys
  <2>1. Inside(b, n, k) <=> Past(d, b[d][n], k) /\ Past(Other(d), b[Other(d)][n], k)
    BY <1>2 DEF Inside
  <2> QED
    BY <1>4, <1>5, <2>1
<1>7. Before(d, c, n) /\ Inside(b, n, c)
  BY <1>1, <1>3, <1>6
<1>8. c # n
  BY <1>3, <1>7, BeforeFacts
<1> QED
  BY <1>1, <1>6, <1>7, <1>8

\* The keys below n.
Below(C, b, n) == {k \in C : Inside(b, n, k)}

\* What shrinks on the way down: nothing below Nil, n itself below a node that
\* is not in the tree.
Mass(C, b) == [n \in Node |-> IF n = Nil THEN 0
                              ELSE IF n \in C THEN Cardinality(Below(C, b, n)) + 1 ELSE 1]

LEMMA MassShrinks ==
  ASSUME NEW t, NEW C, NEW b, Shape(t, C, b)
  PROVE  /\ Mass(C, b) \in [Node -> Nat]
         /\ \A n \in Node, d \in Side : n # Nil =>
              t.child[d][n] \in Node /\ Mass(C, b)[t.child[d][n]] < Mass(C, b)[n]
<1>1. /\ IsFiniteSet(C) /\ C \subseteq Keys /\ C \subseteq Node /\ Nil \notin C /\ Nil \in Node
      /\ t.child \in [Side -> [Node -> Node]]
  BY KeyFacts DEF Shape, Node
<1>2. \A n \in Node : IsFiniteSet(Below(C, b, n)) /\ Cardinality(Below(C, b, n)) \in Nat
  <2> TAKE n \in Node
  <2>1. Below(C, b, n) \subseteq C
    BY DEF Below
  <2>2. IsFiniteSet(Below(C, b, n))
    BY <1>1, <2>1, FS_Subset
  <2> QED
    BY <2>2, FS_CardinalityType
<1>3. Mass(C, b) \in [Node -> Nat]
  <2>1. \A n \in Node : Cardinality(Below(C, b, n)) + 1 \in Nat
    BY <1>2
  <2> QED
    BY <2>1 DEF Mass
<1>4. ASSUME NEW n \in Node, NEW d \in Side, n # Nil
      PROVE  Mass(C, b)[t.child[d][n]] < Mass(C, b)[n]
  <2> DEFINE c == t.child[d][n]
  <2>1. c \in Node
    BY <1>1
  <2>2. CASE n \notin C
    <3>1. c = Nil
      BY <2>2 DEF Shape
    <3>2. Mass(C, b)[c] = 0 /\ Mass(C, b)[n] = 1
      BY <1>1, <1>4, <2>2, <3>1 DEF Mass
    <3> QED
      BY <3>2
  <2>3. CASE n \in C /\ c = Nil
    <3>1. Mass(C, b)[c] = 0 /\ Mass(C, b)[n] = Cardinality(Below(C, b, n)) + 1
      BY <1>1, <1>4, <2>3 DEF Mass
    <3> QED
      BY <1>2, <3>1
  <2>4. CASE n \in C /\ c # Nil
    <3>1. c \in C /\ Below(C, b, c) \subseteq Below(C, b, n)
      BY <1>1, <2>4, Downwards DEF Below
    <3>2. n \in Below(C, b, n)
      BY <2>4 DEF Below, Shape
    <3>3. n \notin Below(C, b, c)
      <4>1. n \in Keys /\ ~Before(d, n, n)
        BY <1>1, <2>4, BeforeFacts
      <4> QED
        BY <2>4, <4>1, Downwards DEF Below
    <3>4. Cardinality(Below(C, b, c)) < Cardinality(Below(C, b, n))
      <4>1. Cardinality(Below(C, b, c)) <= Cardinality(Below(C, b, n))
            /\ (Cardinality(Below(C, b, c)) = Cardinality(Below(C, b, n))
                  => Below(C, b, c) = Below(C, b, n))
        BY <1>2, <3>1, FS_Subset
      <4> QED
        BY <1>2, <2>1, <3>2, <3>3, <4>1
    <3>5. Mass(C, b)[c] = Cardinality(Below(C, b, c)) + 1
          /\ Mass(C, b)[n] = Cardinality(Below(C, b, n)) + 1
      BY <1>1, <2>1, <2>4, <3>1 DEF Mass
    <3> QED
      BY <1>2, <2>1, <3>4, <3>5
  <2> QED
    BY <2>2, <2>3, <2>4
<1> QED
  BY <1>1, <1>3, <1>4
------------------------------------------------------------------------------
(* The loops that slide down and climb up. *)

\* What shrinks on the way up.
Rise(C, b) == [n \in Node |-> IF n = Nil THEN Cardinality(C) + 1
                              ELSE IF n \in C THEN Cardinality(C \ Below(C, b, n)) ELSE 0]

LEMMA RiseShrinks ==
  ASSUME NEW t, NEW C, NEW b, Shape(t, C, b)
  PROVE  /\ Rise(C, b) \in [Node -> Nat]
         /\ \A n \in C : n # t.root =>
              t.parent[n] \in Node /\ Rise(C, b)[t.parent[n]] < Rise(C, b)[n]
         /\ \A n \in Node \ {Nil} : Rise(C, b)[n] < Rise(C, b)[Nil]
<1>1. /\ IsFiniteSet(C) /\ C \subseteq Keys /\ C \subseteq Node /\ Nil \notin C /\ Nil \in Node
      /\ Cardinality(C) \in Nat
  BY KeyFacts, FS_CardinalityType DEF Shape, Node
<1>2. \A n \in Node : /\ Cardinality(C \ Below(C, b, n)) \in Nat
                      /\ Cardinality(C \ Below(C, b, n)) <= Cardinality(C)
                      /\ IsFiniteSet(C \ Below(C, b, n))
  <2> TAKE n \in Node
  <2>1. C \ Below(C, b, n) \in SUBSET C
    OBVIOUS
  <2>2. IsFiniteSet(C \ Below(C, b, n)) /\ Cardinality(C \ Below(C, b, n)) <= Cardinality(C)
    BY <1>1, <2>1, FS_Subset
  <2> QED
    BY <2>2, FS_CardinalityType
<1>3. Rise(C, b) \in [Node -> Nat]
  <2>1. Cardinality(C) + 1 \in Nat
    BY <1>1
  <2> QED
    BY <1>2, <2>1 DEF Rise
<1>4. ASSUME NEW n \in C, n # t.root
      PROVE  t.parent[n] \in Node /\ Rise(C, b)[t.parent[n]] < Rise(C, b)[n]
  <2> DEFINE p == t.parent[n]
  <2>1. p \in C /\ p \in Node /\ n \in Node /\ p # Nil /\ n # Nil
    BY <1>1, <1>4 DEF Shape
  <2>2. PICK d \in Side : t.child[d][p] = n
    BY <1>4 DEF Shape
  <2>3. Below(C, b, n) \subseteq Below(C, b, p)
    BY <1>1, <2>1, <2>2, Downwards DEF Below
  <2>4. p \in Below(C, b, p)
    BY <2>1 DEF Below, Shape
  <2>5. p \notin Below(C, b, n)
    <3>1. p \in Keys /\ ~Before(d, p, p)
      BY <1>1, <2>1, BeforeFacts
    <3> QED
      BY <2>1, <2>2, <3>1, Downwards DEF Below
  <2>6. Cardinality(C \ Below(C, b, p)) < Cardinality(C \ Below(C, b, n))
    <3>1. C \ Below(C, b, p) \in SUBSET (C \ Below(C, b, n))
      BY <2>3
    <3>2. /\ Cardinality(C \ Below(C, b, p)) <= Cardinality(C \ Below(C, b, n))
          /\ (Cardinality(C \ Below(C, b, n)) = Cardinality(C \ Below(C, b, p))
                => C \ Below(C, b, n) = C \ Below(C, b, p))
      BY <1>2, <2>1, <3>1, FS_Subset
    <3>3. C \ Below(C, b, n) # C \ Below(C, b, p)
      BY <2>1, <2>4, <2>5
    <3> QED
      BY <1>2, <2>1, <3>2, <3>3
  <2>7. Rise(C, b)[p] = Cardinality(C \ Below(C, b, p)) /\ Rise(C, b)[n] = Cardinality(C \ Below(C, b, n))
    BY <1>1, <2>1 DEF Rise
  <2> QED
    BY <2>1, <2>6, <2>7
<1>5. ASSUME NEW n \in Node \ {Nil} PROVE Rise(C, b)[n] < Rise(C, b)[Nil]
  <2>1. Rise(C, b)[Nil] = Cardinality(C) + 1
    BY <1>1 DEF Rise
  <2>2. Rise(C, b)[n] = Cardinality(C \ Below(C, b, n)) \/ Rise(C, b)[n] = 0
    BY <1>5 DEF Rise
  <2> QED
    BY <1>1, <1>2, <2>1, <2>2
<1> QED
  BY <1>3, <1>4, <1>5

\* A node lies between the bounds of each of its own bounds.
LEMMA Surrounded ==
  ASSUME NEW t, NEW C, NEW b, Shape(t, C, b), NEW n \in C, NEW d \in Side, b[d][n] # Nil
  PROVE  b[d][n] \in C /\ Inside(b, b[d][n], n)
<1> DEFINE T == {x \in Node : x \in C =>
                   \A e \in Side : b[e][x] # Nil => Inside(b, b[e][x], x)}
           m == Rise(C, b)
<1>1. C \subseteq Keys /\ C \subseteq Node /\ b \in [Side -> [Node -> C \cup {Nil}]]
      /\ \A x \in C : x \in Keys /\ x # Nil
  BY KeyFacts DEF Shape
<1>2. m \in [Node -> Nat]
  BY RiseShrinks
<1>3. ASSUME NEW x \in Node, \A y \in Node : m[y] < m[x] => y \in T
      PROVE  x \in T
  <2> SUFFICES ASSUME x \in C, NEW e \in Side, b[e][x] # Nil PROVE Inside(b, b[e][x], x)
    OBVIOUS
  <2>1. x # t.root
    BY DEF Shape
  <2> DEFINE p == t.parent[x]
  <2>2. p \in C /\ p \in Node /\ p \in T
    <3>1. p \in C /\ p \in Node
      BY <1>1, <2>1 DEF Shape
    <3>2. m[p] < m[x]
      BY <2>1, RiseShrinks
    <3> QED
      BY <1>3, <3>1, <3>2
  <2>3. PICK s \in Side : t.child[s][p] = x
    BY <2>1 DEF Shape
  <2>4. /\ b[s][x] = b[s][p] /\ b[Other(s)][x] = p /\ x \in Keys /\ p \in Keys
        /\ Before(s, x, p) /\ Inside(b, p, x)
    <3>1. t.child[s][p] # Nil /\ x \in Keys /\ p \in Keys
      BY <1>1, <2>2, <2>3
    <3>2. b[s][x] = b[s][p] /\ b[Other(s)][x] = p
      BY <2>2, <2>3, <3>1 DEF Shape
    <3>3. Before(s, x, p) /\ Inside(b, p, x)
      BY <2>2, <2>3, <3>1, Downwards
    <3> QED
      BY <3>1, <3>2, <3>3
  <2>5. CASE e = Other(s)
    BY <2>4, <2>5
  <2>6. CASE e = s
    <3> DEFINE q == b[s][p]
    <3>1. q \in C /\ q \in Keys /\ Inside(b, q, p) /\ b[s][x] = q
      BY <1>1, <2>2, <2>4, <2>6
    <3>2. Before(s, q, x)
      BY <1>1, <2>4, <2>6, <3>1 DEF Shape, Inside, Past
    <3>3. Past(s, b[s][q], x)
      <4>1. CASE b[s][q] = Nil
        BY <4>1 DEF Past
      <4>2. CASE b[s][q] # Nil
        <5>1. b[s][q] \in Keys /\ Before(s, b[s][q], q)
          BY <1>1, <3>1, <4>2 DEF Shape, Inside, Past
        <5> QED
          BY <2>4, <3>1, <3>2, <5>1, BeforeFacts DEF Past
      <4> QED
        BY <4>1, <4>2
    <3>4. Past(Other(s), b[Other(s)][q], x)
      <4>1. CASE b[Other(s)][q] = Nil
        BY <4>1 DEF Past
      <4>2. CASE b[Other(s)][q] # Nil
        <5>1. Other(s) \in Side
          BY SideFacts
        <5>2. b[Other(s)][q] \in Keys /\ Before(Other(s), b[Other(s)][q], p)
          BY <1>1, <3>1, <4>2, <5>1 DEF Inside, Past
        <5>3. Before(s, p, b[Other(s)][q])
          BY <2>4, <5>2, BeforeOther
        <5>4. Before(s, x, b[Other(s)][q])
          BY <2>4, <5>2, <5>3, BeforeTrans
        <5>5. Before(Other(s), b[Other(s)][q], x)
          BY <2>4, <5>2, <5>4, BeforeOther
        <5> QED
          BY <5>5 DEF Past
      <4> QED
        BY <4>1, <4>2
    <3>5. Inside(b, q, x)
      BY <3>3, <3>4, SideFacts DEF Inside
    <3> QED
      BY <2>6, <3>1, <3>5
  <2> QED
    BY <2>5, <2>6, SideFacts
<1> HIDE DEF T, m
<1>4. Node \subseteq T
  BY <1>2, <1>3, MeasureInduction
<1>5. n \in T
  BY <1>1, <1>4
<1> QED
  BY <1>1, <1>5 DEF T

\* The loop of Outermost.
Sliding(t, d, f) == [m \in Node |-> IF t.child[d][m] = Nil THEN m ELSE f[t.child[d][m]]]

LEMMA SlidingRecursion ==
  ASSUME NEW t, NEW C, NEW b, Shape(t, C, b), NEW d \in Side
  PROVE  \E f : f = Sliding(t, d, f)
<1> DEFINE stop == [m \in Node |-> t.child[d][m] = Nil]
           base == [m \in Node |-> m]
           nx == [m \in Node |-> t.child[d][m]]
           m == Mass(C, b)
<1>1. m \in [Node -> Nat]
  BY MassShrinks
<1>2. stop \in [Node -> BOOLEAN] /\ base \in [Node -> Node] /\ nx \in [Node -> Node]
  BY DEF Shape
<1>3. \A x \in Node : ~stop[x] => m[nx[x]] < m[x]
  <2> TAKE x \in Node
  <2> HAVE ~stop[x]
  <2>1. x # Nil
    BY KeyFacts DEF Shape
  <2> QED
    BY <2>1, MassShrinks
<1>4. \A f \in [Node -> Node] : Loops(f, Node, stop, base, nx) => f = Sliding(t, d, f)
  BY DEF Loops, Sliding
<1> HIDE DEF stop, base, nx, m
<1>5. \E f \in [Node -> Node] : Loops(f, Node, stop, base, nx)
  BY <1>1, <1>2, <1>3, LoopRecursion
<1> QED
  BY <1>4, <1>5

\* The last node on side d below n has no child there, is n's own on that side
\* and lies below n.
LEMMA OutermostFacts ==
  ASSUME NEW t, NEW C, NEW b, Shape(t, C, b), NEW d \in Side, NEW n \in C
  PROVE  LET y == Outermost(t, d, n)
         IN  y \in C /\ t.child[d][y] = Nil /\ b[d][y] = b[d][n] /\ Inside(b, n, y)
<1> DEFINE f == CHOOSE g : g = Sliding(t, d, g)
           m == Mass(C, b)
           T == {x \in Node : x \in C => /\ f[x] \in C /\ t.child[d][f[x]] = Nil
                                         /\ b[d][f[x]] = b[d][x] /\ Inside(b, x, f[x])}
<1>1. f = Sliding(t, d, f)
  BY SlidingRecursion
<1>2. Outermost(t, d, n) = f[n]
  BY DEF Outermost, Sliding
<1> HIDE DEF f
<1>3. \A x \in Node : f[x] = IF t.child[d][x] = Nil THEN x ELSE f[t.child[d][x]]
  BY <1>1 DEF Sliding
<1>4. C \subseteq Keys /\ C \subseteq Node /\ Nil \notin C
  BY KeyFacts DEF Shape
<1>5. m \in [Node -> Nat]
  BY MassShrinks
<1>6. ASSUME NEW x \in Node, \A y \in Node : m[y] < m[x] => y \in T
      PROVE  x \in T
  <2> SUFFICES ASSUME x \in C
               PROVE /\ f[x] \in C /\ t.child[d][f[x]] = Nil
                     /\ b[d][f[x]] = b[d][x] /\ Inside(b, x, f[x])
    OBVIOUS
  <2>1. CASE t.child[d][x] = Nil
    BY <1>3, <2>1 DEF Shape
  <2>2. CASE t.child[d][x] # Nil
    <3> DEFINE c == t.child[d][x]
    <3>1. c \in C /\ b[d][c] = b[d][x] /\ \A k \in Keys : Inside(b, c, k) => Inside(b, x, k)
      <4>1. c \in C /\ b[d][c] = b[d][x]
        BY <2>2 DEF Shape
      <4>2. \A k \in Keys : Inside(b, c, k) => Inside(b, x, k)
        BY <2>2, Downwards
      <4> QED
        BY <4>1, <4>2
    <3>2. c \in Node /\ m[c] < m[x]
      BY <1>4, MassShrinks
    <3>3. c \in T /\ f[x] = f[c]
      BY <1>3, <1>6, <2>2, <3>2
    <3> HIDE DEF c
    <3> QED
      BY <1>4, <3>1, <3>3
  <2> QED
    BY <2>1, <2>2
<1> HIDE DEF T, m
<1>7. Node \subseteq T
  BY <1>5, <1>6, MeasureInduction
<1>8. n \in T
  BY <1>4, <1>7
<1> QED
  BY <1>2, <1>8 DEF T

\* The loop of Successor that climbs.
Climbing(t, f) ==
  [m \in Node |-> IF t.parent[m] # Nil /\ m = t.child["right"][t.parent[m]]
                  THEN f[t.parent[m]] ELSE t.parent[m]]

LEMMA ClimbingRecursion ==
  ASSUME NEW t, NEW C, NEW b, Shape(t, C, b)
  PROVE  \E f : f = Climbing(t, f)
<1> DEFINE stop == [m \in Node |-> ~(t.parent[m] # Nil /\ m = t.child["right"][t.parent[m]])]
           base == [m \in Node |-> t.parent[m]]
           m == Rise(C, b)
<1>1. m \in [Node -> Nat]
  BY RiseShrinks
<1>2. stop \in [Node -> BOOLEAN] /\ base \in [Node -> Node]
  BY DEF Shape
<1>3. \A x \in Node : ~stop[x] => m[base[x]] < m[x]
  <2> TAKE x \in Node
  <2> HAVE ~stop[x]
  <2>1. t.parent[x] \in Node \ {Nil} /\ x = t.child["right"][t.parent[x]] /\ base[x] = t.parent[x]
    BY <1>2
  <2>2. x \in C \/ x = Nil
    <3>1. "right" \in Side
      BY SideFacts
    <3> QED
      BY <2>1, <3>1 DEF Shape
  <2>3. CASE x = Nil
    BY <2>1, <2>3, RiseShrinks
  <2>4. CASE x \in C
    <3>1. x # t.root
      BY <2>1, <2>4, KeyFacts DEF Shape
    <3> QED
      BY <2>1, <2>4, <3>1, RiseShrinks
  <2> QED
    BY <2>2, <2>3, <2>4
<1>4. \A f \in [Node -> Node] : Loops(f, Node, stop, base, base) => f = Climbing(t, f)
  BY DEF Loops, Climbing
<1> HIDE DEF stop, base, m
<1>5. \E f \in [Node -> Node] : Loops(f, Node, stop, base, base)
  BY <1>1, <1>2, <1>3, LoopRecursion
<1> QED
  BY <1>4, <1>5

\* Climbing from n ends at n's bound on the right.
LEMMA ClimbFacts ==
  ASSUME NEW t, NEW C, NEW b, Shape(t, C, b), NEW n \in C, NEW f, f = Climbing(t, f)
  PROVE  f[n] = b["right"][n]
<1> DEFINE m == Rise(C, b)
           T == {x \in Node : x \in C => f[x] = b["right"][x]}
<1>1. \A x \in Node : f[x] = IF t.parent[x] # Nil /\ x = t.child["right"][t.parent[x]]
                             THEN f[t.parent[x]] ELSE t.parent[x]
  BY DEF Climbing
<1>2. C \subseteq Keys /\ C \subseteq Node /\ Nil \notin C
  BY KeyFacts DEF Shape
<1>3. m \in [Node -> Nat]
  BY RiseShrinks
<1>4. ASSUME NEW x \in Node, \A y \in Node : m[y] < m[x] => y \in T
      PROVE  x \in T
  <2> SUFFICES ASSUME x \in C PROVE f[x] = b["right"][x]
    OBVIOUS
  <2>1. CASE x = t.root
    <3>1. t.parent[x] = Nil /\ b["right"][x] = Nil
      BY <1>2, <2>1, SideFacts DEF Shape
    <3> QED
      BY <1>1, <3>1
  <2>2. CASE x # t.root
    <3> DEFINE p == t.parent[x]
    <3>1. p \in C /\ p \in Node /\ p # Nil /\ m[p] < m[x]
      BY <1>2, <2>2, RiseShrinks DEF Shape
    <3>2. p \in T
      BY <1>4, <3>1
    <3>3. PICK d \in Side : t.child[d][p] = x
      BY <2>2 DEF Shape
    <3>4. b[d][x] = b[d][p] /\ b[Other(d)][x] = p /\ Before(d, x, p)
      <4>1. b[d][x] = b[d][p] /\ b[Other(d)][x] = p
        BY <1>2, <3>1, <3>3 DEF Shape
      <4>2. Before(d, x, p)
        BY <1>2, <3>1, <3>3, Downwards
      <4> QED
        BY <4>1, <4>2
    <3>5. CASE d = "right"
      BY <1>1, <3>1, <3>2, <3>3, <3>4, <3>5
    <3>6. CASE d = "left"
      <4>1. b["right"][x] = p
        BY <3>4, <3>6 DEF Other
      <4>2. t.child["right"][p] # x
        <5> SUFFICES ASSUME t.child["right"][p] = x PROVE FALSE
          OBVIOUS
        <5>1. Before("right", x, p) /\ "right" \in Side /\ "left" \in Side
          BY <1>2, <3>1, Downwards, SideFacts
        <5>2. x < p /\ p < x /\ x \in Int /\ p \in Int
          BY <1>2, <3>1, <3>4, <3>6, <5>1, KeyFacts DEF Before
        <5> QED
          BY <5>2
      <4> QED
        BY <1>1, <4>1, <4>2
    <3> QED
      BY <3>5, <3>6, SideFacts
  <2> QED
    BY <2>1, <2>2
<1> HIDE DEF T, m
<1>5. Node \subseteq T
  BY <1>3, <1>4, MeasureInduction
<1>6. n \in T
  BY <1>2, <1>5
<1> QED
  BY <1>6 DEF T
------------------------------------------------------------------------------
(* What search, the minimum and successor return. *)

\* The loop of the search.
Descending(t, k, f) ==
  [p \in Node \X Node |-> IF p[1] \in {Nil, k} THEN p
                          ELSE f[<<t.child[SideOf(k, p[1])][p[1]], p[1]>>]]

LEMMA DescendingRecursion ==
  ASSUME NEW t, NEW C, NEW b, Shape(t, C, b), NEW k \in Keys
  PROVE  \E f : f = Descending(t, k, f)
<1> DEFINE D == Node \X Node
           stop == [p \in D |-> p[1] \in {Nil, k}]
           base == [p \in D |-> p]
           nx == [p \in D |-> IF p[1] \in {Nil, k} THEN p
                              ELSE <<t.child[SideOf(k, p[1])][p[1]], p[1]>>]
           m == [p \in D |-> Mass(C, b)[p[1]]]
<1>1. \A n \in Node : n \notin {Nil, k} =>
        /\ n \in Keys /\ SideOf(k, n) \in Side
        /\ t.child[SideOf(k, n)][n] \in Node
        /\ Mass(C, b)[t.child[SideOf(k, n)][n]] < Mass(C, b)[n]
  BY SideOfFacts, MassShrinks DEF Node
<1>2. m \in [D -> Nat]
  BY MassShrinks
<1>3. stop \in [D -> BOOLEAN] /\ base \in [D -> D]
  OBVIOUS
<1>4. \A p \in D : ~stop[p] => nx[p] \in D /\ m[nx[p]] < m[p]
  <2> TAKE p \in D
  <2> HAVE ~stop[p]
  <2>1. p[1] \notin {Nil, k} /\ p[1] \in Node
    OBVIOUS
  <2> DEFINE q == <<t.child[SideOf(k, p[1])][p[1]], p[1]>>
  <2>2. nx[p] = q /\ q \in D /\ q[1] = t.child[SideOf(k, p[1])][p[1]]
    BY <1>1, <2>1
  <2> HIDE DEF q
  <2>3. m[q] = Mass(C, b)[q[1]] /\ m[p] = Mass(C, b)[p[1]]
    BY <2>2
  <2> HIDE DEF m, nx
  <2> QED
    BY <1>1, <2>1, <2>2, <2>3
<1>5. nx \in [D -> D]
  <2>1. \A p \in D : (IF p[1] \in {Nil, k} THEN p
                      ELSE <<t.child[SideOf(k, p[1])][p[1]], p[1]>>) \in D
    BY <1>1
  <2> QED
    BY <2>1
<1>6. \A f \in [D -> D] : Loops(f, D, stop, base, nx) => f = Descending(t, k, f)
  BY DEF Loops, Descending
<1> HIDE DEF D, stop, base, nx, m
<1>7. \E f \in [D -> D] : Loops(f, D, stop, base, nx)
  BY <1>2, <1>3, <1>4, <1>5, LoopRecursion
<1> QED
  BY <1>6, <1>7

\* The search finds what is there, and else the node with a free place for k.
LEMMA DescentFacts ==
  ASSUME NEW t, NEW C, NEW b, Shape(t, C, b), NEW k \in Keys
  PROVE  /\ k \in C => Descent(t, k).at = k
         /\ k \notin C =>
              /\ Descent(t, k).at = Nil
              /\ t.root = Nil => Descent(t, k).above = Nil
              /\ t.root # Nil =>
                   LET y == Descent(t, k).above
                   IN  y \in C /\ Inside(b, y, k) /\ t.child[SideOf(k, y)][y] = Nil
<1> DEFINE D == Node \X Node
           f == CHOOSE g : g = Descending(t, k, g)
           m == [p \in D |-> Mass(C, b)[p[1]]]
           Right(r) == IF k \in C THEN r[1] = k
                       ELSE /\ r[1] = Nil /\ r[2] \in C /\ Inside(b, r[2], k)
                            /\ t.child[SideOf(k, r[2])][r[2]] = Nil
           T == {p \in D : p[1] \in C /\ Inside(b, p[1], k) => Right(f[p])}
<1>1. f = Descending(t, k, f)
  BY DescendingRecursion
<1>2. Descent(t, k) = [at |-> f[<<t.root, Nil>>][1], above |-> f[<<t.root, Nil>>][2]]
  BY DEF Descent, Descending
<1> HIDE DEF f
<1>3. \A p \in D : f[p] = IF p[1] \in {Nil, k} THEN p
                          ELSE f[<<t.child[SideOf(k, p[1])][p[1]], p[1]>>]
  BY <1>1 DEF Descending
<1>4. C \subseteq Keys /\ C \subseteq Node /\ Nil \notin C /\ Nil \in Node /\ t.root \in Node
      /\ b \in [Side -> [Node -> C \cup {Nil}]]
  BY KeyFacts DEF Shape
<1>5. m \in [D -> Nat]
  BY MassShrinks
<1>6. ASSUME NEW p \in D, \A q \in D : m[q] < m[p] => q \in T PROVE p \in T
  <2> SUFFICES ASSUME p[1] \in C, Inside(b, p[1], k) PROVE Right(f[p])
    OBVIOUS
  <2> DEFINE n == p[1]
  <2>1. n \in C /\ n \in Node /\ n # Nil /\ n \in Keys /\ Inside(b, n, k)
    BY <1>4
  <2>2. CASE n = k
    BY <1>3, <1>4, <2>1, <2>2
  <2>3. CASE n # k
    <3> DEFINE s == SideOf(k, n)
               c == t.child[s][n]
               q == <<c, n>>
    <3>1. s \in Side /\ Before(s, k, n)
      BY <2>1, <2>3, SideOfFacts
    <3>2. c \in Node /\ Mass(C, b)[c] < Mass(C, b)[n]
      BY <2>1, <3>1, MassShrinks
    <3>3. q \in D /\ q[1] = c /\ q[2] = n /\ f[p] = f[q]
      BY <1>3, <2>1, <2>3, <3>2
    <3>4. CASE c = Nil
      <4>1. k \notin C
        BY <2>1, <3>1, <3>4 DEF Shape, Inside
      <4>2. f[q] = q
        BY <1>3, <3>3, <3>4
      <4> QED
        BY <2>1, <3>3, <3>4, <4>1, <4>2
    <3>5. CASE c # Nil
      <4>1. c \in C /\ Inside(b, c, k)
        BY <2>1, <3>1, <3>5, Downwards
      <4>2. m[q] < m[p]
        <5>1. m[q] = Mass(C, b)[q[1]] /\ m[p] = Mass(C, b)[p[1]]
          BY <3>3
        <5> HIDE DEF m, q, c
        <5> QED
          BY <3>2, <3>3, <5>1
      <4>3. q \in T
        BY <1>6, <3>3, <4>2
      <4> HIDE DEF q, m, c, Right
      <4> QED
        BY <3>3, <4>1, <4>3
    <3> QED
      BY <3>4, <3>5
  <2> QED
    BY <2>2, <2>3
<1> HIDE DEF T, m, D
<1>7. D \subseteq T
  BY <1>5, <1>6, MeasureInduction
<1> DEFINE start == <<t.root, Nil>>
<1>8. start \in D /\ start[1] = t.root /\ start \in T
  BY <1>4, <1>7 DEF D
<1>9. CASE t.root = Nil
  <2>1. f[start] = start /\ C = {}
    BY <1>3, <1>8, <1>9 DEF Shape
  <2> QED
    BY <1>2, <1>9, <2>1
<1>10. CASE t.root # Nil
  <2>1. t.root \in C /\ Inside(b, t.root, k)
    BY <1>10 DEF Shape, Inside, Past
  <2>2. Right(f[start])
    BY <1>8, <2>1 DEF T
  <2> QED
    BY <1>2, <1>10, <2>2
<1> QED
  BY <1>9, <1>10

\* The leftmost node is the least.
LEMMA LeastFacts ==
  ASSUME NEW t, NEW C, NEW b, Shape(t, C, b), t.root # Nil
  PROVE  LET y == Outermost(t, "left", t.root)
         IN  y \in C /\ \A k \in C : y <= k
<1> DEFINE y == Outermost(t, "left", t.root)
<1>1. t.root \in C /\ b["left"][t.root] = Nil /\ "left" \in Side
  BY SideFacts DEF Shape
<1>2. y \in C /\ t.child["left"][y] = Nil /\ b["left"][y] = Nil
  BY <1>1, OutermostFacts
<1>3. \A k \in C : ~(k < y)
  BY <1>1, <1>2 DEF Shape, Past, Before
<1>4. \A k \in C : k \in Int
  BY KeyFacts DEF Shape
<1> HIDE DEF y
<1> QED
  BY <1>2, <1>3, <1>4 DEF y

\* The successor is the next key.
LEMMA SuccessorFacts ==
  ASSUME NEW t, NEW C, NEW b, Shape(t, C, b), NEW n \in C
  PROVE  LET next == Successor(t, n)
         IN  \/ next = Nil /\ \A j \in C : ~(n < j)
             \/ next \in C /\ n < next /\ \A j \in C : n < j => next <= j
<1>1. /\ "left" \in Side /\ "right" \in Side /\ Other("right") = "left"
      /\ C \subseteq Keys /\ \A j \in C : j \in Int /\ j # Nil
      /\ b \in [Side -> [Node -> C \cup {Nil}]] /\ n \in Node
  BY SideFacts, KeyFacts DEF Shape, Other
<1>2. CASE t.child["right"][n] # Nil
  <2> DEFINE c == t.child["right"][n]
             y == Outermost(t, "left", c)
  <2>1. c \in C /\ b["left"][c] = n
    BY <1>1, <1>2 DEF Shape
  <2> HIDE DEF c
  <2>2. y \in C /\ t.child["left"][y] = Nil /\ b["left"][y] = n
    BY <1>1, <2>1, OutermostFacts
  <2> HIDE DEF y
  <2>3. n < y
    <3>1. Inside(b, y, y)
      BY <2>2 DEF Shape
    <3> QED
      BY <1>1, <2>2, <3>1 DEF Inside, Past, Before
  <2>4. \A j \in C : ~(n < j /\ j < y)
    BY <1>1, <2>2 DEF Shape, Past, Before
  <2>5. \A j \in C : n < j => y <= j
    BY <1>1, <2>2, <2>4
  <2>6. Successor(t, n) = y
    BY <1>2 DEF Successor, c, y
  <2> QED
    BY <2>2, <2>3, <2>5, <2>6
<1>3. CASE t.child["right"][n] = Nil
  <2> DEFINE f == CHOOSE g : g = Climbing(t, g)
             q == b["right"][n]
  <2>1. f = Climbing(t, f)
    BY ClimbingRecursion
  <2>2. Successor(t, n) = f[n]
    BY <1>3 DEF Successor, Climbing
  <2> HIDE DEF f
  <2>3. Successor(t, n) = q
    BY <2>1, <2>2, ClimbFacts
  <2>4. \A j \in C : ~(Past("right", q, j) /\ n < j)
    BY <1>1, <1>3 DEF Shape, Before
  <2>5. q \in C \cup {Nil} /\ Past("right", q, n)
    <3>1. Inside(b, n, n)
      BY DEF Shape
    <3> QED
      BY <1>1, <3>1 DEF Inside
  <2> HIDE DEF q
  <2>6. CASE q = Nil
    BY <2>3, <2>4, <2>6 DEF Past
  <2>7. CASE q # Nil
    <3>1. q \in C /\ n < q
      BY <2>5, <2>7 DEF Past, Before
    <3>2. \A j \in C : n < j => q <= j
      <4>1. \A j \in C : n < j => ~(j < q)
        BY <2>4 DEF Past, Before
      <4> QED
        BY <1>1, <3>1, <4>1
    <3> QED
      BY <2>3, <3>1, <3>2
  <2> QED
    BY <2>6, <2>7
<1> QED
  BY <1>2, <1>3
------------------------------------------------------------------------------
(* What each surgery does to the links. *)

Trees == [root : Node, child : [Side -> [Node -> Node]],
          parent : [Node -> Node], color : [Node -> {"red", "black"}]]

LEMMA ShapeIsTree ==
  ASSUME NEW t, NEW C, NEW b, Shape(t, C, b)
  PROVE  t \in Trees /\ C \subseteq Node /\ Nil \in Node /\ Nil \notin C
BY KeyFacts DEF Shape, Trees

LEMMA ShapeSets ==
  ASSUME NEW t, NEW C, NEW b, Shape(t, C, b)
  PROVE  C \subseteq Keys /\ IsFiniteSet(C) /\ b \in [Side -> [Node -> C \cup {Nil}]]
BY DEF Shape

\* The colours do not matter to the shape.
LEMMA SameShape ==
  ASSUME NEW t, NEW C, NEW b, Shape(t, C, b), NEW r \in Trees,
         r.root = t.root, r.child = t.child, \A n \in C : r.parent[n] = t.parent[n]
  PROVE  Shape(r, C, b)
BY DEF Shape, Trees

LEMMA PaintedFacts ==
  ASSUME NEW t \in Trees, NEW X, NEW c \in {"red", "black"}
  PROVE  LET r == Painted(t, X, c)
         IN  /\ r \in Trees /\ r.root = t.root /\ r.child = t.child /\ r.parent = t.parent
             /\ \A n \in Node : r.color[n] = IF n \in X THEN c ELSE t.color[n]
BY DEF Painted, Trees

\* The side of its parent on which u hangs.
SideBelow(t, u) == IF u = t.child["left"][t.parent[u]] THEN "left" ELSE "right"

Transplanted(t, u, v, r) ==
  LET p == t.parent[u]
  IN  /\ r \in Trees
      /\ r.root = IF p = Nil THEN v ELSE t.root
      /\ \A e \in Side, n \in Node :
           r.child[e][n] = IF p # Nil /\ n = p /\ e = SideBelow(t, u) THEN v ELSE t.child[e][n]
      /\ \A n \in Node : r.parent[n] = IF n = v THEN p ELSE t.parent[n]
      /\ r.color = t.color

LEMMA TransplantFacts ==
  ASSUME NEW t \in Trees, NEW u \in Node, NEW v \in Node
  PROVE  Transplanted(t, u, v, Transplant(t, u, v))
<1> DEFINE p == t.parent[u]
           s == SideBelow(t, u)
           linked == IF p = Nil THEN [t EXCEPT !.root = v] ELSE [t EXCEPT !.child[s][p] = v]
           r == [linked EXCEPT !.parent[v] = p]
<1>1. p \in Node /\ s \in Side
  BY DEF Trees, SideBelow, Side
<1>2. /\ linked \in Trees
      /\ linked.root = IF p = Nil THEN v ELSE t.root
      /\ \A e \in Side, n \in Node :
           linked.child[e][n] = IF p # Nil /\ n = p /\ e = s THEN v ELSE t.child[e][n]
      /\ linked.parent = t.parent /\ linked.color = t.color
  <2> HIDE DEF p, s
  <2>1. CASE p = Nil
    BY <1>1, <2>1 DEF Trees
  <2>2. CASE p # Nil
    BY <1>1, <2>2 DEF Trees
  <2> QED
    BY <2>1, <2>2
<1>3. Transplant(t, u, v) = r
  BY DEF Transplant, SideBelow
<1> HIDE DEF linked, p, s
<1>4. /\ r \in Trees /\ r.root = linked.root /\ r.child = linked.child
      /\ \A n \in Node : r.parent[n] = IF n = v THEN p ELSE linked.parent[n]
      /\ r.color = linked.color
  BY <1>1, <1>2 DEF Trees
<1> HIDE DEF r
<1>5. Transplanted(t, u, v, r)
  BY <1>2, <1>4 DEF p, s, Transplanted
<1> QED
  BY <1>3, <1>5

Hung(t, c, d, n, r) ==
  /\ r \in Trees /\ r.root = t.root /\ r.color = t.color
  /\ \A e \in Side, m \in Node :
       r.child[e][m] = IF m = n /\ e = d THEN c ELSE t.child[e][m]
  /\ \A m \in Node : r.parent[m] = IF m = c /\ c # Nil THEN n ELSE t.parent[m]

LEMMA HangFacts ==
  ASSUME NEW t \in Trees, NEW c \in Node, NEW d \in Side, NEW n \in Node
  PROVE  Hung(t, c, d, n, Hang(t, c, d, n))
<1> DEFINE linked == [t EXCEPT !.child[d][n] = c]
<1>1. /\ linked \in Trees /\ linked.root = t.root /\ linked.color = t.color
      /\ linked.parent = t.parent
      /\ \A e \in Side, m \in Node :
           linked.child[e][m] = IF m = n /\ e = d THEN c ELSE t.child[e][m]
  BY DEF Trees
<1>2. CASE c = Nil
  <2>1. Hang(t, c, d, n) = linked
    BY <1>2 DEF Hang
  <2> HIDE DEF linked
  <2> QED
    BY <1>1, <1>2, <2>1 DEF Hung
<1>3. CASE c # Nil
  <2> DEFINE r == [linked EXCEPT !.parent[c] = n]
  <2>1. Hang(t, c, d, n) = r
    BY <1>3 DEF Hang
  <2> HIDE DEF linked
  <2>2. /\ r \in Trees /\ r.root = linked.root /\ r.color = linked.color
        /\ r.child = linked.child
        /\ \A m \in Node : r.parent[m] = IF m = c THEN n ELSE linked.parent[m]
    BY <1>1 DEF Trees
  <2> HIDE DEF r
  <2> QED
    BY <1>1, <1>3, <2>1, <2>2 DEF Hung
<1> QED
  BY <1>2, <1>3

\* A node hangs on one side only, that of its key.
LEMMA HangsOnce ==
  ASSUME NEW t, NEW C, NEW b, Shape(t, C, b), NEW u \in C, u # t.root
  PROVE  LET p == t.parent[u]
         IN  /\ p \in C /\ p # Nil /\ p # u /\ SideBelow(t, u) \in Side
             /\ \A e \in Side : t.child[e][p] = u <=> e = SideBelow(t, u)
<1> DEFINE p == t.parent[u]
<1>1. p \in C /\ p # Nil /\ u # Nil /\ u \in Keys /\ p \in Keys
  BY KeyFacts DEF Shape
<1>2. PICK s \in Side : t.child[s][p] = u
  BY DEF Shape
<1>3. \A e \in Side : t.child[e][p] = u => Before(e, u, p)
  BY <1>1, Downwards
<1>4. \A e \in Side : t.child[e][p] = u => e = s
  BY <1>1, <1>2, <1>3, BeforeFacts, SideFacts
<1>5. SideBelow(t, u) = s
  BY <1>2, <1>4, SideFacts DEF SideBelow
<1>6. p # u
  BY <1>1, <1>2, Downwards
<1> QED
  BY <1>1, <1>2, <1>4, <1>5, <1>6

\* No node but its parent has a node below it, and the root hangs nowhere.
LEMMA OneParent ==
  ASSUME NEW t, NEW C, NEW b, Shape(t, C, b), NEW n \in Node, NEW e \in Side,
         t.child[e][n] # Nil
  PROVE  n \in C /\ t.child[e][n] \in C /\ t.parent[t.child[e][n]] = n
         /\ t.child[e][n] # t.root
<1>1. n \in C /\ t.child[e][n] \in C /\ t.parent[t.child[e][n]] = n
  BY DEF Shape
<1>2. n # Nil
  BY <1>1, KeyFacts DEF Shape
<1> QED
  BY <1>1, <1>2 DEF Shape

\* What a rotation does to the links: y takes x's place, x goes below y, and
\* what was between them goes below x.
Rotated(t, d, x, r) ==
  LET y == t.child[Other(d)][x]
      middle == t.child[d][y]
  IN  /\ r \in Trees
      /\ r.root = IF x = t.root THEN y ELSE t.root
      /\ \A e \in Side, n \in Node :
           r.child[e][n] = IF n = x /\ e = Other(d) THEN middle
                           ELSE IF n = y /\ e = d THEN x
                           ELSE IF t.child[e][n] = x THEN y ELSE t.child[e][n]
      /\ \A n \in Node :
           r.parent[n] = IF n = x THEN y ELSE IF n = y THEN t.parent[x]
                         ELSE IF n # Nil /\ n = middle THEN x ELSE t.parent[n]
      /\ r.color = t.color

LEMMA RotateFacts ==
  ASSUME NEW t, NEW C, NEW b, Shape(t, C, b), NEW d \in Side, NEW x \in C,
         t.child[Other(d)][x] # Nil
  PROVE  Rotated(t, d, x, Rotate(t, d, x))
<1> DEFINE y == t.child[Other(d)][x]
           middle == t.child[d][y]
           p == t.parent[x]
           u == Transplant(t, x, y)
           v == Hang(u, middle, Other(d), x)
           r == Hang(v, x, d, y)
<1>1. t \in Trees /\ C \subseteq Node /\ Nil \in Node /\ Nil \notin C /\ C \subseteq Keys
  BY ShapeIsTree, ShapeSets
<1>2. Other(d) \in Side /\ Other(d) # d
  BY SideFacts
<1>3. y \in C /\ y # x /\ y # Nil /\ x # Nil /\ y # t.root /\ t.parent[y] = x
  BY <1>1, <1>2, Downwards, OneParent
<1>4. middle \in Node /\ p \in Node
  BY <1>1, <1>2, <1>3 DEF Trees
<1>5. middle # Nil => middle \in C /\ middle # y /\ middle # x /\ t.parent[middle] = y
  <2> SUFFICES ASSUME middle # Nil PROVE middle \in C /\ middle # y /\ middle # x /\ t.parent[middle] = y
    OBVIOUS
  <2>1. middle \in C /\ middle # y /\ Before(d, middle, y) /\ t.parent[middle] = y
    <3>1. middle \in C /\ middle # y /\ Before(d, middle, y)
      BY <1>3, Downwards
    <3>2. t.parent[middle] = y
      BY <1>1, <1>3, OneParent
    <3> QED
      BY <3>1, <3>2
  <2>2. middle # x
    <3>1. Inside(b, y, middle) /\ middle \in Keys /\ x \in Keys
      BY <1>1, <1>3, <2>1, Downwards
    <3>2. Before(Other(d), middle, x) /\ ~Before(Other(d), x, x)
      BY <1>2, <1>3, <3>1, Downwards, BeforeFacts
    <3> QED
      BY <3>2
  <2> QED
    BY <2>1, <2>2
<1>6. /\ u \in Trees
      /\ u.root = IF p = Nil THEN y ELSE t.root
      /\ \A e \in Side, n \in Node :
           u.child[e][n] = IF p # Nil /\ n = p /\ e = SideBelow(t, x) THEN y ELSE t.child[e][n]
      /\ \A n \in Node : u.parent[n] = IF n = y THEN p ELSE t.parent[n]
      /\ u.color = t.color
  <2>1. x \in Node /\ y \in Node
    BY <1>1, <1>3
  <2>2. Transplanted(t, x, y, u)
    <3> HIDE DEF y
    <3> QED
      BY <1>1, <2>1, TransplantFacts
  <2> HIDE DEF u, y
  <2> QED
    BY <2>2 DEF Transplanted
<1>7. /\ p = Nil <=> x = t.root
      /\ \A e \in Side, n \in Node :
           t.child[e][n] = x <=> p # Nil /\ n = p /\ e = SideBelow(t, x)
  <2>1. CASE x = t.root
    <3>1. p = Nil
      BY <1>1, <1>3, <2>1 DEF Shape
    <3>2. \A e \in Side, n \in Node : t.child[e][n] # x
      BY <1>3, <2>1, OneParent
    <3> QED
      BY <2>1, <3>1, <3>2
  <2>2. CASE x # t.root
    <3>1. p # Nil /\ p \in C /\ \A e \in Side : t.child[e][p] = x <=> e = SideBelow(t, x)
      BY <2>2, HangsOnce
    <3>2. \A e \in Side, n \in Node : t.child[e][n] = x => n = p
      BY <1>3, OneParent
    <3> QED
      BY <2>2, <3>1, <3>2
  <2> QED
    BY <2>1, <2>2
<1>8. p # x /\ p # y
  <2>1. CASE p = Nil
    BY <1>3, <2>1
  <2>2. CASE p # Nil
    <3>1. x # t.root /\ p \in C
      BY <1>7, <2>2 DEF Shape
    <3>2. PICK s \in Side : t.child[s][p] = x
      BY <3>1 DEF Shape
    <3>3. p # x
      BY <3>1, HangsOnce
    <3>4. p # y
      <4> SUFFICES ASSUME p = y PROVE FALSE
        OBVIOUS
      <4>1. Inside(b, y, x) /\ Before(Other(d), y, x) /\ x \in Keys
        BY <1>1, <1>2, <1>3, <3>1, <3>2, Downwards
      <4>2. Before(Other(d), x, x)
        BY <1>2, <1>3, <4>1, Downwards
      <4> QED
        BY <1>2, <4>1, <4>2, BeforeFacts
    <3> QED
      BY <3>3, <3>4
  <2> QED
    BY <2>1, <2>2
<1>9. Rotate(t, d, x) = r
  BY DEF Rotate
<1> HIDE DEF u, y, middle, p
<1>10. /\ r \in Trees /\ r.root = u.root /\ r.color = u.color
       /\ \A e \in Side, n \in Node :
            r.child[e][n] = IF n = y /\ e = d THEN x
                            ELSE IF n = x /\ e = Other(d) THEN middle ELSE u.child[e][n]
       /\ \A n \in Node :
            r.parent[n] = IF middle # Nil /\ n = middle THEN x
                          ELSE IF n = x THEN y ELSE u.parent[n]
  <2>1. x \in Node /\ y \in Node
    BY <1>1, <1>3
  <2> HIDE DEF r, v
  <2>2. Hung(u, middle, Other(d), x, v)
    BY <1>2, <1>4, <1>6, <2>1, HangFacts DEF v
  <2>3. v \in Trees
    BY <2>2 DEF Hung
  <2>4. Hung(v, x, d, y, r)
    BY <2>1, <2>3, HangFacts DEF r
  <2> QED
    BY <1>3, <1>5, <2>2, <2>4 DEF Hung
<1> HIDE DEF r, v
<1>11. r.root = IF x = t.root THEN y ELSE t.root
  BY <1>6, <1>7, <1>10
<1>12. \A e \in Side, n \in Node :
         r.child[e][n] = IF n = x /\ e = Other(d) THEN middle
                         ELSE IF n = y /\ e = d THEN x
                         ELSE IF t.child[e][n] = x THEN y ELSE t.child[e][n]
  BY <1>3, <1>6, <1>7, <1>8, <1>10
<1>13. \A n \in Node :
         r.parent[n] = IF n = x THEN y ELSE IF n = y THEN p
                       ELSE IF n # Nil /\ n = middle THEN x ELSE t.parent[n]
  BY <1>3, <1>5, <1>6, <1>10
<1>14. Rotated(t, d, x, r)
  BY <1>6, <1>10, <1>11, <1>12, <1>13 DEF y, middle, p, Rotated
<1> QED
  BY <1>9, <1>14
------------------------------------------------------------------------------
(* A rotation keeps the order. *)

\* The bounds after a rotation.
Turned(t, b, d, x) ==
  LET y == t.child[Other(d)][x]
  IN  [e \in Side |-> [n \in Node |-> IF n = x /\ e = Other(d) THEN y
                                      ELSE IF n = y /\ e = d THEN b[d][x] ELSE b[e][n]]]

\* Who is who around a rotation.
Neighbours(t, C, b, d, x) ==
  LET y == t.child[Other(d)][x]
      middle == t.child[d][y]
  IN  /\ y \in C /\ y # x /\ y # t.root /\ t.parent[y] = x
      /\ b[Other(d)][y] = b[Other(d)][x] /\ b[d][y] = x
      /\ Before(Other(d), y, x) /\ Before(d, x, y) /\ Inside(b, x, y)
      /\ middle # Nil => /\ middle \in C /\ middle # x /\ middle # y /\ middle # t.root
                         /\ t.parent[middle] = y
                         /\ b[d][middle] = x /\ b[Other(d)][middle] = y
      /\ \A n \in Node, e \in Side : t.child[e][n] = y => n = x /\ e = Other(d)
      /\ \A n \in Node, e \in Side :
           middle # Nil /\ t.child[e][n] = middle => n = y /\ e = d
      /\ x # t.root => t.parent[x] # x /\ t.parent[x] # y
      /\ \A n \in Node, e \in Side : t.child[e][n] = x => n # x /\ n # y

LEMMA RotateNeighbours ==
  ASSUME NEW t, NEW C, NEW b, Shape(t, C, b), NEW d \in Side, NEW x \in C,
         t.child[Other(d)][x] # Nil
  PROVE  Neighbours(t, C, b, d, x)
<1> DEFINE y == t.child[Other(d)][x]
           middle == t.child[d][y]
<1>1. C \subseteq Keys /\ C \subseteq Node /\ Nil \notin C /\ Nil \in Node
  BY ShapeIsTree, ShapeSets
<1>2. Other(d) \in Side /\ Other(Other(d)) = d /\ Other(d) # d /\ Side = {d, Other(d)}
  BY SideFacts
<1>3. y \in C /\ t.parent[y] = x /\ b[Other(d)][y] = b[Other(d)][x] /\ b[d][y] = x
  BY <1>2 DEF Shape
<1>4. y # x /\ Before(Other(d), y, x) /\ Inside(b, x, y)
  BY <1>2, Downwards
<1>5. Before(d, x, y)
  BY <1>1, <1>2, <1>3, <1>4, BeforeFacts
<1>6. y # t.root
  BY <1>1, <1>2, OneParent
<1>7. middle # Nil => /\ middle \in C /\ middle # x /\ middle # y /\ middle # t.root
                      /\ t.parent[middle] = y
                      /\ b[d][middle] = x /\ b[Other(d)][middle] = y
  <2> SUFFICES ASSUME middle # Nil
               PROVE  /\ middle \in C /\ middle # x /\ middle # y /\ middle # t.root
                      /\ t.parent[middle] = y
                      /\ b[d][middle] = x /\ b[Other(d)][middle] = y
    OBVIOUS
  <2>1. middle \in C /\ t.parent[middle] = y /\ b[d][middle] = x /\ b[Other(d)][middle] = y
    BY <1>3 DEF Shape
  <2>2. middle # y /\ middle # t.root
    BY <1>1, <1>3, Downwards, OneParent
  <2>3. middle # x
    <3>1. Inside(b, middle, middle)
      BY <2>1 DEF Shape
    <3>2. Past(d, x, middle)
      BY <2>1, <3>1 DEF Inside
    <3> QED
      BY <1>1, <2>1, <3>2, BeforeFacts DEF Past
  <2> QED
    BY <2>1, <2>2, <2>3
<1>8. \A n \in Node, e \in Side : t.child[e][n] = y => n = x /\ e = Other(d)
  <2> SUFFICES ASSUME NEW n \in Node, NEW e \in Side, t.child[e][n] = y
               PROVE  n = x /\ e = Other(d)
    OBVIOUS
  <2>1. n = x
    BY <1>1, <1>3, OneParent
  <2>2. e = SideBelow(t, y) /\ Other(d) = SideBelow(t, y)
    BY <1>2, <1>3, <1>6, <2>1, HangsOnce
  <2> QED
    BY <2>1, <2>2
<1>9. \A n \in Node, e \in Side : middle # Nil /\ t.child[e][n] = middle => n = y /\ e = d
  <2> SUFFICES ASSUME NEW n \in Node, NEW e \in Side, middle # Nil, t.child[e][n] = middle
               PROVE  n = y /\ e = d
    OBVIOUS
  <2>1. n = y
    <3>1. t.child[e][n] # Nil
      OBVIOUS
    <3>2. t.parent[t.child[e][n]] = n
      BY <3>1, OneParent
    <3>3. t.parent[middle] = y
      BY <1>7
    <3> QED
      BY <3>2, <3>3
  <2>2. /\ middle \in C /\ middle # t.root /\ t.parent[middle] = y
        /\ t.child[e][y] = middle /\ t.child[d][y] = middle
    BY <1>7, <2>1
  <2> HIDE DEF middle, y
  <2>3. e = SideBelow(t, middle) /\ d = SideBelow(t, middle)
    BY <2>2, HangsOnce
  <2> QED
    BY <2>1, <2>3
<1>10. \A n \in Node, e \in Side : t.child[e][n] = x => n # x /\ n # y
  <2> SUFFICES ASSUME NEW n \in Node, NEW e \in Side, t.child[e][n] = x
               PROVE  n # x /\ n # y
    OBVIOUS
  <2>1. n \in C /\ x # Nil
    BY <1>1, OneParent
  <2>2. n # x /\ Inside(b, n, x)
    BY <2>1, Downwards
  <2>3. n # y
    <3> SUFFICES ASSUME n = y PROVE FALSE
      OBVIOUS
    <3>1. Past(d, x, x)
      BY <1>3, <2>2 DEF Inside
    <3> QED
      BY <1>1, <2>1, <3>1, BeforeFacts DEF Past
  <2> QED
    BY <2>2, <2>3
<1>11. x # t.root => t.parent[x] # x /\ t.parent[x] # y
  <2> HAVE x # t.root
  <2>1. t.parent[x] \in C /\ \E s \in Side : t.child[s][t.parent[x]] = x
    BY DEF Shape
  <2> QED
    BY <1>1, <1>10, <2>1
<1> QED
  BY <1>3, <1>4, <1>5, <1>6, <1>7, <1>8, <1>9, <1>10, <1>11 DEF Neighbours

\* A rotation keeps the order of the keys.
LEMMA RotateShape ==
  ASSUME NEW t, NEW C, NEW b, Shape(t, C, b), NEW d \in Side, NEW x \in C,
         t.child[Other(d)][x] # Nil
  PROVE  Shape(Rotate(t, d, x), C, Turned(t, b, d, x))
<1> DEFINE r == Rotate(t, d, x)
           b2 == Turned(t, b, d, x)
           y == t.child[Other(d)][x]
           middle == t.child[d][y]
           f == Other(d)
<1>1. C \subseteq Keys /\ C \subseteq Node /\ Nil \notin C /\ Nil \in Node /\ IsFiniteSet(C)
      /\ b \in [Side -> [Node -> C \cup {Nil}]]
  BY ShapeIsTree, ShapeSets
<1>2. f \in Side /\ Other(f) = d /\ f # d /\ Side = {d, f}
  BY SideFacts
<1>3. /\ y \in C /\ y # x /\ y # t.root /\ t.parent[y] = x
      /\ b[f][y] = b[f][x] /\ b[d][y] = x
      /\ Before(f, y, x) /\ Before(d, x, y) /\ Inside(b, x, y)
      /\ middle # Nil => /\ middle \in C /\ middle # x /\ middle # y /\ middle # t.root
                         /\ t.parent[middle] = y /\ b[d][middle] = x /\ b[f][middle] = y
      /\ \A n \in Node, e \in Side : t.child[e][n] = y => n = x /\ e = f
      /\ \A n \in Node, e \in Side : middle # Nil /\ t.child[e][n] = middle => n = y /\ e = d
      /\ x # t.root => t.parent[x] # x /\ t.parent[x] # y
      /\ \A n \in Node, e \in Side : t.child[e][n] = x => n # x /\ n # y
  <2>1. Neighbours(t, C, b, d, x)
    BY RotateNeighbours
  <2> QED
    BY <2>1 DEF Neighbours
<1>4. /\ r \in Trees
      /\ r.root = IF x = t.root THEN y ELSE t.root
      /\ \A e \in Side, n \in Node :
           r.child[e][n] = IF n = x /\ e = f THEN middle
                           ELSE IF n = y /\ e = d THEN x
                           ELSE IF t.child[e][n] = x THEN y ELSE t.child[e][n]
      /\ \A n \in Node :
           r.parent[n] = IF n = x THEN y ELSE IF n = y THEN t.parent[x]
                         ELSE IF n # Nil /\ n = middle THEN x ELSE t.parent[n]
  <2>1. Rotated(t, d, x, r)
    BY RotateFacts
  <2> HIDE DEF r
  <2> QED
    BY <2>1 DEF Rotated
<1>5. /\ b2 \in [Side -> [Node -> C \cup {Nil}]]
      /\ \A e \in Side, n \in Node :
           b2[e][n] = IF n = x /\ e = f THEN y ELSE IF n = y /\ e = d THEN b[d][x] ELSE b[e][n]
  <2>1. b[d][x] \in C \cup {Nil} /\ y \in C \cup {Nil}
    BY <1>1, <1>3
  <2> HIDE DEF y
  <2> QED
    BY <1>1, <2>1 DEF Turned, y
<1> HIDE DEF r, b2, y, middle, f
<1>6. r.root \in C /\ r.root # Nil
  <2>1. CASE x = t.root
    BY <1>1, <1>3, <1>4, <2>1
  <2>2. CASE x # t.root
    <3>1. t.root \in C \cup {Nil} /\ (t.root = Nil => C = {})
      BY DEF Shape
    <3> QED
      BY <1>1, <1>4, <2>2, <3>1
  <2> QED
    BY <2>1, <2>2
<1>7. r.root # Nil => r.parent[r.root] = Nil /\ \A e \in Side : b2[e][r.root] = Nil
  <2> HAVE r.root # Nil
  <2>1. CASE x = t.root
    <3>1. t.parent[x] = Nil /\ b[d][x] = Nil /\ b[f][x] = Nil
      BY <1>1, <1>2, <2>1 DEF Shape
    <3>2. r.root = y
      BY <1>4, <2>1
    <3> QED
      BY <1>1, <1>2, <1>3, <1>4, <1>5, <3>1, <3>2
  <2>2. CASE x # t.root
    <3>1. r.root = t.root /\ t.root \in C /\ t.parent[t.root] = Nil
          /\ \A e \in Side : b[e][t.root] = Nil
      BY <1>4, <2>2 DEF Shape
    <3> QED
      BY <1>1, <1>3, <1>4, <1>5, <2>2, <3>1
  <2> QED
    BY <2>1, <2>2
<1>8. \A n \in Node \ C, e \in Side : r.child[e][n] = Nil
  <2> TAKE n \in Node \ C, e \in Side
  <2>1. t.child[e][n] = Nil
    BY DEF Shape
  <2> QED
    BY <1>1, <1>3, <1>4, <2>1
<1>9. \A n \in C : Inside(b2, n, n)
  <2> TAKE n \in C
  <2>1. n \in Node /\ Inside(b, n, n)
    BY <1>1 DEF Shape
  <2>2. ASSUME NEW e \in Side PROVE Past(e, b2[e][n], n)
    <3>1. CASE n = x /\ e = f
      BY <1>3, <1>5, <2>1, <3>1 DEF Past
    <3>2. CASE n = y /\ e = d
      BY <1>2, <1>3, <1>5, <2>1, <3>2 DEF Inside
    <3>3. CASE ~(n = x /\ e = f) /\ ~(n = y /\ e = d)
      BY <1>5, <2>1, <3>3 DEF Inside
    <3> QED
      BY <3>1, <3>2, <3>3
  <2> QED
    BY <2>2 DEF Inside
<1>10. ASSUME NEW n \in C, NEW e \in Side, r.child[e][n] = Nil, NEW k \in C
       PROVE  ~(Past(e, b2[e][n], k) /\ Before(e, k, n))
  <2>1. n \in Node /\ n # Nil /\ k \in Keys /\ x \in Keys /\ y \in Keys /\ x # Nil /\ y # Nil
    BY <1>1, <1>3
  <2>2. CASE n = x /\ e = f
    <3>1. middle = Nil /\ b2[e][n] = y
      BY <1>4, <1>5, <1>10, <2>1, <2>2
    <3>2. ~(Past(d, x, k) /\ Before(d, k, y))
      BY <1>3, <3>1 DEF Shape, middle
    <3>3. Before(d, x, k) <=> Before(f, k, x)
      BY <1>2, <2>1, BeforeFacts DEF f
    <3>4. Before(d, k, y) <=> Before(f, y, k)
      BY <1>2, <2>1, BeforeFacts DEF f
    <3> QED
      BY <2>1, <2>2, <3>1, <3>2, <3>3, <3>4 DEF Past
  <2>3. CASE ~(n = x /\ e = f)
    <3>1. ~(n = y /\ e = d)
      BY <1>3, <1>4, <1>10, <2>1
    <3>2. t.child[e][n] = Nil /\ b2[e][n] = b[e][n]
      BY <1>4, <1>5, <1>10, <2>1, <2>3, <3>1
    <3> QED
      BY <3>2 DEF Shape
  <2> QED
    BY <2>2, <2>3
<1>11. ASSUME NEW n \in C, NEW e \in Side, r.child[e][n] # Nil
       PROVE  /\ r.child[e][n] \in C
              /\ r.parent[r.child[e][n]] = n
              /\ b2[e][r.child[e][n]] = b2[e][n]
              /\ b2[Other(e)][r.child[e][n]] = n
  <2>1. n \in Node /\ x \in Node /\ y \in Node /\ x # Nil /\ y # Nil
    BY <1>1, <1>3
  <2>2. CASE n = x /\ e = f
    <3>1. r.child[e][n] = middle /\ middle # Nil
      BY <1>4, <1>11, <2>1, <2>2
    <3>2. middle \in Node /\ r.parent[middle] = x /\ b2[f][middle] = y /\ b2[d][middle] = x
      BY <1>1, <1>2, <1>3, <1>4, <1>5, <3>1
    <3> QED
      BY <1>2, <1>3, <1>5, <2>1, <2>2, <3>1, <3>2
  <2>3. CASE n = y /\ e = d
    <3>1. r.child[e][n] = x
      BY <1>3, <1>4, <2>1, <2>3
    <3>2. r.parent[x] = y /\ b2[d][x] = b[d][x] /\ b2[d][y] = b[d][x] /\ b2[f][x] = y
      BY <1>2, <1>3, <1>4, <1>5, <2>1
    <3> QED
      BY <1>2, <2>3, <3>1, <3>2 DEF f
  <2>4. CASE t.child[e][n] = x
    <3>1. n # x /\ n # y
      BY <1>3, <2>1, <2>4
    <3>2. r.child[e][n] = y /\ b2[e][n] = b[e][n]
      BY <1>4, <1>5, <2>1, <2>4, <3>1
    <3>3. t.parent[x] = n /\ b[e][x] = b[e][n] /\ b[Other(e)][x] = n
      BY <2>1, <2>4 DEF Shape
    <3>4. r.parent[y] = n
      BY <1>3, <1>4, <2>1, <3>3
    <3>5. b2[d][y] = b[d][x] /\ b2[f][y] = b[f][x]
      BY <1>2, <1>3, <1>5, <2>1
    <3>6. CASE e = d
      <4>1. Other(e) = f
        BY <3>6 DEF f
      <4> QED
        BY <1>3, <3>2, <3>3, <3>4, <3>5, <3>6, <4>1
    <3>7. CASE e = f
      <4>1. Other(e) = d
        BY <1>2, <3>7
      <4> QED
        BY <1>3, <3>2, <3>3, <3>4, <3>5, <3>7, <4>1
    <3> QED
      BY <1>2, <3>6, <3>7
  <2>5. CASE ~(n = x /\ e = f) /\ ~(n = y /\ e = d) /\ t.child[e][n] # x
    <3> DEFINE c == t.child[e][n]
    <3>1. r.child[e][n] = c /\ c # Nil /\ b2[e][n] = b[e][n]
      BY <1>4, <1>5, <1>11, <2>1, <2>5
    <3>2. c \in C /\ t.parent[c] = n /\ b[e][c] = b[e][n] /\ b[Other(e)][c] = n
      BY <3>1 DEF Shape
    <3>3. c # x /\ c # y /\ c # middle
      BY <1>3, <2>1, <2>5, <3>1
    <3>4. c \in Node /\ Other(e) \in Side
      BY <1>1, <3>2, SideFacts
    <3> HIDE DEF c
    <3>5. r.parent[c] = n /\ b2[e][c] = b[e][c] /\ b2[Other(e)][c] = b[Other(e)][c]
      BY <1>4, <1>5, <3>2, <3>3, <3>4
    <3> QED
      BY <3>1, <3>2, <3>5
  <2> QED
    BY <2>2, <2>3, <2>4, <2>5
<1>12. ASSUME NEW n \in C, n # r.root
       PROVE  r.parent[n] \in C /\ \E e \in Side : r.child[e][r.parent[n]] = n
  <2>1. n \in Node /\ x \in Node /\ y \in Node /\ x # Nil /\ y # Nil /\ n # Nil
    BY <1>1, <1>3
  <2>2. CASE n = x
    <3>1. r.parent[n] = y /\ r.child[d][y] = x
      BY <1>3, <1>4, <2>1, <2>2
    <3> QED
      BY <1>3, <2>2, <3>1
  <2>3. CASE n = y
    <3>1. x # t.root
      BY <1>4, <1>12, <2>3
    <3>2. t.parent[x] \in C /\ \E e \in Side : t.child[e][t.parent[x]] = x
      BY <3>1 DEF Shape
    <3>3. PICK e \in Side : t.child[e][t.parent[x]] = x
      BY <3>2
    <3>4. r.parent[n] = t.parent[x]
      BY <1>3, <1>4, <2>1, <2>3
    <3>5. r.child[e][t.parent[x]] = y
      BY <1>1, <1>3, <1>4, <3>1, <3>2, <3>3
    <3> QED
      BY <2>3, <3>2, <3>4, <3>5
  <2>4. CASE n = middle
    <3>1. r.parent[n] = x /\ r.child[f][x] = middle
      BY <1>2, <1>3, <1>4, <2>1, <2>4
    <3> QED
      BY <1>2, <2>4, <3>1
  <2>5. CASE n # x /\ n # y /\ n # middle
    <3>1. n # t.root /\ r.parent[n] = t.parent[n]
      BY <1>4, <1>12, <2>1, <2>5
    <3>2. t.parent[n] \in C /\ \E e \in Side : t.child[e][t.parent[n]] = n
      BY <3>1 DEF Shape
    <3>3. PICK e \in Side : t.child[e][t.parent[n]] = n
      BY <3>2
    <3>4. r.child[e][t.parent[n]] = n
      <4>1. ~(t.parent[n] = x /\ e = f)
        BY <2>5, <3>3 DEF y, f
      <4>2. ~(t.parent[n] = y /\ e = d)
        BY <2>5, <3>3 DEF middle
      <4> QED
        BY <1>1, <1>4, <2>5, <3>2, <3>3, <4>1, <4>2
    <3> QED
      BY <3>1, <3>2, <3>4
  <2> QED
    BY <2>2, <2>3, <2>4, <2>5
<1>13. r \in [root : Node, child : [Side -> [Node -> Node]],
              parent : [Node -> Node], color : [Node -> {"red", "black"}]]
  BY <1>4 DEF Trees
<1> QED
  BY <1>1, <1>5, <1>6, <1>7, <1>8, <1>9, <1>10, <1>11, <1>12, <1>13 DEF Shape, r, b2
------------------------------------------------------------------------------
(* Linking a leaf keeps the order. *)

\* k, a red leaf, below y, or the root when y is Nil.
Linked(t, k, y, r) ==
  /\ r \in Trees
  /\ r.root = IF y = Nil THEN k ELSE t.root
  /\ \A e \in Side, n \in Node :
       r.child[e][n] = IF y # Nil /\ n = y /\ e = SideOf(k, y) THEN k ELSE t.child[e][n]
  /\ \A n \in Node : r.parent[n] = IF n = k THEN y ELSE t.parent[n]
  /\ \A n \in Node : r.color[n] = IF n = k THEN "red" ELSE t.color[n]

LEMMA LinkedFacts ==
  ASSUME NEW t \in Trees, NEW k \in Keys, NEW y \in Node
  PROVE  LET fresh == [t EXCEPT !.parent[k] = y, !.color[k] = "red"]
         IN  Linked(t, k, y, IF y = Nil THEN [fresh EXCEPT !.root = k]
                                        ELSE [fresh EXCEPT !.child[SideOf(k, y)][y] = k])
<1> DEFINE fresh == [t EXCEPT !.parent[k] = y, !.color[k] = "red"]
           s == SideOf(k, y)
<1>1. k \in Node /\ s \in Side
  BY KeyFacts DEF SideOf, Side
<1>2. /\ fresh \in Trees /\ fresh.root = t.root /\ fresh.child = t.child
      /\ \A n \in Node : fresh.parent[n] = IF n = k THEN y ELSE t.parent[n]
      /\ \A n \in Node : fresh.color[n] = IF n = k THEN "red" ELSE t.color[n]
  BY <1>1 DEF Trees
<1> HIDE DEF fresh, s
<1>3. CASE y = Nil
  <2> DEFINE r == [fresh EXCEPT !.root = k]
  <2>1. r \in Trees /\ r.root = k /\ r.child = fresh.child /\ r.parent = fresh.parent
        /\ r.color = fresh.color
    BY <1>1, <1>2 DEF Trees
  <2> HIDE DEF r
  <2>2. Linked(t, k, y, r)
    BY <1>2, <1>3, <2>1 DEF Linked
  <2> QED
    BY <1>3, <2>2 DEF fresh, r
<1>4. CASE y # Nil
  <2> DEFINE r == [fresh EXCEPT !.child[s][y] = k]
  <2>1. r \in Trees /\ r.root = fresh.root /\ r.parent = fresh.parent /\ r.color = fresh.color
        /\ \A e \in Side, n \in Node :
             r.child[e][n] = IF n = y /\ e = s THEN k ELSE fresh.child[e][n]
    BY <1>1, <1>2 DEF Trees
  <2> HIDE DEF r
  <2>2. Linked(t, k, y, r)
    BY <1>2, <1>4, <2>1 DEF Linked, s
  <2> QED
    BY <1>4, <2>2 DEF fresh, r, s
<1> QED
  BY <1>3, <1>4

\* The place for a key is unique: no other free place has room for it.
LEMMA OnePlace ==
  ASSUME NEW t, NEW C, NEW b, Shape(t, C, b), NEW k \in Keys,
         NEW y \in C, NEW s \in Side, t.child[s][y] = Nil,
         Past(s, b[s][y], k), Before(s, k, y),
         NEW n \in C, NEW e \in Side, t.child[e][n] = Nil,
         Past(e, b[e][n], k), Before(e, k, n)
  PROVE  n = y /\ e = s
<1>1. C \subseteq Keys /\ C \subseteq Node /\ Nil \notin C
      /\ b \in [Side -> [Node -> C \cup {Nil}]]
  <2>1. C \subseteq Node /\ Nil \notin C
    BY ShapeIsTree
  <2>2. C \subseteq Keys /\ b \in [Side -> [Node -> C \cup {Nil}]]
    BY DEF Shape
  <2> QED
    BY <2>1, <2>2
<1>2. n \in Keys /\ y \in Keys /\ n # Nil /\ y # Nil
  BY <1>1
<1>3. /\ \A j \in C : ~(Past(s, b[s][y], j) /\ Before(s, j, y))
      /\ \A j \in C : ~(Past(e, b[e][n], j) /\ Before(e, j, n))
  BY DEF Shape
<1>4. CASE e = s
  <2>1. b[s][y] \in C \cup {Nil} /\ b[s][n] \in C \cup {Nil}
    BY <1>1
  <2>2. ~Before(s, y, n)
    <3> SUFFICES ASSUME Before(s, y, n) PROVE FALSE
      OBVIOUS
    <3>1. Past(s, b[s][n], y)
      BY <1>1, <1>2, <1>4, <2>1, BeforeFacts DEF Past
    <3> QED
      BY <1>3, <1>4, <3>1
  <2>3. ~Before(s, n, y)
    <3> SUFFICES ASSUME Before(s, n, y) PROVE FALSE
      OBVIOUS
    <3>1. Past(s, b[s][y], n)
      BY <1>1, <1>2, <1>4, <2>1, BeforeFacts DEF Past
    <3> QED
      BY <1>3, <3>1
  <2> QED
    BY <1>2, <1>4, <2>2, <2>3, BeforeFacts
<1>5. CASE e # s
  <2> SUFFICES FALSE
    OBVIOUS
  <2>1. s = Other(e) /\ e = Other(s)
    BY <1>5, SideFacts
  <2> DEFINE q == b[s][y]
             m == b[e][n]
  <2>2. q \in C \cup {Nil} /\ m \in C \cup {Nil}
    BY <1>1
  <2>3. Before(s, n, k) /\ Before(s, n, y) /\ Before(e, y, n) /\ Before(e, y, k)
    BY <1>2, <2>1, BeforeFacts
  <2> HIDE DEF q, m
  <2>4. q # Nil
    BY <1>3, <2>3 DEF Past, q
  <2>5. q \in C /\ q \in Keys /\ Before(s, q, k)
    BY <1>1, <2>2, <2>4 DEF Past, q
  <2>6. ~Before(s, q, n)
    BY <1>3, <2>3 DEF Past, q
  <2>7. ~Before(s, n, q)
    <3> SUFFICES ASSUME Before(s, n, q) PROVE FALSE
      OBVIOUS
    <3>1. Before(e, q, n) /\ Before(e, k, q)
      BY <1>2, <2>1, <2>5, BeforeFacts
    <3>2. Past(e, m, q)
      <4>1. CASE m = Nil
        BY <4>1 DEF Past
      <4>2. CASE m # Nil
        <5>1. m \in Keys /\ Before(e, m, k)
          BY <1>1, <2>2, <4>2 DEF Past, m
        <5> QED
          BY <2>5, <3>1, <5>1, BeforeFacts DEF Past
      <4> QED
        BY <4>1, <4>2
    <3> QED
      BY <1>3, <2>5, <3>1, <3>2 DEF m
  <2>8. q = n
    BY <1>2, <2>5, <2>6, <2>7, BeforeFacts
  <2>9. Inside(b, n, y)
    BY <1>2, <2>8, Surrounded DEF q
  <2>10. Past(e, m, y)
    BY <2>9 DEF Inside, m
  <2> QED
    BY <1>3, <2>3, <2>10 DEF m
<1> QED
  BY <1>4, <1>5

\* The bounds after the insertion of k below y.
Widened(b, k, y) ==
  [e \in Side |-> [n \in Node |->
     IF n # k THEN b[e][n]
     ELSE IF y = Nil THEN Nil ELSE IF e = SideOf(k, y) THEN b[e][y] ELSE y]]

\* Linking a key at the end of its search keeps the order of the keys.
LEMMA LinkShape ==
  ASSUME NEW t, NEW C, NEW b, Shape(t, C, b), NEW k \in Keys \ C, NEW y,
         IF t.root = Nil THEN y = Nil
         ELSE y \in C /\ Inside(b, y, k) /\ t.child[SideOf(k, y)][y] = Nil,
         NEW r, Linked(t, k, y, r)
  PROVE  Shape(r, C \cup {k}, Widened(b, k, y))
<1> DEFINE D == C \cup {k}
           b2 == Widened(b, k, y)
           s == SideOf(k, y)
<1>1. C \subseteq Keys /\ C \subseteq Node /\ Nil \notin C /\ Nil \in Node /\ IsFiniteSet(C)
      /\ b \in [Side -> [Node -> C \cup {Nil}]] /\ k \in Node /\ k # Nil
      /\ t.root \in C \cup {Nil} /\ (t.root = Nil => C = {})
  BY ShapeIsTree, KeyFacts DEF Shape
<1>2. /\ r \in Trees
      /\ r.root = IF y = Nil THEN k ELSE t.root
      /\ \A e \in Side, n \in Node :
           r.child[e][n] = IF y # Nil /\ n = y /\ e = s THEN k ELSE t.child[e][n]
      /\ \A n \in Node : r.parent[n] = IF n = k THEN y ELSE t.parent[n]
  BY DEF Linked
<1>3. D \subseteq Keys /\ IsFiniteSet(D)
  BY <1>1, FS_AddElement
<1>4. y \in C \cup {Nil}
  OBVIOUS
<1>5. /\ b2 \in [Side -> [Node -> D \cup {Nil}]]
      /\ \A e \in Side, n \in Node : n # k => b2[e][n] = b[e][n]
      /\ y = Nil => \A e \in Side : b2[e][k] = Nil
      /\ y # Nil => \A e \in Side : b2[e][k] = IF e = s THEN b[e][y] ELSE y
  <2>1. \A e \in Side, n \in Node :
          (IF n # k THEN b[e][n]
           ELSE IF y = Nil THEN Nil ELSE IF e = s THEN b[e][y] ELSE y) \in D \cup {Nil}
    BY <1>1, <1>4
  <2> QED
    BY <1>1, <2>1 DEF Widened
<1>6. r \in [root : Node, child : [Side -> [Node -> Node]],
             parent : [Node -> Node], color : [Node -> {"red", "black"}]]
  BY <1>2 DEF Trees
<1>7. \A e \in Side : t.child[e][k] = Nil
  BY <1>1 DEF Shape
<1> HIDE DEF b2, D, s
<1>8. CASE t.root = Nil
  <2>1. y = Nil /\ D = {k} /\ r.root = k
    BY <1>1, <1>2, <1>8 DEF D
  <2>2. \A e \in Side, n \in Node : r.child[e][n] = Nil
    <3>1. \A n \in Node : n \in Node \ C
      BY <1>1, <1>8
    <3>2. \A e \in Side, n \in Node : t.child[e][n] = Nil
      BY <3>1 DEF Shape
    <3> QED
      BY <1>2, <2>1, <3>2
  <2>3. Inside(b2, k, k)
    BY <1>5, <2>1 DEF Inside, Past
  <2>4. \A e \in Side : ~Before(e, k, k)
    BY BeforeFacts
  <2>5. r.parent[k] = Nil /\ \A e \in Side : b2[e][k] = Nil
    BY <1>1, <1>2, <1>5, <2>1
  <2> QED
    BY <1>1, <1>3, <1>5, <1>6, <2>1, <2>2, <2>3, <2>4, <2>5 DEF Shape, b2, D
<1>9. CASE t.root # Nil
  <2>1. y \in C /\ y # Nil /\ y \in Node /\ y \in Keys /\ y # k
        /\ Inside(b, y, k) /\ t.child[s][y] = Nil
    BY <1>1, <1>9 DEF s
  <2>2. s \in Side /\ Before(s, k, y) /\ Past(s, b[s][y], k)
    BY <2>1, SideOfFacts DEF s, Inside
  <2>3. Other(s) \in Side /\ Other(s) # s /\ Side = {s, Other(s)}
    BY <2>2, SideFacts
  <2>4. r.root = t.root /\ t.root \in C /\ t.root \in Node /\ t.root # k /\ t.root # Nil
    BY <1>1, <1>2, <1>9, <2>1
  <2>5. r.parent[r.root] = Nil /\ \A e \in Side : b2[e][r.root] = Nil
    <3>1. t.parent[t.root] = Nil /\ \A e \in Side : b[e][t.root] = Nil
      BY <1>9 DEF Shape
    <3> QED
      BY <1>2, <1>5, <2>4, <3>1
  <2>6. \A n \in Node \ D, e \in Side : r.child[e][n] = Nil
    <3>1. \A n \in Node \ D : n \in Node \ C /\ n # y
      BY <2>1 DEF D
    <3>2. \A n \in Node \ D, e \in Side : t.child[e][n] = Nil
      BY <3>1 DEF Shape
    <3> QED
      BY <1>2, <3>1, <3>2
  <2>7. \A n \in D : Inside(b2, n, n)
    <3>1. ASSUME NEW n \in C PROVE Inside(b2, n, n)
      <4>1. Inside(b, n, n) /\ n # k /\ n \in Node
        BY <1>1 DEF Shape
      <4> QED
        BY <1>5, <4>1 DEF Inside
    <3>2. Inside(b2, k, k)
      <4>1. b2[s][k] = b[s][y] /\ b2[Other(s)][k] = y
        BY <1>5, <2>1, <2>2, <2>3
      <4>2. Before(Other(s), y, k)
        BY <2>1, <2>2, BeforeFacts
      <4>3. Past(s, b2[s][k], k) /\ Past(Other(s), b2[Other(s)][k], k)
        BY <2>2, <4>1, <4>2 DEF Past
      <4> QED
        BY <2>3, <4>3 DEF Inside
    <3> QED
      BY <3>1, <3>2 DEF D
  <2>8. ASSUME NEW n \in D, NEW e \in Side, r.child[e][n] = Nil, NEW j \in D
        PROVE  ~(Past(e, b2[e][n], j) /\ Before(e, j, n))
    <3> SUFFICES ASSUME Past(e, b2[e][n], j), Before(e, j, n) PROVE FALSE
      OBVIOUS
    <3>1. j \in Keys /\ n \in Keys /\ n \in Node
      BY <1>1, <1>3, KeyFacts
    <3>2. \A i \in C : ~(Past(s, b[s][y], i) /\ Before(s, i, y))
      BY <2>1, <2>2 DEF Shape
    <3>3. b[s][y] = Nil \/ b[s][y] \in Keys
      BY <1>1, <2>1, <2>2
    <3>4. CASE n = k
      <4>1. j \in C
        BY <3>1, <3>4, BeforeFacts DEF D
      <4>2. CASE e = s
        <5>1. Past(s, b[s][y], j) /\ Before(s, j, k)
          BY <1>5, <2>1, <3>4, <4>2
        <5>2. Before(s, j, y)
          BY <2>1, <2>2, <3>1, <5>1, BeforeFacts
        <5> QED
          BY <3>2, <4>1, <5>1, <5>2
      <4>3. CASE e = Other(s)
        <5>1. Before(Other(s), y, j) /\ Before(Other(s), j, k)
          BY <1>5, <2>1, <2>3, <3>4, <4>3 DEF Past
        <5>2. Before(s, j, y) /\ Before(s, k, j)
          BY <2>1, <2>2, <3>1, <5>1, BeforeFacts
        <5>3. Past(s, b[s][y], j)
          BY <2>2, <3>1, <3>3, <5>2, BeforeFacts DEF Past
        <5> QED
          BY <3>2, <4>1, <5>2, <5>3
      <4> QED
        BY <2>3, <4>2, <4>3
    <3>5. CASE n # k
      <4>1. n \in C /\ b2[e][n] = b[e][n]
        BY <1>5, <3>1, <3>5 DEF D
      <4>2. ~(n = y /\ e = s) /\ t.child[e][n] = Nil
        BY <1>1, <1>2, <2>1, <2>8, <3>1
      <4>3. CASE j = k
        BY <2>1, <2>2, <4>1, <4>2, <4>3, OnePlace
      <4>4. CASE j # k
        <5>1. j \in C
          BY <4>4 DEF D
        <5> QED
          BY <4>1, <4>2, <5>1 DEF Shape
      <4> QED
        BY <4>3, <4>4
    <3> QED
      BY <3>4, <3>5
  <2>9. ASSUME NEW n \in D, NEW e \in Side, r.child[e][n] # Nil
        PROVE  /\ r.child[e][n] \in D
               /\ r.parent[r.child[e][n]] = n
               /\ b2[e][r.child[e][n]] = b2[e][n]
               /\ b2[Other(e)][r.child[e][n]] = n
    <3>1. n \in Node
      BY <1>3, KeyFacts
    <3>2. CASE n = y /\ e = s
      <4>1. r.child[e][n] = k /\ r.parent[k] = y
        BY <1>1, <1>2, <2>1, <2>2, <3>2
      <4>2. b2[s][k] = b[s][y] /\ b2[Other(s)][k] = y /\ b2[s][y] = b[s][y]
        BY <1>5, <2>1, <2>2, <2>3
      <4> QED
        BY <3>2, <4>1, <4>2 DEF D
    <3>3. CASE ~(n = y /\ e = s)
      <4> DEFINE c == t.child[e][n]
      <4>1. r.child[e][n] = c /\ c # Nil /\ n \in C
        BY <1>2, <1>7, <2>9, <3>1, <3>3 DEF D
      <4>2. c \in C /\ t.parent[c] = n /\ b[e][c] = b[e][n] /\ b[Other(e)][c] = n
        BY <4>1 DEF Shape
      <4>3. c \in Node /\ c # k /\ n # k /\ Other(e) \in Side
        BY <1>1, <4>1, <4>2, SideFacts
      <4> HIDE DEF c
      <4> QED
        BY <1>2, <1>5, <3>1, <4>1, <4>2, <4>3 DEF D
    <3> QED
      BY <3>2, <3>3
  <2>10. ASSUME NEW n \in D, n # r.root
         PROVE  r.parent[n] \in D /\ \E e \in Side : r.child[e][r.parent[n]] = n
    <3>1. CASE n = k
      <4>1. r.parent[n] = y /\ r.child[s][y] = k
        BY <1>1, <1>2, <2>1, <2>2, <3>1
      <4> QED
        BY <2>1, <2>2, <3>1, <4>1 DEF D
    <3>2. CASE n # k
      <4>1. n \in C /\ n \in Node /\ n # Nil /\ n # t.root
        BY <1>1, <2>4, <2>10, <3>2 DEF D
      <4>2. t.parent[n] \in C /\ \E e \in Side : t.child[e][t.parent[n]] = n
        BY <4>1 DEF Shape
      <4>3. PICK e \in Side : t.child[e][t.parent[n]] = n
        BY <4>2
      <4>4. r.parent[n] = t.parent[n] /\ t.parent[n] \in Node
        BY <1>1, <1>2, <3>2, <4>1, <4>2
      <4>5. r.child[e][t.parent[n]] = n
        BY <1>2, <2>1, <4>1, <4>3, <4>4
      <4> QED
        BY <4>2, <4>4, <4>5 DEF D
    <3> QED
      BY <3>1, <3>2
  <2> QED
    BY <1>3, <1>5, <1>6, <2>4, <2>5, <2>6, <2>7, <2>8, <2>9, <2>10 DEF Shape, b2, D
<1> QED
  BY <1>8, <1>9
------------------------------------------------------------------------------
(* What a deletion does to the links. *)

\* u hangs where its parent link says, and nowhere else.
Placed(t, u) ==
  /\ t.parent[u] = Nil <=> u = t.root
  /\ \A e \in Side, n \in Node :
       t.child[e][n] = u <=> t.parent[u] # Nil /\ n = t.parent[u] /\ e = SideBelow(t, u)

LEMMA PlacedInShape ==
  ASSUME NEW t, NEW C, NEW b, Shape(t, C, b), NEW u \in C
  PROVE  Placed(t, u)
<1>1. u # Nil /\ C \subseteq Node
  BY ShapeIsTree
<1>2. CASE u = t.root
  <2>1. t.parent[u] = Nil
    BY <1>1, <1>2 DEF Shape
  <2>2. \A e \in Side, n \in Node : t.child[e][n] # u
    BY <1>1, <1>2, OneParent
  <2> QED
    BY <1>2, <2>1, <2>2 DEF Placed
<1>3. CASE u # t.root
  <2>1. t.parent[u] # Nil /\ t.parent[u] \in C
        /\ \A e \in Side : t.child[e][t.parent[u]] = u <=> e = SideBelow(t, u)
    BY <1>3, HangsOnce
  <2>2. \A e \in Side, n \in Node : t.child[e][n] = u => n = t.parent[u]
    BY <1>1, OneParent
  <2> QED
    BY <1>3, <2>1, <2>2 DEF Placed
<1> QED
  BY <1>2, <1>3

\* v in the place of u.
Moved(t, u, v, r) ==
  /\ r \in Trees /\ r.color = t.color
  /\ r.root = IF u = t.root THEN v ELSE t.root
  /\ \A e \in Side, n \in Node :
       r.child[e][n] = IF t.child[e][n] = u THEN v ELSE t.child[e][n]
  /\ \A n \in Node : r.parent[n] = IF n = v THEN t.parent[u] ELSE t.parent[n]

LEMMA MovedFacts ==
  ASSUME NEW t \in Trees, NEW u \in Node, NEW v \in Node, Placed(t, u)
  PROVE  Moved(t, u, v, Transplant(t, u, v))
<1> DEFINE r == Transplant(t, u, v)
<1>1. Transplanted(t, u, v, r)
  BY TransplantFacts
<1> HIDE DEF r
<1>2. r.root = IF u = t.root THEN v ELSE t.root
  BY <1>1 DEF Transplanted, Placed
<1>3. \A e \in Side, n \in Node :
        r.child[e][n] = IF t.child[e][n] = u THEN v ELSE t.child[e][n]
  BY <1>1 DEF Transplanted, Placed
<1> QED
  BY <1>1, <1>2, <1>3 DEF Transplanted, Moved, r

Blanked(t, z, r) ==
  /\ r \in Trees /\ r.root = t.root
  /\ \A e \in Side, n \in Node : r.child[e][n] = IF n = z THEN Nil ELSE t.child[e][n]
  /\ \A n \in Node : r.parent[n] = IF n = z THEN Nil ELSE t.parent[n]
  /\ \A n \in Node : r.color[n] = IF n = z THEN "black" ELSE t.color[n]

LEMMA BlankFacts ==
  ASSUME NEW t \in Trees, NEW z \in Node
  PROVE  Blanked(t, z, Blank(t, z))
<1> DEFINE l == [t EXCEPT !.child["left"][z] = Nil]
           u == [l EXCEPT !.child["right"][z] = Nil]
           r == [u EXCEPT !.parent[z] = Nil, !.color[z] = "black"]
<1>1. Nil \in Node /\ Side = {"left", "right"}
  BY KeyFacts, SideFacts
<1>2. /\ l \in Trees /\ l.root = t.root /\ l.parent = t.parent /\ l.color = t.color
      /\ \A e \in Side, n \in Node :
           l.child[e][n] = IF n = z /\ e = "left" THEN Nil ELSE t.child[e][n]
  BY <1>1 DEF Trees
<1>3. Blank(t, z) = r
  BY DEF Blank
<1> HIDE DEF l
<1>4. /\ u \in Trees /\ u.root = l.root /\ u.parent = l.parent /\ u.color = l.color
      /\ \A e \in Side, n \in Node :
           u.child[e][n] = IF n = z /\ e = "right" THEN Nil ELSE l.child[e][n]
  BY <1>1, <1>2 DEF Trees
<1> HIDE DEF u
<1>5. /\ r \in Trees /\ r.root = u.root /\ r.child = u.child
      /\ \A n \in Node : r.parent[n] = IF n = z THEN Nil ELSE u.parent[n]
      /\ \A n \in Node : r.color[n] = IF n = z THEN "black" ELSE u.color[n]
  BY <1>1, <1>4 DEF Trees
<1> HIDE DEF r
<1>6. Blanked(t, z, r)
  BY <1>1, <1>2, <1>4, <1>5 DEF Blanked
<1> QED
  BY <1>3, <1>6

\* z, which lacks a child, is gone, and its other child v is in its place.
Bypassed(t, z, v, r) ==
  /\ r \in Trees
  /\ r.root = IF z = t.root THEN v ELSE t.root
  /\ \A e \in Side, n \in Node :
       r.child[e][n] = IF n = z THEN Nil ELSE IF t.child[e][n] = z THEN v ELSE t.child[e][n]
  /\ \A n \in Node :
       r.parent[n] = IF n = z THEN Nil ELSE IF n = v THEN t.parent[z] ELSE t.parent[n]
  /\ \A n \in Node : r.color[n] = IF n = z THEN "black" ELSE t.color[n]

LEMMA BypassFacts ==
  ASSUME NEW t, NEW C, NEW b, Shape(t, C, b), NEW z \in C, NEW v \in Node
  PROVE  Bypassed(t, z, v, Blank(Transplant(t, z, v), z))
<1> DEFINE m == Transplant(t, z, v)
           r == Blank(m, z)
<1>1. t \in Trees /\ z \in Node
  BY ShapeIsTree
<1>2. Moved(t, z, v, m)
  BY <1>1, PlacedInShape, MovedFacts
<1> HIDE DEF m
<1>3. Blanked(m, z, r)
  BY <1>1, <1>2, BlankFacts DEF Moved
<1> HIDE DEF r
<1>4. Bypassed(t, z, v, r)
  BY <1>2, <1>3 DEF Moved, Blanked, Bypassed
<1> QED
  BY <1>4 DEF r, m

\* z, which has two children, is gone; y, the first node after z, is in its
\* place, and y's right child in that of y.
Replaced(t, z, y, r) ==
  LET l == t.child["left"][z]
      q == t.child["right"][z]
      x == t.child["right"][y]
  IN  /\ r \in Trees
      /\ r.root = IF z = t.root THEN y ELSE t.root
      /\ \A e \in Side, n \in Node :
           r.child[e][n] = IF n = z THEN Nil
                           ELSE IF n = y THEN IF e = "left" THEN l
                                              ELSE IF q = y THEN x ELSE q
                           ELSE IF t.child[e][n] = z THEN y
                           ELSE IF t.child[e][n] = y THEN x ELSE t.child[e][n]
      /\ \A n \in Node :
           r.parent[n] = IF n = z THEN Nil
                         ELSE IF n = y THEN t.parent[z]
                         ELSE IF n = x THEN IF q = y THEN y ELSE t.parent[y]
                         ELSE IF n \in {l, q} THEN y ELSE t.parent[n]
      /\ \A n \in Node :
           r.color[n] = IF n = z THEN "black" ELSE IF n = y THEN t.color[z] ELSE t.color[n]

\* Who is who around z, its children l and q, y and y's right child x.
After(t, C, b, z, y) ==
  LET l == t.child["left"][z]
      q == t.child["right"][z]
      x == t.child["right"][y]
  IN  /\ z # Nil /\ l \in C /\ q \in C /\ y \in C /\ x \in C \cup {Nil}
      /\ l # z /\ l # y /\ l # x /\ l # q /\ q # z /\ y # z /\ x # z /\ x # y /\ x # q
      /\ t.child["left"][y] = Nil /\ b["left"][y] = z /\ Inside(b, z, y)
      /\ t.parent[l] = z /\ t.parent[q] = z /\ (x # Nil => t.parent[x] = y)
      /\ l # t.root /\ q # t.root /\ y # t.root /\ x # t.root
      /\ \A e \in Side : t.child[e][y] # z
      /\ q # y => t.parent[y] \in C /\ t.parent[y] # z /\ t.parent[y] # y
                  /\ t.child["left"][t.parent[y]] = y
      /\ \A n \in C, e \in Side : t.child[e][n] = y => n = t.parent[y]
      /\ \A n \in C, e \in Side : t.child[e][n] = y /\ n # z => e = "left"
      /\ t.parent[y] = z <=> q = y
      /\ \A j \in C, e \in Side : j # y /\ j # z =>
           /\ Before(e, j, z) <=> Before(e, j, y)
           /\ Before(e, z, j) <=> Before(e, y, j)

LEMMA AfterFacts ==
  ASSUME NEW t, NEW C, NEW b, Shape(t, C, b), NEW z \in C,
         t.child["left"][z] # Nil, t.child["right"][z] # Nil
  PROVE  After(t, C, b, z, Outermost(t, "left", t.child["right"][z]))
<1> DEFINE l == t.child["left"][z]
           q == t.child["right"][z]
           y == Outermost(t, "left", q)
           x == t.child["right"][y]
<1>1. C \subseteq Node /\ Nil \notin C /\ t \in Trees /\ z \in Node
  BY ShapeIsTree
<1>2. C \subseteq Keys /\ b \in [Side -> [Node -> C \cup {Nil}]]
  BY DEF Shape
<1>3. "left" \in Side /\ "right" \in Side /\ Other("left") = "right" /\ Other("right") = "left"
      /\ Side = {"left", "right"}
  BY SideFacts DEF Other
<1>4. /\ l \in C /\ l # z /\ Before("left", l, z) /\ t.parent[l] = z /\ l # t.root
      /\ q \in C /\ q # z /\ Before("right", q, z) /\ t.parent[q] = z /\ q # t.root
      /\ b["left"][q] = z /\ b["right"][q] = b["right"][z]
  <2>1. l \in C /\ l # z /\ Before("left", l, z)
    BY <1>3, Downwards
  <2>2. q \in C /\ q # z /\ Before("right", q, z)
    BY <1>3, Downwards
  <2>3. t.parent[l] = z /\ l # t.root /\ t.parent[q] = z /\ q # t.root
    BY <1>1, <1>3, OneParent
  <2>4. b["left"][q] = z /\ b["right"][q] = b["right"][z]
    BY <1>3 DEF Shape
  <2> QED
    BY <2>1, <2>2, <2>3, <2>4
<1>5. /\ \A k \in Keys : Inside(b, q, k) => Inside(b, z, k) /\ Before("right", k, z)
  BY <1>3, Downwards
<1> HIDE DEF l, q
<1>6. y \in C /\ t.child["left"][y] = Nil /\ b["left"][y] = z /\ Inside(b, q, y)
  BY <1>3, <1>4, OutermostFacts
<1> HIDE DEF y
<1>7. Inside(b, z, y) /\ Before("right", y, z) /\ y # z /\ y \in Keys /\ z \in Keys /\ y # Nil
  <2>1. Inside(b, z, y) /\ Before("right", y, z) /\ y \in Keys /\ z \in Keys
    BY <1>2, <1>5, <1>6
  <2> QED
    BY <1>1, <1>3, <1>6, <2>1, BeforeFacts
<1>8. l # y /\ l # q
  BY <1>2, <1>3, <1>4, <1>7, BeforeFacts
<1>9. x # Nil => /\ x \in C /\ x # y /\ x # z /\ Before("right", x, y) /\ t.parent[x] = y
                 /\ b["left"][x] = y /\ x # t.root /\ l # x /\ x # q
  <2> SUFFICES ASSUME x # Nil
               PROVE  /\ x \in C /\ x # y /\ x # z /\ Before("right", x, y) /\ t.parent[x] = y
                      /\ b["left"][x] = y /\ x # t.root /\ l # x /\ x # q
    OBVIOUS
  <2>1. x \in C /\ x # y /\ Before("right", x, y)
    BY <1>3, <1>6, Downwards
  <2>2. t.parent[x] = y /\ x # t.root
    BY <1>1, <1>3, <1>6, OneParent
  <2>3. b["left"][x] = y
    BY <1>3, <1>6 DEF Shape
  <2>4. x \in Keys /\ Before("right", x, z)
    BY <1>2, <1>3, <1>7, <2>1, BeforeFacts
  <2>5. x # z /\ l # x
    BY <1>2, <1>3, <1>4, <1>7, <2>4, BeforeFacts
  <2>6. x # q
    BY <1>4, <1>7, <2>2
  <2> QED
    BY <2>1, <2>2, <2>3, <2>5, <2>6
<1>10. x \in Node /\ t.root # Nil
  <2>1. y \in Node /\ t.child \in [Side -> [Node -> Node]]
    BY <1>1, <1>6 DEF Trees
  <2>2. t.root # Nil
    BY DEF Shape
  <2> QED
    BY <1>3, <2>1, <2>2
<1> HIDE DEF x
<1>11. y # t.root
  <2>1. y = t.root => b["left"][y] = Nil
    BY <1>3, <1>7 DEF Shape
  <2> QED
    BY <1>1, <1>6, <2>1
<1>12. \A e \in Side : t.child[e][y] # z
  <2> SUFFICES ASSUME NEW e \in Side, t.child[e][y] = z PROVE FALSE
    OBVIOUS
  <2>1. Inside(b, y, z)
    BY <1>1, <1>6, Downwards
  <2>2. Past("left", z, z)
    BY <1>3, <1>6, <2>1 DEF Inside
  <2> QED
    BY <1>1, <1>3, <1>7, <2>2, BeforeFacts DEF Past
<1>13. \A n \in C, e \in Side : t.child[e][n] = y => n = t.parent[y]
  BY <1>1, <1>7, OneParent
<1>14. \A n \in C, e \in Side : t.child[e][n] = y /\ n # z => e = "left"
  <2> SUFFICES ASSUME NEW n \in C, NEW e \in Side, t.child[e][n] = y, n # z, e = "right"
               PROVE  FALSE
    BY <1>3
  <2>1. b["left"][y] = n
    BY <1>3, <1>7 DEF Shape
  <2> QED
    BY <1>6, <2>1
<1>15. t.parent[y] \in C /\ \E e \in Side : t.child[e][t.parent[y]] = y
  BY <1>6, <1>11 DEF Shape
<1>16. t.parent[y] = z <=> q = y
  <2>1. ASSUME t.parent[y] = z PROVE q = y
    <3>1. PICK e \in Side : t.child[e][z] = y
      BY <1>15, <2>1
    <3> QED
      BY <1>3, <1>8, <3>1 DEF l, q
  <2> QED
    BY <1>4, <2>1
<1>17. q # y => t.parent[y] \in C /\ t.parent[y] # z /\ t.parent[y] # y
                /\ t.child["left"][t.parent[y]] = y
  <2> HAVE q # y
  <2>1. t.parent[y] # z
    BY <1>16
  <2>2. PICK e \in Side : t.child[e][t.parent[y]] = y
    BY <1>15
  <2>3. e = "left" /\ t.parent[y] # y
    <3>1. e = "left"
      BY <1>14, <1>15, <2>1, <2>2
    <3>2. t.parent[y] # y
      BY <1>6, <1>11, HangsOnce
    <3> QED
      BY <3>1, <3>2
  <2> QED
    BY <1>15, <2>1, <2>2, <2>3
<1>18. ASSUME NEW j \in C, NEW e \in Side, j # y, j # z
       PROVE  /\ Before(e, j, z) <=> Before(e, j, y)
              /\ Before(e, z, j) <=> Before(e, y, j)
  <2>1. ~(Past("left", b["left"][y], j) /\ Before("left", j, y))
    BY <1>3, <1>6 DEF Shape
  <2>2. ~(z < j /\ j < y)
    BY <1>6, <2>1 DEF Past, Before
  <2>3. z < y /\ z \in Int /\ y \in Int /\ j \in Int
    BY <1>2, <1>7, KeyFacts DEF Before
  <2>4. /\ (j < z <=> j < y)
        /\ (z < j <=> y < j)
    BY <1>18, <2>2, <2>3
  <2> QED
    BY <2>4 DEF Before
<1>19. After(t, C, b, z, y)
  BY <1>1, <1>4, <1>6, <1>7, <1>8, <1>9, <1>10, <1>11, <1>12, <1>13, <1>14, <1>16, <1>17,
     <1>18 DEF After, l, q, x
<1> QED
  BY <1>19 DEF y, q

LEMMA ReplaceFacts ==
  ASSUME NEW C, NEW b, Shape(tree, C, b), NEW z \in C,
         tree.child["left"][z] # Nil, tree.child["right"][z] # Nil
  PROVE  LET y == Outermost(tree, "left", tree.child["right"][z])
         IN  Replaced(tree, z, y, Blank(Unlinked(z).tree, z))
<1> DEFINE t == tree
           l == t.child["left"][z]
           q == t.child["right"][z]
           y == Outermost(t, "left", q)
           x == t.child["right"][y]
           m == Transplant(t, y, x)
           lifted == IF t.parent[y] = z THEN [t EXCEPT !.parent[x] = y]
                     ELSE Hang(m, q, "right", y)
           u == Transplant(lifted, z, y)
           placed == Hang(u, l, "left", y)
           moved == [placed EXCEPT !.color[y] = t.color[z]]
           r == Blank(moved, z)
<1>1. Unlinked(z).tree = moved
  BY DEF Unlinked
<1>2. C \subseteq Node /\ Nil \notin C /\ Nil \in Node /\ t \in Trees /\ z \in Node /\ Side = {"left", "right"}
  BY ShapeIsTree, SideFacts
<1>3. After(t, C, b, z, y)
  BY AfterFacts
<1>4. Placed(t, y) /\ Placed(t, z)
  <2>1. y \in C
    BY <1>3 DEF After
  <2> HIDE DEF y
  <2> QED
    BY <2>1, PlacedInShape
<1> HIDE DEF y
<1>5. l \in Node /\ q \in Node /\ y \in Node /\ x \in Node
      /\ z # Nil /\ l # Nil /\ q # Nil /\ y # Nil
      /\ l # z /\ l # y /\ l # x /\ l # q /\ q # z /\ y # z /\ x # z /\ x # y /\ x # q
      /\ y # t.root /\ (t.parent[y] = z <=> q = y)
      /\ t.child["left"][y] = Nil
      /\ \A e \in Side : t.child[e][y] # z
  BY <1>2, <1>3 DEF After
<1>6. /\ t.child["right"][y] = x
      /\ \A n \in Node, e \in Side : t.child[e][n] = y /\ q = y => n = z
  <2>1. \A n \in Node, e \in Side : t.child[e][n] = y => n \in C
    BY <1>5, OneParent
  <2> QED
    BY <1>3, <2>1 DEF After
<1> HIDE DEF l, q, x
<1>7. /\ lifted \in Trees /\ lifted.root = t.root /\ lifted.color = t.color
      /\ \A e \in Side, n \in Node :
           lifted.child[e][n] =
             IF q = y THEN t.child[e][n]
             ELSE IF n = y /\ e = "right" THEN q
             ELSE IF t.child[e][n] = y THEN x ELSE t.child[e][n]
      /\ \A n \in Node :
           lifted.parent[n] = IF q = y THEN IF n = x THEN y ELSE t.parent[n]
                              ELSE IF n = q THEN y
                              ELSE IF n = x THEN t.parent[y] ELSE t.parent[n]
  <2>1. CASE q = y
    <3>1. lifted = [t EXCEPT !.parent[x] = y]
      BY <1>5, <2>1
    <3> HIDE DEF lifted, t
    <3> QED
      BY <1>2, <1>5, <2>1, <3>1 DEF Trees
  <2>2. CASE q # y
    <3>1. Moved(t, y, x, m)
      BY <1>2, <1>4, <1>5, MovedFacts
    <3>2. lifted = Hang(m, q, "right", y)
      BY <1>5, <2>2
    <3> HIDE DEF m, t, lifted
    <3>3. Hung(m, q, "right", y, lifted)
      BY <1>2, <1>5, <3>1, <3>2, HangFacts DEF Moved
    <3> QED
      BY <1>5, <2>2, <3>1, <3>3 DEF Moved, Hung
  <2> QED
    BY <2>1, <2>2
<1> HIDE DEF lifted, t, m
<1>8. \A e \in Side, n \in Node : lifted.child[e][n] = z <=> t.child[e][n] = z
  BY <1>2, <1>5, <1>6, <1>7
<1>9. lifted.parent[z] = t.parent[z] /\ t.parent[z] \in Node
  BY <1>2, <1>5, <1>7 DEF Trees
<1>10. SideBelow(lifted, z) = SideBelow(t, z)
  BY <1>2, <1>8, <1>9 DEF SideBelow
<1>11. Placed(lifted, z)
  BY <1>4, <1>7, <1>8, <1>9, <1>10 DEF Placed
<1>12. Moved(lifted, z, y, u)
  BY <1>2, <1>5, <1>7, <1>11, MovedFacts
<1> HIDE DEF u
<1>13. Hung(u, l, "left", y, placed)
  BY <1>2, <1>5, <1>12, HangFacts DEF Moved
<1> HIDE DEF placed
<1>14. /\ moved \in Trees /\ moved.root = placed.root /\ moved.child = placed.child
       /\ moved.parent = placed.parent
       /\ \A n \in Node : moved.color[n] = IF n = y THEN t.color[z] ELSE placed.color[n]
  <2>1. placed \in Trees /\ t.color[z] \in {"red", "black"}
    BY <1>2, <1>13 DEF Hung, Trees
  <2> QED
    BY <1>5, <2>1 DEF Trees
<1> HIDE DEF moved
<1>15. Blanked(moved, z, r)
  BY <1>2, <1>14, BlankFacts
<1> HIDE DEF r
<1>16. r.root = IF z = t.root THEN y ELSE t.root
  BY <1>7, <1>12, <1>13, <1>14, <1>15 DEF Moved, Hung, Blanked
<1>17. \A n \in Node :
         r.color[n] = IF n = z THEN "black" ELSE IF n = y THEN t.color[z] ELSE t.color[n]
  BY <1>7, <1>12, <1>13, <1>14, <1>15 DEF Moved, Hung, Blanked
<1>18. \A n \in Node :
         r.parent[n] = IF n = z THEN Nil
                       ELSE IF n = y THEN t.parent[z]
                       ELSE IF n = x THEN IF q = y THEN y ELSE t.parent[y]
                       ELSE IF n \in {l, q} THEN y ELSE t.parent[n]
  <2>1. \A n \in Node :
          r.parent[n] = IF n = z THEN Nil ELSE IF n = l THEN y
                        ELSE IF n = y THEN t.parent[z] ELSE lifted.parent[n]
    BY <1>5, <1>9, <1>12, <1>13, <1>14, <1>15 DEF Moved, Hung, Blanked
  <2> QED
    BY <1>5, <1>7, <2>1
<1>19. \A e \in Side, n \in Node :
         r.child[e][n] = IF n = z THEN Nil
                         ELSE IF n = y THEN IF e = "left" THEN l
                                            ELSE IF q = y THEN x ELSE q
                         ELSE IF t.child[e][n] = z THEN y
                         ELSE IF t.child[e][n] = y THEN x ELSE t.child[e][n]
  <2>1. \A e \in Side, n \in Node :
          r.child[e][n] = IF n = z THEN Nil ELSE IF n = y /\ e = "left" THEN l
                          ELSE IF t.child[e][n] = z THEN y ELSE lifted.child[e][n]
    BY <1>8, <1>12, <1>13, <1>14, <1>15 DEF Moved, Hung, Blanked
  <2> QED
    BY <1>2, <1>5, <1>6, <1>7, <2>1
<1>20. Replaced(t, z, y, r)
  BY <1>15, <1>16, <1>17, <1>18, <1>19 DEF Replaced, Blanked, l, q, x
<1> QED
  BY <1>1, <1>20 DEF r, t, y, q
------------------------------------------------------------------------------
(* Bypassing a node keeps the order. *)

\* The bounds after z is gone: z's own bounds in place of z.
Narrowed(b, z) ==
  [e \in Side |-> [n \in Node |-> IF b[e][n] = z THEN b[e][z] ELSE b[e][n]]]

\* Bypassing a node keeps the order of the keys.
LEMMA BypassShape ==
  ASSUME NEW t, NEW C, NEW b, Shape(t, C, b), NEW z \in C, NEW e \in Side,
         t.child[e][z] = Nil, NEW r, Bypassed(t, z, t.child[Other(e)][z], r)
  PROVE  Shape(r, C \ {z}, Narrowed(b, z))
<1> DEFINE D == C \ {z}
           b2 == Narrowed(b, z)
           f == Other(e)
           v == t.child[f][z]
<1>1. C \subseteq Node /\ Nil \notin C /\ Nil \in Node /\ z \in Node /\ z # Nil
  BY ShapeIsTree
<1>2. C \subseteq Keys /\ IsFiniteSet(C) /\ b \in [Side -> [Node -> C \cup {Nil}]]
      /\ t.root \in C \cup {Nil} /\ t.root # Nil
  BY DEF Shape
<1>3. f \in Side /\ Other(f) = e /\ f # e /\ Side = {e, f}
  BY SideFacts
<1>4. z \in Keys /\ b[e][z] # z /\ b[f][z] # z
      /\ \A g \in Side : b[g][z] \in D \cup {Nil}
  <2>1. \A g \in Side : Past(g, b[g][z], z) /\ b[g][z] \in C \cup {Nil}
    BY <1>1, <1>2 DEF Shape, Inside
  <2>2. \A g \in Side : b[g][z] # z
    BY <1>1, <1>2, <2>1, BeforeFacts DEF Past
  <2> QED
    BY <1>2, <1>3, <2>1, <2>2
<1>5. v # Nil => v \in C /\ v # z /\ v # t.root /\ t.parent[v] = z /\ b[f][v] = b[f][z] /\ b[e][v] = z
  <2> HAVE v # Nil
  <2>1. v # z
    BY <1>3, Downwards
  <2>2. v # t.root
    BY <1>1, <1>3, OneParent
  <2>3. v \in C /\ t.parent[v] = z /\ b[f][v] = b[f][z] /\ b[e][v] = z
    BY <1>3 DEF Shape
  <2> QED
    BY <2>1, <2>2, <2>3
<1>6. \A j \in C : ~(Past(e, b[e][z], j) /\ Before(e, j, z))
  BY DEF Shape
<1>7. v = Nil => \A j \in C : ~(Past(f, b[f][z], j) /\ Before(f, j, z))
  BY <1>3 DEF Shape
<1>8. /\ r \in Trees
      /\ r.root = IF z = t.root THEN v ELSE t.root
      /\ \A g \in Side, n \in Node :
           r.child[g][n] = IF n = z THEN Nil ELSE IF t.child[g][n] = z THEN v ELSE t.child[g][n]
      /\ \A n \in Node :
           r.parent[n] = IF n = z THEN Nil ELSE IF n = v THEN t.parent[z] ELSE t.parent[n]
  BY DEF Bypassed
<1>9. /\ b2 \in [Side -> [Node -> D \cup {Nil}]]
      /\ \A g \in Side, n \in Node : b2[g][n] = IF b[g][n] = z THEN b[g][z] ELSE b[g][n]
  <2>1. \A g \in Side, n \in Node :
          (IF b[g][n] = z THEN b[g][z] ELSE b[g][n]) \in D \cup {Nil}
    BY <1>2, <1>4
  <2> QED
    BY <2>1 DEF Narrowed
<1>10. D \subseteq Keys /\ IsFiniteSet(D) /\ D \subseteq C /\ D \subseteq Node
  BY <1>1, <1>2, FS_RemoveElement
<1> HIDE DEF b2, v, f
<1>11. \A n \in C, g \in Side : b[g][n] = z => Inside(b, z, n)
  BY <1>1, Surrounded
<1>12. \A n \in C : b[f][n] # z
  <2> SUFFICES ASSUME NEW n \in C, b[f][n] = z PROVE FALSE
    OBVIOUS
  <2>1. Inside(b, z, n)
    BY <1>3, <1>11
  <2>2. Past(f, z, n)
    <3>1. Inside(b, n, n)
      BY DEF Shape
    <3> QED
      BY <1>3, <3>1 DEF Inside
  <2>3. Before(e, n, z)
    BY <1>1, <1>2, <1>3, <1>4, <2>2, BeforeFacts DEF Past, f
  <2> QED
    BY <1>6, <2>1, <2>3 DEF Inside
<1>13. r.root \in D \cup {Nil} /\ (r.root = Nil => D = {})
  <2>1. CASE z # t.root
    BY <1>2, <1>8, <2>1
  <2>2. CASE z = t.root /\ v # Nil
    BY <1>5, <1>8, <2>2
  <2>3. CASE z = t.root /\ v = Nil
    <3>1. \A g \in Side : b[g][z] = Nil
      BY <1>2, <2>3 DEF Shape
    <3>2. ASSUME NEW j \in D PROVE FALSE
      <4>1. Before(e, j, z) \/ Before(f, j, z)
        BY <1>3, <1>4, <1>10, BeforeFacts DEF f
      <4> QED
        BY <1>3, <1>6, <1>7, <1>10, <2>3, <3>1, <4>1 DEF Past
    <3> QED
      BY <1>8, <2>3, <3>2
  <2> QED
    BY <2>1, <2>2, <2>3
<1>14. r.root # Nil => r.parent[r.root] = Nil /\ \A g \in Side : b2[g][r.root] = Nil
  <2> HAVE r.root # Nil
  <2>1. t.parent[t.root] = Nil /\ \A g \in Side : b[g][t.root] = Nil
    BY <1>2 DEF Shape
  <2>2. CASE z = t.root
    <3>1. r.root = v /\ v \in Node /\ v # z
      BY <1>1, <1>5, <1>8, <2>2
    <3>2. b2[e][v] = b[e][z] /\ b2[f][v] = b[f][z]
      BY <1>3, <1>4, <1>5, <1>9, <3>1
    <3> QED
      BY <1>3, <1>8, <2>1, <2>2, <3>1, <3>2
  <2>3. CASE z # t.root
    <3>1. r.root = t.root /\ t.root \in Node /\ t.root # v
      BY <1>1, <1>2, <1>5, <1>8, <2>3
    <3> QED
      BY <1>1, <1>8, <1>9, <2>1, <2>3, <3>1
  <2> QED
    BY <2>2, <2>3
<1>15. \A n \in Node \ D, g \in Side : r.child[g][n] = Nil
  <2> TAKE n \in Node \ D, g \in Side
  <2>1. n = z \/ t.child[g][n] = Nil
    BY DEF Shape
  <2> QED
    BY <1>1, <1>8, <2>1
<1>16. \A n \in D : Inside(b2, n, n)
  <2> TAKE n \in D
  <2>1. n \in C /\ n \in Node /\ Inside(b, n, n)
    BY <1>10 DEF Shape
  <2>2. ASSUME NEW g \in Side PROVE Past(g, b2[g][n], n)
    <3>1. CASE b[g][n] = z
      <4>1. Inside(b, z, n) /\ b2[g][n] = b[g][z]
        BY <1>9, <1>11, <2>1, <3>1
      <4> QED
        BY <4>1 DEF Inside
    <3>2. CASE b[g][n] # z
      BY <1>9, <2>1, <3>2 DEF Inside
    <3> QED
      BY <3>1, <3>2
  <2> QED
    BY <2>2 DEF Inside
<1>17. ASSUME NEW n \in D, NEW g \in Side, r.child[g][n] = Nil, NEW j \in D
       PROVE  ~(Past(g, b2[g][n], j) /\ Before(g, j, n))
  <2> SUFFICES ASSUME Past(g, b2[g][n], j), Before(g, j, n) PROVE FALSE
    OBVIOUS
  <2>1. n \in C /\ n \in Node /\ n # z /\ j \in C /\ j # z /\ j \in Keys
    BY <1>10
  <2>2. CASE t.child[g][n] = Nil
    <3>1. \A i \in C : ~(Past(g, b[g][n], i) /\ Before(g, i, n))
      BY <2>1, <2>2 DEF Shape
    <3>2. CASE b[g][n] # z
      BY <1>9, <2>1, <3>1, <3>2
    <3>3. CASE b[g][n] = z
      <4>1. g = e /\ b2[g][n] = b[e][z]
        BY <1>3, <1>9, <1>12, <2>1, <3>3
      <4>2. ~Before(e, j, z)
        BY <1>6, <2>1, <4>1
      <4>3. ~Before(e, z, j)
        BY <2>1, <3>1, <3>3, <4>1 DEF Past
      <4> QED
        BY <1>4, <2>1, <4>2, <4>3, BeforeFacts
    <3> QED
      BY <3>2, <3>3
  <2>3. CASE t.child[g][n] # Nil
    <3>1. t.child[g][n] = z /\ v = Nil
      BY <1>8, <1>17, <2>1, <2>3
    <3>2. b[g][z] = b[g][n] /\ b[Other(g)][z] = n /\ Other(g) \in Side
      BY <1>1, <2>1, <3>1, SideFacts DEF Shape
    <3>3. b2[g][n] = b[g][z]
      BY <1>3, <1>4, <1>9, <2>1, <3>2
    <3>4. \A i \in C : \A h \in Side : ~(Past(h, b[h][z], i) /\ Before(h, i, z))
      BY <1>3, <1>6, <1>7, <3>1
    <3>5. ~Before(g, j, z)
      BY <2>1, <3>3, <3>4
    <3>6. Before(g, z, j)
      BY <1>4, <2>1, <3>5, BeforeFacts
    <3>7. Before(Other(g), j, z) /\ Before(Other(g), n, j)
      <4>1. n \in Keys
        BY <1>2, <2>1
      <4> QED
        BY <1>4, <2>1, <3>2, <3>6, <4>1, BeforeFacts
    <3> QED
      BY <2>1, <3>2, <3>4, <3>7 DEF Past
  <2> QED
    BY <2>2, <2>3
<1>18. ASSUME NEW n \in D, NEW g \in Side, r.child[g][n] # Nil
       PROVE  /\ r.child[g][n] \in D
              /\ r.parent[r.child[g][n]] = n
              /\ b2[g][r.child[g][n]] = b2[g][n]
              /\ b2[Other(g)][r.child[g][n]] = n
  <2>1. n \in C /\ n \in Node /\ n # z /\ Other(g) \in Side /\ Side = {g, Other(g)}
    BY <1>10, SideFacts
  <2>2. CASE t.child[g][n] = z
    <3>1. r.child[g][n] = v /\ v # Nil
      BY <1>8, <1>18, <2>1, <2>2
    <3>2. t.parent[z] = n /\ b[g][z] = b[g][n] /\ b[Other(g)][z] = n
      BY <1>1, <2>1, <2>2 DEF Shape
    <3>3. v \in C /\ v # z /\ v \in Node /\ r.parent[v] = n
      BY <1>1, <1>5, <1>8, <3>1, <3>2
    <3>4. \A h \in Side : b2[h][v] = b[h][z]
      BY <1>3, <1>4, <1>5, <1>9, <3>1, <3>3
    <3>5. b2[g][n] = b[g][z]
      BY <1>3, <1>4, <1>9, <2>1, <3>2
    <3> QED
      BY <2>1, <3>1, <3>2, <3>3, <3>4, <3>5
  <2>3. CASE t.child[g][n] # z
    <3> DEFINE c == t.child[g][n]
    <3>1. r.child[g][n] = c /\ c # Nil /\ c # z
      BY <1>8, <1>18, <2>1, <2>3
    <3>2. c \in C /\ t.parent[c] = n /\ b[g][c] = b[g][n] /\ b[Other(g)][c] = n
      BY <2>1, <3>1 DEF Shape
    <3> HIDE DEF c
    <3>3. c \in D /\ c \in Node /\ c # v
      BY <1>1, <1>5, <2>1, <3>1, <3>2
    <3>4. r.parent[c] = n
      BY <1>8, <3>1, <3>2, <3>3
    <3>5. b2[g][c] = b2[g][n] /\ b2[Other(g)][c] = n
      BY <1>9, <2>1, <3>2, <3>3
    <3> QED
      BY <3>1, <3>3, <3>4, <3>5
  <2> QED
    BY <2>2, <2>3
<1>19. ASSUME NEW n \in D, n # r.root
       PROVE  r.parent[n] \in D /\ \E g \in Side : r.child[g][r.parent[n]] = n
  <2>1. n \in C /\ n \in Node /\ n # z /\ n # Nil
    BY <1>1, <1>10
  <2>2. CASE n = v
    <3>1. z # t.root
      BY <1>8, <1>19, <2>2
    <3>2. t.parent[z] \in C /\ t.parent[z] # z /\ \E g \in Side : t.child[g][t.parent[z]] = z
      <4>1. t.parent[z] \in C /\ \E g \in Side : t.child[g][t.parent[z]] = z
        BY <3>1 DEF Shape
      <4>2. t.parent[z] # z
        BY <3>1, HangsOnce
      <4> QED
        BY <4>1, <4>2
    <3>3. PICK g \in Side : t.child[g][t.parent[z]] = z
      BY <3>2
    <3>4. r.parent[n] = t.parent[z]
      BY <1>8, <2>1, <2>2
    <3>5. r.child[g][t.parent[z]] = v
      BY <1>1, <1>8, <3>2, <3>3
    <3> QED
      BY <2>2, <3>2, <3>4, <3>5
  <2>3. CASE n # v
    <3>1. n # t.root /\ r.parent[n] = t.parent[n]
      BY <1>8, <1>19, <2>1, <2>3
    <3>2. t.parent[n] \in C /\ \E g \in Side : t.child[g][t.parent[n]] = n
      BY <2>1, <3>1 DEF Shape
    <3>3. PICK g \in Side : t.child[g][t.parent[n]] = n
      BY <3>2
    <3>4. t.parent[n] # z
      BY <1>3, <2>1, <2>3, <3>3 DEF v
    <3>5. r.child[g][t.parent[n]] = n
      BY <1>1, <1>8, <2>1, <3>2, <3>3, <3>4
    <3> QED
      BY <3>1, <3>2, <3>4, <3>5
  <2> QED
    BY <2>2, <2>3
<1>20. r \in [root : Node, child : [Side -> [Node -> Node]],
              parent : [Node -> Node], color : [Node -> {"red", "black"}]]
  BY <1>8 DEF Trees
<1> QED
  BY <1>9, <1>10, <1>13, <1>14, <1>15, <1>16, <1>17, <1>18, <1>19, <1>20 DEF Shape, b2
------------------------------------------------------------------------------
(* Replacing a node keeps the order. *)

\* The bounds after y took the place of z: y in place of z, and z's own bounds
\* around y.
Exchanged(b, z, y) ==
  [e \in Side |-> [n \in Node |-> IF n = y THEN b[e][z] ELSE IF b[e][n] = z THEN y ELSE b[e][n]]]

\* Replacing a node by the next one keeps the order of the keys.
LEMMA ReplaceShape ==
  ASSUME NEW t, NEW C, NEW b, Shape(t, C, b), NEW z \in C,
         NEW y, After(t, C, b, z, y), NEW r, Replaced(t, z, y, r)
  PROVE  Shape(r, C \ {z}, Exchanged(b, z, y))
<1> DEFINE D == C \ {z}
           b2 == Exchanged(b, z, y)
           l == t.child["left"][z]
           q == t.child["right"][z]
           x == t.child["right"][y]
<1>1. C \subseteq Node /\ Nil \notin C /\ Nil \in Node /\ z \in Node /\ z # Nil
  BY ShapeIsTree
<1>2. C \subseteq Keys /\ IsFiniteSet(C) /\ b \in [Side -> [Node -> C \cup {Nil}]]
      /\ t.root \in C \cup {Nil} /\ t.root # Nil
  BY DEF Shape
<1>3. /\ "left" \in Side /\ "right" \in Side /\ Side = {"left", "right"}
      /\ Other("left") = "right" /\ Other("right") = "left"
  BY SideFacts DEF Other
<1>4. /\ l \in C /\ q \in C /\ y \in C /\ x \in C \cup {Nil}
      /\ l # z /\ l # y /\ l # x /\ l # q /\ q # z /\ y # z /\ x # z /\ x # y /\ x # q
      /\ t.child["left"][y] = Nil /\ b["left"][y] = z /\ Inside(b, z, y)
      /\ t.parent[l] = z /\ t.parent[q] = z /\ (x # Nil => t.parent[x] = y)
      /\ l # t.root /\ q # t.root /\ y # t.root /\ x # t.root
      /\ \A e \in Side : t.child[e][y] # z
      /\ q # y => t.parent[y] \in C /\ t.parent[y] # z /\ t.parent[y] # y
                  /\ t.child["left"][t.parent[y]] = y
      /\ \A n \in C, e \in Side : t.child[e][n] = y => n = t.parent[y]
      /\ \A n \in C, e \in Side : t.child[e][n] = y /\ n # z => e = "left"
      /\ t.parent[y] = z <=> q = y
  BY DEF After
<1>5. \A j \in C, e \in Side : j # y /\ j # z =>
        /\ Before(e, j, z) <=> Before(e, j, y)
        /\ Before(e, z, j) <=> Before(e, y, j)
  BY DEF After
<1>6. /\ r \in Trees
      /\ r.root = IF z = t.root THEN y ELSE t.root
      /\ \A e \in Side, n \in Node :
           r.child[e][n] = IF n = z THEN Nil
                           ELSE IF n = y THEN IF e = "left" THEN l
                                              ELSE IF q = y THEN x ELSE q
                           ELSE IF t.child[e][n] = z THEN y
                           ELSE IF t.child[e][n] = y THEN x ELSE t.child[e][n]
      /\ \A n \in Node :
           r.parent[n] = IF n = z THEN Nil
                         ELSE IF n = y THEN t.parent[z]
                         ELSE IF n = x THEN IF q = y THEN y ELSE t.parent[y]
                         ELSE IF n \in {l, q} THEN y ELSE t.parent[n]
  BY DEF Replaced
<1>7. /\ b["left"][l] = b["left"][z] /\ b["right"][l] = z
      /\ b["right"][q] = b["right"][z] /\ b["left"][q] = z
      /\ x # Nil => b["right"][x] = b["right"][y] /\ b["left"][x] = y
  BY <1>1, <1>3, <1>4 DEF Shape
<1>8. z \in Keys /\ y \in Keys /\ y \in Node /\ y # Nil
      /\ \A g \in Side : b[g][z] # z /\ b[g][z] \in D \cup {Nil}
  <2>1. \A g \in Side : Past(g, b[g][z], z) /\ b[g][z] \in C \cup {Nil}
    BY <1>1, <1>2 DEF Shape, Inside
  <2>2. \A g \in Side : b[g][z] # z
    BY <1>1, <1>2, <2>1, BeforeFacts DEF Past
  <2> QED
    BY <1>1, <1>2, <1>4, <2>1, <2>2
<1>9. /\ b2 \in [Side -> [Node -> D \cup {Nil}]]
      /\ \A g \in Side, n \in Node :
           b2[g][n] = IF n = y THEN b[g][z] ELSE IF b[g][n] = z THEN y ELSE b[g][n]
  <2>1. \A g \in Side, n \in Node :
          (IF n = y THEN b[g][z] ELSE IF b[g][n] = z THEN y ELSE b[g][n]) \in D \cup {Nil}
    BY <1>2, <1>4, <1>8
  <2> QED
    BY <2>1 DEF Exchanged
<1>10. D \subseteq Keys /\ IsFiniteSet(D) /\ D \subseteq C /\ D \subseteq Node
  BY <1>1, <1>2, FS_RemoveElement
<1> HIDE DEF b2, l, q, x
<1>11. r.root \in D /\ r.root # Nil
  BY <1>1, <1>2, <1>4, <1>6, <1>8
<1>12. r.parent[r.root] = Nil /\ \A g \in Side : b2[g][r.root] = Nil
  <2>1. t.parent[t.root] = Nil /\ \A g \in Side : b[g][t.root] = Nil
    BY <1>2 DEF Shape
  <2>2. CASE z = t.root
    BY <1>4, <1>6, <1>8, <1>9, <2>1, <2>2
  <2>3. CASE z # t.root
    <3>1. r.root = t.root /\ t.root \in Node
      BY <1>1, <1>2, <1>6, <2>3
    <3> QED
      BY <1>1, <1>4, <1>6, <1>9, <2>1, <2>3, <3>1
  <2> QED
    BY <2>2, <2>3
<1>13. \A n \in Node \ D, g \in Side : r.child[g][n] = Nil
  <2> TAKE n \in Node \ D, g \in Side
  <2>1. n # z => n # y /\ t.child[g][n] = Nil
    <3>1. n # z => n \in Node \ C
      OBVIOUS
    <3>2. \A m \in Node \ C : t.child[g][m] = Nil
      BY DEF Shape
    <3> QED
      BY <1>4, <3>1, <3>2
  <2> QED
    BY <1>1, <1>6, <1>8, <2>1
<1>14. \A n \in D : Inside(b2, n, n)
  <2> TAKE n \in D
  <2>1. n \in C /\ n \in Node /\ n # z /\ Inside(b, n, n)
    BY <1>10 DEF Shape
  <2>2. ASSUME NEW g \in Side PROVE Past(g, b2[g][n], n)
    <3>1. CASE n = y
      BY <1>4, <1>9, <2>1, <3>1 DEF Inside
    <3>2. CASE n # y /\ b[g][n] = z
      BY <1>1, <1>5, <1>9, <2>1, <3>2 DEF Inside, Past
    <3>3. CASE n # y /\ b[g][n] # z
      BY <1>9, <2>1, <3>3 DEF Inside
    <3> QED
      BY <3>1, <3>2, <3>3
  <2> QED
    BY <2>2 DEF Inside
<1>15. ASSUME NEW n \in D, NEW g \in Side, r.child[g][n] = Nil, NEW j \in D
       PROVE  ~(Past(g, b2[g][n], j) /\ Before(g, j, n))
  <2> SUFFICES ASSUME Past(g, b2[g][n], j), Before(g, j, n) PROVE FALSE
    OBVIOUS
  <2>1. n \in C /\ n \in Node /\ n # z /\ j \in C /\ j # z /\ j \in Keys /\ n \in Keys
    BY <1>2, <1>10
  <2>2. CASE n = y
    <3>1. g = "right" /\ q = y /\ x = Nil
      BY <1>1, <1>3, <1>4, <1>6, <1>15, <2>1, <2>2
    <3>2. \A i \in C : ~(Past("right", b["right"][y], i) /\ Before("right", i, y))
      BY <1>3, <1>4, <3>1 DEF Shape, x
    <3>3. b2[g][n] = b["right"][y]
      BY <1>7, <1>9, <2>1, <2>2, <3>1
    <3> QED
      BY <2>1, <2>2, <3>1, <3>2, <3>3
  <2>3. CASE n # y /\ t.child[g][n] = y
    <3>1. g = "left" /\ x = Nil /\ n = t.parent[y]
      BY <1>4, <1>6, <1>8, <1>15, <2>1, <2>3
    <3>2. b["left"][n] = z /\ b["right"][y] = n
      <4>1. b["left"][y] = b["left"][n] /\ b["right"][y] = n
        BY <1>3, <1>8, <2>1, <2>3, <3>1 DEF Shape
      <4> QED
        BY <1>4, <4>1
    <3>3. b2[g][n] = y
      BY <1>9, <2>1, <2>3, <3>1, <3>2
    <3>4. \A i \in C : ~(Past("right", n, i) /\ Before("right", i, y))
      BY <1>3, <1>4, <3>1, <3>2 DEF Shape, x
    <3>5. Before("left", y, j) /\ Before("left", j, n)
      BY <1>8, <3>1, <3>3 DEF Past
    <3>6. Before("right", j, y) /\ Before("right", n, j)
      BY <1>3, <1>8, <2>1, <3>5, BeforeFacts
    <3> QED
      BY <2>1, <3>4, <3>6 DEF Past
  <2>4. CASE n # y /\ t.child[g][n] # y
    <3>1. t.child[g][n] = Nil
      BY <1>6, <1>8, <1>15, <2>1, <2>4
    <3>2. \A i \in C : ~(Past(g, b[g][n], i) /\ Before(g, i, n))
      BY <2>1, <3>1 DEF Shape
    <3>3. CASE b[g][n] # z
      BY <1>9, <2>1, <2>4, <3>2, <3>3
    <3>4. CASE b[g][n] = z
      <4>1. Before(g, y, j)
        BY <1>8, <1>9, <2>1, <2>4, <3>4 DEF Past
      <4>2. Before(g, z, j)
        BY <1>5, <1>8, <2>1, <4>1, BeforeFacts
      <4> QED
        BY <2>1, <3>2, <3>4, <4>2 DEF Past
    <3> QED
      BY <3>3, <3>4
  <2> QED
    BY <2>2, <2>3, <2>4
<1>16. ASSUME NEW n \in D, NEW g \in Side, r.child[g][n] # Nil
       PROVE  /\ r.child[g][n] \in D
              /\ r.parent[r.child[g][n]] = n
              /\ b2[g][r.child[g][n]] = b2[g][n]
              /\ b2[Other(g)][r.child[g][n]] = n
  <2>1. n \in C /\ n \in Node /\ n # z /\ n # Nil
    BY <1>1, <1>10
  <2>2. CASE n = y /\ g = "left"
    <3>1. r.child[g][n] = l /\ l \in D /\ l \in Node
      BY <1>1, <1>4, <1>6, <2>1, <2>2
    <3>2. r.parent[l] = y
      BY <1>4, <1>6, <3>1
    <3>3. b2["left"][l] = b["left"][z] /\ b2["right"][l] = y /\ b2["left"][y] = b["left"][z]
      BY <1>3, <1>4, <1>7, <1>8, <1>9, <3>1
    <3> QED
      BY <1>3, <2>2, <3>1, <3>2, <3>3
  <2>3. CASE n = y /\ g = "right" /\ q = y
    <3>1. r.child[g][n] = x /\ x # Nil /\ x \in D /\ x \in Node
      BY <1>1, <1>3, <1>4, <1>6, <1>16, <2>1, <2>3
    <3>2. r.parent[x] = y
      BY <1>4, <1>6, <2>3, <3>1
    <3>3. b2["right"][x] = b["right"][z] /\ b2["left"][x] = y /\ b2["right"][y] = b["right"][z]
      BY <1>3, <1>4, <1>7, <1>8, <1>9, <2>3, <3>1
    <3> QED
      BY <1>3, <2>3, <3>1, <3>2, <3>3
  <2>4. CASE n = y /\ g = "right" /\ q # y
    <3>1. r.child[g][n] = q /\ q \in D /\ q \in Node
      BY <1>1, <1>3, <1>4, <1>6, <2>1, <2>4
    <3>2. r.parent[q] = y
      BY <1>4, <1>6, <2>4, <3>1
    <3>3. b2["right"][q] = b["right"][z] /\ b2["left"][q] = y /\ b2["right"][y] = b["right"][z]
      BY <1>3, <1>4, <1>7, <1>8, <1>9, <2>4, <3>1
    <3> QED
      BY <1>3, <2>4, <3>1, <3>2, <3>3
  <2>5. CASE n # y /\ t.child[g][n] = z
    <3>1. r.child[g][n] = y
      BY <1>6, <2>1, <2>5
    <3>2. t.parent[z] = n /\ b[g][z] = b[g][n] /\ b[Other(g)][z] = n /\ Other(g) \in Side
      BY <1>1, <2>1, <2>5, SideFacts DEF Shape
    <3>3. r.parent[y] = n
      BY <1>4, <1>6, <1>8, <3>2
    <3>4. b2[g][y] = b[g][z] /\ b2[Other(g)][y] = n /\ b2[g][n] = b[g][z]
      BY <1>8, <1>9, <2>1, <2>5, <3>2
    <3> QED
      BY <1>4, <3>1, <3>3, <3>4
  <2>6. CASE n # y /\ t.child[g][n] = y
    <3>1. g = "left" /\ n = t.parent[y] /\ q # y /\ r.child[g][n] = x /\ x # Nil /\ x \in D /\ x \in Node
      BY <1>1, <1>4, <1>6, <1>16, <2>1, <2>6
    <3>2. b["left"][n] = z /\ b["right"][y] = n
      <4>1. b["left"][y] = b["left"][n] /\ b["right"][y] = n
        BY <1>3, <1>8, <2>1, <2>6, <3>1 DEF Shape
      <4> QED
        BY <1>4, <4>1
    <3>3. r.parent[x] = n
      BY <1>4, <1>6, <3>1
    <3>4. b2["left"][x] = y /\ b2["right"][x] = n /\ b2["left"][n] = y
      BY <1>3, <1>4, <1>7, <1>9, <2>1, <2>6, <3>1, <3>2
    <3> QED
      BY <1>3, <3>1, <3>3, <3>4
  <2>7. CASE n # y /\ t.child[g][n] # z /\ t.child[g][n] # y
    <3> DEFINE c == t.child[g][n]
    <3>1. r.child[g][n] = c /\ c # Nil /\ c # z /\ c # y
      BY <1>6, <1>16, <2>1, <2>7
    <3>2. c \in C /\ t.parent[c] = n /\ b[g][c] = b[g][n] /\ b[Other(g)][c] = n
      BY <2>1, <3>1 DEF Shape
    <3> HIDE DEF c
    <3>3. c \in D /\ c \in Node /\ c # x /\ c # l /\ c # q /\ Other(g) \in Side
      BY <1>1, <1>4, <2>1, <2>7, <3>1, <3>2, SideFacts
    <3>4. r.parent[c] = n
      BY <1>6, <3>1, <3>2, <3>3
    <3>5. b2[g][c] = b2[g][n] /\ b2[Other(g)][c] = n
      BY <1>9, <2>1, <2>7, <3>1, <3>2, <3>3
    <3> QED
      BY <3>1, <3>3, <3>4, <3>5
  <2> QED
    BY <1>3, <2>2, <2>3, <2>4, <2>5, <2>6, <2>7
<1>17. ASSUME NEW n \in D, n # r.root
       PROVE  r.parent[n] \in D /\ \E g \in Side : r.child[g][r.parent[n]] = n
  <2>1. n \in C /\ n \in Node /\ n # z /\ n # Nil
    BY <1>1, <1>10
  <2>2. CASE n = y
    <3>1. z # t.root
      BY <1>6, <1>17, <2>2
    <3>2. t.parent[z] \in C /\ t.parent[z] # z /\ \E g \in Side : t.child[g][t.parent[z]] = z
      <4>1. t.parent[z] \in C /\ \E g \in Side : t.child[g][t.parent[z]] = z
        BY <3>1 DEF Shape
      <4>2. t.parent[z] # z
        BY <3>1, HangsOnce
      <4> QED
        BY <4>1, <4>2
    <3>3. PICK g \in Side : t.child[g][t.parent[z]] = z
      BY <3>2
    <3>4. r.parent[n] = t.parent[z] /\ t.parent[z] # y /\ t.parent[z] \in Node
      BY <1>1, <1>4, <1>6, <2>1, <2>2, <3>2, <3>3
    <3>5. r.child[g][t.parent[z]] = y
      BY <1>6, <3>2, <3>3, <3>4
    <3> QED
      BY <2>2, <3>2, <3>4, <3>5
  <2>3. CASE n = x
    <3>1. CASE q = y
      <4>1. r.parent[n] = y /\ r.child["right"][y] = x
        BY <1>3, <1>4, <1>6, <1>8, <2>1, <2>3, <3>1
      <4> QED
        BY <1>3, <1>4, <2>3, <4>1
    <3>2. CASE q # y
      <4>1. r.parent[n] = t.parent[y] /\ t.parent[y] \in D /\ t.parent[y] \in Node
        BY <1>1, <1>4, <1>6, <2>1, <2>3, <3>2
      <4>2. r.child["left"][t.parent[y]] = x
        BY <1>3, <1>4, <1>6, <3>2, <4>1
      <4> QED
        BY <1>3, <2>3, <4>1, <4>2
    <3> QED
      BY <3>1, <3>2
  <2>4. CASE n = l
    <3>1. r.parent[n] = y /\ r.child["left"][y] = l
      BY <1>3, <1>4, <1>6, <1>8, <2>1, <2>4
    <3> QED
      BY <1>3, <1>4, <2>4, <3>1
  <2>5. CASE n = q /\ q # y
    <3>1. r.parent[n] = y /\ r.child["right"][y] = q
      BY <1>3, <1>4, <1>6, <1>8, <2>1, <2>5
    <3> QED
      BY <1>3, <1>4, <2>5, <3>1
  <2>6. CASE n # y /\ n # x /\ n # l /\ n # q
    <3>1. n # t.root /\ r.parent[n] = t.parent[n]
      BY <1>6, <1>17, <2>1, <2>6
    <3>2. t.parent[n] \in C /\ \E g \in Side : t.child[g][t.parent[n]] = n
      BY <2>1, <3>1 DEF Shape
    <3>3. PICK g \in Side : t.child[g][t.parent[n]] = n
      BY <3>2
    <3>4. t.parent[n] # z
      BY <1>3, <2>6, <3>3 DEF l, q
    <3>5. t.parent[n] # y
      BY <1>3, <1>4, <2>1, <2>6, <3>3 DEF x
    <3>6. r.child[g][t.parent[n]] = n
      BY <1>1, <1>6, <2>1, <2>6, <3>2, <3>3, <3>4, <3>5
    <3> QED
      BY <3>1, <3>2, <3>4, <3>6
  <2> QED
    BY <2>2, <2>3, <2>4, <2>5, <2>6
<1>18. r \in [root : Node, child : [Side -> [Node -> Node]],
              parent : [Node -> Node], color : [Node -> {"red", "black"}]]
  BY <1>6 DEF Trees
<1> QED
  BY <1>9, <1>10, <1>11, <1>12, <1>13, <1>14, <1>15, <1>16, <1>17, <1>18 DEF Shape, b2
------------------------------------------------------------------------------
(* Black heights. *)

Black(t, n) == IF t.color[n] = "black" THEN 1 ELSE 0

\* One black node owed on side e of m; none when m is Nil.
Owing(m, e) == [n \in Node |-> [d \in Side |-> IF n = m /\ d = e THEN 1 ELSE 0]]

\* The black heights on both sides of n agree with that of n.
Level(t, h, o, n) ==
  \A d \in Side : h[n] = h[t.child[d][n]] + o[n][d] + Black(t, n)

Heights(t, C, h, o) ==
  /\ h \in [Node -> Nat] /\ \A n \in Node : h[n] > 0
  /\ h[Nil] = 1
  /\ \A n \in C : Level(t, h, o, n)

\* Red below red.
Clash(t, n) == Red(t, n) /\ Red(t, t.parent[n])

LEMMA BlackFacts ==
  ASSUME NEW t \in Trees, NEW n \in Node
  PROVE  /\ Black(t, n) \in {0, 1}
         /\ Black(t, n) = 1 <=> t.color[n] = "black"
         /\ n # Nil => (Black(t, n) = 0 <=> Red(t, n))
BY DEF Black, Trees, Red

LEMMA OwingFacts ==
  ASSUME NEW m, NEW e
  PROVE  \A n \in Node, d \in Side : Owing(m, e)[n][d] = IF n = m /\ d = e THEN 1 ELSE 0
BY DEF Owing

\* The heights h are right everywhere but at x and its child y, and with k for
\* x and h[x] for y they are right there after a rotation.
Turnable(t, C, h, o, d, x, y, k) ==
  /\ t.child[Other(d)][x] = y /\ y # Nil
  /\ h \in [Node -> Nat] /\ \A n \in Node : h[n] > 0
  /\ h[Nil] = 1
  /\ \A n \in C \ {x, y} : Level(t, h, o, n)
  /\ k \in Nat /\ k > 0
  /\ k = h[t.child[d][x]] + o[x][d] + Black(t, x)
  /\ k = h[t.child[d][y]] + o[x][Other(d)] + Black(t, x)
  /\ h[x] = k + o[y][d] + Black(t, y)
  /\ h[x] = h[t.child[Other(d)][y]] + o[y][Other(d)] + Black(t, y)

LEMMA RotateHeights ==
  ASSUME NEW t, NEW C, NEW b, Shape(t, C, b), NEW d \in Side, NEW x \in C,
         NEW r, Rotated(t, d, x, r),
         NEW h, NEW o, NEW y, NEW k, Turnable(t, C, h, o, d, x, y, k)
  PROVE  Heights(r, C, [h EXCEPT ![y] = h[x], ![x] = k], o)
<1> DEFINE middle == t.child[d][y]
           far == t.child[Other(d)][y]
           f == Other(d)
           g == [h EXCEPT ![y] = h[x], ![x] = k]
<1>1. C \subseteq Node /\ Nil \notin C /\ Nil \in Node
  BY ShapeIsTree
<1>2. f \in Side /\ f # d /\ Side = {d, f}
  BY SideFacts
<1>3. /\ y \in C /\ y # x /\ y # t.root /\ t.parent[y] = x
      /\ b[f][y] = b[f][x] /\ b[d][y] = x
      /\ Before(f, y, x) /\ Before(d, x, y) /\ Inside(b, x, y)
      /\ middle # Nil => /\ middle \in C /\ middle # x /\ middle # y /\ middle # t.root
                         /\ t.parent[middle] = y /\ b[d][middle] = x /\ b[f][middle] = y
      /\ \A n \in Node, e \in Side : t.child[e][n] = y => n = x /\ e = f
      /\ \A n \in Node, e \in Side : middle # Nil /\ t.child[e][n] = middle => n = y /\ e = d
      /\ x # t.root => t.parent[x] # x /\ t.parent[x] # y
      /\ \A n \in Node, e \in Side : t.child[e][n] = x => n # x /\ n # y
  <2>1. Neighbours(t, C, b, d, x)
    BY RotateNeighbours DEF Turnable
  <2> QED
    BY <2>1 DEF Neighbours, Turnable
<1>4. x \in Node /\ y \in Node /\ x # Nil /\ y # Nil
  BY <1>1, <1>3
<1>5. /\ g \in [Node -> Nat] /\ g[x] = k /\ g[y] = h[x]
      /\ \A n \in Node : n # x /\ n # y => g[n] = h[n]
  BY <1>3, <1>4 DEF Turnable
<1>6. \A n \in Node : g[n] > 0
  BY <1>4, <1>5 DEF Turnable
<1>7. /\ r.color = t.color
      /\ \A e \in Side, n \in Node :
           r.child[e][n] = IF n = x /\ e = f THEN middle
                           ELSE IF n = y /\ e = d THEN x
                           ELSE IF t.child[e][n] = x THEN y ELSE t.child[e][n]
  BY DEF Rotated, Turnable
<1>8. \A n \in Node : Black(r, n) = Black(t, n)
  BY <1>7 DEF Black
<1>9. /\ k = h[t.child[d][x]] + o[x][d] + Black(t, x)
      /\ k = h[middle] + o[x][f] + Black(t, x)
      /\ h[x] = k + o[y][d] + Black(t, y)
      /\ h[x] = h[far] + o[y][f] + Black(t, y)
  BY DEF Turnable
<1>10. t.child \in [Side -> [Node -> Node]]
  BY DEF Shape
<1>11. far # x /\ far # y /\ far \in Node /\ middle # x /\ middle # y /\ middle \in Node
  BY <1>2, <1>3, <1>4, <1>10
<1>12. t.child[d][x] # x /\ t.child[d][x] # y /\ t.child[d][x] \in Node
  BY <1>2, <1>3, <1>4, <1>10
<1>13. t.child[f][y] = far /\ \A n \in C : n # x /\ n # y => Level(t, h, o, n)
  BY DEF Turnable
<1> HIDE DEF middle, far, f, g
<1>14. ASSUME NEW n \in C PROVE Level(r, g, o, n)
  <2>1. n \in Node
    BY <1>1
  <2>2. CASE n = x
    <3>1. r.child[d][x] = t.child[d][x] /\ r.child[f][x] = middle
      BY <1>2, <1>3, <1>4, <1>7, <1>12
    <3>2. g[x] = g[r.child[d][x]] + o[x][d] + Black(r, x)
          /\ g[x] = g[r.child[f][x]] + o[x][f] + Black(r, x)
      BY <1>4, <1>5, <1>8, <1>9, <1>11, <1>12, <3>1
    <3> QED
      BY <1>2, <2>2, <3>2 DEF Level
  <2>3. CASE n = y
    <3>1. r.child[d][y] = x /\ r.child[f][y] = far
      BY <1>2, <1>3, <1>4, <1>7, <1>11, <1>13
    <3>2. g[y] = g[r.child[d][y]] + o[y][d] + Black(r, y)
          /\ g[y] = g[r.child[f][y]] + o[y][f] + Black(r, y)
      BY <1>4, <1>5, <1>8, <1>9, <1>11, <3>1
    <3> QED
      BY <1>2, <2>3, <3>2 DEF Level
  <2>4. CASE n # x /\ n # y
    <3>1. Level(t, h, o, n)
      BY <1>13, <2>4
    <3>2. ASSUME NEW e \in Side PROVE g[r.child[e][n]] = h[t.child[e][n]]
      <4>1. CASE t.child[e][n] = x
        BY <1>5, <1>7, <2>1, <2>4, <4>1
      <4>2. CASE t.child[e][n] # x
        <5>1. t.child[e][n] \in Node /\ t.child[e][n] # y /\ r.child[e][n] = t.child[e][n]
          BY <1>3, <1>7, <1>10, <2>1, <2>4, <4>2
        <5> QED
          BY <1>5, <4>2, <5>1
      <4> QED
        BY <4>1, <4>2
    <3>3. g[n] = h[n] /\ Black(r, n) = Black(t, n)
      BY <1>5, <1>8, <2>1, <2>4
    <3> QED
      BY <3>1, <3>2, <3>3 DEF Level
  <2> QED
    BY <2>2, <2>3, <2>4
<1>15. g[Nil] = 1
  BY <1>1, <1>4, <1>5 DEF Turnable
<1> QED
  BY <1>5, <1>6, <1>14, <1>15 DEF Heights, g

\* The loop of BlackHeight.
Measuring(owed, f) ==
  [m \in Node |->
     IF m = Nil THEN 1
     ELSE LET below == {LET b == f[tree.child[d][m]]
                        IN IF b < 0 THEN -1 ELSE b + owed[m][d] : d \in Side}
          IN  IF Cardinality(below) # 1 \/ -1 \in below THEN -1
              ELSE (CHOOSE b \in below : TRUE)
                     + (IF tree.color[m] = "black" THEN 1 ELSE 0)]

\* What BlackHeight makes of a node of which both sides are equally high.
LEMMA MeasuredLevel ==
  ASSUME NEW owed, NEW f, NEW m \in Node, m # Nil, NEW k \in Nat,
         \A d \in Side : f[tree.child[d][m]] \in Nat /\ owed[m][d] \in Nat
                         /\ f[tree.child[d][m]] + owed[m][d] = k
  PROVE  Measuring(owed, f)[m] = k + Black(tree, m)
<1> DEFINE below == {LET b == f[tree.child[d][m]]
                     IN IF b < 0 THEN -1 ELSE b + owed[m][d] : d \in Side}
<1>1. \A d \in Side : (LET b == f[tree.child[d][m]]
                       IN IF b < 0 THEN -1 ELSE b + owed[m][d]) = k
  <2> SUFFICES ASSUME NEW d \in Side
               PROVE (LET b == f[tree.child[d][m]]
                      IN IF b < 0 THEN -1 ELSE b + owed[m][d]) = k
    OBVIOUS
  <2>1. f[tree.child[d][m]] \in Nat /\ f[tree.child[d][m]] + owed[m][d] = k
    OBVIOUS
  <2> QED
    BY <2>1
<1>2. below = {k}
  <2>1. \A w \in below : w = k
    BY <1>1
  <2>2. k \in below
    BY <1>1, SideFacts
  <2> QED
    BY <2>1, <2>2
<1>3. Measuring(owed, f)[m] = IF Cardinality(below) # 1 \/ -1 \in below THEN -1
                              ELSE (CHOOSE b \in below : TRUE) + Black(tree, m)
  BY DEF Measuring, Black
<1> HIDE DEF below
<1>4. Cardinality(below) = 1 /\ -1 \notin below
  <2>1. Cardinality({k}) = 1
    BY FS_Singleton
  <2>2. -1 # k
    OBVIOUS
  <2> QED
    BY <1>2, <2>1, <2>2
<1>5. (CHOOSE b \in below : TRUE) = k
  BY <1>2
<1> QED
  BY <1>3, <1>4, <1>5

\* BlackHeight computes the heights.
LEMMA BlackHeightFacts ==
  ASSUME NEW C, NEW b, Shape(tree, C, b), NEW owed \in [Node -> [Side -> Nat]],
         \A n \in Node \ C : owed[n]["left"] = owed[n]["right"],
         NEW h, Heights(tree, C, h, owed)
  PROVE  BlackHeight(owed, tree.root) > 0
<1> DEFINE H == [m \in Node |-> IF m = Nil THEN 1 ELSE IF m \in C THEN h[m]
                                ELSE 1 + owed[m]["left"] + Black(tree, m)]
           f == CHOOSE g : g = Measuring(owed, g)
           w == Mass(C, b)
           T == {m \in Node : f[m] = H[m]}
<1>1. C \subseteq Node /\ Nil \notin C /\ Nil \in Node /\ tree \in Trees
      /\ tree.child \in [Side -> [Node -> Node]] /\ tree.root \in Node
      /\ tree.root \in C \cup {Nil}
  <2>1. C \subseteq Node /\ Nil \notin C /\ Nil \in Node /\ tree \in Trees
    BY ShapeIsTree
  <2>2. tree.root \in C \cup {Nil}
    BY DEF Shape
  <2> QED
    BY <2>1, <2>2 DEF Trees
<1>2. /\ h \in [Node -> Nat] /\ \A n \in Node : h[n] > 0
      /\ h[Nil] = 1
      /\ \A n \in C : Level(tree, h, owed, n)
  BY DEF Heights
<1>3. \A m \in Node : Black(tree, m) \in Nat /\ H[m] \in Nat /\ H[m] > 0
  <2>1. \A m \in Node : Black(tree, m) \in {0, 1}
    BY <1>1, BlackFacts
  <2>2. \A m \in Node : owed[m]["left"] \in Nat
    BY SideFacts
  <2>3. ASSUME NEW m \in Node PROVE H[m] \in Nat /\ H[m] > 0
    <3>1. Black(tree, m) \in Nat /\ owed[m]["left"] \in Nat /\ h[m] \in Nat /\ h[m] > 0
      BY <1>2, <2>1, <2>2
    <3> QED
      BY <3>1
  <2> QED
    BY <2>1, <2>3
<1>4. /\ H[Nil] = 1
      /\ \A m \in C : H[m] = h[m]
      /\ \A m \in Node : m # Nil /\ m \notin C => H[m] = 1 + owed[m]["left"] + Black(tree, m)
  BY <1>1
<1> HIDE DEF H
<1>5. ASSUME NEW m \in Node, m # Nil
      PROVE  \E k \in Nat : /\ H[m] = k + Black(tree, m)
                            /\ \A d \in Side : H[tree.child[d][m]] + owed[m][d] = k
  <2>1. CASE m \in C
    <3>1. \A d \in Side : tree.child[d][m] \in C \cup {Nil}
      BY <2>1 DEF Shape
    <3>2. \A d \in Side : H[tree.child[d][m]] = h[tree.child[d][m]]
      BY <1>2, <1>4, <3>1
    <3>3. \A d \in Side : h[m] = H[tree.child[d][m]] + owed[m][d] + Black(tree, m)
      BY <1>2, <2>1, <3>2 DEF Level
    <3> DEFINE k == H[tree.child["left"][m]] + owed[m]["left"]
    <3>4. \A d \in Side : tree.child[d][m] \in Node /\ H[tree.child[d][m]] \in Nat
                          /\ owed[m][d] \in Nat /\ Black(tree, m) \in Nat
      BY <1>1, <1>3
    <3>5. k \in Nat
      BY <3>4, SideFacts
    <3>6. \A d \in Side : H[tree.child[d][m]] + owed[m][d] = k
      <4> TAKE d \in Side
      <4>1. "left" \in Side
        BY SideFacts
      <4>2. h[m] = H[tree.child[d][m]] + owed[m][d] + Black(tree, m)
        BY <3>3
      <4>3. h[m] = H[tree.child["left"][m]] + owed[m]["left"] + Black(tree, m)
        BY <3>3, <4>1
      <4>4. /\ H[tree.child[d][m]] \in Nat /\ owed[m][d] \in Nat /\ Black(tree, m) \in Nat
            /\ H[tree.child["left"][m]] \in Nat /\ owed[m]["left"] \in Nat
        BY <3>4, <4>1
      <4> QED
        BY <4>2, <4>3, <4>4
    <3>7. H[m] = k + Black(tree, m)
      BY <1>4, <2>1, <3>3, SideFacts
    <3> QED
      BY <3>5, <3>6, <3>7
  <2>2. CASE m \notin C
    <3>1. \A d \in Side : tree.child[d][m] = Nil
      <4>1. m \in Node \ C
        BY <2>2
      <4> QED
        BY <4>1 DEF Shape
    <3>2. \A d \in Side : owed[m][d] = owed[m]["left"] /\ owed[m][d] \in Nat
      BY <2>2, SideFacts
    <3> DEFINE k == 1 + owed[m]["left"]
    <3>3. k \in Nat
      BY <3>2, SideFacts
    <3>4. \A d \in Side : H[tree.child[d][m]] + owed[m][d] = k
      BY <1>4, <3>1, <3>2
    <3>5. H[m] = k + Black(tree, m)
      BY <1>4, <1>5, <2>2
    <3> QED
      BY <3>3, <3>4, <3>5
  <2> QED
    BY <2>1, <2>2
<1>6. \A m \in Node, d \in Side : tree.child[d][m] \in Node /\ owed[m][d] \in Nat
  BY <1>1
<1>7. H = Measuring(owed, H)
  <2>1. ASSUME NEW m \in Node PROVE Measuring(owed, H)[m] = H[m]
    <3>1. CASE m = Nil
      BY <1>4, <3>1 DEF Measuring
    <3>2. CASE m # Nil
      <4>1. PICK k \in Nat : /\ H[m] = k + Black(tree, m)
                             /\ \A d \in Side : H[tree.child[d][m]] + owed[m][d] = k
        BY <1>5, <3>2
      <4>2. \A d \in Side : H[tree.child[d][m]] \in Nat /\ owed[m][d] \in Nat
        BY <1>3, <1>6
      <4> QED
        BY <3>2, <4>1, <4>2, MeasuredLevel
    <3> QED
      BY <3>1, <3>2
  <2>2. Measuring(owed, H) = [m \in Node |-> Measuring(owed, H)[m]]
    BY DEF Measuring
  <2>3. H = [m \in Node |-> H[m]]
    BY DEF H
  <2> QED
    BY <2>1, <2>2, <2>3
<1>8. f = Measuring(owed, f)
  BY <1>7
<1>9. BlackHeight(owed, tree.root) = f[tree.root]
  BY DEF BlackHeight, Measuring
<1> HIDE DEF f
<1>10. w \in [Node -> Nat]
  BY MassShrinks
<1>11. ASSUME NEW m \in Node, \A n \in Node : w[n] < w[m] => n \in T PROVE m \in T
  <2>1. CASE m = Nil
    <3>1. f[Nil] = 1
      BY <1>1, <1>8 DEF Measuring
    <3> QED
      BY <1>4, <2>1, <3>1
  <2>2. CASE m # Nil
    <3>1. PICK k \in Nat : /\ H[m] = k + Black(tree, m)
                           /\ \A d \in Side : H[tree.child[d][m]] + owed[m][d] = k
      BY <1>5, <2>2
    <3>2. \A d \in Side : f[tree.child[d][m]] = H[tree.child[d][m]]
      <4> TAKE d \in Side
      <4>1. tree.child[d][m] \in Node /\ w[tree.child[d][m]] < w[m]
        BY <2>2, MassShrinks
      <4> QED
        BY <1>11, <4>1
    <3>3. \A d \in Side : f[tree.child[d][m]] \in Nat /\ owed[m][d] \in Nat
                          /\ f[tree.child[d][m]] + owed[m][d] = k
      BY <1>3, <1>6, <3>1, <3>2
    <3>4. Measuring(owed, f)[m] = k + Black(tree, m)
      BY <2>2, <3>3, MeasuredLevel
    <3>5. f[m] = Measuring(owed, f)[m]
      BY <1>8
    <3> QED
      BY <3>1, <3>4, <3>5
  <2> QED
    BY <2>1, <2>2
<1> HIDE DEF T, w
<1>12. Node \subseteq T
  BY <1>10, <1>11, MeasureInduction
<1>13. f[tree.root] = H[tree.root]
  BY <1>1, <1>12 DEF T
<1> QED
  BY <1>1, <1>3, <1>9, <1>13
------------------------------------------------------------------------------
(* States of the tree between calls and during an insertion. *)

\* A red-black tree of the keys in C, up to what o says is owed and up to
\* colours: b are its bounds and h its black heights.
Sound(t, C, b, h, o) ==
  /\ Shape(t, C, b)
  /\ Heights(t, C, h, o)
  /\ t.color[Nil] = "black"

\* Between two calls.
Settled(t, C) ==
  \E b, h : /\ Sound(t, C, b, h, NothingOwed)
            /\ \A n \in C : ~Clash(t, n)
            /\ ~Red(t, t.root)

\* In the loop of rbt_insert, at the red node z.
AtRed(t, C, b, h, z) ==
  /\ Sound(t, C, b, h, NothingOwed)
  /\ z \in C /\ Red(t, z)
  /\ \A n \in C : Clash(t, n) => n = z
  /\ Red(t, t.root) => z = t.root

Inserting(t, C, z) == \E b, h : AtRed(t, C, b, h, z)

LEMMA NothingOwedFacts == \A n \in Node, d \in Side : NothingOwed[n][d] = 0
BY DEF NothingOwed

\* Linking a red leaf.
LEMMA LinkInserts ==
  ASSUME NEW t, NEW C, Settled(t, C), NEW k \in Keys, Search(t, k) = Nil,
         NEW r, Linked(t, k, Descent(t, k).above, r)
  PROVE  k \notin C /\ Inserting(r, C \cup {k}, k)
<1> DEFINE y == Descent(t, k).above
           s == SideOf(k, y)
<1>1. PICK b, h : /\ Sound(t, C, b, h, NothingOwed)
                  /\ \A n \in C : ~Clash(t, n)
                  /\ ~Red(t, t.root)
  BY DEF Settled
<1>2. Shape(t, C, b) /\ Heights(t, C, h, NothingOwed) /\ t.color[Nil] = "black"
  BY <1>1 DEF Sound
<1>3. C \subseteq Node /\ Nil \notin C /\ Nil \in Node /\ t \in Trees /\ k \in Node /\ k # Nil
  BY <1>2, ShapeIsTree, KeyFacts
<1>4. k \notin C
  <2>1. k \in C => Descent(t, k).at = k
    BY <1>2, DescentFacts
  <2> QED
    BY <1>3, <2>1 DEF Search
<1>5. IF t.root = Nil THEN y = Nil
      ELSE y \in C /\ Inside(b, y, k) /\ t.child[SideOf(k, y)][y] = Nil
  BY <1>2, <1>4, DescentFacts
<1>6. y \in C \cup {Nil}
  BY <1>5
<1> HIDE DEF y
<1> DEFINE D == C \cup {k}
           g == [h EXCEPT ![k] = 1]
<1>7. Shape(r, D, Widened(b, k, y))
  <2>1. Linked(t, k, y, r)
    BY DEF y
  <2> QED
    BY <1>2, <1>4, <1>5, <2>1, LinkShape
<1>8. /\ r.root = IF y = Nil THEN k ELSE t.root
      /\ \A e \in Side, n \in Node :
           r.child[e][n] = IF y # Nil /\ n = y /\ e = s THEN k ELSE t.child[e][n]
      /\ \A n \in Node : r.parent[n] = IF n = k THEN y ELSE t.parent[n]
      /\ \A n \in Node : r.color[n] = IF n = k THEN "red" ELSE t.color[n]
  BY DEF Linked, y
<1>9. /\ h \in [Node -> Nat] /\ (\A n \in Node : h[n] > 0) /\ h[Nil] = 1
      /\ \A n \in C : Level(t, h, NothingOwed, n)
  BY <1>2 DEF Heights
<1>10. /\ g \in [Node -> Nat] /\ g[k] = 1 /\ g[Nil] = 1
       /\ (\A n \in Node : g[n] > 0) /\ \A n \in Node : n # k => g[n] = h[n]
  BY <1>3, <1>9
<1> HIDE DEF g, s
<1>11. Level(r, g, NothingOwed, k)
  <2> SUFFICES ASSUME NEW e \in Side
               PROVE g[k] = g[r.child[e][k]] + NothingOwed[k][e] + Black(r, k)
    BY DEF Level
  <2>1. t.child[e][k] = Nil /\ y # k
    <3>1. k \in Node \ C
      BY <1>3, <1>4
    <3> QED
      BY <1>2, <1>3, <1>4, <1>6, <3>1 DEF Shape
  <2>2. r.child[e][k] = Nil
    BY <1>3, <1>8, <2>1
  <2>3. Black(r, k) = 0
    BY <1>3, <1>8 DEF Black
  <2> QED
    BY <1>3, <1>10, <2>2, <2>3, NothingOwedFacts
<1>12. ASSUME NEW n \in C PROVE Level(r, g, NothingOwed, n)
  <2> SUFFICES ASSUME NEW e \in Side
               PROVE g[n] = g[r.child[e][n]] + NothingOwed[n][e] + Black(r, n)
    BY DEF Level
  <2>1. n \in Node /\ n # k
    BY <1>3, <1>4
  <2>2. h[n] = h[t.child[e][n]] + NothingOwed[n][e] + Black(t, n)
    BY <1>9 DEF Level
  <2>3. Black(r, n) = Black(t, n) /\ g[n] = h[n]
    BY <1>8, <1>10, <2>1 DEF Black
  <2>4. g[r.child[e][n]] = h[t.child[e][n]]
    <3>1. CASE y # Nil /\ n = y /\ e = s
      <4>1. t.child[e][n] = Nil
        BY <1>5, <1>6, <3>1 DEF s, Shape
      <4> QED
        BY <1>8, <1>9, <1>10, <2>1, <3>1, <4>1
    <3>2. CASE ~(y # Nil /\ n = y /\ e = s)
      <4>1. r.child[e][n] = t.child[e][n]
        BY <1>8, <2>1, <3>2
      <4>2. t.child[e][n] \in C \cup {Nil}
        BY <1>2 DEF Shape
      <4> QED
        BY <1>3, <1>4, <1>10, <4>1, <4>2
    <3> QED
      BY <3>1, <3>2
  <2> QED
    BY <2>2, <2>3, <2>4
<1>13. Heights(r, D, g, NothingOwed)
  BY <1>10, <1>11, <1>12 DEF Heights
<1>14. r.color[Nil] = "black" /\ Red(r, k)
  BY <1>2, <1>3, <1>8 DEF Red
<1>15. ASSUME NEW n \in D, Clash(r, n) PROVE n = k
  <2> SUFFICES ASSUME n # k PROVE FALSE
    OBVIOUS
  <2>1. n \in C /\ n \in Node
    BY <1>3, <1>15
  <2>2. t.parent[n] \in C \cup {Nil}
    <3>1. CASE n = t.root
      BY <1>2, <1>3, <2>1, <3>1 DEF Shape
    <3>2. CASE n # t.root
      BY <1>2, <2>1, <3>2 DEF Shape
    <3> QED
      BY <3>1, <3>2
  <2>3. Clash(t, n)
    BY <1>3, <1>4, <1>8, <1>15, <2>1, <2>2 DEF Clash, Red
  <2> QED
    BY <1>1, <2>1, <2>3
<1>16. Red(r, r.root) => k = r.root
  <2> SUFFICES ASSUME Red(r, r.root), k # r.root PROVE FALSE
    OBVIOUS
  <2>1. r.root = t.root /\ t.root \in Node
    BY <1>3, <1>8 DEF Trees
  <2> QED
    BY <1>1, <1>8, <2>1 DEF Red
<1>17. AtRed(r, D, Widened(b, k, y), g, k)
  BY <1>7, <1>13, <1>14, <1>15, <1>16 DEF AtRed, Sound
<1> QED
  BY <1>4, <1>17 DEF Inserting

\* Who is who around a red node z below a red node p.
Family(t, C, z, p, g, s, u) ==
  /\ t.parent[z] = p /\ t.parent[p] = g /\ SideBelow(t, p) = s /\ t.child[Other(s)][g] = u
  /\ p \in C /\ g \in C /\ s \in Side /\ p # t.root /\ z # t.root
  /\ z # p /\ p # g /\ z # g
  /\ t.child[s][g] = p /\ Red(t, p) /\ ~Red(t, g) /\ ~Red(t, t.root)
  /\ u # p /\ u # g /\ u # z
  /\ u # Nil => u \in C /\ t.parent[u] = g /\ u # t.root
  /\ \A n \in C : t.parent[n] = g => n \in {p, u}
  /\ \E e \in Side : t.child[e][p] = z

LEMMA FamilyFacts ==
  ASSUME NEW t, NEW C, NEW b, NEW h, NEW z, AtRed(t, C, b, h, z), Red(t, t.parent[z])
  PROVE  LET p == t.parent[z]
             g == t.parent[p]
             s == SideBelow(t, p)
         IN  Family(t, C, z, p, g, s, t.child[Other(s)][g])
<1> DEFINE p == t.parent[z]
           g == t.parent[p]
           s == SideBelow(t, p)
           u == t.child[Other(s)][g]
<1>1. Shape(t, C, b) /\ z \in C /\ Red(t, z)
      /\ (\A n \in C : Clash(t, n) => n = z) /\ (Red(t, t.root) => z = t.root)
  BY DEF AtRed, Sound
<1>2. C \subseteq Node /\ Nil \notin C
  BY <1>1, ShapeIsTree
<1>3. z # t.root
  BY <1>1, <1>2 DEF Shape, Red
<1>4. p \in C /\ p # z /\ \E e \in Side : t.child[e][p] = z
  <2>1. p \in C /\ p # z /\ SideBelow(t, z) \in Side /\ t.child[SideBelow(t, z)][p] = z
    BY <1>1, <1>3, HangsOnce
  <2> QED
    BY <2>1
<1>5. p # t.root
  BY <1>1, <1>3
<1>6. g \in C /\ g # p /\ s \in Side
      /\ \A e \in Side : t.child[e][g] = p <=> e = s
  <2> HIDE DEF p
  <2> QED
    BY <1>1, <1>4, <1>5, HangsOnce
<1>7. ~Red(t, g)
  BY <1>1, <1>4 DEF Clash
<1>8. z # g
  BY <1>1, <1>7
<1>9. Other(s) \in Side /\ Other(s) # s /\ Side = {s, Other(s)}
  BY <1>6, SideFacts
<1>10. u # p /\ u # g
  <2> HIDE DEF p, g, s
  <2>1. u # p
    BY <1>6, <1>9
  <2>2. g # Nil
    BY <1>2, <1>6
  <2>3. u # Nil => u # g
    BY <1>1, <1>6, <1>9, Downwards
  <2> QED
    BY <2>1, <2>2, <2>3
<1>11. u # Nil => u \in C /\ t.parent[u] = g /\ u # t.root
  <2> HIDE DEF p, g, s
  <2>1. g \in Node
    BY <1>2, <1>6
  <2> QED
    BY <1>1, <1>9, <2>1, OneParent
<1>12. u # z
  BY <1>1, <1>2, <1>6, <1>11
<1>13. ASSUME NEW n \in C, t.parent[n] = g PROVE n \in {p, u}
  <2>1. n # t.root
    BY <1>1, <1>2, <1>6, <1>13 DEF Shape
  <2>2. PICK e \in Side : t.child[e][g] = n
    BY <1>1, <1>13, <2>1 DEF Shape
  <2> QED
    BY <1>6, <1>9, <2>2
<1>14. ~Red(t, t.root) /\ Red(t, p)
  BY <1>1, <1>3
<1> QED
  BY <1>3, <1>4, <1>5, <1>6, <1>7, <1>8, <1>10, <1>11, <1>12, <1>13, <1>14 DEF Family
------------------------------------------------------------------------------
(* The turns of the loop of rbt_insert: cases 1 and 2. *)

\* Case 1: the father and the uncle turn black, and the grandfather red.
LEMMA RecolourInserts ==
  ASSUME NEW t, NEW C, NEW z, Inserting(t, C, z),
         NEW p, NEW g, NEW s, NEW u, Family(t, C, z, p, g, s, u), Red(t, u)
  PROVE  Inserting(Painted(Painted(t, {p, u}, "black"), {g}, "red"), C, g)
<1> DEFINE m == Painted(t, {p, u}, "black")
           r == Painted(m, {g}, "red")
<1>1. PICK b, h : AtRed(t, C, b, h, z)
  BY DEF Inserting
<1>2. Shape(t, C, b) /\ Heights(t, C, h, NothingOwed) /\ t.color[Nil] = "black"
      /\ \A n \in C : Clash(t, n) => n = z
  BY <1>1 DEF AtRed, Sound
<1>3. C \subseteq Node /\ Nil \notin C /\ Nil \in Node /\ t \in Trees
  BY <1>2, ShapeIsTree
<1>4. /\ p \in C /\ g \in C /\ s \in Side /\ p # t.root /\ z # t.root
      /\ z # p /\ p # g /\ z # g
      /\ t.child[s][g] = p /\ Red(t, p) /\ ~Red(t, g) /\ ~Red(t, t.root)
      /\ u # p /\ u # g /\ u # z
      /\ u \in C /\ t.parent[u] = g /\ u # t.root
      /\ \A n \in C : t.parent[n] = g => n \in {p, u}
  BY DEF Family, Red
<1>5. t.parent[p] = g /\ t.child[Other(s)][g] = u /\ Side = {s, Other(s)} /\ t.parent[z] = p
  BY <1>4, SideFacts DEF Family
<1>6. /\ r \in Trees /\ r.root = t.root /\ r.child = t.child /\ r.parent = t.parent
      /\ \A n \in Node : r.color[n] = IF n = g THEN "red" ELSE IF n \in {p, u} THEN "black"
                                      ELSE t.color[n]
  <2>1. /\ m \in Trees /\ m.root = t.root /\ m.child = t.child /\ m.parent = t.parent
        /\ \A n \in Node : m.color[n] = IF n \in {p, u} THEN "black" ELSE t.color[n]
    BY <1>3, PaintedFacts
  <2> HIDE DEF m
  <2>2. /\ r \in Trees /\ r.root = m.root /\ r.child = m.child /\ r.parent = m.parent
        /\ \A n \in Node : r.color[n] = IF n \in {g} THEN "red" ELSE m.color[n]
    BY <2>1, PaintedFacts
  <2> HIDE DEF r
  <2> QED
    BY <2>1, <2>2
<1> HIDE DEF r, m
<1>7. Shape(r, C, b)
  BY <1>2, <1>6, SameShape
<1> DEFINE k == [h EXCEPT ![p] = h[p] + 1, ![u] = h[u] + 1]
<1>8. h \in [Node -> Nat] /\ (\A n \in Node : h[n] > 0) /\ h[Nil] = 1
      /\ \A n \in C : Level(t, h, NothingOwed, n)
  BY <1>2 DEF Heights
<1>9. /\ p \in Node /\ u \in Node /\ g \in Node /\ p # Nil /\ u # Nil /\ g # Nil /\ u # p
      /\ h[p] \in Nat /\ h[u] \in Nat
  BY <1>3, <1>4, <1>8
<1>10. /\ k \in [Node -> Nat] /\ k[p] = h[p] + 1 /\ k[u] = h[u] + 1
       /\ \A n \in Node : n \notin {p, u} => k[n] = h[n]
  BY <1>8, <1>9
<1> HIDE DEF k
<1>11. \A n \in Node : k[n] > 0
  BY <1>8, <1>9, <1>10
<1>12. ASSUME NEW n \in C, NEW e \in Side
       PROVE  k[n] = k[r.child[e][n]] + NothingOwed[n][e] + Black(r, n)
  <2>1. n \in Node
    BY <1>3
  <2>2. h[n] = h[t.child[e][n]] + NothingOwed[n][e] + Black(t, n) /\ NothingOwed[n][e] = 0
    BY <1>8, <2>1, NothingOwedFacts DEF Level
  <2>3. r.child[e][n] = t.child[e][n] /\ t.child[e][n] \in C \cup {Nil} /\ t.child[e][n] \in Node
    BY <1>2, <1>3, <1>6 DEF Shape
  <2>4. h[n] \in Nat /\ h[t.child[e][n]] \in Nat
    BY <1>8, <2>1, <2>3
  <2>5. CASE n = g
    <3>1. t.child[e][n] \in {p, u}
      BY <1>4, <1>5, <2>5
    <3>2. Black(r, n) = 0 /\ Black(t, n) = 1
      BY <1>3, <1>4, <1>6, <1>9, <2>5, BlackFacts DEF Black
    <3>3. k[n] = h[n] /\ k[r.child[e][n]] = h[t.child[e][n]] + 1
      BY <1>4, <1>10, <2>1, <2>3, <2>5, <3>1
    <3> QED
      BY <2>2, <2>4, <3>2, <3>3
  <2>6. CASE n # g
    <3>1. t.child[e][n] \notin {p, u}
      BY <1>2, <1>4, <1>5, <1>9, <2>1, <2>6, OneParent
    <3>2. k[r.child[e][n]] = h[t.child[e][n]]
      BY <1>10, <2>3, <3>1
    <3>3. CASE n \in {p, u}
      <4>1. Black(r, n) = 1 /\ Black(t, n) = 0 /\ k[n] = h[n] + 1
        BY <1>4, <1>6, <1>9, <1>10, <2>1, <3>3 DEF Black, Red
      <4> QED
        BY <2>2, <2>4, <3>2, <4>1
    <3>4. CASE n \notin {p, u}
      <4>1. Black(r, n) = Black(t, n) /\ k[n] = h[n]
        BY <1>6, <1>10, <2>1, <2>6, <3>4 DEF Black
      <4> QED
        BY <2>2, <3>2, <4>1
    <3> QED
      BY <3>3, <3>4
  <2> QED
    BY <2>5, <2>6
<1>13. Heights(r, C, k, NothingOwed)
  BY <1>3, <1>8, <1>9, <1>10, <1>11, <1>12 DEF Heights, Level
<1>14. ASSUME NEW n \in C, Clash(r, n) PROVE n = g
  <2> SUFFICES ASSUME n # g PROVE FALSE
    OBVIOUS
  <2>1. n \in Node /\ t.parent[n] \in Node
    BY <1>3 DEF Trees
  <2>2. n \notin {p, u} /\ Red(t, n)
    BY <1>6, <1>14, <2>1 DEF Clash, Red
  <2>3. t.parent[n] # g
    BY <1>4, <2>2
  <2>4. t.parent[n] \notin {p, u} /\ Red(t, t.parent[n])
    BY <1>6, <1>14, <2>1, <2>3 DEF Clash, Red
  <2>5. n = z
    BY <1>2, <2>2, <2>4 DEF Clash
  <2> QED
    BY <1>5, <2>4, <2>5
<1>15. Red(r, r.root) => g = r.root
  <2>1. t.root \in Node
    BY <1>3 DEF Trees
  <2> QED
    BY <1>4, <1>6, <2>1 DEF Red
<1>16. Red(r, g) /\ r.color[Nil] = "black"
  BY <1>2, <1>3, <1>4, <1>6, <1>9 DEF Red
<1>17. AtRed(r, C, b, k, g)
  BY <1>4, <1>7, <1>13, <1>14, <1>15, <1>16 DEF AtRed, Sound
<1> QED
  BY <1>17 DEF Inserting, r, m

\* Case 2: an inner grandchild becomes an outer one.
LEMMA InnerInserts ==
  ASSUME NEW t, NEW C, NEW b, NEW h, NEW z, AtRed(t, C, b, h, z),
         NEW p, NEW g, NEW s, NEW u, Family(t, C, z, p, g, s, u), t.child[Other(s)][p] = z
  PROVE  LET r == Rotate(t, s, p)
         IN  /\ \E b2, h2 : AtRed(r, C, b2, h2, p)
             /\ r.parent[p] = z /\ r.parent[z] = g /\ r.child[s][z] = p
             /\ SideBelow(r, z) = s /\ r.child[Other(s)][g] = u /\ r.color = t.color
<1> DEFINE r == Rotate(t, s, p)
<1>1. Shape(t, C, b) /\ Heights(t, C, h, NothingOwed) /\ t.color[Nil] = "black"
      /\ (\A n \in C : Clash(t, n) => n = z) /\ z \in C /\ Red(t, z)
  BY DEF AtRed, Sound
<1>2. C \subseteq Node /\ Nil \notin C /\ Nil \in Node /\ t \in Trees
  BY <1>1, ShapeIsTree
<1>3. /\ p \in C /\ g \in C /\ s \in Side /\ p # t.root /\ z # t.root
      /\ z # p /\ p # g /\ z # g
      /\ t.child[s][g] = p /\ Red(t, p) /\ ~Red(t, g) /\ ~Red(t, t.root)
      /\ u # p /\ u # g /\ u # z
  BY DEF Family
<1>4. /\ Other(s) \in Side /\ Other(s) # s /\ Side = {s, Other(s)}
      /\ t.child[Other(s)][p] # Nil /\ t.parent[p] = g /\ t.child[Other(s)][g] = u
      /\ p \in Node /\ z \in Node /\ g \in Node /\ p # Nil /\ z # Nil /\ g # Nil
  BY <1>1, <1>2, <1>3, SideFacts DEF Family
<1> DEFINE middle == t.child[s][z]
           far == t.child[Other(s)][z]
<1>5. Rotated(t, s, p, r)
  BY <1>1, <1>3, <1>4, RotateFacts
<1> HIDE DEF r
<1>6. /\ r \in Trees
      /\ r.root = IF p = t.root THEN z ELSE t.root
      /\ \A e \in Side, n \in Node :
           r.child[e][n] = IF n = p /\ e = Other(s) THEN middle
                           ELSE IF n = z /\ e = s THEN p
                           ELSE IF t.child[e][n] = p THEN z ELSE t.child[e][n]
      /\ \A n \in Node :
           r.parent[n] = IF n = p THEN z ELSE IF n = z THEN t.parent[p]
                         ELSE IF n # Nil /\ n = middle THEN p ELSE t.parent[n]
      /\ r.color = t.color
  BY <1>4, <1>5 DEF Rotated
<1>7. Shape(r, C, Turned(t, b, s, p))
  BY <1>1, <1>3, <1>4, RotateShape DEF r
<1>8. h \in [Node -> Nat] /\ (\A n \in Node : h[n] > 0) /\ h[Nil] = 1
      /\ \A n \in C : Level(t, h, NothingOwed, n)
  BY <1>1 DEF Heights
<1>9. Black(t, p) = 0 /\ Black(t, z) = 0
  BY <1>1, <1>3 DEF Black, Red
<1>10. /\ t.child[s][p] \in Node /\ middle \in Node /\ far \in Node
  BY <1>2, <1>3, <1>4 DEF Trees
<1>11. /\ h[p] = h[t.child[s][p]] /\ h[p] = h[z] /\ h[z] = h[middle] /\ h[z] = h[far]
  <2>1. Level(t, h, NothingOwed, p) /\ Level(t, h, NothingOwed, z)
    BY <1>1, <1>3, <1>8
  <2>2. \A n \in {p, z}, e \in Side : NothingOwed[n][e] = 0
    BY <1>4, NothingOwedFacts
  <2>3. \A n \in {p, z}, e \in Side : h[n] = h[t.child[e][n]] + NothingOwed[n][e] + Black(t, n)
    BY <2>1 DEF Level
  <2>4. \A n \in {p, z}, e \in Side : t.child[e][n] \in Node
    BY <1>2, <1>4 DEF Trees
  <2>5. \A n \in {p, z}, e \in Side : h[n] = h[t.child[e][n]]
    BY <1>8, <1>9, <2>2, <2>3, <2>4
  <2> QED
    BY <1>3, <1>4, <2>5
<1>12. \A e \in Side : NothingOwed[p][e] = 0 /\ NothingOwed[z][e] = 0
  BY <1>4, NothingOwedFacts
<1>13. Heights(r, C, [h EXCEPT ![z] = h[p], ![p] = h[p]], NothingOwed)
  <2>1. Turnable(t, C, h, NothingOwed, s, p, z, h[p])
    BY <1>3, <1>4, <1>8, <1>9, <1>11, <1>12 DEF Turnable
  <2> QED
    BY <1>1, <1>3, <1>5, <2>1, RotateHeights
<1>14. middle # Nil => middle \in C /\ t.parent[middle] = z /\ ~Red(t, middle)
  <2> HAVE middle # Nil
  <2>1. middle \in C /\ t.parent[middle] = z /\ middle # z
    <3>1. middle \in C /\ t.parent[middle] = z
      BY <1>1, <1>3, <1>4, OneParent
    <3>2. middle # z
      BY <1>1, <1>3, Downwards
    <3> QED
      BY <3>1, <3>2
  <2> QED
    BY <1>1, <2>1 DEF Clash
<1> HIDE DEF middle, far
<1>15. r.parent[p] = z /\ r.parent[z] = g
  BY <1>3, <1>4, <1>6
<1>16. r.child[s][z] = p /\ r.child[Other(s)][g] = u /\ r.child[s][g] = z
  BY <1>3, <1>4, <1>6
<1>17. SideBelow(r, z) = s
  <2>1. \A e \in Side : r.child[e][g] = z <=> e = s
    BY <1>3, <1>4, <1>16
  <2> QED
    BY <1>3, <1>15, <2>1 DEF SideBelow, Side
<1>18. ASSUME NEW n \in C, Clash(r, n) PROVE n = p
  <2> SUFFICES ASSUME n # p PROVE FALSE
    OBVIOUS
  <2>1. n \in Node /\ n # Nil /\ Red(t, n) /\ Red(t, r.parent[n])
    BY <1>2, <1>6, <1>18 DEF Clash, Red
  <2>2. n # z
    BY <1>3, <1>15, <2>1
  <2>3. n # middle
    BY <1>14, <2>1
  <2>4. r.parent[n] = t.parent[n]
    BY <1>6, <2>1, <2>2, <2>3
  <2> QED
    BY <1>1, <2>1, <2>2, <2>4 DEF Clash
<1>19. ~Red(r, r.root) /\ Red(r, p) /\ r.color[Nil] = "black"
  BY <1>1, <1>3, <1>6 DEF Red
<1>20. AtRed(r, C, Turned(t, b, s, p), [h EXCEPT ![z] = h[p], ![p] = h[p]], p)
  BY <1>3, <1>7, <1>13, <1>18, <1>19 DEF AtRed, Sound
<1> QED
  BY <1>6, <1>15, <1>16, <1>17, <1>20 DEF r
------------------------------------------------------------------------------
(* Case 3, and how black nodes are paid. *)

\* Case 3: the father, turned black, moves above the grandfather, turned red.
LEMMA OuterInserts ==
  ASSUME NEW t, NEW C, NEW b, NEW h, NEW z, AtRed(t, C, b, h, z),
         NEW p, NEW g, NEW s, NEW u, Family(t, C, z, p, g, s, u),
         ~Red(t, u), t.child[s][p] = z
  PROVE  Inserting(Rotate(Painted(Painted(t, {p}, "black"), {g}, "red"), Other(s), g), C, z)
<1> DEFINE l == Painted(t, {p}, "black")
           m == Painted(l, {g}, "red")
           r == Rotate(m, Other(s), g)
           middle == t.child[Other(s)][p]
<1>1. Shape(t, C, b) /\ Heights(t, C, h, NothingOwed) /\ t.color[Nil] = "black"
      /\ (\A n \in C : Clash(t, n) => n = z) /\ z \in C /\ Red(t, z)
  BY DEF AtRed, Sound
<1>2. C \subseteq Node /\ Nil \notin C /\ Nil \in Node /\ t \in Trees
  BY <1>1, ShapeIsTree
<1>3. /\ t.parent[z] = p /\ t.parent[p] = g /\ t.child[Other(s)][g] = u
      /\ p \in C /\ g \in C /\ s \in Side /\ p # t.root /\ z # t.root
      /\ z # p /\ p # g /\ z # g
      /\ t.child[s][g] = p /\ Red(t, p) /\ ~Red(t, g) /\ ~Red(t, t.root)
      /\ \A n \in C : t.parent[n] = g => n \in {p, u}
  BY DEF Family
<1>4. /\ Other(s) \in Side /\ Other(s) # s /\ Side = {s, Other(s)} /\ Other(Other(s)) = s
      /\ p \in Node /\ z \in Node /\ g \in Node /\ p # Nil /\ z # Nil /\ g # Nil
  BY <1>1, <1>2, <1>3, SideFacts
<1>5. /\ m \in Trees /\ m.root = t.root /\ m.child = t.child /\ m.parent = t.parent
      /\ \A n \in Node : m.color[n] = IF n = g THEN "red" ELSE IF n = p THEN "black"
                                      ELSE t.color[n]
  <2>1. /\ l \in Trees /\ l.root = t.root /\ l.child = t.child /\ l.parent = t.parent
        /\ \A n \in Node : l.color[n] = IF n \in {p} THEN "black" ELSE t.color[n]
    BY <1>2, PaintedFacts
  <2> HIDE DEF l
  <2>2. /\ m \in Trees /\ m.root = l.root /\ m.child = l.child /\ m.parent = l.parent
        /\ \A n \in Node : m.color[n] = IF n \in {g} THEN "red" ELSE l.color[n]
    BY <2>1, PaintedFacts
  <2> HIDE DEF m
  <2> QED
    BY <2>1, <2>2
<1> HIDE DEF m, l
<1>6. Shape(m, C, b)
  BY <1>1, <1>5, SameShape
<1>7. m.child[s][g] = p /\ m.child[Other(Other(s))][g] # Nil
  BY <1>3, <1>4, <1>5
<1>8. Rotated(m, Other(s), g, r) /\ Shape(r, C, Turned(m, b, Other(s), g))
  BY <1>3, <1>4, <1>6, <1>7, RotateFacts, RotateShape
<1> HIDE DEF r
<1>9. /\ r.root = IF g = t.root THEN p ELSE t.root
      /\ \A n \in Node :
           r.parent[n] = IF n = g THEN p ELSE IF n = p THEN t.parent[g]
                         ELSE IF n # Nil /\ n = middle THEN g ELSE t.parent[n]
      /\ r.color = m.color
  BY <1>3, <1>4, <1>5, <1>8 DEF Rotated
<1>10. h \in [Node -> Nat] /\ (\A n \in Node : h[n] > 0) /\ h[Nil] = 1
      /\ \A n \in C : Level(t, h, NothingOwed, n)
  BY <1>1 DEF Heights
<1>11. /\ h[p] = h[middle] /\ h[p] = h[z] /\ h[g] = h[p] + 1 /\ h[g] = h[u] + 1
       /\ h[p] \in Nat /\ h[u] \in Nat /\ h[middle] \in Nat /\ h[z] \in Nat
  <2>1. Level(t, h, NothingOwed, p) /\ Level(t, h, NothingOwed, g)
    BY <1>3, <1>10
  <2>2. \A e \in Side : NothingOwed[p][e] = 0 /\ NothingOwed[g][e] = 0
    BY <1>4, NothingOwedFacts
  <2>3. Black(t, p) = 0 /\ Black(t, g) = 1
    BY <1>2, <1>3, <1>4, BlackFacts DEF Black, Red
  <2>4. u \in Node /\ middle \in Node
    BY <1>2, <1>3, <1>4 DEF Trees
  <2>5. /\ h[p] = h[middle] + NothingOwed[p][Other(s)] + Black(t, p)
        /\ h[p] = h[z] + NothingOwed[p][s] + Black(t, p)
        /\ h[g] = h[p] + NothingOwed[g][s] + Black(t, g)
        /\ h[g] = h[u] + NothingOwed[g][Other(s)] + Black(t, g)
    BY <1>3, <1>4, <2>1 DEF Level
  <2>6. h[p] \in Nat /\ h[u] \in Nat /\ h[middle] \in Nat /\ h[z] \in Nat
    BY <1>4, <1>10, <2>4
  <2> HIDE DEF middle
  <2> QED
    BY <1>4, <2>2, <2>3, <2>5, <2>6
<1>12. Turnable(m, C, h, NothingOwed, Other(s), g, p, h[p])
  <2>1. \A e \in Side : NothingOwed[p][e] = 0 /\ NothingOwed[g][e] = 0
    BY <1>4, NothingOwedFacts
  <2>2. Black(m, p) = 1 /\ Black(m, g) = 0
    BY <1>3, <1>4, <1>5 DEF Black
  <2>3. ASSUME NEW n \in C \ {g, p} PROVE Level(m, h, NothingOwed, n)
    <3>1. Level(t, h, NothingOwed, n) /\ Black(m, n) = Black(t, n)
      BY <1>2, <1>5, <1>10 DEF Black
    <3> QED
      BY <1>5, <3>1 DEF Level
  <2>4. /\ m.child[Other(s)][g] = u /\ m.child[Other(s)][p] = middle /\ m.child[s][p] = z
    BY <1>3, <1>5
  <2> HIDE DEF middle
  <2>5. h[p] > 0
    BY <1>4, <1>10
  <2>6. /\ h[p] = h[m.child[Other(s)][g]] + NothingOwed[g][Other(s)] + Black(m, g)
        /\ h[p] = h[m.child[Other(s)][p]] + NothingOwed[g][Other(Other(s))] + Black(m, g)
        /\ h[g] = h[p] + NothingOwed[p][Other(s)] + Black(m, p)
        /\ h[g] = h[m.child[Other(Other(s))][p]] + NothingOwed[p][Other(Other(s))] + Black(m, p)
    <3>1. NothingOwed[g][Other(s)] = 0 /\ NothingOwed[g][s] = 0
          /\ NothingOwed[p][Other(s)] = 0 /\ NothingOwed[p][s] = 0
      BY <1>4, <2>1
    <3>2. h[p] = h[u] /\ h[p] = h[middle] /\ h[g] = h[p] + 1 /\ h[g] = h[z] + 1
          /\ h[p] \in Nat /\ h[u] \in Nat /\ h[middle] \in Nat /\ h[z] \in Nat
      BY <1>11
    <3>3. h[p] = h[m.child[Other(s)][g]] + NothingOwed[g][Other(s)] + Black(m, g)
      BY <2>2, <2>4, <3>1, <3>2
    <3>4. h[p] = h[m.child[Other(s)][p]] + NothingOwed[g][s] + Black(m, g)
      BY <2>2, <2>4, <3>1, <3>2
    <3>5. h[g] = h[p] + NothingOwed[p][Other(s)] + Black(m, p)
      BY <2>2, <3>1, <3>2
    <3>6. h[g] = h[m.child[s][p]] + NothingOwed[p][s] + Black(m, p)
      BY <2>2, <2>4, <3>1, <3>2
    <3> QED
      BY <1>4, <3>3, <3>4, <3>5, <3>6
  <2>7. m.child[Other(Other(s))][g] = p /\ p # Nil
    BY <1>4, <1>7
  <2> QED
    BY <1>10, <1>11, <2>3, <2>5, <2>6, <2>7 DEF Turnable
<1>13. Heights(r, C, [h EXCEPT ![p] = h[g], ![g] = h[p]], NothingOwed)
  BY <1>3, <1>4, <1>6, <1>8, <1>12, RotateHeights
<1>14. middle # Nil => ~Red(t, middle) /\ middle # p /\ middle # g
  <2> HAVE middle # Nil
  <2>1. middle \in C /\ t.parent[middle] = p
    BY <1>1, <1>4, OneParent
  <2>2. middle # z
    <3>1. \A e \in Side : t.child[e][p] = z <=> e = SideBelow(t, z)
      BY <1>1, <1>3, HangsOnce
    <3> QED
      BY <1>3, <1>4, <3>1
  <2>3. ~Red(t, middle)
    BY <1>1, <1>3, <2>1, <2>2 DEF Clash
  <2>4. middle # p
    BY <1>3, <2>3
  <2>5. middle # g
    <3>1. Neighbours(m, C, b, Other(s), g)
      BY <1>3, <1>4, <1>6, <1>7, RotateNeighbours
    <3>2. m.child[Other(s)][m.child[Other(Other(s))][g]] = middle
      BY <1>4, <1>5, <1>7
    <3> HIDE DEF middle
    <3> QED
      BY <2>1, <1>2, <3>1, <3>2 DEF Neighbours
  <2> QED
    BY <2>3, <2>4, <2>5
<1>15. ASSUME NEW n \in C, Clash(r, n) PROVE FALSE
  <2>1. n \in Node /\ n # Nil /\ t.parent[n] \in Node
    BY <1>2 DEF Trees
  <2>2. n # g
    BY <1>3, <1>4, <1>5, <1>9, <1>15 DEF Clash, Red
  <2>3. n # p
    BY <1>3, <1>4, <1>5, <1>9, <1>15 DEF Clash, Red
  <2>4. Red(t, n)
    BY <1>5, <1>9, <1>15, <2>1, <2>2, <2>3 DEF Clash, Red
  <2>5. n # middle
    BY <1>14, <2>1, <2>4
  <2>6. r.parent[n] = t.parent[n]
    BY <1>9, <2>1, <2>2, <2>3, <2>5
  <2>7. t.parent[n] # g
    BY <1>3, <2>3, <2>4
  <2>8. t.parent[n] # p /\ Red(t, t.parent[n])
    BY <1>3, <1>4, <1>5, <1>9, <1>15, <2>1, <2>6, <2>7 DEF Clash, Red
  <2>9. n = z
    BY <1>1, <2>4, <2>8 DEF Clash
  <2> QED
    BY <1>3, <2>8, <2>9
<1>16. ~Red(r, r.root)
  <2>1. t.root \in Node
    BY <1>2 DEF Trees
  <2> QED
    BY <1>3, <1>4, <1>5, <1>9, <2>1 DEF Red
<1>17. Red(r, z) /\ r.color[Nil] = "black"
  BY <1>1, <1>2, <1>3, <1>4, <1>5, <1>9 DEF Red
<1>18. AtRed(r, C, Turned(m, b, Other(s), g), [h EXCEPT ![p] = h[g], ![g] = h[p]], z)
  BY <1>1, <1>8, <1>13, <1>15, <1>16, <1>17 DEF AtRed, Sound
<1> QED
  BY <1>18 DEF Inserting, r, m, l

\* A red node that turns black pays what is owed above it.
LEMMA BlackenHeights ==
  ASSUME NEW t, NEW C, NEW b, Shape(t, C, b), NEW x \in C, Red(t, x),
         NEW h, NEW o, Heights(t, C, h, o), NEW o2 \in [Node -> [Side -> Nat]],
         \A n \in C, e \in Side : o[n][e] = o2[n][e] + (IF t.child[e][n] = x THEN 1 ELSE 0)
  PROVE  Heights(Painted(t, {x}, "black"), C, [h EXCEPT ![x] = h[x] + 1], o2)
<1> DEFINE r == Painted(t, {x}, "black")
           g == [h EXCEPT ![x] = h[x] + 1]
<1>1. C \subseteq Node /\ Nil \notin C /\ Nil \in Node /\ t \in Trees
  BY ShapeIsTree
<1>2. h \in [Node -> Nat] /\ (\A n \in Node : h[n] > 0) /\ h[Nil] = 1
      /\ \A n \in C : Level(t, h, o, n)
  BY DEF Heights
<1>3. /\ r.child = t.child
      /\ \A n \in Node : r.color[n] = IF n \in {x} THEN "black" ELSE t.color[n]
  BY <1>1, PaintedFacts
<1>4. x \in Node /\ x # Nil /\ h[x] \in Nat
  BY <1>1, <1>2
<1>5. /\ g \in [Node -> Nat] /\ g[x] = h[x] + 1 /\ g[Nil] = 1
      /\ \A n \in Node : n # x => g[n] = h[n]
  BY <1>1, <1>2, <1>4
<1> HIDE DEF r, g
<1>6. \A n \in Node : g[n] > 0
  BY <1>2, <1>4, <1>5
<1>7. ASSUME NEW n \in C, NEW e \in Side
      PROVE  g[n] = g[r.child[e][n]] + o2[n][e] + Black(r, n)
  <2>1. n \in Node /\ t.child[e][n] \in Node /\ r.child[e][n] = t.child[e][n]
        /\ o2[n][e] \in Nat
    BY <1>1, <1>3 DEF Trees
  <2>2. h[n] = h[t.child[e][n]] + o[n][e] + Black(t, n)
        /\ o[n][e] = o2[n][e] + (IF t.child[e][n] = x THEN 1 ELSE 0)
    BY <1>2 DEF Level
  <2>3. h[n] \in Nat /\ h[t.child[e][n]] \in Nat
    BY <1>2, <2>1
  <2>4. Black(t, n) \in {0, 1} /\ Black(r, n) = IF n = x THEN 1 ELSE Black(t, n)
    BY <1>1, <1>3, <2>1, BlackFacts DEF Black
  <2>5. CASE t.child[e][n] = x
    <3>1. n # x
      <4>1. t.child[e][n] # Nil
        BY <1>4, <2>5
      <4> QED
        BY <2>5, <4>1, Downwards
    <3>2. g[n] = h[n] /\ g[r.child[e][n]] = h[t.child[e][n]] + 1 /\ o[n][e] = o2[n][e] + 1
          /\ Black(r, n) = Black(t, n)
      BY <1>5, <2>1, <2>2, <2>4, <2>5, <3>1
    <3>3. h[n] = h[t.child[e][n]] + (o2[n][e] + 1) + Black(t, n)
      BY <2>2, <3>2
    <3>4. o2[n][e] \in Nat /\ Black(t, n) \in Nat /\ h[t.child[e][n]] \in Nat
      BY <2>1, <2>3, <2>4
    <3>5. \A i, j, k \in Nat : i + (j + 1) + k = (i + 1) + j + k
      OBVIOUS
    <3>6. h[n] = (h[t.child[e][n]] + 1) + o2[n][e] + Black(t, n)
      BY <3>3, <3>4, <3>5, Zenon
    <3> QED
      BY <3>2, <3>6
  <2>6. CASE t.child[e][n] # x /\ n = x
    <3>1. Black(t, n) = 0
      BY <2>6 DEF Black, Red
    <3> QED
      BY <1>5, <2>1, <2>2, <2>3, <2>4, <2>6, <3>1
  <2>7. CASE t.child[e][n] # x /\ n # x
    BY <1>5, <2>1, <2>2, <2>3, <2>4, <2>7
  <2> QED
    BY <2>5, <2>6, <2>7
<1> QED
  BY <1>5, <1>6, <1>7 DEF Heights, Level, g, r

\* The root turns black.
LEMMA RootSettles ==
  ASSUME NEW t, NEW C, NEW b, NEW h, Sound(t, C, b, h, NothingOwed),
         \A n \in C : Clash(t, n) => t.root \in {n, t.parent[n]}
  PROVE  Settled(Painted(t, {t.root}, "black"), C)
<1> DEFINE x == t.root
           r == Painted(t, {x}, "black")
<1>1. Shape(t, C, b) /\ Heights(t, C, h, NothingOwed) /\ t.color[Nil] = "black"
  BY DEF Sound
<1>2. C \subseteq Node /\ Nil \notin C /\ Nil \in Node /\ t \in Trees
  BY <1>1, ShapeIsTree
<1>3. /\ r \in Trees /\ r.root = x /\ r.child = t.child /\ r.parent = t.parent
      /\ \A n \in Node : r.color[n] = IF n \in {x} THEN "black" ELSE t.color[n]
  BY <1>2, PaintedFacts
<1>4. x \in Node /\ x \in C \cup {Nil}
  BY <1>1, <1>2 DEF Shape
<1>5. \E g : Heights(r, C, g, NothingOwed)
  <2>1. CASE Red(t, x)
    <3>1. x \in C /\ x # Nil
      BY <1>4, <2>1 DEF Red
    <3>2. NothingOwed \in [Node -> [Side -> Nat]]
      BY DEF NothingOwed
    <3>3. ASSUME NEW n \in C, NEW e \in Side
          PROVE  NothingOwed[n][e] = NothingOwed[n][e] + (IF t.child[e][n] = x THEN 1 ELSE 0)
      <4>1. t.child[e][n] # x
        BY <1>1, <1>2, <3>1, OneParent
      <4>2. NothingOwed[n][e] = 0
        BY <1>2, NothingOwedFacts
      <4> QED
        BY <4>1, <4>2
    <3> HIDE DEF x
    <3>4. Heights(Painted(t, {x}, "black"), C, [h EXCEPT ![x] = h[x] + 1], NothingOwed)
      BY <1>1, <2>1, <3>1, <3>2, <3>3, BlackenHeights
    <3> QED
      BY <3>4
  <2>2. CASE ~Red(t, x)
    <3>1. \A n \in C : Black(r, n) = Black(t, n)
      <4> HIDE DEF r
      <4>1. t.color[x] = "black"
        BY <1>1, <1>2, <1>4, <2>2 DEF Red, Trees
      <4> QED
        BY <1>2, <1>3, <4>1 DEF Black
    <3>2. Heights(r, C, h, NothingOwed)
      BY <1>1, <1>3, <3>1 DEF Heights, Level
    <3> QED
      BY <3>2
  <2> QED
    BY <2>1, <2>2
<1> HIDE DEF r
<1>6. Shape(r, C, b)
  BY <1>1, <1>3, SameShape
<1>7. ASSUME NEW n \in C, Clash(r, n) PROVE FALSE
  <2>1. n \in Node /\ t.parent[n] \in Node
    BY <1>2 DEF Trees
  <2>2. Red(t, n) /\ n # x /\ Red(t, t.parent[n]) /\ t.parent[n] # x
    BY <1>3, <1>7, <2>1 DEF Clash, Red
  <2> QED
    BY <2>2 DEF Clash
<1>8. ~Red(r, r.root) /\ r.color[Nil] = "black"
  BY <1>1, <1>2, <1>3, <1>4 DEF Red
<1> QED
  BY <1>5, <1>6, <1>7, <1>8 DEF Settled, Sound, r
------------------------------------------------------------------------------
(* States of the tree during a deletion. *)

\* The place of x is short of a black node: none is owed at the root, and
\* elsewhere one is owed on side e of x's parent p.
Indebted(t, C, b, h, x, p, e) ==
  /\ x \in C \cup {Nil}
  /\ \A n \in C : Clash(t, n) => x \in {n, t.parent[n]}
  /\ Red(t, t.root) => x = t.root
  /\ x = t.root => Sound(t, C, b, h, NothingOwed)
  /\ x # t.root => /\ Sound(t, C, b, h, Owing(p, e))
                   /\ t.parent[x] = p /\ p \in C /\ e \in Side /\ t.child[e][p] = x

\* In the loop of rbt_delete, at x.
Deleting(t, C, x) == \E b, h, p, e : Indebted(t, C, b, h, x, p, e)

\* The place of x, on side e of p, lacks a black node, and its sibling w is
\* the only node around that can be red; nothing else is out of order.
Short(t, C, b, h, x, p, e, w) ==
  /\ Sound(t, C, b, h, Owing(p, e))
  /\ x \in C \cup {Nil} /\ p \in C /\ e \in Side /\ w \in C
  /\ t.parent[x] = p /\ t.child[e][p] = x /\ t.child[Other(e)][p] = w
  /\ ~Red(t, x) /\ ~Red(t, t.root)
  /\ \A n \in C : ~Clash(t, n)

\* What the heights around a short place are.
LEMMA ShortHeights ==
  ASSUME NEW t, NEW C, NEW b, NEW h, NEW x, NEW p, NEW e, NEW w,
         Short(t, C, b, h, x, p, e, w)
  PROVE  /\ h[x] \in Nat /\ h[w] \in Nat /\ h[p] \in Nat /\ h[x] > 0
         /\ Black(t, p) \in {0, 1} /\ Black(t, w) \in {0, 1}
         /\ h[w] = h[x] + 1 /\ h[p] = h[x] + 1 + Black(t, p)
         /\ \A d \in Side : /\ t.child[d][w] \in Node /\ h[t.child[d][w]] \in Nat
                            /\ h[w] = h[t.child[d][w]] + Black(t, w)
         /\ w # p /\ x # p /\ x # w /\ w # t.root /\ t.parent[w] = p
         /\ \A d \in Side : t.child[d][w] \notin {p, w}
         /\ \A d \in Side : t.child[d][p] # p
<1>1. Shape(t, C, b) /\ Heights(t, C, h, Owing(p, e))
  BY DEF Short, Sound
<1>2. /\ x \in C \cup {Nil} /\ p \in C /\ e \in Side /\ w \in C
      /\ t.parent[x] = p /\ t.child[e][p] = x /\ t.child[Other(e)][p] = w
  BY DEF Short
<1>3. C \subseteq Node /\ Nil \notin C /\ Nil \in Node /\ t \in Trees
  BY <1>1, ShapeIsTree
<1>4. Other(e) \in Side /\ Other(e) # e /\ Side = {e, Other(e)}
  BY <1>2, SideFacts
<1>5. /\ h \in [Node -> Nat] /\ \A n \in Node : h[n] > 0
      /\ h[Nil] = 1
      /\ \A n \in C : Level(t, h, Owing(p, e), n)
  BY <1>1 DEF Heights
<1>6. t.parent[w] = p /\ w # t.root /\ w # p /\ x # p
  <2>1. w # Nil /\ p # Nil
    BY <1>2, <1>3
  <2>2. t.parent[w] = p /\ w # t.root
    BY <1>1, <1>2, <1>3, <1>4, <2>1, OneParent
  <2>3. w # p
    BY <1>1, <1>2, <1>4, <2>1, Downwards
  <2>4. x # p
    BY <1>1, <1>2, <2>1, Downwards
  <2> QED
    BY <2>2, <2>3, <2>4
<1>7. /\ Owing(p, e)[p][e] = 1 /\ Owing(p, e)[p][Other(e)] = 0
      /\ \A d \in Side : Owing(p, e)[w][d] = 0
  <2>1. p \in Node /\ w \in Node
    BY <1>2, <1>3
  <2> QED
    BY <1>2, <1>4, <1>6, <2>1, OwingFacts
<1>8. /\ h[p] = h[x] + 1 + Black(t, p) /\ h[p] = h[w] + 0 + Black(t, p)
      /\ \A d \in Side : h[w] = h[t.child[d][w]] + 0 + Black(t, w)
  <2>1. Level(t, h, Owing(p, e), p) /\ Level(t, h, Owing(p, e), w)
    BY <1>2, <1>5
  <2> QED
    BY <1>2, <1>4, <1>7, <2>1 DEF Level
<1>9. /\ h[x] \in Nat /\ h[w] \in Nat /\ h[p] \in Nat /\ h[x] > 0
      /\ Black(t, p) \in {0, 1} /\ Black(t, w) \in {0, 1}
      /\ \A d \in Side : t.child[d][w] \in Node /\ h[t.child[d][w]] \in Nat
  <2>1. x \in Node /\ p \in Node /\ w \in Node /\ \A d \in Side : t.child[d][w] \in Node
    BY <1>2, <1>3 DEF Trees
  <2> QED
    BY <1>3, <1>5, <2>1, BlackFacts
<1>10. h[w] = h[x] + 1
  BY <1>8, <1>9
<1>11. \A d \in Side : t.child[d][w] \notin {p, w}
  <2> SUFFICES ASSUME NEW d \in Side PROVE t.child[d][w] \notin {p, w}
    OBVIOUS
  <2>1. t.child[d][w] # w
    <3>1. CASE t.child[d][w] = Nil
      BY <1>2, <1>3, <3>1
    <3>2. CASE t.child[d][w] # Nil
      BY <1>1, <1>2, <3>2, Downwards
    <3> QED
      BY <3>1, <3>2
  <2>2. t.child[d][w] # p
    <3>1. Neighbours(t, C, b, e, p)
      BY <1>1, <1>2, <1>3, RotateNeighbours
    <3>2. w \in Node /\ t.child[Other(e)][p] = w
      BY <1>2, <1>3
    <3> QED
      BY <3>1, <3>2 DEF Neighbours
  <2> QED
    BY <2>1, <2>2
<1>12. \A d \in Side : h[w] = h[t.child[d][w]] + Black(t, w)
  BY <1>8, <1>9
<1>13. x # w
  BY <1>9, <1>10
<1>14. \A d \in Side : t.child[d][p] # p
  BY <1>2, <1>4, <1>6
<1> QED
  BY <1>6, <1>8, <1>9, <1>10, <1>11, <1>12, <1>13, <1>14

\* Where the loop goes on, the place of x is short.
LEMMA FixingIsShort ==
  ASSUME NEW t, NEW C, NEW x, Deleting(t, C, x), x # t.root, ~Red(t, x)
  PROVE  LET p == t.parent[x]
             e == SideBelow(t, x)
         IN  \E b, h : Short(t, C, b, h, x, p, e, t.child[Other(e)][p])
<1>1. PICK b, h, p, e : Indebted(t, C, b, h, x, p, e)
  BY DEF Deleting
<1>2. /\ Sound(t, C, b, h, Owing(p, e)) /\ x \in C \cup {Nil}
      /\ t.parent[x] = p /\ p \in C /\ e \in Side /\ t.child[e][p] = x
      /\ \A n \in C : Clash(t, n) => x \in {n, t.parent[n]}
      /\ ~Red(t, t.root)
  BY <1>1 DEF Indebted
<1>3. Shape(t, C, b) /\ Heights(t, C, h, Owing(p, e))
  BY <1>2 DEF Sound
<1>4. C \subseteq Node /\ Nil \notin C /\ Nil \in Node /\ t \in Trees
  BY <1>3, ShapeIsTree
<1>5. Other(e) \in Side /\ Other(e) # e /\ Side = {e, Other(e)}
  BY <1>2, SideFacts
<1> DEFINE w == t.child[Other(e)][p]
<1>6. w \in Node /\ x \in Node /\ p \in Node /\ p # Nil /\ w \in C \cup {Nil}
  BY <1>2, <1>3, <1>4, <1>5 DEF Shape
<1>7. h[p] = h[x] + 1 + Black(t, p) /\ h[p] = h[w] + 0 + Black(t, p)
  <2>1. Level(t, h, Owing(p, e), p)
    BY <1>2, <1>3 DEF Heights
  <2>2. Owing(p, e)[p][e] = 1 /\ Owing(p, e)[p][Other(e)] = 0
    BY <1>2, <1>5, <1>6, OwingFacts
  <2> QED
    BY <1>2, <1>5, <2>1, <2>2 DEF Level
<1>8. h[x] \in Nat /\ h[w] \in Nat /\ Black(t, p) \in Nat /\ h[x] > 0 /\ h[Nil] = 1
  <2>1. h \in [Node -> Nat] /\ (\A n \in Node : h[n] > 0) /\ h[Nil] = 1
    BY <1>3 DEF Heights
  <2>2. Black(t, p) \in {0, 1}
    BY <1>4, <1>6, BlackFacts
  <2> QED
    BY <1>6, <2>1, <2>2
<1> HIDE DEF w
<1>9. w # Nil /\ w # x
  <2>1. h[w] = h[x] + 1
    BY <1>7, <1>8
  <2> QED
    BY <1>8, <2>1
<1>10. SideBelow(t, x) = e
  <2>1. \A d \in Side : t.child[d][p] = x <=> d = e
    BY <1>2, <1>5, <1>9 DEF w
  <2> QED
    BY <1>2, <2>1 DEF SideBelow, Side
<1>11. \A n \in C : ~Clash(t, n)
  BY <1>2 DEF Clash
<1>12. Short(t, C, b, h, x, p, e, w)
  BY <1>2, <1>6, <1>9, <1>11 DEF Short, w
<1> QED
  BY <1>2, <1>10, <1>12 DEF w

\* After the loop, the node it ended at turns black, and nothing is owed.
LEMMA FixedSettles ==
  ASSUME NEW t, NEW C, NEW x, Deleting(t, C, x), x = t.root \/ Red(t, x)
  PROVE  Settled(Painted(t, {x}, "black"), C)
<1>1. PICK b, h, p, e : Indebted(t, C, b, h, x, p, e)
  BY DEF Deleting
<1>2. CASE x = t.root
  <2>1. Sound(t, C, b, h, NothingOwed) /\ \A n \in C : Clash(t, n) => t.root \in {n, t.parent[n]}
    BY <1>1, <1>2 DEF Indebted
  <2> QED
    BY <1>2, <2>1, RootSettles
<1>3. CASE x # t.root /\ Red(t, x)
  <2> DEFINE o == Owing(p, e)
             r == Painted(t, {x}, "black")
             g == [h EXCEPT ![x] = h[x] + 1]
  <2>1. /\ Sound(t, C, b, h, o) /\ x \in C \cup {Nil} /\ x # Nil
        /\ t.parent[x] = p /\ p \in C /\ e \in Side /\ t.child[e][p] = x
        /\ \A n \in C : Clash(t, n) => x \in {n, t.parent[n]}
        /\ ~Red(t, t.root)
    BY <1>1, <1>3 DEF Indebted, Red
  <2>2. Shape(t, C, b) /\ Heights(t, C, h, o) /\ t.color[Nil] = "black" /\ x \in C
    BY <2>1 DEF Sound
  <2>3. C \subseteq Node /\ Nil \notin C /\ Nil \in Node /\ t \in Trees
    BY <2>2, ShapeIsTree
  <2>4. NothingOwed \in [Node -> [Side -> Nat]]
    BY DEF NothingOwed
  <2>5. ASSUME NEW n \in C, NEW d \in Side
        PROVE  o[n][d] = NothingOwed[n][d] + (IF t.child[d][n] = x THEN 1 ELSE 0)
    <3>1. n \in Node /\ o[n][d] = IF n = p /\ d = e THEN 1 ELSE 0
      BY <2>3, OwingFacts
    <3>2. NothingOwed[n][d] = 0
      BY <3>1, NothingOwedFacts
    <3>3. t.child[d][n] = x <=> n = p /\ d = e
      <4>1. \A c \in Side : t.child[c][p] = x <=> c = SideBelow(t, x)
        BY <1>3, <2>1, <2>2, HangsOnce
      <4>2. t.child[d][n] = x => n = p
        BY <2>1, <2>2, <3>1, OneParent
      <4> QED
        BY <2>1, <4>1, <4>2
    <3> QED
      BY <3>1, <3>2, <3>3
  <2> HIDE DEF o
  <2>6. Heights(r, C, g, NothingOwed)
    BY <1>3, <2>2, <2>4, <2>5, BlackenHeights
  <2>7. /\ r \in Trees /\ r.root = t.root /\ r.child = t.child /\ r.parent = t.parent
        /\ \A n \in Node : r.color[n] = IF n \in {x} THEN "black" ELSE t.color[n]
    BY <2>3, PaintedFacts
  <2> HIDE DEF r, g
  <2>8. Shape(r, C, b)
    BY <2>2, <2>7, SameShape
  <2>9. ASSUME NEW n \in C, Clash(r, n) PROVE FALSE
    <3>1. n \in Node /\ t.parent[n] \in Node
      BY <2>3 DEF Trees
    <3>2. Red(t, n) /\ n # x /\ Red(t, t.parent[n]) /\ t.parent[n] # x
      BY <2>7, <2>9, <3>1 DEF Clash, Red
    <3> QED
      BY <2>1, <3>2 DEF Clash
  <2>10. ~Red(r, r.root) /\ r.color[Nil] = "black"
    <3>1. t.root \in Node
      BY <2>3 DEF Trees
    <3> QED
      BY <2>1, <2>2, <2>3, <2>7, <3>1 DEF Red
  <2> QED
    BY <2>6, <2>8, <2>9, <2>10 DEF Settled, Sound, r
<1> QED
  BY <1>2, <1>3
------------------------------------------------------------------------------
(* The turns of the loop of rbt_delete: the sibling. *)

\* A red sibling w moves above the parent, and w's near child is the new one.
LEMMA SiblingTurns ==
  ASSUME NEW t, NEW C, NEW b, NEW h, NEW x, NEW p, NEW e, NEW w,
         Short(t, C, b, h, x, p, e, w), Red(t, w)
  PROVE  LET r == Rotate(Painted(Painted(t, {w}, "black"), {p}, "red"), e, p)
             near == t.child[e][w]
         IN  /\ \E b2, h2 : Short(r, C, b2, h2, x, p, e, near)
             /\ ~Red(r, near)
<1> DEFINE l == Painted(t, {w}, "black")
           m == Painted(l, {p}, "red")
           r == Rotate(m, e, p)
           near == t.child[e][w]
           far == t.child[Other(e)][w]
           k == h[x] + 1
           o == Owing(p, e)
<1>1. Shape(t, C, b) /\ Heights(t, C, h, o) /\ t.color[Nil] = "black"
  BY DEF Short, Sound
<1>2. /\ x \in C \cup {Nil} /\ p \in C /\ e \in Side /\ w \in C
      /\ t.parent[x] = p /\ t.child[e][p] = x /\ t.child[Other(e)][p] = w
      /\ ~Red(t, x) /\ ~Red(t, t.root)
      /\ \A n \in C : ~Clash(t, n)
  BY DEF Short
<1>3. C \subseteq Node /\ Nil \notin C /\ Nil \in Node /\ t \in Trees
  BY <1>1, ShapeIsTree
<1>4. Other(e) \in Side /\ Other(e) # e /\ Side = {e, Other(e)}
  BY <1>2, SideFacts
<1>5. /\ h[x] \in Nat /\ h[w] \in Nat /\ h[p] \in Nat /\ h[x] > 0
      /\ h[w] = h[x] + 1 /\ h[p] = h[x] + 1 + Black(t, p)
      /\ \A d \in Side : /\ t.child[d][w] \in Node /\ h[t.child[d][w]] \in Nat
                         /\ h[w] = h[t.child[d][w]] + Black(t, w)
      /\ w # p /\ x # p /\ x # w /\ w # t.root /\ t.parent[w] = p
      /\ \A d \in Side : t.child[d][w] \notin {p, w}
  BY ShortHeights
<1>6. p \in Node /\ w \in Node /\ x \in Node /\ p # Nil /\ w # Nil
  BY <1>2, <1>3
<1>7. ~Red(t, p) /\ Black(t, p) = 1 /\ Black(t, w) = 0
  <2>1. ~Red(t, p)
    BY <1>2, <1>5 DEF Clash
  <2> QED
    BY <1>3, <1>6, <2>1, BlackFacts DEF Black, Red
<1>8. h[near] = k /\ h[far] = k /\ near \in Node /\ far \in Node
  <2>1. \A d \in Side : h[t.child[d][w]] = h[x] + 1
    BY <1>5, <1>7
  <2> QED
    BY <1>2, <1>4, <1>5, <2>1
<1>9. /\ m \in Trees /\ m.root = t.root /\ m.child = t.child /\ m.parent = t.parent
      /\ \A n \in Node : m.color[n] = IF n = p THEN "red" ELSE IF n = w THEN "black"
                                      ELSE t.color[n]
  <2>1. /\ l \in Trees /\ l.root = t.root /\ l.child = t.child /\ l.parent = t.parent
        /\ \A n \in Node : l.color[n] = IF n \in {w} THEN "black" ELSE t.color[n]
    BY <1>3, PaintedFacts
  <2> HIDE DEF l
  <2>2. /\ m \in Trees /\ m.root = l.root /\ m.child = l.child /\ m.parent = l.parent
        /\ \A n \in Node : m.color[n] = IF n \in {p} THEN "red" ELSE l.color[n]
    BY <2>1, PaintedFacts
  <2> HIDE DEF m
  <2> QED
    BY <2>1, <2>2
<1> HIDE DEF m, l
<1>10. Shape(m, C, b)
  BY <1>1, <1>9, SameShape
<1>11. m.child[Other(e)][p] # Nil
  BY <1>2, <1>6, <1>9
<1>12. /\ Rotated(m, e, p, r) /\ Shape(r, C, Turned(m, b, e, p))
       /\ Neighbours(m, C, b, e, p)
  BY <1>2, <1>10, <1>11, RotateFacts, RotateShape, RotateNeighbours
<1> HIDE DEF r
<1>13. /\ r.root = IF p = t.root THEN w ELSE t.root
       /\ \A d \in Side, n \in Node :
            r.child[d][n] = IF n = p /\ d = Other(e) THEN near
                            ELSE IF n = w /\ d = e THEN p
                            ELSE IF t.child[d][n] = p THEN w ELSE t.child[d][n]
       /\ \A n \in Node :
            r.parent[n] = IF n = p THEN w ELSE IF n = w THEN t.parent[p]
                          ELSE IF n # Nil /\ n = near THEN p ELSE t.parent[n]
       /\ r.color = m.color
  BY <1>2, <1>9, <1>12 DEF Rotated
<1>14. h \in [Node -> Nat] /\ (\A n \in Node : h[n] > 0) /\ h[Nil] = 1
       /\ \A n \in C : Level(t, h, o, n)
  BY <1>1 DEF Heights
<1>15. near # Nil
  BY <1>5, <1>8, <1>14
<1>16. near \in C /\ t.parent[near] = w /\ near # p /\ near # w /\ near # x /\ near # t.root
       /\ ~Red(t, near)
  <2>1. near \in C /\ t.parent[near] = w /\ near # t.root
    BY <1>1, <1>2, <1>6, <1>15, OneParent
  <2>2. near # p /\ near # w
    BY <1>2, <1>5
  <2> HIDE DEF near
  <2>3. near # x
    BY <1>2, <1>5, <2>1
  <2>4. ~Red(t, near)
    BY <1>2, <2>1 DEF Clash
  <2> QED
    BY <2>1, <2>2, <2>3, <2>4
<1>17. /\ o[p][e] = 1 /\ o[p][Other(e)] = 0
       /\ o[w][e] = 0 /\ o[w][Other(e)] = 0
  BY <1>2, <1>4, <1>5, <1>6, OwingFacts
<1>18. Turnable(m, C, h, o, e, p, w, k)
  <2>1. Black(m, w) = 1 /\ Black(m, p) = 0
    BY <1>5, <1>6, <1>9 DEF Black
  <2>2. ASSUME NEW n \in C \ {p, w} PROVE Level(m, h, o, n)
    <3>1. Level(t, h, o, n) /\ Black(m, n) = Black(t, n)
      BY <1>3, <1>9, <1>14 DEF Black
    <3> QED
      BY <1>9, <3>1 DEF Level
  <2>3. /\ m.child[e][p] = x /\ m.child[Other(e)][p] = w
        /\ m.child[e][w] = near /\ m.child[Other(e)][w] = far
    BY <1>2, <1>9
  <2>4. k \in Nat /\ k > 0
    BY <1>5
  <2> HIDE DEF near, far, o
  <2>5. k = h[m.child[e][p]] + o[p][e] + Black(m, p)
    BY <1>5, <1>17, <2>1, <2>3
  <2>6. k = h[m.child[e][w]] + o[p][Other(e)] + Black(m, p)
    BY <1>5, <1>8, <1>17, <2>1, <2>3
  <2>7. h[p] = k + o[w][e] + Black(m, w)
    BY <1>5, <1>7, <1>17, <2>1
  <2>8. h[p] = h[m.child[Other(e)][w]] + o[w][Other(e)] + Black(m, w)
    BY <1>5, <1>7, <1>8, <1>17, <2>1, <2>3
  <2> HIDE DEF k
  <2> QED
    BY <1>6, <1>14, <2>2, <2>3, <2>4, <2>5, <2>6, <2>7, <2>8 DEF Turnable
<1> DEFINE g == [h EXCEPT ![w] = h[p], ![p] = k]
<1>19. Heights(r, C, g, o)
  <2> HIDE DEF k, o
  <2> QED
    BY <1>2, <1>10, <1>12, <1>18, RotateHeights
<1> HIDE DEF near, far, k, o, g
<1>20. /\ r.child[e][p] = x /\ r.child[Other(e)][p] = near /\ r.parent[x] = p
  BY <1>2, <1>4, <1>5, <1>6, <1>13, <1>16
<1>21. ASSUME NEW n \in C, Clash(r, n) PROVE FALSE
  <2>1. n \in Node /\ n # Nil
    BY <1>3
  <2>2. n # w
    BY <1>5, <1>6, <1>9, <1>13, <1>21 DEF Clash, Red
  <2>3. n # p
    BY <1>5, <1>6, <1>9, <1>13, <1>21 DEF Clash, Red
  <2>4. Red(t, n)
    BY <1>9, <1>13, <1>21, <2>1, <2>2, <2>3 DEF Clash, Red
  <2>5. n # near /\ n # x
    BY <1>2, <1>16, <2>4
  <2>6. r.parent[n] = t.parent[n]
    BY <1>13, <2>1, <2>2, <2>3, <2>5
  <2>7. t.parent[n] # p
    <3> SUFFICES ASSUME t.parent[n] = p PROVE FALSE
      OBVIOUS
    <3>1. n # t.root
      BY <1>2, <2>4
    <3>2. PICK d \in Side : t.child[d][p] = n
      BY <1>1, <3>1 DEF Shape
    <3> QED
      BY <1>2, <1>4, <2>2, <2>5, <3>2
  <2>8. t.parent[n] \in Node
    BY <1>3, <2>1 DEF Trees
  <2>9. t.parent[n] # w
    BY <1>5, <1>6, <1>9, <1>13, <1>21, <2>6 DEF Clash, Red
  <2>10. Red(t, t.parent[n])
    BY <1>9, <1>13, <1>21, <2>6, <2>7, <2>8, <2>9 DEF Clash, Red
  <2> QED
    BY <1>2, <2>4, <2>10 DEF Clash
<1>22. ~Red(r, r.root)
  <2>1. t.root \in Node
    BY <1>3 DEF Trees
  <2>2. CASE p = t.root
    BY <1>5, <1>6, <1>9, <1>13, <2>2 DEF Red
  <2>3. CASE p # t.root
    BY <1>2, <1>5, <1>9, <1>13, <2>1, <2>3 DEF Red
  <2> QED
    BY <2>2, <2>3
<1>23. ~Red(r, x) /\ ~Red(r, near) /\ r.color[Nil] = "black"
  BY <1>1, <1>2, <1>3, <1>5, <1>6, <1>9, <1>13, <1>16 DEF Red
<1>24. Sound(r, C, Turned(m, b, e, p), g, o)
  BY <1>12, <1>19, <1>23 DEF Sound
<1>25. Short(r, C, Turned(m, b, e, p), g, x, p, e, near)
  BY <1>2, <1>16, <1>20, <1>21, <1>22, <1>23, <1>24 DEF Short, o
<1> QED
  BY <1>23, <1>25 DEF r, m, l, near

\* A black sibling w without red children turns red, which makes up for the
\* black node missing on the other side; the place of the parent is short.
LEMMA SiblingReddens ==
  ASSUME NEW t, NEW C, NEW b, NEW h, NEW x, NEW p, NEW e, NEW w,
         Short(t, C, b, h, x, p, e, w), ~Red(t, w), \A d \in Side : ~Red(t, t.child[d][w])
  PROVE  Deleting(Painted(t, {w}, "red"), C, p)
<1> DEFINE r == Painted(t, {w}, "red")
           o == Owing(p, e)
           q == t.parent[p]
           s == SideBelow(t, p)
           g == [h EXCEPT ![w] = h[w] - 1, ![p] = h[p] - 1]
           o2 == IF p = t.root THEN NothingOwed ELSE Owing(q, s)
<1>1. Shape(t, C, b) /\ Heights(t, C, h, o) /\ t.color[Nil] = "black"
  BY DEF Short, Sound
<1>2. /\ x \in C \cup {Nil} /\ p \in C /\ e \in Side /\ w \in C
      /\ t.parent[x] = p /\ t.child[e][p] = x /\ t.child[Other(e)][p] = w
      /\ ~Red(t, x) /\ ~Red(t, t.root)
      /\ \A n \in C : ~Clash(t, n)
  BY DEF Short
<1>3. C \subseteq Node /\ Nil \notin C /\ Nil \in Node /\ t \in Trees
  BY <1>1, ShapeIsTree
<1>4. Other(e) \in Side /\ Other(e) # e /\ Side = {e, Other(e)}
  BY <1>2, SideFacts
<1>5. /\ h[x] \in Nat /\ h[w] \in Nat /\ h[p] \in Nat /\ h[x] > 0
      /\ h[w] = h[x] + 1 /\ h[p] = h[x] + 1 + Black(t, p) /\ Black(t, p) \in {0, 1}
      /\ \A d \in Side : /\ t.child[d][w] \in Node /\ h[t.child[d][w]] \in Nat
                         /\ h[w] = h[t.child[d][w]] + Black(t, w)
      /\ w # p /\ x # p /\ x # w /\ w # t.root /\ t.parent[w] = p
      /\ \A d \in Side : t.child[d][w] \notin {p, w}
      /\ \A d \in Side : t.child[d][p] # p
  BY ShortHeights
<1>6. p \in Node /\ w \in Node /\ x \in Node /\ p # Nil /\ w # Nil
  BY <1>2, <1>3
<1>7. Black(t, w) = 1
  BY <1>3, <1>6, BlackFacts DEF Red
<1>8. /\ r \in Trees /\ r.root = t.root /\ r.child = t.child /\ r.parent = t.parent
      /\ \A n \in Node : r.color[n] = IF n \in {w} THEN "red" ELSE t.color[n]
  BY <1>3, PaintedFacts
<1> HIDE DEF r
<1>9. Shape(r, C, b)
  BY <1>1, <1>8, SameShape
<1>10. h \in [Node -> Nat] /\ (\A n \in Node : h[n] > 0) /\ h[Nil] = 1
       /\ \A n \in C : Level(t, h, o, n)
  BY <1>1 DEF Heights
<1>11. h[w] - 1 \in Nat /\ h[w] - 1 > 0 /\ h[p] - 1 \in Nat /\ h[p] - 1 > 0
  BY <1>5
<1>12. /\ g \in [Node -> Nat] /\ g[w] = h[w] - 1 /\ g[p] = h[p] - 1
       /\ \A n \in Node : n \notin {p, w} => g[n] = h[n]
  BY <1>5, <1>6, <1>10, <1>11
<1> HIDE DEF g
<1>13. \A n \in Node : g[n] > 0
  BY <1>10, <1>11, <1>12
<1>14. p # t.root => /\ q \in C /\ q # Nil /\ q # p /\ s \in Side /\ q # w
                     /\ \A d \in Side : t.child[d][q] = p <=> d = s
  <2> HAVE p # t.root
  <2>1. q \in C /\ q # Nil /\ q # p /\ s \in Side
        /\ \A d \in Side : t.child[d][q] = p <=> d = s
    BY <1>1, <1>2, HangsOnce
  <2> QED
    BY <1>5, <2>1
<1>15. \A n \in C, d \in Side :
         t.child[d][n] = p <=> p # t.root /\ n = q /\ d = s
  <2> SUFFICES ASSUME NEW n \in C, NEW d \in Side
               PROVE t.child[d][n] = p <=> p # t.root /\ n = q /\ d = s
    OBVIOUS
  <2>1. n \in Node
    BY <1>3
  <2>2. t.child[d][n] = p => n = q /\ p # t.root
    BY <1>1, <1>6, <2>1, OneParent
  <2> HIDE DEF q, s
  <2> QED
    BY <1>14, <2>2
<1>16. \A n \in C, d \in Side : o2[n][d] = IF t.child[d][n] = p THEN 1 ELSE 0
  <2> SUFFICES ASSUME NEW n \in C, NEW d \in Side
               PROVE o2[n][d] = IF t.child[d][n] = p THEN 1 ELSE 0
    OBVIOUS
  <2>1. n \in Node
    BY <1>3
  <2>2. CASE p = t.root
    <3>1. o2[n][d] = 0
      BY <2>1, <2>2, NothingOwedFacts
    <3> QED
      BY <1>15, <2>2, <3>1
  <2>3. CASE p # t.root
    <3>1. o2[n][d] = IF n = q /\ d = s THEN 1 ELSE 0
      <4> HIDE DEF q, s
      <4> QED
        BY <2>1, <2>3, OwingFacts
    <3> QED
      BY <1>15, <2>3, <3>1
  <2> QED
    BY <2>2, <2>3
<1> HIDE DEF o2, q, s
<1>17. ASSUME NEW n \in C, NEW d \in Side
       PROVE  g[n] = g[r.child[d][n]] + o2[n][d] + Black(r, n)
  <2>1. n \in Node /\ r.child[d][n] = t.child[d][n] /\ t.child[d][n] \in Node
    BY <1>3, <1>8 DEF Trees
  <2>2. h[n] = h[t.child[d][n]] + o[n][d] + Black(t, n)
        /\ o[n][d] = IF n = p /\ d = e THEN 1 ELSE 0
    BY <1>10, <2>1, OwingFacts DEF Level
  <2>3. h[n] \in Nat /\ h[t.child[d][n]] \in Nat /\ Black(t, n) \in {0, 1}
    BY <1>3, <1>10, <2>1, BlackFacts
  <2> HIDE DEF o
  <2>4. CASE n = w
    <3>1. Black(r, n) = 0
      BY <1>6, <1>8, <2>4 DEF Black
    <3>2. t.child[d][n] \notin {p, w}
      BY <1>5, <2>4
    <3>3. o2[n][d] = 0 /\ g[r.child[d][n]] = h[t.child[d][n]]
      BY <1>12, <1>16, <2>1, <3>2
    <3>4. h[w] = h[t.child[d][n]] + 1
      BY <1>5, <1>7, <2>4
    <3> QED
      BY <1>12, <2>3, <2>4, <3>1, <3>3, <3>4
  <2>5. CASE n = p
    <3>1. Black(r, n) = Black(t, n)
      BY <1>5, <1>8, <2>1, <2>5 DEF Black
    <3>2. o2[n][d] = 0
      BY <1>5, <1>16, <2>5
    <3>3. CASE d = e
      <4>1. r.child[d][n] = x /\ g[x] = h[x]
        BY <1>2, <1>5, <1>6, <1>12, <2>1, <2>5, <3>3
      <4> QED
        BY <1>5, <1>12, <2>5, <3>1, <3>2, <4>1
    <3>4. CASE d = Other(e)
      <4>1. r.child[d][n] = w
        BY <1>2, <2>1, <2>5, <3>4
      <4> QED
        BY <1>5, <1>12, <2>5, <3>1, <3>2, <4>1
    <3> QED
      BY <1>4, <3>3, <3>4
  <2>6. CASE n \notin {p, w}
    <3>1. Black(r, n) = Black(t, n) /\ g[n] = h[n] /\ o[n][d] = 0
      BY <1>8, <1>12, <2>1, <2>2, <2>6 DEF Black
    <3>2. t.child[d][n] # w
      BY <1>1, <1>5, <1>6, <2>1, <2>6, OneParent
    <3>3. CASE t.child[d][n] = p
      <4>1. o2[n][d] = 1 /\ g[r.child[d][n]] = h[p] - 1
        BY <1>12, <1>16, <2>1, <3>3
      <4>2. h[n] = h[p] + 0 + Black(t, n)
        BY <2>2, <3>1, <3>3
      <4> QED
        BY <1>5, <2>3, <3>1, <4>1, <4>2
    <3>4. CASE t.child[d][n] # p
      <4>1. o2[n][d] = 0 /\ g[r.child[d][n]] = h[t.child[d][n]]
        BY <1>12, <1>16, <2>1, <3>2, <3>4
      <4> QED
        BY <2>2, <3>1, <4>1
    <3> QED
      BY <3>3, <3>4
  <2> QED
    BY <2>4, <2>5, <2>6
<1>18. Heights(r, C, g, o2)
  BY <1>3, <1>6, <1>10, <1>12, <1>13, <1>17 DEF Heights, Level
<1>19. ASSUME NEW n \in C, Clash(r, n) PROVE p \in {n, r.parent[n]}
  <2>1. n \in Node /\ t.parent[n] \in Node
    BY <1>3 DEF Trees
  <2>2. CASE n = w
    BY <1>5, <1>8, <2>2
  <2>3. CASE n # w
    <3>1. Red(t, n)
      BY <1>8, <1>19, <2>1, <2>3 DEF Clash, Red
    <3>2. t.parent[n] # w
      <4> SUFFICES ASSUME t.parent[n] = w PROVE FALSE
        OBVIOUS
      <4>1. n # t.root
        BY <1>2, <3>1
      <4>2. PICK d \in Side : t.child[d][w] = n
        BY <1>1, <4>1 DEF Shape
      <4> QED
        BY <3>1, <4>2
    <3>3. Red(t, t.parent[n])
      BY <1>8, <1>19, <2>1, <3>2 DEF Clash, Red
    <3> QED
      BY <1>2, <3>1, <3>3 DEF Clash
  <2> QED
    BY <2>2, <2>3
<1>20. ~Red(r, r.root) /\ r.color[Nil] = "black"
  <2>1. t.root \in Node
    BY <1>3 DEF Trees
  <2> QED
    BY <1>1, <1>2, <1>3, <1>5, <1>6, <1>8, <2>1 DEF Red
<1>21. Sound(r, C, b, g, o2)
  BY <1>9, <1>18, <1>20 DEF Sound
<1>22. Indebted(r, C, b, g, p, q, s)
  <2>1. CASE p = t.root
    <3>1. Sound(r, C, b, g, NothingOwed)
      BY <1>21, <2>1 DEF o2
    <3> QED
      BY <1>2, <1>8, <1>19, <1>20, <2>1, <3>1 DEF Indebted
  <2>2. CASE p # t.root
    <3>1. Sound(r, C, b, g, Owing(q, s))
      BY <1>21, <2>2 DEF o2
    <3>2. r.parent[p] = q /\ r.child[s][q] = p
      BY <1>8, <1>14, <2>2 DEF q
    <3> QED
      BY <1>2, <1>8, <1>14, <1>19, <1>20, <2>2, <3>1, <3>2 DEF Indebted
  <2> QED
    BY <2>1, <2>2
<1> QED
  BY <1>22 DEF Deleting, r
------------------------------------------------------------------------------
(* The nephews. *)

\* The red nephew on the near side moves above the black sibling w, and is the
\* new one, with a red child on the far side.
LEMMA NephewTurns ==
  ASSUME NEW t, NEW C, NEW b, NEW h, NEW x, NEW p, NEW e, NEW w,
         Short(t, C, b, h, x, p, e, w), ~Red(t, w),
         Red(t, t.child[e][w]), ~Red(t, t.child[Other(e)][w])
  PROVE  LET near == t.child[e][w]
             r == Rotate(Painted(Painted(t, {near}, "black"), {w}, "red"), Other(e), w)
         IN  /\ \E b2, h2 : Short(r, C, b2, h2, x, p, e, near)
             /\ ~Red(r, near) /\ Red(r, r.child[Other(e)][near])
<1> DEFINE f == Other(e)
           near == t.child[e][w]
           l == Painted(t, {near}, "black")
           m == Painted(l, {w}, "red")
           r == Rotate(m, f, w)
           far == t.child[f][w]
           inner == t.child[f][near]
           outer == t.child[e][near]
           k == h[far]
           o == Owing(p, e)
<1>1. Shape(t, C, b) /\ Heights(t, C, h, o) /\ t.color[Nil] = "black"
  BY DEF Short, Sound
<1>2. /\ x \in C \cup {Nil} /\ p \in C /\ e \in Side /\ w \in C
      /\ t.parent[x] = p /\ t.child[e][p] = x /\ t.child[f][p] = w
      /\ ~Red(t, x) /\ ~Red(t, t.root)
      /\ \A n \in C : ~Clash(t, n)
  BY DEF Short
<1>3. C \subseteq Node /\ Nil \notin C /\ Nil \in Node /\ t \in Trees
  BY <1>1, ShapeIsTree
<1>4. f \in Side /\ f # e /\ Side = {e, f} /\ Other(f) = e
  BY <1>2, SideFacts
<1>5. /\ h[x] \in Nat /\ h[w] \in Nat /\ h[p] \in Nat /\ h[x] > 0
      /\ h[w] = h[x] + 1 /\ h[p] = h[x] + 1 + Black(t, p)
      /\ \A d \in Side : /\ t.child[d][w] \in Node /\ h[t.child[d][w]] \in Nat
                         /\ h[w] = h[t.child[d][w]] + Black(t, w)
      /\ w # p /\ x # p /\ x # w /\ w # t.root /\ t.parent[w] = p
      /\ \A d \in Side : t.child[d][w] \notin {p, w}
  BY ShortHeights
<1>6. p \in Node /\ w \in Node /\ x \in Node /\ p # Nil /\ w # Nil /\ near # Nil
      /\ near \in Node /\ far \in Node
  BY <1>2, <1>3, <1>4, <1>5 DEF Red
<1>7. Black(t, near) = 0 /\ Black(t, w) = 1
  <2>1. Black(t, near) = 0
    BY DEF Black, Red
  <2>2. Black(t, w) = 1
    BY <1>3, <1>6, BlackFacts DEF Red
  <2> QED
    BY <2>1, <2>2
<1>8. near \in C /\ t.parent[near] = w /\ near # t.root /\ near # p /\ near # w /\ near # x
  <2>1. near \in C /\ t.parent[near] = w /\ near # t.root
    BY <1>1, <1>2, <1>6, OneParent
  <2> QED
    BY <1>2, <1>5, <2>1
<1>9. h \in [Node -> Nat] /\ (\A n \in Node : h[n] > 0) /\ h[Nil] = 1
      /\ \A n \in C : Level(t, h, o, n)
  BY <1>1 DEF Heights
<1>10. \A d \in Side : o[near][d] = 0 /\ o[w][d] = 0
  <2>1. \A n \in Node, d \in Side : o[n][d] = IF n = p /\ d = e THEN 1 ELSE 0
    BY OwingFacts
  <2> QED
    BY <1>5, <1>6, <1>8, <2>1
<1>11. h[near] = h[inner] /\ h[near] = h[outer] /\ h[w] = k + 1 /\ h[w] = h[near] + 1
       /\ inner \in Node /\ outer \in Node /\ h[inner] \in Nat /\ h[outer] \in Nat
       /\ h[near] \in Nat /\ k \in Nat /\ k = h[inner]
  <2>1. inner \in Node /\ outer \in Node
    BY <1>2, <1>3, <1>4, <1>6 DEF Trees
  <2>2. h[inner] \in Nat /\ h[outer] \in Nat /\ h[near] \in Nat /\ k \in Nat
    BY <1>6, <1>9, <2>1
  <2>3. Level(t, h, o, near)
    BY <1>8, <1>9
  <2>4. h[near] = h[inner] + 0 + 0 /\ h[near] = h[outer] + 0 + 0
    BY <1>2, <1>4, <1>7, <1>10, <2>3 DEF Level
  <2>5. h[w] = k + 1 /\ h[w] = h[near] + 1
    BY <1>2, <1>4, <1>5, <1>7
  <2>6. k = h[near]
    BY <2>2, <2>5
  <2>7. h[near] = h[inner] /\ h[near] = h[outer]
    BY <2>2, <2>4
  <2> HIDE DEF inner, outer, near, k
  <2> QED
    BY <2>1, <2>2, <2>5, <2>6, <2>7
<1>12. /\ m \in Trees /\ m.root = t.root /\ m.child = t.child /\ m.parent = t.parent
       /\ \A n \in Node : m.color[n] = IF n = w THEN "red" ELSE IF n = near THEN "black"
                                       ELSE t.color[n]
  <2>1. /\ l \in Trees /\ l.root = t.root /\ l.child = t.child /\ l.parent = t.parent
        /\ \A n \in Node : l.color[n] = IF n \in {near} THEN "black" ELSE t.color[n]
    BY <1>3, PaintedFacts
  <2> HIDE DEF l
  <2>2. /\ m \in Trees /\ m.root = l.root /\ m.child = l.child /\ m.parent = l.parent
        /\ \A n \in Node : m.color[n] = IF n \in {w} THEN "red" ELSE l.color[n]
    BY <2>1, PaintedFacts
  <2> HIDE DEF m
  <2> QED
    BY <2>1, <2>2
<1> HIDE DEF m, l
<1>13. Shape(m, C, b)
  BY <1>1, <1>12, SameShape
<1>14. m.child[Other(f)][w] # Nil /\ m.child[Other(f)][w] = near
  BY <1>4, <1>6, <1>12
<1>15. Rotated(m, f, w, r) /\ Shape(r, C, Turned(m, b, f, w))
  BY <1>2, <1>4, <1>13, <1>14, RotateFacts, RotateShape
<1> HIDE DEF r
<1>16. /\ r.root = t.root
       /\ \A d \in Side, n \in Node :
            r.child[d][n] = IF n = w /\ d = e THEN inner
                            ELSE IF n = near /\ d = f THEN w
                            ELSE IF t.child[d][n] = w THEN near ELSE t.child[d][n]
       /\ \A n \in Node :
            r.parent[n] = IF n = w THEN near ELSE IF n = near THEN t.parent[w]
                          ELSE IF n # Nil /\ n = inner THEN w ELSE t.parent[n]
       /\ r.color = m.color
  <2>1. /\ r.root = IF w = m.root THEN near ELSE m.root
        /\ \A d \in Side, n \in Node :
             r.child[d][n] = IF n = w /\ d = Other(f) THEN m.child[f][near]
                             ELSE IF n = near /\ d = f THEN w
                             ELSE IF m.child[d][n] = w THEN near ELSE m.child[d][n]
        /\ \A n \in Node :
             r.parent[n] = IF n = w THEN near ELSE IF n = near THEN m.parent[w]
                           ELSE IF n # Nil /\ n = m.child[f][near] THEN w ELSE m.parent[n]
        /\ r.color = m.color
    BY <1>14, <1>15 DEF Rotated
  <2>2. m.child[f][near] = inner /\ w # m.root
    BY <1>5, <1>12
  <2> HIDE DEF near, inner
  <2> QED
    BY <1>4, <1>12, <2>1, <2>2
<1>17. inner # Nil => inner \in C /\ t.parent[inner] = near /\ inner # x /\ ~Red(t, inner)
  <2> HAVE inner # Nil
  <2>1. inner \in C /\ t.parent[inner] = near
    BY <1>1, <1>4, <1>6, OneParent
  <2> QED
    BY <1>2, <1>8, <2>1 DEF Clash
<1>18. Turnable(m, C, h, o, f, w, near, k)
  <2>1. Black(m, near) = 1 /\ Black(m, w) = 0
    BY <1>6, <1>8, <1>12 DEF Black
  <2>2. ASSUME NEW n \in C \ {w, near} PROVE Level(m, h, o, n)
    <3>1. Level(t, h, o, n) /\ Black(m, n) = Black(t, n)
      BY <1>3, <1>9, <1>12 DEF Black
    <3> QED
      BY <1>12, <3>1 DEF Level
  <2>3. m.child[f][w] = far /\ m.child[f][near] = inner /\ m.child[e][near] = outer
    BY <1>12
  <2>4. k > 0
    BY <1>6, <1>9
  <2>5. o[w][e] = 0 /\ o[w][f] = 0 /\ o[near][e] = 0 /\ o[near][f] = 0
    BY <1>2, <1>4, <1>10
  <2> HIDE DEF far, o, inner, outer
  <2>6. k = h[m.child[f][w]] + o[w][f] + Black(m, w)
    BY <1>11, <2>1, <2>3, <2>5
  <2>7. k = h[m.child[f][near]] + o[w][e] + Black(m, w)
    BY <1>11, <2>1, <2>3, <2>5
  <2>8. h[w] = k + o[near][f] + Black(m, near)
    BY <1>11, <2>1, <2>5
  <2>9. h[w] = h[m.child[e][near]] + o[near][e] + Black(m, near)
    BY <1>11, <2>1, <2>3, <2>5
  <2> HIDE DEF k
  <2> QED
    BY <1>4, <1>6, <1>9, <1>11, <1>14, <2>2, <2>4, <2>6, <2>7, <2>8, <2>9 DEF Turnable
<1> DEFINE g == [h EXCEPT ![near] = h[w], ![w] = k]
<1>19. Heights(r, C, g, o)
  <2>1. f \in Side /\ w \in C /\ Shape(m, C, b) /\ Rotated(m, f, w, r)
        /\ Turnable(m, C, h, o, f, w, near, k)
    BY <1>2, <1>4, <1>13, <1>15, <1>18
  <2> HIDE DEF k, o, f, near
  <2> QED
    BY <2>1, RotateHeights
<1> HIDE DEF far, k, o, g, inner, outer, near
<1>20. /\ r.child[e][p] = x /\ r.child[f][p] = near /\ r.parent[x] = p /\ r.child[f][near] = w
  BY <1>2, <1>3, <1>4, <1>5, <1>6, <1>8, <1>16, <1>17
<1>21. ASSUME NEW n \in C, Clash(r, n) PROVE FALSE
  <2>1. n \in Node /\ n # Nil
    BY <1>3
  <2>2. n # near
    BY <1>6, <1>8, <1>12, <1>16, <1>21 DEF Clash, Red
  <2>3. n # w
    BY <1>6, <1>8, <1>12, <1>16, <1>21 DEF Clash, Red
  <2>4. Red(t, n)
    BY <1>12, <1>16, <1>21, <2>1, <2>2, <2>3 DEF Clash, Red
  <2>5. n # inner
    BY <1>17, <2>1, <2>4
  <2>6. r.parent[n] = t.parent[n]
    BY <1>16, <2>1, <2>2, <2>3, <2>5
  <2>7. t.parent[n] # w
    <3> SUFFICES ASSUME t.parent[n] = w PROVE FALSE
      OBVIOUS
    <3>1. n # t.root
      BY <1>2, <2>4
    <3>2. PICK d \in Side : t.child[d][w] = n
      BY <1>1, <3>1 DEF Shape
    <3> QED
      BY <1>4, <2>2, <2>4, <3>2 DEF near, far
  <2>8. t.parent[n] \in Node
    BY <1>3, <2>1 DEF Trees
  <2>9. t.parent[n] # near
    BY <1>6, <1>8, <1>12, <1>16, <1>21, <2>6 DEF Clash, Red
  <2>10. Red(t, t.parent[n])
    BY <1>12, <1>16, <1>21, <2>6, <2>7, <2>8, <2>9 DEF Clash, Red
  <2> QED
    BY <1>2, <2>4, <2>10 DEF Clash
<1>22. ~Red(r, r.root)
  <2>1. t.root \in Node
    BY <1>3 DEF Trees
  <2> QED
    BY <1>2, <1>5, <1>12, <1>16, <2>1 DEF Red
<1>23. ~Red(r, x) /\ ~Red(r, near) /\ Red(r, w) /\ r.color[Nil] = "black"
  BY <1>1, <1>2, <1>3, <1>5, <1>6, <1>8, <1>12, <1>16 DEF Red
<1>24. Sound(r, C, Turned(m, b, f, w), g, o)
  BY <1>15, <1>19, <1>23 DEF Sound
<1>25. Short(r, C, Turned(m, b, f, w), g, x, p, e, near)
  BY <1>2, <1>8, <1>20, <1>21, <1>22, <1>23, <1>24 DEF Short, o
<1> QED
  BY <1>20, <1>23, <1>25 DEF r, m, l, near

\* A black sibling w with a red far child moves above the parent in the
\* parent's colour, and the parent and that child turn black: nothing is owed.
LEMMA SiblingPays ==
  ASSUME NEW t, NEW C, NEW b, NEW h, NEW x, NEW p, NEW e, NEW w,
         Short(t, C, b, h, x, p, e, w), ~Red(t, w),
         NEW far, far = t.child[Other(e)][w], Red(t, far)
  PROVE  LET r == Rotate(Painted([t EXCEPT !.color[w] = t.color[p]], {p, far}, "black"), e, p)
         IN  Deleting(r, C, r.root)
<1> DEFINE l == [t EXCEPT !.color[w] = t.color[p]]
           m == Painted(l, {p, far}, "black")
           r == Rotate(m, e, p)
           near == t.child[e][w]
           k == h[x] + 1
           o == Owing(p, e)
           g == [h EXCEPT ![far] = h[far] + 1]
<1>1. Shape(t, C, b) /\ Heights(t, C, h, o) /\ t.color[Nil] = "black"
  BY DEF Short, Sound
<1>2. /\ x \in C \cup {Nil} /\ p \in C /\ e \in Side /\ w \in C
      /\ t.parent[x] = p /\ t.child[e][p] = x /\ t.child[Other(e)][p] = w
      /\ ~Red(t, x) /\ ~Red(t, t.root)
      /\ \A n \in C : ~Clash(t, n)
  BY DEF Short
<1>3. C \subseteq Node /\ Nil \notin C /\ Nil \in Node /\ t \in Trees
  BY <1>1, ShapeIsTree
<1>4. Other(e) \in Side /\ Other(e) # e /\ Side = {e, Other(e)}
  BY <1>2, SideFacts
<1>5. /\ h[x] \in Nat /\ h[w] \in Nat /\ h[p] \in Nat /\ h[x] > 0
      /\ Black(t, p) \in {0, 1}
      /\ h[w] = h[x] + 1 /\ h[p] = h[x] + 1 + Black(t, p)
      /\ \A d \in Side : /\ t.child[d][w] \in Node /\ h[t.child[d][w]] \in Nat
                         /\ h[w] = h[t.child[d][w]] + Black(t, w)
      /\ w # p /\ x # p /\ x # w /\ w # t.root /\ t.parent[w] = p
      /\ \A d \in Side : t.child[d][w] \notin {p, w}
  BY ShortHeights
<1>6. p \in Node /\ w \in Node /\ x \in Node /\ p # Nil /\ w # Nil /\ far # Nil
      /\ near \in Node /\ far \in Node
  BY <1>2, <1>3, <1>4, <1>5 DEF Red
<1>7. Black(t, w) = 1 /\ Black(t, far) = 0
  <2>1. Black(t, far) = 0
    BY DEF Black, Red
  <2>2. Black(t, w) = 1
    BY <1>3, <1>6, BlackFacts DEF Red
  <2> QED
    BY <2>1, <2>2
<1>8. far \in C /\ t.parent[far] = w /\ far # t.root /\ far # p /\ far # w /\ far # x
      /\ \A n \in C, d \in Side : t.child[d][n] = far => n = w
  <2>1. far \in C /\ t.parent[far] = w /\ far # t.root
    BY <1>1, <1>4, <1>6, OneParent
  <2>2. far # p /\ far # w
    BY <1>4, <1>5
  <2>3. \A n \in C, d \in Side : t.child[d][n] = far => n = w
    BY <1>1, <1>3, <1>6, <2>1, OneParent
  <2> QED
    BY <1>2, <1>5, <2>1, <2>2, <2>3
<1>9. h \in [Node -> Nat] /\ (\A n \in Node : h[n] > 0) /\ h[Nil] = 1
      /\ \A n \in C : Level(t, h, o, n)
  BY <1>1 DEF Heights
<1>10. h[near] = h[x] /\ h[far] = h[x]
  <2>1. \A d \in Side : h[t.child[d][w]] = h[x]
    BY <1>5, <1>7
  <2> QED
    BY <1>2, <1>4, <2>1
<1>11. near # far /\ near # w /\ near # p
  <2>1. near # w /\ near # p
    BY <1>2, <1>5
  <2>2. near # far
    <3>1. \A d \in Side : t.child[d][w] = far <=> d = SideBelow(t, far)
      BY <1>1, <1>8, HangsOnce
    <3> QED
      BY <1>2, <1>4, <3>1
  <2> QED
    BY <2>1, <2>2
<1>12. /\ m \in Trees /\ m.root = t.root /\ m.child = t.child /\ m.parent = t.parent
       /\ \A n \in Node : m.color[n] = IF n \in {p, far} THEN "black" ELSE
                                       IF n = w THEN t.color[p] ELSE t.color[n]
  <2>1. /\ l \in Trees /\ l.root = t.root /\ l.child = t.child /\ l.parent = t.parent
        /\ \A n \in Node : l.color[n] = IF n = w THEN t.color[p] ELSE t.color[n]
    BY <1>3, <1>6 DEF Trees
  <2> HIDE DEF l
  <2>2. /\ m \in Trees /\ m.root = l.root /\ m.child = l.child /\ m.parent = l.parent
        /\ \A n \in Node : m.color[n] = IF n \in {p, far} THEN "black" ELSE l.color[n]
    BY <2>1, PaintedFacts
  <2> HIDE DEF m
  <2> QED
    BY <2>1, <2>2
<1> HIDE DEF m, l
<1>13. Shape(m, C, b)
  BY <1>1, <1>12, SameShape
<1>14. m.child[Other(e)][p] # Nil
  BY <1>2, <1>6, <1>12
<1>15. Rotated(m, e, p, r) /\ Shape(r, C, Turned(m, b, e, p))
  BY <1>2, <1>13, <1>14, RotateFacts, RotateShape
<1> HIDE DEF r
<1>16. /\ r.root = IF p = t.root THEN w ELSE t.root
       /\ \A n \in Node :
            r.parent[n] = IF n = p THEN w ELSE IF n = w THEN t.parent[p]
                          ELSE IF n # Nil /\ n = near THEN p ELSE t.parent[n]
       /\ r.color = m.color
  BY <1>2, <1>12, <1>15 DEF Rotated
<1>17. /\ g \in [Node -> Nat] /\ g[far] = h[x] + 1
       /\ \A n \in Node : n # far => g[n] = h[n]
  BY <1>5, <1>6, <1>9, <1>10
<1> HIDE DEF g
<1>18. \A n \in Node : g[n] > 0
  BY <1>5, <1>6, <1>9, <1>17
<1>19. Turnable(m, C, g, NothingOwed, e, p, w, k)
  <2>1. Black(m, p) = 1 /\ Black(m, w) = Black(t, p)
    BY <1>5, <1>6, <1>8, <1>12 DEF Black
  <2>2. ASSUME NEW n \in C \ {p, w} PROVE Level(m, g, NothingOwed, n)
    <3> SUFFICES ASSUME NEW d \in Side
                 PROVE g[n] = g[m.child[d][n]] + NothingOwed[n][d] + Black(m, n)
      BY DEF Level
    <3>1. n \in Node /\ m.child[d][n] = t.child[d][n] /\ t.child[d][n] \in Node
      BY <1>3, <1>12 DEF Trees
    <3>2. o[n][d] = 0 /\ NothingOwed[n][d] = 0
      BY <3>1, OwingFacts, NothingOwedFacts
    <3>3. h[n] = h[t.child[d][n]] + 0 + Black(t, n)
      BY <1>9, <3>2 DEF Level
    <3>4. t.child[d][n] # far /\ g[m.child[d][n]] = h[t.child[d][n]]
      BY <1>8, <1>17, <3>1
    <3>5. CASE n = far
      <4>1. Black(m, n) = 1
        BY <1>6, <1>12, <3>5 DEF Black
      <4>2. h[t.child[d][n]] = h[x]
        <5>1. h[t.child[d][n]] \in Nat
          BY <1>9, <3>1
        <5> QED
          BY <1>5, <1>7, <1>10, <3>3, <3>5, <5>1, SMTT(30)
      <4>3. g[n] = h[x] + 1 /\ g[m.child[d][n]] = h[x]
        BY <1>17, <3>4, <3>5, <4>2
      <4> QED
        BY <1>5, <3>2, <4>1, <4>3
    <3>6. CASE n # far
      <4>1. Black(m, n) = Black(t, n) /\ g[n] = h[n]
        BY <1>12, <1>17, <3>1, <3>6 DEF Black
      <4> QED
        BY <3>2, <3>3, <3>4, <4>1
    <3> QED
      BY <3>5, <3>6
  <2>3. /\ m.child[e][p] = x /\ m.child[Other(e)][p] = w
        /\ m.child[e][w] = near /\ m.child[Other(e)][w] = far
    BY <1>2, <1>12
  <2>4. k \in Nat /\ k > 0
    BY <1>5
  <2>5. /\ NothingOwed[p][e] = 0 /\ NothingOwed[p][Other(e)] = 0
        /\ NothingOwed[w][e] = 0 /\ NothingOwed[w][Other(e)] = 0
    BY <1>2, <1>4, <1>6, NothingOwedFacts
  <2>6. g[x] = h[x] /\ g[near] = h[x] /\ g[far] = h[x] + 1 /\ g[p] = h[p] /\ g[Nil] = 1
    BY <1>3, <1>6, <1>8, <1>9, <1>10, <1>11, <1>17
  <2> HIDE DEF near
  <2>7. k = g[m.child[e][p]] + NothingOwed[p][e] + Black(m, p)
    BY <1>5, <2>1, <2>3, <2>5, <2>6
  <2>8. k = g[m.child[e][w]] + NothingOwed[p][Other(e)] + Black(m, p)
    BY <1>5, <2>1, <2>3, <2>5, <2>6
  <2>9. g[p] = k + NothingOwed[w][e] + Black(m, w)
    BY <1>5, <2>1, <2>5, <2>6
  <2>10. g[p] = g[m.child[Other(e)][w]] + NothingOwed[w][Other(e)] + Black(m, w)
    BY <1>5, <2>1, <2>3, <2>5, <2>6
  <2> HIDE DEF k
  <2> QED
    BY <1>6, <1>17, <1>18, <2>2, <2>3, <2>4, <2>6, <2>7, <2>8, <2>9, <2>10 DEF Turnable
<1> DEFINE g2 == [g EXCEPT ![w] = g[p], ![p] = k]
<1>20. Heights(r, C, g2, NothingOwed)
  <2> HIDE DEF k
  <2> QED
    BY <1>2, <1>13, <1>15, <1>19, RotateHeights
<1> HIDE DEF k, g2
<1>21. t.parent[p] \in Node /\ ~(Red(t, p) /\ Red(t, t.parent[p]))
  BY <1>2, <1>3, <1>6 DEF Clash, Trees
<1>22. t.parent[p] # w
  <2>1. CASE p = t.root
    <3>1. t.parent[p] = Nil
      BY <1>1, <1>6, <2>1 DEF Shape
    <3> QED
      BY <1>6, <3>1
  <2>2. CASE p # t.root
    <3>1. PICK d \in Side : t.child[d][t.parent[p]] = p
      BY <1>1, <1>2, <2>2 DEF Shape
    <3> QED
      BY <1>5, <3>1
  <2> QED
    BY <2>1, <2>2
<1>23. \A n \in Node : Red(r, n) /\ n # w => Red(t, n) /\ n # p /\ n # far
  BY <1>12, <1>16 DEF Red
<1>24. Red(r, w) => Red(t, p)
  BY <1>5, <1>6, <1>8, <1>12, <1>16 DEF Red
<1>25. ASSUME NEW n \in C, Clash(r, n) PROVE FALSE
  <2>1. n \in Node /\ n # Nil /\ Red(r, n) /\ Red(r, r.parent[n])
    BY <1>3, <1>25 DEF Clash
  <2>2. CASE n = w
    <3>1. r.parent[n] = t.parent[p]
      BY <1>5, <1>6, <1>16, <2>2
    <3> QED
      BY <1>21, <1>22, <1>23, <1>24, <2>1, <2>2, <3>1
  <2>3. CASE n # w
    <3>1. Red(t, n) /\ n # p /\ n # far
      BY <1>23, <2>1, <2>3
    <3>2. n # near
      <4>1. n = near => r.parent[n] = p
        BY <1>16, <2>1, <2>3, <3>1
      <4> QED
        BY <1>5, <1>6, <1>23, <2>1, <4>1
    <3>3. r.parent[n] = t.parent[n] /\ t.parent[n] \in Node
      BY <1>3, <1>16, <2>1, <2>3, <3>1, <3>2 DEF Trees
    <3>4. t.parent[n] # w
      <4> SUFFICES ASSUME t.parent[n] = w PROVE FALSE
        OBVIOUS
      <4>1. n # t.root
        BY <1>2, <3>1
      <4>2. PICK d \in Side : t.child[d][w] = n
        BY <1>1, <4>1 DEF Shape
      <4> QED
        BY <1>4, <3>1, <3>2, <4>2
    <3>5. Red(t, t.parent[n])
      BY <1>23, <2>1, <3>3, <3>4
    <3> QED
      BY <1>2, <3>1, <3>5 DEF Clash
  <2> QED
    BY <2>2, <2>3
<1>26. ~Red(r, r.root)
  <2>1. t.root \in Node
    BY <1>3 DEF Trees
  <2>2. CASE p = t.root
    BY <1>2, <1>16, <1>24, <2>2
  <2>3. CASE p # t.root
    BY <1>2, <1>5, <1>16, <1>23, <2>1, <2>3
  <2> QED
    BY <2>2, <2>3
<1>27. r.color[Nil] = "black"
  BY <1>1, <1>3, <1>6, <1>12, <1>16
<1>28. Sound(r, C, Turned(m, b, e, p), g2, NothingOwed)
  BY <1>15, <1>20, <1>27 DEF Sound
<1>29. r.root \in C \cup {Nil}
  BY <1>15 DEF Shape
<1>30. Indebted(r, C, Turned(m, b, e, p), g2, r.root, p, e)
  BY <1>25, <1>28, <1>29 DEF Indebted
<1> QED
  BY <1>30 DEF Deleting, r, m, l
------------------------------------------------------------------------------
(* Taking a node out. *)

\* Without a node that lacked a child, its place is short if it was black.
LEMMA BypassDeletes ==
  ASSUME NEW t, NEW C, Settled(t, C), NEW z \in C, NEW e \in Side,
         t.child[e][z] = Nil, NEW r, Bypassed(t, z, t.child[Other(e)][z], r)
  PROVE  IF t.color[z] = "black" THEN Deleting(r, C \ {z}, t.child[Other(e)][z])
                                 ELSE Settled(r, C \ {z})
<1> DEFINE f == Other(e)
           v == t.child[f][z]
           D == C \ {z}
           q == t.parent[z]
           s == SideBelow(t, z)
           o == IF t.color[z] = "black" /\ z # t.root THEN Owing(q, s) ELSE NothingOwed
<1>1. PICK b, h : /\ Sound(t, C, b, h, NothingOwed)
                  /\ \A n \in C : ~Clash(t, n)
                  /\ ~Red(t, t.root)
  BY DEF Settled
<1> DEFINE b2 == Narrowed(b, z)
<1>2. Shape(t, C, b) /\ Heights(t, C, h, NothingOwed) /\ t.color[Nil] = "black"
  BY <1>1 DEF Sound
<1>3. C \subseteq Node /\ Nil \notin C /\ Nil \in Node /\ t \in Trees /\ z \in Node /\ z # Nil
      /\ t.root \in Node /\ q \in Node
  BY <1>2, ShapeIsTree DEF Trees
<1>4. f \in Side /\ f # e /\ Side = {e, f}
  BY SideFacts
<1>5. Shape(r, D, b2)
  BY <1>2, BypassShape
<1>6. /\ r.root = IF z = t.root THEN v ELSE t.root
      /\ \A d \in Side, n \in Node :
           r.child[d][n] = IF n = z THEN Nil ELSE IF t.child[d][n] = z THEN v ELSE t.child[d][n]
      /\ \A n \in Node :
           r.parent[n] = IF n = z THEN Nil ELSE IF n = v THEN q ELSE t.parent[n]
      /\ \A n \in Node : r.color[n] = IF n = z THEN "black" ELSE t.color[n]
  BY DEF Bypassed
<1>7. v \in C \cup {Nil} /\ v \in Node /\ v # z /\ v # t.root
  <2>1. v \in C \cup {Nil}
    BY <1>2, <1>4 DEF Shape
  <2>2. v # z /\ v # t.root
    <3>1. CASE v = Nil
      BY <1>2, <1>3, <3>1 DEF Shape
    <3>2. CASE v # Nil
      BY <1>2, <1>3, <1>4, <3>2, Downwards, OneParent
    <3> QED
      BY <3>1, <3>2
  <2> QED
    BY <1>3, <2>1, <2>2
<1>8. z # t.root => /\ q \in C /\ q # Nil /\ q # z /\ s \in Side
                    /\ \A d \in Side : t.child[d][q] = z <=> d = s
  BY <1>2, HangsOnce
<1>9. \A n \in C, d \in Side : t.child[d][n] = z => z # t.root /\ n = q /\ d = s
  <2> SUFFICES ASSUME NEW n \in C, NEW d \in Side, t.child[d][n] = z
               PROVE z # t.root /\ n = q /\ d = s
    OBVIOUS
  <2>1. n = q /\ z # t.root
    BY <1>2, <1>3, OneParent
  <2> QED
    BY <1>8, <2>1
<1>10. \A n \in C, d \in Side :
         o[n][d] = IF t.child[d][n] = z THEN Black(t, z) ELSE 0
  <2> SUFFICES ASSUME NEW n \in C, NEW d \in Side
               PROVE o[n][d] = IF t.child[d][n] = z THEN Black(t, z) ELSE 0
    OBVIOUS
  <2>1. n \in Node
    BY <1>3
  <2>2. CASE t.color[z] = "black" /\ z # t.root
    <3>1. o[n][d] = IF n = q /\ d = s THEN 1 ELSE 0
      <4> HIDE DEF q, s
      <4> QED
        BY <2>1, <2>2, OwingFacts
    <3>2. t.child[d][n] = z <=> n = q /\ d = s
      BY <1>8, <1>9, <2>2
    <3> QED
      BY <2>2, <3>1, <3>2 DEF Black
  <2>3. CASE ~(t.color[z] = "black" /\ z # t.root)
    <3>1. o[n][d] = 0
      BY <2>1, <2>3, NothingOwedFacts
    <3>2. t.child[d][n] = z => Black(t, z) = 0
      BY <1>9, <2>3 DEF Black
    <3> QED
      BY <3>1, <3>2
  <2> QED
    BY <2>2, <2>3
<1> HIDE DEF o, q, s
<1>11. h \in [Node -> Nat] /\ (\A n \in Node : h[n] > 0) /\ h[Nil] = 1
       /\ \A n \in C : Level(t, h, NothingOwed, n)
  BY <1>2 DEF Heights
<1>12. h[z] = h[v] + Black(t, z)
  <2>1. h[z] = h[v] + NothingOwed[z][f] + Black(t, z)
    BY <1>4, <1>11 DEF Level
  <2>2. NothingOwed[z][f] = 0
    BY <1>3, <1>4, NothingOwedFacts
  <2>3. h[v] \in Nat
    BY <1>7, <1>11
  <2> QED
    BY <2>1, <2>2, <2>3
<1>13. h[z] \in Nat /\ h[v] \in Nat /\ Black(t, z) \in {0, 1}
  BY <1>3, <1>7, <1>11, BlackFacts
<1> HIDE DEF v
<1>14. ASSUME NEW n \in D, NEW d \in Side
       PROVE  h[n] = h[r.child[d][n]] + o[n][d] + Black(r, n)
  <2>1. n \in C /\ n \in Node /\ n # z /\ t.child[d][n] \in Node
    BY <1>3 DEF Trees
  <2>2. h[n] = h[t.child[d][n]] + NothingOwed[n][d] + Black(t, n) /\ NothingOwed[n][d] = 0
    BY <1>11, <2>1, NothingOwedFacts DEF Level
  <2>3. Black(r, n) = Black(t, n)
    BY <1>6, <2>1 DEF Black
  <2>4. h[t.child[d][n]] \in Nat /\ Black(t, n) \in {0, 1}
    BY <1>3, <1>11, <2>1, BlackFacts
  <2>5. CASE t.child[d][n] = z
    <3>1. r.child[d][n] = v /\ o[n][d] = Black(t, z)
      BY <1>6, <1>10, <2>1, <2>5
    <3>2. h[n] = h[z] + 0 + Black(t, n)
      BY <2>2, <2>5
    <3> QED
      BY <1>12, <1>13, <2>3, <2>4, <3>1, <3>2
  <2>6. CASE t.child[d][n] # z
    <3>1. r.child[d][n] = t.child[d][n] /\ o[n][d] = 0
      BY <1>6, <1>10, <2>1, <2>6
    <3> QED
      BY <2>2, <2>3, <3>1
  <2> QED
    BY <2>5, <2>6
<1>15. Heights(r, D, h, o)
  BY <1>11, <1>14 DEF Heights, Level
<1>16. r.color[Nil] = "black" /\ v \in D \cup {Nil}
  BY <1>2, <1>3, <1>6, <1>7
<1>17. ASSUME NEW n \in D, Clash(r, n), n # v PROVE FALSE
  <2>1. n \in C /\ n \in Node /\ n # z /\ t.parent[n] \in Node
    BY <1>3 DEF Trees
  <2>2. r.parent[n] = t.parent[n]
    BY <1>6, <1>17, <2>1
  <2>3. Red(t, n) /\ Red(t, t.parent[n])
    BY <1>6, <1>17, <2>1, <2>2 DEF Clash, Red
  <2> QED
    BY <1>1, <2>1, <2>3 DEF Clash
<1>18. ASSUME Red(r, r.root) PROVE z = t.root
  BY <1>1, <1>3, <1>6, <1>18 DEF Red
<1>19. CASE t.color[z] = "black"
  <2>1. z = t.root => o = NothingOwed
    BY DEF o
  <2>2. z # t.root => o = Owing(q, s)
    BY <1>19 DEF o
  <2>3. v = r.root <=> z = t.root
    BY <1>6, <1>7
  <2>4. z # t.root => r.parent[v] = q /\ q \in D /\ s \in Side /\ r.child[s][q] = v
    BY <1>3, <1>6, <1>7, <1>8
  <2>5. Sound(r, D, b2, h, o)
    BY <1>5, <1>15, <1>16 DEF Sound
  <2>6. Indebted(r, D, b2, h, v, q, s)
    BY <1>16, <1>17, <1>18, <2>1, <2>2, <2>3, <2>4, <2>5 DEF Indebted
  <2> QED
    BY <1>19, <2>6 DEF Deleting, v
<1>20. CASE t.color[z] # "black"
  <2>1. o = NothingOwed
    BY <1>20 DEF o
  <2>2. Red(t, z) /\ z # t.root
    BY <1>1, <1>3, <1>20 DEF Red, Trees
  <2>3. ASSUME NEW n \in D, Clash(r, n) PROVE FALSE
    <3>1. CASE n = v
      <4>1. n \in Node /\ n # z /\ n # Nil
        BY <1>3, <1>7
      <4>2. Red(t, n)
        BY <1>6, <2>3, <4>1 DEF Clash, Red
      <4>3. t.parent[n] = z
        BY <1>2, <1>3, <1>4, <3>1, <4>1, OneParent DEF v
      <4> QED
        BY <1>1, <2>2, <2>3, <4>2, <4>3 DEF Clash
    <3> QED
      BY <1>17, <2>3, <3>1
  <2>4. ~Red(r, r.root)
    BY <1>18, <2>2
  <2>5. Sound(r, D, b2, h, NothingOwed)
    BY <1>5, <1>15, <1>16, <2>1 DEF Sound
  <2> QED
    BY <1>20, <2>3, <2>4, <2>5 DEF Settled
<1> QED
  BY <1>19, <1>20

\* When the next node y took the place of one with two children, y's old place
\* is short if y was black.
LEMMA ReplaceDeletes ==
  ASSUME NEW t, NEW C, NEW b, NEW h, Sound(t, C, b, h, NothingOwed),
         \A n \in C : ~Clash(t, n), ~Red(t, t.root),
         NEW z \in C, NEW y, After(t, C, b, z, y), NEW r, Replaced(t, z, y, r)
  PROVE  IF t.color[y] = "black" THEN Deleting(r, C \ {z}, t.child["right"][y])
                                 ELSE Settled(r, C \ {z})
<1> DEFINE l == t.child["left"][z]
           q == t.child["right"][z]
           x == t.child["right"][y]
           D == C \ {z}
           m == IF q = y THEN y ELSE t.parent[y]
           s == IF q = y THEN "right" ELSE "left"
           o == IF t.color[y] = "black" THEN Owing(m, s) ELSE NothingOwed
           g == [h EXCEPT ![y] = h[z]]
           b2 == Exchanged(b, z, y)
<1>1. Shape(t, C, b) /\ Heights(t, C, h, NothingOwed) /\ t.color[Nil] = "black"
  BY DEF Sound
<1>2. C \subseteq Node /\ Nil \notin C /\ Nil \in Node /\ t \in Trees /\ z \in Node /\ z # Nil
      /\ t.root \in Node
  BY <1>1, ShapeIsTree DEF Trees
<1>3. Side = {"left", "right"} /\ "left" \in Side /\ "right" \in Side
  BY SideFacts
<1>4. Shape(r, D, b2)
  BY <1>1, ReplaceShape
<1>5. /\ l \in C /\ q \in C /\ y \in C /\ x \in C \cup {Nil}
      /\ l # z /\ l # y /\ l # x /\ l # q /\ q # z /\ y # z /\ x # z /\ x # y /\ x # q
      /\ t.child["left"][y] = Nil
      /\ t.parent[l] = z /\ t.parent[q] = z /\ (x # Nil => t.parent[x] = y)
      /\ l # t.root /\ q # t.root /\ y # t.root /\ x # t.root
      /\ \A e \in Side : t.child[e][y] # z
      /\ q # y => t.parent[y] \in C /\ t.parent[y] # z /\ t.parent[y] # y
                  /\ t.child["left"][t.parent[y]] = y
      /\ \A n \in C, e \in Side : t.child[e][n] = y => n = t.parent[y]
      /\ \A n \in C, e \in Side : t.child[e][n] = y /\ n # z => e = "left"
      /\ t.parent[y] = z <=> q = y
  BY DEF After
<1>6. /\ r.root = IF z = t.root THEN y ELSE t.root
      /\ \A e \in Side, n \in Node :
           r.child[e][n] = IF n = z THEN Nil
                           ELSE IF n = y THEN IF e = "left" THEN l
                                              ELSE IF q = y THEN x ELSE q
                           ELSE IF t.child[e][n] = z THEN y
                           ELSE IF t.child[e][n] = y THEN x ELSE t.child[e][n]
      /\ \A n \in Node :
           r.parent[n] = IF n = z THEN Nil
                         ELSE IF n = y THEN t.parent[z]
                         ELSE IF n = x THEN IF q = y THEN y ELSE t.parent[y]
                         ELSE IF n \in {l, q} THEN y ELSE t.parent[n]
      /\ \A n \in Node :
           r.color[n] = IF n = z THEN "black" ELSE IF n = y THEN t.color[z] ELSE t.color[n]
  BY DEF Replaced
<1>7. h \in [Node -> Nat] /\ (\A n \in Node : h[n] > 0) /\ h[Nil] = 1
      /\ \A n \in C : Level(t, h, NothingOwed, n)
  BY <1>1 DEF Heights
<1>8. l \in Node /\ q \in Node /\ y \in Node /\ x \in Node
      /\ l # Nil /\ q # Nil /\ y # Nil
  BY <1>2, <1>5
<1>9. ASSUME NEW n \in C, NEW d \in Side
      PROVE  /\ h[n] = h[t.child[d][n]] + Black(t, n) /\ t.child[d][n] \in Node
             /\ h[n] \in Nat /\ h[t.child[d][n]] \in Nat /\ Black(t, n) \in {0, 1}
  <2>1. n \in Node /\ t.child[d][n] \in Node
    BY <1>2 DEF Trees
  <2>2. h[n] \in Nat /\ h[t.child[d][n]] \in Nat /\ Black(t, n) \in {0, 1}
    BY <1>2, <1>7, <2>1, BlackFacts
  <2>3. h[n] = h[t.child[d][n]] + NothingOwed[n][d] + Black(t, n) /\ NothingOwed[n][d] = 0
    BY <1>7, <2>1, NothingOwedFacts DEF Level
  <2> QED
    BY <2>1, <2>2, <2>3
<1>10. /\ h[z] = h[l] + Black(t, z) /\ h[z] = h[q] + Black(t, z) /\ h[y] = h[x] + Black(t, y)
       /\ h[z] \in Nat /\ h[l] \in Nat /\ h[q] \in Nat /\ h[y] \in Nat /\ h[x] \in Nat
       /\ Black(t, z) \in {0, 1} /\ Black(t, y) \in {0, 1}
  BY <1>3, <1>5, <1>9
<1>11. /\ g \in [Node -> Nat] /\ g[y] = h[z] /\ \A n \in Node : n # y => g[n] = h[n]
  BY <1>7, <1>8, <1>10
<1> HIDE DEF g
<1>12. \A n \in Node : g[n] > 0
  BY <1>2, <1>7, <1>11
<1>13. \A n \in D, d \in Side : o[n][d] = IF n = m /\ d = s THEN Black(t, y) ELSE 0
  <2> SUFFICES ASSUME NEW n \in D, NEW d \in Side
               PROVE o[n][d] = IF n = m /\ d = s THEN Black(t, y) ELSE 0
    OBVIOUS
  <2>1. n \in Node
    BY <1>2
  <2> HIDE DEF m, s
  <2>2. CASE t.color[y] = "black"
    <3>1. o[n][d] = IF n = m /\ d = s THEN 1 ELSE 0
      BY <2>1, <2>2, OwingFacts
    <3> QED
      BY <2>2, <3>1 DEF Black
  <2>3. CASE t.color[y] # "black"
    <3>1. o[n][d] = 0
      BY <2>1, <2>3, NothingOwedFacts
    <3> QED
      BY <2>3, <3>1 DEF Black
  <2> QED
    BY <2>2, <2>3
<1>14. m \in D /\ s \in Side /\ r.parent[x] = m /\ r.child[s][m] = x
  <2>1. CASE q = y
    BY <1>3, <1>5, <1>6, <1>8, <2>1
  <2>2. CASE q # y
    <3>1. m = t.parent[y] /\ s = "left" /\ m \in C /\ m # z /\ m # y
          /\ t.child["left"][m] = y
      BY <1>5, <2>2
    <3>2. m \in Node
      BY <1>2, <3>1
    <3> HIDE DEF m, s
    <3> QED
      BY <1>3, <1>5, <1>6, <1>8, <2>2, <3>1, <3>2
  <2> QED
    BY <2>1, <2>2
<1> HIDE DEF o
<1>15. ASSUME NEW n \in D, NEW d \in Side
       PROVE  g[n] = g[r.child[d][n]] + o[n][d] + Black(r, n)
  <2>1. n \in C /\ n \in Node /\ n # z
    BY <1>2
  <2>2. /\ h[n] = h[t.child[d][n]] + Black(t, n) /\ t.child[d][n] \in Node
        /\ h[n] \in Nat /\ h[t.child[d][n]] \in Nat /\ Black(t, n) \in {0, 1}
    BY <1>9, <2>1
  <2>3. CASE n = y
    <3>1. g[n] = h[z] /\ Black(r, n) = Black(t, z)
      BY <1>5, <1>6, <1>8, <1>11, <2>3 DEF Black
    <3>2. CASE d = "left"
      <4>1. r.child[d][n] = l /\ g[l] = h[l]
        BY <1>5, <1>6, <1>8, <1>11, <2>1, <2>3, <3>2
      <4>2. ~(n = m /\ d = s)
        BY <1>5, <2>3, <3>2
      <4>3. o[n][d] = 0
        BY <1>13, <4>2
      <4> QED
        BY <1>10, <3>1, <4>1, <4>3
    <3>3. CASE d = "right" /\ q = y
      <4>1. r.child[d][n] = x /\ g[x] = h[x]
        BY <1>5, <1>6, <1>8, <1>11, <2>1, <2>3, <3>3
      <4>2. o[n][d] = Black(t, y)
        BY <1>13, <2>3, <3>3
      <4>3. h[z] = h[y] + Black(t, z)
        BY <1>10, <3>3
      <4> QED
        BY <1>10, <3>1, <4>1, <4>2, <4>3
    <3>4. CASE d = "right" /\ q # y
      <4>1. r.child[d][n] = q /\ g[q] = h[q]
        BY <1>5, <1>6, <1>8, <1>11, <2>1, <2>3, <3>4
      <4>2. ~(n = m /\ d = s)
        BY <1>5, <2>3, <3>4
      <4>3. o[n][d] = 0
        BY <1>13, <4>2
      <4> QED
        BY <1>10, <3>1, <4>1, <4>3
    <3> QED
      BY <1>3, <3>2, <3>3, <3>4
  <2>4. CASE n # y
    <3>1. g[n] = h[n] /\ Black(r, n) = Black(t, n)
      BY <1>6, <1>11, <2>1, <2>4 DEF Black
    <3>2. CASE t.child[d][n] = z
      <4>1. r.child[d][n] = y
        BY <1>6, <2>1, <2>4, <3>2
      <4>2. ~(n = m /\ d = s)
        BY <1>5, <2>4, <3>2
      <4>3. o[n][d] = 0
        BY <1>13, <4>2
      <4> QED
        BY <1>11, <2>2, <3>1, <3>2, <4>1, <4>3
    <3>3. CASE t.child[d][n] = y
      <4>1. r.child[d][n] = x /\ g[x] = h[x]
        BY <1>5, <1>6, <1>8, <1>11, <2>1, <2>4, <3>3
      <4>2. n = m /\ d = s
        BY <1>5, <2>1, <2>4, <3>3
      <4>3. o[n][d] = Black(t, y)
        <5> HIDE DEF m, s
        <5> QED
          BY <1>13, <4>2
      <4>4. h[n] = h[y] + Black(t, n)
        BY <2>2, <3>3
      <4> QED
        BY <1>10, <2>2, <3>1, <4>1, <4>3, <4>4
    <3>4. CASE t.child[d][n] # z /\ t.child[d][n] # y
      <4>1. r.child[d][n] = t.child[d][n] /\ g[r.child[d][n]] = h[t.child[d][n]]
        BY <1>6, <1>11, <2>1, <2>2, <2>4, <3>4
      <4>2. ~(n = m /\ d = s)
        BY <1>5, <2>4, <3>4
      <4>3. o[n][d] = 0
        BY <1>13, <4>2
      <4> QED
        BY <2>2, <3>1, <4>1, <4>3
    <3> QED
      BY <3>2, <3>3, <3>4
  <2> QED
    BY <2>3, <2>4
<1>16. Heights(r, D, g, o)
  BY <1>2, <1>7, <1>8, <1>11, <1>12, <1>15 DEF Heights, Level
<1>17. r.color[Nil] = "black" /\ x \in D \cup {Nil} /\ x # r.root
  BY <1>1, <1>2, <1>5, <1>6, <1>8
<1> HIDE DEF m, s, l, q, x
<1>18. ASSUME NEW n \in D, Clash(r, n), n # x PROVE FALSE
  <2>1. n \in C /\ n \in Node /\ n # z /\ n # Nil /\ t.parent[n] \in Node /\ t.parent[z] \in Node
    BY <1>2 DEF Trees
  <2>2. CASE n = y
    <3>1. r.parent[n] = t.parent[z] /\ Red(t, z)
      BY <1>2, <1>6, <1>18, <2>1, <2>2 DEF Clash, Red
    <3>2. t.parent[z] # y
      <4>1. CASE z = t.root
        <5>1. t.parent[z] = Nil
          BY <1>1, <1>2, <4>1 DEF Shape
        <5> QED
          BY <1>8, <5>1
      <4>2. CASE z # t.root
        <5>1. \E e \in Side : t.child[e][t.parent[z]] = z
          BY <1>1, <4>2 DEF Shape
        <5> QED
          BY <1>5, <5>1
      <4> QED
        BY <4>1, <4>2
    <3>3. Red(t, t.parent[z])
      BY <1>6, <1>18, <2>1, <3>1, <3>2 DEF Clash, Red
    <3> QED
      BY <3>1, <3>3 DEF Clash
  <2>3. CASE n # y /\ n \in {l, q}
    <3>1. r.parent[n] = y /\ t.parent[n] = z
      BY <1>5, <1>6, <1>18, <2>1, <2>3
    <3>2. Red(t, n) /\ Red(t, z)
      BY <1>2, <1>5, <1>6, <1>8, <1>18, <2>1, <2>3, <3>1 DEF Clash, Red
    <3> QED
      BY <2>1, <3>1, <3>2 DEF Clash
  <2>4. CASE n # y /\ n \notin {l, q}
    <3>1. r.parent[n] = t.parent[n] /\ Red(t, n)
      BY <1>6, <1>18, <2>1, <2>4 DEF Clash, Red
    <3>2. PICK d \in Side : t.child[d][t.parent[n]] = n
      BY <1>1, <2>1, <3>1 DEF Shape
    <3>3. t.parent[n] # y
      BY <1>3, <1>5, <1>18, <2>1, <3>2 DEF x
    <3>4. t.parent[n] # z
      BY <1>3, <2>4, <3>2 DEF l, q
    <3>5. Red(t, t.parent[n])
      BY <1>6, <1>18, <2>1, <3>1, <3>3, <3>4 DEF Clash, Red
    <3> QED
      BY <2>1, <3>1, <3>5 DEF Clash
  <2> QED
    BY <2>2, <2>3, <2>4
<1>19. ~Red(r, r.root)
  <2>1. CASE z = t.root
    BY <1>2, <1>5, <1>6, <1>8, <2>1 DEF Red
  <2>2. CASE z # t.root
    BY <1>2, <1>5, <1>6, <2>2 DEF Red
  <2> QED
    BY <2>1, <2>2
<1>20. CASE t.color[y] = "black"
  <2>1. Sound(r, D, b2, g, Owing(m, s))
    BY <1>4, <1>16, <1>17, <1>20 DEF Sound, o
  <2>2. Indebted(r, D, b2, g, x, m, s)
    BY <1>14, <1>17, <1>18, <1>19, <2>1 DEF Indebted
  <2> QED
    BY <1>20, <2>2 DEF Deleting, x
<1>21. CASE t.color[y] # "black"
  <2>1. Sound(r, D, b2, g, NothingOwed)
    BY <1>4, <1>16, <1>17, <1>21 DEF Sound, o
  <2>2. ASSUME NEW n \in D, Clash(r, n) PROVE FALSE
    <3>1. n = x
      BY <1>18, <2>2
    <3>2. n \in C /\ n # Nil /\ n # z /\ n # y /\ n \in Node /\ t.parent[n] = y
      BY <1>2, <1>5, <3>1
    <3>3. Red(t, n) /\ Red(t, y)
      BY <1>2, <1>6, <1>8, <1>21, <2>2, <3>2 DEF Clash, Red, Trees
    <3> QED
      BY <3>2, <3>3 DEF Clash
  <2> QED
    BY <1>19, <1>21, <2>1, <2>2 DEF Settled
<1> QED
  BY <1>20, <1>21
------------------------------------------------------------------------------
(* The inductive invariant, and rbt_insert. *)

IsLeast(m, S) == IF S = {} THEN m = Nil ELSE m \in S /\ \A k \in S : m <= k

\* The inductive invariant.
Sane ==
  /\ TypeOK
  /\ size = Cardinality(contents)
  /\ LeftmostIsMin
  /\ pc \in {"idle", "rebuild"} => Settled(tree, contents)
  /\ pc = "insert" => /\ Inserting(tree, contents, cur)
                      /\ inserted \in contents /\ IsLeast(leftmost, contents \ {inserted})
  /\ pc = "delete" => Deleting(tree, contents, cur)

Formed(t, C) == \E b : Shape(t, C, b)

LEMMA StatesAreFormed ==
  ASSUME NEW t, NEW C
  PROVE  /\ Settled(t, C) => Formed(t, C)
         /\ \A z : Inserting(t, C, z) => Formed(t, C) /\ z \in C
         /\ \A x : Deleting(t, C, x) => Formed(t, C) /\ x \in C \cup {Nil}
<1>1. Settled(t, C) => Formed(t, C)
  BY DEF Settled, Sound, Formed
<1>2. \A z : Inserting(t, C, z) => Formed(t, C) /\ z \in C
  BY DEF Inserting, AtRed, Sound, Formed
<1>3. \A x : Deleting(t, C, x) => Formed(t, C) /\ x \in C \cup {Nil}
  BY DEF Deleting, Indebted, Sound, Formed
<1> QED
  BY <1>1, <1>2, <1>3

LEMMA FormedFacts ==
  ASSUME NEW t, NEW C, Formed(t, C)
  PROVE  /\ t \in Trees /\ C \subseteq Keys /\ IsFiniteSet(C) /\ C \subseteq Node
         /\ Nil \notin C /\ Cardinality(C) \in Nat
<1>1. PICK b : Shape(t, C, b)
  BY DEF Formed
<1>2. t \in Trees /\ C \subseteq Node /\ Nil \notin C
  BY <1>1, ShapeIsTree
<1>3. C \subseteq Keys /\ IsFiniteSet(C)
  BY <1>1 DEF Shape
<1> QED
  BY <1>2, <1>3, FS_CardinalityType

LEMMA SaneIsFormed == Sane => Formed(tree, contents)
BY StatesAreFormed DEF Sane, TypeOK

LEMMA InitIsSane == Init => Sane
<1> SUFFICES ASSUME Init PROVE Sane
  OBVIOUS
<1> DEFINE b == [d \in Side |-> [n \in Node |-> Nil]]
           h == [n \in Node |-> 1]
<1>1. Nil \in Node /\ "black" \in {"red", "black"}
  BY KeyFacts
<1>2. /\ tree \in Trees /\ tree.root = Nil /\ \A n \in Node, d \in Side : tree.child[d][n] = Nil
      /\ \A n \in Node : tree.color[n] = "black"
  BY <1>1 DEF Init, Trees
<1>3. contents = {} /\ size = 0 /\ pc = "idle" /\ leftmost = Nil /\ cur = Nil /\ inserted = Nil
  BY DEF Init
<1>4. IsFiniteSet({}) /\ Cardinality({}) = 0
  BY FS_EmptySet
<1>5. Shape(tree, contents, b)
  BY <1>1, <1>2, <1>3, <1>4 DEF Shape, Trees
<1>6. Heights(tree, contents, h, NothingOwed)
  BY <1>1, <1>3 DEF Heights
<1>7. Settled(tree, contents)
  BY <1>1, <1>2, <1>3, <1>5, <1>6 DEF Settled, Sound, Red
<1>8. TypeOK
  BY <1>1, <1>2, <1>3 DEF TypeOK, Trees
<1>9. LeftmostIsMin
  BY <1>3 DEF LeftmostIsMin
<1> QED
  BY <1>3, <1>4, <1>7, <1>8, <1>9 DEF Sane

LEMMA InsertLinkIsSane ==
  ASSUME Sane, NEW k \in Keys, InsertLink(k)
  PROVE  Sane'
<1> DEFINE C == contents
           y == Descent(tree, k).above
<1>1. /\ pc = "idle" /\ Search(tree, k) = Nil
      /\ size' = size + 1 /\ pc' = "insert" /\ cur' = k /\ inserted' = k
      /\ contents' = C \cup {k} /\ leftmost' = leftmost
  BY DEF InsertLink
<1>2. Settled(tree, C) /\ size = Cardinality(C) /\ IsLeast(leftmost, C) /\ leftmost \in Node
  BY <1>1 DEF Sane, TypeOK, LeftmostIsMin, IsLeast
<1>3. tree \in Trees /\ C \subseteq Keys /\ IsFiniteSet(C) /\ Cardinality(C) \in Nat
  BY <1>2, StatesAreFormed, FormedFacts
<1>4. Linked(tree, k, y, tree')
  <2>1. y \in Node
    <3>1. PICK b : Shape(tree, C, b)
      BY <1>2 DEF Settled, Sound
    <3>2. k \in C => Descent(tree, k).at = k
      BY <3>1, DescentFacts
    <3>3. k \notin C
      BY <1>1, <3>2, KeyFacts DEF Search
    <3>4. y \in C \cup {Nil}
      BY <3>1, <3>3, DescentFacts
    <3> QED
      BY <1>3, <3>4, KeyFacts
  <2>2. tree' = LET fresh == [tree EXCEPT !.parent[k] = y, !.color[k] = "red"]
                IN  IF y = Nil THEN [fresh EXCEPT !.root = k]
                               ELSE [fresh EXCEPT !.child[SideOf(k, y)][y] = k]
    BY DEF InsertLink
  <2> HIDE DEF y
  <2> QED
    BY <1>3, <2>1, <2>2, LinkedFacts
<1>5. k \notin C /\ Inserting(tree', C \cup {k}, k)
  BY <1>1, <1>2, <1>4, LinkInserts
<1>6. size' = Cardinality(C \cup {k}) /\ size' \in Nat
  BY <1>1, <1>2, <1>3, <1>5, FS_AddElement
<1>7. tree' \in Trees /\ k \in Node
  BY <1>4, KeyFacts DEF Linked
<1>8. (C \cup {k}) \ {k} = C
  BY <1>5
<1>9. TypeOK'
  BY <1>1, <1>2, <1>3, <1>6, <1>7 DEF TypeOK, Trees
<1> QED
  BY <1>1, <1>2, <1>5, <1>6, <1>8, <1>9 DEF Sane, LeftmostIsMin

\* One turn of the loop of rbt_insert that rotates.
LEMMA TurnInserts ==
  ASSUME NEW t, NEW C, NEW z, Inserting(t, C, z),
         NEW p, NEW g, NEW s, NEW u, Family(t, C, z, p, g, s, u), ~Red(t, u)
  PROVE  LET inner == z = t.child[Other(s)][p]
             z2 == IF inner THEN p ELSE z
             t2 == IF inner THEN Rotate(t, s, z2) ELSE t
             p2 == t2.parent[z2]
             g2 == t2.parent[p2]
         IN  Inserting(Rotate(Painted(Painted(t2, {p2}, "black"), {g2}, "red"), Other(s), g2), C, z2)
<1>1. PICK b, h : AtRed(t, C, b, h, z)
  BY DEF Inserting
<1>2. s \in Side /\ t.parent[z] = p /\ t.parent[p] = g /\ \E e \in Side : t.child[e][p] = z
  BY DEF Family
<1>3. CASE z = t.child[Other(s)][p]
  <2> DEFINE r == Rotate(t, s, p)
  <2>1. /\ \E b2, h2 : AtRed(r, C, b2, h2, p)
        /\ r.parent[p] = z /\ r.parent[z] = g /\ r.child[s][z] = p
        /\ SideBelow(r, z) = s /\ r.child[Other(s)][g] = u /\ r.color = t.color
    BY <1>1, <1>3, InnerInserts
  <2> HIDE DEF r
  <2>2. PICK b2, h2 : AtRed(r, C, b2, h2, p)
    BY <2>1
  <2>3. Red(r, z) /\ ~Red(r, u)
    BY <1>1, <2>1 DEF AtRed, Red
  <2>4. Family(r, C, p, z, g, s, u)
    BY <2>1, <2>2, <2>3, FamilyFacts
  <2>5. Inserting(Rotate(Painted(Painted(r, {z}, "black"), {g}, "red"), Other(s), g), C, p)
    BY <2>1, <2>2, <2>3, <2>4, OuterInserts
  <2> QED
    BY <1>3, <2>1, <2>5 DEF r
<1>4. CASE z # t.child[Other(s)][p]
  <2>1. t.child[s][p] = z
    BY <1>2, <1>4, SideFacts
  <2>2. Inserting(Rotate(Painted(Painted(t, {p}, "black"), {g}, "red"), Other(s), g), C, z)
    BY <1>1, <2>1, OuterInserts
  <2> QED
    BY <1>2, <1>4, <2>2
<1> QED
  BY <1>3, <1>4

\* In the loop of rbt_insert the names of the code are those of Family.
LEMMA InsertFamily ==
  ASSUME Inserting(tree, contents, cur), Red(tree, Parent)
  PROVE  Family(tree, contents, cur, Parent, Grandparent, ParentSide, Uncle)
<1>1. PICK b, h : AtRed(tree, contents, b, h, cur)
  BY DEF Inserting
<1>2. Family(tree, contents, cur, Parent, Grandparent, SideBelow(tree, Parent),
             tree.child[Other(SideBelow(tree, Parent))][Grandparent])
  BY <1>1, FamilyFacts DEF Parent, Grandparent
<1> QED
  BY <1>2 DEF ParentSide, Uncle, SideBelow, Grandparent

\* An insertion that goes on is still one.
LEMMA InsertingGoesOn ==
  ASSUME Sane, pc = "insert", UNCHANGED <<leftmost, size, pc, inserted, contents>>,
         Inserting(tree', contents, cur')
  PROVE  Sane'
<1>1. tree' \in Trees /\ cur' \in Node
  BY StatesAreFormed, FormedFacts
<1>2. TypeOK'
  BY <1>1 DEF Sane, TypeOK, Trees
<1> QED
  BY <1>2 DEF Sane, LeftmostIsMin

LEMMA InsertRecolourIsSane ==
  ASSUME Sane, InsertRecolour
  PROVE  Sane'
<1>1. Inserting(tree, contents, cur) /\ Red(tree, Parent) /\ Red(tree, Uncle) /\ pc = "insert"
  BY DEF InsertRecolour, Sane
<1>2. Family(tree, contents, cur, Parent, Grandparent, ParentSide, Uncle)
  BY <1>1, InsertFamily
<1>3. Inserting(Painted(Painted(tree, {Parent, Uncle}, "black"), {Grandparent}, "red"),
                contents, Grandparent)
  BY <1>1, <1>2, RecolourInserts
<1>4. Inserting(tree', contents, cur')
  BY <1>3 DEF InsertRecolour
<1> QED
  BY <1>1, <1>4, InsertingGoesOn DEF InsertRecolour

LEMMA InsertRotateIsSane ==
  ASSUME Sane, InsertRotate
  PROVE  Sane'
<1>1. Inserting(tree, contents, cur) /\ Red(tree, Parent) /\ ~Red(tree, Uncle) /\ pc = "insert"
  BY DEF InsertRotate, Sane
<1>2. Family(tree, contents, cur, Parent, Grandparent, ParentSide, Uncle)
  BY <1>1, InsertFamily
<1>3. LET inner == cur = tree.child[Other(ParentSide)][Parent]
          z2 == IF inner THEN Parent ELSE cur
          t2 == IF inner THEN Rotate(tree, ParentSide, z2) ELSE tree
          p2 == t2.parent[z2]
          g2 == t2.parent[p2]
      IN  Inserting(Rotate(Painted(Painted(t2, {p2}, "black"), {g2}, "red"),
                           Other(ParentSide), g2), contents, z2)
  BY <1>1, <1>2, TurnInserts
<1>4. Inserting(tree', contents, cur')
  BY <1>3 DEF InsertRotate
<1> QED
  BY <1>1, <1>4, InsertingGoesOn DEF InsertRotate

LEMMA InsertDoneIsSane ==
  ASSUME Sane, InsertDone
  PROVE  Sane'
<1>1. /\ Inserting(tree, contents, cur) /\ pc = "insert" /\ ~Red(tree, tree.parent[cur])
      /\ inserted \in contents /\ IsLeast(leftmost, contents \ {inserted})
  BY DEF InsertDone, Sane, Parent
<1>2. /\ tree' = Painted(tree, {tree.root}, "black") /\ pc' = "idle" /\ cur' = Nil
      /\ leftmost' = (IF leftmost = Nil THEN inserted
                      ELSE IF inserted < leftmost THEN inserted ELSE leftmost)
      /\ inserted' = Nil /\ size' = size /\ contents' = contents
  BY DEF InsertDone
<1>3. PICK b, h : AtRed(tree, contents, b, h, cur)
  BY <1>1 DEF Inserting
<1>4. Sound(tree, contents, b, h, NothingOwed) /\ \A n \in contents : ~Clash(tree, n)
  BY <1>1, <1>3 DEF AtRed, Clash
<1>5. Settled(tree', contents)
  BY <1>2, <1>4, RootSettles
<1>6. contents \subseteq Keys /\ tree' \in Trees /\ \A k \in contents : k \in Int /\ k \in Node
  BY <1>5, StatesAreFormed, FormedFacts, KeyFacts
<1>7. Nil \notin contents
  BY <1>6, KeyFacts
<1>8. leftmost' \in contents /\ \A k \in contents : leftmost' <= k
  <2>1. CASE contents \ {inserted} = {}
    <3>1. leftmost' = inserted /\ inserted \in Int
      BY <1>1, <1>2, <1>6, <2>1 DEF IsLeast
    <3>2. \A k \in contents : k = inserted
      BY <2>1
    <3> QED
      BY <1>1, <3>1, <3>2
  <2>2. CASE contents \ {inserted} # {}
    <3>1. leftmost \in contents /\ leftmost # inserted
          /\ \A k \in contents \ {inserted} : leftmost <= k
      BY <1>1, <2>2 DEF IsLeast
    <3>2. leftmost' = IF inserted < leftmost THEN inserted ELSE leftmost
      BY <1>2, <1>7, <3>1
    <3>3. leftmost \in Int /\ inserted \in Int
      BY <1>1, <1>6, <3>1
    <3>4. leftmost' \in Int /\ leftmost' <= leftmost /\ leftmost' <= inserted
      BY <3>2, <3>3
    <3>5. ASSUME NEW k \in contents PROVE leftmost' <= k
      <4>1. k \in Int /\ (k = inserted \/ leftmost <= k)
        BY <1>6, <3>1
      <4> QED
        BY <3>3, <3>4, <4>1
    <3> QED
      BY <1>1, <3>1, <3>2, <3>5
  <2> QED
    BY <2>1, <2>2
<1>9. LeftmostIsMin'
  BY <1>2, <1>8 DEF LeftmostIsMin
<1>10. TypeOK'
  BY <1>2, <1>6, <1>8, KeyFacts DEF TypeOK, Sane, Trees
<1> QED
  BY <1>2, <1>5, <1>9, <1>10 DEF Sane
------------------------------------------------------------------------------
(* rbt_delete. *)

\* What rbt_delete makes of the tree before its loop.
LEMMA UnlinkDeletes ==
  ASSUME NEW C, Settled(tree, C), NEW z \in C
  PROVE  IF Unlinked(z).lost = "black"
         THEN Deleting(Blank(Unlinked(z).tree, z), C \ {z}, Unlinked(z).at)
         ELSE Settled(Blank(Unlinked(z).tree, z), C \ {z})
<1> DEFINE l == tree.child["left"][z]
           q == tree.child["right"][z]
<1>1. PICK b, h : /\ Sound(tree, C, b, h, NothingOwed)
                  /\ \A n \in C : ~Clash(tree, n)
                  /\ ~Red(tree, tree.root)
  BY DEF Settled
<1>2. Shape(tree, C, b)
  BY <1>1 DEF Sound
<1>3. tree \in Trees /\ z \in Node /\ Other("left") = "right" /\ Other("right") = "left"
      /\ "left" \in Side /\ "right" \in Side
  BY <1>2, ShapeIsTree, SideFacts DEF Other
<1>4. ASSUME NEW e \in Side, tree.child[e][z] = Nil,
             NEW v, v = tree.child[Other(e)][z],
             Unlinked(z) = [tree |-> Transplant(tree, z, v), at |-> v, lost |-> tree.color[z]]
      PROVE  IF Unlinked(z).lost = "black"
             THEN Deleting(Blank(Unlinked(z).tree, z), C \ {z}, Unlinked(z).at)
             ELSE Settled(Blank(Unlinked(z).tree, z), C \ {z})
  <2> DEFINE r == Blank(Transplant(tree, z, v), z)
  <2>1. v \in Node
    <3>1. Other(e) \in Side
      BY SideFacts
    <3> QED
      BY <1>3, <1>4, <3>1 DEF Trees
  <2>2. Bypassed(tree, z, v, r)
    BY <1>2, <2>1, BypassFacts
  <2> HIDE DEF r
  <2>3. IF tree.color[z] = "black" THEN Deleting(r, C \ {z}, v) ELSE Settled(r, C \ {z})
    BY <1>4, <2>2, BypassDeletes
  <2>4. Unlinked(z).lost = tree.color[z] /\ Unlinked(z).at = v /\ Blank(Unlinked(z).tree, z) = r
    BY <1>4 DEF r
  <2> QED
    BY <2>3, <2>4
<1>5. CASE l = Nil
  <2>1. Unlinked(z) = [tree |-> Transplant(tree, z, q), at |-> q, lost |-> tree.color[z]]
    BY <1>5 DEF Unlinked
  <2> QED
    BY <1>3, <1>4, <1>5, <2>1
<1>6. CASE l # Nil /\ q = Nil
  <2>1. Unlinked(z) = [tree |-> Transplant(tree, z, l), at |-> l, lost |-> tree.color[z]]
    BY <1>6 DEF Unlinked
  <2> QED
    BY <1>3, <1>4, <1>6, <2>1
<1>7. CASE l # Nil /\ q # Nil
  <2> DEFINE y == Outermost(tree, "left", q)
             r == Blank(Unlinked(z).tree, z)
  <2>1. After(tree, C, b, z, y)
    BY <1>2, <1>7, AfterFacts
  <2>2. Replaced(tree, z, y, r)
    BY <1>2, <1>7, ReplaceFacts
  <2>3. Unlinked(z).at = tree.child["right"][y] /\ Unlinked(z).lost = tree.color[y]
    BY <1>7 DEF Unlinked
  <2> HIDE DEF y, r
  <2>4. IF tree.color[y] = "black" THEN Deleting(r, C \ {z}, tree.child["right"][y])
                                   ELSE Settled(r, C \ {z})
    BY <1>1, <2>1, <2>2, ReplaceDeletes
  <2> QED
    BY <2>3, <2>4 DEF r
<1> QED
  BY <1>5, <1>6, <1>7

LEMMA SearchFinds ==
  ASSUME NEW t, NEW C, Formed(t, C)
  PROVE  \A k \in Keys : Search(t, k) = IF k \in C THEN k ELSE Nil
BY DescentFacts DEF Formed, Search

LEMMA DeleteUnlinkIsSane ==
  ASSUME Sane, NEW k \in Keys, DeleteUnlink(k)
  PROVE  Sane'
<1> DEFINE C == contents
           lost == Unlinked(k).lost
<1>1. /\ pc = "idle" /\ Search(tree, k) = k
      /\ tree' = Blank(Unlinked(k).tree, k) /\ size' = size - 1
      /\ pc' = (IF lost = "black" THEN "delete" ELSE "rebuild")
      /\ cur' = (IF lost = "black" THEN Unlinked(k).at ELSE Nil)
      /\ C' = C \ {k} /\ leftmost' = leftmost /\ inserted' = inserted
  BY DEF DeleteUnlink
<1>2. Settled(tree, C) /\ size = Cardinality(C) /\ TypeOK
  BY <1>1 DEF Sane
<1>3. C \subseteq Keys /\ IsFiniteSet(C) /\ Cardinality(C) \in Nat /\ Formed(tree, C)
  BY <1>2, StatesAreFormed, FormedFacts
<1>4. k \in C
  BY <1>1, <1>3, SearchFinds, KeyFacts
<1>5. size' = Cardinality(C \ {k}) /\ size' \in Nat
  <2>1. IsFiniteSet(C \ {k}) /\ Cardinality(C \ {k}) = Cardinality(C) - 1
    BY <1>3, <1>4, FS_RemoveElement
  <2>2. Cardinality(C \ {k}) \in Nat
    BY <2>1, FS_CardinalityType
  <2> QED
    BY <1>1, <1>2, <2>1, <2>2
<1>6. IF lost = "black" THEN Deleting(tree', C \ {k}, Unlinked(k).at) ELSE Settled(tree', C \ {k})
  BY <1>1, <1>2, <1>4, UnlinkDeletes
<1> HIDE DEF lost
<1>7. tree' \in Trees /\ C' \subseteq Keys /\ cur' \in Node
  <2>1. CASE lost = "black"
    <3>1. Formed(tree', C \ {k}) /\ Unlinked(k).at \in (C \ {k}) \cup {Nil}
      BY <1>6, <2>1, StatesAreFormed
    <3> QED
      BY <1>1, <2>1, <3>1, FormedFacts, KeyFacts
  <2>2. CASE lost # "black"
    <3>1. Formed(tree', C \ {k})
      BY <1>6, <2>2, StatesAreFormed
    <3> QED
      BY <1>1, <2>2, <3>1, FormedFacts, KeyFacts
  <2> QED
    BY <2>1, <2>2
<1>8. TypeOK'
  BY <1>1, <1>2, <1>5, <1>7 DEF TypeOK, Trees
<1>9. CASE lost = "black"
  BY <1>1, <1>5, <1>6, <1>8, <1>9 DEF Sane, LeftmostIsMin
<1>10. CASE lost # "black"
  BY <1>1, <1>5, <1>6, <1>8, <1>10 DEF Sane, LeftmostIsMin
<1> QED
  BY <1>9, <1>10

\* Once the red sibling is out of the way, the place of x is short next to a
\* black sibling.
LEMMA BlackSiblingIsShort ==
  ASSUME Sane, DeleteFixing
  PROVE  \E b, h, v : /\ Short(BlackSibling, contents, b, h, cur, Parent, CurSide, v)
                      /\ ~Red(BlackSibling, v)
<1> DEFINE e == SideBelow(tree, cur)
           w == tree.child[Other(e)][Parent]
<1>1. Deleting(tree, contents, cur) /\ cur # tree.root /\ ~Red(tree, cur)
  BY DEF Sane, DeleteFixing
<1>2. e = CurSide
  BY DEF SideBelow, CurSide, Parent
<1>3. PICK b, h : Short(tree, contents, b, h, cur, Parent, e, w)
  BY <1>1, FixingIsShort DEF Parent
<1>4. BlackSibling = IF Red(tree, w)
                     THEN Rotate(Painted(Painted(tree, {w}, "black"), {Parent}, "red"), e, Parent)
                     ELSE tree
  BY <1>2 DEF BlackSibling
<1> HIDE DEF e, w
<1>5. CASE Red(tree, w)
  <2> DEFINE r == Rotate(Painted(Painted(tree, {w}, "black"), {Parent}, "red"), e, Parent)
             near == tree.child[e][w]
  <2>1. (\E b2, h2 : Short(r, contents, b2, h2, cur, Parent, e, near)) /\ ~Red(r, near)
    BY <1>3, <1>5, SiblingTurns
  <2> HIDE DEF r, near
  <2>2. BlackSibling = r
    BY <1>4, <1>5 DEF r
  <2> QED
    BY <1>2, <2>1, <2>2
<1>6. CASE ~Red(tree, w)
  <2>1. BlackSibling = tree
    BY <1>4, <1>6
  <2> QED
    BY <1>2, <1>3, <1>6, <2>1
<1> QED
  BY <1>5, <1>6

\* A deletion that goes on is still one.
LEMMA DeletingGoesOn ==
  ASSUME Sane, pc = "delete", UNCHANGED <<leftmost, size, pc, inserted, contents>>,
         Deleting(tree', contents, cur')
  PROVE  Sane'
<1>1. tree' \in Trees /\ cur' \in Node
  BY StatesAreFormed, FormedFacts, KeyFacts, ZenonT(30)
<1>2. TypeOK'
  BY <1>1 DEF Sane, TypeOK, Trees
<1> QED
  BY <1>2 DEF Sane, LeftmostIsMin

LEMMA DeleteRecolourIsSane ==
  ASSUME Sane, DeleteRecolour
  PROVE  Sane'
<1> DEFINE s == BlackSibling
           e == CurSide
           w == SiblingIn(s, e)
<1>1. /\ DeleteFixing /\ \A d \in Side : ~Red(s, s.child[d][w])
      /\ tree' = Painted(s, {w}, "red") /\ cur' = s.parent[cur]
      /\ UNCHANGED <<leftmost, size, pc, inserted, contents>>
  BY DEF DeleteRecolour
<1>2. PICK b, h, v : Short(s, contents, b, h, cur, Parent, e, v) /\ ~Red(s, v)
  BY <1>1, BlackSiblingIsShort
<1> HIDE DEF s, e
<1>3. s.parent[cur] = Parent /\ w = v
  BY <1>2 DEF Short, SiblingIn
<1> HIDE DEF w
<1>4. Deleting(Painted(s, {w}, "red"), contents, Parent)
  BY <1>1, <1>2, <1>3, SiblingReddens
<1> QED
  BY <1>1, <1>3, <1>4, DeletingGoesOn DEF DeleteFixing

\* The tree after a turn of the loop of rbt_delete that rotates, with the
\* black sibling v on side Other(d) of x's parent.
Paid(s, x, d, v) ==
  LET e == Other(d)
      near == s.child[d][v]
      t == IF Red(s, s.child[e][v]) THEN s
           ELSE Rotate(Painted(Painted(s, {near}, "black"), {v}, "red"), e, v)
      w == t.child[e][t.parent[x]]
      p == t.parent[x]
  IN  Rotate(Painted([t EXCEPT !.color[w] = t.color[p]], {p, t.child[e][w]}, "black"), d, p)

LEMMA TurnDeletes ==
  ASSUME NEW s, NEW C, NEW b, NEW h, NEW x, NEW p, NEW d, NEW v,
         Short(s, C, b, h, x, p, d, v), ~Red(s, v), \E side \in Side : Red(s, s.child[side][v])
  PROVE  Deleting(Paid(s, x, d, v), C, Paid(s, x, d, v).root)
<1> DEFINE e == Other(d)
           near == s.child[d][v]
<1>1. d \in Side /\ Side = {d, e}
  BY SideFacts DEF Short
<1>2. CASE Red(s, s.child[e][v])
  <2>1. s.parent[x] = p /\ s.child[e][p] = v
    BY DEF Short
  <2> DEFINE far == s.child[e][v]
             r == Rotate(Painted([s EXCEPT !.color[v] = s.color[p]], {p, far}, "black"), d, p)
  <2>2. Deleting(r, C, r.root)
    <3> HIDE DEF far
    <3>1. far = s.child[Other(d)][v] /\ Red(s, far)
      BY <1>2 DEF far
    <3> QED
      BY <3>1, SiblingPays
  <2>3. Paid(s, x, d, v) = r
    BY <1>2, <2>1 DEF Paid
  <2> HIDE DEF r
  <2> QED
    BY <2>2, <2>3
<1>3. CASE ~Red(s, s.child[e][v])
  <2> DEFINE t == Rotate(Painted(Painted(s, {near}, "black"), {v}, "red"), e, v)
  <2>1. Red(s, near)
    BY <1>1, <1>3
  <2>2. (\E b2, h2 : Short(t, C, b2, h2, x, p, d, near))
        /\ ~Red(t, near) /\ Red(t, t.child[e][near])
    BY <1>3, <2>1, NephewTurns, ZenonT(30)
  <2> HIDE DEF t
  <2>3. PICK b2, h2 : Short(t, C, b2, h2, x, p, d, near)
    BY <2>2
  <2>4. t.parent[x] = p /\ t.child[e][p] = near
    BY <2>3 DEF Short
  <2> HIDE DEF near
  <2> DEFINE far == t.child[e][near]
             r == Rotate(Painted([t EXCEPT !.color[near] = t.color[p]], {p, far}, "black"), d, p)
  <2>5. Deleting(r, C, r.root)
    <3> HIDE DEF far
    <3>1. far = t.child[Other(d)][near] /\ Red(t, far)
      BY <2>2 DEF far
    <3> QED
      BY <2>2, <2>3, <3>1, SiblingPays
  <2>6. Paid(s, x, d, v) = r
    BY <1>3, <2>4 DEF Paid, t, near
  <2> HIDE DEF r
  <2> QED
    BY <2>5, <2>6
<1> QED
  BY <1>2, <1>3

LEMMA DeleteRotateIsSane ==
  ASSUME Sane, DeleteRotate
  PROVE  Sane'
<1> DEFINE s == BlackSibling
           d == CurSide
           v == SiblingIn(s, d)
           r == Paid(s, cur, d, v)
<1>1. DeleteFixing /\ UNCHANGED <<leftmost, size, pc, inserted, contents>>
      /\ \E side \in Side : Red(s, s.child[side][v])
  BY DEF DeleteRotate
<1>2. tree' = r /\ cur' = tree'.root
  BY DEF DeleteRotate, SiblingIn, Paid
<1>3. PICK b, h, u : Short(s, contents, b, h, cur, Parent, d, u) /\ ~Red(s, u)
  BY <1>1, BlackSiblingIsShort
<1>4. u = v
  BY <1>3 DEF Short, SiblingIn
<1> HIDE DEF s, d, v
<1>5. Short(s, contents, b, h, cur, Parent, d, v) /\ ~Red(s, v)
  BY <1>3, <1>4
<1>6. Deleting(r, contents, r.root)
  BY <1>1, <1>5, TurnDeletes
<1> HIDE DEF r
<1> QED
  BY <1>1, <1>2, <1>6, DeletingGoesOn DEF DeleteFixing

LEMMA DeleteFixedIsSane ==
  ASSUME Sane, DeleteFixed
  PROVE  Sane'
<1>1. /\ Deleting(tree, contents, cur) /\ pc = "delete" /\ (cur = tree.root \/ Red(tree, cur))
      /\ tree' = Painted(tree, {cur}, "black") /\ pc' = "rebuild" /\ cur' = Nil
      /\ UNCHANGED <<leftmost, size, inserted, contents>>
  BY DEF DeleteFixed, DeleteFixing, Sane
<1>2. Settled(tree', contents)
  BY <1>1, FixedSettles
<1>3. tree' \in Trees
  BY <1>2, StatesAreFormed, FormedFacts
<1>4. TypeOK'
  BY <1>1, <1>3, KeyFacts DEF Sane, TypeOK, Trees
<1> QED
  BY <1>1, <1>2, <1>4 DEF Sane, LeftmostIsMin

LEMMA RebuildIsSane ==
  ASSUME Sane, Rebuild
  PROVE  Sane'
<1>1. /\ Settled(tree, contents) /\ pc' = "idle"
      /\ leftmost' = (IF tree.root = Nil THEN Nil ELSE Outermost(tree, "left", tree.root))
      /\ UNCHANGED <<tree, size, cur, inserted, contents>>
  BY DEF Rebuild, Sane
<1>2. PICK b, h : Sound(tree, contents, b, h, NothingOwed)
  BY <1>1 DEF Settled
<1>3. Shape(tree, contents, b)
  BY <1>2 DEF Sound
<1>4. contents \subseteq Node /\ Nil \in Node
  BY <1>3, ShapeIsTree
<1>5. IF contents = {} THEN leftmost' = Nil
      ELSE leftmost' \in contents /\ \A k \in contents : leftmost' <= k
  <2>1. CASE tree.root = Nil
    <3>1. contents = {}
      BY <1>3, <2>1 DEF Shape
    <3> QED
      BY <1>1, <2>1, <3>1
  <2>2. CASE tree.root # Nil
    <3>1. leftmost' \in contents /\ \A k \in contents : leftmost' <= k
      BY <1>1, <1>3, <2>2, LeastFacts
    <3> QED
      BY <3>1
  <2> QED
    BY <2>1, <2>2
<1>6. leftmost' \in Node
  BY <1>4, <1>5
<1>7. TypeOK'
  BY <1>1, <1>6 DEF Sane, TypeOK
<1> QED
  BY <1>1, <1>5, <1>7 DEF Sane, LeftmostIsMin

LEMMA NextIsSane == Sane /\ [Next]_vars => Sane'
<1> SUFFICES ASSUME Sane, [Next]_vars PROVE Sane'
  OBVIOUS
<1>1. CASE UNCHANGED vars
  BY <1>1 DEF vars, Sane, TypeOK, LeftmostIsMin
<1>2. CASE \E k \in Keys : InsertLink(k) \/ InsertUpdate(k) \/ DeleteUnlink(k) \/ DeleteAbsent(k)
  <2>1. PICK k \in Keys : InsertLink(k) \/ InsertUpdate(k) \/ DeleteUnlink(k) \/ DeleteAbsent(k)
    BY <1>2
  <2>2. CASE InsertUpdate(k) \/ DeleteAbsent(k)
    BY <1>1, <2>2 DEF InsertUpdate, DeleteAbsent
  <2> QED
    BY <2>1, <2>2, InsertLinkIsSane, DeleteUnlinkIsSane
<1>3. CASE Fix
  BY <1>3, InsertRecolourIsSane, InsertRotateIsSane, InsertDoneIsSane, DeleteRecolourIsSane,
     DeleteRotateIsSane, DeleteFixedIsSane, RebuildIsSane DEF Fix
<1> QED
  BY <1>1, <1>2, <1>3 DEF Next
------------------------------------------------------------------------------
(* The properties. *)

\* What OneDefect takes to be owed at x.
Owed(t, x) == [n \in Node |-> [d \in Side |->
                 IF t.child[d][n] = x /\ t.parent[x] = n THEN 1 ELSE 0]]

\* It is what the heights say is owed.
LEMMA DebtIsOwed ==
  ASSUME NEW t, NEW C, NEW x, Deleting(t, C, x)
  PROVE  \E b, h : Shape(t, C, b) /\ Heights(t, C, h, Owed(t, x))
<1> DEFINE o == Owed(t, x)
<1>1. PICK b, h, p, e : Indebted(t, C, b, h, x, p, e)
  BY DEF Deleting
<1>2. Formed(t, C) /\ x \in C \cup {Nil}
  BY StatesAreFormed
<1>3. t \in Trees /\ C \subseteq Node /\ Nil \notin C /\ Nil \in Node
  BY <1>2, FormedFacts, KeyFacts
<1>4. \A n \in Node, d \in Side : o[n][d] = IF t.child[d][n] = x /\ t.parent[x] = n THEN 1 ELSE 0
  BY DEF Owed
<1> HIDE DEF o
<1>5. CASE x = t.root
  <2>1. Shape(t, C, b) /\ Heights(t, C, h, NothingOwed)
    BY <1>1, <1>5 DEF Indebted, Sound
  <2>2. ASSUME NEW n \in C, NEW d \in Side PROVE o[n][d] = NothingOwed[n][d]
    <3>1. n \in Node /\ x # Nil
      BY <1>3, <1>5, <2>1 DEF Shape
    <3>2. t.child[d][n] # x
      BY <1>5, <2>1, <3>1, OneParent
    <3> QED
      BY <1>4, <3>1, <3>2, NothingOwedFacts
  <2>3. Heights(t, C, h, o)
    BY <2>1, <2>2 DEF Heights, Level
  <2> QED
    BY <2>1, <2>3 DEF o
<1>6. CASE x # t.root
  <2>1. /\ Shape(t, C, b) /\ Heights(t, C, h, Owing(p, e))
        /\ t.parent[x] = p /\ p \in C /\ e \in Side /\ t.child[e][p] = x
    BY <1>1, <1>6 DEF Indebted, Sound
  <2>2. Other(e) \in Side /\ Other(e) # e /\ Side = {e, Other(e)} /\ p \in Node /\ x \in Node
    BY <1>2, <1>3, <2>1, SideFacts
  <2>3. t.child[Other(e)][p] # x
    <3> DEFINE w == t.child[Other(e)][p]
    <3>1. w \in Node
      BY <1>3, <2>2 DEF Trees
    <3>2. h[x] \in Nat /\ h[w] \in Nat /\ Black(t, p) \in {0, 1} /\ Level(t, h, Owing(p, e), p)
      BY <1>3, <2>1, <2>2, <3>1, BlackFacts DEF Heights
    <3>3. Owing(p, e)[p][e] = 1 /\ Owing(p, e)[p][Other(e)] = 0
      BY <2>1, <2>2, OwingFacts
    <3>4. h[p] = h[x] + 1 + Black(t, p) /\ h[p] = h[w] + 0 + Black(t, p)
      BY <2>1, <2>2, <3>2, <3>3 DEF Level
    <3> HIDE DEF w
    <3>5. w # x
      BY <3>2, <3>4
    <3> QED
      BY <3>5 DEF w
  <2>4. ASSUME NEW n \in C, NEW d \in Side PROVE o[n][d] = Owing(p, e)[n][d]
    <3>1. n \in Node
      BY <1>3
    <3>2. Owing(p, e)[n][d] = IF n = p /\ d = e THEN 1 ELSE 0
      BY <3>1, OwingFacts
    <3>3. t.child[d][n] = x /\ t.parent[x] = n <=> n = p /\ d = e
      BY <2>1, <2>2, <2>3
    <3> QED
      BY <1>4, <3>1, <3>2, <3>3
  <2>5. Heights(t, C, h, o)
    BY <2>1, <2>4 DEF Heights, Level
  <2> QED
    BY <2>1, <2>5 DEF o
<1> QED
  BY <1>5, <1>6

LEMMA SaneHasOneDefect == Sane => OneDefect
<1> SUFFICES ASSUME Sane PROVE OneDefect
  OBVIOUS
<1>1. TypeOK /\ Formed(tree, contents)
  BY SaneIsFormed DEF Sane
<1>2. \A n \in contents : n \in RedPairs <=> Clash(tree, n)
  BY DEF RedPairs, Clash
<1>3. RedPairs \subseteq contents
  BY DEF RedPairs
<1>4. ASSUME NEW b, NEW h, Sound(tree, contents, b, h, NothingOwed)
      PROVE  BlackHeight(NothingOwed, tree.root) > 0
  <2>1. NothingOwed \in [Node -> [Side -> Nat]]
    BY DEF NothingOwed
  <2>2. \A n \in Node \ contents : NothingOwed[n]["left"] = NothingOwed[n]["right"]
    BY SideFacts, NothingOwedFacts
  <2>3. Shape(tree, contents, b) /\ Heights(tree, contents, h, NothingOwed)
    BY <1>4 DEF Sound
  <2> QED
    BY <2>1, <2>2, <2>3, BlackHeightFacts
<1>5. /\ tree.color[Nil] = "black" /\ \A d \in Side : tree.child[d][Nil] = Nil
  <2>1. tree.color[Nil] = "black"
    <3>1. CASE pc \in {"idle", "rebuild"}
      BY <3>1 DEF Sane, Settled, Sound
    <3>2. CASE pc = "insert"
      BY <3>2 DEF Sane, Inserting, AtRed, Sound
    <3>3. CASE pc = "delete"
      <4>1. PICK b, h, p, e : Indebted(tree, contents, b, h, cur, p, e)
        BY <3>3 DEF Sane, Deleting
      <4> QED
        BY <4>1 DEF Indebted, Sound
    <3> QED
      BY <1>1, <3>1, <3>2, <3>3 DEF TypeOK
  <2>2. \A d \in Side : tree.child[d][Nil] = Nil
    <3>1. Nil \in Node \ contents
      BY <1>1, FormedFacts, KeyFacts
    <3> QED
      BY <1>1, <3>1 DEF Formed, Shape
  <2> QED
    BY <2>1, <2>2
<1>6. ASSUME pc \in {"idle", "rebuild"}
      PROVE  ~Red(tree, tree.root) /\ RedPairs = {} /\ BlackHeight(NothingOwed, tree.root) > 0
  <2>1. PICK b, h : /\ Sound(tree, contents, b, h, NothingOwed)
                    /\ \A n \in contents : ~Clash(tree, n)
                    /\ ~Red(tree, tree.root)
    BY <1>6 DEF Sane, Settled
  <2> QED
    BY <1>2, <1>3, <1>4, <2>1
<1>7. ASSUME pc = "insert"
      PROVE  /\ RedPairs \subseteq {cur}
             /\ Red(tree, tree.root) => cur = tree.root
             /\ BlackHeight(NothingOwed, tree.root) > 0
  <2>1. PICK b, h : AtRed(tree, contents, b, h, cur)
    BY <1>7 DEF Sane, Inserting
  <2> QED
    BY <1>2, <1>3, <1>4, <2>1 DEF AtRed
<1>8. ASSUME pc = "delete"
      PROVE  /\ \A n \in RedPairs : cur \in {n, tree.parent[n]}
             /\ BlackHeight(Owed(tree, cur), tree.root) > 0
  <2>1. Deleting(tree, contents, cur)
    BY <1>8 DEF Sane
  <2>2. \A n \in RedPairs : cur \in {n, tree.parent[n]}
    BY <1>2, <1>3, <2>1 DEF Deleting, Indebted
  <2>3. PICK b, h : Shape(tree, contents, b) /\ Heights(tree, contents, h, Owed(tree, cur))
    BY <2>1, DebtIsOwed
  <2>4. Owed(tree, cur) \in [Node -> [Side -> Nat]]
    BY DEF Owed
  <2>5. \A n \in Node \ contents : Owed(tree, cur)[n]["left"] = Owed(tree, cur)[n]["right"]
    <3> TAKE n \in Node \ contents
    <3>1. tree.child["left"][n] = Nil /\ tree.child["right"][n] = Nil
      BY <2>3, SideFacts DEF Shape
    <3> QED
      BY <3>1, SideFacts DEF Owed
  <2> QED
    BY <2>2, <2>3, <2>4, <2>5, BlackHeightFacts
<1>9. Valid
  BY <1>5, <1>6 DEF Valid
<1> QED
  BY <1>1, <1>7, <1>8, <1>9 DEF OneDefect, Owed

LEMMA SaneWalkIsSorted == Sane => WalkIsSorted
<1> SUFFICES ASSUME Sane PROVE WalkIsSorted
  OBVIOUS
<1>1. PICK b : Shape(tree, contents, b)
  BY SaneIsFormed DEF Formed
<1>2. tree.parent[tree.root] = Nil \/ tree.root = Nil
  BY <1>1 DEF Shape
<1>3. \A k \in Keys : Search(tree, k) = IF k \in contents THEN k ELSE Nil
  BY SaneIsFormed, SearchFinds
<1>4. ASSUME NEW k \in contents
      PROVE  LET above == {j \in contents : j > k}
                 next == Successor(tree, k)
             IN  IF above = {} THEN next = Nil
                 ELSE next \in above /\ \A j \in above : next <= j
  <2> DEFINE above == {j \in contents : j > k}
             next == Successor(tree, k)
  <2>1. \/ next = Nil /\ \A j \in contents : ~(k < j)
        \/ next \in contents /\ k < next /\ \A j \in contents : k < j => next <= j
    BY <1>1, SuccessorFacts
  <2>2. \A j \in contents : j \in Int
    BY <1>1, KeyFacts DEF Shape
  <2> HIDE DEF next
  <2>3. \A j \in contents : j \in above <=> k < j
    BY <2>2
  <2>4. above \subseteq contents
    OBVIOUS
  <2> HIDE DEF above
  <2>5. IF above = {} THEN next = Nil
        ELSE next \in above /\ \A j \in above : next <= j
    BY <2>1, <2>3, <2>4
  <2> QED
    BY <2>5 DEF above, next
<1> QED
  BY <1>2, <1>3, <1>4 DEF Sane, WalkIsSorted

LEMMA StaysSane == Spec => []Sane
BY InitIsSane, NextIsSane, PTL DEF Spec

\* Whatever is inserted and deleted, in any order: between calls the tree is a
\* red-black tree, and in the middle of a fix-up only the node the loop looks
\* at is out of order, by one red below red or one black missing.
THEOREM OneDefectAtMost == Spec => []OneDefect
<1>1. Sane => OneDefect
  BY SaneHasOneDefect
<1> QED
  BY <1>1, StaysSane, PTL

\* Between any two steps, rotations included, search finds exactly the keys
\* inserted and not deleted, successor goes through them in order, size counts
\* them, and between calls the cached minimum is the least.
THEOREM WalkStaysSorted == Spec => []WalkIsSorted
<1>1. Sane => WalkIsSorted
  BY SaneWalkIsSorted
<1> QED
  BY <1>1, StaysSane, PTL
==============================================================================
