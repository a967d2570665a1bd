------------------------------ MODULE KdTree ------------------------------
(***************************************************************************)
(* The k-d tree in two dimensions (kd_tree.c), on whole coordinates.       *)
(* points is the sequence of points inserted.                              *)
(***************************************************************************)
EXTENDS Integers, SequencesExt

CONSTANTS Coordinates, MaxPoints

VARIABLES root, points

vars == <<root, points>>

Null == [null |-> TRUE]

Node(p, left, right) == [null |-> FALSE, point |-> p, left |-> left, right |-> right]

Axis(depth) == (depth % 2) + 1

Init == root = Null /\ points = <<>>

RECURSIVE Inserted(_, _, _)
Inserted(n, p, depth) ==
  IF n = Null THEN Node(p, Null, Null)
  ELSE IF p[Axis(depth)] < n.point[Axis(depth)]
  THEN [n EXCEPT !.left = Inserted(@, p, depth + 1)]
  ELSE [n EXCEPT !.right = Inserted(@, p, depth + 1)]

Insert(p) ==
  /\ Len(points) < MaxPoints
  /\ root' = Inserted(root, p, 0)
  /\ points' = Append(points, p)

Next == \E x, y \in Coordinates : Insert(<<x, y>>)

\* build_r: the trees of the points with these indices, for any order qsort
\* may leave points in that are equal on the axis.
RECURSIVE Built(_, _)
Built(S, depth) ==
  LET at(i) == points[i][Axis(depth)]
  IN  IF S = {} THEN {Null}
      ELSE UNION {{Node(points[m], left, right) :
                     left \in Built(L, depth + 1), right \in Built(S \ (L \cup {m}), depth + 1)} :
                  <<m, L>> \in {<<i, T>> \in S \X SUBSET S :
                    /\ i \notin T /\ Cardinality(T) = Cardinality(S) \div 2
                    /\ \A j \in T : at(j) <= at(i)
                    /\ \A j \in S \ T : at(j) >= at(i)}}

Dist2(p, q) == (p[1] - q[1]) * (p[1] - q[1]) + (p[2] - q[2]) * (p[2] - q[2])

\* Mutant: the far side is never explored.
RECURSIVE NearestOnNearSide(_, _, _, _)
NearestOnNearSide(n, q, depth, best) ==
  IF n = Null THEN best
  ELSE
    LET closer(b) == b # Null /\ Dist2(q, n.point) >= Dist2(q, b.point)
        here == IF closer(best) THEN best ELSE n
        near == IF q[Axis(depth)] < n.point[Axis(depth)] THEN n.left ELSE n.right
    IN  NearestOnNearSide(near, q, depth + 1, here)

\* nn_r: the best node so far, first of the near side, then of the far side
\* if the dividing line is nearer than the best.
RECURSIVE NearestFrom(_, _, _, _)
NearestFrom(n, q, depth, best) ==
  IF n = Null THEN best
  ELSE
    LET closer(b) == b # Null /\ Dist2(q, n.point) >= Dist2(q, b.point)
        here == IF closer(best) THEN best ELSE n
        diff == q[Axis(depth)] - n.point[Axis(depth)]
        near == IF diff < 0 THEN n.left ELSE n.right
        far == IF diff < 0 THEN n.right ELSE n.left
        found == NearestFrom(near, q, depth + 1, here)
    IN  IF diff * diff < Dist2(q, found.point)
        THEN NearestFrom(far, q, depth + 1, found) ELSE found

Nearest(t, q) == NearestFrom(t, q, 0, Null)

\* The points range_r visits: on the right of a node only if its line is near.
RECURSIVE WithinFrom(_, _, _, _)
WithinFrom(n, q, r2, depth) ==
  IF n = Null THEN {}
  ELSE
    LET diff == q[Axis(depth)] - n.point[Axis(depth)]
    IN  {p \in {n.point} : Dist2(q, p) <= r2}
          \cup WithinFrom(n.left, q, r2, depth + 1)
          \cup (IF diff * diff <= r2 THEN WithinFrom(n.right, q, r2, depth + 1) ELSE {})

RangeSearch(t, q, r) == WithinFrom(t, q, r * r, 0)
===========================================================================
