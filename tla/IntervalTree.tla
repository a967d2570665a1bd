--------------------------- MODULE IntervalTree ---------------------------
(***************************************************************************)
(* The interval tree (segment_tree.c): a search tree on the lower ends     *)
(* whose nodes cache the largest upper end below them.  held is the set of *)
(* intervals inserted.                                                     *)
(***************************************************************************)
EXTENDS Integers

CONSTANTS Ends, MaxHeld     \* bound on the intervals inserted

VARIABLES root, count, held

vars == <<root, count, held>>

Null == [null |-> TRUE]

Init == root = Null /\ count = 0 /\ held = {}

RECURSIVE Inserted(_, _, _)
Inserted(n, lo, hi) ==
  IF n = Null
  THEN [null |-> FALSE, lo |-> lo, hi |-> hi, max_hi |-> hi, left |-> Null, right |-> Null]
  ELSE [(IF lo < n.lo THEN [n EXCEPT !.left = Inserted(n.left, lo, hi)]
                      ELSE [n EXCEPT !.right = Inserted(n.right, lo, hi)])
        EXCEPT !.max_hi = IF hi > @ THEN hi ELSE @]

Insert(lo, hi) ==
  /\ count < MaxHeld
  /\ root' = Inserted(root, lo, hi)
  /\ count' = count + 1
  /\ held' = held \cup {<<lo, hi>>}

Next == \E lo, hi \in Ends : lo <= hi /\ Insert(lo, hi)

\* itree_stab: the node it ends at, Null if none holds p.
RECURSIVE StabFrom(_, _)
StabFrom(n, p) ==
  IF n = Null THEN Null
  ELSE IF n.lo <= p /\ p <= n.hi THEN n
  ELSE IF n.left # Null /\ n.left.max_hi >= p THEN StabFrom(n.left, p)
  ELSE StabFrom(n.right, p)

Stab(p) == StabFrom(root, p)

\* The intervals itree_overlap_r visits.
RECURSIVE OverlapFrom(_, _, _)
OverlapFrom(n, lo, hi) ==
  IF n = Null \/ n.max_hi < lo THEN {}
  ELSE (IF n.lo <= hi /\ n.hi >= lo THEN {<<n.lo, n.hi>>} ELSE {})
         \cup OverlapFrom(n.left, lo, hi) \cup OverlapFrom(n.right, lo, hi)

Overlap(lo, hi) == OverlapFrom(root, lo, hi)
===========================================================================
