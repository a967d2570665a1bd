------------------------------- MODULE RTree -------------------------------
(***************************************************************************)
(* The R-tree (rtree.c).  A full leaf at the root is put under an inner    *)
(* node, once; insertions are then sent to the only child, which has no    *)
(* room, and only count.  A rectangle is <<x1, y1, x2, y2>>; Nothing       *)
(* bounds no entry.                                                        *)
(***************************************************************************)
EXTENDS Integers, Sequences

CONSTANTS
  Rects,
  MaxEntries,     \* RTREE_MAX_ENTRIES
  MaxCount        \* bound on the insertions

VARIABLES
  leaf, leafMbr,  \* the entries of the leaf and its bounding box
  inner, rootMbr, \* whether the root is an inner node, and its bounding box
  size,
  inserted        \* the rectangles inserted, in order

vars == <<leaf, leafMbr, inner, rootMbr, size, inserted>>

Far == 1000     \* stands for DBL_MAX
Nothing == <<Far, Far, -Far, -Far>>

Lesser(a, b) == IF a < b THEN a ELSE b
Greater(a, b) == IF a > b THEN a ELSE b

Overlaps(a, b) == a[1] <= b[3] /\ a[3] >= b[1] /\ a[2] <= b[4] /\ a[4] >= b[2]

Union(a, b) ==
  <<Lesser(a[1], b[1]), Lesser(a[2], b[2]), Greater(a[3], b[3]), Greater(a[4], b[4])>>

Init ==
  /\ leaf = <<>>
  /\ leafMbr = Nothing
  /\ inner = FALSE
  /\ rootMbr = Nothing
  /\ size = 0
  /\ inserted = <<>>

Insert(rect) ==
  /\ size < MaxCount
  /\ size' = size + 1
  /\ inserted' = Append(inserted, rect)
  /\ inner' = (inner \/ Len(leaf) = MaxEntries)
  /\ \/ /\ Len(leaf) < MaxEntries
        /\ leaf' = Append(leaf, rect)
        /\ leafMbr' = Union(leafMbr, rect)
     \/ /\ Len(leaf) = MaxEntries
        /\ UNCHANGED <<leaf, leafMbr>>
  /\ rootMbr' = IF inner' THEN Union(Nothing, leafMbr') ELSE leafMbr'

Next == \E rect \in Rects : Insert(rect)

\* The entries search_r visits.
Search(query) ==
  IF Overlaps(rootMbr, query) /\ Overlaps(leafMbr, query)
  THEN {i \in DOMAIN leaf : Overlaps(leaf[i], query)} ELSE {}
===========================================================================
