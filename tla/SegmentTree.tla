---------------------------- MODULE SegmentTree ----------------------------
(***************************************************************************)
(* The segment tree with lazy propagation (segment_tree.c).  Node 1 stands *)
(* for the whole array, 2n and 2n+1 for the halves of n; a query, too,     *)
(* pushes pending additions down.  array is what the calls make of the     *)
(* array the tree stands for; segtree_update sets a leaf and leaves the    *)
(* sums above it, and stale remembers that it was called.                  *)
(***************************************************************************)
EXTENDS Integers

CONSTANTS
  N,              \* length of the array
  Arrays,         \* the arrays a tree is built for
  Deltas, Sets,   \* arguments of the updates
  MaxUpdates      \* bound on the updates

VARIABLES tree, lazy, array, stale, updates

vars == <<tree, lazy, array, stale, updates>>

Nodes == 1 .. 4 * N - 1

Mid(lo, hi) == (lo + hi) \div 2

\* build: the tree t with the sums of arr below node n.
RECURSIVE Build(_, _, _, _, _)
Build(t, arr, n, lo, hi) ==
  IF lo = hi THEN [t EXCEPT ![n] = arr[lo]]
  ELSE
    LET left == Build(t, arr, 2 * n, lo, Mid(lo, hi))
        both == Build(left, arr, 2 * n + 1, Mid(lo, hi) + 1, hi)
    IN  [both EXCEPT ![n] = both[2 * n] + both[2 * n + 1]]

\* segtree_create
Init ==
  /\ array \in Arrays
  /\ tree = Build([n \in Nodes |-> 0], array, 1, 0, N - 1)
  /\ lazy = [n \in Nodes |-> 0]
  /\ stale = FALSE
  /\ updates = 0

\* Mutant: the tag of the node stays, and is pushed down again.
PushDownKeepsTag(st, n, lo, hi) ==
  LET d == st.lazy[n]
  IN  [tree |-> [st.tree EXCEPT ![2 * n] = @ + d * (Mid(lo, hi) - lo + 1),
                                ![2 * n + 1] = @ + d * (hi - Mid(lo, hi))],
       lazy |-> [st.lazy EXCEPT ![2 * n] = @ + d, ![2 * n + 1] = @ + d]]

PushDown(st, n, lo, hi) ==
  LET d == st.lazy[n]
  IN  IF d = 0 THEN st
      ELSE [tree |-> [st.tree EXCEPT ![2 * n] = @ + d * (Mid(lo, hi) - lo + 1),
                                     ![2 * n + 1] = @ + d * (hi - Mid(lo, hi))],
            lazy |-> [st.lazy EXCEPT ![2 * n] = @ + d, ![2 * n + 1] = @ + d, ![n] = 0]]

\* The loop of segtree_update.
RECURSIVE PointSet(_, _, _, _, _, _)
PointSet(st, n, lo, hi, pos, v) ==
  LET down == PushDown(st, n, lo, hi)
  IN  IF lo = hi THEN [st EXCEPT !.tree[n] = v]
      ELSE IF pos <= Mid(lo, hi) THEN PointSet(down, 2 * n, lo, Mid(lo, hi), pos, v)
      ELSE PointSet(down, 2 * n + 1, Mid(lo, hi) + 1, hi, pos, v)

\* range_update_r
RECURSIVE RangeAdd(_, _, _, _, _, _, _)
RangeAdd(st, n, lo, hi, l, r, delta) ==
  IF r < lo \/ hi < l THEN st
  ELSE IF l <= lo /\ hi <= r
  THEN [st EXCEPT !.tree[n] = @ + delta * (hi - lo + 1), !.lazy[n] = @ + delta]
  ELSE
    LET left == RangeAdd(PushDown(st, n, lo, hi), 2 * n, lo, Mid(lo, hi), l, r, delta)
        both == RangeAdd(left, 2 * n + 1, Mid(lo, hi) + 1, hi, l, r, delta)
    IN  [both EXCEPT !.tree[n] = both.tree[2 * n] + both.tree[2 * n + 1]]

\* query_sum_r: the sum, and the tree with what the query pushed down.
RECURSIVE SumIn(_, _, _, _, _, _)
SumIn(st, n, lo, hi, l, r) ==
  IF r < lo \/ hi < l THEN [st |-> st, sum |-> 0]
  ELSE IF l <= lo /\ hi <= r THEN [st |-> st, sum |-> st.tree[n]]
  ELSE
    LET left == SumIn(PushDown(st, n, lo, hi), 2 * n, lo, Mid(lo, hi), l, r)
        right == SumIn(left.st, 2 * n + 1, Mid(lo, hi) + 1, hi, l, r)
    IN  [st |-> right.st, sum |-> left.sum + right.sum]

State == [tree |-> tree, lazy |-> lazy]

Become(st) ==
  /\ tree' = st.tree
  /\ lazy' = st.lazy

Update(pos, v) ==
  /\ updates < MaxUpdates
  /\ updates' = updates + 1
  /\ Become(PointSet(State, 1, 0, N - 1, pos, v))
  /\ array' = [array EXCEPT ![pos] = v]
  /\ stale' = TRUE

RangeUpdate(l, r, delta) ==
  /\ updates < MaxUpdates
  /\ updates' = updates + 1
  /\ Become(RangeAdd(State, 1, 0, N - 1, l, r, delta))
  /\ array' = [i \in 0 .. N - 1 |-> IF i \in l .. r THEN array[i] + delta ELSE array[i]]
  /\ UNCHANGED stale

\* segtree_query_sum
QuerySum(l, r) == SumIn(State, 1, 0, N - 1, l, r).sum

Query(l, r) ==
  /\ Become(SumIn(State, 1, 0, N - 1, l, r).st)
  /\ UNCHANGED <<array, stale, updates>>

Next ==
  \E l \in 0 .. N - 1 :
    \/ \E v \in Sets : Update(l, v)
    \/ \E r \in l .. N - 1 : Query(l, r) \/ \E delta \in Deltas : RangeUpdate(l, r, delta)

Spec == Init /\ [][Next]_vars
===========================================================================
