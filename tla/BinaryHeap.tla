----------------------------- MODULE BinaryHeap ------------------------------
(***************************************************************************)
(* The binary min-heap that src/trees/heap.c keeps in two parallel arrays  *)
(* and that the macros HPUSH and HPOP_V of src/graph/graph.c repeat: here  *)
(* one sequence of entries [key, val], with indices from 1.                *)
(***************************************************************************)
LOCAL INSTANCE Integers
LOCAL INSTANCE Sequences
LOCAL INSTANCE SequencesExt

Above(i) == i \div 2
Swapped(h, i, j) == [h EXCEPT ![i] = h[j], ![j] = h[i]]

RECURSIVE SiftUp(_, _)
SiftUp(h, i) ==
  IF i > 1 /\ h[Above(i)].key > h[i].key
  THEN SiftUp(Swapped(h, i, Above(i)), Above(i))
  ELSE h

\* The least of i and its children, the left one on a tie.
Best(h, i) ==
  LET lower(b, c) == IF c <= Len(h) /\ h[c].key < h[b].key THEN c ELSE b
  IN  lower(lower(i, 2 * i), 2 * i + 1)

RECURSIVE SiftDown(_, _)
SiftDown(h, i) ==
  IF Best(h, i) = i THEN h ELSE SiftDown(Swapped(h, i, Best(h, i)), Best(h, i))

Push(h, key, val) ==
  SiftUp(Append(h, [key |-> key, val |-> val]), Len(h) + 1)

\* The heap without its first entry.
Popped(h) ==
  LET moved == Front([h EXCEPT ![1] = Last(h)])
  IN  IF moved = <<>> THEN moved ELSE SiftDown(moved, 1)
==============================================================================
