------------------------------- MODULE Array -------------------------------
(***************************************************************************)
(* The dynamic array and the algorithms on arrays: array.c, the sliding    *)
(* window of queue.c and the heapsort of heap.c.  Indices start at 1; the  *)
(* answer 0 stands for an index of -1.                                     *)
(***************************************************************************)
EXTENDS Integers, SequencesExt

CONSTANTS Vals, MaxSize     \* bound on the entries pushed

VARIABLES data, capacity

vars == <<data, capacity>>

\* array_create with room for one value; with room for none, doubling in
\* array_push would add none.
Init == data = <<>> /\ capacity = 1

Push(v) ==
  /\ Len(data) < MaxSize
  /\ data' = Append(data, v)
  /\ capacity' = IF Len(data) = capacity THEN 2 * capacity ELSE capacity

Pop ==
  /\ data # <<>>
  /\ data' = Front(data)
  /\ UNCHANGED capacity

Write(i, v) ==
  /\ i \in DOMAIN data
  /\ data' = [data EXCEPT ![i] = v]
  /\ UNCHANGED capacity

Next == Pop \/ \E v \in Vals : Push(v) \/ \E i \in 1 .. MaxSize : Write(i, v)

\* array_binary_search in a[lo .. hi].
RECURSIVE Search(_, _, _, _)
Search(a, target, lo, hi) ==
  LET mid == lo + (hi - lo) \div 2
  IN  IF lo > hi THEN 0
      ELSE IF a[mid] = target THEN mid
      ELSE IF a[mid] < target THEN Search(a, target, mid + 1, hi)
      ELSE Search(a, target, lo, mid - 1)

BinarySearch(a, target) == Search(a, target, 1, Len(a))

\* array_two_pointer_pair: the pair of indices, or none.
RECURSIVE Pair(_, _, _, _)
Pair(a, target, lo, hi) ==
  IF lo >= hi THEN <<>>
  ELSE IF a[lo] + a[hi] = target THEN <<lo, hi>>
  ELSE IF a[lo] + a[hi] < target THEN Pair(a, target, lo + 1, hi)
  ELSE Pair(a, target, lo, hi - 1)

TwoPointerPair(a, target) == Pair(a, target, 1, Len(a))

\* Both sliding windows.  dq[i] holds the indices in the deque once i is in:
\* those that have left the window go at the front, those with a smaller value
\* at the back; queue.c drops equal values, too, array.c does not.
SlidingWindowMax(a, k, dropsEqual) ==
  LET dominated(v, w) == v < w \/ (dropsEqual /\ v = w)
      expired(q, i) == SelectSeq(q, LAMBDA j : j >= i - k + 1)
      kept(q, i) ==
        LET safe == {p \in DOMAIN q : ~dominated(a[q[p]], a[i])}
        IN  SubSeq(q, 1, CHOOSE p \in safe \cup {0} : \A r \in safe : r <= p)
      dq[i \in 0 .. Len(a)] ==
        IF i = 0 THEN <<>> ELSE Append(kept(expired(dq[i - 1], i), i), i)
  IN  IF k \in 1 .. Len(a)
      THEN [j \in 1 .. Len(a) - k + 1 |-> a[Head(dq[j + k - 1])]] ELSE <<>>

\* array_prefix_sum_build and array_prefix_sum_query
PrefixSums(a) ==
  LET prefix[i \in 1 .. Len(a) + 1] == IF i = 1 THEN 0 ELSE prefix[i - 1] + a[i - 1]
  IN  prefix

\* Mutant: the sum is one entry short.
PrefixSumShort(prefix, l, r) == prefix[r] - prefix[l]

PrefixSumQuery(prefix, l, r) == prefix[r + 1] - prefix[l]

Exchanged(a, i, j) == [a EXCEPT ![i] = a[j], ![j] = a[i]]

\* sift_down_arr on the first n entries.
RECURSIVE SiftDownArr(_, _, _)
SiftDownArr(a, n, i) ==
  LET kids == {c \in {2 * i, 2 * i + 1} : c <= n /\ a[c] > a[i]}
      best == CHOOSE c \in kids : \A d \in kids : a[c] > a[d] \/ (a[c] = a[d] /\ c <= d)
  IN  IF kids = {} THEN a ELSE SiftDownArr(Exchanged(a, i, best), n, best)

Heapsort(a) ==
  LET heap[i \in 1 .. Len(a) \div 2 + 1] ==
        IF i > Len(a) \div 2 THEN a ELSE SiftDownArr(heap[i + 1], Len(a), i)
      rest[i \in 1 .. Len(a)] ==
        IF i = Len(a) THEN heap[1]
        ELSE SiftDownArr(Exchanged(rest[i + 1], 1, i + 1), i, 1)
  IN  IF a = <<>> THEN a ELSE rest[1]
===========================================================================
