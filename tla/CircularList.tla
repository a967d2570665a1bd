--------------------------- MODULE CircularList ---------------------------
(***************************************************************************)
(* The circular list with a sentinel, and the LRU cache on it              *)
(* (circular_list.c).  Node 0 is the sentinel.  A pop of an empty list     *)
(* fails an assertion; the callers do not.                                 *)
(***************************************************************************)
EXTENDS Integers, Sequences

CONSTANTS Vals, MaxNodes   \* bound: no more nodes are allocated at once

VARIABLES next, prev, val, size, call

vars == <<next, prev, val, size, call>>

Called(op, arg, answer) == call' = [op |-> op, arg |-> arg, answer |-> answer]

Sentinel == 0

Nodes == 1 .. MaxNodes

\* A node that is not allocated has val 0 and points to itself.
Free == {n \in Nodes : val[n] = 0}

\* The node malloc returns; which of the free ones it is makes no difference.
New == CHOOSE n \in Free : TRUE

Init ==
  /\ next = [n \in 0 .. MaxNodes |-> n]
  /\ prev = next
  /\ val = [n \in 0 .. MaxNodes |-> 0]
  /\ size = 0
  /\ call = [op |-> "create", arg |-> 0, answer |-> 0]

\* _unlink, on the pointers ptr: the neighbours of n point past it.
Unlinked(ptr, n) ==
  LET step1 == [ptr EXCEPT !.next[ptr.prev[n]] = ptr.next[n]]
  IN  [step1 EXCEPT !.prev[step1.next[n]] = step1.prev[n]]

\* _insert_between, of n between the sentinel and its successor.
InsertedFirst(ptr, n) ==
  LET after == ptr.next[Sentinel]
  IN  [next |-> [ptr.next EXCEPT ![n] = after, ![Sentinel] = n],
       prev |-> [ptr.prev EXCEPT ![after] = n, ![n] = Sentinel]]

\* Mutant: the sentinel still points back to the node that was the last.
InsertedLastForgotten(ptr, n) ==
  LET before == ptr.prev[Sentinel]
  IN  [next |-> [ptr.next EXCEPT ![n] = Sentinel, ![before] = n],
       prev |-> [ptr.prev EXCEPT ![n] = before]]

\* _insert_between, of n between the last node and the sentinel.
InsertedLast(ptr, n) ==
  LET before == ptr.prev[Sentinel]
  IN  [next |-> [ptr.next EXCEPT ![n] = Sentinel, ![before] = n],
       prev |-> [ptr.prev EXCEPT ![Sentinel] = n, ![n] = before]]

Pointers == [next |-> next, prev |-> prev]

Freed(ptr, n) == [next |-> [ptr.next EXCEPT ![n] = n], prev |-> [ptr.prev EXCEPT ![n] = n]]

Set(ptr) ==
  /\ next' = ptr.next
  /\ prev' = ptr.prev

PushFront(v) ==
  /\ Free # {}
  /\ Set(InsertedFirst(Pointers, New))
  /\ val' = [val EXCEPT ![New] = v]
  /\ size' = size + 1
  /\ Called("push_front", v, 1)

PushBack(v) ==
  /\ Free # {}
  /\ Set(InsertedLast(Pointers, New))
  /\ val' = [val EXCEPT ![New] = v]
  /\ size' = size + 1
  /\ Called("push_back", v, 1)

\* Node n is unlinked and freed.
Drop(n) ==
  /\ Set(Freed(Unlinked(Pointers, n), n))
  /\ val' = [val EXCEPT ![n] = 0]
  /\ size' = size - 1

PopFront ==
  /\ size > 0
  /\ Drop(next[Sentinel])
  /\ Called("pop_front", 0, val[next[Sentinel]])

PopBack ==
  /\ size > 0
  /\ Drop(prev[Sentinel])
  /\ Called("pop_back", 0, val[prev[Sentinel]])

\* The nodes in order, by their next pointers.  A node that is not allocated,
\* which a walk never meets, has none after it.
Walk ==
  LET from[n \in 0 .. MaxNodes] ==
        IF n \in Free \cup {Sentinel} THEN <<>> ELSE <<n>> \o from[next[n]]
  IN  from[next[Sentinel]]

\* clist_delete and clist_move_to_front of the node at place i.
DeleteAt(i) ==
  /\ Drop(Walk[i])
  /\ Called("delete_at", i, 0)

ToFront(n) == Set(InsertedFirst(Unlinked(Pointers, n), n))

MoveToFront(i) ==
  /\ ToFront(Walk[i])
  /\ Called("move_to_front", i, 0)
  /\ UNCHANGED <<val, size>>

\* clist_lru_access
Holding(v) == {i \in DOMAIN Walk : val[Walk[i]] = v}

AccessHit(v) ==
  \E i \in Holding(v) :
    /\ \A j \in Holding(v) : i <= j
    /\ ToFront(Walk[i])
    /\ Called("access", v, -1)
    /\ UNCHANGED <<val, size>>

\* A miss: the new node goes to the front and, if size has passed max, the
\* last node, which may be the new one, is popped.
AccessMiss(v, max) ==
  LET pushed == InsertedFirst(Pointers, New)
      last == pushed.prev[Sentinel]
      vals == [val EXCEPT ![New] = v]
  IN  /\ Holding(v) = {}
      /\ Free # {}
      /\ \/ /\ size + 1 > max
            /\ Set(Freed(Unlinked(pushed, last), last))
            /\ val' = [vals EXCEPT ![last] = 0]
            /\ Called("access", v, vals[last])
            /\ UNCHANGED size
         \/ /\ size + 1 <= max
            /\ Set(pushed)
            /\ val' = vals
            /\ size' = size + 1
            /\ Called("access", v, -1)

Next ==
  \/ \E v \in Vals : PushFront(v) \/ PushBack(v) \/ AccessHit(v)
  \/ \E v \in Vals, max \in 0 .. MaxNodes : AccessMiss(v, max)
  \/ PopFront \/ PopBack
  \/ \E i \in 1 .. size : DeleteAt(i) \/ MoveToFront(i)

Spec == Init /\ [][Next]_vars

Items == [i \in DOMAIN Walk |-> val[Walk[i]]]
===========================================================================
