---------------------------- MODULE LinkedList ----------------------------
(***************************************************************************)
(* The singly linked list (linked_list.c).  Null ends a list.  The two     *)
(* pointers that walk a list at different speeds, which find its middle,   *)
(* split it for the merge sort and detect a cycle, are recursive functions *)
(* of where the pointers stand.                                            *)
(***************************************************************************)
EXTENDS Integers, SequencesExt

CONSTANTS Vals, MaxNodes   \* bound: no more nodes are allocated at once

VARIABLES head, next, val, size, call

vars == <<head, next, val, size, call>>

Called(op, arg, answer) == call' = [op |-> op, arg |-> arg, answer |-> answer]

Null == 0

Nodes == 1 .. MaxNodes

\* A node that is not allocated has val 0 and no successor.
Free == {n \in Nodes : val[n] = 0}

New == CHOOSE n \in Free : TRUE

Init ==
  /\ head = Null
  /\ next = [n \in Nodes |-> Null]
  /\ val = [n \in Nodes |-> 0]
  /\ size = 0
  /\ call = [op |-> "create", arg |-> 0, answer |-> 0]

PushFront(v) ==
  /\ Free # {}
  /\ next' = [next EXCEPT ![New] = head]
  /\ head' = New
  /\ val' = [val EXCEPT ![New] = v]
  /\ size' = size + 1
  /\ Called("push_front", v, 1)

\* The last node, for a list that is not empty.
LastNode == CHOOSE n \in Nodes \ Free : next[n] = Null

PushBack(v) ==
  /\ Free # {}
  /\ \/ head = Null /\ head' = New /\ UNCHANGED next
     \/ head # Null /\ next' = [next EXCEPT ![LastNode] = New] /\ UNCHANGED head
  /\ val' = [val EXCEPT ![New] = v]
  /\ size' = size + 1
  /\ Called("push_back", v, 1)

Freed(n) == val' = [val EXCEPT ![n] = 0]

PopFront ==
  /\ head # Null
  /\ head' = next[head]
  /\ next' = [next EXCEPT ![head] = Null]
  /\ Freed(head)
  /\ size' = size - 1
  /\ Called("pop_front", 0, val[head])

\* The nodes from n on.
From(n) ==
  LET from[m \in 0 .. MaxNodes] == IF m = Null THEN <<>> ELSE <<m>> \o from[next[m]]
  IN  from[n]

\* ll_delete: the link that leads to the first node with v, head or next, is
\* set past that node.
Delete(v) ==
  LET walk == From(head)
      place == SelectInSeq(walk, LAMBDA n : val[n] = v)
      node == walk[place]
  IN  /\ \/ /\ place = 1
            /\ head' = next[node]
            /\ next' = [next EXCEPT ![node] = Null]
         \/ /\ place > 1
            /\ next' = [next EXCEPT ![walk[place - 1]] = next[node], ![node] = Null]
            /\ UNCHANGED head
         \/ /\ place = 0
            /\ UNCHANGED <<head, next>>
      /\ \/ place = 0 /\ UNCHANGED <<val, size>>
         \/ place # 0 /\ Freed(node) /\ size' = size - 1
      /\ Called("delete", v, 0)

\* The loop of ll_reverse, with the nodes before cur already turned.
RECURSIVE Turned(_, _, _)
Turned(nx, prev, cur) ==
  IF cur = Null THEN [head |-> prev, next |-> nx]
  ELSE Turned([nx EXCEPT ![cur] = prev], cur, nx[cur])

Reversal ==
  LET turned == Turned(next, Null, head)
  IN  /\ head' = turned.head
      /\ next' = turned.next
      /\ Called("reverse", 0, 0)
      /\ UNCHANGED <<val, size>>

Step(nx, n) == IF n = Null THEN Null ELSE nx[n]

\* Where the slow pointer is when the fast one, two steps at a time, has run
\* into the end.
RECURSIVE Halfway(_, _, _)
Halfway(nx, slow, fast) ==
  IF Step(nx, fast) = Null THEN slow
  ELSE Halfway(nx, nx[slow], nx[nx[fast]])

\* ll_merge_sorted, on the nodes of two sorted lists.
RECURSIVE Merged(_, _)
Merged(a, b) ==
  IF a = <<>> \/ b = <<>> THEN a \o b
  ELSE IF val[Head(a)] <= val[Head(b)] THEN <<Head(a)>> \o Merged(Tail(a), b)
  ELSE <<Head(b)>> \o Merged(a, Tail(b))

\* merge_sort_node, on the nodes of a list, linked in their order.
RECURSIVE Sorted(_)
Sorted(s) ==
  IF Len(s) < 2 THEN s
  ELSE
    LET nx == [n \in Nodes |-> IF n = Last(s) THEN Null ELSE next[n]]
        mid == SelectInSeq(s, LAMBDA n : n = Halfway(nx, s[1], s[2]))
        first == Sorted(SubSeq(s, 1, mid))
        second == Sorted(SubSeq(s, mid + 1, Len(s)))
    IN  Merged(first, second)

MergeSort ==
  LET s == Sorted(From(head))
  IN  /\ head' = IF s = <<>> THEN Null ELSE s[1]
      /\ next' = [n \in Nodes |->
           LET i == SelectInSeq(s, LAMBDA m : m = n)
           IN  IF i \in 1 .. Len(s) - 1 THEN s[i + 1] ELSE Null]
      /\ Called("merge_sort", 0, 0)
      /\ UNCHANGED <<val, size>>

Next ==
  \/ \E v \in Vals : PushFront(v) \/ PushBack(v) \/ Delete(v)
  \/ PopFront \/ Reversal \/ MergeSort

Spec == Init /\ [][Next]_vars

Items == [i \in DOMAIN From(head) |-> val[From(head)[i]]]

\* ll_find_middle
Middle == Halfway(next, head, head)

\* ll_has_cycle, on any pointers nx: slow and fast meet again.
RECURSIVE Meet(_, _, _)
Meet(nx, slow, fast) ==
  IF Step(nx, fast) = Null THEN FALSE
  ELSE LET s == nx[slow]
           f == nx[nx[fast]]
       IN  s = f \/ Meet(nx, s, f)

HasCycle(nx, first) == Meet(nx, first, first)
===========================================================================
