----------------------------- MODULE Sequence -----------------------------
(***************************************************************************)
(* What the queues and lists of the library promise: calls on a sequence   *)
(* of items, and what they answer.  call is the last call: its name, its   *)
(* argument and its answer; 1 and 0 stand for true and false, and a call   *)
(* without a result answers 0.                                             *)
(***************************************************************************)
EXTENDS Integers, SequencesExt

CONSTANTS Vals, Capacity

VARIABLES items, call

vars == <<items, call>>

Called(op, arg, answer) == call' = [op |-> op, arg |-> arg, answer |-> answer]

Init ==
  /\ items = <<>>
  /\ call = [op |-> "create", arg |-> 0, answer |-> 0]

PushFront(v) ==
  \/ /\ Len(items) < Capacity
     /\ items' = <<v>> \o items
     /\ Called("push_front", v, 1)
  \/ /\ Len(items) = Capacity
     /\ Called("push_front", v, 0)
     /\ UNCHANGED items

PushBack(v) ==
  \/ /\ Len(items) < Capacity
     /\ items' = Append(items, v)
     /\ Called("push_back", v, 1)
  \/ /\ Len(items) = Capacity
     /\ Called("push_back", v, 0)
     /\ UNCHANGED items

PopFront ==
  /\ items # <<>>
  /\ items' = Tail(items)
  /\ Called("pop_front", 0, Head(items))

PopBack ==
  /\ items # <<>>
  /\ items' = Front(items)
  /\ Called("pop_back", 0, Last(items))

\* The first occurrence of v goes, if there is one.
Delete(v) ==
  /\ items' = IF Contains(items, v)
              THEN RemoveAt(items, SelectInSeq(items, LAMBDA w : w = v)) ELSE items
  /\ Called("delete", v, 0)

DeleteAt(i) ==
  /\ i \in DOMAIN items
  /\ items' = RemoveAt(items, i)
  /\ Called("delete_at", i, 0)

MoveToFront(i) ==
  /\ i \in DOMAIN items
  /\ items' = <<items[i]>> \o RemoveAt(items, i)
  /\ Called("move_to_front", i, 0)

\* A cache of max entries, most recently used first: a hit moves its entry to
\* the front; a miss adds one there, and past max the last entry is evicted.
Access(v, max) ==
  \/ /\ Contains(items, v)
     /\ items' = <<v>> \o RemoveAt(items, SelectInSeq(items, LAMBDA w : w = v))
     /\ Called("access", v, -1)
  \/ /\ ~Contains(items, v)
     /\ Len(items) < max
     /\ items' = <<v>> \o items
     /\ Called("access", v, -1)
  \/ /\ ~Contains(items, v)
     /\ Len(items) >= max
     /\ items' = Front(<<v>> \o items)
     /\ Called("access", v, Last(<<v>> \o items))

Reversal ==
  /\ items' = Reverse(items)
  /\ Called("reverse", 0, 0)

Sorting ==
  /\ items' = SortSeq(items, <)
  /\ Called("merge_sort", 0, 0)

Next ==
  \/ \E v \in Vals : PushFront(v) \/ PushBack(v) \/ Delete(v)
  \/ PopFront \/ PopBack \/ Reversal \/ Sorting
  \/ \E i \in 1 .. Capacity : DeleteAt(i) \/ MoveToFront(i)
  \/ \E v \in Vals, max \in 0 .. Capacity : Access(v, max)

Spec == Init /\ [][Next]_vars
===========================================================================
