------------------------------- MODULE Queue -------------------------------
(***************************************************************************)
(* The circular FIFO queue (queue.c).  A dequeue of an empty queue fails   *)
(* an assertion; the callers do not.                                       *)
(***************************************************************************)
EXTENDS Naturals

CONSTANTS Vals, Capacity

VARIABLES data, head, tail, size, call

vars == <<data, head, tail, size, call>>

Called(op, arg, answer) == call' = [op |-> op, arg |-> arg, answer |-> answer]

\* data comes from malloc: zero stands for what is not initialized and not read.
Init ==
  /\ data = [s \in 0 .. Capacity - 1 |-> 0]
  /\ head = 0 /\ tail = 0 /\ size = 0
  /\ call = [op |-> "create", arg |-> 0, answer |-> 0]

Enqueue(v) ==
  \/ /\ size = Capacity
     /\ Called("push_back", v, 0)
     /\ UNCHANGED <<data, head, tail, size>>
  \/ /\ size # Capacity
     /\ data' = [data EXCEPT ![tail] = v]
     /\ tail' = (tail + 1) % Capacity
     /\ size' = size + 1
     /\ Called("push_back", v, 1)
     /\ UNCHANGED head

Dequeue ==
  /\ size > 0
  /\ head' = (head + 1) % Capacity
  /\ size' = size - 1
  /\ Called("pop_front", 0, data[head])
  /\ UNCHANGED <<data, tail>>

Next == Dequeue \/ \E v \in Vals : Enqueue(v)

Spec == Init /\ [][Next]_vars

Items == [i \in 1 .. size |-> data[(head + i - 1) % Capacity]]
===========================================================================
