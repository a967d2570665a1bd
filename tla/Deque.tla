------------------------------- MODULE Deque -------------------------------
(***************************************************************************)
(* The double-ended queue (queue.c).  back starts at -1, outside the       *)
(* array, and only a push or pop at the back brings it inside: the first   *)
(* pop at the back after pushes at the front reads what lies before the    *)
(* array, any value.                                                       *)
(***************************************************************************)
EXTENDS Integers

CONSTANTS Vals, Capacity

VARIABLES data, front, back, size, call

vars == <<data, front, back, size, call>>

Called(op, arg, answer) == call' = [op |-> op, arg |-> arg, answer |-> answer]

Init ==
  /\ data = [s \in 0 .. Capacity - 1 |-> 0]
  /\ front = 0 /\ back = -1 /\ size = 0
  /\ call = [op |-> "create", arg |-> 0, answer |-> 0]

Up(i) == (i + 1) % Capacity
Down(i) == (i - 1 + Capacity) % Capacity

Refuse(op, v) ==
  /\ size = Capacity
  /\ Called(op, v, 0)
  /\ UNCHANGED <<data, front, back, size>>

PushBack(v) ==
  \/ Refuse("push_back", v)
  \/ /\ size # Capacity
     /\ back' = Up(back)
     /\ data' = [data EXCEPT ![back'] = v]
     /\ size' = size + 1
     /\ Called("push_back", v, 1)
     /\ UNCHANGED front

PushFront(v) ==
  \/ Refuse("push_front", v)
  \/ /\ size # Capacity
     /\ front' = Down(front)
     /\ data' = [data EXCEPT ![front'] = v]
     /\ size' = size + 1
     /\ Called("push_front", v, 1)
     /\ UNCHANGED back

PopFront ==
  /\ size > 0
  /\ front' = Up(front)
  /\ size' = size - 1
  /\ Called("pop_front", 0, data[front])
  /\ UNCHANGED <<data, back>>

\* What data[back] may be: deque_back and deque_pop_back read it.
AtBack == IF back \in DOMAIN data THEN {data[back]} ELSE {0} \cup Vals

PopBack ==
  /\ size > 0
  /\ back' = Down(back)
  /\ size' = size - 1
  /\ \E v \in AtBack : Called("pop_back", 0, v)
  /\ UNCHANGED <<data, front>>

Next == PopFront \/ PopBack \/ \E v \in Vals : PushFront(v) \/ PushBack(v)

Spec == Init /\ [][Next]_vars

Items == [i \in 1 .. size |-> data[(front + i - 1) % Capacity]]
===========================================================================
