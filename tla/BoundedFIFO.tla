----------------------------- MODULE BoundedFIFO -----------------------------
(***************************************************************************)
(* What the ring buffer promises its two threads: a first-in first-out     *)
(* queue of at most Capacity values.  A refused call changes nothing, so   *)
(* it is a stuttering step here.                                           *)
(***************************************************************************)
EXTENDS Naturals, Sequences

CONSTANTS
  Values,    \* the values a producer may hand in
  Capacity,  \* the most values the queue may hold
  Nothing    \* what stands for no value yet

VARIABLES
  queue,     \* the values handed in and not yet taken, oldest first
  given,     \* the value the producer put last
  taken      \* the value the consumer took last

fifoVars == <<queue, given, taken>>

Init ==
  /\ queue = <<>>
  /\ given = Nothing
  /\ taken = Nothing

Put(v) ==
  /\ Len(queue) < Capacity
  /\ queue' = Append(queue, v)
  /\ given' = v
  /\ UNCHANGED taken

Take ==
  /\ queue # <<>>
  /\ taken' = Head(queue)
  /\ queue' = Tail(queue)
  /\ UNCHANGED given

Next == (\E v \in Values : Put(v)) \/ Take

Spec == Init /\ [][Next]_fifoVars
==============================================================================
