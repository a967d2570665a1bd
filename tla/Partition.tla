------------------------------ MODULE Partition ------------------------------
(***************************************************************************)
(* What union-find promises: a partition of Node that starts discrete and  *)
(* only ever gets coarser, and truthful answers about it.                  *)
(***************************************************************************)
CONSTANT Node

VARIABLES
  block,   \* block[x]: the nodes united with x, x included
  answer   \* the last operation, its arguments and what it returned

partitionVars == <<block, answer>>

Init ==
  /\ block = [x \in Node |-> {x}]
  /\ answer = [op |-> "none", x |-> 0, y |-> 0, value |-> FALSE]

\* Returns whether the two blocks were different.
Unite(x, y) ==
  /\ answer' = [op |-> "union", x |-> x, y |-> y, value |-> block[x] # block[y]]
  /\ block' = [z \in Node |-> IF z \in block[x] \cup block[y]
                              THEN block[x] \cup block[y] ELSE block[z]]

Same(x, y) ==
  /\ answer' = [op |-> "connected", x |-> x, y |-> y, value |-> block[x] = block[y]]
  /\ UNCHANGED block

Next == \E x, y \in Node : Unite(x, y) \/ Same(x, y)

Spec == Init /\ [][Next]_partitionVars
==============================================================================
