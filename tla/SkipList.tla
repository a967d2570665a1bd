----------------------------- MODULE SkipList -----------------------------
(***************************************************************************)
(* The skip list (skip_list.c).  Nodes are named by their keys, since an   *)
(* insertion of a key that is held replaces its value.  The level of a new *)
(* node is random: any level may come out.                                 *)
(***************************************************************************)
EXTENDS Naturals, Sequences, FiniteSets

CONSTANTS
  MaxKey, Vals,
  MaxLevel        \* SKIP_MAX_LEVEL

VARIABLES
  forward,        \* forward[i][n]: the node after n in the chain of level i
  val,            \* the values of the nodes in the list
  curLevel, size, call

vars == <<forward, val, curLevel, size, call>>

Called(op, k, v, answer) == call' = [op |-> op, key |-> k, val |-> v, answer |-> answer]

Keys == 1 .. MaxKey

Header == 0             \* its key is below every key
Null == MaxKey + 1      \* no node: as if it held a key above every key

Init ==
  /\ forward = [i \in 1 .. MaxLevel |-> [n \in 0 .. MaxKey |-> Null]]
  /\ val = [n \in {} |-> 0]
  /\ curLevel = 1
  /\ size = 0
  /\ call = [op |-> "create", key |-> 0, val |-> 0, answer |-> TRUE]

\* update[] of sl_insert and sl_delete: the last node before k on each level,
\* walking from the top level down; Header above the levels in use.
Update(k) ==
  LET last[x \in (1 .. MaxLevel) \X (0 .. MaxKey)] ==
        LET after == forward[x[1]][x[2]]
        IN  IF after < k THEN last[<<x[1], after>>] ELSE x[2]
      update[i \in 1 .. MaxLevel + 1] ==
        IF i > curLevel THEN Header ELSE last[<<i, update[i + 1]>>]
  IN  update

\* The node sl_search, sl_insert and sl_delete stop at.
Reached(k) == forward[1][Update(k)[1]]

InsertUpdate(k, v) ==
  /\ Reached(k) = k
  /\ val' = [val EXCEPT ![k] = v]
  /\ Called("insert", k, v, TRUE)
  /\ UNCHANGED <<forward, curLevel, size>>

InsertNew(k, v) ==
  LET update == Update(k)
  IN  /\ Reached(k) # k
      /\ \E level \in 1 .. MaxLevel :
           /\ curLevel' = IF level > curLevel THEN level ELSE curLevel
           /\ forward' = [i \in 1 .. MaxLevel |->
                IF i > level THEN forward[i]
                ELSE [forward[i] EXCEPT ![k] = forward[i][update[i]], ![update[i]] = k]]
      /\ val' = [n \in DOMAIN val \cup {k} |-> IF n = k THEN v ELSE val[n]]
      /\ size' = size + 1
      /\ Called("insert", k, v, TRUE)

\* The levels of the loop that unlinks a node: it stops at the first level
\* where the node is not the next one.
Linked(k, update) ==
  {i \in 1 .. curLevel : \A j \in 1 .. i : forward[j][update[j]] = k}

\* The level in use after the loop that drops empty ones.
Shrunk(f) ==
  CHOOSE level \in 1 .. curLevel :
    /\ level = 1 \/ f[level][Header] # Null
    /\ \A i \in level + 1 .. curLevel : f[i][Header] = Null

Delete(k) ==
  LET update == Update(k)
      linked == Linked(k, update)
  IN  \/ /\ Reached(k) = k
         /\ forward' = [i \in 1 .. MaxLevel |->
              IF i \in linked
              THEN [forward[i] EXCEPT ![update[i]] = forward[i][k], ![k] = Null]
              ELSE forward[i]]
         /\ curLevel' = Shrunk(forward')
         /\ val' = [n \in DOMAIN val \ {k} |-> val[n]]
         /\ size' = size - 1
         /\ Called("delete", k, 0, TRUE)
      \/ /\ Reached(k) # k
         /\ Called("delete", k, 0, FALSE)
         /\ UNCHANGED <<forward, val, curLevel, size>>

Next ==
  \E k \in Keys : Delete(k) \/ \E v \in Vals : InsertUpdate(k, v) \/ InsertNew(k, v)

Spec == Init /\ [][Next]_vars

\* sl_search
Contents == [k \in {j \in Keys : Reached(j) = j} |-> val[k]]

\* The keys sl_range visits, in the order it visits them.
Range(lo, hi) ==
  LET walk[n \in Keys \cup {Null}] ==
        IF n > hi \/ n = Null THEN <<>> ELSE <<n>> \o walk[forward[1][n]]
  IN  walk[Reached(lo)]
===========================================================================
