---------------------------- MODULE Dictionary ----------------------------
(***************************************************************************)
(* What the dictionaries of the library promise: insert puts its value     *)
(* under its key, delete removes its key and says whether it was there,    *)
(* and size is the number of keys.  A lossy dictionary may also answer     *)
(* FALSE to an insertion; one pair, the new one or an old one, is then     *)
(* missing.  call is the last call: its name, key, value and answer.       *)
(***************************************************************************)
EXTENDS FiniteSets

CONSTANTS Keys, Vals

VARIABLES dict, size, call

vars == <<dict, size, call>>

Called(op, k, v, answer) == call' = [op |-> op, key |-> k, val |-> v, answer |-> answer]

With(k, v) == [j \in DOMAIN dict \cup {k} |-> IF j = k THEN v ELSE dict[j]]

Without(d, k) == [j \in DOMAIN d \ {k} |-> d[j]]

Init ==
  /\ dict = [j \in {} |-> 0]
  /\ size = 0
  /\ call = [op |-> "create", key |-> 0, val |-> 0, answer |-> TRUE]

Insert(k, v) ==
  /\ dict' = With(k, v)
  /\ Called("insert", k, v, TRUE)

Delete(k) ==
  /\ dict' = Without(dict, k)
  /\ Called("delete", k, 0, k \in DOMAIN dict)

\* An insertion that fails: the caller is told, and one key is gone.
InsertFails(k, v) ==
  /\ \E lost \in DOMAIN dict \cup {k} : dict' = Without(With(k, v), lost)
  /\ Called("insert", k, v, FALSE)

Next ==
  /\ \E k \in Keys : Delete(k) \/ \E v \in Vals : Insert(k, v)
  /\ size' = Cardinality(DOMAIN dict')

LossyNext ==
  \/ Next
  \/ /\ \E k \in Keys, v \in Vals : InsertFails(k, v)
     /\ size' = Cardinality(DOMAIN dict')

Spec == Init /\ [][Next]_vars
===========================================================================
