---------------------------- MODULE CuckooHash ----------------------------
(***************************************************************************)
(* The cuckoo hash (cuckoo_hash.c).  An insertion puts its pair into table *)
(* 1, moves the pair that was there into table 2, takes the one it pushes  *)
(* out there back to table 1, and gives up after MaxKicks rounds.          *)
(*                                                                         *)
(* cuckoo_insert never looks for the key it is given.  careful remembers   *)
(* that no insertion so far was of a key that was held, the calls under    *)
(* which the table is a (lossy) dictionary.                                *)
(***************************************************************************)
EXTENDS Integers

CONSTANTS
  Keys, Vals,
  Hash1, Hash2,   \* what h1 and h2 make of a key before they reduce it
  Capacity,       \* slots per table
  MaxKicks,       \* CUCKOO_MAX_KICKS
  MaxCount        \* bound on size, which repeated insertions drive up

VARIABLES table1, table2, size, careful, call

vars == <<table1, table2, size, careful, call>>

Called(op, k, v, answer) == call' = [op |-> op, key |-> k, val |-> v, answer |-> answer]

CUCKOO_EMPTY == -1

Empty == [key |-> CUCKOO_EMPTY, val |-> 0]

Slot1(k) == Hash1[k] % Capacity
Slot2(k) == Hash2[k] % Capacity

Init ==
  /\ table1 = [s \in 0 .. Capacity - 1 |-> Empty]
  /\ table2 = table1
  /\ size = 0
  /\ careful = TRUE
  /\ call = [op |-> "create", key |-> 0, val |-> 0, answer |-> TRUE]

\* cuckoo_get: table 1 first.
Holders(k) == {e \in {table1[Slot1(k)], table2[Slot2(k)]} : e.key = k}

Get(k) ==
  IF table1[Slot1(k)].key = k THEN table1[Slot1(k)].val ELSE table2[Slot2(k)].val

Contents == [k \in {j \in Keys : Holders(j) # {}} |-> Get(k)]

Takes(e, slot) == slot.key \in {CUCKOO_EMPTY, e.key}

\* The loop of cuckoo_insert: t1 and t2 are the tables, e the pair in hand.
RECURSIVE Placed(_, _, _, _)
Placed(t1, t2, e, kicks) ==
  IF kicks = 0 THEN [t1 |-> t1, t2 |-> t2, done |-> FALSE]
  ELSE
    LET out1 == t1[Slot1(e.key)]
        new1 == [t1 EXCEPT ![Slot1(e.key)] = e]
        out2 == t2[Slot2(out1.key)]
        new2 == [t2 EXCEPT ![Slot2(out1.key)] = out1]
    IN  IF Takes(e, out1) THEN [t1 |-> new1, t2 |-> t2, done |-> TRUE]
        ELSE IF Takes(out1, out2) THEN [t1 |-> new1, t2 |-> new2, done |-> TRUE]
        ELSE Placed(new1, new2, out2, kicks - 1)

\* Mutant: a pair is counted although the insertion gave up.
InsertCounted(k, v) ==
  LET after == Placed(table1, table2, [key |-> k, val |-> v], MaxKicks)
  IN  /\ size < MaxCount
      /\ table1' = after.t1
      /\ table2' = after.t2
      /\ Called("insert", k, v, after.done)
      /\ size' = size + 1
      /\ careful' = (careful /\ Holders(k) = {})

Insert(k, v) ==
  LET after == Placed(table1, table2, [key |-> k, val |-> v], MaxKicks)
  IN  /\ size < MaxCount
      /\ table1' = after.t1
      /\ table2' = after.t2
      /\ Called("insert", k, v, after.done)
      /\ size' = IF after.done THEN size + 1 ELSE size
      /\ careful' = (careful /\ Holders(k) = {})

Delete(k) ==
  \/ /\ table1[Slot1(k)].key = k
     /\ table1' = [table1 EXCEPT ![Slot1(k)] = Empty]
     /\ size' = size - 1
     /\ Called("delete", k, 0, TRUE)
     /\ UNCHANGED <<table2, careful>>
  \/ /\ table1[Slot1(k)].key # k
     /\ table2[Slot2(k)].key = k
     /\ table2' = [table2 EXCEPT ![Slot2(k)] = Empty]
     /\ size' = size - 1
     /\ Called("delete", k, 0, TRUE)
     /\ UNCHANGED <<table1, careful>>
  \/ /\ Holders(k) = {}
     /\ Called("delete", k, 0, FALSE)
     /\ UNCHANGED <<table1, table2, size, careful>>

Next == \E k \in Keys : Delete(k) \/ \E v \in Vals : Insert(k, v)

Spec == Init /\ [][Next]_vars
===========================================================================
