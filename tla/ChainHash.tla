----------------------------- MODULE ChainHash -----------------------------
(***************************************************************************)
(* The chaining hash table (hash_table.c).  A bucket is the sequence of    *)
(* its entries from the head of the chain; new entries go to the head, and *)
(* a table that has reached its load factor is rebuilt with twice as many  *)
(* buckets before an insertion looks for its key.                          *)
(***************************************************************************)
EXTENDS Naturals, FiniteSets, SequencesExt

CONSTANTS
  Keys, Vals,
  Hash,           \* what hash_int makes of a key before it reduces it
  Capacity        \* buckets at the start

VARIABLES buckets, size, call

vars == <<buckets, size, call>>

Called(op, k, v, answer) == call' = [op |-> op, key |-> k, val |-> v, answer |-> answer]

BucketOf(k, cap) == Hash[k] % cap

Init ==
  /\ buckets = [i \in 0 .. Capacity - 1 |-> <<>>]
  /\ size = 0
  /\ call = [op |-> "create", key |-> 0, val |-> 0, answer |-> TRUE]

\* The buckets after ht_resize: it takes the chains in turn, each from its
\* head, and puts every entry at the head of its new chain.
Resized ==
  LET cap == 2 * Cardinality(DOMAIN buckets)
      entries == FlattenSeq([i \in 1 .. cap \div 2 |-> buckets[i - 1]])
  IN  [b \in 0 .. cap - 1 |->
         Reverse(SelectSeq(entries, LAMBDA e : BucketOf(e.key, cap) = b))]

Positions(chain, k) == {p \in DOMAIN chain : chain[p].key = k}

First(S) == CHOOSE p \in S : \A q \in S : p <= q

Crowded == 4 * size >= 3 * Cardinality(DOMAIN buckets)

\* Mutant: the entry that is found keeps its value.
InsertUnwritten(k, v) ==
  LET table == IF Crowded THEN Resized ELSE buckets
      b == BucketOf(k, Cardinality(DOMAIN table))
      found == Positions(table[b], k)
  IN  /\ \/ /\ found # {}
            /\ buckets' = table
            /\ UNCHANGED size
         \/ /\ found = {}
            /\ buckets' = [table EXCEPT ![b] = <<[key |-> k, val |-> v]>> \o @]
            /\ size' = size + 1
      /\ Called("insert", k, v, TRUE)

Insert(k, v) ==
  LET table == IF Crowded THEN Resized ELSE buckets
      b == BucketOf(k, Cardinality(DOMAIN table))
      found == Positions(table[b], k)
  IN  /\ \/ /\ found # {}
            /\ buckets' = [table EXCEPT ![b][First(found)].val = v]
            /\ UNCHANGED size
         \/ /\ found = {}
            /\ buckets' = [table EXCEPT ![b] = <<[key |-> k, val |-> v]>> \o @]
            /\ size' = size + 1
      /\ Called("insert", k, v, TRUE)

Delete(k) ==
  LET b == BucketOf(k, Cardinality(DOMAIN buckets))
      found == Positions(buckets[b], k)
  IN  /\ Called("delete", k, 0, found # {})
      /\ \/ /\ found # {}
            /\ buckets' = [buckets EXCEPT ![b] = RemoveAt(@, First(found))]
            /\ size' = size - 1
         \/ /\ found = {}
            /\ UNCHANGED <<buckets, size>>

Next == \E k \in Keys : Delete(k) \/ \E v \in Vals : Insert(k, v)

Spec == Init /\ [][Next]_vars

\* ht_get: the entries it answers from, none or the first of the chain.
Contents ==
  LET chain(k) == buckets[BucketOf(k, Cardinality(DOMAIN buckets))]
  IN  [k \in {j \in Keys : Positions(chain(j), j) # {}} |->
         chain(k)[First(Positions(chain(k), k))].val]
===========================================================================
