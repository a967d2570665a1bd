------------------------------ MODULE OpenHash -------------------------------
(***************************************************************************)
(* The open-addressing table of src/hash/hash_table.c: linear probing and  *)
(* tombstones.  A probe loop is over in one step; the index it stops at is *)
(* the least one that meets its conditions.                                *)
(*                                                                         *)
(* contents and careful are history variables: what the caller put in and  *)
(* did not delete, and whether it has so far never updated a key it holds  *)
(* while the table had a tombstone.                                        *)
(***************************************************************************)
EXTENDS Integers, FiniteSets

CONSTANTS
  Keys, Values,
  NotFound,   \* what oaht_get answers for false
  Junk,       \* what malloc leaves in keys and vals
  Capacity,   \* ht->capacity
  Hash        \* Hash[k]: hash_int(k, capacity)

Slots == 0 .. Capacity - 1

ASSUME CapacityAssumption == Capacity \in Nat \ {0}
ASSUME HashAssumption == Hash \in [Keys -> Slots]
ASSUME ValuesAssumption == NotFound \notin Values

VARIABLES
  keys, vals, used, deleted,  \* the arrays
  size,
  contents,  \* history: contents[k], the value put for k, or NotFound
  careful    \* history

table == <<keys, vals, used, deleted, size>>
vars == <<table, contents, careful>>

Init ==
  /\ keys = [s \in Slots |-> Junk] /\ vals = [s \in Slots |-> Junk]
  /\ used = [s \in Slots |-> FALSE] /\ deleted = [s \in Slots |-> FALSE]
  /\ size = 0
  /\ contents = [k \in Keys |-> NotFound]
  /\ careful = TRUE
------------------------------------------------------------------------------
Live(s) == used[s] /\ ~deleted[s]
Holds(s, k) == Live(s) /\ keys[s] = k

\* The slot probed for k in turn i of a loop.
Probe(k, i) == (Hash[k] + i) % Capacity

First(I) == CHOOSE i \in I : \A j \in I : i <= j

\* Mutant: a search takes a deleted entry for a live one.
FindStopsAtDead(k) ==
  {i \in Slots : ~used[Probe(k, i)] \/ keys[Probe(k, i)] = k}

\* Mutant: an insertion does not look for the key itself.
InsertStopsAtFree(k) == {i \in Slots : ~Live(Probe(k, i))}

\* Where oaht_get and oaht_delete stop, and where oaht_insert does.
FindStops(k) == {i \in Slots : ~used[Probe(k, i)] \/ Holds(Probe(k, i), k)}
InsertStops(k) == {i \in Slots : ~Live(Probe(k, i)) \/ Holds(Probe(k, i), k)}

FoundAt(k) == Probe(k, First(FindStops(k)))
InsertAt(k) == Probe(k, First(InsertStops(k)))

Found(k) == FindStops(k) # {} /\ used[FoundAt(k)]

Get(k) == IF Found(k) THEN vals[FoundAt(k)] ELSE NotFound

Tombstones == {s \in Slots : used[s] /\ deleted[s]}

HistoryOfInsert(k, v) ==
  /\ contents' = [contents EXCEPT ![k] = v]
  /\ careful' = (careful /\ (contents[k] = NotFound \/ Tombstones = {}))

InsertNew(k, v) ==
  /\ InsertStops(k) # {}
  /\ ~Live(InsertAt(k))
  /\ keys' = [keys EXCEPT ![InsertAt(k)] = k]
  /\ vals' = [vals EXCEPT ![InsertAt(k)] = v]
  /\ used' = [used EXCEPT ![InsertAt(k)] = TRUE]
  /\ deleted' = [deleted EXCEPT ![InsertAt(k)] = FALSE]
  /\ size' = size + 1
  /\ HistoryOfInsert(k, v)

InsertUpdate(k, v) ==
  /\ InsertStops(k) # {}
  /\ Live(InsertAt(k))
  /\ vals' = [vals EXCEPT ![InsertAt(k)] = v]
  /\ UNCHANGED <<keys, used, deleted, size>>
  /\ HistoryOfInsert(k, v)

InsertRefused(k) ==
  /\ InsertStops(k) = {}
  /\ UNCHANGED vars

\* Mutant: a deletion frees the slot instead of leaving a tombstone.
DeleteFrees(k) ==
  /\ IF Found(k)
     THEN /\ used' = [used EXCEPT ![FoundAt(k)] = FALSE]
          /\ size' = size - 1
     ELSE UNCHANGED <<used, size>>
  /\ contents' = [contents EXCEPT ![k] = NotFound]
  /\ UNCHANGED <<keys, vals, deleted, careful>>

\* Mutant: a deletion counts down although it found nothing.
DeleteAlwaysCounts(k) ==
  /\ deleted' = IF Found(k) THEN [deleted EXCEPT ![FoundAt(k)] = TRUE] ELSE deleted
  /\ size' = size - 1
  /\ contents' = [contents EXCEPT ![k] = NotFound]
  /\ UNCHANGED <<keys, vals, used, careful>>

Delete(k) ==
  /\ IF Found(k)
     THEN /\ deleted' = [deleted EXCEPT ![FoundAt(k)] = TRUE]
          /\ size' = size - 1
     ELSE UNCHANGED <<deleted, size>>
  /\ contents' = [contents EXCEPT ![k] = NotFound]
  /\ UNCHANGED <<keys, vals, used, careful>>

Next ==
  \E k \in Keys :
    \/ \E v \in Values : InsertNew(k, v) \/ InsertUpdate(k, v)
    \/ InsertRefused(k)
    \/ Delete(k)

Spec == Init /\ [][Next]_vars
------------------------------------------------------------------------------
TypeOK ==
  /\ keys \in [Slots -> Keys \cup {Junk}]
  /\ vals \in [Slots -> Values \cup {Junk}]
  /\ used \in [Slots -> BOOLEAN] /\ deleted \in [Slots -> BOOLEAN]
  /\ size \in Int
  /\ contents \in [Keys -> Values \cup {NotFound}]
  /\ careful \in BOOLEAN
  /\ \A s \in Slots : used[s] => keys[s] \in Keys /\ vals[s] \in Values
  /\ \A s \in Slots : deleted[s] => used[s]

\* No live entry is cut off: a probe for its key meets no free slot before it,
\* whatever was deleted and reused since it was put there.
ProbeReachable ==
  \A s \in Slots : Live(s) =>
    \A i \in Slots : (\A j \in 0 .. i : Probe(keys[s], j) # s)
                       => used[Probe(keys[s], i)]

\* A value put and not deleted is the one read, also when a tombstone made
\* the table keep an older copy of the key.
PutIsRead == \A k \in Keys : contents[k] # NotFound => Get(k) = contents[k]

\* size counts the live slots and never wraps around below zero.
SizeCountsSlots == size = Cardinality({s \in Slots : Live(s)})

\* A careful caller, who updates no held key while there are tombstones, has
\* an exact table: no key has two copies, and what it deleted is gone.
CarefulIsExact ==
  careful => /\ \A s, t \in Slots : Live(s) /\ Live(t) /\ keys[s] = keys[t] => s = t
             /\ \A k \in Keys : Get(k) = contents[k]
==============================================================================
