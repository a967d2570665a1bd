------------------------------ MODULE LSMTree --------------------------------
(***************************************************************************)
(* src/specialized/lsm_tree.c: a log-structured merge tree.  Writes go to  *)
(* the memtable, a full memtable is flushed to level 0, and the caller     *)
(* compacts a level into the next one when it likes.                       *)
(*                                                                         *)
(* written is a history variable: the writes of every key, oldest first.   *)
(* The flag `sorted' of a level is left out: it is false only while the    *)
(* level is empty, and an empty level is skipped anyway.                   *)
(***************************************************************************)
EXTENDS Integers, Sequences, SequencesExt

CONSTANTS
  Keys,          \* the int keys; entry_cmp subtracts two of them, which must
                 \* not overflow
  Values,        \* the values put
  NotFound,      \* what lsm_get answers for false
  MemMax,        \* LSM_MEM_MAX
  LevelMax,      \* LSM_LEVEL_MAX
  FirstCapacity, \* FirstCapacity[l]: the initial capacity of level l, 64 << 2l
  MaxWrites      \* bound: the writes of a behaviour

ASSUME KeysAssumption == Keys \subseteq Int

Level == 0 .. LevelMax - 1

ASSUME SizesAssumption ==
  /\ MemMax \in Nat \ {0} /\ LevelMax \in Nat \ {0}
  /\ FirstCapacity \in [Level -> Nat] /\ MemMax <= FirstCapacity[0]
  /\ MaxWrites \in Nat

ASSUME NotFoundAssumption == NotFound \notin Values

VARIABLES
  mem,       \* t->mem[0 .. mem_count)
  levels,    \* levels[l]: t->levels[l]->entries[0 .. count)
  capacity,  \* capacity[l]: t->levels[l]->capacity
  written    \* history: written[k], the entries written for k

vars == <<mem, levels, capacity, written>>

Entry == [key : Keys, val : Values, deleted : {FALSE}]
           \cup [key : Keys, val : {0}, deleted : {TRUE}]

Init ==
  /\ mem = <<>>
  /\ levels = [l \in Level |-> <<>>]
  /\ capacity = FirstCapacity
  /\ written = [k \in Keys |-> <<>>]
------------------------------------------------------------------------------
\* Writes.

KeyOrdered(s) == \A i, j \in 1 .. Len(s) : i < j => s[i].key <= s[j].key

\* Mutant: level 0 is not sorted after a flush.
Unsorted(s) == {s}

\* What qsort may leave: it is not stable, so entries of one key end up in
\* any order.
Sorts(s) ==
  {t \in {[i \in 1 .. Len(s) |-> s[p[i]]] :
            p \in {q \in [1 .. Len(s) -> 1 .. Len(s)] :
                     \A i, j \in 1 .. Len(s) : q[i] = q[j] => i = j}} :
     KeyOrdered(t)}

\* The flush doubles the capacity of level 0 once if it must.
Doubled(n) == IF n > capacity[0] THEN 2 * capacity[0] ELSE capacity[0]

\* Mutant: the memcpy of a flush starts at the beginning of level 0.
FlushOverwrites ==
  /\ levels' \in {[levels EXCEPT ![0] = t] : t \in Sorts(mem)}
  /\ capacity' = [capacity EXCEPT ![0] = Doubled(Len(levels[0]) + Len(mem))]

Flush ==
  /\ levels' \in {[levels EXCEPT ![0] = t] : t \in Sorts(levels[0] \o mem)}
  /\ capacity' = [capacity EXCEPT ![0] = Doubled(Len(levels[0]) + Len(mem))]

\* lsm_put and lsm_delete, which append a value and a tombstone.
Write(e) ==
  \/ /\ Len(mem) # MemMax
     /\ mem' = Append(mem, e)
     /\ UNCHANGED <<levels, capacity>>
  \/ /\ Len(mem) = MemMax
     /\ Flush
     /\ mem' = <<e>>

Writes == FoldFunction(LAMBDA s, n : Len(s) + n, 0, written)

Put(k, v) ==
  LET e == [key |-> k, val |-> v, deleted |-> FALSE]
  IN  Write(e) /\ written' = [written EXCEPT ![k] = Append(@, e)]

Delete(k) ==
  LET e == [key |-> k, val |-> 0, deleted |-> TRUE]
  IN  Write(e) /\ written' = [written EXCEPT ![k] = Append(@, e)]
------------------------------------------------------------------------------
\* Compaction.

\* The merge from src[p[1]], dst[p[2]] on, p[3] being the key merged last.
\* While both levels last, an entry of src is skipped if its key was just merged.
Merge(src, dst) ==
  LET merge[p \in (1 .. Len(src) + 1) \X (1 .. Len(dst) + 1) \X (Keys \cup {NotFound})] ==
        LET i == p[1]
            j == p[2]
        IN  IF i > Len(src) THEN SubSeq(dst, j, Len(dst))
            ELSE IF j > Len(dst) THEN SubSeq(src, i, Len(src))
            ELSE IF src[i].key > dst[j].key
              THEN <<dst[j]>> \o merge[<<i, j + 1, dst[j].key>>]
            ELSE IF i > 1 /\ p[3] = src[i].key THEN merge[<<i + 1, j, p[3]>>]
            ELSE <<src[i]>> \o merge[<<i + 1, j, src[i].key>>]
  IN  merge[<<1, 1, NotFound>>]

\* The first n entries of a merge without their tombstones.
Kept(s) ==
  LET kept[n \in 0 .. Len(s)] ==
        IF n = 0 THEN <<>>
        ELSE IF s[n].deleted THEN kept[n - 1] ELSE Append(kept[n - 1], s[n])
  IN  kept[Len(s)]

Cleaned(src, dst) == Kept(Merge(src, dst))

Compact(l) ==
  /\ l < LevelMax - 1
  /\ levels[l] # <<>>
  /\ LET clean == Cleaned(levels[l], levels[l + 1])
     IN  /\ levels' = [levels EXCEPT ![l] = <<>>, ![l + 1] = clean]
         /\ capacity' = [capacity EXCEPT
              ![l + 1] = IF @ < Len(clean) THEN 2 * Len(clean) ELSE @]
  /\ UNCHANGED <<mem, written>>

Next ==
  \/ /\ Writes < MaxWrites
     /\ \E k \in Keys : (\E v \in Values : Put(k, v)) \/ Delete(k)
  \/ \E l \in Level : Compact(l)

Spec == Init /\ [][Next]_vars
------------------------------------------------------------------------------
\* lsm_get.

Content(e) == IF e.deleted THEN NotFound ELSE e.val

\* The binary search in a level, from b[1] to b[2]: an index, or 0.
Search(s, k) ==
  LET probe[b \in (1 .. Len(s) + 1) \X (0 .. Len(s))] ==
        LET mid == (b[1] + b[2]) \div 2
        IN  IF b[1] > b[2] THEN 0
            ELSE IF s[mid].key = k THEN mid
            ELSE IF s[mid].key < k THEN probe[<<mid + 1, b[2]>>]
            ELSE probe[<<b[1], mid - 1>>]
  IN  probe[<<1, Len(s)>>]

InMem(k) == {i \in 1 .. Len(mem) : mem[i].key = k}
InLevels(k) == {l \in Level : Search(levels[l], k) # 0}

\* Mutant: the memtable is read from its beginning.
Oldest(I) == CHOOSE i \in I : \A j \in I : i <= j

Newest(I) == CHOOSE i \in I : \A j \in I : j <= i
Nearest(I) == CHOOSE i \in I : \A j \in I : i <= j

\* The memtable first, from its end, then level after level.
Get(k) ==
  IF InMem(k) # {} THEN Content(mem[Newest(InMem(k))])
  ELSE IF InLevels(k) # {}
    THEN LET s == levels[Nearest(InLevels(k))] IN Content(s[Search(s, k)])
  ELSE NotFound
------------------------------------------------------------------------------
TypeOK ==
  /\ mem \in Seq(Entry) /\ Len(mem) <= MemMax
  /\ levels \in [Level -> Seq(Entry)]
  /\ capacity \in [Level -> Nat]
  /\ written \in [Keys -> Seq(Entry)]

\* The binary search of lsm_get and the merge may rely on sorted levels, also
\* in a level that compaction filled.
LevelsSorted == \A l \in Level : KeyOrdered(levels[l])

\* The memcpy of a flush stays inside level 0: doubling it once is enough.
FlushFits == Len(levels[0]) <= capacity[0]

\* No memcpy writes outside a level.
FitsCapacity == FlushFits /\ \A l \in Level : Len(levels[l]) <= capacity[l]

\* What the search and the merge rely on, through any flushes and compactions:
\* levels that are sorted and inside their arrays.
LevelsAreSound == TypeOK /\ LevelsSorted /\ FitsCapacity

\* What has not been flushed is read back as it was last written.
MemtableWins ==
  \A k \in Keys : InMem(k) # {} => Get(k) = Content(Last(written[k]))

\* A key put and never deleted is always found.
NeverLost ==
  \A k \in Keys :
    written[k] # <<>> /\ (\A i \in DOMAIN written[k] : ~written[k][i].deleted)
      => Get(k) # NotFound

\* A value found for a key is one that was put for that key.
NothingInvented ==
  \A k \in Keys :
    Get(k) # NotFound => \E i \in DOMAIN written[k] : written[k][i].val = Get(k)

\* No flush or compaction loses the only copy of a key, and no read makes up a
\* value.
ReadsAreHonest == NeverLost /\ NothingInvented

\* The comment of lsm_get: "Most recent write wins. Tombstones mask older
\* entries."
MostRecentWriteWins ==
  \A k \in Keys :
    Get(k) = IF written[k] = <<>> THEN NotFound ELSE Content(Last(written[k]))
==============================================================================
