---------------------------- MODULE HashingProofs ----------------------------
(***************************************************************************)
(* Theorems about the structures that rest on hashing, for every hash:     *)
(* the open-addressing table, for every capacity; the sketches, for any    *)
(* dimensions and any width of their cells; the filters, for any numbers   *)
(* of places and hashes and any size of the counters.  And about the skip  *)
(* list, which rests on dice, for every throw of them.                     *)
(***************************************************************************)
EXTENDS OpenHash, Probabilistic, NaturalOrder, FiniteSetTheorems, Sequences
------------------------------------------------------------------------------
\* The open-addressing table.

LEMMA SlotFacts ==
  /\ Slots \subseteq Nat
  /\ \A k \in Keys, i \in Slots : Probe(k, i) \in Slots
<1>1. Capacity \in Nat /\ Capacity >= 1 /\ Slots \subseteq Nat
  BY CapacityAssumption DEF Slots
<1>2. ASSUME NEW k \in Keys, NEW i \in Slots PROVE Probe(k, i) \in Slots
  <2>1. Hash[k] \in Nat /\ i \in Nat
    BY <1>1, HashAssumption
  <2>2. \A n \in Nat : n % Capacity \in 0 .. Capacity - 1
    BY <1>1
  <2> QED
    BY <2>1, <2>2 DEF Probe, Slots
<1> QED
  BY <1>1, <1>2

LEMMA FirstExists ==
  ASSUME NEW I \in SUBSET Slots, I # {}
  PROVE  First(I) \in I /\ \A j \in I : First(I) <= j
<1>1. \E i \in I : \A j \in I : i <= j
  BY SlotFacts, LeastElement
<1> QED
  BY <1>1 DEF First

LEMMA FirstIs ==
  ASSUME NEW I \in SUBSET Slots, NEW i \in I, \A j \in I : i <= j
  PROVE  First(I) = i
<1>1. First(I) \in I /\ First(I) <= i
  BY FirstExists
<1>2. i <= First(I) /\ First(I) \in Nat /\ i \in Nat
  BY <1>1, SlotFacts
<1> QED
  BY <1>1, <1>2

\* A search for k ends with success in turn i.
ReadsAt(k, i) ==
  /\ i \in Slots
  /\ Holds(Probe(k, i), k)
  /\ \A j \in Slots : j < i => used[Probe(k, j)] /\ ~Holds(Probe(k, j), k)

LEMMA ReadsAtIsFound ==
  ASSUME NEW k \in Keys, NEW i, ReadsAt(k, i)
  PROVE  Found(k) /\ FoundAt(k) = Probe(k, i)
<1>1. FindStops(k) \in SUBSET Slots /\ i \in FindStops(k)
  BY DEF FindStops, ReadsAt
<1>2. \A j \in FindStops(k) : i <= j
  BY SlotFacts DEF FindStops, ReadsAt
<1>3. First(FindStops(k)) = i
  BY <1>1, <1>2, FirstIs
<1> QED
  BY <1>1, <1>3 DEF Found, FoundAt, ReadsAt, Holds, Live

LEMMA FoundReadsAt ==
  ASSUME NEW k \in Keys, Found(k)
  PROVE  \E i \in Slots : ReadsAt(k, i) /\ FoundAt(k) = Probe(k, i)
<1> DEFINE i == First(FindStops(k))
<1>1. FindStops(k) \in SUBSET Slots /\ FindStops(k) # {}
  BY DEF FindStops, Found
<1>2. i \in FindStops(k) /\ \A j \in FindStops(k) : i <= j
  BY <1>1, FirstExists
<1>3. used[Probe(k, i)]
  BY DEF Found, FoundAt
<1>4. i \in Slots /\ Holds(Probe(k, i), k)
  BY <1>2, <1>3 DEF FindStops
<1> HIDE DEF i
<1>5. \A j \in Slots : j < i => used[Probe(k, j)] /\ ~Holds(Probe(k, j), k)
  BY <1>2, <1>4, SlotFacts DEF FindStops
<1> QED
  BY <1>4, <1>5 DEF ReadsAt, FoundAt, i
------------------------------------------------------------------------------
\* The live slots, and the two strengthenings: the copy a search finds is the
\* newest, and in a careful caller's table it is the only one.
LiveSlots == {s \in Slots : Live(s)}

PutReadsAt ==
  \A k \in Keys : contents[k] # NotFound =>
    \E i \in Slots : ReadsAt(k, i) /\ vals[Probe(k, i)] = contents[k]

CarefulTable ==
  careful => /\ \A s, t \in LiveSlots : keys[s] = keys[t] => s = t
             /\ \A s \in LiveSlots : contents[keys[s]] # NotFound

IInv ==
  TypeOK /\ ProbeReachable /\ PutReadsAt /\ CarefulTable /\ SizeCountsSlots

LEMMA InitIInv == Init => IInv
<1> SUFFICES ASSUME Init PROVE IInv
  OBVIOUS
<1>1. TypeOK /\ ProbeReachable /\ PutReadsAt /\ CarefulTable
  BY DEF Init, TypeOK, ProbeReachable, PutReadsAt, CarefulTable, LiveSlots, Live
<1>2. {s \in Slots : Live(s)} = {}
  BY DEF Init, Live
<1> QED
  BY <1>1, <1>2, FS_EmptySet DEF IInv, SizeCountsSlots, Init

LEMMA LiveSlotsFinite == IsFiniteSet(LiveSlots)
<1>1. IsFiniteSet(Slots)
  BY CapacityAssumption, FS_Interval DEF Slots
<1> QED
  BY <1>1, FS_Subset DEF LiveSlots

\* Where an insertion ends: the slots probed before hold live entries of
\* other keys.
LEMMA InsertLands ==
  ASSUME NEW k \in Keys, InsertStops(k) # {}
  PROVE  \E i \in Slots :
           /\ InsertAt(k) = Probe(k, i)
           /\ ~Live(Probe(k, i)) \/ Holds(Probe(k, i), k)
           /\ \A j \in Slots : j < i => Live(Probe(k, j)) /\ ~Holds(Probe(k, j), k)
<1> DEFINE i == First(InsertStops(k))
<1>1. InsertStops(k) \in SUBSET Slots
  BY DEF InsertStops
<1>2. i \in InsertStops(k) /\ \A j \in InsertStops(k) : i <= j
  BY <1>1, FirstExists
<1>3. i \in Slots /\ InsertAt(k) = Probe(k, i)
  BY <1>1, <1>2 DEF InsertAt
<1> HIDE DEF i
<1>4. \A j \in Slots : j < i => Live(Probe(k, j)) /\ ~Holds(Probe(k, j), k)
  BY <1>2, <1>3, SlotFacts DEF InsertStops
<1> QED
  BY <1>2, <1>3, <1>4 DEF InsertStops

LEMMA InsertNewStep ==
  ASSUME IInv, NEW k \in Keys, NEW v \in Values, InsertNew(k, v)
  PROVE  IInv'
<1>1. PICK i \in Slots :
         /\ InsertAt(k) = Probe(k, i)
         /\ ~Live(Probe(k, i)) \/ Holds(Probe(k, i), k)
         /\ \A j \in Slots : j < i => Live(Probe(k, j)) /\ ~Holds(Probe(k, j), k)
  BY InsertLands DEF InsertNew
<1> DEFINE p == Probe(k, i)
<1>2. p \in Slots /\ ~Live(p)
  BY <1>1, SlotFacts DEF InsertNew
<1>3. /\ keys' = [keys EXCEPT ![p] = k]
      /\ vals' = [vals EXCEPT ![p] = v]
      /\ used' = [used EXCEPT ![p] = TRUE]
      /\ deleted' = [deleted EXCEPT ![p] = FALSE]
      /\ size' = size + 1
      /\ contents' = [contents EXCEPT ![k] = v]
      /\ careful' = (careful /\ (contents[k] = NotFound \/ Tombstones = {}))
  BY <1>1 DEF InsertNew, HistoryOfInsert
<1> HIDE DEF p
<1>4. TypeOK
  BY DEF IInv
<1>5. TypeOK'
  BY <1>2, <1>3, <1>4 DEF TypeOK
<1>6. /\ Live(p)' /\ keys'[p] = k /\ vals'[p] = v
      /\ \A s \in Slots : s # p => (Live(s)' <=> Live(s)) /\ keys'[s] = keys[s]
                                    /\ vals'[s] = vals[s]
      /\ \A s \in Slots : used[s] => used'[s]
  BY <1>2, <1>3, <1>4 DEF TypeOK, Live
<1>7. ProbeReachable'
  <2> SUFFICES ASSUME NEW s \in Slots, Live(s)', NEW m \in Slots,
                      \A j \in 0 .. m : Probe(keys'[s], j) # s
               PROVE  used'[Probe(keys'[s], m)]
    BY DEF ProbeReachable, Probe
  <2>1. CASE s = p
    <3>1. ~(i <= m)
      BY <1>6, <2>1, SlotFacts DEF p
    <3>2. m < i
      BY <3>1, SlotFacts
    <3> QED
      BY <1>1, <1>6, <2>1, <3>2, SlotFacts DEF Live
  <2>2. CASE s # p
    <3>1. keys[s] \in Keys /\ Live(s) /\ keys'[s] = keys[s]
      BY <1>4, <1>6, <2>2 DEF TypeOK, Live
    <3>2. used[Probe(keys[s], m)]
      BY <3>1 DEF IInv, ProbeReachable
    <3> QED
      BY <1>6, <3>1, <3>2, SlotFacts
  <2> QED
    BY <2>1, <2>2
<1>8. PutReadsAt'
  <2> SUFFICES ASSUME NEW q \in Keys, contents'[q] # NotFound
               PROVE  \E m \in Slots : ReadsAt(q, m)' /\ vals'[Probe(q, m)] = contents'[q]
    BY DEF PutReadsAt, Probe
  <2>1. CASE q = k
    <3>1. \A j \in Slots : j < i => Probe(k, j) # p /\ Probe(k, j) \in Slots
      BY <1>1, <1>2, SlotFacts
    <3>2. ReadsAt(k, i)'
      BY <1>1, <1>2, <1>6, <3>1, SlotFacts DEF ReadsAt, Holds, Live, Probe, p
    <3>3. vals'[Probe(k, i)] = contents'[k]
      BY <1>3, <1>4, <1>6 DEF TypeOK, p
    <3> QED
      BY <2>1, <3>2, <3>3
  <2>2. CASE q # k
    <3>1. contents'[q] = contents[q]
      BY <1>3, <1>4, <2>2 DEF TypeOK
    <3>2. PICK m \in Slots : ReadsAt(q, m) /\ vals[Probe(q, m)] = contents[q]
      BY <3>1 DEF IInv, PutReadsAt
    <3>3. Probe(q, m) \in Slots /\ Probe(q, m) # p
      BY <1>2, <3>2, SlotFacts DEF ReadsAt, Holds
    <3>4. ASSUME NEW j \in Slots, j < m
          PROVE  used'[Probe(q, j)] /\ ~Holds(Probe(q, j), q)'
      <4>1. Probe(q, j) \in Slots /\ used[Probe(q, j)] /\ ~Holds(Probe(q, j), q)
        BY <3>2, <3>4, SlotFacts DEF ReadsAt
      <4> QED
        BY <1>6, <2>2, <4>1 DEF Holds, Probe
    <3>5. ReadsAt(q, m)'
      BY <1>6, <3>2, <3>3, <3>4 DEF ReadsAt, Holds, Probe
    <3> QED
      BY <1>6, <3>1, <3>2, <3>3, <3>5
  <2> QED
    BY <2>1, <2>2
<1>9. careful' => ~(\E s \in LiveSlots : keys[s] = k)
  <2> SUFFICES ASSUME careful' PROVE ~(\E s \in LiveSlots : keys[s] = k)
    OBVIOUS
  <2>1. CASE contents[k] = NotFound
    BY <1>3, <2>1 DEF IInv, CarefulTable
  <2>2. CASE contents[k] # NotFound
    <3>1. \A s \in Slots : used[s] => Live(s)
      BY <1>3, <2>2 DEF Tombstones, Live
    <3>2. PICK m \in Slots : ReadsAt(k, m)
      BY <2>2 DEF IInv, PutReadsAt
    <3>3. ~(m < i)
      BY <1>1, <3>2 DEF ReadsAt
    <3>4. i # m
      BY <1>2, <3>2 DEF ReadsAt, Holds, p
    <3>5. used[p]
      BY <3>2, <3>3, <3>4, SlotFacts DEF ReadsAt, p
    <3> QED
      BY <1>2, <3>1, <3>5
  <2> QED
    BY <2>1, <2>2
<1>10. LiveSlots' = LiveSlots \cup {p} /\ p \notin LiveSlots
  BY <1>2, <1>6 DEF LiveSlots
<1>11. CarefulTable'
  <2> SUFFICES ASSUME careful' PROVE
         /\ \A s, t \in LiveSlots' : keys'[s] = keys'[t] => s = t
         /\ \A s \in LiveSlots' : contents'[keys'[s]] # NotFound
    BY DEF CarefulTable
  <2>1. careful
    BY <1>3
  <2>2. \A s \in LiveSlots : keys'[s] = keys[s] /\ keys[s] \in Keys /\ keys[s] # k
    BY <1>4, <1>6, <1>9, <1>10 DEF LiveSlots, TypeOK, Live
  <2>3. \A s \in LiveSlots : contents'[keys'[s]] # NotFound
    BY <1>3, <1>4, <2>1, <2>2 DEF IInv, CarefulTable, TypeOK
  <2>4. contents'[k] # NotFound
    BY <1>3, <1>4, ValuesAssumption DEF TypeOK
  <2> QED
    BY <1>6, <1>10, <2>1, <2>2, <2>3, <2>4 DEF IInv, CarefulTable
<1>12. SizeCountsSlots'
  BY <1>3, <1>10, LiveSlotsFinite, FS_AddElement
  DEF IInv, SizeCountsSlots, LiveSlots
<1> QED
  BY <1>5, <1>7, <1>8, <1>11, <1>12 DEF IInv

LEMMA InsertUpdateStep ==
  ASSUME IInv, NEW k \in Keys, NEW v \in Values, InsertUpdate(k, v)
  PROVE  IInv'
<1>1. PICK i \in Slots :
         /\ InsertAt(k) = Probe(k, i)
         /\ ~Live(Probe(k, i)) \/ Holds(Probe(k, i), k)
         /\ \A j \in Slots : j < i => Live(Probe(k, j)) /\ ~Holds(Probe(k, j), k)
  BY InsertLands DEF InsertUpdate
<1> DEFINE p == Probe(k, i)
<1>2. p \in Slots /\ Holds(p, k) /\ ReadsAt(k, i)
  BY <1>1, SlotFacts DEF InsertUpdate, ReadsAt, Live
<1>3. /\ vals' = [vals EXCEPT ![p] = v]
      /\ keys' = keys /\ used' = used /\ deleted' = deleted /\ size' = size
      /\ contents' = [contents EXCEPT ![k] = v]
      /\ careful' = (careful /\ (contents[k] = NotFound \/ Tombstones = {}))
  BY <1>1 DEF InsertUpdate, HistoryOfInsert
<1> HIDE DEF p
<1>4. TypeOK /\ TypeOK'
  BY <1>2, <1>3 DEF IInv, TypeOK
<1>5. \A q, m : ReadsAt(q, m)' <=> ReadsAt(q, m)
  BY <1>3 DEF ReadsAt, Holds, Live, Probe
<1>6. PutReadsAt'
  <2> SUFFICES ASSUME NEW q \in Keys, contents'[q] # NotFound
               PROVE  \E m \in Slots : ReadsAt(q, m)' /\ vals'[Probe(q, m)] = contents'[q]
    BY DEF PutReadsAt, Probe
  <2>1. CASE q = k
    BY <1>2, <1>3, <1>4, <1>5, <2>1 DEF TypeOK, p
  <2>2. CASE q # k
    <3>1. contents'[q] = contents[q]
      BY <1>3, <1>4, <2>2 DEF TypeOK
    <3>2. PICK m \in Slots : ReadsAt(q, m) /\ vals[Probe(q, m)] = contents[q]
      BY <3>1 DEF IInv, PutReadsAt
    <3>3. Probe(q, m) # p
      BY <1>2, <2>2, <3>2 DEF ReadsAt, Holds
    <3>4. Probe(q, m) \in Slots
      BY SlotFacts
    <3> QED
      BY <1>3, <1>4, <1>5, <3>1, <3>2, <3>3, <3>4 DEF TypeOK
  <2> QED
    BY <2>1, <2>2
<1>7. LiveSlots' = LiveSlots
  BY <1>3 DEF LiveSlots, Live
<1>8. CarefulTable'
  <2>1. \A q \in Keys : contents[q] # NotFound => contents'[q] # NotFound
    BY <1>3, <1>4, ValuesAssumption DEF TypeOK
  <2>2. \A s \in LiveSlots : keys[s] \in Keys
    BY <1>4 DEF TypeOK, LiveSlots, Live
  <2> QED
    BY <1>3, <1>7, <2>1, <2>2 DEF IInv, CarefulTable
<1>9. ProbeReachable' /\ SizeCountsSlots'
  BY <1>3 DEF IInv, ProbeReachable, SizeCountsSlots, Live, Probe
<1> QED
  BY <1>4, <1>6, <1>8, <1>9 DEF IInv

LEMMA DeleteStep ==
  ASSUME IInv, NEW k \in Keys, Delete(k)
  PROVE  IInv'
<1>1. /\ keys' = keys /\ vals' = vals /\ used' = used /\ careful' = careful
      /\ contents' = [contents EXCEPT ![k] = NotFound]
  BY DEF Delete
<1>2. TypeOK
  BY DEF IInv
<1>3. /\ contents'[k] = NotFound
      /\ \A q \in Keys : q # k => contents'[q] = contents[q]
  BY <1>1, <1>2 DEF TypeOK
<1>4. CASE Found(k)
  <2>1. PICK i \in Slots : ReadsAt(k, i) /\ FoundAt(k) = Probe(k, i)
    BY <1>4, FoundReadsAt
  <2> DEFINE p == Probe(k, i)
  <2>2. /\ deleted' = [deleted EXCEPT ![p] = TRUE] /\ size' = size - 1
        /\ p \in Slots /\ Holds(p, k)
    BY <1>4, <2>1, SlotFacts DEF Delete, ReadsAt
  <2> HIDE DEF p
  <2>3. /\ ~Live(p)' /\ Live(p)
        /\ \A s \in Slots : s # p => (Live(s)' <=> Live(s))
    BY <1>1, <1>2, <2>2 DEF TypeOK, Live, Holds
  <2>4. TypeOK'
    BY <1>1, <1>2, <2>2 DEF TypeOK, Holds, Live
  <2>5. ProbeReachable'
    BY <1>1, <2>3 DEF IInv, ProbeReachable, Probe
  <2>6. PutReadsAt'
    <3> SUFFICES ASSUME NEW q \in Keys, contents'[q] # NotFound
                 PROVE  \E m \in Slots : ReadsAt(q, m)' /\ vals'[Probe(q, m)] = contents'[q]
      BY DEF PutReadsAt, Probe
    <3>1. q # k /\ contents'[q] = contents[q]
      BY <1>3
    <3>2. PICK m \in Slots : ReadsAt(q, m) /\ vals[Probe(q, m)] = contents[q]
      BY <3>1 DEF IInv, PutReadsAt
    <3>3. Probe(q, m) \in Slots /\ Probe(q, m) # p
      BY <2>2, <3>1, <3>2, SlotFacts DEF ReadsAt, Holds
    <3>4. ReadsAt(q, m)'
      BY <1>1, <2>3, <3>2, <3>3, SlotFacts DEF ReadsAt, Holds, Probe
    <3> QED
      BY <1>1, <3>1, <3>2, <3>4
  <2>7. LiveSlots' = LiveSlots \ {p} /\ p \in LiveSlots
    BY <2>2, <2>3 DEF LiveSlots
  <2>8. CarefulTable'
    <3> SUFFICES ASSUME careful PROVE
           /\ \A s, t \in LiveSlots' : keys'[s] = keys'[t] => s = t
           /\ \A s \in LiveSlots' : contents'[keys'[s]] # NotFound
      BY <1>1 DEF CarefulTable
    <3>1. \A s \in LiveSlots' : keys[s] \in Keys /\ keys[s] # k
      BY <1>2, <2>2, <2>7 DEF IInv, CarefulTable, Holds, TypeOK, LiveSlots, Live
    <3> QED
      BY <1>1, <1>3, <2>7, <3>1 DEF IInv, CarefulTable
  <2>9. SizeCountsSlots'
    BY <2>2, <2>7, LiveSlotsFinite, FS_RemoveElement
    DEF IInv, SizeCountsSlots, LiveSlots
  <2> QED
    BY <2>4, <2>5, <2>6, <2>8, <2>9 DEF IInv
<1>5. CASE ~Found(k)
  <2>1. deleted' = deleted /\ size' = size
    BY <1>5 DEF Delete
  <2>2. contents[k] = NotFound
    BY <1>5, ReadsAtIsFound DEF IInv, PutReadsAt
  <2>3. contents' = contents
    BY <1>1, <1>2, <2>2 DEF TypeOK
  <2> QED
    BY <1>1, <2>1, <2>3
    DEF IInv, TypeOK, ProbeReachable, PutReadsAt, CarefulTable, LiveSlots,
        SizeCountsSlots, ReadsAt, Holds, Live, Probe
<1> QED
  BY <1>4, <1>5

LEMMA StutterStep == ASSUME IInv, UNCHANGED vars PROVE IInv'
BY DEF vars, table, IInv, TypeOK, ProbeReachable, PutReadsAt, CarefulTable,
       LiveSlots, SizeCountsSlots, ReadsAt, Holds, Live, Probe

THEOREM IInvHolds == Spec => []IInv
<1>1. IInv /\ [Next]_vars => IInv'
  BY InsertNewStep, InsertUpdateStep, DeleteStep, StutterStep
  DEF Next, InsertRefused
<1> QED
  BY InitIInv, <1>1, PTL DEF Spec

\* The arrays keep their shape, and size counts the live slots.
THEOREM SizeCorrect == Spec => [](TypeOK /\ SizeCountsSlots)
BY IInvHolds, PTL DEF IInv

\* No tombstone and no reuse of one cuts a live entry off.
THEOREM Reachable == Spec => []ProbeReachable
BY IInvHolds, PTL DEF IInv

\* Reading back what was put, for any mix of insertions and deletions.
THEOREM PutThenGet == Spec => []PutIsRead
<1>1. IInv => PutIsRead
  BY ReadsAtIsFound DEF IInv, PutReadsAt, PutIsRead, Get
<1> QED
  BY <1>1, IInvHolds, PTL

\* The table is exact for a caller who updates no held key while there are
\* tombstones.
THEOREM CarefulCaller == Spec => []CarefulIsExact
<1>1. IInv => CarefulIsExact
  <2> SUFFICES ASSUME IInv, careful PROVE
         /\ \A s, t \in Slots : Live(s) /\ Live(t) /\ keys[s] = keys[t] => s = t
         /\ \A k \in Keys : Get(k) = contents[k]
    BY DEF CarefulIsExact
  <2>1. \A s, t \in Slots : Live(s) /\ Live(t) /\ keys[s] = keys[t] => s = t
    BY DEF IInv, CarefulTable, LiveSlots
  <2>2. ASSUME NEW k \in Keys, contents[k] # NotFound PROVE Get(k) = contents[k]
    BY <2>2, ReadsAtIsFound DEF IInv, PutReadsAt, Get
  <2>3. ASSUME NEW k \in Keys, contents[k] = NotFound PROVE Get(k) = contents[k]
    <3>1. \A s \in Slots : ~Holds(s, k)
      BY <2>3 DEF IInv, CarefulTable, LiveSlots, Holds
    <3>2. ~Found(k)
      BY <3>1, FoundReadsAt, SlotFacts DEF ReadsAt
    <3> QED
      BY <2>3, <3>2 DEF Get
  <2> QED
    BY <2>1, <2>2, <2>3
<1> QED
  BY <1>1, IInvHolds, PTL
------------------------------------------------------------------------------
\* The count-min sketch.

\* The types, and while the total fits into a cell: no cell has wrapped, since
\* none exceeds the total, and the cells of an item hold at least its count.
CountTyped ==
  /\ cells \in [Sketches -> [Rows -> [Columns -> Nat]]]
  /\ total \in [Sketches -> Nat]
  /\ added \in [Sketches -> [Items -> Nat]]

CellsBelowTotal ==
  \A s \in Sketches : total[s] < WordSize =>
    \A r \in Rows, c \in Columns : cells[s][r][c] <= total[s]

CellsAboveCount ==
  \A s \in Sketches : total[s] < WordSize =>
    \A r \in Rows, k \in Items : added[s][k] <= cells[s][r][Column[r][k]]

CountBelowTotal == \A s \in Sketches, k \in Items : added[s][k] <= total[s]

CountInv == CountTyped /\ CellsBelowTotal /\ CellsAboveCount /\ CountBelowTotal

\* A sum that fits into a cell does not wrap.
LEMMA NoWrap ==
  ASSUME NEW m \in Nat, NEW n \in Nat, NEW t \in Nat, m + n <= t, t < WordSize
  PROVE  (m + n) % WordSize = m + n
BY DimensionsAssumption

LEMMA InitCountInv == CountInit => CountInv
BY DimensionsAssumption DEF CountInit, CountInv, CountTyped, CellsBelowTotal, CellsAboveCount, CountBelowTotal

\* cm_add: total and cells grow by the same amount, in every row.
LEMMA CountKeeps ==
  ASSUME CountInv, NEW s \in Sketches, NEW k \in Items, NEW n \in Amounts, Count(s, k, n)
  PROVE  CountInv'
<1>1. n \in Nat /\ WordSize \in Nat \ {0} /\ \A r \in Rows, j \in Items : Column[r][j] \in Columns
  BY DimensionsAssumption
<1>2. \A r \in Rows, c \in Columns :
        cells'[s][r][c] =
          IF c = Column[r][k] THEN (cells[s][r][c] + n) % WordSize ELSE cells[s][r][c]
  BY <1>1 DEF Count, CountInv, CountTyped
<1>3. /\ total'[s] = total[s] + n
      /\ \A j \in Items : added'[s][j] = IF j = k THEN added[s][j] + n ELSE added[s][j]
  BY <1>1 DEF Count, CountInv, CountTyped
<1>4. \A t \in Sketches : t # s =>
        cells'[t] = cells[t] /\ total'[t] = total[t] /\ added'[t] = added[t]
  BY DEF Count, CountInv, CountTyped
<1>5. CountTyped'
  <2>1. \A r \in Rows, c \in Columns : (cells[s][r][c] + n) % WordSize \in Nat
    BY <1>1 DEF CountInv, CountTyped
  <2>2. cells' \in [Sketches -> [Rows -> [Columns -> Nat]]]
    BY <1>1, <2>1 DEF Count, CountInv, CountTyped
  <2> QED
    BY <1>1, <2>2 DEF Count, CountInv, CountTyped
<1>6. CountBelowTotal'
  BY <1>1, <1>3, <1>4 DEF CountInv, CountTyped, CountBelowTotal
<1>7. ASSUME total'[s] < WordSize, NEW r \in Rows, NEW c \in Columns
      PROVE  /\ cells'[s][r][c] <= total'[s]
             /\ cells'[s][r][c] = IF c = Column[r][k] THEN cells[s][r][c] + n ELSE cells[s][r][c]
  <2>1. cells[s][r][c] \in Nat /\ total[s] \in Nat
    BY DEF CountInv, CountTyped
  <2>2. cells[s][r][c] <= total[s]
    BY <1>1, <1>3, <1>7, <2>1 DEF CountInv, CellsBelowTotal
  <2>3. cells[s][r][c] + n <= total'[s] /\ total'[s] \in Nat
    BY <1>1, <1>3, <2>1, <2>2
  <2>4. (cells[s][r][c] + n) % WordSize = cells[s][r][c] + n
    BY <1>1, <1>7, <2>1, <2>3, NoWrap
  <2> QED
    BY <1>1, <1>2, <1>3, <2>1, <2>2, <2>3, <2>4
<1>8. CellsBelowTotal'
  BY <1>4, <1>7 DEF CountInv, CellsBelowTotal
<1>9. ASSUME total'[s] < WordSize, NEW r \in Rows, NEW j \in Items
      PROVE  added'[s][j] <= cells'[s][r][Column[r][j]]
  <2>1. total[s] < WordSize /\ added[s][j] \in Nat /\ cells[s][r][Column[r][j]] \in Nat
    BY <1>1, <1>3, <1>9 DEF CountInv, CountTyped
  <2>2. added[s][j] <= cells[s][r][Column[r][j]]
    BY <2>1 DEF CountInv, CellsAboveCount
  <2> QED
    BY <1>1, <1>3, <1>7, <1>9, <2>1, <2>2
<1>10. CellsAboveCount'
  BY <1>4, <1>9 DEF CountInv, CellsAboveCount
<1> QED
  BY <1>5, <1>6, <1>8, <1>10 DEF CountInv

\* cm_merge, of a sketch into itself, too.
LEMMA MergeKeeps ==
  ASSUME CountInv, NEW dst \in Sketches, NEW src \in Sketches, Merge(dst, src)
  PROVE  CountInv'
<1>1. WordSize \in Nat \ {0} /\ \A r \in Rows, j \in Items : Column[r][j] \in Columns
  BY DimensionsAssumption
<1>2. /\ total'[dst] = total[dst] + total[src]
      /\ \A r \in Rows, c \in Columns :
           cells'[dst][r][c] = (cells[dst][r][c] + cells[src][r][c]) % WordSize
      /\ \A j \in Items : added'[dst][j] = added[dst][j] + added[src][j]
  BY DEF Merge, CountInv, CountTyped
<1>3. \A t \in Sketches : t # dst =>
        cells'[t] = cells[t] /\ total'[t] = total[t] /\ added'[t] = added[t]
  BY DEF Merge, CountInv, CountTyped
<1>4. CountTyped'
  <2>1. \A r \in Rows, c \in Columns :
          (cells[dst][r][c] + cells[src][r][c]) % WordSize \in Nat
    BY <1>1 DEF CountInv, CountTyped
  <2>2. cells' \in [Sketches -> [Rows -> [Columns -> Nat]]]
    BY <2>1 DEF Merge, CountInv, CountTyped
  <2> QED
    BY <2>2 DEF Merge, CountInv, CountTyped
<1>5. CountBelowTotal'
  BY <1>2, <1>3 DEF CountInv, CountTyped, CountBelowTotal
<1>6. ASSUME total'[dst] < WordSize, NEW r \in Rows, NEW c \in Columns
      PROVE  /\ cells'[dst][r][c] <= total'[dst]
             /\ cells'[dst][r][c] = cells[dst][r][c] + cells[src][r][c]
  <2>1. /\ cells[dst][r][c] \in Nat /\ cells[src][r][c] \in Nat
        /\ total[dst] \in Nat /\ total[src] \in Nat
    BY DEF CountInv, CountTyped
  <2>2. cells[dst][r][c] <= total[dst] /\ cells[src][r][c] <= total[src]
    BY <1>1, <1>2, <1>6, <2>1 DEF CountInv, CellsBelowTotal
  <2>3. cells[dst][r][c] + cells[src][r][c] <= total'[dst] /\ total'[dst] \in Nat
    BY <1>2, <2>1, <2>2
  <2>4. (cells[dst][r][c] + cells[src][r][c]) % WordSize = cells[dst][r][c] + cells[src][r][c]
    BY <1>6, <2>1, <2>3, NoWrap
  <2> QED
    BY <1>2, <2>3, <2>4
<1>7. CellsBelowTotal'
  BY <1>3, <1>6 DEF CountInv, CellsBelowTotal
<1>8. ASSUME total'[dst] < WordSize, NEW r \in Rows, NEW j \in Items
      PROVE  added'[dst][j] <= cells'[dst][r][Column[r][j]]
  <2>1. /\ total[dst] < WordSize /\ total[src] < WordSize
        /\ added[dst][j] \in Nat /\ added[src][j] \in Nat
        /\ cells[dst][r][Column[r][j]] \in Nat /\ cells[src][r][Column[r][j]] \in Nat
    BY <1>1, <1>2, <1>8 DEF CountInv, CountTyped
  <2>2. /\ added[dst][j] <= cells[dst][r][Column[r][j]]
        /\ added[src][j] <= cells[src][r][Column[r][j]]
    BY <2>1 DEF CountInv, CellsAboveCount
  <2> QED
    BY <1>1, <1>2, <1>6, <1>8, <2>1, <2>2
<1>9. CellsAboveCount'
  BY <1>3, <1>8 DEF CountInv, CellsAboveCount
<1> QED
  BY <1>4, <1>5, <1>7, <1>9 DEF CountInv

\* The inductive invariant holds of every behaviour.
THEOREM CountInvHolds == CountSpec => []CountInv
<1>1. CountInv /\ [CountNext]_countVars => CountInv'
  <2> SUFFICES ASSUME CountInv, [CountNext]_countVars PROVE CountInv'
    OBVIOUS
  <2>1. ASSUME NEW s \in Sketches, NEW k \in Items, NEW n \in Amounts, Count(s, k, n)
        PROVE  CountInv'
    BY <2>1, CountKeeps
  <2>2. ASSUME NEW dst \in Sketches, NEW src \in Sketches, Merge(dst, src) PROVE CountInv'
    BY <2>2, MergeKeeps
  <2>3. CASE UNCHANGED countVars
    BY <2>3 DEF countVars, CountInv, CountTyped, CellsBelowTotal, CellsAboveCount, CountBelowTotal
  <2> QED
    BY <2>1, <2>2, <2>3 DEF CountNext
<1> QED
  BY InitCountInv, <1>1, PTL DEF CountSpec

\* The answer of a query is one of the estimates and below the others.
LEMMA QueryIsLeast ==
  ASSUME CountTyped, NEW s \in Sketches, NEW k \in Items
  PROVE  /\ CountQuery(s, k) \in Estimates(s, k)
         /\ \A m \in Estimates(s, k) : CountQuery(s, k) <= m
<1>1. Estimates(s, k) \in SUBSET Nat /\ Estimates(s, k) # {}
  BY DimensionsAssumption DEF CountTyped, Estimates
<1>2. \E n \in Estimates(s, k) : \A m \in Estimates(s, k) : n <= m
  BY <1>1, LeastElement
<1> QED
  BY <1>2, Zenon DEF CountQuery

\* No sequence of additions and merges makes a query answer less than the true
\* count, nor more than the total, as long as the total fits into a cell.
THEOREM QueriesBounded == CountSpec => []NeverUnderestimates
<1>1. CountInv => NeverUnderestimates
  <2> SUFFICES ASSUME CountInv, NEW s \in Sketches, NEW k \in Items, total[s] < WordSize
               PROVE  /\ added[s][k] <= CountQuery(s, k)
                      /\ Rows # {} => CountQuery(s, k) <= total[s]
    BY DEF NeverUnderestimates
  <2>1. /\ CountQuery(s, k) \in Estimates(s, k)
        /\ \A m \in Estimates(s, k) : CountQuery(s, k) <= m
    BY QueryIsLeast DEF CountInv
  <2>2. \A m \in Estimates(s, k) : m \in Nat /\ added[s][k] <= m
    <3>1. added[s][k] <= WordSize - 1
      BY DimensionsAssumption DEF CountInv, CountTyped, CountBelowTotal
    <3>2. \A r \in Rows : cells[s][r][Column[r][k]] \in Nat
                          /\ added[s][k] <= cells[s][r][Column[r][k]]
      BY DimensionsAssumption DEF CountInv, CountTyped, CellsAboveCount
    <3> QED
      BY <3>1, <3>2, DimensionsAssumption DEF Estimates
  <2>3. ASSUME NEW r \in Rows PROVE CountQuery(s, k) <= total[s]
    <3>1. Column[r][k] \in Columns
      BY DimensionsAssumption
    <3>2. cells[s][r][Column[r][k]] \in Estimates(s, k)
      BY DEF Estimates
    <3>3. cells[s][r][Column[r][k]] <= total[s] /\ cells[s][r][Column[r][k]] \in Nat
      BY <3>1 DEF CountInv, CountTyped, CellsBelowTotal
    <3>4. total[s] \in Nat
      BY DEF CountInv, CountTyped
    <3> QED
      BY <2>1, <2>2, <3>2, <3>3, <3>4
  <2> QED
    BY <2>1, <2>2, <2>3
<1> QED
  BY CountInvHolds, <1>1, PTL
------------------------------------------------------------------------------
\* HyperLogLog.

\* A register bounds the ranks its sketch has seen there, and is one of them
\* unless it is zero.
HllInv ==
  /\ registers \in [Sketches -> [Registers -> Nat]]
  /\ seen \in [Sketches -> SUBSET Elements]
  /\ \A s \in Sketches, i \in Registers :
       /\ \A e \in seen[s] : RegisterOf[e] = i => RankOf[e] <= registers[s][i]
       /\ registers[s][i] # 0 => \E e \in seen[s] : RegisterOf[e] = i /\ RankOf[e] = registers[s][i]

LEMMA HllNextInv == HllInv /\ [HllNext]_hllVars => HllInv'
<1> SUFFICES ASSUME HllInv, [HllNext]_hllVars PROVE HllInv'
  OBVIOUS
<1> DEFINE Covered(t, n, i) ==
             /\ \A e \in t : RegisterOf[e] = i => RankOf[e] <= n
             /\ n # 0 => \E e \in t : RegisterOf[e] = i /\ RankOf[e] = n
<1>1. /\ registers \in [Sketches -> [Registers -> Nat]] /\ seen \in [Sketches -> SUBSET Elements]
      /\ \A s \in Sketches, i \in Registers : Covered(seen[s], registers[s][i], i)
  BY DEF HllInv
<1>2. ASSUME /\ registers' \in [Sketches -> [Registers -> Nat]]
             /\ seen' \in [Sketches -> SUBSET Elements],
             \A s \in Sketches, i \in Registers : Covered(seen'[s], registers'[s][i], i)
      PROVE  HllInv'
  BY <1>2 DEF HllInv
<1>3. /\ \A e \in Elements : RankOf[e] \in Nat /\ RegisterOf[e] \in Registers
      /\ \A a, b \in Nat : /\ Higher(a, b) \in Nat /\ a <= Higher(a, b) /\ b <= Higher(a, b)
                           /\ Higher(a, b) \in {a, b}
  BY RegistersAssumption DEF Higher
<1> HIDE DEF Covered
<1>4. ASSUME NEW s \in Sketches, HllReset(s) PROVE HllInv'
  <2>1. Zeros \in [Registers -> Nat] /\ \A i \in Registers : Covered({}, Zeros[i], i)
    BY DEF Zeros, Covered
  <2>2. /\ registers' = [registers EXCEPT ![s] = Zeros]
        /\ seen' = [seen EXCEPT ![s] = {}]
    BY <1>4 DEF HllReset
  <2> QED
    BY <1>1, <1>2, <2>1, <2>2
<1>5. ASSUME NEW s \in Sketches, NEW e \in Elements, HllAdd(s, e) PROVE HllInv'
  <2> DEFINE j == RegisterOf[e]
             n == Higher(RankOf[e], registers[s][j])
  <2>1. j \in Registers /\ RankOf[e] \in Nat /\ registers[s][j] \in Nat /\ n \in Nat
    BY <1>1, <1>3
  <2>2. /\ registers' = [registers EXCEPT ![s] = [registers[s] EXCEPT ![j] = n]]
        /\ seen' = [seen EXCEPT ![s] = seen[s] \cup {e}]
    BY <1>5 DEF HllAdd
  <2>3. RankOf[e] <= n /\ registers[s][j] <= n /\ n \in {RankOf[e], registers[s][j]}
    BY <1>3, <2>1
  <2>4. Covered(seen[s], registers[s][j], j)
    BY <1>1, <2>1
  <2>5. Covered(seen[s] \cup {e}, n, j)
    <3>1. ASSUME NEW d \in seen[s] \cup {e}, RegisterOf[d] = j PROVE RankOf[d] <= n
      <4>1. CASE d = e
        BY <2>3, <4>1
      <4>2. CASE d \in seen[s]
        <5>1. RankOf[d] <= registers[s][j] /\ RankOf[d] \in Nat
          BY <1>1, <1>3, <2>4, <3>1, <4>2 DEF Covered
        <5> HIDE DEF n, j
        <5> QED
          BY <2>1, <2>3, <5>1
      <4> QED
        BY <4>1, <4>2
    <3>2. ASSUME n # 0 PROVE \E d \in seen[s] \cup {e} : RegisterOf[d] = j /\ RankOf[d] = n
      BY <2>3, <2>4, <3>2 DEF Covered
    <3> QED
      BY <3>1, <3>2 DEF Covered
  <2>6. ASSUME NEW i \in Registers, i # j PROVE Covered(seen[s] \cup {e}, registers[s][i], i)
    BY <1>1, <2>6 DEF Covered
  <2> HIDE DEF n
  <2> QED
    BY <1>1, <1>2, <2>1, <2>2, <2>5, <2>6
<1>6. ASSUME NEW dst \in Sketches, NEW src \in Sketches, HllMerge(dst, src) PROVE HllInv'
  <2> DEFINE merged == [i \in Registers |-> Higher(registers[src][i], registers[dst][i])]
  <2>1. /\ registers' = [registers EXCEPT ![dst] = merged]
        /\ seen' = [seen EXCEPT ![dst] = seen[dst] \cup seen[src]]
    BY <1>6 DEF HllMerge
  <2>2. \A i \in Registers : registers[src][i] \in Nat /\ registers[dst][i] \in Nat
    BY <1>1
  <2>3. merged \in [Registers -> Nat]
    BY <1>3, <2>2
  <2>4. ASSUME NEW i \in Registers PROVE Covered(seen[dst] \cup seen[src], merged[i], i)
    <3> DEFINE a == registers[src][i]
               b == registers[dst][i]
               n == Higher(a, b)
    <3>1. a \in Nat /\ b \in Nat /\ Covered(seen[src], a, i) /\ Covered(seen[dst], b, i)
      BY <1>1, <2>2
    <3>2. n \in Nat /\ a <= n /\ b <= n /\ n \in {a, b}
      BY <1>3, <3>1
    <3>3. seen[dst] \cup seen[src] \subseteq Elements
      BY <1>1
    <3> HIDE DEF a, b, n
    <3>4. ASSUME NEW d \in seen[dst] \cup seen[src], RegisterOf[d] = i PROVE RankOf[d] <= n
      <4>1. RankOf[d] \in Nat
        BY <1>3, <3>3
      <4>2. RankOf[d] <= a \/ RankOf[d] <= b
        BY <3>1, <3>4 DEF Covered
      <4> QED
        BY <3>1, <3>2, <4>1, <4>2
    <3>5. n # 0 => \E d \in seen[dst] \cup seen[src] : RegisterOf[d] = i /\ RankOf[d] = n
      BY <3>1, <3>2 DEF Covered
    <3>6. Covered(seen[dst] \cup seen[src], n, i)
      BY <3>4, <3>5 DEF Covered
    <3>7. merged[i] = n
      BY DEF a, b, n
    <3> QED
      BY <3>6, <3>7
  <2> HIDE DEF merged
  <2> QED
    BY <1>1, <1>2, <2>1, <2>3, <2>4
<1>7. CASE UNCHANGED hllVars
  BY <1>1, <1>2, <1>7 DEF hllVars
<1> QED
  BY <1>4, <1>5, <1>6, <1>7 DEF HllNext

\* Through any mix of additions, merges and resets, a register is the highest
\* rank of the elements its sketch stands for, whatever the registers and
\* ranks of the elements.
THEOREM RegistersHighest == HllSpec => []RegistersAreHighest
<1>1. HllInit => HllInv
  BY DEF HllInit, HllInv, Zeros
<1>2. HllInv => RegistersAreHighest
  <2> SUFFICES ASSUME HllInv, NEW s \in Sketches, NEW i \in Registers
               PROVE  registers[s][i] = IF Ranks(s, i) = {} THEN 0 ELSE Max(Ranks(s, i))
    BY DEF RegistersAreHighest
  <2> DEFINE n == registers[s][i]
  <2>1. /\ n \in Nat /\ Ranks(s, i) \subseteq Nat
        /\ \A r \in Ranks(s, i) : r <= n
        /\ n # 0 => n \in Ranks(s, i)
    BY RegistersAssumption DEF HllInv, Ranks
  <2> HIDE DEF n
  <2>2. CASE Ranks(s, i) = {}
    BY <2>1, <2>2 DEF n
  <2>3. CASE Ranks(s, i) # {}
    <3>1. n \in Ranks(s, i)
      BY <2>1, <2>3
    <3>2. ASSUME NEW x \in Ranks(s, i), \A y \in Ranks(s, i) : x >= y PROVE x = n
      BY <2>1, <3>1, <3>2
    <3>3. \A y \in Ranks(s, i) : n >= y
      BY <2>1
    <3>4. Max(Ranks(s, i)) = n
      BY <3>1, <3>2, <3>3 DEF Max
    <3> QED
      BY <2>3, <3>4 DEF n
  <2> QED
    BY <2>2, <2>3
<1> QED
  BY <1>1, <1>2, HllNextInv, PTL DEF HllSpec
------------------------------------------------------------------------------
\* The Bloom filters.  First the sum of MapThenSumSet over a finite set S: g[T]
\* is the sum of f over T.

Pick(T) == CHOOSE x \in T : TRUE

Sums(g, f, S) ==
  \A T \in SUBSET S : g[T] = IF T = {} THEN 0 ELSE f[Pick(T)] + g[T \ {Pick(T)}]

LEMMA PickShrinks ==
  ASSUME NEW S, IsFiniteSet(S), NEW T \in SUBSET S, T # {}
  PROVE  /\ Pick(T) \in T /\ T \ {Pick(T)} \in SUBSET S
         /\ Cardinality(T) \in Nat /\ Cardinality(T \ {Pick(T)}) \in Nat
         /\ Cardinality(T \ {Pick(T)}) < Cardinality(T)
<1>1. Pick(T) \in T
  BY DEF Pick
<1>2. IsFiniteSet(T) /\ IsFiniteSet(T \ {Pick(T)})
  BY FS_Subset
<1>3. Cardinality(T \ {Pick(T)}) = Cardinality(T) - 1
  BY <1>1, <1>2, FS_RemoveElement
<1>4. Cardinality(T) \in Nat
  BY <1>2, FS_CardinalityType
<1>5. Cardinality(T \ {Pick(T)}) \in Nat
  BY <1>2, FS_CardinalityType
<1> QED
  BY <1>1, <1>3, <1>4, <1>5

\* Sums exist: the recursion takes one element away at a time.
LEMMA SumsExist ==
  ASSUME NEW S, IsFiniteSet(S), NEW f \in [S -> Nat]
  PROVE  \E g \in [SUBSET S -> Nat] : Sums(g, f, S)
<1> DEFINE D == SUBSET S
           m == [T \in D |-> Cardinality(T)]
           b == [T \in D |-> 0]
           nx == [T \in D |-> T \ {Pick(T)}]
           c == [z \in D \X Nat |-> IF z[1] = {} THEN 0 ELSE f[Pick(z[1])] + z[2]]
<1>1. \A T \in D : Cardinality(T) \in Nat
  BY FS_Subset, FS_CardinalityType
<1>2. \A T \in D : T # {} => Pick(T) \in S
  BY PickShrinks
<1>3. m \in [D -> Nat] /\ b \in [D -> Nat] /\ nx \in [D -> D]
  BY <1>1
<1>4. c \in [D \X Nat -> Nat]
  <2>1. \A z \in D \X Nat : z[1] # {} => f[Pick(z[1])] \in Nat /\ z[2] \in Nat
    BY <1>2
  <2> QED
    BY <2>1
<1>5. \A T \in D : m[T] = 0 <=> T = {}
  BY FS_Subset, FS_EmptySet
<1>6. \A T \in D : m[T] # 0 => m[nx[T]] < m[T]
  BY <1>5, PickShrinks
<1>7. \A T \in D, n \in Nat : T # {} => c[<<T, n>>] = f[Pick(T)] + n
  OBVIOUS
<1>8. \A T \in D : b[T] = 0 /\ nx[T] = T \ {Pick(T)}
  OBVIOUS
<1> HIDE DEF m, b, nx, c
<1>9. PICK g \in [D -> Nat] : Solves(g, D, m, b, nx, c)
  BY <1>3, <1>4, <1>6, Recursion
<1>10. \A T \in D : g[T] = IF T = {} THEN 0 ELSE f[Pick(T)] + g[T \ {Pick(T)}]
  <2> TAKE T \in D
  <2>1. g[T] = IF m[T] = 0 THEN b[T] ELSE c[<<T, g[nx[T]]>>]
    BY <1>9 DEF Solves
  <2>2. g[T \ {Pick(T)}] \in Nat
    BY <1>9
  <2>3. CASE T = {}
    BY <1>5, <1>8, <2>1, <2>3
  <2>4. CASE T # {}
    <3>1. m[T] # 0 /\ nx[T] = T \ {Pick(T)}
      BY <1>5, <1>8, <2>4
    <3> QED
      BY <1>7, <2>1, <2>2, <2>4, <3>1
  <2> QED
    BY <2>3, <2>4
<1> QED
  BY <1>9, <1>10 DEF Sums

\* A sum is a number, and at least each of its parts.
LEMMA SumsAbove ==
  ASSUME NEW S, IsFiniteSet(S), NEW f \in [S -> Nat], NEW g, Sums(g, f, S)
  PROVE  \A T \in SUBSET S : g[T] \in Nat /\ \A y \in T : f[y] <= g[T]
<1> DEFINE D == SUBSET S
           m == [T \in D |-> Cardinality(T)]
           U == {T \in D : g[T] \in Nat /\ \A y \in T : f[y] <= g[T]}
<1>1. m \in [D -> Nat]
  BY FS_Subset, FS_CardinalityType
<1>2. ASSUME NEW T \in D, \A R \in D : m[R] < m[T] => R \in U PROVE T \in U
  <2>1. CASE T = {}
    <3>1. g[T] = 0
      BY <2>1 DEF Sums
    <3> QED
      BY <2>1, <3>1
  <2>2. CASE T # {}
    <3> DEFINE x == Pick(T)
    <3>1. x \in T /\ T \ {x} \in D /\ m[T \ {x}] < m[T]
      BY <2>2, PickShrinks
    <3>2. g[T \ {x}] \in Nat /\ \A y \in T \ {x} : f[y] <= g[T \ {x}]
      BY <1>2, <3>1
    <3>3. g[T] = f[x] + g[T \ {x}] /\ f[x] \in Nat
      BY <2>2, <3>1 DEF Sums
    <3> HIDE DEF x
    <3>4. ASSUME NEW y \in T PROVE f[y] <= g[T]
      <4>1. f[y] \in Nat
        OBVIOUS
      <4>2. y = x \/ f[y] <= g[T \ {x}]
        BY <3>2
      <4> QED
        BY <3>2, <3>3, <4>1, <4>2
    <3> QED
      BY <3>2, <3>3, <3>4
  <2> QED
    BY <2>1, <2>2
<1> HIDE DEF m, U
<1>3. D \subseteq U
  BY <1>1, <1>2, MeasureInduction
<1> QED
  BY <1>3 DEF U

\* A sum changes by as much as the one part of it that changes.
LEMMA SumsChange ==
  ASSUME NEW S, IsFiniteSet(S), NEW f \in [S -> Nat], NEW g, Sums(g, f, S),
         NEW e \in [S -> Nat], NEW h, Sums(h, e, S),
         NEW y \in S, \A x \in S : x # y => e[x] = f[x]
  PROVE  \A T \in SUBSET S : h[T] = IF y \in T THEN g[T] + (e[y] - f[y]) ELSE g[T]
<1> DEFINE D == SUBSET S
           m == [T \in D |-> Cardinality(T)]
           U == {T \in D : h[T] = IF y \in T THEN g[T] + (e[y] - f[y]) ELSE g[T]}
<1>1. m \in [D -> Nat]
  BY FS_Subset, FS_CardinalityType
<1>2. ASSUME NEW T \in D, \A R \in D : m[R] < m[T] => R \in U PROVE T \in U
  <2>1. CASE T = {}
    BY <2>1 DEF Sums
  <2>2. CASE T # {}
    <3> DEFINE x == Pick(T)
               R == T \ {x}
    <3>1. x \in T /\ R \in D /\ m[R] < m[T]
      BY <2>2, PickShrinks
    <3>2. h[R] = IF y \in R THEN g[R] + (e[y] - f[y]) ELSE g[R]
      BY <1>2, <3>1
    <3>3. g[T] = f[x] + g[R] /\ h[T] = e[x] + h[R]
      BY <2>2 DEF Sums
    <3>4. g[R] \in Nat /\ f[x] \in Nat /\ e[x] \in Nat /\ f[y] \in Nat /\ e[y] \in Nat
      BY <3>1, SumsAbove
    <3>5. y \in R <=> y \in T /\ y # x
      OBVIOUS
    <3>6. x # y => e[x] = f[x]
      BY <3>1
    <3> HIDE DEF x, R
    <3>7. h[T] = IF y \in T THEN g[T] + (e[y] - f[y]) ELSE g[T]
      BY <3>1, <3>2, <3>3, <3>4, <3>5, <3>6
    <3> QED
      BY <3>7
  <2> QED
    BY <2>1, <2>2
<1> HIDE DEF m, U
<1>3. D \subseteq U
  BY <1>1, <1>2, MeasureInduction
<1> QED
  BY <1>3 DEF U

\* What a counter should hold, and that MapThenSumSet computes it.
Total(p, i) == MapThenSumSet(LAMBDA e : p[e] * Times(e, i), Elements)

Parts(p, i) == [e \in Elements |-> p[e] * Times(e, i)]

LEMMA TimesType == \A e \in Elements, i \in Positions : Times(e, i) \in Nat
<1> TAKE e \in Elements, i \in Positions
<1>1. PositionsOf[e] \in Seq(Positions)
  BY PositionsAssumption
<1>2. DOMAIN PositionsOf[e] = 1 .. Len(PositionsOf[e]) /\ Len(PositionsOf[e]) \in Nat
  BY <1>1
<1>3. IsFiniteSet(1 .. Len(PositionsOf[e]))
  BY <1>2, FS_Interval
<1>4. IsFiniteSet({k \in DOMAIN PositionsOf[e] : PositionsOf[e][k] = i})
  BY <1>2, <1>3, FS_Subset
<1> QED
  BY <1>4, FS_CardinalityType DEF Times

LEMMA PartsType ==
  ASSUME NEW p \in [Elements -> Nat], NEW i \in Positions
  PROVE  Parts(p, i) \in [Elements -> Nat]
<1>1. \A m, n \in Nat : m * n \in Nat
  OBVIOUS
<1>2. \A e \in Elements : p[e] * Times(e, i) \in Nat
  BY <1>1, TimesType
<1> QED
  BY <1>2 DEF Parts

LEMMA TotalIsSum ==
  ASSUME NEW p \in [Elements -> Nat], NEW i \in Positions
  PROVE  \E g : Sums(g, Parts(p, i), Elements) /\ Total(p, i) = g[Elements]
<1> DEFINE Adding(f) ==
             [s \in SUBSET Elements |->
                IF s = {} THEN 0
                ELSE LET x == CHOOSE y \in s : TRUE
                     IN  (p[x] * Times(x, i)) + f[s \ {x}]]
           g == CHOOSE f : f = Adding(f)
<1>1. Total(p, i) = g[Elements]
  BY DEF Total, MapThenSumSet, MapThenFoldSet
<1>2. \A f : \A s \in SUBSET Elements :
        Adding(f)[s] = IF s = {} THEN 0 ELSE Parts(p, i)[Pick(s)] + f[s \ {Pick(s)}]
  BY DEF Pick, Parts
<1>3. PICK h \in [SUBSET Elements -> Nat] : Sums(h, Parts(p, i), Elements)
  BY PartsType, SumsExist, PositionsAssumption
<1>4. \A f : DOMAIN Adding(f) = SUBSET Elements /\ Adding(f) = [s \in SUBSET Elements |-> Adding(f)[s]]
  OBVIOUS
<1> HIDE DEF Adding
<1>5. h = Adding(h)
  <2>1. \A s \in SUBSET Elements : h[s] = Adding(h)[s]
    BY <1>2, <1>3 DEF Sums
  <2>2. h = [s \in SUBSET Elements |-> h[s]]
    BY <1>3
  <2> QED
    BY <1>4, <2>1, <2>2
<1>6. g = Adding(g)
  BY <1>5
<1> HIDE DEF g
<1>7. Sums(g, Parts(p, i), Elements)
  BY <1>2, <1>6 DEF Sums
<1> QED
  BY <1>1, <1>7

\* How many of the first k hashes of e are i.
TimesTo(e, i, k) == Cardinality({j \in 1 .. k : PositionsOf[e][j] = i})

LEMMA TimesToGrow ==
  ASSUME NEW e \in Elements, NEW i \in Positions
  PROVE  /\ TimesTo(e, i, 0) = 0
         /\ \A k \in Nat : k + 1 <= Len(PositionsOf[e]) =>
              /\ TimesTo(e, i, k) \in Nat /\ TimesTo(e, i, k + 1) \in Nat
              /\ TimesTo(e, i, k + 1) = IF PositionsOf[e][k + 1] = i THEN TimesTo(e, i, k) + 1
                                        ELSE TimesTo(e, i, k)
              /\ TimesTo(e, i, k + 1) <= Times(e, i)
<1> DEFINE s == PositionsOf[e]
           At(k) == {j \in 1 .. k : s[j] = i}
<1>1. Len(s) \in Nat /\ DOMAIN s = 1 .. Len(s)
  BY PositionsAssumption
<1>2. \A k \in Nat : IsFiniteSet(At(k)) /\ Cardinality(At(k)) \in Nat
  <2> TAKE k \in Nat
  <2>1. IsFiniteSet(1 .. k)
    BY FS_Interval
  <2>2. IsFiniteSet(At(k))
    BY <2>1, FS_Subset
  <2> QED
    BY <2>2, FS_CardinalityType
<1>3. At(0) = {}
  OBVIOUS
<1>4. ASSUME NEW k \in Nat
      PROVE  Cardinality(At(k + 1)) = IF s[k + 1] = i THEN Cardinality(At(k)) + 1
                                      ELSE Cardinality(At(k))
  <2>1. 1 .. k + 1 = 1 .. k \cup {k + 1} /\ k + 1 \notin 1 .. k
    OBVIOUS
  <2>2. CASE s[k + 1] = i
    <3>1. At(k + 1) = At(k) \cup {k + 1} /\ k + 1 \notin At(k)
      BY <2>1, <2>2
    <3> HIDE DEF At
    <3> QED
      BY <1>2, <2>2, <3>1, FS_AddElement
  <2>3. CASE s[k + 1] # i
    <3>1. At(k + 1) = At(k)
      BY <2>1, <2>3
    <3> QED
      BY <2>3, <3>1
  <2> QED
    BY <2>2, <2>3
<1>5. ASSUME NEW k \in Nat, k + 1 <= Len(s) PROVE Cardinality(At(k + 1)) <= Times(e, i)
  <2>1. At(k + 1) \subseteq At(Len(s))
    BY <1>1, <1>5
  <2>2. Times(e, i) = Cardinality(At(Len(s)))
    BY <1>1 DEF Times
  <2> HIDE DEF At
  <2> QED
    BY <1>1, <1>2, <2>1, <2>2, FS_Subset
<1>6. \A k \in Nat : TimesTo(e, i, k) = Cardinality(At(k)) /\ k + 1 \in Nat
  BY DEF TimesTo
<1> HIDE DEF At
<1>7. TimesTo(e, i, 0) = 0
  BY <1>3, <1>6, FS_EmptySet
<1> QED
  BY <1>2, <1>4, <1>5, <1>6, <1>7

\* What cbloom_add and cbloom_remove do to a counter.
LEMMA Increments ==
  ASSUME counts \in [Positions -> Nat], NEW e \in Elements
  PROVE  /\ AllIncremented(e) \in [Positions -> Nat]
         /\ \A i \in Positions : counts[i] + Times(e, i) <= Saturation
              => AllIncremented(e)[i] = counts[i] + Times(e, i)
<1> DEFINE s == PositionsOf[e]
           n == Len(s)
           V == [Positions -> Nat]
           Loop(f) == [k \in 0 .. Len(PositionsOf[e]) |->
                         IF k = 0 THEN counts ELSE Incremented(f[k - 1], PositionsOf[e][k])]
           c == CHOOSE f : f = Loop(f)
           step == [z \in (1 .. n) \X V |-> Incremented(z[2], s[z[1]])]
<1>1. n \in Nat /\ \A k \in 1 .. n : s[k] \in Positions
  BY PositionsAssumption
<1>2. ASSUME NEW v \in V, NEW p \in Positions
      PROVE  /\ Incremented(v, p) \in V
             /\ \A i \in Positions : i # p => Incremented(v, p)[i] = v[i]
             /\ v[p] < Saturation => Incremented(v, p)[p] = v[p] + 1
  BY PositionsAssumption DEF Incremented
<1>3. step \in [(1 .. n) \X V -> V] /\ \A k \in 1 .. n, v \in V : step[<<k, v>>] = Incremented(v, s[k])
  <2>1. \A z \in (1 .. n) \X V : z[1] \in 1 .. n /\ z[2] \in V
    OBVIOUS
  <2> HIDE DEF n, s
  <2>2. \A z \in (1 .. n) \X V : Incremented(z[2], s[z[1]]) \in V
    BY <1>1, <1>2, <2>1
  <2> QED
    BY <2>2
<1> HIDE DEF step
<1>14. PICK f \in [0 .. n -> V] : Iteration(f, n, counts, step)
  <2>1. counts \in V
    OBVIOUS
  <2> HIDE DEF V, n
  <2> QED
    BY <1>1, <1>3, <2>1, Iterates
<1>4. f[0] = counts /\ \A k \in 1 .. n : f[k] = step[<<k, f[k - 1]>>]
  BY <1>14 DEF Iteration
<1>5. f = Loop(f)
  <2>1. ASSUME NEW k \in 0 .. n PROVE f[k] = Loop(f)[k]
    <3>1. CASE k = 0
      BY <1>4, <3>1
    <3>2. CASE k # 0
      <4>1. k \in 1 .. n /\ k - 1 \in 0 .. n
        BY <1>1, <3>2
      <4>2. f[k - 1] \in V
        BY <4>1
      <4>3. f[k] = Incremented(f[k - 1], s[k])
        BY <1>3, <1>4, <4>1, <4>2
      <4> QED
        BY <3>2, <4>3
    <3> QED
      BY <3>1, <3>2
  <2>2. f = [k \in 0 .. n |-> f[k]]
    OBVIOUS
  <2> QED
    BY <2>1, <2>2
<1>6. c = Loop(c)
  <2> HIDE DEF Loop
  <2> QED
    BY <1>5
<1>7. AllIncremented(e) = c[n]
  BY DEF AllIncremented
<1>8. c[0] = counts /\ \A k \in 1 .. n : c[k] = Incremented(c[k - 1], s[k])
  <2>1. \A k \in 0 .. n : c[k] = IF k = 0 THEN counts ELSE Incremented(c[k - 1], s[k])
    <3> HIDE DEF c
    <3> QED
      BY <1>6
  <2>2. 0 \in 0 .. n /\ \A k \in 1 .. n : k \in 0 .. n /\ k # 0
    BY <1>1
  <2> HIDE DEF c, n, s
  <2> QED
    BY <2>1, <2>2
<1> HIDE DEF c, Loop
<1> DEFINE Right(k) ==
             /\ c[k] \in V
             /\ \A i \in Positions : counts[i] + Times(e, i) <= Saturation
                  => c[k][i] = counts[i] + TimesTo(e, i, k)
           U == {k \in Nat : k <= n => Right(k)}
<1>9. 0 \in U
  BY <1>8, TimesToGrow DEF Right
<1>10. ASSUME NEW k \in Nat, k \in U PROVE k + 1 \in U
  <2> SUFFICES ASSUME k + 1 <= n PROVE Right(k + 1)
    OBVIOUS
  <2>1. k + 1 \in 1 .. n /\ (k + 1) - 1 = k /\ k <= n
    BY <1>1
  <2>2. Right(k) /\ c[k + 1] = Incremented(c[k], s[k + 1]) /\ s[k + 1] \in Positions
    BY <1>1, <1>8, <1>10, <2>1
  <2>3. c[k] \in V /\ c[k + 1] \in V
    <3>1. c[k] \in V
      BY <2>2
    <3> HIDE DEF V
    <3>2. Incremented(c[k], s[k + 1]) \in V
      BY <1>2, <2>2, <3>1
    <3> QED
      BY <2>2, <3>1, <3>2
  <2>4. /\ \A i \in Positions : i # s[k + 1] => c[k + 1][i] = c[k][i]
        /\ c[k][s[k + 1]] < Saturation => c[k + 1][s[k + 1]] = c[k][s[k + 1]] + 1
    <3> DEFINE v == c[k]
               p == s[k + 1]
    <3>1. v \in V /\ p \in Positions /\ c[k + 1] = Incremented(v, p)
      BY <2>2
    <3> HIDE DEF v, p
    <3> HIDE DEF V
    <3>2. /\ \A i \in Positions : i # p => Incremented(v, p)[i] = v[i]
          /\ v[p] < Saturation => Incremented(v, p)[p] = v[p] + 1
      BY <1>2, <3>1
    <3> QED
      BY <3>1, <3>2 DEF v, p
  <2>5. ASSUME NEW i \in Positions, counts[i] + Times(e, i) <= Saturation
        PROVE  c[k + 1][i] = counts[i] + TimesTo(e, i, k + 1)
    <3>1. c[k][i] = counts[i] + TimesTo(e, i, k)
      BY <2>2, <2>5
    <3>2. /\ TimesTo(e, i, k) \in Nat /\ TimesTo(e, i, k + 1) \in Nat
          /\ TimesTo(e, i, k + 1) = IF s[k + 1] = i THEN TimesTo(e, i, k) + 1 ELSE TimesTo(e, i, k)
          /\ TimesTo(e, i, k + 1) <= Times(e, i) /\ Times(e, i) \in Nat
      BY <2>1, TimesToGrow, TimesType
    <3>3. c[k][i] \in Nat /\ counts[i] \in Nat
      BY <2>3
    <3>4. CASE s[k + 1] = i
      <4>1. c[k][i] < Saturation
        BY <2>5, <3>1, <3>2, <3>3, <3>4, PositionsAssumption
      <4>2. c[k + 1][i] = c[k][i] + 1
        BY <2>4, <3>4, <4>1
      <4> QED
        BY <3>1, <3>2, <3>3, <3>4, <4>2
    <3>5. CASE s[k + 1] # i
      <4>1. c[k + 1][i] = c[k][i]
        BY <2>4, <2>3, <3>5
      <4> QED
        BY <3>1, <3>2, <3>5, <4>1
    <3> QED
      BY <3>4, <3>5
  <2> QED
    BY <2>3, <2>5
<1> HIDE DEF U
<1>11. Nat \subseteq U
  BY <1>9, <1>10, Induction
<1>12. Right(n)
  BY <1>1, <1>11 DEF U
<1>13. \A i \in Positions : TimesTo(e, i, n) = Times(e, i)
  <2>1. DOMAIN s = 1 .. n
    BY PositionsAssumption
  <2> QED
    BY <2>1 DEF TimesTo, Times
<1> QED
  BY <1>7, <1>12, <1>13

LEMMA Decrements ==
  ASSUME counts \in [Positions -> Nat], NEW e \in Elements
  PROVE  /\ AllDecremented(e) \in [Positions -> Nat]
         /\ \A i \in Positions : Times(e, i) <= counts[i]
              => AllDecremented(e)[i] = counts[i] - Times(e, i)
<1> DEFINE s == PositionsOf[e]
           n == Len(s)
           V == [Positions -> Nat]
           Loop(f) == [k \in 0 .. Len(PositionsOf[e]) |->
                         IF k = 0 THEN counts ELSE Decremented(f[k - 1], PositionsOf[e][k])]
           c == CHOOSE f : f = Loop(f)
           step == [z \in (1 .. n) \X V |-> Decremented(z[2], s[z[1]])]
<1>1. n \in Nat /\ \A k \in 1 .. n : s[k] \in Positions
  BY PositionsAssumption
<1>2. ASSUME NEW v \in V, NEW p \in Positions
      PROVE  /\ Decremented(v, p) \in V
             /\ \A i \in Positions : i # p => Decremented(v, p)[i] = v[i]
             /\ v[p] > 0 => Decremented(v, p)[p] = v[p] - 1
  BY PositionsAssumption DEF Decremented
<1>3. step \in [(1 .. n) \X V -> V] /\ \A k \in 1 .. n, v \in V : step[<<k, v>>] = Decremented(v, s[k])
  <2>1. \A z \in (1 .. n) \X V : z[1] \in 1 .. n /\ z[2] \in V
    OBVIOUS
  <2> HIDE DEF n, s
  <2>2. \A z \in (1 .. n) \X V : Decremented(z[2], s[z[1]]) \in V
    BY <1>1, <1>2, <2>1
  <2> QED
    BY <2>2
<1> HIDE DEF step
<1>14. PICK f \in [0 .. n -> V] : Iteration(f, n, counts, step)
  <2>1. counts \in V
    OBVIOUS
  <2> HIDE DEF V, n
  <2> QED
    BY <1>1, <1>3, <2>1, Iterates
<1>4. f[0] = counts /\ \A k \in 1 .. n : f[k] = step[<<k, f[k - 1]>>]
  BY <1>14 DEF Iteration
<1>5. f = Loop(f)
  <2>1. ASSUME NEW k \in 0 .. n PROVE f[k] = Loop(f)[k]
    <3>1. CASE k = 0
      BY <1>4, <3>1
    <3>2. CASE k # 0
      <4>1. k \in 1 .. n /\ k - 1 \in 0 .. n
        BY <1>1, <3>2
      <4>2. f[k - 1] \in V
        BY <4>1
      <4>3. f[k] = Decremented(f[k - 1], s[k])
        BY <1>3, <1>4, <4>1, <4>2
      <4> QED
        BY <3>2, <4>3
    <3> QED
      BY <3>1, <3>2
  <2>2. f = [k \in 0 .. n |-> f[k]]
    OBVIOUS
  <2> QED
    BY <2>1, <2>2
<1>6. c = Loop(c)
  <2> HIDE DEF Loop
  <2> QED
    BY <1>5
<1>7. AllDecremented(e) = c[n]
  BY DEF AllDecremented
<1>8. c[0] = counts /\ \A k \in 1 .. n : c[k] = Decremented(c[k - 1], s[k])
  <2>1. \A k \in 0 .. n : c[k] = IF k = 0 THEN counts ELSE Decremented(c[k - 1], s[k])
    <3> HIDE DEF c
    <3> QED
      BY <1>6
  <2>2. 0 \in 0 .. n /\ \A k \in 1 .. n : k \in 0 .. n /\ k # 0
    BY <1>1
  <2> HIDE DEF c, n, s
  <2> QED
    BY <2>1, <2>2
<1> HIDE DEF c, Loop
<1> DEFINE Right(k) ==
             /\ c[k] \in V
             /\ \A i \in Positions : Times(e, i) <= counts[i]
                  => c[k][i] = counts[i] - TimesTo(e, i, k)
           U == {k \in Nat : k <= n => Right(k)}
<1>9. 0 \in U
  BY <1>8, TimesToGrow DEF Right
<1>10. ASSUME NEW k \in Nat, k \in U PROVE k + 1 \in U
  <2> SUFFICES ASSUME k + 1 <= n PROVE Right(k + 1)
    OBVIOUS
  <2>1. k + 1 \in 1 .. n /\ (k + 1) - 1 = k /\ k <= n
    BY <1>1
  <2>2. Right(k) /\ c[k + 1] = Decremented(c[k], s[k + 1]) /\ s[k + 1] \in Positions
    BY <1>1, <1>8, <1>10, <2>1
  <2>3. c[k] \in V /\ c[k + 1] \in V
    <3>1. c[k] \in V
      BY <2>2
    <3> HIDE DEF V
    <3>2. Decremented(c[k], s[k + 1]) \in V
      BY <1>2, <2>2, <3>1
    <3> QED
      BY <2>2, <3>1, <3>2
  <2>4. /\ \A i \in Positions : i # s[k + 1] => c[k + 1][i] = c[k][i]
        /\ c[k][s[k + 1]] > 0 => c[k + 1][s[k + 1]] = c[k][s[k + 1]] - 1
    <3> DEFINE v == c[k]
               p == s[k + 1]
    <3>1. v \in V /\ p \in Positions /\ c[k + 1] = Decremented(v, p)
      BY <2>2
    <3> HIDE DEF v, p
    <3> HIDE DEF V
    <3>2. /\ \A i \in Positions : i # p => Decremented(v, p)[i] = v[i]
          /\ v[p] > 0 => Decremented(v, p)[p] = v[p] - 1
      BY <1>2, <3>1
    <3> QED
      BY <3>1, <3>2 DEF v, p
  <2>5. ASSUME NEW i \in Positions, Times(e, i) <= counts[i]
        PROVE  c[k + 1][i] = counts[i] - TimesTo(e, i, k + 1)
    <3>1. c[k][i] = counts[i] - TimesTo(e, i, k)
      BY <2>2, <2>5
    <3>2. /\ TimesTo(e, i, k) \in Nat /\ TimesTo(e, i, k + 1) \in Nat
          /\ TimesTo(e, i, k + 1) = IF s[k + 1] = i THEN TimesTo(e, i, k) + 1 ELSE TimesTo(e, i, k)
          /\ TimesTo(e, i, k + 1) <= Times(e, i) /\ Times(e, i) \in Nat
      BY <2>1, TimesToGrow, TimesType
    <3>3. c[k][i] \in Nat /\ counts[i] \in Nat
      BY <2>3
    <3>4. CASE s[k + 1] = i
      <4>1. c[k][i] > 0
        BY <2>5, <3>1, <3>2, <3>3, <3>4, PositionsAssumption
      <4>2. c[k + 1][i] = c[k][i] - 1
        BY <2>4, <3>4, <4>1
      <4> QED
        BY <3>1, <3>2, <3>3, <3>4, <4>2
    <3>5. CASE s[k + 1] # i
      <4>1. c[k + 1][i] = c[k][i]
        BY <2>4, <2>3, <3>5
      <4> QED
        BY <3>1, <3>2, <3>5, <4>1
    <3> QED
      BY <3>4, <3>5
  <2> QED
    BY <2>3, <2>5
<1> HIDE DEF U
<1>11. Nat \subseteq U
  BY <1>9, <1>10, Induction
<1>12. Right(n)
  BY <1>1, <1>11 DEF U
<1>13. \A i \in Positions : TimesTo(e, i, n) = Times(e, i)
  <2>1. DOMAIN s = 1 .. n
    BY PositionsAssumption
  <2> QED
    BY <2>1 DEF TimesTo, Times
<1> QED
  BY <1>7, <1>12, <1>13

\* The types; what was added to the filter is found in it; and until it is
\* spoiled every counter of the other one holds the total.
BloomType ==
  /\ counts \in [Positions -> Nat]
  /\ present \in [Elements -> Nat]
  /\ inFilter \subseteq Elements
  /\ spoiled \in BOOLEAN

BloomInv ==
  /\ BloomType
  /\ \A e \in inFilter : Test(e)
  /\ ~spoiled => \A i \in Positions : counts[i] = Total(present, i)

\* The total counts each hash of what is present, and follows additions and
\* removals.
LEMMA TotalFacts ==
  ASSUME NEW p \in [Elements -> Nat], NEW q \in [Elements -> Nat], NEW e \in Elements,
         \A d \in Elements : d # e => q[d] = p[d], NEW i \in Positions
  PROVE  /\ Total(p, i) \in Nat
         /\ p[e] * Times(e, i) <= Total(p, i)
         /\ Total(q, i) = Total(p, i) + (q[e] * Times(e, i) - p[e] * Times(e, i))
<1>1. PICK g : Sums(g, Parts(p, i), Elements) /\ Total(p, i) = g[Elements]
  BY TotalIsSum
<1>2. PICK h : Sums(h, Parts(q, i), Elements) /\ Total(q, i) = h[Elements]
  BY TotalIsSum
<1>3. Parts(p, i) \in [Elements -> Nat] /\ Parts(q, i) \in [Elements -> Nat]
  BY PartsType
<1>4. \A d \in Elements : d # e => Parts(q, i)[d] = Parts(p, i)[d]
  BY DEF Parts
<1>5. Parts(p, i)[e] = p[e] * Times(e, i) /\ Parts(q, i)[e] = q[e] * Times(e, i)
  BY DEF Parts
<1>6. g[Elements] \in Nat /\ Parts(p, i)[e] <= g[Elements]
  BY <1>1, <1>3, SumsAbove, PositionsAssumption
<1>7. h[Elements] = g[Elements] + (Parts(q, i)[e] - Parts(p, i)[e])
  <2> DEFINE u == Parts(p, i)
             v == Parts(q, i)
  <2>1. /\ IsFiniteSet(Elements) /\ u \in [Elements -> Nat] /\ v \in [Elements -> Nat]
        /\ Sums(g, u, Elements) /\ Sums(h, v, Elements)
        /\ \A d \in Elements : d # e => v[d] = u[d]
    BY <1>1, <1>2, <1>3, <1>4, PositionsAssumption
  <2> HIDE DEF u, v
  <2>2. \A T \in SUBSET Elements : h[T] = IF e \in T THEN g[T] + (v[e] - u[e]) ELSE g[T]
    BY <2>1, SumsChange
  <2> QED
    BY <2>2 DEF u, v
<1> QED
  BY <1>1, <1>2, <1>5, <1>6, <1>7

LEMMA TotalOfNone ==
  ASSUME NEW p \in [Elements -> Nat], \A e \in Elements : p[e] = 0, NEW i \in Positions
  PROVE  Total(p, i) = 0
<1>1. PICK g : Sums(g, Parts(p, i), Elements) /\ Total(p, i) = g[Elements]
  BY TotalIsSum
<1> DEFINE m == [T \in SUBSET Elements |-> Cardinality(T)]
           U == {T \in SUBSET Elements : g[T] = 0}
<1>2. \A e \in Elements : Parts(p, i)[e] = 0
  <2>1. \A n \in Nat : 0 * n = 0
    OBVIOUS
  <2> QED
    BY <2>1, TimesType DEF Parts
<1>3. m \in [SUBSET Elements -> Nat]
  BY PositionsAssumption, FS_Subset, FS_CardinalityType
<1>4. ASSUME NEW T \in SUBSET Elements, \A R \in SUBSET Elements : m[R] < m[T] => R \in U
      PROVE  T \in U
  <2>1. CASE T = {}
    BY <1>1, <2>1 DEF Sums
  <2>2. CASE T # {}
    <3>1. Pick(T) \in T /\ T \ {Pick(T)} \in SUBSET Elements /\ m[T \ {Pick(T)}] < m[T]
      BY <2>2, PickShrinks, PositionsAssumption
    <3>2. g[T \ {Pick(T)}] = 0
      BY <1>4, <3>1
    <3>3. g[T] = Parts(p, i)[Pick(T)] + g[T \ {Pick(T)}]
      BY <1>1, <2>2 DEF Sums
    <3> QED
      BY <1>2, <3>1, <3>2, <3>3
  <2> QED
    BY <2>1, <2>2
<1> HIDE DEF m, U
<1>5. SUBSET Elements \subseteq U
  BY <1>3, <1>4, MeasureInduction
<1> QED
  BY <1>1, <1>5 DEF U

LEMMA BloomInitInv == BloomInit => BloomInv
<1> SUFFICES ASSUME BloomInit PROVE BloomInv
  OBVIOUS
<1>1. present \in [Elements -> Nat] /\ \A e \in Elements : present[e] = 0
  BY DEF BloomInit
<1>2. \A i \in Positions : counts[i] = 0 /\ Total(present, i) = 0
  BY <1>1, TotalOfNone DEF BloomInit
<1> QED
  BY <1>2 DEF BloomInit, BloomInv, BloomType

LEMMA AddKeeps ==
  ASSUME BloomInv, NEW e \in Elements, Add(e)
  PROVE  BloomInv'
<1>1. BloomType'
  BY DEF BloomInv, BloomType, Add
<1>2. ASSUME NEW d \in inFilter' PROVE Test(d)'
  <2>1. bits \subseteq bits' /\ Range(PositionsOf[e]) \subseteq bits'
    BY DEF Add
  <2>2. CASE d = e
    BY <2>1, <2>2 DEF Test, Range
  <2>3. CASE d \in inFilter
    BY <2>1, <2>3 DEF Test, BloomInv
  <2> QED
    BY <2>2, <2>3 DEF Add
<1>3. ~spoiled' => \A i \in Positions : counts'[i] = Total(present', i)
  BY DEF Add, BloomInv
<1> QED
  BY <1>1, <1>2, <1>3 DEF BloomInv

LEMMA CountingAddKeeps ==
  ASSUME BloomInv, NEW e \in Elements, CountingAdd(e)
  PROVE  BloomInv'
<1>1. /\ counts' = AllIncremented(e) /\ present' = [present EXCEPT ![e] = present[e] + 1]
      /\ spoiled' = (spoiled \/ \E i \in Positions : counts[i] + Times(e, i) > Saturation)
      /\ bits' = bits /\ inFilter' = inFilter
  BY DEF CountingAdd
<1>2. BloomType
  BY DEF BloomInv
<1>3. present[e] \in Nat /\ present' \in [Elements -> Nat] /\ present'[e] = present[e] + 1
      /\ \A d \in Elements : d # e => present'[d] = present[d]
  BY <1>1, <1>2 DEF BloomType
<1>4. BloomType'
  <2>1. counts' \in [Positions -> Nat]
    BY <1>1, <1>2, Increments DEF BloomType
  <2> QED
    BY <1>1, <1>2, <1>3, <2>1 DEF BloomType
<1>5. \A d \in inFilter' : Test(d)'
  BY <1>1 DEF BloomInv, Test
<1>6. ASSUME ~spoiled', NEW i \in Positions PROVE counts'[i] = Total(present', i)
  <2>1. counts[i] = Total(present, i)
    BY <1>1, <1>6 DEF BloomInv
  <2>2. counts[i] \in Nat /\ Times(e, i) \in Nat /\ Saturation \in Nat
    BY <1>2, TimesType, PositionsAssumption DEF BloomType
  <2>3. counts[i] + Times(e, i) <= Saturation
    <3>1. ~(counts[i] + Times(e, i) > Saturation)
      BY <1>1, <1>6
    <3> QED
      BY <2>2, <3>1
  <2>4. counts'[i] = counts[i] + Times(e, i)
    BY <1>1, <1>2, <2>3, Increments DEF BloomType
  <2>5. Total(present', i) =
          Total(present, i) + (present'[e] * Times(e, i) - present[e] * Times(e, i))
    BY <1>2, <1>3, TotalFacts DEF BloomType
  <2>6. \A m, n \in Nat : (m + 1) * n - m * n = n
    OBVIOUS
  <2>7. present'[e] * Times(e, i) - present[e] * Times(e, i) = Times(e, i)
    BY <1>3, <2>2, <2>6
  <2> QED
    BY <2>1, <2>4, <2>5, <2>7
<1> QED
  BY <1>4, <1>5, <1>6 DEF BloomInv

LEMMA CountingRemoveKeeps ==
  ASSUME BloomInv, NEW e \in Elements, CountingRemove(e)
  PROVE  BloomInv'
<1>1. /\ counts' = AllDecremented(e)
      /\ present' = [present EXCEPT ![e] = IF present[e] > 0 THEN present[e] - 1 ELSE present[e]]
      /\ spoiled' = (spoiled \/ present[e] = 0)
      /\ bits' = bits /\ inFilter' = inFilter
  BY DEF CountingRemove
<1>2. BloomType
  BY DEF BloomInv
<1>3. present[e] \in Nat /\ present' \in [Elements -> Nat]
      /\ present'[e] = (IF present[e] > 0 THEN present[e] - 1 ELSE present[e])
      /\ \A d \in Elements : d # e => present'[d] = present[d]
  BY <1>1, <1>2 DEF BloomType
<1>4. BloomType'
  <2>1. counts' \in [Positions -> Nat]
    BY <1>1, <1>2, Decrements DEF BloomType
  <2> QED
    BY <1>1, <1>2, <1>3, <2>1 DEF BloomType
<1>5. \A d \in inFilter' : Test(d)'
  BY <1>1 DEF BloomInv, Test
<1>6. ASSUME ~spoiled', NEW i \in Positions PROVE counts'[i] = Total(present', i)
  <2>1. counts[i] = Total(present, i) /\ present[e] > 0 /\ present'[e] = present[e] - 1
    <3>1. ~spoiled /\ present[e] # 0
      BY <1>1, <1>6, Zenon
    <3>2. counts[i] = Total(present, i)
      BY <3>1 DEF BloomInv
    <3> QED
      BY <1>3, <3>1, <3>2
  <2>2. counts[i] \in Nat /\ Times(e, i) \in Nat
    BY <1>2, TimesType DEF BloomType
  <2>3. \A m, n \in Nat : m > 0 => (m - 1) * n - m * n = 0 - n /\ n <= m * n
    <3> TAKE m \in Nat, n \in Nat
    <3> HAVE m > 0
    <3>1. m * n = (m - 1) * n + n
      OBVIOUS
    <3>2. (m - 1) * n \in Nat
      <4>1. \A a, b \in Nat : a * b \in Nat
        OBVIOUS
      <4>2. m - 1 \in Nat
        OBVIOUS
      <4> QED
        BY <4>1, <4>2
    <3> QED
      BY <3>1, <3>2
  <2>4. /\ Total(present, i) \in Nat /\ present[e] * Times(e, i) <= Total(present, i)
        /\ Total(present', i) =
             Total(present, i) + (present'[e] * Times(e, i) - present[e] * Times(e, i))
    BY <1>2, <1>3, TotalFacts DEF BloomType
  <2>5. /\ present'[e] * Times(e, i) - present[e] * Times(e, i) = 0 - Times(e, i)
        /\ Times(e, i) <= present[e] * Times(e, i)
    BY <1>3, <2>1, <2>2, <2>3
  <2>6. Times(e, i) <= counts[i]
    <3>1. present[e] * Times(e, i) \in Nat
      <4>1. \A a, b \in Nat : a * b \in Nat
        OBVIOUS
      <4> QED
        BY <1>3, <2>2, <4>1
    <3> QED
      BY <2>1, <2>2, <2>4, <2>5, <3>1
  <2>7. counts'[i] = counts[i] - Times(e, i)
    BY <1>1, <1>2, <2>6, Decrements DEF BloomType
  <2> QED
    BY <2>1, <2>2, <2>4, <2>5, <2>7
<1> QED
  BY <1>4, <1>5, <1>6 DEF BloomInv

\* No element that was added to a Bloom filter is missed; and a counting
\* filter counts exactly the hashes of what is present in it, and so finds it,
\* as long as no counter has stopped and nothing absent was removed: whatever
\* the hashes, also those that hit one place twice.
THEOREM FiltersKeep == BloomSpec => []FiltersKeepWhatWasAdded
<1>1. BloomInv /\ [BloomNext]_bloomVars => BloomInv'
  <2> SUFFICES ASSUME BloomInv, [BloomNext]_bloomVars PROVE BloomInv'
    OBVIOUS
  <2>1. CASE UNCHANGED bloomVars
    BY <2>1 DEF bloomVars, BloomInv, BloomType, Test
  <2> QED
    BY <2>1, AddKeeps, CountingAddKeeps, CountingRemoveKeeps DEF BloomNext
<1>2. BloomInv => FiltersKeepWhatWasAdded
  <2> SUFFICES ASSUME BloomInv PROVE FiltersKeepWhatWasAdded
    OBVIOUS
  <2>1. ASSUME ~spoiled, NEW e \in Elements, present[e] > 0 PROVE CountingTest(e)
    <3> SUFFICES ASSUME NEW k \in DOMAIN PositionsOf[e] PROVE counts[PositionsOf[e][k]] # 0
      BY DEF CountingTest
    <3> DEFINE i == PositionsOf[e][k]
    <3>1. i \in Positions
      BY PositionsAssumption
    <3>2. Times(e, i) \in Nat /\ Times(e, i) # 0
      <4>1. DOMAIN PositionsOf[e] = 1 .. Len(PositionsOf[e]) /\ Len(PositionsOf[e]) \in Nat
        BY PositionsAssumption
      <4>2. IsFiniteSet(1 .. Len(PositionsOf[e]))
        BY <4>1, FS_Interval
      <4>3. IsFiniteSet({j \in DOMAIN PositionsOf[e] : PositionsOf[e][j] = i})
        BY <4>1, <4>2, FS_Subset
      <4>4. k \in {j \in DOMAIN PositionsOf[e] : PositionsOf[e][j] = i}
        OBVIOUS
      <4>5. Times(e, i) # 0
        BY <4>3, <4>4, FS_EmptySet DEF Times
      <4> QED
        BY <3>1, <4>5, TimesType
    <3>3. present \in [Elements -> Nat] /\ present[e] \in Nat
      BY DEF BloomInv, BloomType
    <3>4. Total(present, i) \in Nat /\ present[e] * Times(e, i) <= Total(present, i)
      BY <3>1, <3>3, TotalFacts
    <3>5. \A m, n \in Nat : m > 0 /\ n # 0 => m * n \in Nat /\ m * n # 0
      OBVIOUS
    <3>6. present[e] * Times(e, i) \in Nat /\ present[e] * Times(e, i) # 0
      BY <2>1, <3>2, <3>3, <3>5
    <3>7. counts[i] = Total(present, i)
      BY <2>1, <3>1 DEF BloomInv
    <3> QED
      BY <3>4, <3>6, <3>7
  <2> QED
    BY <2>1 DEF BloomInv, FiltersKeepWhatWasAdded, Total
<1> QED
  BY BloomInitInv, <1>1, <1>2, PTL DEF BloomSpec

\* No mix of calls makes HyperLogLog or a Bloom filter forget what it was given.
THEOREM SketchesKeep == HllSpec /\ BloomSpec => []SketchesKeepWhatWasAdded
BY RegistersHighest, FiltersKeep, PTL DEF SketchesKeepWhatWasAdded
------------------------------------------------------------------------------
\* The skip list, for any number of keys and of levels: it implements the
\* dictionary, whatever levels the dice give, and a range is walked right.

CONSTANTS MaxKey, Vals, MaxLevel

VARIABLES forward, val, curLevel, skipSize, skipCall

Skip == INSTANCE SkipList WITH size <- skipSize, call <- skipCall

SkipKeys == 1 .. MaxKey
SkipNodes == 0 .. MaxKey
SkipLevels == 1 .. MaxLevel
SkipTargets == 0 .. MaxKey + 1

\* f links the members of S in ascending order, from the header on, and
\* nothing else.
Chains(f, S) ==
  /\ f \in [SkipNodes -> SkipTargets] /\ S \in SUBSET SkipKeys
  /\ \A n \in SkipNodes : n \in S \cup {0} =>
       /\ n < f[n] /\ f[n] \in S \cup {MaxKey + 1}
       /\ \A m \in S : n < m => f[n] <= m
  /\ \A n \in SkipNodes : n \notin S \cup {0} => f[n] = MaxKey + 1

\* u is the last node of the chain of S before k.
Precedes(u, S, k) == u \in S \cup {0} /\ u < k /\ \A m \in S : m < k => m <= u

\* The members of the levels: every level is part of the one below.
Leveled(f, M, top) ==
  /\ f \in [SkipLevels -> [SkipNodes -> SkipTargets]]
  /\ M \in [SkipLevels -> SUBSET SkipKeys]
  /\ \A i \in SkipLevels : Chains(f[i], M[i])
  /\ \A i, j \in SkipLevels : i <= j => M[j] \subseteq M[i]
  /\ top \in SkipLevels /\ \A i \in SkipLevels : i > top => M[i] = {}

\* The levels, bottom first, are chains of ever fewer of the keys held.
SkipInv ==
  \E M : /\ Leveled(forward, M, curLevel)
         /\ val \in [M[1] -> Vals] /\ skipSize = Cardinality(M[1])

LEMMA SkipNodesAre ==
  ASSUME MaxKey \in Nat
  PROVE  /\ SkipNodes \subseteq Nat /\ SkipKeys \subseteq SkipNodes /\ 0 \in SkipNodes
         /\ SkipTargets \subseteq Nat /\ SkipKeys \subseteq SkipTargets /\ MaxKey + 1 \in SkipTargets
         /\ \A n \in SkipTargets : n # MaxKey + 1 => n \in SkipNodes
         /\ \A n \in SkipNodes : n < MaxKey + 1 /\ (n # 0 => n \in SkipKeys)
         /\ \A n \in SkipKeys : 0 < n /\ n < MaxKey + 1
BY DEF SkipNodes, SkipKeys, SkipTargets

\* sl_insert on one level: the new node goes in after the last one before it.
LEMMA ChainTakes ==
  ASSUME MaxKey \in Nat, NEW f, NEW S, Chains(f, S), NEW k \in SkipKeys, k \notin S, NEW u, Precedes(u, S, k)
  PROVE  Chains([f EXCEPT ![k] = f[u], ![u] = k], S \cup {k})
<1> DEFINE g == [f EXCEPT ![k] = f[u], ![u] = k]
           E == MaxKey + 1
<1>1. /\ f \in [SkipNodes -> SkipTargets] /\ S \in SUBSET SkipKeys
      /\ u \in S \cup {0} /\ u < k /\ \A m \in S : m < k => m <= u
  BY DEF Chains, Precedes
<1>2. /\ u \in SkipNodes /\ u # k /\ u \in Nat /\ k \in Nat /\ E \in Nat /\ k \in SkipNodes /\ k \in SkipTargets
      /\ \A m \in S : m \in Nat /\ m \in SkipNodes /\ m # 0
      /\ k # 0 /\ k < E
  BY <1>1, SkipNodesAre
<1>3. /\ g \in [SkipNodes -> SkipTargets] /\ g[k] = f[u] /\ g[u] = k
      /\ \A n \in SkipNodes : n # k /\ n # u => g[n] = f[n]
  BY <1>1, <1>2
<1>4. \A n \in SkipNodes : n \in S \cup {0} =>
        /\ n < f[n] /\ f[n] \in S \cup {E} /\ f[n] \in Nat /\ n \in Nat
        /\ \A m \in S : n < m => f[n] <= m
  BY SkipNodesAre DEF Chains
<1>5. \A n \in SkipNodes : n \notin S \cup {0} => f[n] = E
  BY DEF Chains
<1> HIDE DEF g, E
<1>6. ASSUME NEW n \in SkipNodes, n \in (S \cup {k}) \cup {0}
      PROVE  /\ n < g[n] /\ g[n] \in (S \cup {k}) \cup {E}
             /\ \A m \in S \cup {k} : n < m => g[n] <= m
  <2>1. CASE n = k
    <3>1. f[u] \in S \cup {E} /\ u < f[u] /\ \A m \in S : u < m => f[u] <= m
      BY <1>1, <1>2, <1>4
    <3>2. f[u] # k /\ f[u] \in Nat
      BY <1>2, <1>4, <1>1
    <3>3. k < f[u]
      <4>1. CASE f[u] = E
        BY <1>2, <4>1
      <4>2. CASE f[u] \in S
        <5>1. ~(f[u] < k)
          BY <1>1, <1>2, <3>1, <3>2, <4>2
        <5> QED
          BY <1>2, <3>2, <5>1
      <4> QED
        BY <3>1, <4>1, <4>2
    <3>4. \A m \in S : k < m => f[u] <= m
      BY <1>1, <1>2, <3>1
    <3> QED
      BY <1>2, <1>3, <2>1, <3>1, <3>3, <3>4
  <2>2. CASE n = u
    <3>1. \A m \in S : u < m => k <= m
      BY <1>1, <1>2
    <3> QED
      BY <1>1, <1>2, <1>3, <2>2, <3>1
  <2>3. CASE n # k /\ n # u
    <3>1. n \in S \cup {0} /\ g[n] = f[n] /\ n \in Nat
      BY <1>3, <1>6, <2>3, SkipNodesAre
    <3>2. n < k => f[n] <= k
      <4> SUFFICES ASSUME n < k PROVE f[n] <= k
        OBVIOUS
      <4>1. n <= u
        BY <1>1, <1>2, <3>1
      <4>2. n < u
        BY <1>2, <2>3, <3>1, <4>1
      <4>3. u \in S
        BY <1>1, <1>2, <3>1, <4>2
      <4>4. f[n] <= u
        BY <1>4, <3>1, <4>2, <4>3
      <4> QED
        BY <1>1, <1>2, <1>4, <3>1, <4>4
    <3> QED
      BY <1>4, <3>1, <3>2
  <2> QED
    BY <2>1, <2>2, <2>3
<1>7. ASSUME NEW n \in SkipNodes, n \notin (S \cup {k}) \cup {0} PROVE g[n] = E
  BY <1>1, <1>3, <1>5, <1>7
<1> QED
  BY <1>1, <1>3, <1>6, <1>7 DEF Chains, g, E

\* sl_delete on one level: the node before it takes over its link.
LEMMA ChainDrops ==
  ASSUME MaxKey \in Nat, NEW f, NEW S, Chains(f, S), NEW k \in S, NEW u, Precedes(u, S, k)
  PROVE  Chains([f EXCEPT ![u] = f[k], ![k] = MaxKey + 1], S \ {k})
<1> DEFINE E == MaxKey + 1
           g == [f EXCEPT ![u] = f[k], ![k] = E]
<1>1. /\ f \in [SkipNodes -> SkipTargets] /\ S \in SUBSET SkipKeys
      /\ u \in S \cup {0} /\ u < k /\ \A m \in S : m < k => m <= u
  BY DEF Chains, Precedes
<1>2. /\ u \in SkipNodes /\ u # k /\ u \in Nat /\ k \in Nat /\ E \in Nat /\ k \in SkipNodes /\ E \in SkipTargets
      /\ \A m \in S : m \in Nat /\ m \in SkipNodes /\ m # 0
      /\ k # 0 /\ k < E
  BY <1>1, SkipNodesAre
<1>3. /\ g \in [SkipNodes -> SkipTargets] /\ g[u] = f[k] /\ g[k] = E
      /\ \A n \in SkipNodes : n # k /\ n # u => g[n] = f[n]
  BY <1>1, <1>2
<1>4. \A n \in SkipNodes : n \in S \cup {0} =>
        /\ n < f[n] /\ f[n] \in S \cup {E} /\ f[n] \in Nat /\ n \in Nat
        /\ \A m \in S : n < m => f[n] <= m
  BY SkipNodesAre DEF Chains
<1>5. \A n \in SkipNodes : n \notin S \cup {0} => f[n] = E
  BY DEF Chains
<1> HIDE DEF g, E
<1>6. ASSUME NEW n \in SkipNodes, n \in (S \ {k}) \cup {0}
      PROVE  /\ n < g[n] /\ g[n] \in (S \ {k}) \cup {E}
             /\ \A m \in S \ {k} : n < m => g[n] <= m
  <2>1. n # k /\ n \in Nat
    BY <1>2, <1>6
  <2>2. CASE n = u
    <3>1. k < f[k] /\ f[k] \in S \cup {E} /\ f[k] \in Nat /\ \A m \in S : k < m => f[k] <= m
      BY <1>2, <1>4
    <3>2. u < f[k] /\ f[k] # k
      BY <1>1, <1>2, <3>1
    <3>3. \A m \in S \ {k} : u < m => k < m
      BY <1>1, <1>2
    <3> QED
      BY <1>3, <2>2, <3>1, <3>2, <3>3
  <2>3. CASE n # u
    <3>1. g[n] = f[n] /\ n \in S \cup {0}
      BY <1>3, <1>6, <2>1, <2>3
    <3>2. f[n] # k
      <4> SUFFICES ASSUME f[n] = k PROVE FALSE
        OBVIOUS
      <4>1. n < k
        BY <1>4, <3>1
      <4>2. n <= u
        BY <1>1, <1>2, <2>1, <3>1, <4>1
      <4>3. n < u /\ u \in S
        BY <1>1, <1>2, <2>1, <2>3, <4>2
      <4>4. k <= u
        BY <1>4, <3>1, <4>3
      <4> QED
        BY <1>1, <1>2, <4>4
    <3> QED
      BY <1>4, <3>1, <3>2
  <2> QED
    BY <2>2, <2>3
<1>7. ASSUME NEW n \in SkipNodes, n \notin (S \ {k}) \cup {0} PROVE g[n] = E
  <2>1. n # u
    BY <1>1, <1>2, <1>7
  <2> QED
    BY <1>3, <1>5, <1>7, <2>1
<1> QED
  BY <1>1, <1>3, <1>6, <1>7 DEF Chains, g, E

\* The two recursive functions of Update: what each computes from itself.
LastBody(k, x, f) == LET after == forward[x[1]][x[2]] IN IF after < k THEN f[<<x[1], after>>] ELSE x[2]
LastOf(k) == CHOOSE f : f = [x \in SkipLevels \X SkipNodes |-> LastBody(k, x, f)]
UpdateBody(last, i, f) == IF i > curLevel THEN 0 ELSE last[<<i, f[i + 1]>>]

LEMMA UpdateIs ==
  ASSUME NEW k
  PROVE  Skip!Update(k) = CHOOSE f : f = [i \in 1 .. MaxLevel + 1 |-> UpdateBody(LastOf(k), i, f)]
BY DEF Skip!Update, UpdateBody, LastOf, LastBody, SkipLevels, SkipNodes, Skip!Header

\* The walk along one level ends before k.
LEMMA LastIs ==
  ASSUME MaxKey \in Nat, NEW M, Leveled(forward, M, curLevel), NEW k \in SkipKeys,
         NEW i \in SkipLevels, NEW n, n \in M[i] \cup {0}, n < k
  PROVE  /\ Precedes(LastOf(k)[<<i, n>>], M[i], k)
         /\ \A x \in SkipLevels \X SkipNodes : LastOf(k)[x] \in SkipNodes
<1> DEFINE D == SkipLevels \X SkipNodes
           Loop(f) == [x \in D |-> LastBody(k, x, f)]
           last == CHOOSE f : f = Loop(f)
           s == [x \in D |-> ~(forward[x[1]][x[2]] < k)]
           b == [x \in D |-> x[2]]
           nx == [x \in D |-> IF forward[x[1]][x[2]] < k THEN <<x[1], forward[x[1]][x[2]]>> ELSE x]
           m == [x \in D |-> MaxKey + 1 - x[2]]
           T == {x \in D : x[1] = i /\ x[2] \in M[i] \cup {0} /\ x[2] < k}
           R == {u \in SkipNodes : Precedes(u, M[i], k)}
<1>1. \A x \in D : x[1] \in SkipLevels /\ x[2] \in SkipNodes /\ x = <<x[1], x[2]>>
  OBVIOUS
<1>2. ASSUME NEW x \in D
      PROVE  /\ Chains(forward[x[1]], M[x[1]]) /\ forward[x[1]][x[2]] \in SkipTargets
             /\ forward[x[1]][x[2]] < k => x[2] < forward[x[1]][x[2]] /\ forward[x[1]][x[2]] \in SkipNodes
  <2>1. Chains(forward[x[1]], M[x[1]])
    BY <1>1 DEF Leveled
  <2>2. k < MaxKey + 1 /\ k \in Nat
    BY SkipNodesAre
  <2> QED
    BY <1>1, <2>1, <2>2, SkipNodesAre DEF Chains
<1>3. s \in [D -> BOOLEAN] /\ b \in [D -> SkipNodes]
  BY <1>1
<1>4. nx \in [D -> D]
  BY <1>1, <1>2
<1>5. m \in [D -> Nat]
  <2>1. \A x \in D : MaxKey + 1 - x[2] \in Nat
    BY <1>1 DEF SkipNodes
  <2> QED
    BY <2>1
<1>6. \A x \in D : ~s[x] => m[nx[x]] < m[x]
  <2> SUFFICES ASSUME NEW x \in D, ~s[x] PROVE m[nx[x]] < m[x]
    OBVIOUS
  <2> DEFINE y == forward[x[1]][x[2]]
  <2>1. nx[x] = <<x[1], y>> /\ <<x[1], y>> \in D /\ x[2] < y /\ y \in SkipNodes
    BY <1>1, <1>2
  <2>2. m[x] = MaxKey + 1 - x[2] /\ m[nx[x]] = MaxKey + 1 - y
    BY <2>1
  <2>3. x[2] \in Nat /\ y \in Nat
    BY <1>1, <2>1, SkipNodesAre
  <2> HIDE DEF m, nx, y
  <2> QED
    BY <2>1, <2>2, <2>3
<1>7. ASSUME NEW f PROVE \A x \in D : LastBody(k, x, f) = IF s[x] THEN b[x] ELSE f[nx[x]]
  BY DEF LastBody
<1>8. <<i, n>> \in T
  <2>1. n \in SkipNodes
    BY SkipNodesAre DEF Leveled
  <2> QED
    BY <2>1
<1>9. ASSUME NEW x \in D, x \in T, ~s[x] PROVE nx[x] \in T
  <2>1. Chains(forward[i], M[i]) /\ x[1] = i /\ x[2] \in M[i] \cup {0} /\ x[2] \in SkipNodes
    BY <1>1, <1>9 DEF Leveled
  <2>2. forward[i][x[2]] \in M[i] \cup {MaxKey + 1} /\ forward[i][x[2]] < k
    BY <1>9, <2>1 DEF Chains
  <2>3. k < MaxKey + 1 /\ k \in Nat
    BY SkipNodesAre
  <2>4. forward[i][x[2]] \in M[i]
    BY <2>2, <2>3
  <2> QED
    BY <1>4, <1>9, <2>1, <2>2, <2>4
<1>10. ASSUME NEW x \in D, x \in T, s[x] PROVE b[x] \in R
  <2>1. Chains(forward[i], M[i]) /\ x[1] = i /\ x[2] \in M[i] \cup {0} /\ x[2] \in SkipNodes /\ x[2] < k /\ b[x] = x[2]
    BY <1>1, <1>10 DEF Leveled
  <2>2. ~(forward[i][x[2]] < k) /\ forward[i][x[2]] \in SkipTargets /\ \A w \in M[i] : x[2] < w => forward[i][x[2]] <= w
    BY <1>10, <2>1 DEF Chains
  <2>3. ASSUME NEW w \in M[i], w < k PROVE w <= x[2]
    <3>1. w \in Nat /\ k \in Nat /\ x[2] \in Nat /\ forward[i][x[2]] \in Nat
      BY <2>1, <2>2, SkipNodesAre DEF Chains
    <3> QED
      BY <2>2, <2>3, <3>1
  <2> QED
    BY <2>1, <2>3 DEF Precedes
<1> HIDE DEF s, b, nx, m, T, D
<1>11. PICK f \in [D -> SkipNodes] : Loops(f, D, s, b, nx)
  BY <1>3, <1>4, <1>5, <1>6, LoopRecursion
<1>12. f = Loop(f)
  BY <1>7, <1>11 DEF Loops
<1>13. last = Loop(last)
  <2> HIDE DEF Loop
  <2> QED
    BY <1>12
<1>14. Loops(last, D, s, b, nx)
  <2>1. \A x \in D : last[x] = LastBody(k, x, last)
    <3> HIDE DEF last
    <3> QED
      BY <1>13
  <2> HIDE DEF last
  <2> QED
    BY <1>7, <2>1 DEF Loops
<1>15. LastOf(k) = last
  BY DEF LastOf, D
<1> HIDE DEF last, Loop, R
<1>16. \A x \in D : x \in T => last[x] \in R
  <2>1. Keeps(T, R, D, s, b, nx)
    BY <1>9, <1>10 DEF Keeps
  <2>2. Halts(m, D, s, nx)
    BY <1>6 DEF Halts
  <2> QED
    BY ZenonT(60), <1>3, <1>4, <1>5, <1>14, <2>1, <2>2, LoopResult
<1>17. last[<<i, n>>] \in R
  BY <1>8, <1>16 DEF T
<1>18. \A x \in D : last[x] \in SkipNodes
  <2>1. Keeps(D, SkipNodes, D, s, b, nx)
    BY <1>3, <1>4 DEF Keeps
  <2>2. Halts(m, D, s, nx)
    BY <1>6 DEF Halts
  <2>3. \A x \in D : x \in D => last[x] \in SkipNodes
    BY ZenonT(60), <1>3, <1>4, <1>5, <1>14, <2>1, <2>2, LoopResult
  <2> QED
    BY <2>3
<1> QED
  BY <1>15, <1>17, <1>18 DEF R, D

\* The predecessors on every level, which sl_insert and sl_delete note down.
LEMMA UpdateFacts ==
  ASSUME MaxKey \in Nat, MaxLevel \in Nat \ {0}, NEW M, Leveled(forward, M, curLevel), NEW k \in SkipKeys
  PROVE  \A i \in SkipLevels : Precedes(Skip!Update(k)[i], M[i], k)
<1> DEFINE D == 1 .. MaxLevel + 1
           last == LastOf(k)
           Loop(f) == [i \in D |-> UpdateBody(last, i, f)]
           up == CHOOSE f : f = Loop(f)
           m == [i \in D |-> IF i > curLevel THEN 0 ELSE MaxLevel + 1 - i]
           b == [i \in D |-> 0]
           nx == [i \in D |-> IF i = MaxLevel + 1 THEN i ELSE i + 1]
           c == [z \in D \X SkipNodes |-> IF z[1] \in SkipLevels THEN last[z] ELSE 0]
<1>1. /\ curLevel \in SkipLevels /\ curLevel \in 1 .. MaxLevel /\ 0 \in SkipNodes /\ k \in Nat /\ 0 < k
      /\ \A i \in SkipLevels : i \in D /\ i + 1 \in D
      /\ \A i \in D : i > curLevel \/ i \in SkipLevels
  BY SkipNodesAre DEF Leveled, SkipLevels
<1>2. \A x \in SkipLevels \X SkipNodes : last[x] \in SkipNodes
  <2>1. 1 \in SkipLevels /\ 0 \in M[1] \cup {0} /\ 0 < k
    BY <1>1 DEF SkipLevels
  <2> QED
    BY <2>1, LastIs
<1> HIDE DEF last
<1>3. m \in [D -> Nat] /\ b \in [D -> SkipNodes] /\ nx \in [D -> D] /\ c \in [D \X SkipNodes -> SkipNodes]
  <2>1. m \in [D -> Nat]
    OBVIOUS
  <2>2. b \in [D -> SkipNodes] /\ nx \in [D -> D]
    BY <1>1
  <2>3. c \in [D \X SkipNodes -> SkipNodes]
    <3>1. \A z \in D \X SkipNodes : z = <<z[1], z[2]>> /\ z[2] \in SkipNodes
      OBVIOUS
    <3>2. \A z \in D \X SkipNodes : (IF z[1] \in SkipLevels THEN last[z] ELSE 0) \in SkipNodes
      BY <1>1, <1>2, <3>1
    <3> QED
      BY <3>2
  <2> QED
    BY <2>1, <2>2, <2>3
<1>4. \A i \in D : /\ m[i] = 0 <=> i > curLevel
                   /\ m[i] # 0 => m[nx[i]] < m[i] /\ i \in SkipLevels /\ nx[i] = i + 1
  <2> SUFFICES ASSUME NEW i \in D
               PROVE  /\ m[i] = 0 <=> i > curLevel
                      /\ m[i] # 0 => m[nx[i]] < m[i] /\ i \in SkipLevels /\ nx[i] = i + 1
    OBVIOUS
  <2>1. CASE i > curLevel
    BY <2>1
  <2>2. CASE ~(i > curLevel)
    <3>1. i \in SkipLevels /\ i + 1 \in D /\ i # MaxLevel + 1
      BY <1>1, <2>2 DEF SkipLevels
    <3>2. nx[i] = i + 1 /\ m[i] = MaxLevel + 1 - i /\ (m[i + 1] = 0 \/ m[i + 1] = MaxLevel + 1 - (i + 1))
      BY <2>2, <3>1
    <3>3. i \in 1 .. MaxLevel
      BY <3>1 DEF SkipLevels
    <3> HIDE DEF m, nx
    <3>4. m[i + 1] < m[i] /\ m[i] # 0
      BY <3>2, <3>3
    <3> QED
      BY <2>2, <3>1, <3>2, <3>4
  <2> QED
    BY <2>1, <2>2
<1>5. ASSUME NEW f \in [D -> SkipNodes], NEW i \in D
      PROVE  UpdateBody(last, i, f) = IF m[i] = 0 THEN b[i] ELSE c[<<i, f[nx[i]]>>]
  <2>1. CASE m[i] = 0
    BY <1>4, <2>1 DEF UpdateBody
  <2>2. CASE m[i] # 0
    <3>1. i \in SkipLevels /\ nx[i] = i + 1 /\ ~(i > curLevel) /\ i + 1 \in D
      BY <1>1, <1>4, <2>2
    <3>2. f[i + 1] \in SkipNodes
      BY <3>1
    <3>3. c[<<i, f[i + 1]>>] = last[<<i, f[i + 1]>>]
      BY <3>1, <3>2
    <3> QED
      BY <2>2, <3>1, <3>3 DEF UpdateBody
  <2> QED
    BY <2>1, <2>2
<1> HIDE DEF m, b, nx, c, D
<1>6. PICK f \in [D -> SkipNodes] : Solves(f, D, m, b, nx, c)
  BY <1>3, <1>4, Recursion
<1>7. f = Loop(f)
  BY <1>5, <1>6 DEF Solves
<1>8. up = Loop(up)
  <2> HIDE DEF Loop
  <2> QED
    BY <1>7
<1>9. \A i \in D : up[i] = UpdateBody(last, i, up)
  <2> HIDE DEF up
  <2> QED
    BY <1>8
<1>10. Skip!Update(k) = up
  BY UpdateIs DEF D, last
<1> HIDE DEF up, Loop
<1> DEFINE W == {j \in Nat : \A i \in SkipLevels : MaxLevel - i < j => Precedes(up[i], M[i], k)}
<1>11. ASSUME NEW i \in SkipLevels, i > curLevel PROVE up[i] = 0 /\ Precedes(up[i], M[i], k)
  <2>1. up[i] = 0 /\ M[i] = {}
    BY <1>1, <1>9, <1>11 DEF UpdateBody, Leveled
  <2> QED
    BY <1>1, <2>1 DEF Precedes
<1>12. ASSUME NEW i \in SkipLevels, ~(i > curLevel), NEW n, n \in M[i] \cup {0}, n < k, up[i + 1] = n
       PROVE  Precedes(up[i], M[i], k)
  <2>1. up[i] = last[<<i, n>>]
    BY <1>1, <1>9, <1>12 DEF UpdateBody
  <2> QED
    BY <1>12, <2>1, LastIs DEF last
<1>13. ASSUME NEW i \in SkipLevels, i = MaxLevel \/ Precedes(up[i + 1], M[i + 1], k) PROVE Precedes(up[i], M[i], k)
  <2>1. CASE i > curLevel
    BY <1>11, <2>1
  <2>2. CASE ~(i > curLevel) /\ i = MaxLevel
    <3>1. MaxLevel + 1 \in D /\ MaxLevel + 1 > curLevel /\ i + 1 = MaxLevel + 1
      BY <1>1, <2>2 DEF D
    <3>2. up[i + 1] = 0
      BY <1>9, <3>1 DEF UpdateBody
    <3> QED
      BY <1>1, <1>12, <2>2, <3>2
  <2>3. CASE ~(i > curLevel) /\ i # MaxLevel
    <3>1. i + 1 \in SkipLevels /\ i <= i + 1
      BY <2>3 DEF SkipLevels
    <3>2. M[i + 1] \subseteq M[i]
      BY <3>1 DEF Leveled
    <3>3. up[i + 1] \in M[i] \cup {0} /\ up[i + 1] < k
      BY <1>13, <2>3, <3>2 DEF Precedes
    <3> QED
      BY <1>12, <2>3, <3>3
  <2> QED
    BY <2>1, <2>2, <2>3
<1>14. 0 \in W
  BY DEF SkipLevels
<1>15. ASSUME NEW j \in Nat, j \in W PROVE j + 1 \in W
  <2> SUFFICES ASSUME NEW i \in SkipLevels, MaxLevel - i < j + 1 PROVE Precedes(up[i], M[i], k)
    OBVIOUS
  <2>1. i = MaxLevel \/ (i + 1 \in SkipLevels /\ MaxLevel - (i + 1) < j)
    BY DEF SkipLevels
  <2> QED
    BY <1>13, <1>15, <2>1
<1> HIDE DEF W
<1>16. Nat \subseteq W
  BY <1>14, <1>15, Induction
<1>17. MaxLevel \in W /\ \A i \in SkipLevels : MaxLevel - i < MaxLevel
  BY <1>16 DEF SkipLevels
<1> QED
  BY <1>10, <1>17 DEF W

\* sl_search stops at the first node from k on.
LEMMA ReachedFacts ==
  ASSUME MaxKey \in Nat, MaxLevel \in Nat \ {0}, NEW M, Leveled(forward, M, curLevel), NEW k \in SkipKeys
  PROVE  /\ Skip!Reached(k) \in M[1] \cup {MaxKey + 1} /\ k <= Skip!Reached(k)
         /\ \A w \in M[1] : k <= w => Skip!Reached(k) <= w
         /\ Skip!Reached(k) = k <=> k \in M[1]
<1> DEFINE u == Skip!Update(k)[1]
           r == forward[1][u]
<1>1. 1 \in SkipLevels
  BY DEF SkipLevels
<1>2. Skip!Reached(k) = r
  BY DEF Skip!Reached
<1>3. Precedes(u, M[1], k) /\ Chains(forward[1], M[1])
  BY <1>1, UpdateFacts DEF Leveled
<1> HIDE DEF u
<1>4. u \in SkipNodes /\ u < k /\ u \in Nat /\ k \in Nat /\ k < MaxKey + 1 /\ \A w \in M[1] : w \in Nat
  BY <1>3, SkipNodesAre DEF Precedes, Chains
<1>5. r \in M[1] \cup {MaxKey + 1} /\ u < r /\ r \in Nat /\ \A w \in M[1] : u < w => r <= w
  BY <1>3, <1>4, SkipNodesAre DEF Chains, Precedes
<1> HIDE DEF r
<1>6. k <= r
  <2>1. CASE r \in M[1]
    <3>1. ~(r < k)
      BY <1>3, <1>4, <1>5, <2>1 DEF Precedes
    <3> QED
      BY <1>4, <1>5, <3>1
  <2>2. CASE r = MaxKey + 1
    BY <1>4, <2>2
  <2> QED
    BY <1>5, <2>1, <2>2
<1>7. \A w \in M[1] : k <= w => r <= w
  BY <1>4, <1>5
<1> QED
  BY <1>2, <1>4, <1>5, <1>6, <1>7

\* There is a level; there may be no keys.
SkipDimensions == MaxKey \in Nat /\ MaxLevel \in Nat \ {0}

\* The node after the last one before k is k if and only if k is in the chain.
LEMMA NextIsKey ==
  ASSUME MaxKey \in Nat, NEW f, NEW S, Chains(f, S), NEW k \in SkipKeys, NEW u, Precedes(u, S, k)
  PROVE  f[u] = k <=> k \in S
<1>1. S \in SUBSET SkipKeys /\ u \in S \cup {0} /\ u < k /\ \A m \in S : m < k => m <= u
  BY DEF Chains, Precedes
<1>2. u \in SkipNodes /\ u \in Nat /\ k \in Nat /\ k # MaxKey + 1 /\ \A m \in S : m \in Nat
  BY <1>1, SkipNodesAre
<1>3. u < f[u] /\ f[u] \in S \cup {MaxKey + 1} /\ \A m \in S : u < m => f[u] <= m
  BY <1>1, <1>2 DEF Chains
<1>4. ASSUME k \in S PROVE f[u] = k
  <2>1. f[u] <= k
    BY <1>1, <1>3, <1>4
  <2>4. k < MaxKey + 1
    BY SkipNodesAre
  <2>3. f[u] \in S
    BY <1>2, <1>3, <2>1, <2>4
  <2>2. ~(f[u] < k)
    <3>1. f[u] \in S /\ f[u] \in Nat
      BY <1>2, <2>3
    <3> QED
      BY <1>1, <1>2, <1>3, <3>1
  <2> QED
    BY <1>2, <2>1, <2>2, <2>3
<1> QED
  BY <1>2, <1>3, <1>4

LEMMA LevelsFinite ==
  ASSUME MaxKey \in Nat, NEW S \in SUBSET SkipKeys
  PROVE  IsFiniteSet(S)
<1>1. 1 \in Int /\ MaxKey \in Int
  OBVIOUS
<1>2. IsFiniteSet(1 .. MaxKey)
  BY <1>1, FS_Interval
<1> QED
  BY <1>2, FS_Subset DEF SkipKeys

\* An invariant holds when there are members that show it.
LEMMA SkipInvNext ==
  ASSUME NEW M, Leveled(forward, M, curLevel)', (val \in [M[1] -> Vals])', skipSize' = Cardinality(M[1])
  PROVE  SkipInv'
BY DEF SkipInv

LEMMA SkipInitInv == SkipDimensions /\ Skip!Init => SkipInv
<1> SUFFICES ASSUME SkipDimensions, Skip!Init PROVE SkipInv
  OBVIOUS
<1> DEFINE M == [i \in SkipLevels |-> {}]
<1>1. MaxKey \in Nat /\ MaxLevel \in Nat \ {0} /\ 1 \in SkipLevels
  BY DEF SkipDimensions, SkipLevels
<1>2. forward = [i \in SkipLevels |-> [n \in SkipNodes |-> MaxKey + 1]]
  BY DEF Skip!Init, Skip!Null, SkipLevels, SkipNodes
<1>3. ASSUME NEW i \in SkipLevels PROVE Chains(forward[i], M[i])
  BY <1>1, <1>2, SkipNodesAre DEF Chains
<1>6. forward \in [SkipLevels -> [SkipNodes -> SkipTargets]]
  <2>1. MaxKey + 1 \in SkipTargets
    BY <1>1, SkipNodesAre
  <2> QED
    BY <1>2, <2>1
<1>7. /\ M \in [SkipLevels -> SUBSET SkipKeys]
      /\ (\A i, j \in SkipLevels : i <= j => M[j] \subseteq M[i])
      /\ \A i \in SkipLevels : i > curLevel => M[i] = {}
  OBVIOUS
<1>8. curLevel = 1
  BY DEF Skip!Init
<1>4. Leveled(forward, M, curLevel)
  <2> HIDE DEF M
  <2> QED
    BY <1>1, <1>3, <1>6, <1>7, <1>8 DEF Leveled
<1>5. val \in [M[1] -> Vals] /\ skipSize = Cardinality(M[1])
  BY <1>1, FS_EmptySet DEF Skip!Init
<1> QED
  BY <1>4, <1>5 DEF SkipInv

LEMMA SkipUpdateKeeps ==
  ASSUME SkipDimensions, SkipInv, NEW k \in SkipKeys, NEW v \in Vals, Skip!InsertUpdate(k, v)
  PROVE  SkipInv' /\ k \in DOMAIN val
<1>1. PICK M : /\ Leveled(forward, M, curLevel)
               /\ val \in [M[1] -> Vals] /\ skipSize = Cardinality(M[1])
  BY DEF SkipInv
<1>2. k \in M[1]
  BY <1>1, ReachedFacts DEF Skip!InsertUpdate, SkipDimensions
<1>3. val' \in [M[1] -> Vals] /\ forward' = forward /\ curLevel' = curLevel /\ skipSize' = skipSize
  BY <1>1, <1>2 DEF Skip!InsertUpdate
<1>4. Leveled(forward', M, curLevel')
  BY <1>1, <1>3
<1> QED
  BY <1>1, <1>2, <1>3, <1>4 DEF SkipInv

LEMMA SkipInsertKeeps ==
  ASSUME SkipDimensions, SkipInv, NEW k \in SkipKeys, NEW v \in Vals, Skip!InsertNew(k, v)
  PROVE  SkipInv' /\ k \notin DOMAIN val
<1>1. PICK M : /\ Leveled(forward, M, curLevel)
               /\ val \in [M[1] -> Vals] /\ skipSize = Cardinality(M[1])
  BY DEF SkipInv
<1>2. MaxKey \in Nat /\ MaxLevel \in Nat \ {0} /\ 1 \in SkipLevels /\ curLevel \in SkipLevels /\ k \in SkipKeys
  BY <1>1 DEF SkipDimensions, SkipLevels, Leveled
<1> DEFINE u == Skip!Update(k)
<1>3. k \notin M[1]
  BY <1>1, <1>2, ReachedFacts DEF Skip!InsertNew
<1>4. PICK level \in SkipLevels :
        /\ curLevel' = IF level > curLevel THEN level ELSE curLevel
        /\ forward' = [i \in SkipLevels |->
             IF i > level THEN forward[i] ELSE [forward[i] EXCEPT ![k] = forward[i][u[i]], ![u[i]] = k]]
  BY DEF Skip!InsertNew, SkipLevels
<1>5. \A i \in SkipLevels : Precedes(u[i], M[i], k)
  BY <1>1, <1>2, UpdateFacts
<1> HIDE DEF u
<1> DEFINE N == [i \in SkipLevels |-> IF i > level THEN M[i] ELSE M[i] \cup {k}]
<1>6. \A i \in SkipLevels : k \notin M[i] /\ M[i] \in SUBSET SkipKeys /\ Chains(forward[i], M[i])
  <2>1. \A i \in SkipLevels : 1 <= i
    BY DEF SkipLevels
  <2> QED
    BY <1>1, <1>2, <1>3, <2>1 DEF Leveled
<1>7. ASSUME NEW i \in SkipLevels PROVE Chains(forward'[i], N[i])
  <2>1. CASE i > level
    BY <1>4, <1>6, <2>1
  <2>2. CASE ~(i > level)
    <3>1. Chains([forward[i] EXCEPT ![k] = forward[i][u[i]], ![u[i]] = k], M[i] \cup {k})
      BY <1>2, <1>5, <1>6, ChainTakes
    <3> QED
      BY <1>4, <2>2, <3>1
  <2> QED
    BY <2>1, <2>2
<1>8. forward' \in [SkipLevels -> [SkipNodes -> SkipTargets]]
  <2>1. \A i \in SkipLevels : forward'[i] \in [SkipNodes -> SkipTargets]
    BY <1>7 DEF Chains
  <2> QED
    BY <1>4, <2>1
<1>9. N \in [SkipLevels -> SUBSET SkipKeys]
  BY <1>2, <1>6
<1>10. \A i, j \in SkipLevels : i <= j => N[j] \subseteq N[i]
  <2> SUFFICES ASSUME NEW i \in SkipLevels, NEW j \in SkipLevels, i <= j PROVE N[j] \subseteq N[i]
    OBVIOUS
  <2>1. M[j] \subseteq M[i]
    BY <1>1 DEF Leveled
  <2>2. j > level \/ ~(i > level)
    BY DEF SkipLevels
  <2> QED
    BY <2>1, <2>2
<1>11. curLevel' \in SkipLevels /\ \A i \in SkipLevels : i > curLevel' => i > level /\ i > curLevel
  BY <1>2, <1>4 DEF SkipLevels
<1>12. Leveled(forward, N, curLevel)'
  <2>1. \A i \in SkipLevels : i > curLevel' => N[i] = {}
    BY <1>1, <1>11 DEF Leveled
  <2> QED
    BY <1>7, <1>8, <1>9, <1>10, <1>11, <2>1 DEF Leveled
<1>13. N[1] = M[1] \cup {k}
  BY <1>2 DEF SkipLevels
<1>14. val' \in [M[1] \cup {k} -> Vals]
  BY <1>1 DEF Skip!InsertNew
<1>15. skipSize' = Cardinality(M[1] \cup {k})
  <2>1. IsFiniteSet(M[1])
    BY <1>2, <1>6, LevelsFinite
  <2>2. skipSize' = skipSize + 1
    BY DEF Skip!InsertNew
  <2> QED
    BY <1>1, <1>3, <2>1, <2>2, FS_AddElement
<1> HIDE DEF N
<1> QED
  BY <1>1, <1>3, <1>12, <1>13, <1>14, <1>15, SkipInvNext

\* The levels sl_delete unlinks a key on are those that hold it.
LEMMA LinkedIs ==
  ASSUME MaxKey \in Nat, MaxLevel \in Nat \ {0}, NEW M, Leveled(forward, M, curLevel), NEW k \in SkipKeys
  PROVE  Skip!Linked(k, Skip!Update(k)) = {i \in SkipLevels : k \in M[i]}
<1> DEFINE u == Skip!Update(k)
<1>1. \A i \in SkipLevels : forward[i][u[i]] = k <=> k \in M[i]
  <2> SUFFICES ASSUME NEW i \in SkipLevels PROVE forward[i][u[i]] = k <=> k \in M[i]
    OBVIOUS
  <2>1. Precedes(u[i], M[i], k) /\ Chains(forward[i], M[i])
    BY UpdateFacts DEF Leveled
  <2> QED
    BY <2>1, NextIsKey
<1> HIDE DEF u
<1>2. curLevel \in SkipLevels /\ (\A i \in SkipLevels : i > curLevel => M[i] = {})
  BY DEF Leveled
<1>3. \A i, j \in SkipLevels : i <= j => M[j] \subseteq M[i]
  BY DEF Leveled
<1>4. ASSUME NEW i \in SkipLevels, k \in M[i]
      PROVE  i \in 1 .. curLevel /\ \A j \in 1 .. i : forward[j][u[j]] = k
  <2>1. ~(i > curLevel)
    BY <1>2, <1>4
  <2>2. \A j \in 1 .. i : j \in SkipLevels /\ j <= i
    BY DEF SkipLevels
  <2> QED
    BY <1>1, <1>2, <1>3, <1>4, <2>1, <2>2 DEF SkipLevels
<1>5. ASSUME NEW i \in 1 .. curLevel, \A j \in 1 .. i : forward[j][u[j]] = k PROVE i \in SkipLevels /\ k \in M[i]
  <2>1. i \in SkipLevels /\ i \in 1 .. i
    BY <1>2 DEF SkipLevels
  <2> QED
    BY <1>1, <1>5, <2>1
<1> QED
  BY <1>4, <1>5 DEF Skip!Linked, u

\* The loop that drops empty levels ends at one below which none is dropped.
LEMMA ShrunkIs ==
  ASSUME MaxLevel \in Nat \ {0}, curLevel \in SkipLevels, NEW f
  PROVE  /\ Skip!Shrunk(f) \in SkipLevels /\ Skip!Shrunk(f) <= curLevel
         /\ \A i \in SkipLevels : i > Skip!Shrunk(f) /\ ~(i > curLevel) => f[i][0] = MaxKey + 1
<1> DEFINE T == {l \in 1 .. curLevel : l = 1 \/ f[l][0] # MaxKey + 1}
           P(l) == (l = 1 \/ f[l][0] # MaxKey + 1) /\ \A i \in l + 1 .. curLevel : f[i][0] = MaxKey + 1
<1>1. curLevel \in Nat /\ 1 <= curLevel /\ curLevel <= MaxLevel
  BY DEF SkipLevels
<1>2. T \in SUBSET (0 .. curLevel) /\ 1 \in T
  BY <1>1
<1>3. PICK l \in T : \A n \in T : n <= l
  BY <1>1, <1>2, GreatestElement
<1>4. \A i \in l + 1 .. curLevel : f[i][0] = MaxKey + 1
  <2> SUFFICES ASSUME NEW i \in l + 1 .. curLevel, f[i][0] # MaxKey + 1 PROVE FALSE
    OBVIOUS
  <2>1. i \in 1 .. curLevel /\ l \in Nat /\ i \in Nat /\ l < i
    BY <1>1, <1>3
  <2>2. i <= l
    BY <1>3, <2>1
  <2> QED
    BY <2>1, <2>2
<1>5. l \in 1 .. curLevel /\ P(l)
  BY <1>3, <1>4
<1>6. Skip!Shrunk(f) = CHOOSE n \in 1 .. curLevel : P(n)
  BY DEF Skip!Shrunk, Skip!Header, Skip!Null
<1> DEFINE r == CHOOSE n \in 1 .. curLevel : P(n)
<1> HIDE DEF P
<1>7. r \in 1 .. curLevel /\ P(r)
  BY <1>5
<1> HIDE DEF r
<1>8. \A i \in SkipLevels : i > r /\ ~(i > curLevel) => i \in r + 1 .. curLevel
  BY <1>1, <1>7 DEF SkipLevels
<1> QED
  BY <1>1, <1>6, <1>7, <1>8 DEF P, r, SkipLevels

LEMMA SkipDeleteKeeps ==
  ASSUME SkipDimensions, SkipInv, NEW k \in SkipKeys, Skip!Delete(k)
  PROVE  /\ SkipInv'
         /\ \/ /\ k \in DOMAIN val /\ val' = [n \in DOMAIN val \ {k} |-> val[n]]
               /\ Skip!Called("delete", k, 0, TRUE)
            \/ k \notin DOMAIN val /\ val' = val /\ Skip!Called("delete", k, 0, FALSE)
<1>1. PICK M : /\ Leveled(forward, M, curLevel)
               /\ val \in [M[1] -> Vals] /\ skipSize = Cardinality(M[1])
  BY DEF SkipInv
<1>2. MaxKey \in Nat /\ MaxLevel \in Nat \ {0} /\ 1 \in SkipLevels /\ curLevel \in SkipLevels /\ k \in SkipKeys
  BY <1>1 DEF SkipDimensions, SkipLevels, Leveled
<1>3. Skip!Reached(k) = k <=> k \in M[1]
  BY <1>1, <1>2, ReachedFacts
<1>4. CASE Skip!Reached(k) # k
  <2>1. UNCHANGED <<forward, val, curLevel, skipSize>> /\ Skip!Called("delete", k, 0, FALSE)
    BY <1>4 DEF Skip!Delete
  <2>2. Leveled(forward', M, curLevel')
    BY <1>1, <2>1
  <2> QED
    BY <1>1, <1>3, <1>4, <2>1, <2>2 DEF SkipInv
<1>5. CASE Skip!Reached(k) = k
  <2> DEFINE u == Skip!Update(k)
             N == [i \in SkipLevels |-> M[i] \ {k}]
  <2>1. Skip!Linked(k, u) = {i \in SkipLevels : k \in M[i]}
    BY <1>1, <1>2, LinkedIs
  <2>2. /\ forward' = [i \in SkipLevels |->
             IF k \in M[i] THEN [forward[i] EXCEPT ![u[i]] = forward[i][k], ![k] = MaxKey + 1]
             ELSE forward[i]]
        /\ curLevel' = Skip!Shrunk(forward')
        /\ val' = [n \in DOMAIN val \ {k} |-> val[n]]
        /\ skipSize' = skipSize - 1
        /\ Skip!Called("delete", k, 0, TRUE)
    BY <1>5, <2>1 DEF Skip!Delete, Skip!Null, SkipLevels
  <2>3. \A i \in SkipLevels : Precedes(u[i], M[i], k)
    BY <1>1, <1>2, UpdateFacts
  <2> HIDE DEF u
  <2>4. \A i \in SkipLevels : M[i] \in SUBSET SkipKeys /\ Chains(forward[i], M[i])
    BY <1>1 DEF Leveled
  <2>5. ASSUME NEW i \in SkipLevels PROVE Chains(forward'[i], N[i])
    <3>1. CASE k \in M[i]
      <4>1. Chains([forward[i] EXCEPT ![u[i]] = forward[i][k], ![k] = MaxKey + 1], M[i] \ {k})
        BY <1>2, <2>3, <2>4, <3>1, ChainDrops
      <4> QED
        BY <2>2, <3>1, <4>1
    <3>2. CASE k \notin M[i]
      <4>1. M[i] \ {k} = M[i]
        BY <3>2
      <4> QED
        BY <2>2, <2>4, <3>2, <4>1
    <3> QED
      BY <3>1, <3>2
  <2>6. forward' \in [SkipLevels -> [SkipNodes -> SkipTargets]]
    <3>1. \A i \in SkipLevels : forward'[i] \in [SkipNodes -> SkipTargets]
      BY <2>5 DEF Chains
    <3> QED
      BY <2>2, <3>1
  <2>7. N \in [SkipLevels -> SUBSET SkipKeys]
    BY <2>4
  <2>8. \A i, j \in SkipLevels : i <= j => N[j] \subseteq N[i]
    <3>1. \A i, j \in SkipLevels : i <= j => M[j] \subseteq M[i]
      BY <1>1 DEF Leveled
    <3> QED
      BY <3>1
  <2>9. /\ curLevel' \in SkipLevels /\ curLevel' <= curLevel
        /\ \A i \in SkipLevels : i > curLevel' /\ ~(i > curLevel) => forward'[i][0] = MaxKey + 1
    BY <1>2, <2>2, ShrunkIs
  <2>10. ASSUME NEW i \in SkipLevels, i > curLevel' PROVE N[i] = {}
    <3>1. CASE i > curLevel
      BY <1>1, <3>1 DEF Leveled
    <3>2. CASE ~(i > curLevel)
      <4>1. forward'[i][0] = MaxKey + 1 /\ Chains(forward'[i], N[i])
        BY <2>5, <2>9, <2>10, <3>2
      <4> HIDE DEF N
      <4> QED
        BY <1>2, <4>1, SkipNodesAre DEF Chains
    <3> QED
      BY <3>1, <3>2
  <2>11. Leveled(forward, N, curLevel)'
    BY <2>5, <2>6, <2>7, <2>8, <2>9, <2>10 DEF Leveled
  <2>12. N[1] = M[1] \ {k} /\ k \in M[1] /\ M[1] \in SUBSET SkipKeys
    BY <1>2, <1>3, <1>5, <2>4
  <2>13. val' \in [M[1] \ {k} -> Vals]
    BY <1>1, <2>2
  <2>14. skipSize' = Cardinality(M[1] \ {k})
    <3>1. IsFiniteSet(M[1])
      BY <1>2, <2>12, LevelsFinite
    <3> QED
      BY <1>1, <2>2, <2>12, <3>1, FS_RemoveElement
  <2> HIDE DEF N
  <2>15. SkipInv'
    BY <2>11, <2>12, <2>13, <2>14, SkipInvNext
  <2> QED
    BY <1>1, <2>2, <2>12, <2>15
<1> QED
  BY <1>4, <1>5

\* What sl_search finds is what the list holds.
SkipFinds == Skip!Contents = val /\ val \in [DOMAIN val -> Vals] /\ skipSize = Cardinality(DOMAIN val)

LEMMA SkipContents == SkipDimensions /\ SkipInv => SkipFinds
<1> SUFFICES ASSUME SkipDimensions, SkipInv PROVE SkipFinds
  OBVIOUS
<1>1. PICK M : /\ Leveled(forward, M, curLevel)
               /\ val \in [M[1] -> Vals] /\ skipSize = Cardinality(M[1])
  BY DEF SkipInv
<1>2. MaxKey \in Nat /\ MaxLevel \in Nat \ {0} /\ M[1] \in SUBSET SkipKeys
  BY <1>1 DEF SkipDimensions, Leveled, SkipLevels
<1>3. {j \in SkipKeys : Skip!Reached(j) = j} = M[1]
  <2>1. \A j \in SkipKeys : Skip!Reached(j) = j <=> j \in M[1]
    BY <1>1, <1>2, ReachedFacts
  <2> QED
    BY <1>2, <2>1
<1>4. Skip!Contents = [k \in M[1] |-> val[k]]
  BY <1>3 DEF Skip!Contents, Skip!Keys, SkipKeys
<1> QED
  BY <1>1, <1>4 DEF SkipFinds

LEMMA SkipNextInv == SkipDimensions /\ SkipInv /\ [Skip!Next]_(Skip!vars) => SkipInv'
<1> SUFFICES ASSUME SkipDimensions, SkipInv, [Skip!Next]_(Skip!vars) PROVE SkipInv'
  OBVIOUS
<1>1. ASSUME NEW k \in SkipKeys, Skip!Delete(k) PROVE SkipInv'
  BY <1>1, SkipDeleteKeeps
<1>2. ASSUME NEW k \in SkipKeys, NEW v \in Vals, Skip!InsertUpdate(k, v) PROVE SkipInv'
  BY <1>2, SkipUpdateKeeps
<1>3. ASSUME NEW k \in SkipKeys, NEW v \in Vals, Skip!InsertNew(k, v) PROVE SkipInv'
  BY <1>3, SkipInsertKeeps
<1>4. CASE UNCHANGED Skip!vars
  BY <1>4 DEF SkipInv, Leveled, Skip!vars
<1> QED
  BY <1>1, <1>2, <1>3, <1>4 DEF Skip!Next, Skip!Keys, SkipKeys

Dict == INSTANCE Dictionary WITH
  Keys <- SkipKeys, dict <- Skip!Contents, size <- skipSize, call <- skipCall

\* The same specification, with val for what the lookups find.
ValDict == INSTANCE Dictionary WITH
  Keys <- SkipKeys, dict <- val, size <- skipSize, call <- skipCall

LEMMA SkipNextRefines ==
  ASSUME SkipDimensions, SkipInv, SkipFinds, SkipFinds', [Skip!Next]_(Skip!vars)
  PROVE  [Dict!Next]_(Dict!vars)
<1>1. Skip!Contents = val /\ Skip!Contents' = val' /\ skipSize' = Cardinality(DOMAIN val')
  BY DEF SkipFinds
<1>2. ASSUME NEW k \in SkipKeys, Skip!Delete(k) PROVE ValDict!Delete(k)
  <2>1. \/ /\ k \in DOMAIN val /\ val' = [n \in DOMAIN val \ {k} |-> val[n]]
           /\ Skip!Called("delete", k, 0, TRUE)
        \/ k \notin DOMAIN val /\ val' = val /\ Skip!Called("delete", k, 0, FALSE)
    BY <1>2, SkipDeleteKeeps
  <2>2. k \notin DOMAIN val => [n \in DOMAIN val \ {k} |-> val[n]] = val
    <3>1. k \notin DOMAIN val => DOMAIN val \ {k} = DOMAIN val
      OBVIOUS
    <3>2. val = [n \in DOMAIN val |-> val[n]]
      BY DEF SkipFinds
    <3> QED
      BY <3>1, <3>2
  <2>3. val' = [n \in DOMAIN val \ {k} |-> val[n]]
    <3>1. CASE k \in DOMAIN val
      BY <2>1, <3>1, Zenon
    <3>2. CASE k \notin DOMAIN val
      <4>1. val' = val
        BY <2>1, <3>2, Zenon
      <4> QED
        BY <2>2, <3>2, <4>1, Zenon
    <3> QED
      BY <3>1, <3>2
  <2>4. ValDict!Called("delete", k, 0, k \in DOMAIN val)
    <3>1. CASE k \in DOMAIN val
      <4>1. skipCall' = [op |-> "delete", key |-> k, val |-> 0, answer |-> TRUE]
        BY <2>1, <3>1 DEF Skip!Called
      <4>2. (k \in DOMAIN val) = TRUE
        BY <3>1
      <4> QED
        BY <4>1, <4>2, Zenon DEF ValDict!Called
    <3>2. CASE k \notin DOMAIN val
      <4>1. skipCall' = [op |-> "delete", key |-> k, val |-> 0, answer |-> FALSE]
        BY <2>1, <3>2 DEF Skip!Called
      <4>2. (k \in DOMAIN val) = FALSE
        BY <3>2
      <4> QED
        BY <4>1, <4>2, Zenon DEF ValDict!Called
    <3> QED
      BY <3>1, <3>2
  <2> QED
    BY <2>3, <2>4, Zenon DEF ValDict!Delete, ValDict!Without
<1>3. ASSUME NEW k \in SkipKeys, NEW v \in Vals, Skip!InsertUpdate(k, v) PROVE ValDict!Insert(k, v)
  <2>1. /\ k \in DOMAIN val /\ val' = [val EXCEPT ![k] = v]
        /\ ValDict!Called("insert", k, v, TRUE)
    BY <1>3, SkipUpdateKeeps DEF Skip!InsertUpdate, Skip!Called, ValDict!Called
  <2>2. val' = [j \in DOMAIN val \cup {k} |-> IF j = k THEN v ELSE val[j]]
    BY <2>1 DEF SkipFinds
  <2> QED
    BY <2>1, <2>2 DEF ValDict!Insert, ValDict!With
<1>4. ASSUME NEW k \in SkipKeys, NEW v \in Vals, Skip!InsertNew(k, v) PROVE ValDict!Insert(k, v)
  BY <1>4 DEF Skip!InsertNew, Skip!Called, ValDict!Insert, ValDict!With, ValDict!Called
<1>5. CASE UNCHANGED Skip!vars
  BY <1>1, <1>5 DEF Skip!vars, Dict!vars
<1>6. CASE Skip!Next
  <2>1. \E k \in SkipKeys : ValDict!Delete(k) \/ \E v \in Vals : ValDict!Insert(k, v)
    <3>1. PICK k \in SkipKeys :
            Skip!Delete(k) \/ \E v \in Vals : Skip!InsertUpdate(k, v) \/ Skip!InsertNew(k, v)
      BY <1>6 DEF Skip!Next, Skip!Keys, SkipKeys
    <3> QED
      BY <1>2, <1>3, <1>4, <3>1
  <2>3. \A k \in SkipKeys : /\ ValDict!Delete(k) => Dict!Delete(k)
                            /\ \A v \in Vals : ValDict!Insert(k, v) => Dict!Insert(k, v)
    BY <1>1, Zenon DEF ValDict!Delete, ValDict!Without, ValDict!Insert, ValDict!With, ValDict!Called,
                Dict!Delete, Dict!Without, Dict!Insert, Dict!With, Dict!Called
  <2>4. skipSize' = Cardinality(DOMAIN Skip!Contents')
    BY <1>1, Zenon
  <2>2. Dict!Next
    BY <2>1, <2>3, <2>4, Zenon DEF Dict!Next, Dict!Cardinality, Cardinality
  <2> QED
    BY <2>2
<1> QED
  BY <1>5, <1>6

LEMMA SkipInitRefines == SkipDimensions /\ Skip!Init => Dict!Init
<1> SUFFICES ASSUME SkipDimensions, Skip!Init PROVE Dict!Init
  OBVIOUS
<1>1. Skip!Contents = val
  BY SkipInitInv, SkipContents DEF SkipFinds
<1> QED
  BY <1>1 DEF Skip!Init, Dict!Init

\* The levels of the skip list stay nested, sorted chains, its values and its
\* size those of the bottom one, and no node is above the level in use.
THEOREM SkipInvHolds ==
  ASSUME SkipDimensions
  PROVE  Skip!Spec => []SkipInv
<1>1. Skip!Init => SkipInv
  BY SkipInitInv
<1>2. SkipInv /\ [Skip!Next]_(Skip!vars) => SkipInv'
  BY SkipNextInv
<1> QED
  BY <1>1, <1>2, PTL DEF Skip!Spec

\* The skip list refines the dictionary, whatever level each new node is given:
\* sl_insert of a key and a value makes sl_search find that value under that
\* key, sl_delete takes the key it was asked for and says whether it was there,
\* neither changes what is found under another key, and size counts the keys.
THEOREM SkipListIsDictionary ==
  ASSUME SkipDimensions
  PROVE  Skip!Spec => Dict!Spec
<1>1. Skip!Init => Dict!Init
  BY SkipInitRefines
<1>2. SkipInv => SkipFinds
  BY SkipContents
<1>3. SkipInv /\ SkipFinds /\ SkipFinds' /\ [Skip!Next]_(Skip!vars) => [Dict!Next]_(Dict!vars)
  BY SkipNextRefines
<1> QED
  BY <1>1, <1>2, <1>3, SkipInvHolds, PTL DEF Skip!Spec, Dict!Spec

\* w visits the members of S from n to hi, in order, each once.
Visits(w, n, hi, S) ==
  /\ w \in Seq(Nat)
  /\ \A i \in DOMAIN w : w[i] \in S /\ n <= w[i] /\ w[i] <= hi
  /\ \A i, j \in DOMAIN w : i < j => w[i] < w[j]
  /\ \A s \in S : n <= s /\ s <= hi => \E i \in DOMAIN w : w[i] = s

LEMMA VisitsOneMore ==
  ASSUME NEW S \in SUBSET Nat, NEW n \in S, NEW hi \in Nat, n <= hi, NEW q \in Nat, n < q,
         \A s \in S : n < s => q <= s, NEW w, Visits(w, q, hi, S)
  PROVE  Visits(<<n>> \o w, n, hi, S)
<1> DEFINE x == <<n>> \o w
<1>1. /\ w \in Seq(Nat) /\ n \in Nat
      /\ \A i \in DOMAIN w : w[i] \in S /\ q <= w[i] /\ w[i] <= hi
      /\ \A i, j \in DOMAIN w : i < j => w[i] < w[j]
      /\ \A s \in S : q <= s /\ s <= hi => \E i \in DOMAIN w : w[i] = s
  BY DEF Visits
<1>2. /\ x \in Seq(Nat) /\ Len(x) = Len(w) + 1 /\ x[1] = n
      /\ \A i \in 1 .. Len(w) : x[i + 1] = w[i]
      /\ DOMAIN w = 1 .. Len(w) /\ DOMAIN x = 1 .. Len(w) + 1 /\ Len(w) \in Nat
  BY <1>1
<1> HIDE DEF x
<1>3. \A i \in DOMAIN x : i = 1 \/ (i - 1 \in DOMAIN w /\ x[i] = w[i - 1])
  <2> SUFFICES ASSUME NEW i \in DOMAIN x, i # 1 PROVE i - 1 \in DOMAIN w /\ x[i] = w[i - 1]
    OBVIOUS
  <2>1. i - 1 \in 1 .. Len(w) /\ (i - 1) + 1 = i
    BY <1>2
  <2> QED
    BY <1>2, <2>1
<1>4. ASSUME NEW i \in DOMAIN x PROVE x[i] \in S /\ n <= x[i] /\ x[i] <= hi
  <2>1. CASE i = 1
    BY <1>1, <1>2, <2>1
  <2>2. CASE i # 1
    <3>1. x[i] \in S /\ q <= x[i] /\ x[i] <= hi
      BY <1>1, <1>3, <2>2
    <3>2. x[i] \in Nat
      BY <3>1
    <3> QED
      BY <1>1, <3>1, <3>2
  <2> QED
    BY <2>1, <2>2
<1>5. ASSUME NEW i \in DOMAIN x, NEW j \in DOMAIN x, i < j PROVE x[i] < x[j]
  <2>1. j # 1 /\ i \in Nat /\ j \in Nat /\ 1 <= i
    BY <1>2, <1>5
  <2>2. CASE i = 1
    <3>1. x[j] \in S /\ q <= x[j] /\ x[i] = n
      BY <1>1, <1>2, <1>3, <2>1, <2>2
    <3>2. x[j] \in Nat
      BY <3>1
    <3> QED
      BY <1>1, <3>1, <3>2
  <2>3. CASE i # 1
    <3>1. i - 1 < j - 1
      BY <1>5, <2>1
    <3> QED
      BY <1>1, <1>3, <2>1, <2>3, <3>1
  <2> QED
    BY <2>2, <2>3
<1>6. ASSUME NEW s \in S, n <= s, s <= hi PROVE \E i \in DOMAIN x : x[i] = s
  <2>1. CASE s = n
    <3>1. 1 \in DOMAIN x
      BY <1>2
    <3> QED
      BY <1>2, <2>1, <3>1
  <2>2. CASE s # n
    <3>1. q <= s
      BY <1>6, <2>2
    <3>2. PICK i \in DOMAIN w : w[i] = s
      BY <1>1, <1>6, <3>1
    <3>3. i + 1 \in DOMAIN x /\ x[i + 1] = s
      BY <1>2, <3>2
    <3> QED
      BY <3>3
  <2> QED
    BY <2>1, <2>2
<1> QED
  BY <1>2, <1>4, <1>5, <1>6 DEF Visits, x

\* The recursive function of Range.
WalkBody(hi, n, f) == IF n > hi \/ n = MaxKey + 1 THEN <<>> ELSE <<n>> \o f[forward[1][n]]

LEMMA RangeIs ==
  ASSUME NEW lo, NEW hi
  PROVE  Skip!Range(lo, hi) =
           (CHOOSE f : f = [n \in SkipKeys \cup {MaxKey + 1} |-> WalkBody(hi, n, f)])[Skip!Reached(lo)]
BY DEF Skip!Range, WalkBody, SkipKeys, Skip!Keys, Skip!Null

\* The walk from the node sl_search stops at.
LEMMA RangeVisits ==
  ASSUME MaxKey \in Nat, MaxLevel \in Nat \ {0}, NEW M, Leveled(forward, M, curLevel),
         NEW lo \in SkipKeys, NEW hi \in SkipKeys
  PROVE  Visits(Skip!Range(lo, hi), lo, hi, M[1])
<1> DEFINE E == MaxKey + 1
           D == SkipKeys \cup {E}
           Loop(f) == [n \in D |-> WalkBody(hi, n, f)]
           walk == CHOOSE f : f = Loop(f)
           m == [n \in D |-> IF n > hi \/ n = E THEN 0 ELSE E - n]
           b == [n \in D |-> <<>>]
           nx == [n \in D |-> IF n = E THEN E ELSE forward[1][n]]
           c == [z \in D \X Seq(Nat) |-> <<z[1]>> \o z[2]]
           S == M[1]
<1>1. /\ Chains(forward[1], S) /\ S \in SUBSET SkipKeys /\ hi \in Nat /\ hi < E /\ E \in Nat
      /\ D \subseteq Nat /\ SkipKeys \subseteq D /\ E \in D
      /\ \A n \in D : n # E => n \in SkipKeys /\ n \in SkipNodes /\ n < E
  <2>1. Chains(forward[1], S) /\ S \in SUBSET SkipKeys
    BY DEF Leveled, SkipLevels
  <2>2. hi < E /\ E \in Nat /\ hi \in Nat /\ D \subseteq Nat
    BY SkipNodesAre
  <2>3. \A n \in D : n # E => n \in SkipKeys /\ n \in SkipNodes /\ n < E
    BY SkipNodesAre
  <2> QED
    BY <2>1, <2>2, <2>3
<1>2. ASSUME NEW n \in SkipKeys
      PROVE  forward[1][n] \in D /\ n < forward[1][n] /\ forward[1][n] \in S \cup {E}
  <2>1. n \in SkipNodes /\ n < E /\ n # 0
    BY SkipNodesAre
  <2> HIDE DEF D
  <2>2. n < forward[1][n] /\ forward[1][n] \in S \cup {E}
    BY <1>1, <2>1 DEF Chains
  <2> QED
    BY <1>1, <2>2
<1>3. m \in [D -> Nat] /\ b \in [D -> Seq(Nat)] /\ nx \in [D -> D] /\ c \in [D \X Seq(Nat) -> Seq(Nat)]
  <2> HIDE DEF D, E, S
  <2>1. \A n \in D : (IF n > hi \/ n = E THEN 0 ELSE E - n) \in Nat
    BY <1>1
  <2>2. \A n \in D : (IF n = E THEN E ELSE forward[1][n]) \in D
    BY <1>1, <1>2
  <2>3. \A z \in D \X Seq(Nat) : <<z[1]>> \o z[2] \in Seq(Nat)
    <3>1. \A z \in D \X Seq(Nat) : z[1] \in Nat /\ z[2] \in Seq(Nat)
      BY <1>1
    <3>2. \A n \in Nat : <<n>> \in Seq(Nat)
      OBVIOUS
    <3> QED
      BY <3>1, <3>2
  <2> QED
    BY <2>1, <2>2, <2>3
<1>4. ASSUME NEW n \in D
      PROVE  /\ m[n] = 0 <=> n > hi \/ n = E
             /\ m[n] # 0 => m[nx[n]] < m[n] /\ n \in SkipKeys /\ nx[n] = forward[1][n]
  <2>1. CASE n > hi \/ n = E
    BY <2>1
  <2>2. CASE ~(n > hi \/ n = E)
    <3>1. n \in SkipKeys /\ n < E /\ n \in Nat
      BY <1>1, <2>2
    <3>2. m[n] = E - n /\ nx[n] = forward[1][n]
      BY <2>2
    <3> DEFINE y == forward[1][n]
    <3>3. y \in D /\ y \in Nat /\ n < y /\ (m[y] = 0 \/ m[y] = E - y)
      BY <1>1, <1>2, <3>1
    <3> HIDE DEF m, nx, y, E, D
    <3>4. m[y] < m[n] /\ m[n] # 0
      BY <1>1, <3>1, <3>2, <3>3
    <3> QED
      BY <2>2, <3>1, <3>2, <3>4 DEF y
  <2> QED
    BY <2>1, <2>2
<1>5. ASSUME NEW f \in [D -> Seq(Nat)], NEW n \in D
      PROVE  WalkBody(hi, n, f) = IF m[n] = 0 THEN b[n] ELSE c[<<n, f[nx[n]]>>]
  <2>1. CASE m[n] = 0
    BY <1>4, <2>1 DEF WalkBody
  <2>2. CASE m[n] # 0
    <3>1. nx[n] = forward[1][n] /\ ~(n > hi \/ n = E) /\ forward[1][n] \in D
      BY <1>2, <1>4, <2>2
    <3>2. f[forward[1][n]] \in Seq(Nat)
      BY <3>1
    <3>3. c[<<n, f[forward[1][n]]>>] = <<n>> \o f[forward[1][n]]
      BY <3>2
    <3> QED
      BY <2>2, <3>1, <3>3 DEF WalkBody
  <2> QED
    BY <2>1, <2>2
<1> HIDE DEF m, b, nx, c, D
<1>6. PICK f \in [D -> Seq(Nat)] : Solves(f, D, m, b, nx, c)
  BY <1>3, <1>4, Recursion
<1>7. f = Loop(f)
  BY <1>5, <1>6 DEF Solves
<1>8. walk = Loop(walk)
  <2> HIDE DEF Loop
  <2> QED
    BY <1>7
<1>9. \A n \in D : walk[n] = WalkBody(hi, n, walk)
  <2> HIDE DEF walk
  <2> QED
    BY <1>8
<1>10. Skip!Range(lo, hi) = walk[Skip!Reached(lo)]
  BY RangeIs DEF D
<1> HIDE DEF walk, Loop, E
<1> DEFINE W == {j \in Nat : \A n \in D : n \in S \cup {E} /\ E - n < j => Visits(walk[n], n, hi, S)}
<1>11. ASSUME NEW n \in D, n > hi \/ n = E PROVE Visits(walk[n], n, hi, S)
  <2>1. walk[n] = <<>>
    BY <1>9, <1>11 DEF WalkBody, E
  <2>2. \A s \in S : ~(n <= s /\ s <= hi)
    <3>1. n \in Nat /\ n > hi
      BY <1>1, <1>11
    <3>2. \A s \in S : s \in Nat
      BY <1>1
    <3> HIDE DEF S
    <3> QED
      BY <1>1, <3>1, <3>2
  <2> HIDE DEF S
  <2> QED
    BY <2>1, <2>2 DEF Visits
<1>12. ASSUME NEW n \in D, n \in S, ~(n > hi \/ n = E), Visits(walk[forward[1][n]], forward[1][n], hi, S)
       PROVE  Visits(walk[n], n, hi, S)
  <2> DEFINE q == forward[1][n]
  <2>1. walk[n] = <<n>> \o walk[q]
    BY <1>9, <1>12 DEF WalkBody, E
  <2>2. n \in SkipNodes /\ n \in SkipKeys /\ n \in Nat /\ S \in SUBSET Nat
    BY <1>1, <1>12
  <2>3. q \in Nat /\ n < q
    BY <1>1, <1>2, <2>2
  <2>4. \A s \in S : n < s => q <= s
    BY <1>1, <1>12, <2>2 DEF Chains
  <2>5. n <= hi
    BY <1>1, <1>12, <2>2
  <2> HIDE DEF S, q
  <2>6. Visits(walk[q], q, hi, S)
    BY <1>12 DEF q
  <2> QED
    BY <1>1, <1>12, <2>1, <2>2, <2>3, <2>4, <2>5, <2>6, VisitsOneMore
<1>13. 0 \in W
  <2> SUFFICES ASSUME NEW n \in D, E - n < 0 PROVE FALSE
    OBVIOUS
  <2>1. n \in Nat /\ E \in Nat /\ (n = E \/ n < E)
    BY <1>1
  <2> QED
    BY <2>1
<1>14. ASSUME NEW j \in Nat, j \in W PROVE j + 1 \in W
  <2> SUFFICES ASSUME NEW n \in D, n \in S \cup {E}, E - n < j + 1 PROVE Visits(walk[n], n, hi, S)
    OBVIOUS
  <2>1. CASE n > hi \/ n = E
    BY <1>11, <2>1
  <2>2. CASE ~(n > hi \/ n = E)
    <3> DEFINE q == forward[1][n]
    <3>1. n \in S /\ n \in SkipKeys
      BY <1>1, <2>2
    <3>2. q \in D /\ n < q /\ q \in S \cup {E} /\ q \in Nat /\ n \in Nat
      BY <1>1, <1>2, <3>1
    <3> HIDE DEF q, S
    <3>3. E - q < j
      BY <1>1, <3>2
    <3>4. Visits(walk[q], q, hi, S)
      BY <1>14, <3>2, <3>3
    <3> QED
      BY <1>12, <2>2, <3>1, <3>4 DEF q
  <2> QED
    BY <2>1, <2>2
<1> HIDE DEF W
<1>15. Nat \subseteq W
  BY <1>13, <1>14, Induction
<1> DEFINE r == Skip!Reached(lo)
<1>16. r \in S \cup {E} /\ lo <= r /\ \A s \in S : lo <= s => r <= s
  BY ReachedFacts DEF E
<1> HIDE DEF r, S
<1>17. r \in D /\ r \in Nat /\ E - r \in Nat /\ lo \in Nat /\ \A s \in S : s \in Nat
  BY <1>1, <1>16
<1>18. E - r + 1 \in W /\ E - r < E - r + 1
  BY <1>1, <1>15, <1>17
<1>19. Visits(walk[r], r, hi, S)
  BY <1>16, <1>17, <1>18 DEF W
<1>20. Visits(walk[r], lo, hi, S)
  <2>1. /\ walk[r] \in Seq(Nat)
        /\ \A i \in DOMAIN walk[r] : walk[r][i] \in S /\ r <= walk[r][i] /\ walk[r][i] <= hi
        /\ \A i, j \in DOMAIN walk[r] : i < j => walk[r][i] < walk[r][j]
        /\ \A s \in S : r <= s /\ s <= hi => \E i \in DOMAIN walk[r] : walk[r][i] = s
    BY <1>19 DEF Visits
  <2>2. \A i \in DOMAIN walk[r] : lo <= walk[r][i]
    <3> SUFFICES ASSUME NEW i \in DOMAIN walk[r] PROVE lo <= walk[r][i]
      OBVIOUS
    <3>1. walk[r][i] \in Nat /\ r <= walk[r][i] /\ lo <= r
      BY <1>16, <1>17, <2>1
    <3> QED
      BY <1>17, <3>1
  <2>3. \A s \in S : lo <= s /\ s <= hi => \E i \in DOMAIN walk[r] : walk[r][i] = s
    BY <1>16, <2>1
  <2> QED
    BY <2>1, <2>2, <2>3 DEF Visits
<1> QED
  BY <1>10, <1>20 DEF r, S

\* sl_range visits the keys held from lo to hi, in ascending order.
SkipRanges ==
  \A lo, hi \in SkipKeys :
    LET visited == Skip!Range(lo, hi)
    IN  /\ \A i, j \in DOMAIN visited : i < j => visited[i] < visited[j]
        /\ {visited[i] : i \in DOMAIN visited} = {k \in DOMAIN Skip!Contents : lo <= k /\ k <= hi}

\* sl_range visits exactly the keys of the range, each once and in order.
THEOREM SkipRangesExact ==
  ASSUME SkipDimensions
  PROVE  Skip!Spec => []SkipRanges
<1>1. SkipInv => SkipRanges
  <2> SUFFICES ASSUME SkipInv, NEW lo \in SkipKeys, NEW hi \in SkipKeys
               PROVE  LET visited == Skip!Range(lo, hi)
                      IN  /\ \A i, j \in DOMAIN visited : i < j => visited[i] < visited[j]
                          /\ {visited[i] : i \in DOMAIN visited} =
                               {k \in DOMAIN Skip!Contents : lo <= k /\ k <= hi}
    BY DEF SkipRanges
  <2>1. PICK M : /\ Leveled(forward, M, curLevel)
                 /\ val \in [M[1] -> Vals] /\ skipSize = Cardinality(M[1])
    BY DEF SkipInv
  <2>2. Visits(Skip!Range(lo, hi), lo, hi, M[1])
    BY <2>1, RangeVisits DEF SkipDimensions
  <2>3. Skip!Contents = val
    BY SkipContents DEF SkipFinds
  <2>4. DOMAIN Skip!Contents = M[1]
    BY <2>1, <2>3
  <2> QED
    BY <2>2, <2>4 DEF Visits
<1> QED
  BY <1>1, SkipInvHolds, PTL
==============================================================================
