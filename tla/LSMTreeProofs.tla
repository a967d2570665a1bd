---------------------------- MODULE LSMTreeProofs -----------------------------
(***************************************************************************)
(* Theorems about LSMTree, for all sizes of the memtable and the levels:   *)
(* what the binary search finds and what a merge keeps, each by induction  *)
(* over its recursion; and on these the invariant from which the levels    *)
(* are sound and the reads honest.                                         *)
(***************************************************************************)
EXTENDS LSMTree, NaturalOrder, SequenceTheorems, FiniteSetTheorems, TLAPS

\* An entry of the memtable and the last write of its key.
MemType == mem \in Seq(Entry) /\ written \in [Keys -> Seq(Entry)]

LastInMem ==
  \A i \in 1 .. Len(mem) :
    LET k == mem[i].key
    IN  /\ k \in Keys
        /\ Len(written[k]) >= 1
        /\ (\A j \in 1 .. Len(mem) : mem[j].key = k => j <= i)
             => mem[i] = written[k][Len(written[k])]

MemInv == MemType /\ LastInMem

LEMMA WriteKeepsMem ==
  ASSUME MemInv, NEW e \in Entry, Write(e),
         written' = [written EXCEPT ![e.key] = Append(@, e)]
  PROVE  MemInv'
<1>1. e.key \in Keys
  BY DEF Entry
<1>2. mem' = Append(mem, e) \/ mem' = <<e>>
  BY DEF Write
<1>3. MemType'
  <2>1. mem' \in Seq(Entry)
    <3>1. Append(mem, e) \in Seq(Entry)
      BY DEF MemInv, MemType
    <3>2. <<e>> \in Seq(Entry)
      OBVIOUS
    <3> QED
      BY <1>2, <3>1, <3>2
  <2>2. Append(written[e.key], e) \in Seq(Entry) /\ written \in [Keys -> Seq(Entry)]
    BY <1>1 DEF MemInv, MemType
  <2>3. written' \in [Keys -> Seq(Entry)]
    BY <2>2
  <2> QED
    BY <2>1, <2>3 DEF MemType
<1>4. /\ Len(written'[e.key]) >= 1
      /\ written'[e.key][Len(written'[e.key])] = e
      /\ \A k \in Keys : k # e.key => written'[k] = written[k]
  <2>1. written[e.key] \in Seq(Entry) /\ DOMAIN written = Keys
    BY <1>1 DEF MemInv, MemType
  <2> DEFINE w == Append(written[e.key], e)
  <2>2. Len(w) \in Nat /\ Len(w) >= 1 /\ w[Len(w)] = e
    BY <2>1
  <2>3. /\ written'[e.key] = w
        /\ \A k \in Keys : k # e.key => written'[k] = written[k]
    BY <1>1, <2>1
  <2> HIDE DEF w
  <2> QED
    BY <2>2, <2>3
<1>5. CASE mem' = <<e>>
  BY <1>1, <1>3, <1>4, <1>5 DEF MemInv, LastInMem
<1>6. CASE mem' = Append(mem, e)
  <2> SUFFICES ASSUME NEW i \in 1 .. Len(mem')
               PROVE  /\ mem'[i].key \in Keys
                      /\ Len(written'[mem'[i].key]) >= 1
                      /\ (\A j \in 1 .. Len(mem') : mem'[j].key = mem'[i].key => j <= i)
                           => mem'[i] = written'[mem'[i].key][Len(written'[mem'[i].key])]
    BY <1>3 DEF MemInv, LastInMem
  <2>1. /\ mem \in Seq(Entry) /\ Len(mem') = Len(mem) + 1 /\ mem'[Len(mem) + 1] = e
        /\ \A j \in 1 .. Len(mem) : mem'[j] = mem[j]
    BY <1>6 DEF MemInv, MemType
  <2>2. CASE i = Len(mem) + 1
    BY <1>1, <1>4, <2>1, <2>2
  <2>3. CASE i \in 1 .. Len(mem) /\ mem[i].key = e.key
    <3>1. Len(mem) + 1 \in 1 .. Len(mem') /\ ~(Len(mem) + 1 <= i)
      BY <2>1, <2>3
    <3> QED
      BY <1>1, <1>4, <2>1, <2>3, <3>1
  <2>4. CASE i \in 1 .. Len(mem) /\ mem[i].key # e.key
    <3>1. /\ mem'[i] = mem[i] /\ mem[i].key \in Keys /\ Len(written[mem[i].key]) >= 1
          /\ written'[mem[i].key] = written[mem[i].key]
      BY <1>4, <2>1, <2>4 DEF MemInv, LastInMem
    <3>2. (\A j \in 1 .. Len(mem') : mem'[j].key = mem'[i].key => j <= i)
            => \A j \in 1 .. Len(mem) : mem[j].key = mem[i].key => j <= i
      <4>1. \A j \in 1 .. Len(mem) : j \in 1 .. Len(mem') /\ mem'[j] = mem[j]
        BY <2>1
      <4> QED
        BY <3>1, <4>1
    <3> QED
      BY <2>4, <3>1, <3>2 DEF MemInv, LastInMem
  <2> QED
    BY <2>1, <2>2, <2>3, <2>4
<1> QED
  BY <1>2, <1>5, <1>6

LEMMA NextMemInv == MemInv /\ [Next]_vars => MemInv'
<1> SUFFICES ASSUME MemInv, [Next]_vars PROVE MemInv'
  OBVIOUS
<1>1. ASSUME NEW k \in Keys, NEW v \in Values, Put(k, v) PROVE MemInv'
  <2> DEFINE e == [key |-> k, val |-> v, deleted |-> FALSE]
  <2>1. e \in Entry /\ e.key = k
    BY DEF Entry
  <2> QED
    BY <1>1, <2>1, WriteKeepsMem DEF Put
<1>2. ASSUME NEW k \in Keys, Delete(k) PROVE MemInv'
  <2> DEFINE e == [key |-> k, val |-> 0, deleted |-> TRUE]
  <2>1. e \in Entry /\ e.key = k
    BY DEF Entry
  <2> QED
    BY <1>2, <2>1, WriteKeepsMem DEF Delete
<1>3. ASSUME UNCHANGED <<mem, written>> PROVE MemInv'
  BY <1>3 DEF MemInv, MemType, LastInMem
<1> QED
  BY <1>1, <1>2, <1>3 DEF Next, Compact, vars

LEMMA NewestIsGreatest ==
  ASSUME NEW n \in Nat, NEW I \in SUBSET (1 .. n), I # {}
  PROVE  Newest(I) \in I /\ \A j \in I : j <= Newest(I)
<1>1. I \in SUBSET (0 .. n)
  OBVIOUS
<1>2. \E i \in I : \A j \in I : j <= i
  BY <1>1, GreatestElement
<1> QED
  BY <1>2 DEF Newest

LEMMA MemReadsLast == MemInv => MemtableWins
<1> SUFFICES ASSUME MemInv, NEW k \in Keys, InMem(k) # {}
             PROVE  Get(k) = Content(Last(written[k]))
  BY DEF MemtableWins
<1> DEFINE i == Newest(InMem(k))
<1>1. Len(mem) \in Nat /\ InMem(k) \in SUBSET (1 .. Len(mem))
  BY DEF MemInv, MemType, InMem
<1>2. i \in InMem(k) /\ \A j \in InMem(k) : j <= i
  BY <1>1, NewestIsGreatest
<1> HIDE DEF i
<1>3. mem[i] = written[k][Len(written[k])]
  BY <1>2 DEF MemInv, LastInMem, InMem
<1> QED
  BY <1>3 DEF Get, Last, i

\* A write that is still in the memtable is read back, whatever the levels
\* hold.
THEOREM MemtableFirst == Spec => []MemtableWins
<1>1. Init => MemInv
  BY DEF Init, MemInv, MemType, LastInMem
<1> QED
  BY <1>1, NextMemInv, MemReadsLast, PTL DEF Spec
------------------------------------------------------------------------------
\* Sorting keeps the type and the length.
LEMMA SortsKeepLength ==
  ASSUME NEW s \in Seq(Entry), NEW t \in Sorts(s)
  PROVE  t \in Seq(Entry) /\ Len(t) = Len(s)
<1>1. PICK p \in [1 .. Len(s) -> 1 .. Len(s)] : t = [i \in 1 .. Len(s) |-> s[p[i]]]
  BY DEF Sorts
<1> QED
  BY <1>1
------------------------------------------------------------------------------
\* The binary search.

LEMMA EntriesHaveKeys ==
  ASSUME NEW s \in Seq(Entry)
  PROVE  Len(s) \in Nat /\ \A q \in 1 .. Len(s) : s[q] \in Entry /\ s[q].key \in Int
<1>1. Len(s) \in Nat /\ \A q \in 1 .. Len(s) : s[q] \in Entry
  BY ElementOfSeq
<1>2. \A e \in Entry : e.key \in Int
  BY KeysAssumption DEF Entry
<1> QED
  BY <1>1, <1>2

\* The equation of the recursion in Search: a window of indices shrinks.
Windows(s) == (1 .. Len(s) + 1) \X (0 .. Len(s))

Probe(s, k, f) ==
  [b \in Windows(s) |->
     LET mid == (b[1] + b[2]) \div 2
     IN  IF b[1] > b[2] THEN 0
         ELSE IF s[mid].key = k THEN mid
         ELSE IF s[mid].key < k THEN f[<<mid + 1, b[2]>>]
         ELSE f[<<b[1], mid - 1>>]]

LEMMA WindowHalves ==
  ASSUME NEW s \in Seq(Entry), NEW b \in Windows(s)
  PROVE  LET mid == (b[1] + b[2]) \div 2
         IN  /\ b[1] \in 1 .. Len(s) + 1 /\ b[2] \in 0 .. Len(s)
             /\ b[1] \in Int /\ b[2] \in Int /\ mid \in Int
             /\ b[1] <= b[2] =>
                  /\ b[1] <= mid /\ mid <= b[2] /\ mid \in 1 .. Len(s)
                  /\ <<mid + 1, b[2]>> \in Windows(s) /\ <<b[1], mid - 1>> \in Windows(s)
<1> DEFINE n == Len(s)
           mid == (b[1] + b[2]) \div 2
<1>1. n \in Nat /\ b[1] \in 1 .. n + 1 /\ b[2] \in 0 .. n
  BY DEF Windows
<1> HIDE DEF n
<1>2. mid \in Int /\ (b[1] <= b[2] => b[1] <= mid /\ mid <= b[2])
  BY <1>1
<1> HIDE DEF mid
<1>3. b[1] <= b[2] => mid \in 1 .. n /\ mid + 1 \in 1 .. n + 1 /\ mid - 1 \in 0 .. n
  BY <1>1, <1>2
<1> QED
  BY <1>1, <1>2, <1>3 DEF Windows, n, mid

LEMMA SearchRecursion ==
  ASSUME NEW s \in Seq(Entry), NEW k \in Int PROVE \E f : f = Probe(s, k, f)
<1> DEFINE n == Len(s)
           D == Windows(s)
           mid(b) == (b[1] + b[2]) \div 2
           m == [b \in D |-> IF b[1] > b[2] \/ s[mid(b)].key = k THEN 0 ELSE b[2] - b[1] + 1]
           base == [b \in D |-> IF b[1] > b[2] THEN 0 ELSE mid(b)]
           next == [b \in D |-> IF b[1] > b[2] THEN b
                                ELSE IF s[mid(b)].key < k THEN <<mid(b) + 1, b[2]>>
                                ELSE <<b[1], mid(b) - 1>>]
           V == Int
           comb == [p \in D \X V |-> p[2]]
<1>1. n \in Nat
  OBVIOUS
<1>2. \A b \in D : /\ b[1] \in 1 .. n + 1 /\ b[2] \in 0 .. n /\ b[1] \in Int /\ b[2] \in Int
                   /\ mid(b) \in Int
                   /\ b[1] <= b[2] =>
                        /\ b[1] <= mid(b) /\ mid(b) <= b[2]
                        /\ <<mid(b) + 1, b[2]>> \in D /\ <<b[1], mid(b) - 1>> \in D
  BY <1>1, WindowHalves
<1> HIDE DEF mid, n, D
<1>3. m \in [D -> Nat] /\ base \in [D -> V] /\ comb \in [D \X V -> V]
  <2>1. ASSUME NEW b \in D PROVE m[b] \in Nat /\ base[b] \in V
    <3>1. b[1] \in Int /\ b[2] \in Int /\ mid(b) \in Int
      BY <1>2
    <3> QED
      BY <3>1
  <2> QED
    BY <2>1
<1>4. next \in [D -> D]
  <2>1. ASSUME NEW b \in D PROVE next[b] \in D
    BY <1>2
  <2> QED
    BY <2>1
<1>5. \A b \in D : m[b] # 0 => m[next[b]] < m[b]
  <2> TAKE b \in D
  <2> HAVE m[b] # 0
  <2>1. /\ b[1] \in Int /\ b[2] \in Int /\ mid(b) \in Int
        /\ b[1] <= b[2] => b[1] <= mid(b) /\ mid(b) <= b[2]
    BY <1>2
  <2>2. b[1] <= b[2] /\ m[b] = b[2] - b[1] + 1
    BY <2>1
  <2>3. /\ next[b] = <<mid(b) + 1, b[2]>> \/ next[b] = <<b[1], mid(b) - 1>>
        /\ next[b] \in D
    BY <1>4, <2>1, <2>2
  <2> HIDE DEF next
  <2>4. m[next[b]] = 0 \/ m[next[b]] = next[b][2] - next[b][1] + 1
    BY <2>3
  <2> HIDE DEF m
  <2>5. CASE next[b] = <<mid(b) + 1, b[2]>>
    <3>1. next[b][1] = mid(b) + 1 /\ next[b][2] = b[2]
      BY <2>5
    <3> QED
      BY <2>1, <2>2, <2>4, <3>1
  <2>6. CASE next[b] = <<b[1], mid(b) - 1>>
    <3>1. next[b][1] = b[1] /\ next[b][2] = mid(b) - 1
      BY <2>6
    <3> QED
      BY <2>1, <2>2, <2>4, <3>1
  <2> QED
    BY <2>3, <2>5, <2>6
<1>6. PICK f \in [D -> V] : Solves(f, D, m, base, next, comb)
  <2> HIDE DEF m, base, next, comb, V
  <2> QED
    BY <1>3, <1>4, <1>5, Recursion
<1>7. \A b \in D :
        f[b] = IF b[1] > b[2] THEN 0
               ELSE IF s[mid(b)].key = k THEN mid(b)
               ELSE IF s[mid(b)].key < k THEN f[<<mid(b) + 1, b[2]>>]
               ELSE f[<<b[1], mid(b) - 1>>]
  <2> TAKE b \in D
  <2>i. b[1] \in Int /\ b[2] \in Int /\ mid(b) \in Int
    BY <1>2
  <2>v. m[b] = IF b[1] > b[2] \/ s[mid(b)].key = k THEN 0 ELSE b[2] - b[1] + 1
    OBVIOUS
  <2>a. m[b] = 0 <=> b[1] > b[2] \/ s[mid(b)].key = k
    <3> HIDE DEF m
    <3> QED
      BY <2>i, <2>v
  <2>1. CASE m[b] = 0
    BY <2>i, <1>6, <2>a, <2>1 DEF Solves
  <2>2. CASE m[b] # 0
    <3>1. next[b] \in D /\ f[next[b]] \in V
      BY <1>4
    <3>2. f[b] = f[next[b]]
      BY <1>6, <2>2, <3>1 DEF Solves
    <3> QED
      BY <2>i, <2>a, <2>2, <3>2
  <2> QED
    BY <2>1, <2>2
<1>8. f = Probe(s, k, f)
  BY <1>7 DEF Probe, mid, D
<1> QED
  BY <1>8

\* The binary search returns an index of the key, and one if there is any in a
\* sorted level.
LEMMA SearchFinds ==
  ASSUME NEW s \in Seq(Entry), NEW k \in Int
  PROVE  /\ Search(s, k) # 0 => /\ Search(s, k) \in 1 .. Len(s)
                               /\ s[Search(s, k)].key = k
         /\ KeyOrdered(s) /\ Search(s, k) = 0 => \A q \in 1 .. Len(s) : s[q].key # k
<1> DEFINE n == Len(s)
           D == Windows(s)
           mid(b) == (b[1] + b[2]) \div 2
           probe == CHOOSE f : f = Probe(s, k, f)
           Right(b) ==
             /\ probe[b] # 0 => probe[b] \in 1 .. n /\ s[probe[b]].key = k
             /\ KeyOrdered(s) /\ probe[b] = 0 => \A q \in b[1] .. b[2] : s[q].key # k
           m == [b \in D |-> IF b[1] > b[2] THEN 0 ELSE b[2] - b[1] + 1]
           T == {b \in D : Right(b)}
<1>1. probe = Probe(s, k, probe)
  BY SearchRecursion
<1>2. Search(s, k) = probe[<<1, n>>]
  BY DEF Search, Probe, Windows
<1>3. n \in Nat /\ \A q \in 1 .. n : s[q].key \in Int
  BY EntriesHaveKeys
<1> HIDE DEF probe
<1>4. \A b \in D : /\ b[1] \in 1 .. n + 1 /\ b[2] \in 0 .. n /\ b[1] \in Int /\ b[2] \in Int
                   /\ mid(b) \in Int
                   /\ b[1] <= b[2] =>
                        /\ b[1] <= mid(b) /\ mid(b) <= b[2] /\ mid(b) \in 1 .. n
                        /\ <<mid(b) + 1, b[2]>> \in D /\ <<b[1], mid(b) - 1>> \in D
  BY <1>3, WindowHalves
<1> HIDE DEF mid, n
<1>5. \A b \in D :
        probe[b] = IF b[1] > b[2] THEN 0
                   ELSE IF s[mid(b)].key = k THEN mid(b)
                   ELSE IF s[mid(b)].key < k THEN probe[<<mid(b) + 1, b[2]>>]
                   ELSE probe[<<b[1], mid(b) - 1>>]
  BY <1>1 DEF Probe, mid
<1>6. m \in [D -> Nat]
  <2> SUFFICES ASSUME NEW b \in D
               PROVE (IF b[1] > b[2] THEN 0 ELSE b[2] - b[1] + 1) \in Nat
    OBVIOUS
  <2>1. b[1] \in 1 .. n + 1 /\ b[2] \in 0 .. n /\ b[1] \in Int /\ b[2] \in Int
    BY <1>4
  <2> QED
    BY <2>1
<1>7. ASSUME NEW b \in D, \A y \in D : m[y] < m[b] => y \in T PROVE b \in T
  <2>a. /\ b[1] \in 1 .. n + 1 /\ b[2] \in 0 .. n /\ b[1] \in Int /\ b[2] \in Int
        /\ mid(b) \in Int
        /\ b[1] <= b[2] =>
             /\ b[1] <= mid(b) /\ mid(b) <= b[2] /\ mid(b) \in 1 .. n
             /\ <<mid(b) + 1, b[2]>> \in D /\ <<b[1], mid(b) - 1>> \in D
    BY <1>4
  <2>i. b[1] <= b[2] => s[mid(b)].key \in Int
    BY <1>3, <2>a
  <2>e. probe[b] = IF b[1] > b[2] THEN 0
                   ELSE IF s[mid(b)].key = k THEN mid(b)
                   ELSE IF s[mid(b)].key < k THEN probe[<<mid(b) + 1, b[2]>>]
                   ELSE probe[<<b[1], mid(b) - 1>>]
    BY <1>5
  <2>m. m[b] = IF b[1] > b[2] THEN 0 ELSE b[2] - b[1] + 1
    OBVIOUS
  <2>n. \A y \in D : m[y] = IF y[1] > y[2] THEN 0 ELSE y[2] - y[1] + 1
    OBVIOUS
  <2> HIDE DEF D, m
  <2>1. CASE b[1] > b[2]
    BY <2>a, <2>e, <2>1
  <2>2. CASE b[1] <= b[2] /\ s[mid(b)].key = k
    <3>1. probe[b] = mid(b) /\ mid(b) \in 1 .. n /\ mid(b) # 0
      BY <1>3, <2>a, <2>e, <2>2
    <3> QED
      BY <2>2, <3>1
  <2>3. CASE b[1] <= b[2] /\ s[mid(b)].key < k
    <3> DEFINE y == <<mid(b) + 1, b[2]>>
    <3>1. y \in D /\ y[1] = mid(b) + 1 /\ y[2] = b[2] /\ probe[b] = probe[y]
      BY <2>a, <2>i, <2>e, <2>3
    <3> HIDE DEF y
    <3>2. m[y] < m[b]
      <4>1. m[b] = b[2] - b[1] + 1 /\ m[y] = IF y[1] > y[2] THEN 0 ELSE y[2] - y[1] + 1
        BY <2>a, <2>m, <2>n, <2>3, <3>1
      <4> QED
        BY <2>a, <2>3, <3>1, <4>1, SMTT(30)
    <3>3. Right(y)
      BY <1>7, <3>1, <3>2
    <3>4. ASSUME KeyOrdered(s), NEW q \in b[1] .. mid(b) PROVE s[q].key # k
      <4>1. q \in 1 .. n /\ mid(b) \in 1 .. n /\ (q < mid(b) \/ q = mid(b))
        BY <1>3, <2>a, <2>3, SMTT(30)
      <4>2. s[q].key <= s[mid(b)].key
        BY <1>3, <3>4, <4>1 DEF KeyOrdered, n
      <4> QED
        BY <2>a, <2>i, <2>3, <4>1, <4>2
    <3>5. \A q \in b[1] .. b[2] : q \in b[1] .. mid(b) \/ q \in y[1] .. y[2]
      BY <2>a, <2>3, <3>1
    <3>6. Right(b)
      BY <3>1, <3>3, <3>4, <3>5
    <3> QED
      BY <3>6
  <2>4. CASE b[1] <= b[2] /\ s[mid(b)].key > k
    <3> DEFINE y == <<b[1], mid(b) - 1>>
    <3>1. y \in D /\ y[1] = b[1] /\ y[2] = mid(b) - 1 /\ probe[b] = probe[y]
      BY <2>a, <2>i, <2>e, <2>4
    <3> HIDE DEF y
    <3>2. m[y] < m[b]
      <4>1. m[b] = b[2] - b[1] + 1 /\ m[y] = IF y[1] > y[2] THEN 0 ELSE y[2] - y[1] + 1
        BY <2>a, <2>m, <2>n, <2>4, <3>1
      <4> QED
        BY <2>a, <2>4, <3>1, <4>1
    <3>3. Right(y)
      BY <1>7, <3>1, <3>2
    <3>4. ASSUME KeyOrdered(s), NEW q \in mid(b) .. b[2] PROVE s[q].key # k
      <4>1. q \in 1 .. n /\ mid(b) \in 1 .. n /\ (mid(b) < q \/ q = mid(b))
        BY <1>3, <2>a, <2>4
      <4>2. s[mid(b)].key <= s[q].key
        BY <1>3, <3>4, <4>1 DEF KeyOrdered, n
      <4> QED
        BY <2>a, <2>i, <2>4, <4>1, <4>2
    <3>5. \A q \in b[1] .. b[2] : q \in mid(b) .. b[2] \/ q \in y[1] .. y[2]
      BY <2>a, <2>4, <3>1
    <3>6. Right(b)
      BY <3>1, <3>3, <3>4, <3>5
    <3> QED
      BY <3>6
  <2> QED
    BY <2>a, <2>i, <2>1, <2>2, <2>3, <2>4
<1> HIDE DEF m, T
<1>8. D \subseteq T
  BY <1>6, <1>7, MeasureInduction
<1>9. <<1, n>> \in D
  BY <1>3 DEF Windows, n
<1>10. Right(<<1, n>>)
  BY <1>8, <1>9 DEF T
<1> QED
  BY <1>2, <1>10 DEF n
------------------------------------------------------------------------------
\* The recursion in Kept, over the first entries.
Keeping(s, f) ==
  [n \in 0 .. Len(s) |->
     IF n = 0 THEN <<>>
     ELSE IF s[n].deleted THEN f[n - 1] ELSE Append(f[n - 1], s[n])]

LEMMA KeptRecursion == ASSUME NEW s \in Seq(Entry) PROVE \E f : f = Keeping(s, f)
<1> DEFINE D == 0 .. Len(s)
           V == Seq(Entry)
           m == [n \in D |-> n]
           base == [n \in D |-> <<>>]
           next == [n \in D |-> IF n = 0 THEN 0 ELSE n - 1]
           comb == [p \in D \X V |->
                      IF p[1] = 0 THEN <<>>
                      ELSE IF s[p[1]].deleted THEN p[2] ELSE Append(p[2], s[p[1]])]
<1>1. Len(s) \in Nat /\ \A n \in 1 .. Len(s) : s[n] \in Entry
  BY EntriesHaveKeys
<1>2. m \in [D -> Nat] /\ base \in [D -> V] /\ next \in [D -> D]
  BY <1>1
<1>3. comb \in [D \X V -> V]
  <2> SUFFICES ASSUME NEW p \in D \X V PROVE comb[p] \in V
    OBVIOUS
  <2>1. p[1] = 0 \/ s[p[1]] \in Entry
    BY <1>1
  <2> QED
    BY <2>1
<1>4. \A n \in D : m[n] # 0 => m[next[n]] < m[n]
  BY <1>1
<1>5. PICK f \in [D -> V] : Solves(f, D, m, base, next, comb)
  <2> HIDE DEF D, m, base, next, comb, V
  <2> QED
    BY <1>2, <1>3, <1>4, Recursion
<1>6. \A n \in D : f[n] = IF n = 0 THEN <<>>
                          ELSE IF s[n].deleted THEN f[n - 1] ELSE Append(f[n - 1], s[n])
  <2> TAKE n \in D
  <2>1. CASE n = 0
    BY <1>5, <2>1 DEF Solves
  <2>2. CASE n # 0
    <3>1. n - 1 \in D /\ f[n - 1] \in V /\ next[n] = n - 1
      BY <1>1, <2>2
    <3>2. f[n] = comb[<<n, f[n - 1]>>]
      BY <1>5, <2>2, <3>1 DEF Solves
    <3> HIDE DEF V
    <3>3. <<n, f[n - 1]>> \in D \X V
      BY <3>1
    <3> QED
      BY <2>2, <3>2, <3>3
  <2> QED
    BY <2>1, <2>2
<1>7. f = Keeping(s, f)
  BY <1>6 DEF Keeping
<1> QED
  BY <1>7

\* The entries kept are the live ones, in their order.
KeepsLive(s, n, t) ==
  /\ t \in Seq(Entry)
  /\ \A i \in 1 .. Len(t) : \E q \in 1 .. n : t[i] = s[q]
  /\ \A q \in 1 .. n : ~s[q].deleted => \E i \in 1 .. Len(t) : t[i] = s[q]
  /\ KeyOrdered(s) => KeyOrdered(t)

LEMMA KeptIsRight == ASSUME NEW s \in Seq(Entry) PROVE KeepsLive(s, Len(s), Kept(s))
<1> DEFINE kept == CHOOSE f : f = Keeping(s, f)
           T == {n \in Nat : n <= Len(s) => KeepsLive(s, n, kept[n])}
<1>1. kept = Keeping(s, kept)
  BY KeptRecursion
<1>2. Kept(s) = kept[Len(s)]
  BY DEF Kept, Keeping
<1>3. Len(s) \in Nat /\ \A q \in 1 .. Len(s) : s[q] \in Entry /\ s[q].key \in Int
  BY EntriesHaveKeys
<1> HIDE DEF kept
<1>4. \A n \in 0 .. Len(s) :
        kept[n] = IF n = 0 THEN <<>>
                  ELSE IF s[n].deleted THEN kept[n - 1] ELSE Append(kept[n - 1], s[n])
  BY <1>1 DEF Keeping
<1>5. 0 \in T
  <2>1. kept[0] = <<>>
    BY <1>3, <1>4
  <2>2. <<>> \in Seq(Entry) /\ Len(<<>>) = 0
    OBVIOUS
  <2>3. KeepsLive(s, 0, <<>>)
    BY <2>2 DEF KeepsLive, KeyOrdered
  <2> QED
    BY <2>1, <2>3
<1>6. ASSUME NEW n \in Nat, n \in T PROVE n + 1 \in T
  <2> SUFFICES ASSUME n + 1 <= Len(s) PROVE KeepsLive(s, n + 1, kept[n + 1])
    OBVIOUS
  <2> DEFINE t == kept[n]
             u == kept[n + 1]
             e == s[n + 1]
  <2> SUFFICES KeepsLive(s, n + 1, u)
    OBVIOUS
  <2>1. KeepsLive(s, n, t)
    BY <1>3, <1>6
  <2>2. /\ n + 1 \in 1 .. Len(s) /\ e \in Entry
        /\ u = IF e.deleted THEN t ELSE Append(t, e)
    BY <1>3, <1>4
  <2> HIDE DEF t, u
  <2>3. CASE e.deleted
    <3>1. u = t
      BY <2>2, <2>3
    <3>2. \A q \in 1 .. n : q \in 1 .. n + 1
      OBVIOUS
    <3>3. \A q \in 1 .. n + 1 : ~s[q].deleted => q \in 1 .. n
      BY <2>3 DEF e
    <3> QED
      BY <2>1, <3>1, <3>2, <3>3 DEF KeepsLive
  <2>4. CASE ~e.deleted
    <3>1. /\ u \in Seq(Entry) /\ Len(u) = Len(t) + 1 /\ Len(t) \in Nat
          /\ u[Len(t) + 1] = e /\ \A i \in 1 .. Len(t) : u[i] = t[i]
      BY <2>1, <2>2, <2>4, AppendProperties DEF KeepsLive
    <3>2. \A i \in 1 .. Len(u) : \E q \in 1 .. n + 1 : u[i] = s[q]
      <4> TAKE i \in 1 .. Len(u)
      <4>1. CASE i = Len(t) + 1
        BY <3>1, <4>1
      <4>2. CASE i # Len(t) + 1
        <5>1. i \in 1 .. Len(t)
          BY <3>1, <4>2
        <5>2. PICK q \in 1 .. n : t[i] = s[q]
          BY <2>1, <5>1 DEF KeepsLive
        <5> QED
          BY <3>1, <5>1, <5>2
      <4> QED
        BY <4>1, <4>2
    <3>3. \A q \in 1 .. n + 1 : ~s[q].deleted => \E i \in 1 .. Len(u) : u[i] = s[q]
      <4> TAKE q \in 1 .. n + 1
      <4> HAVE ~s[q].deleted
      <4>1. CASE q = n + 1
        BY <3>1, <4>1
      <4>2. CASE q # n + 1
        <5>1. q \in 1 .. n
          BY <4>2
        <5>2. PICK i \in 1 .. Len(t) : t[i] = s[q]
          BY <2>1, <5>1 DEF KeepsLive
        <5> QED
          BY <3>1, <5>2
      <4> QED
        BY <4>1, <4>2
    <3>4. ASSUME KeyOrdered(s), NEW i \in 1 .. Len(u), NEW j \in 1 .. Len(u), i < j
          PROVE  u[i].key <= u[j].key
      <4>1. i \in 1 .. Len(t) /\ u[i] = t[i]
        BY <3>1, <3>4
      <4>2. CASE j \in 1 .. Len(t)
        BY <2>1, <3>1, <3>4, <4>1, <4>2 DEF KeepsLive, KeyOrdered
      <4>3. CASE j = Len(t) + 1
        <5>1. PICK q \in 1 .. n : t[i] = s[q]
          BY <2>1, <4>1 DEF KeepsLive
        <5>2. q \in 1 .. Len(s) /\ n + 1 \in 1 .. Len(s) /\ q < n + 1
          BY <1>3, <2>2
        <5>3. s[q].key <= s[n + 1].key
          BY <3>4, <5>2 DEF KeyOrdered
        <5> QED
          BY <3>1, <4>1, <4>3, <5>1, <5>3
      <4> QED
        BY <3>1, <4>2, <4>3
    <3> QED
      BY <3>1, <3>2, <3>3, <3>4 DEF KeepsLive, KeyOrdered
  <2> QED
    BY <2>3, <2>4
<1> HIDE DEF T
<1>7. Nat \subseteq T
  BY <1>5, <1>6, Induction
<1> QED
  BY <1>2, <1>3, <1>7 DEF T
------------------------------------------------------------------------------
\* The recursion in Merge.
Positions(src, dst) ==
  (1 .. Len(src) + 1) \X (1 .. Len(dst) + 1) \X (Keys \cup {NotFound})

Merging(src, dst, f) ==
  [p \in Positions(src, dst) |->
     LET i == p[1]
         j == p[2]
     IN  IF i > Len(src) THEN SubSeq(dst, j, Len(dst))
         ELSE IF j > Len(dst) THEN SubSeq(src, i, Len(src))
         ELSE IF src[i].key > dst[j].key
           THEN <<dst[j]>> \o f[<<i, j + 1, dst[j].key>>]
         ELSE IF i > 1 /\ p[3] = src[i].key THEN f[<<i + 1, j, p[3]>>]
         ELSE <<src[i]>> \o f[<<i + 1, j, src[i].key>>]]

LEMMA SuffixProperties ==
  ASSUME NEW s \in Seq(Entry), NEW a \in 1 .. Len(s) + 1
  PROVE  LET u == SubSeq(s, a, Len(s))
         IN  /\ u \in Seq(Entry) /\ Len(u) = Len(s) - a + 1
             /\ \A t \in 1 .. Len(u) : a + t - 1 \in 1 .. Len(s) /\ u[t] = s[a + t - 1]
             /\ \A q \in 1 .. Len(s) : q >= a => q - a + 1 \in 1 .. Len(u) /\ u[q - a + 1] = s[q]
<1> DEFINE n == Len(s)
           u == SubSeq(s, a, n)
<1>1. n \in Nat /\ a \in Int /\ a >= 1 /\ a <= n + 1 /\ \A i \in a .. n : s[i] \in Entry
  BY EntriesHaveKeys
<1> HIDE DEF n
<1>2. /\ u \in Seq(Entry) /\ Len(u) = IF a <= n THEN n - a + 1 ELSE 0
      /\ \A i \in 1 .. n - a + 1 : u[i] = s[a + i - 1]
  BY <1>1, SubSeqProperties
<1> HIDE DEF u
<1>3. Len(u) = n - a + 1
  BY <1>1, <1>2
<1>4. \A t \in 1 .. Len(u) : a + t - 1 \in 1 .. n /\ u[t] = s[a + t - 1]
  BY <1>1, <1>2, <1>3
<1>5. \A q \in 1 .. n : q >= a => q - a + 1 \in 1 .. Len(u) /\ u[q - a + 1] = s[q]
  <2> TAKE q \in 1 .. n
  <2> HAVE q >= a
  <2>1. q - a + 1 \in 1 .. Len(u) /\ a + (q - a + 1) - 1 = q
    BY <1>1, <1>3
  <2>2. u[q - a + 1] = s[a + (q - a + 1) - 1]
    BY <1>4, <2>1
  <2> QED
    BY <2>1, <2>2
<1> QED
  BY <1>2, <1>3, <1>4, <1>5 DEF n, u

LEMMA ConsProperties ==
  ASSUME NEW e \in Entry, NEW v \in Seq(Entry)
  PROVE  LET u == <<e>> \o v
         IN  /\ u \in Seq(Entry) /\ Len(u) = Len(v) + 1 /\ u[1] = e
             /\ \A t \in 1 .. Len(u) : t = 1 \/ (t - 1 \in 1 .. Len(v) /\ u[t] = v[t - 1])
             /\ \A t \in 1 .. Len(v) : t + 1 \in 1 .. Len(u) /\ u[t + 1] = v[t]
<1> DEFINE w == <<e>>
           u == w \o v
<1>1. w \in Seq(Entry) /\ Len(w) = 1 /\ w[1] = e /\ Len(v) \in Nat
  OBVIOUS
<1> HIDE DEF w
<1>2. /\ u \in Seq(Entry) /\ Len(u) = Len(w) + Len(v)
      /\ \A i \in 1 .. Len(w) + Len(v) : u[i] = IF i <= Len(w) THEN w[i] ELSE v[i - Len(w)]
  BY <1>1, ConcatProperties
<1> HIDE DEF u
<1>3. u[1] = e
  BY <1>1, <1>2
<1>4. \A t \in 1 .. Len(u) : t = 1 \/ (t - 1 \in 1 .. Len(v) /\ u[t] = v[t - 1])
  BY <1>1, <1>2
<1>5. \A t \in 1 .. Len(v) : t + 1 \in 1 .. Len(u) /\ u[t + 1] = v[t]
  BY <1>1, <1>2
<1> QED
  BY <1>1, <1>2, <1>3, <1>4, <1>5 DEF u, w

LEMMA DistanceShrinks ==
  ASSUME NEW a \in Int, NEW b \in Int, NEW i \in Int, NEW j \in Int, i <= a, j <= b
  PROVE  /\ (a + 1 - i) + (b + 1 - j) \in Nat /\ 0 < (a + 1 - i) + (b + 1 - j)
         /\ \A x, y \in Int : x + y = i + j + 1 =>
              (a + 1 - x) + (b + 1 - y) < (a + 1 - i) + (b + 1 - j)
OBVIOUS

LEMMA DistanceIsNat ==
  ASSUME NEW a \in Nat, NEW i \in 1 .. a + 1
  PROVE  a + 1 - i \in Nat
OBVIOUS

LEMMA MergeRecursion ==
  ASSUME NEW src \in Seq(Entry), NEW dst \in Seq(Entry)
  PROVE  \E f : f = Merging(src, dst, f)
<1> DEFINE a == Len(src)
           b == Len(dst)
           K == Keys \cup {NotFound}
           D == Positions(src, dst)
           V == Seq(Entry)
           more(p) == p[1] <= a /\ p[2] <= b
           m == [p \in D |-> IF more(p) THEN (a + 1 - p[1]) + (b + 1 - p[2]) ELSE 0]
           base == [p \in D |-> IF p[1] > a THEN SubSeq(dst, p[2], b)
                                ELSE IF p[2] > b THEN SubSeq(src, p[1], a) ELSE <<>>]
           next == [p \in D |->
                      IF ~more(p) THEN p
                      ELSE IF src[p[1]].key > dst[p[2]].key
                        THEN <<p[1], p[2] + 1, dst[p[2]].key>>
                      ELSE IF p[1] > 1 /\ p[3] = src[p[1]].key THEN <<p[1] + 1, p[2], p[3]>>
                      ELSE <<p[1] + 1, p[2], src[p[1]].key>>]
           comb == [x \in D \X V |->
                      LET p == x[1]
                      IN  IF ~more(p) THEN <<>>
                          ELSE IF src[p[1]].key > dst[p[2]].key THEN <<dst[p[2]]>> \o x[2]
                          ELSE IF p[1] > 1 /\ p[3] = src[p[1]].key THEN x[2]
                          ELSE <<src[p[1]]>> \o x[2]]
<1>1. /\ a \in Nat /\ \A q \in 1 .. a : src[q] \in Entry /\ src[q].key \in K /\ src[q].key \in Int
      /\ b \in Nat /\ \A q \in 1 .. b : dst[q] \in Entry /\ dst[q].key \in K /\ dst[q].key \in Int
  <2>1. \A e \in Entry : e.key \in K
    BY DEF Entry
  <2> QED
    BY <2>1, EntriesHaveKeys
<1>2. \A p \in D : /\ p[1] \in 1 .. a + 1 /\ p[2] \in 1 .. b + 1 /\ p[3] \in K
                   /\ p[1] \in Int /\ p[2] \in Int
  BY <1>1 DEF Positions
<1>3. \A i \in 1 .. a + 1, j \in 1 .. b + 1, k \in K : <<i, j, k>> \in D
  BY DEF Positions
<1> HIDE DEF a, b, K, D
<1>4. m \in [D -> Nat]
  <2> SUFFICES ASSUME NEW p \in D
               PROVE  (IF more(p) THEN (a + 1 - p[1]) + (b + 1 - p[2]) ELSE 0) \in Nat
    OBVIOUS
  <2>1. a \in Int /\ b \in Int /\ p[1] \in Int /\ p[2] \in Int
    BY <1>1, <1>2
  <2>2. CASE more(p)
    BY <2>1, <2>2, DistanceShrinks
  <2>3. CASE ~more(p)
    BY <2>3
  <2> QED
    BY <2>2, <2>3
<1>5. base \in [D -> V]
  <2> SUFFICES ASSUME NEW p \in D
               PROVE  (IF p[1] > a THEN SubSeq(dst, p[2], b)
                       ELSE IF p[2] > b THEN SubSeq(src, p[1], a) ELSE <<>>) \in V
    OBVIOUS
  <2>1. SubSeq(dst, p[2], b) \in V
    BY <1>2, SuffixProperties DEF b
  <2>2. SubSeq(src, p[1], a) \in V
    BY <1>2, SuffixProperties DEF a
  <2> QED
    BY <2>1, <2>2
<1>6. \A p \in D : more(p) => /\ p[1] \in 1 .. a /\ p[2] \in 1 .. b
                              /\ <<p[1], p[2] + 1, dst[p[2]].key>> \in D
                              /\ <<p[1] + 1, p[2], p[3]>> \in D
                              /\ <<p[1] + 1, p[2], src[p[1]].key>> \in D
  <2> TAKE p \in D
  <2> HAVE more(p)
  <2>1. /\ p[1] \in 1 .. a /\ p[2] \in 1 .. b /\ p[3] \in K
        /\ p[1] \in 1 .. a + 1 /\ p[2] \in 1 .. b + 1
        /\ p[1] + 1 \in 1 .. a + 1 /\ p[2] + 1 \in 1 .. b + 1
    BY <1>1, <1>2, SMTT(30)
  <2>2. dst[p[2]].key \in K /\ src[p[1]].key \in K
    BY <1>1, <2>1
  <2> QED
    BY <1>3, <2>1, <2>2
<1>7. next \in [D -> D]
  <2>1. ASSUME NEW p \in D PROVE next[p] \in D
    BY <1>6
  <2> QED
    BY <2>1
<1>8. comb \in [D \X V -> V]
  <2> SUFFICES ASSUME NEW x \in D \X V PROVE comb[x] \in V
    OBVIOUS
  <2> DEFINE p == x[1]
  <2>1. p \in D /\ x[2] \in V
    OBVIOUS
  <2>2. more(p) => <<dst[p[2]]>> \o x[2] \in V /\ <<src[p[1]]>> \o x[2] \in V
    BY <1>1, <1>6, <2>1, ConsProperties
  <2>3. comb[x] = IF ~more(p) THEN <<>>
                  ELSE IF src[p[1]].key > dst[p[2]].key THEN <<dst[p[2]]>> \o x[2]
                  ELSE IF p[1] > 1 /\ p[3] = src[p[1]].key THEN x[2]
                  ELSE <<src[p[1]]>> \o x[2]
    OBVIOUS
  <2>4. <<>> \in V
    OBVIOUS
  <2> HIDE DEF comb, p, more, V
  <2> QED
    BY <2>1, <2>2, <2>3, <2>4
<1>9. \A p \in D : m[p] # 0 => m[next[p]] < m[p]
  <2> TAKE p \in D
  <2> HAVE m[p] # 0
  <2>1. more(p) /\ m[p] = (a + 1 - p[1]) + (b + 1 - p[2])
    OBVIOUS
  <2> DEFINE y == next[p]
  <2>2. /\ y \in D
        /\ \/ y[1] = p[1] /\ y[2] = p[2] + 1
           \/ y[1] = p[1] + 1 /\ y[2] = p[2]
    BY <1>6, <2>1
  <2>3. y[1] \in Int /\ y[2] \in Int /\ p[1] \in Int /\ p[2] \in Int
    BY <1>2, <2>2
  <2> HIDE DEF y
  <2>4. m[y] = IF more(y) THEN (a + 1 - y[1]) + (b + 1 - y[2]) ELSE 0
    BY <2>2
  <2> HIDE DEF m
  <2>5. m[y] < m[p]
    <3>1. a \in Int /\ b \in Int /\ p[1] <= a /\ p[2] <= b
      BY <1>1, <2>1
    <3>2. y[1] + y[2] = p[1] + p[2] + 1
      <4>1. CASE y[1] = p[1] /\ y[2] = p[2] + 1
        BY <2>3, <4>1
      <4>2. CASE y[1] = p[1] + 1 /\ y[2] = p[2]
        BY <2>3, <4>2
      <4> QED
        BY <2>2, <4>1, <4>2
    <3> HIDE DEF more
    <3>3. /\ (a + 1 - y[1]) + (b + 1 - y[2]) < (a + 1 - p[1]) + (b + 1 - p[2])
          /\ 0 < (a + 1 - p[1]) + (b + 1 - p[2])
      BY <2>3, <3>1, <3>2, DistanceShrinks
    <3> QED
      BY <2>1, <2>4, <3>3
  <2> QED
    BY <2>5 DEF y
<1>10. PICK f \in [D -> V] : Solves(f, D, m, base, next, comb)
  <2> HIDE DEF m, base, next, comb, V
  <2> QED
    BY <1>4, <1>5, <1>7, <1>8, <1>9, Recursion
<1>11. ASSUME NEW p \in D
       PROVE  f[p] = IF p[1] > a THEN SubSeq(dst, p[2], b)
                     ELSE IF p[2] > b THEN SubSeq(src, p[1], a)
                     ELSE IF src[p[1]].key > dst[p[2]].key
                       THEN <<dst[p[2]]>> \o f[<<p[1], p[2] + 1, dst[p[2]].key>>]
                     ELSE IF p[1] > 1 /\ p[3] = src[p[1]].key THEN f[<<p[1] + 1, p[2], p[3]>>]
                     ELSE <<src[p[1]]>> \o f[<<p[1] + 1, p[2], src[p[1]].key>>]
  <2>1. p[1] \in Int /\ p[2] \in Int /\ a \in Int /\ b \in Int
    BY <1>1, <1>2
  <2>2. CASE ~more(p)
    <3>1. m[p] = 0
      BY <2>2
    <3>2. f[p] = base[p]
      BY <1>10, <3>1 DEF Solves
    <3>3. base[p] = IF p[1] > a THEN SubSeq(dst, p[2], b) ELSE SubSeq(src, p[1], a)
      BY <2>1, <2>2
    <3> QED
      BY <2>1, <2>2, <3>2, <3>3, SMTT(30)
  <2>3. CASE more(p)
    <3>1. m[p] # 0
      <4>1. m[p] = (a + 1 - p[1]) + (b + 1 - p[2])
        BY <2>3
      <4> HIDE DEF m
      <4> QED
        BY <2>1, <2>3, <4>1, SMTT(30)
    <3>2. f[p] = comb[<<p, f[next[p]]>>]
      BY <1>10, <3>1 DEF Solves
    <3>3. next[p] \in D /\ <<p, f[next[p]]>> \in D \X V
      <4>1. next[p] \in D
        BY <1>7
      <4>2. f[next[p]] \in V
        BY <1>10, <4>1
      <4> HIDE DEF next, V
      <4> QED
        BY <4>1, <4>2
    <3> DEFINE g == f[next[p]]
    <3>4. comb[<<p, g>>] =
            IF src[p[1]].key > dst[p[2]].key THEN <<dst[p[2]]>> \o g
            ELSE IF p[1] > 1 /\ p[3] = src[p[1]].key THEN g
            ELSE <<src[p[1]]>> \o g
      <4> HIDE DEF g, V
      <4>1. <<p, g>> \in D \X V
        BY <3>3 DEF g
      <4> QED
        BY <2>3, <4>1
    <3>5. next[p] = IF src[p[1]].key > dst[p[2]].key
                        THEN <<p[1], p[2] + 1, dst[p[2]].key>>
                      ELSE IF p[1] > 1 /\ p[3] = src[p[1]].key THEN <<p[1] + 1, p[2], p[3]>>
                      ELSE <<p[1] + 1, p[2], src[p[1]].key>>
      BY <2>3
    <3> HIDE DEF next, comb, m, base
    <3>6. ~(p[1] > a) /\ ~(p[2] > b)
      BY <2>1, <2>3
    <3> QED
      BY <3>2, <3>4, <3>5, <3>6 DEF g
  <2> QED
    BY <2>2, <2>3
<1>12. f = Merging(src, dst, f)
  BY <1>10, <1>11 DEF Merging, a, b, D
<1> QED
  BY <1>12

\* What the merge from src[i], dst[j] on returns, k being the key merged last: entries
\* of the two levels, all those of dst, one of every other key of src, in key order.
Blends(src, dst, i, j, k, r) ==
  /\ r \in Seq(Entry)
  /\ \A t \in 1 .. Len(r) : \/ \E q \in 1 .. Len(src) : i <= q /\ r[t] = src[q]
                            \/ \E q \in 1 .. Len(dst) : j <= q /\ r[t] = dst[q]
  /\ \A q \in 1 .. Len(dst) : j <= q => \E t \in 1 .. Len(r) : r[t] = dst[q]
  /\ \A q \in 1 .. Len(src) :
       i <= q => \/ i > 1 /\ k = src[q].key
                 \/ \E t \in 1 .. Len(r) : r[t].key = src[q].key
  /\ KeyOrdered(src) /\ KeyOrdered(dst) => KeyOrdered(r)

LEMMA SuffixIsOrdered ==
  ASSUME NEW s \in Seq(Entry), NEW a \in 1 .. Len(s) + 1, KeyOrdered(s)
  PROVE  KeyOrdered(SubSeq(s, a, Len(s)))
<1> DEFINE u == SubSeq(s, a, Len(s))
<1>1. /\ Len(u) = Len(s) - a + 1 /\ Len(s) \in Nat
      /\ \A t \in 1 .. Len(u) : a + t - 1 \in 1 .. Len(s) /\ u[t] = s[a + t - 1]
  BY SuffixProperties
<1> HIDE DEF u
<1>2. ASSUME NEW x \in 1 .. Len(u), NEW y \in 1 .. Len(u), x < y
      PROVE  u[x].key <= u[y].key
  <2>1. /\ a + x - 1 \in 1 .. Len(s) /\ u[x] = s[a + x - 1]
        /\ a + y - 1 \in 1 .. Len(s) /\ u[y] = s[a + y - 1]
    BY <1>1
  <2>2. a + x - 1 < a + y - 1
    BY <1>1, <1>2
  <2> QED
    BY <2>1, <2>2 DEF KeyOrdered
<1> QED
  BY <1>2 DEF KeyOrdered, u

LEMMA ConsIsOrdered ==
  ASSUME NEW e \in Entry, NEW v \in Seq(Entry), KeyOrdered(v),
         \A t \in 1 .. Len(v) : e.key <= v[t].key
  PROVE  KeyOrdered(<<e>> \o v)
<1> DEFINE u == <<e>> \o v
<1>1. /\ u \in Seq(Entry) /\ Len(u) = Len(v) + 1 /\ u[1] = e /\ Len(v) \in Nat
      /\ \A t \in 1 .. Len(u) : t = 1 \/ (t - 1 \in 1 .. Len(v) /\ u[t] = v[t - 1])
  BY ConsProperties
<1> HIDE DEF u
<1>2. ASSUME NEW x \in 1 .. Len(u), NEW y \in 1 .. Len(u), x < y
      PROVE  u[x].key <= u[y].key
  <2>1. y - 1 \in 1 .. Len(v) /\ u[y] = v[y - 1]
    BY <1>1, <1>2
  <2>2. CASE x = 1
    BY <1>1, <2>1, <2>2
  <2>3. CASE x # 1
    <3>1. x - 1 \in 1 .. Len(v) /\ u[x] = v[x - 1] /\ x - 1 < y - 1
      BY <1>1, <1>2, <2>3
    <3> QED
      BY <2>1, <3>1 DEF KeyOrdered
  <2> QED
    BY <2>2, <2>3
<1> QED
  BY <1>2 DEF KeyOrdered, u

LEMMA TakesFromDst ==
  ASSUME NEW src \in Seq(Entry), NEW dst \in Seq(Entry), NEW k,
         NEW i \in 1 .. Len(src), NEW j \in 1 .. Len(dst), src[i].key > dst[j].key,
         NEW v, Blends(src, dst, i, j + 1, dst[j].key, v)
  PROVE  Blends(src, dst, i, j, k, <<dst[j]>> \o v)
<1> DEFINE e == dst[j]
           u == <<e>> \o v
<1>1. /\ Len(src) \in Nat /\ \A q \in 1 .. Len(src) : src[q] \in Entry /\ src[q].key \in Int
      /\ Len(dst) \in Nat /\ \A q \in 1 .. Len(dst) : dst[q] \in Entry /\ dst[q].key \in Int
  BY EntriesHaveKeys
<1>2. e \in Entry /\ v \in Seq(Entry)
  BY <1>1 DEF Blends
<1>3. /\ u \in Seq(Entry) /\ Len(u) = Len(v) + 1 /\ u[1] = e /\ 1 \in 1 .. Len(u)
      /\ \A t \in 1 .. Len(u) : t = 1 \/ (t - 1 \in 1 .. Len(v) /\ u[t] = v[t - 1])
      /\ \A t \in 1 .. Len(v) : t + 1 \in 1 .. Len(u) /\ u[t + 1] = v[t]
  BY <1>2, ConsProperties
<1> HIDE DEF u
<1>4. \A t \in 1 .. Len(v) : \/ \E q \in 1 .. Len(src) : i <= q /\ v[t] = src[q]
                             \/ \E q \in 1 .. Len(dst) : j + 1 <= q /\ v[t] = dst[q]
  BY DEF Blends
<1>5. \A t \in 1 .. Len(u) : \/ \E q \in 1 .. Len(src) : i <= q /\ u[t] = src[q]
                             \/ \E q \in 1 .. Len(dst) : j <= q /\ u[t] = dst[q]
  <2> TAKE t \in 1 .. Len(u)
  <2>1. CASE t = 1
    BY <1>3, <2>1
  <2>2. CASE t # 1
    <3>1. t - 1 \in 1 .. Len(v) /\ u[t] = v[t - 1]
      BY <1>3, <2>2
    <3>2. \/ \E q \in 1 .. Len(src) : i <= q /\ u[t] = src[q]
          \/ \E q \in 1 .. Len(dst) : j + 1 <= q /\ u[t] = dst[q]
      BY <1>4, <3>1
    <3>3. \A q \in 1 .. Len(dst) : j + 1 <= q => j <= q
      OBVIOUS
    <3> QED
      BY <3>2, <3>3
  <2> QED
    BY <2>1, <2>2
<1>6. \A q \in 1 .. Len(dst) : j <= q => \E t \in 1 .. Len(u) : u[t] = dst[q]
  <2> TAKE q \in 1 .. Len(dst)
  <2> HAVE j <= q
  <2>1. CASE q = j
    BY <1>3, <2>1
  <2>2. CASE q # j
    <3>1. j + 1 <= q
      BY <2>2
    <3>2. PICK t \in 1 .. Len(v) : v[t] = dst[q]
      BY <3>1 DEF Blends
    <3> QED
      BY <1>3, <3>2
  <2> QED
    BY <2>1, <2>2
<1>7. \A q \in 1 .. Len(src) : i <= q => \E t \in 1 .. Len(u) : u[t].key = src[q].key
  <2> TAKE q \in 1 .. Len(src)
  <2> HAVE i <= q
  <2>1. CASE e.key = src[q].key
    BY <1>3, <2>1
  <2>2. CASE e.key # src[q].key
    <3>1. PICK t \in 1 .. Len(v) : v[t].key = src[q].key
      BY <2>2 DEF Blends
    <3> QED
      BY <1>3, <3>1, SMTT(30)
  <2> QED
    BY <2>1, <2>2
<1>8. ASSUME KeyOrdered(src), KeyOrdered(dst) PROVE KeyOrdered(u)
  <2>1. KeyOrdered(v)
    BY <1>8 DEF Blends
  <2>2. \A t \in 1 .. Len(v) : e.key <= v[t].key
    <3> TAKE t \in 1 .. Len(v)
    <3>1. CASE \E q \in 1 .. Len(src) : i <= q /\ v[t] = src[q]
      <4>1. PICK q \in 1 .. Len(src) : i <= q /\ v[t] = src[q]
        BY <3>1
      <4>2. src[i].key \in Int /\ src[q].key \in Int /\ e.key \in Int
        BY <1>1
      <4>3. CASE i = q
        BY <4>1, <4>2, <4>3
      <4>4. CASE i < q
        <5>1. src[i].key <= src[q].key
          BY <1>8, <4>4 DEF KeyOrdered
        <5> QED
          BY <4>1, <4>2, <5>1
      <4> QED
        BY <4>1, <4>3, <4>4
    <3>2. CASE \E q \in 1 .. Len(dst) : j + 1 <= q /\ v[t] = dst[q]
      <4>1. PICK q \in 1 .. Len(dst) : j + 1 <= q /\ v[t] = dst[q]
        BY <3>2
      <4>2. dst[j].key <= dst[q].key
        BY <1>1, <1>8, <4>1 DEF KeyOrdered
      <4> QED
        BY <4>1, <4>2
    <3> QED
      BY <1>4, <3>1, <3>2
  <2> QED
    BY <1>2, <2>1, <2>2, ConsIsOrdered DEF u
<1>9. Blends(src, dst, i, j, k, u)
  BY <1>3, <1>5, <1>6, <1>7, <1>8 DEF Blends
<1> QED
  BY <1>9 DEF u

LEMMA TakesFromSrc ==
  ASSUME NEW src \in Seq(Entry), NEW dst \in Seq(Entry), NEW k,
         NEW i \in 1 .. Len(src), NEW j \in 1 .. Len(dst), src[i].key <= dst[j].key,
         NEW v, Blends(src, dst, i + 1, j, src[i].key, v)
  PROVE  Blends(src, dst, i, j, k, <<src[i]>> \o v)
<1> DEFINE e == src[i]
           u == <<e>> \o v
<1>1. /\ Len(src) \in Nat /\ \A q \in 1 .. Len(src) : src[q] \in Entry /\ src[q].key \in Int
      /\ Len(dst) \in Nat /\ \A q \in 1 .. Len(dst) : dst[q] \in Entry /\ dst[q].key \in Int
  BY EntriesHaveKeys
<1>2. e \in Entry /\ v \in Seq(Entry)
  BY <1>1 DEF Blends
<1>3. /\ u \in Seq(Entry) /\ Len(u) = Len(v) + 1 /\ u[1] = e /\ 1 \in 1 .. Len(u)
      /\ \A t \in 1 .. Len(u) : t = 1 \/ (t - 1 \in 1 .. Len(v) /\ u[t] = v[t - 1])
      /\ \A t \in 1 .. Len(v) : t + 1 \in 1 .. Len(u) /\ u[t + 1] = v[t]
  BY <1>2, ConsProperties
<1> HIDE DEF u
<1>4. \A t \in 1 .. Len(v) : \/ \E q \in 1 .. Len(src) : i + 1 <= q /\ v[t] = src[q]
                             \/ \E q \in 1 .. Len(dst) : j <= q /\ v[t] = dst[q]
  BY DEF Blends
<1>5. \A t \in 1 .. Len(u) : \/ \E q \in 1 .. Len(src) : i <= q /\ u[t] = src[q]
                             \/ \E q \in 1 .. Len(dst) : j <= q /\ u[t] = dst[q]
  <2> TAKE t \in 1 .. Len(u)
  <2>1. CASE t = 1
    BY <1>3, <2>1
  <2>2. CASE t # 1
    <3>1. t - 1 \in 1 .. Len(v) /\ u[t] = v[t - 1]
      BY <1>3, <2>2
    <3>2. \/ \E q \in 1 .. Len(src) : i + 1 <= q /\ u[t] = src[q]
          \/ \E q \in 1 .. Len(dst) : j <= q /\ u[t] = dst[q]
      BY <1>4, <3>1
    <3>3. \A q \in 1 .. Len(src) : i + 1 <= q => i <= q
      OBVIOUS
    <3> QED
      BY <3>2, <3>3
  <2> QED
    BY <2>1, <2>2
<1>6. \A q \in 1 .. Len(dst) : j <= q => \E t \in 1 .. Len(u) : u[t] = dst[q]
  <2> TAKE q \in 1 .. Len(dst)
  <2> HAVE j <= q
  <2>1. PICK t \in 1 .. Len(v) : v[t] = dst[q]
    BY DEF Blends
  <2> QED
    BY <1>3, <2>1
<1>7. \A q \in 1 .. Len(src) : i <= q => \E t \in 1 .. Len(u) : u[t].key = src[q].key
  <2> TAKE q \in 1 .. Len(src)
  <2> HAVE i <= q
  <2>1. CASE e.key = src[q].key
    BY <1>3, <2>1
  <2>2. CASE e.key # src[q].key
    <3>1. i + 1 <= q
      BY <2>2
    <3>2. PICK t \in 1 .. Len(v) : v[t].key = src[q].key
      BY <2>2, <3>1 DEF Blends
    <3> QED
      BY <1>3, <3>2, SMTT(30)
  <2> QED
    BY <2>1, <2>2
<1>8. ASSUME KeyOrdered(src), KeyOrdered(dst) PROVE KeyOrdered(u)
  <2>1. KeyOrdered(v)
    BY <1>8 DEF Blends
  <2>2. \A t \in 1 .. Len(v) : e.key <= v[t].key
    <3> TAKE t \in 1 .. Len(v)
    <3>1. CASE \E q \in 1 .. Len(src) : i + 1 <= q /\ v[t] = src[q]
      <4>1. PICK q \in 1 .. Len(src) : i + 1 <= q /\ v[t] = src[q]
        BY <3>1
      <4>2. src[i].key <= src[q].key
        BY <1>1, <1>8, <4>1 DEF KeyOrdered
      <4> QED
        BY <4>1, <4>2
    <3>2. CASE \E q \in 1 .. Len(dst) : j <= q /\ v[t] = dst[q]
      <4>1. PICK q \in 1 .. Len(dst) : j <= q /\ v[t] = dst[q]
        BY <3>2
      <4>2. dst[j].key <= dst[q].key
        BY <1>1, <1>8, <4>1 DEF KeyOrdered
      <4> QED
        BY <1>1, <4>1, <4>2
    <3> QED
      BY <1>4, <3>1, <3>2
  <2> QED
    BY <1>2, <2>1, <2>2, ConsIsOrdered DEF u
<1>9. Blends(src, dst, i, j, k, u)
  BY <1>3, <1>5, <1>6, <1>7, <1>8 DEF Blends
<1> QED
  BY <1>9 DEF u

LEMMA SkipsFromSrc ==
  ASSUME NEW src \in Seq(Entry), NEW dst \in Seq(Entry), NEW k,
         NEW i \in 1 .. Len(src), NEW j \in 1 .. Len(dst), i > 1, k = src[i].key,
         NEW r, Blends(src, dst, i + 1, j, k, r)
  PROVE  Blends(src, dst, i, j, k, r)
<1>1. \A q \in 1 .. Len(src) : (i + 1 <= q => i <= q) /\ (i <= q => q = i \/ i + 1 <= q)
  OBVIOUS
<1>2. \A t \in 1 .. Len(r) : \/ \E q \in 1 .. Len(src) : i <= q /\ r[t] = src[q]
                             \/ \E q \in 1 .. Len(dst) : j <= q /\ r[t] = dst[q]
  BY <1>1 DEF Blends
<1>3. \A q \in 1 .. Len(src) :
        i <= q => \/ i > 1 /\ k = src[q].key
                  \/ \E t \in 1 .. Len(r) : r[t].key = src[q].key
  BY <1>1 DEF Blends
<1> QED
  BY <1>2, <1>3 DEF Blends

LEMMA RestOfDst ==
  ASSUME NEW src \in Seq(Entry), NEW dst \in Seq(Entry), NEW k,
         NEW j \in 1 .. Len(dst) + 1
  PROVE  Blends(src, dst, Len(src) + 1, j, k, SubSeq(dst, j, Len(dst)))
<1> DEFINE u == SubSeq(dst, j, Len(dst))
<1>1. /\ u \in Seq(Entry) /\ Len(dst) \in Nat /\ Len(src) \in Nat /\ Len(u) = Len(dst) - j + 1
      /\ \A t \in 1 .. Len(u) : j + t - 1 \in 1 .. Len(dst) /\ u[t] = dst[j + t - 1]
      /\ \A q \in 1 .. Len(dst) : q >= j => q - j + 1 \in 1 .. Len(u) /\ u[q - j + 1] = dst[q]
  BY SuffixProperties, SMTT(30)
<1>2. KeyOrdered(dst) => KeyOrdered(u)
  BY SuffixIsOrdered
<1> HIDE DEF u
<1>3. \A t \in 1 .. Len(u) : \E q \in 1 .. Len(dst) : j <= q /\ u[t] = dst[q]
  <2> TAKE t \in 1 .. Len(u)
  <2>1. j + t - 1 \in 1 .. Len(dst) /\ u[t] = dst[j + t - 1] /\ j <= j + t - 1
    BY <1>1
  <2> QED
    BY <2>1
<1>4. \A q \in 1 .. Len(dst) : j <= q => \E t \in 1 .. Len(u) : u[t] = dst[q]
  <2> TAKE q \in 1 .. Len(dst)
  <2> HAVE j <= q
  <2>1. q - j + 1 \in 1 .. Len(u) /\ u[q - j + 1] = dst[q]
    BY <1>1
  <2> QED
    BY <2>1
<1>5. \A q \in 1 .. Len(src) : ~(Len(src) + 1 <= q)
  BY <1>1
<1>6. Blends(src, dst, Len(src) + 1, j, k, u)
  BY <1>1, <1>2, <1>3, <1>4, <1>5 DEF Blends
<1> QED
  BY <1>6 DEF u

LEMMA RestOfSrc ==
  ASSUME NEW src \in Seq(Entry), NEW dst \in Seq(Entry), NEW k,
         NEW i \in 1 .. Len(src) + 1
  PROVE  Blends(src, dst, i, Len(dst) + 1, k, SubSeq(src, i, Len(src)))
<1> DEFINE u == SubSeq(src, i, Len(src))
<1>1. /\ u \in Seq(Entry) /\ Len(dst) \in Nat /\ Len(src) \in Nat /\ Len(u) = Len(src) - i + 1
      /\ \A t \in 1 .. Len(u) : i + t - 1 \in 1 .. Len(src) /\ u[t] = src[i + t - 1]
      /\ \A q \in 1 .. Len(src) : q >= i => q - i + 1 \in 1 .. Len(u) /\ u[q - i + 1] = src[q]
  BY SuffixProperties
<1>2. KeyOrdered(src) => KeyOrdered(u)
  BY SuffixIsOrdered
<1> HIDE DEF u
<1>3. \A t \in 1 .. Len(u) : \E q \in 1 .. Len(src) : i <= q /\ u[t] = src[q]
  <2> TAKE t \in 1 .. Len(u)
  <2>1. i + t - 1 \in 1 .. Len(src) /\ u[t] = src[i + t - 1] /\ i <= i + t - 1
    BY <1>1
  <2> QED
    BY <2>1
<1>4. \A q \in 1 .. Len(src) : i <= q => \E t \in 1 .. Len(u) : u[t].key = src[q].key
  <2> TAKE q \in 1 .. Len(src)
  <2> HAVE i <= q
  <2>1. q - i + 1 \in 1 .. Len(u) /\ u[q - i + 1] = src[q]
    BY <1>1
  <2> QED
    BY <2>1
<1>5. \A q \in 1 .. Len(dst) : ~(Len(dst) + 1 <= q)
  BY <1>1
<1>6. Blends(src, dst, i, Len(dst) + 1, k, u)
  BY <1>1, <1>2, <1>3, <1>4, <1>5 DEF Blends
<1> QED
  BY <1>6 DEF u

\* A merge blends its two levels.
LEMMA MergeIsRight ==
  ASSUME NEW src \in Seq(Entry), NEW dst \in Seq(Entry)
  PROVE  Blends(src, dst, 1, 1, NotFound, Merge(src, dst))
<1> DEFINE a == Len(src)
           b == Len(dst)
           D == Positions(src, dst)
           K == Keys \cup {NotFound}
           f == CHOOSE g : g = Merging(src, dst, g)
           m == [p \in D |-> (a + 1 - p[1]) + (b + 1 - p[2])]
           T == {p \in D : Blends(src, dst, p[1], p[2], p[3], f[p])}
<1>1. f = Merging(src, dst, f)
  BY MergeRecursion
<1>2. Merge(src, dst) = f[<<1, 1, NotFound>>]
  BY DEF Merge, Merging, Positions
<1>3. /\ a \in Nat /\ \A q \in 1 .. a : src[q] \in Entry /\ src[q].key \in Int /\ src[q].key \in K
      /\ b \in Nat /\ \A q \in 1 .. b : dst[q] \in Entry /\ dst[q].key \in Int /\ dst[q].key \in K
  <2>1. \A e \in Entry : e.key \in K
    BY DEF Entry
  <2> QED
    BY <2>1, EntriesHaveKeys
<1> HIDE DEF f
<1>4. \A p \in D : f[p] = IF p[1] > a THEN SubSeq(dst, p[2], b)
                          ELSE IF p[2] > b THEN SubSeq(src, p[1], a)
                          ELSE IF src[p[1]].key > dst[p[2]].key
                            THEN <<dst[p[2]]>> \o f[<<p[1], p[2] + 1, dst[p[2]].key>>]
                          ELSE IF p[1] > 1 /\ p[3] = src[p[1]].key
                            THEN f[<<p[1] + 1, p[2], p[3]>>]
                          ELSE <<src[p[1]]>> \o f[<<p[1] + 1, p[2], src[p[1]].key>>]
  BY <1>1 DEF Merging
<1>5. \A p \in D : /\ p[1] \in 1 .. a + 1 /\ p[2] \in 1 .. b + 1 /\ p[3] \in K
                   /\ p[1] \in Int /\ p[2] \in Int
  BY <1>3 DEF Positions
<1>6. \A i \in 1 .. a + 1, j \in 1 .. b + 1, k \in K : <<i, j, k>> \in D
  BY DEF Positions
<1> HIDE DEF a, b, D, K
<1>7. m \in [D -> Nat]
  <2> SUFFICES ASSUME NEW p \in D PROVE (a + 1 - p[1]) + (b + 1 - p[2]) \in Nat
    OBVIOUS
  <2>1. p[1] \in 1 .. a + 1 /\ p[2] \in 1 .. b + 1 /\ p[1] \in Int /\ p[2] \in Int
    BY <1>5
  <2>2. a + 1 - p[1] \in Nat /\ b + 1 - p[2] \in Nat
    <3>1. a \in Nat /\ b \in Nat
      BY <1>3
    <3> HIDE DEF m
    <3> QED
      BY <2>1, <3>1, DistanceIsNat
  <2> HIDE DEF m
  <2> QED
    BY <2>2
<1>8. ASSUME NEW p \in D, \A y \in D : m[y] < m[p] => y \in T PROVE p \in T
  <2> DEFINE i == p[1]
             j == p[2]
             k == p[3]
  <2>1. i \in 1 .. a + 1 /\ j \in 1 .. b + 1 /\ k \in K /\ i \in Int /\ j \in Int
    BY <1>5
  <2>2. m[p] = (a + 1 - i) + (b + 1 - j)
    OBVIOUS
  <2>3. \A y \in D : m[y] = (a + 1 - y[1]) + (b + 1 - y[2])
    OBVIOUS
  <2>4. f[p] = IF i > a THEN SubSeq(dst, j, b)
               ELSE IF j > b THEN SubSeq(src, i, a)
               ELSE IF src[i].key > dst[j].key
                 THEN <<dst[j]>> \o f[<<i, j + 1, dst[j].key>>]
               ELSE IF i > 1 /\ k = src[i].key THEN f[<<i + 1, j, k>>]
               ELSE <<src[i]>> \o f[<<i + 1, j, src[i].key>>]
    BY <1>4
  <2>5. ASSUME NEW y \in D, y[1] + y[2] = i + j + 1
        PROVE  Blends(src, dst, y[1], y[2], y[3], f[y])
    <3>1. y[1] \in Int /\ y[2] \in Int /\ m[y] = (a + 1 - y[1]) + (b + 1 - y[2])
      BY <1>5, <2>3
    <3> HIDE DEF m
    <3>2. m[y] < m[p]
      <4> HIDE DEF i, j
      <4> QED
        BY <1>3, <2>1, <2>2, <2>5, <3>1, SMTT(30)
    <3> QED
      BY <1>8, <3>2
  <2>6. Blends(src, dst, i, j, k, f[p])
    <3> HIDE DEF i, j, k, m, T
    <3>1. CASE i > a
      <4>1. i = a + 1 /\ f[p] = SubSeq(dst, j, b)
        BY <1>3, <2>1, <2>4, <3>1
      <4> QED
        BY <2>1, <4>1, RestOfDst DEF a, b
    <3>2. CASE i <= a /\ j > b
      <4>1. j = b + 1 /\ f[p] = SubSeq(src, i, a)
        BY <1>3, <2>1, <2>4, <3>2
      <4> QED
        BY <2>1, <4>1, RestOfSrc DEF a, b
    <3>3. ASSUME i <= a, j <= b PROVE Blends(src, dst, i, j, k, f[p])
      <4>1. /\ i \in 1 .. a /\ j \in 1 .. b /\ i + 1 \in 1 .. a + 1 /\ j + 1 \in 1 .. b + 1
            /\ ~(i > a) /\ ~(j > b)
        BY <1>3, <2>1, <3>3
      <4>2. src[i].key \in Int /\ dst[j].key \in Int /\ src[i].key \in K /\ dst[j].key \in K
        BY <1>3, <4>1
      <4>3. CASE src[i].key > dst[j].key
        <5> DEFINE y == <<i, j + 1, dst[j].key>>
        <5>1. y \in D /\ y[1] = i /\ y[2] = j + 1 /\ y[3] = dst[j].key
          BY <1>6, <2>1, <4>1, <4>2
        <5>2. f[p] = <<dst[j]>> \o f[y]
          BY <2>4, <4>1, <4>3
        <5> HIDE DEF y
        <5>3. y[1] + y[2] = i + j + 1
          BY <2>1, <5>1
        <5>4. Blends(src, dst, i, j + 1, dst[j].key, f[y])
          BY <2>5, <5>1, <5>3
        <5> QED
          BY <4>1, <4>3, <5>2, <5>4, TakesFromDst DEF a, b
      <4>4. CASE ~(src[i].key > dst[j].key) /\ i > 1 /\ k = src[i].key
        <5> DEFINE y == <<i + 1, j, k>>
        <5>1. y \in D /\ y[1] = i + 1 /\ y[2] = j /\ y[3] = k
          BY <1>6, <2>1, <4>1
        <5>2. f[p] = f[y]
          BY <2>4, <4>1, <4>4
        <5> HIDE DEF y
        <5>3. y[1] + y[2] = i + j + 1
          BY <2>1, <5>1
        <5>4. Blends(src, dst, i + 1, j, k, f[y])
          BY <2>5, <5>1, <5>3
        <5> QED
          BY <4>1, <4>4, <5>2, <5>4, SkipsFromSrc DEF a, b
      <4>5. CASE ~(src[i].key > dst[j].key) /\ ~(i > 1 /\ k = src[i].key)
        <5> DEFINE y == <<i + 1, j, src[i].key>>
        <5>1. y \in D /\ y[1] = i + 1 /\ y[2] = j /\ y[3] = src[i].key
          BY <1>6, <2>1, <4>1, <4>2
        <5>2. f[p] = <<src[i]>> \o f[y]
          BY <2>4, <4>1, <4>5
        <5> HIDE DEF y
        <5>3. y[1] + y[2] = i + j + 1
          BY <2>1, <5>1
        <5>4. Blends(src, dst, i + 1, j, src[i].key, f[y])
          BY <2>5, <5>1, <5>3
        <5>5. src[i].key <= dst[j].key
          BY <4>2, <4>5
        <5> QED
          BY <4>1, <5>2, <5>4, <5>5, TakesFromSrc DEF a, b
      <4> QED
        BY <4>3, <4>4, <4>5
    <3> QED
      BY <1>3, <2>1, <3>1, <3>2, <3>3
  <2> QED
    BY <2>6
<1> HIDE DEF m, T
<1>9. D \subseteq T
  BY <1>7, <1>8, MeasureInduction
<1>10. <<1, 1, NotFound>> \in D
  BY <1>3, <1>6 DEF K
<1>11. Blends(src, dst, 1, 1, NotFound, f[<<1, 1, NotFound>>])
  BY <1>9, <1>10 DEF T
<1> QED
  BY <1>2, <1>11
------------------------------------------------------------------------------
\* What the levels hold.
Members(s) == {s[i] : i \in 1 .. Len(s)}

LEMMA MembersAreEntries ==
  ASSUME NEW s \in Seq(Entry)
  PROVE  \A e \in Members(s) : e \in Entry /\ e.key \in Keys
<1>1. \A e \in Entry : e.key \in Keys
  BY DEF Entry
<1> QED
  BY <1>1, EntriesHaveKeys DEF Members

LEMMA AppendMembers ==
  ASSUME NEW s \in Seq(Entry), NEW e \in Entry
  PROVE  Members(Append(s, e)) = Members(s) \cup {e}
<1> DEFINE u == Append(s, e)
<1>1. /\ Len(s) \in Nat /\ Len(u) = Len(s) + 1 /\ u[Len(s) + 1] = e
      /\ \A i \in 1 .. Len(s) : u[i] = s[i]
  OBVIOUS
<1> HIDE DEF u
<1>2. \A i \in 1 .. Len(u) : i \in 1 .. Len(s) \/ i = Len(s) + 1
  BY <1>1
<1>3. \A i \in 1 .. Len(s) : i \in 1 .. Len(u)
  BY <1>1
<1>4. Len(s) + 1 \in 1 .. Len(u)
  BY <1>1
<1>5. Members(u) = Members(s) \cup {e}
  BY <1>1, <1>2, <1>3, <1>4 DEF Members
<1> QED
  BY <1>5 DEF u

LEMMA ConcatMembers ==
  ASSUME NEW s \in Seq(Entry), NEW t \in Seq(Entry)
  PROVE  Members(s \o t) = Members(s) \cup Members(t)
<1> DEFINE u == s \o t
<1>1. /\ Len(s) \in Nat /\ Len(t) \in Nat /\ Len(u) = Len(s) + Len(t)
      /\ \A i \in 1 .. Len(u) : u[i] = IF i <= Len(s) THEN s[i] ELSE t[i - Len(s)]
  BY ConcatProperties
<1> HIDE DEF u
<1>2. ASSUME NEW i \in 1 .. Len(u) PROVE u[i] \in Members(s) \cup Members(t)
  <2>1. CASE i <= Len(s)
    BY <1>1, <2>1 DEF Members
  <2>2. CASE ~(i <= Len(s))
    <3>1. i - Len(s) \in 1 .. Len(t) /\ u[i] = t[i - Len(s)]
      BY <1>1, <2>2
    <3> QED
      BY <3>1 DEF Members
  <2> QED
    BY <2>1, <2>2
<1>3. ASSUME NEW i \in 1 .. Len(s) PROVE s[i] \in Members(u)
  <2>1. i \in 1 .. Len(u) /\ u[i] = s[i]
    BY <1>1
  <2> QED
    BY <2>1 DEF Members
<1>4. ASSUME NEW i \in 1 .. Len(t) PROVE t[i] \in Members(u)
  <2>1. Len(s) + i \in 1 .. Len(u) /\ ~(Len(s) + i <= Len(s)) /\ Len(s) + i - Len(s) = i
    BY <1>1
  <2>2. u[Len(s) + i] = t[i]
    BY <1>1, <2>1
  <2> QED
    BY <2>1, <2>2 DEF Members
<1>5. Members(u) \subseteq Members(s) \cup Members(t)
  BY <1>2 DEF Members
<1>6. Members(s) \subseteq Members(u) /\ Members(t) \subseteq Members(u)
  BY <1>3, <1>4 DEF Members
<1> QED
  BY <1>5, <1>6 DEF u

\* Sorting a level loses no entry: an injection of its indices is a
\* permutation of them.
LEMMA SortsKeepMembers ==
  ASSUME NEW s \in Seq(Entry), NEW t \in Sorts(s)
  PROVE  /\ t \in Seq(Entry) /\ Len(t) = Len(s) /\ KeyOrdered(t)
         /\ Members(t) = Members(s)
<1> DEFINE I == 1 .. Len(s)
<1>1. PICK p \in [I -> I] : /\ t = [i \in I |-> s[p[i]]]
                            /\ \A i, j \in I : p[i] = p[j] => i = j
  BY DEF Sorts
<1>2. Len(s) \in Nat /\ t \in Seq(Entry) /\ Len(t) = Len(s)
  BY SortsKeepLength
<1>3. p \in Surjection(I, I)
  <2>1. IsFiniteSet(I)
    BY <1>2, FS_Interval
  <2>2. p \in Injection(I, I)
    BY <1>1 DEF Injection, IsInjective
  <2> HIDE DEF I
  <2> QED
    BY <2>1, <2>2, FS_Injection
<1>4. \A i \in I : \E j \in I : p[j] = i
  BY <1>3 DEF Surjection
<1>5. \A i \in I : t[i] = s[p[i]] /\ p[i] \in I
  BY <1>1
<1>6. Members(t) \subseteq Members(s)
  BY <1>2, <1>5 DEF Members
<1>7. ASSUME NEW i \in I PROVE s[i] \in Members(t)
  <2>1. PICK j \in I : p[j] = i
    BY <1>4
  <2>2. t[j] = s[i]
    BY <1>5, <2>1
  <2> QED
    BY <1>2, <2>2 DEF Members
<1>8. Members(s) \subseteq Members(t)
  BY <1>7 DEF Members
<1>9. KeyOrdered(t)
  BY DEF Sorts
<1> QED
  BY <1>2, <1>6, <1>8, <1>9

\* What a compaction leaves of two levels: nothing that they did not hold, and some
\* entry of every key they hold no tombstone of.
LEMMA CleanedIsRight ==
  ASSUME NEW src \in Seq(Entry), NEW dst \in Seq(Entry)
  PROVE  LET both == Members(src) \cup Members(dst)
             clean == Cleaned(src, dst)
         IN  /\ clean \in Seq(Entry)
             /\ KeyOrdered(src) /\ KeyOrdered(dst) => KeyOrdered(clean)
             /\ Members(clean) \subseteq both
             /\ \A e \in both : (\A w \in both : w.key = e.key => ~w.deleted)
                                  => \E c \in Members(clean) : c.key = e.key
<1> DEFINE both == Members(src) \cup Members(dst)
           r == Merge(src, dst)
           c == Kept(r)
<1>1. Blends(src, dst, 1, 1, NotFound, r)
  BY MergeIsRight
<1> HIDE DEF r
<1>2. r \in Seq(Entry) /\ (KeyOrdered(src) /\ KeyOrdered(dst) => KeyOrdered(r))
  BY <1>1 DEF Blends
<1>3. KeepsLive(r, Len(r), c)
  BY <1>2, KeptIsRight
<1> HIDE DEF c
<1>4. \A t \in 1 .. Len(r) : r[t] \in both
  BY <1>1 DEF Blends, Members
<1>5. Members(c) \subseteq both
  BY <1>3, <1>4 DEF KeepsLive, Members
<1>6. ASSUME NEW e \in both, \A w \in both : w.key = e.key => ~w.deleted
      PROVE  \E x \in Members(c) : x.key = e.key
  <2>1. \E t \in 1 .. Len(r) : r[t].key = e.key
    <3>1. ~(1 > 1) /\ (\A q \in 1 .. Len(src) : 1 <= q) /\ (\A q \in 1 .. Len(dst) : 1 <= q)
      OBVIOUS
    <3>2. CASE e \in Members(src)
      <4>1. PICK q \in 1 .. Len(src) : e = src[q]
        BY <3>2 DEF Members
      <4> QED
        BY <1>1, <3>1, <4>1 DEF Blends
    <3>3. CASE e \in Members(dst)
      <4>1. PICK q \in 1 .. Len(dst) : e = dst[q]
        BY <3>3 DEF Members
      <4>2. PICK t \in 1 .. Len(r) : r[t] = dst[q]
        BY <1>1, <3>1, <4>1 DEF Blends
      <4> QED
        BY <4>1, <4>2
    <3> QED
      BY <3>2, <3>3
  <2>2. PICK t \in 1 .. Len(r) : r[t].key = e.key
    BY <2>1
  <2>3. ~r[t].deleted
    BY <1>4, <1>6, <2>2
  <2>4. PICK i \in 1 .. Len(c) : c[i] = r[t]
    BY <1>3, <2>3 DEF KeepsLive
  <2> QED
    BY <2>2, <2>4 DEF Members
<1>7. c \in Seq(Entry) /\ (KeyOrdered(src) /\ KeyOrdered(dst) => KeyOrdered(c))
  BY <1>2, <1>3 DEF KeepsLive
<1> QED
  BY <1>5, <1>6, <1>7 DEF Cleaned, c, r
------------------------------------------------------------------------------
\* The inductive invariant.  What the tree stores was written; and a key that
\* was written and never deleted is stored somewhere.
Stored == Members(mem) \cup UNION {Members(levels[l]) : l \in Level}

Sound ==
  /\ mem \in Seq(Entry) /\ Len(mem) <= MemMax
  /\ levels \in [Level -> Seq(Entry)]
  /\ capacity \in [Level -> Nat] /\ MemMax <= capacity[0]
  /\ written \in [Keys -> Seq(Entry)]
  /\ \A l \in Level : KeyOrdered(levels[l]) /\ Len(levels[l]) <= capacity[l]

Recorded == \A e \in Stored : e.key \in Keys /\ e \in Members(written[e.key])

NeverDeleted(k) == written[k] # <<>> /\ \A w \in Members(written[k]) : ~w.deleted

Present == \A k \in Keys : NeverDeleted(k) => \E e \in Stored : e.key = k

LSMInv == Sound /\ Recorded /\ Present

LEMMA ZeroIsALevel == 0 \in Level /\ MemMax \in Nat /\ \A l \in Level : l \in Int
BY SizesAssumption DEF Level

\* A write adds its entry, whether the memtable was flushed before or not.
LEMMA WriteStores ==
  ASSUME Sound, NEW e \in Entry, Write(e)
  PROVE  /\ mem' \in Seq(Entry) /\ Len(mem') <= MemMax
         /\ levels' \in [Level -> Seq(Entry)]
         /\ capacity' \in [Level -> Nat] /\ MemMax <= capacity'[0]
         /\ \A l \in Level : KeyOrdered(levels'[l]) /\ Len(levels'[l]) <= capacity'[l]
         /\ Stored' = Stored \cup {e}
<1> USE ZeroIsALevel DEF Sound
<1>1. CASE Len(mem) # MemMax /\ mem' = Append(mem, e) /\ UNCHANGED <<levels, capacity>>
  <2>1. /\ mem' \in Seq(Entry) /\ Len(mem') <= MemMax
        /\ UNCHANGED <<levels, capacity>>
    <3>1. Len(mem) \in Nat /\ Len(mem') = Len(mem) + 1 /\ mem' \in Seq(Entry)
      BY <1>1
    <3> QED
      BY <1>1, <3>1, SizesAssumption
  <2>2. Members(mem') = Members(mem) \cup {e}
    BY <1>1, AppendMembers
  <2>3. Stored' = Stored \cup {e}
    BY <2>1, <2>2 DEF Stored
  <2> QED
    BY <2>1, <2>3
<1>2. CASE Len(mem) = MemMax /\ Flush /\ mem' = <<e>>
  <2> DEFINE s == levels[0] \o mem
  <2>1. /\ levels[0] \in Seq(Entry) /\ mem \in Seq(Entry)
        /\ Len(levels[0]) \in Nat /\ Len(mem) \in Nat
    OBVIOUS
  <2>2. s \in Seq(Entry) /\ Len(s) = Len(levels[0]) + Len(mem)
    BY <2>1
  <2>3. Members(s) = Members(levels[0]) \cup Members(mem)
    BY <2>1, ConcatMembers
  <2> HIDE DEF s
  <2>4. PICK t \in Sorts(s) : levels' = [levels EXCEPT ![0] = t]
    BY <1>2 DEF Flush, s
  <2>5. /\ t \in Seq(Entry) /\ Len(t) = Len(s) /\ KeyOrdered(t)
        /\ Members(t) = Members(s)
    BY <2>2, SortsKeepMembers
  <2>6. /\ capacity' = [capacity EXCEPT ![0] = Doubled(Len(s))]
        /\ Doubled(Len(s)) \in Nat /\ Len(s) <= Doubled(Len(s)) /\ MemMax <= Doubled(Len(s))
    <3>1. capacity[0] \in Nat /\ Len(levels[0]) <= capacity[0] /\ Len(mem) <= capacity[0]
      BY <1>2
    <3> QED
      BY <1>2, <2>1, <2>2, <3>1 DEF Flush, Doubled
  <2>7. /\ levels'[0] = t /\ \A l \in Level : l # 0 => levels'[l] = levels[l]
        /\ levels' \in [Level -> Seq(Entry)]
        /\ capacity'[0] = Doubled(Len(s))
        /\ \A l \in Level : l # 0 => capacity'[l] = capacity[l]
        /\ capacity' \in [Level -> Nat]
    BY <2>4, <2>5, <2>6
  <2>8. \A l \in Level : KeyOrdered(levels'[l]) /\ Len(levels'[l]) <= capacity'[l]
    <3> TAKE l \in Level
    <3>1. CASE l = 0
      BY <2>5, <2>6, <2>7, <3>1
    <3>2. CASE l # 0
      BY <2>7, <3>2
    <3> QED
      BY <3>1, <3>2
  <2>9. Members(mem') = {e} /\ mem' \in Seq(Entry) /\ Len(mem') <= MemMax
    <3>1. mem' \in Seq(Entry) /\ Len(mem') = 1 /\ mem'[1] = e
      BY <1>2
    <3>2. \A i : i \in 1 .. 1 <=> i = 1
      OBVIOUS
    <3>3. Members(mem') = {e}
      BY <3>1, <3>2 DEF Members
    <3> QED
      BY <3>1, <3>3, SizesAssumption
  <2>10. Stored' = Stored \cup {e}
    <3>1. \A l \in Level : l # 0 => Members(levels'[l]) = Members(levels[l])
      BY <2>7
    <3>2. Members(levels'[0]) = Members(levels[0]) \cup Members(mem)
      BY <2>3, <2>5, <2>7
    <3>3. ASSUME NEW x \in Stored' PROVE x \in Stored \cup {e}
      <4>1. CASE x \in Members(mem')
        BY <2>9, <4>1
      <4>2. CASE x \notin Members(mem')
        <5>1. PICK l \in Level : x \in Members(levels'[l])
          BY <3>3, <4>2 DEF Stored
        <5> QED
          BY <3>1, <3>2, <5>1 DEF Stored
      <4> QED
        BY <4>1, <4>2
    <3>4. ASSUME NEW x \in Stored PROVE x \in Stored'
      <4>1. CASE x \in Members(mem)
        BY <3>2, <4>1 DEF Stored
      <4>2. CASE x \notin Members(mem)
        <5>1. PICK l \in Level : x \in Members(levels[l])
          BY <3>4, <4>2 DEF Stored
        <5> QED
          BY <3>1, <3>2, <5>1 DEF Stored
      <4> QED
        BY <4>1, <4>2
    <3>5. e \in Stored'
      BY <2>9 DEF Stored
    <3> QED
      BY <3>3, <3>4, <3>5
  <2> QED
    BY <2>7, <2>6, <2>8, <2>9, <2>10
<1> QED
  BY <1>1, <1>2 DEF Write

LEMMA WriteKeepsLSMInv ==
  ASSUME LSMInv, NEW e \in Entry, Write(e),
         written' = [written EXCEPT ![e.key] = Append(@, e)]
  PROVE  LSMInv'
<1>1. e.key \in Keys /\ written \in [Keys -> Seq(Entry)]
  BY DEF Entry, LSMInv, Sound
<1>2. /\ written' \in [Keys -> Seq(Entry)]
      /\ Members(written'[e.key]) = Members(written[e.key]) \cup {e}
      /\ \A k \in Keys : k # e.key => written'[k] = written[k]
  <2>1. Append(written[e.key], e) \in Seq(Entry)
    BY <1>1
  <2>2. Members(Append(written[e.key], e)) = Members(written[e.key]) \cup {e}
    BY <1>1, AppendMembers
  <2> QED
    BY <1>1, <2>1, <2>2
<1>3. Stored' = Stored \cup {e} /\ Sound'
  BY <1>2, WriteStores DEF LSMInv, Sound
<1>4. Recorded'
  <2> SUFFICES ASSUME NEW x \in Stored \cup {e}
               PROVE  x.key \in Keys /\ x \in Members(written'[x.key])
    BY <1>3 DEF Recorded
  <2>1. CASE x = e
    BY <1>1, <1>2, <2>1
  <2>2. CASE x # e
    <3>1. x.key \in Keys /\ x \in Members(written[x.key])
      BY <2>2 DEF LSMInv, Recorded
    <3> QED
      BY <1>2, <3>1
  <2> QED
    BY <2>1, <2>2
<1>5. Present'
  <2> SUFFICES ASSUME NEW k \in Keys, NeverDeleted(k)'
               PROVE  \E x \in Stored \cup {e} : x.key = k
    BY <1>3 DEF Present
  <2>1. CASE k = e.key
    BY <2>1
  <2>2. CASE k # e.key
    <3>1. NeverDeleted(k)
      BY <1>2, <2>2 DEF NeverDeleted
    <3> QED
      BY <3>1 DEF LSMInv, Present
  <2> QED
    BY <2>1, <2>2
<1> QED
  BY <1>3, <1>4, <1>5 DEF LSMInv

\* A compaction drops entries, but no key without a tombstone.
LEMMA CompactKeepsLSMInv ==
  ASSUME LSMInv, NEW l \in Level, Compact(l)
  PROVE  LSMInv'
<1> DEFINE src == levels[l]
           dst == levels[l + 1]
           clean == Cleaned(src, dst)
<1>1. l + 1 \in Level /\ l + 1 # l /\ l + 1 # 0
  BY SizesAssumption DEF Level, Compact
<1>2. src \in Seq(Entry) /\ dst \in Seq(Entry) /\ KeyOrdered(src) /\ KeyOrdered(dst)
  BY <1>1 DEF LSMInv, Sound
<1>3. /\ clean \in Seq(Entry) /\ KeyOrdered(clean)
      /\ Members(clean) \subseteq Members(src) \cup Members(dst)
      /\ \A e \in Members(src) \cup Members(dst) :
           (\A w \in Members(src) \cup Members(dst) : w.key = e.key => ~w.deleted)
             => \E c \in Members(clean) : c.key = e.key
  BY <1>2, CleanedIsRight
<1>4. /\ levels' = [levels EXCEPT ![l] = <<>>, ![l + 1] = clean]
      /\ capacity' = [capacity EXCEPT ![l + 1] = IF @ < Len(clean) THEN 2 * Len(clean) ELSE @]
      /\ mem' = mem /\ written' = written
  BY DEF Compact
<1> HIDE DEF clean
<1>5. /\ levels'[l] = <<>> /\ levels'[l + 1] = clean
      /\ \A n \in Level : n # l /\ n # l + 1 => levels'[n] = levels[n]
      /\ levels' \in [Level -> Seq(Entry)]
  <2>1. <<>> \in Seq(Entry)
    OBVIOUS
  <2> QED
    BY <1>1, <1>3, <1>4, <2>1 DEF LSMInv, Sound
<1>6. /\ capacity' \in [Level -> Nat] /\ capacity'[0] = capacity[0]
      /\ \A n \in Level : n # l + 1 => capacity'[n] = capacity[n]
      /\ Len(clean) <= capacity'[l + 1]
  <2>1. Len(clean) \in Nat /\ capacity \in [Level -> Nat] /\ 0 \in Level
    BY <1>3, ZeroIsALevel DEF LSMInv, Sound
  <2>2. capacity'[l + 1] = IF capacity[l + 1] < Len(clean) THEN 2 * Len(clean)
                           ELSE capacity[l + 1]
    BY <1>1, <1>4, <2>1
  <2>3. capacity'[l + 1] \in Nat /\ Len(clean) <= capacity'[l + 1]
    BY <1>1, <2>1, <2>2
  <2>4. \A n \in Level : n # l + 1 => capacity'[n] = capacity[n]
    BY <1>4, <2>1
  <2>5. DOMAIN capacity' = Level /\ capacity' = [n \in Level |-> capacity'[n]]
    BY <1>4, <2>1
  <2>6. \A n \in Level : capacity'[n] \in Nat
    BY <2>1, <2>3, <2>4
  <2> QED
    BY <1>1, <2>1, <2>3, <2>4, <2>5, <2>6
<1>7. Sound'
  <2>1. \A n \in Level : KeyOrdered(levels'[n]) /\ Len(levels'[n]) <= capacity'[n]
    <3> TAKE n \in Level
    <3>1. CASE n = l
      <4>1. Len(<<>>) = 0 /\ KeyOrdered(<<>>)
        BY DEF KeyOrdered
      <4>2. capacity'[n] \in Nat
        BY <1>6
      <4> QED
        BY <1>5, <3>1, <4>1, <4>2
    <3>2. CASE n = l + 1
      BY <1>3, <1>5, <1>6, <3>2
    <3>3. CASE n # l /\ n # l + 1
      BY <1>5, <1>6, <3>3 DEF LSMInv, Sound
    <3> QED
      BY <3>1, <3>2, <3>3
  <2> QED
    BY <1>4, <1>5, <1>6, <2>1 DEF LSMInv, Sound
<1>8. Members(levels'[l]) = {}
  <2>1. \A i : i \notin 1 .. Len(<<>>)
    OBVIOUS
  <2> QED
    BY <1>5, <2>1 DEF Members
<1>9. Stored' \subseteq Stored
  <2> SUFFICES ASSUME NEW x \in Stored' PROVE x \in Stored
    OBVIOUS
  <2>1. CASE x \in Members(mem')
    BY <1>4, <2>1 DEF Stored
  <2>2. CASE x \notin Members(mem')
    <3>1. PICK n \in Level : x \in Members(levels'[n])
      BY <2>2 DEF Stored
    <3>2. n # l
      BY <1>8, <3>1
    <3>3. CASE n = l + 1
      <4>1. x \in Members(src) \cup Members(dst)
        BY <1>3, <1>5, <3>1, <3>3
      <4> QED
        BY <1>1, <4>1 DEF Stored
    <3>4. CASE n # l + 1
      BY <1>5, <3>1, <3>2, <3>4 DEF Stored
    <3> QED
      BY <3>3, <3>4
  <2> QED
    BY <2>1, <2>2
<1>10. Recorded'
  BY <1>4, <1>9 DEF LSMInv, Recorded
<1>11. ASSUME NEW e \in Stored, \A w \in Stored : w.key = e.key => ~w.deleted
       PROVE  \E x \in Stored' : x.key = e.key
  <2>1. CASE e \in Members(mem)
    BY <1>4, <2>1 DEF Stored
  <2>2. CASE e \in Members(src) \cup Members(dst)
    <3>1. Members(src) \cup Members(dst) \subseteq Stored
      BY <1>1 DEF Stored
    <3>2. PICK c \in Members(clean) : c.key = e.key
      BY <1>3, <1>11, <2>2, <3>1
    <3>3. c \in Stored'
      BY <1>1, <1>5, <3>2 DEF Stored
    <3> QED
      BY <3>2, <3>3
  <2>3. CASE e \notin Members(mem) /\ e \notin Members(src) \cup Members(dst)
    <3>1. PICK n \in Level : e \in Members(levels[n])
      BY <1>11, <2>3 DEF Stored
    <3>2. n # l /\ n # l + 1
      BY <2>3, <3>1
    <3> QED
      BY <1>5, <3>1, <3>2 DEF Stored
  <2> QED
    BY <2>1, <2>2, <2>3
<1>12. Present'
  <2> SUFFICES ASSUME NEW k \in Keys, NeverDeleted(k)'
               PROVE  \E x \in Stored' : x.key = k
    BY DEF Present
  <2>1. NeverDeleted(k)
    BY <1>4 DEF NeverDeleted
  <2>2. PICK e \in Stored : e.key = k
    BY <2>1 DEF LSMInv, Present
  <2>3. \A w \in Stored : w.key = k => ~w.deleted
    BY <2>1 DEF LSMInv, Recorded, NeverDeleted
  <2> QED
    BY <1>11, <2>2, <2>3
<1> QED
  BY <1>7, <1>10, <1>12 DEF LSMInv

LEMMA InitLSMInv == Init => LSMInv
<1> SUFFICES ASSUME Init PROVE LSMInv
  OBVIOUS
<1>1. <<>> \in Seq(Entry) /\ Len(<<>>) = 0 /\ KeyOrdered(<<>>)
  BY DEF KeyOrdered
<1>2. Members(<<>>) = {}
  <2>1. \A i : i \notin 1 .. Len(<<>>)
    OBVIOUS
  <2> QED
    BY <2>1 DEF Members
<1>3. Sound
  <2>1. MemMax \in Nat /\ capacity \in [Level -> Nat] /\ MemMax <= capacity[0]
    BY SizesAssumption DEF Init
  <2>2. \A l \in Level : capacity[l] \in Nat /\ levels[l] = <<>>
    BY <2>1 DEF Init
  <2> QED
    BY <1>1, <2>1, <2>2 DEF Init, Sound
<1>4. Stored = {}
  BY <1>2 DEF Init, Stored
<1> QED
  BY <1>3, <1>4 DEF Init, LSMInv, Recorded, Present, NeverDeleted

LEMMA NextLSMInv == LSMInv /\ [Next]_vars => LSMInv'
<1> SUFFICES ASSUME LSMInv, [Next]_vars PROVE LSMInv'
  OBVIOUS
<1>1. ASSUME NEW k \in Keys, NEW v \in Values, Put(k, v) PROVE LSMInv'
  <2> DEFINE e == [key |-> k, val |-> v, deleted |-> FALSE]
  <2>1. e \in Entry /\ e.key = k
    BY DEF Entry
  <2> QED
    BY <1>1, <2>1, WriteKeepsLSMInv DEF Put
<1>2. ASSUME NEW k \in Keys, Delete(k) PROVE LSMInv'
  <2> DEFINE e == [key |-> k, val |-> 0, deleted |-> TRUE]
  <2>1. e \in Entry /\ e.key = k
    BY DEF Entry
  <2> QED
    BY <1>2, <2>1, WriteKeepsLSMInv DEF Delete
<1>3. CASE UNCHANGED vars
  BY <1>3 DEF vars, LSMInv, Sound, Recorded, Present, NeverDeleted, Stored
<1> QED
  BY <1>1, <1>2, <1>3, CompactKeepsLSMInv DEF Next

\* Every reachable tree has sorted levels that fit their arrays, which is what
\* the search and the merge rely on.
THEOREM LevelsStaySound == Spec => []LevelsAreSound
<1>1. LSMInv => LevelsAreSound
  BY ZeroIsALevel DEF LSMInv, Sound, LevelsAreSound, TypeOK, LevelsSorted, FitsCapacity, FlushFits
<1> QED
  BY InitLSMInv, NextLSMInv, <1>1, PTL DEF Spec

\* A flush never writes past the end of level 0, for every memtable size and
\* every initial capacity that holds one memtable.
THEOREM FlushInBounds == Spec => []FlushFits
<1>1. LevelsAreSound => FlushFits
  BY DEF LevelsAreSound, FitsCapacity
<1> QED
  BY LevelsStaySound, <1>1, PTL
------------------------------------------------------------------------------
\* A read returns what a stored entry says, and finds one if there is any.
LEMMA GetReadsAnEntry ==
  ASSUME LSMInv, NEW k \in Keys
  PROVE  \/ \E e \in Stored : e.key = k /\ Get(k) = Content(e)
         \/ Get(k) = NotFound /\ \A e \in Stored : e.key # k
<1>1. k \in Int /\ mem \in Seq(Entry) /\ \A l \in Level : levels[l] \in Seq(Entry) /\ KeyOrdered(levels[l])
  BY KeysAssumption DEF LSMInv, Sound
<1>2. CASE InMem(k) # {}
  <2> DEFINE i == Newest(InMem(k))
  <2>1. Len(mem) \in Nat /\ InMem(k) \in SUBSET (1 .. Len(mem))
    BY <1>1 DEF InMem
  <2>2. i \in InMem(k)
    BY <1>2, <2>1, NewestIsGreatest
  <2> HIDE DEF i
  <2>3. mem[i] \in Stored /\ mem[i].key = k
    BY <2>2 DEF InMem, Stored, Members
  <2> QED
    BY <1>2, <2>3 DEF Get, i
<1>3. CASE InMem(k) = {} /\ InLevels(k) # {}
  <2> DEFINE l == Nearest(InLevels(k))
             i == Search(levels[l], k)
  <2>1. InLevels(k) \in SUBSET Nat
    BY DEF InLevels, Level
  <2>2. \E x \in InLevels(k) : \A y \in InLevels(k) : x <= y
    BY <1>3, <2>1, LeastElement
  <2>3. l \in InLevels(k)
    BY <2>2 DEF Nearest
  <2> HIDE DEF l
  <2>4. l \in Level /\ i # 0
    BY <2>3 DEF InLevels
  <2>5. i \in 1 .. Len(levels[l]) /\ levels[l][i].key = k
    BY <1>1, <2>4, SearchFinds
  <2>6. levels[l][i] \in Stored
    BY <2>4, <2>5 DEF Stored, Members
  <2>7. Get(k) = Content(levels[l][i])
    BY <1>3 DEF Get, l
  <2> QED
    BY <2>5, <2>6, <2>7
<1>4. CASE InMem(k) = {} /\ InLevels(k) = {}
  <2>1. Get(k) = NotFound
    BY <1>4 DEF Get
  <2>2. ASSUME NEW e \in Stored PROVE e.key # k
    <3>1. CASE e \in Members(mem)
      BY <1>4, <3>1 DEF InMem, Members
    <3>2. CASE e \notin Members(mem)
      <4>1. PICK l \in Level : e \in Members(levels[l])
        BY <2>2, <3>2 DEF Stored
      <4>2. Search(levels[l], k) = 0
        BY <1>4 DEF InLevels
      <4>3. \A q \in 1 .. Len(levels[l]) : levels[l][q].key # k
        BY <1>1, <4>2, SearchFinds
      <4> QED
        BY <4>1, <4>3 DEF Members
    <3> QED
      BY <3>1, <3>2
  <2> QED
    BY <2>1, <2>2
<1> QED
  BY <1>2, <1>3, <1>4

LEMMA LSMInvReads == LSMInv => ReadsAreHonest
<1> SUFFICES ASSUME LSMInv PROVE NeverLost /\ NothingInvented
  BY DEF ReadsAreHonest
<1>1. \A k \in Keys : Members(written[k]) = {written[k][i] : i \in DOMAIN written[k]}
  BY DEF LSMInv, Sound, Members
<1>2. \A e \in Entry : ~e.deleted => e.val \in Values /\ Content(e) = e.val
  BY DEF Entry, Content
<1>3. \A e \in Stored : e.key \in Keys /\ e \in Members(written[e.key]) /\ e \in Entry
  <2> TAKE e \in Stored
  <2>1. e.key \in Keys /\ e \in Members(written[e.key])
    BY DEF LSMInv, Recorded
  <2> QED
    BY <2>1, MembersAreEntries DEF LSMInv, Sound
<1>4. NeverLost
  <2> SUFFICES ASSUME NEW k \in Keys, written[k] # <<>>,
                      \A i \in DOMAIN written[k] : ~written[k][i].deleted
               PROVE  Get(k) # NotFound
    BY DEF NeverLost
  <2>1. NeverDeleted(k)
    BY <1>1 DEF NeverDeleted
  <2>2. \E e \in Stored : e.key = k
    BY <2>1 DEF LSMInv, Present
  <2>3. PICK e \in Stored : e.key = k /\ Get(k) = Content(e)
    BY <2>2, GetReadsAnEntry
  <2>4. ~e.deleted
    BY <1>3, <2>1, <2>3 DEF NeverDeleted
  <2> QED
    BY <1>2, <1>3, <2>3, <2>4, NotFoundAssumption
<1>5. NothingInvented
  <2> SUFFICES ASSUME NEW k \in Keys, Get(k) # NotFound
               PROVE  \E i \in DOMAIN written[k] : written[k][i].val = Get(k)
    BY DEF NothingInvented
  <2>1. PICK e \in Stored : e.key = k /\ Get(k) = Content(e)
    BY GetReadsAnEntry
  <2>2. Get(k) = e.val
    BY <2>1 DEF Content
  <2>3. e \in Members(written[k])
    BY <1>3, <2>1
  <2> QED
    BY <1>1, <2>2, <2>3
<1> QED
  BY <1>4, <1>5

\* Flushes and compactions lose no key that was never deleted, and no read
\* returns a value that was not put: what lsm_get, lsm_flush and lsm_compact
\* promise together, for every number and size of the levels.
THEOREM ReadsStayHonest == Spec => []ReadsAreHonest
BY InitLSMInv, NextLSMInv, LSMInvReads, PTL DEF Spec
==============================================================================
