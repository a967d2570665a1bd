--------------------------- MODULE Probabilistic ---------------------------
(***************************************************************************)
(* The probabilistic structures: count-min and HyperLogLog sketches        *)
(* (count_min.c), several of the same dimensions that are added to and     *)
(* merged into one another; and the Bloom filter and the counting Bloom    *)
(* filter (bloom_filter.c), with the same hashes.  The hashes are          *)
(* parameters.                                                             *)
(***************************************************************************)
EXTENDS Integers, Sequences, FiniteSets, FiniteSetsExt, Functions

CONSTANTS
  Sketches, Items,
  Rows,           \* the rows, 0 .. d - 1
  Columns,        \* the columns, 0 .. w - 1
  Column,         \* cm_hash modulo w: the column of an item in each row
  WordSize,       \* 2^32 in the code
  Amounts,        \* arguments of cm_add
  MaxTotal,       \* bound on the total of a sketch, below 2^64
  Elements,
  Registers,
  RegisterOf,     \* the register of an element: the top bits of its hash
  RankOf,         \* one more than the leading zeros of the other bits
  Positions,         \* the bits of a filter, or its counters
  PositionsOf,       \* bloom_hash: the places of an element, repetitions included
  Saturation,     \* 15, the largest four-bit number
  MaxPresent      \* bound on how often an element is added

ASSUME DimensionsAssumption ==
  /\ Column \in [Rows -> [Items -> Columns]]
  /\ WordSize \in Nat \ {0}
  /\ Amounts \subseteq 0 .. WordSize - 1

ASSUME RegistersAssumption ==
  RegisterOf \in [Elements -> Registers] /\ RankOf \in [Elements -> Nat]

ASSUME PositionsAssumption ==
  /\ IsFiniteSet(Elements)
  /\ PositionsOf \in [Elements -> Seq(Positions)]
  /\ Saturation \in Nat

VARIABLES
  cells, total,     \* count-min
  added,            \* history: the true count of each item
  registers,        \* HyperLogLog
  seen,             \* history: the elements a sketch stands for
  bits, counts,     \* the Bloom filter, the counting filter
  inFilter,         \* history: the elements the first has been given
  present,          \* history: how often each is in the second
  spoiled           \* history: a counter has stopped at Saturation, or an
                    \* element was removed more often than it was added

countVars == <<cells, total, added>>
hllVars == <<registers, seen>>
bloomVars == <<bits, counts, inFilter, present, spoiled>>

\* Count-min.

CountInit ==
  /\ cells = [s \in Sketches |-> [r \in Rows |-> [c \in Columns |-> 0]]]
  /\ total = [s \in Sketches |-> 0]
  /\ added = [s \in Sketches |-> [k \in Items |-> 0]]

\* cm_add
Count(s, k, n) ==
  /\ total[s] + n <= MaxTotal
  /\ cells' = [cells EXCEPT ![s] =
       [r \in Rows |-> [cells[s][r] EXCEPT ![Column[r][k]] = (@ + n) % WordSize]]]
  /\ total' = [total EXCEPT ![s] = @ + n]
  /\ added' = [added EXCEPT ![s][k] = @ + n]

\* Mutant: the larger of two cells is kept, not their sum.
MergeLarger(dst, src) ==
  /\ total[dst] + total[src] <= MaxTotal
  /\ cells' = [cells EXCEPT ![dst] =
       [r \in Rows |-> [c \in Columns |->
          IF cells[dst][r][c] < cells[src][r][c] THEN cells[src][r][c] ELSE cells[dst][r][c]]]]
  /\ total' = [total EXCEPT ![dst] = @ + total[src]]
  /\ added' = [added EXCEPT ![dst] = [k \in Items |-> added[dst][k] + added[src][k]]]

\* cm_merge; dst and src may be the same sketch.
Merge(dst, src) ==
  /\ total[dst] + total[src] <= MaxTotal
  /\ cells' = [cells EXCEPT ![dst] =
       [r \in Rows |-> [c \in Columns |-> (cells[dst][r][c] + cells[src][r][c]) % WordSize]]]
  /\ total' = [total EXCEPT ![dst] = @ + total[src]]
  /\ added' = [added EXCEPT ![dst] = [k \in Items |-> added[dst][k] + added[src][k]]]

CountNext ==
  \/ \E s \in Sketches, k \in Items, n \in Amounts : Count(s, k, n)
  \/ \E dst, src \in Sketches : Merge(dst, src)

CountSpec == CountInit /\ [][CountNext]_countVars

\* cm_query starts from the largest 32-bit number.
Estimates(s, k) == {WordSize - 1} \cup {cells[s][r][Column[r][k]] : r \in Rows}

CountQuery(s, k) == CHOOSE n \in Estimates(s, k) : \A m \in Estimates(s, k) : n <= m

\* As long as the total of a sketch has not passed 32 bits, through any mix of
\* additions and merges, a query never answers less than the true count, and
\* in a sketch with rows never more than the total.
NeverUnderestimates ==
  \A s \in Sketches, k \in Items :
    total[s] < WordSize =>
      /\ added[s][k] <= CountQuery(s, k)
      /\ Rows # {} => CountQuery(s, k) <= total[s]
------------------------------------------------------------------------------
\* HyperLogLog: its registers.

Zeros == [i \in Registers |-> 0]

HllInit ==
  /\ registers = [s \in Sketches |-> Zeros]
  /\ seen = [s \in Sketches |-> {}]

Higher(a, b) == IF a > b THEN a ELSE b

HllAdd(s, e) ==
  /\ registers' = [registers EXCEPT ![s][RegisterOf[e]] = Higher(RankOf[e], @)]
  /\ seen' = [seen EXCEPT ![s] = @ \cup {e}]

HllMerge(dst, src) ==
  /\ registers' = [registers EXCEPT ![dst] =
       [i \in Registers |-> Higher(registers[src][i], registers[dst][i])]]
  /\ seen' = [seen EXCEPT ![dst] = @ \cup seen[src]]

HllReset(s) ==
  /\ registers' = [registers EXCEPT ![s] = Zeros]
  /\ seen' = [seen EXCEPT ![s] = {}]

HllNext ==
  \E s \in Sketches :
    \/ HllReset(s)
    \/ \E e \in Elements : HllAdd(s, e)
    \/ \E src \in Sketches : HllMerge(s, src)

HllSpec == HllInit /\ [][HllNext]_hllVars

Ranks(s, i) == {RankOf[e] : e \in {d \in seen[s] : RegisterOf[d] = i}}

\* A register is the highest rank of the elements its sketch stands for,
\* through any mix of additions, merges and resets.
RegistersAreHighest ==
  \A s \in Sketches, i \in Registers :
    registers[s][i] = IF Ranks(s, i) = {} THEN 0 ELSE Max(Ranks(s, i))
------------------------------------------------------------------------------
\* Bloom filters.

BloomInit ==
  /\ bits = {}
  /\ counts = [i \in Positions |-> 0]
  /\ inFilter = {}
  /\ present = [e \in Elements |-> 0]
  /\ spoiled = FALSE

\* bloom_add, bloom_test
Add(e) ==
  /\ bits' = bits \cup Range(PositionsOf[e])
  /\ inFilter' = inFilter \cup {e}
  /\ UNCHANGED <<counts, present, spoiled>>

Test(e) == \A k \in DOMAIN PositionsOf[e] : PositionsOf[e][k] \in bits

Incremented(c, i) == [c EXCEPT ![i] = IF @ < Saturation THEN @ + 1 ELSE @]

\* Mutant: a counter is not decremented below one.
DecrementedToOne(c, i) == [c EXCEPT ![i] = IF @ > 1 THEN @ - 1 ELSE @]

Decremented(c, i) == [c EXCEPT ![i] = IF @ > 0 THEN @ - 1 ELSE @]

\* The loops of cbloom_add and cbloom_remove over the places of e.
AllIncremented(e) ==
  LET c[k \in 0 .. Len(PositionsOf[e])] ==
        IF k = 0 THEN counts ELSE Incremented(c[k - 1], PositionsOf[e][k])
  IN  c[Len(PositionsOf[e])]

AllDecremented(e) ==
  LET c[k \in 0 .. Len(PositionsOf[e])] ==
        IF k = 0 THEN counts ELSE Decremented(c[k - 1], PositionsOf[e][k])
  IN  c[Len(PositionsOf[e])]

\* How many of the hashes of e are i.
Times(e, i) == Cardinality({k \in DOMAIN PositionsOf[e] : PositionsOf[e][k] = i})

\* cbloom_add
CountingAdd(e) ==
  /\ present[e] < MaxPresent
  /\ counts' = AllIncremented(e)
  /\ present' = [present EXCEPT ![e] = @ + 1]
  /\ spoiled' = (spoiled \/ \E i \in Positions : counts[i] + Times(e, i) > Saturation)
  /\ UNCHANGED <<bits, inFilter>>

CountingTest(e) == \A k \in DOMAIN PositionsOf[e] : counts[PositionsOf[e][k]] # 0

\* cbloom_remove; without the test it changes nothing.
CountingRemove(e) ==
  /\ CountingTest(e)
  /\ counts' = AllDecremented(e)
  /\ present' = [present EXCEPT ![e] = IF @ > 0 THEN @ - 1 ELSE @]
  /\ spoiled' = (spoiled \/ present[e] = 0)
  /\ UNCHANGED <<bits, inFilter>>

BloomNext == \E e \in Elements : Add(e) \/ CountingAdd(e) \/ CountingRemove(e)

BloomSpec == BloomInit /\ [][BloomNext]_bloomVars

\* What has been put into a Bloom filter is found; so is what is present in a
\* counting filter, whose counters count the hashes of what is present, as
\* long as none has stopped and nothing absent was removed.
FiltersKeepWhatWasAdded ==
  /\ \A e \in inFilter : Test(e)
  /\ ~spoiled =>
       /\ \A i \in Positions :
            counts[i] = MapThenSumSet(LAMBDA e : present[e] * Times(e, i), Elements)
       /\ \A e \in Elements : present[e] > 0 => CountingTest(e)

\* Both of the above: neither kind of sketch forgets what it has been given.
SketchesKeepWhatWasAdded == RegistersAreHighest /\ FiltersKeepWhatWasAdded
============================================================================
