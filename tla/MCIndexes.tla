----------------------------- MODULE MCIndexes -----------------------------
(***************************************************************************)
(* The index structures and the probabilistic ones, one of them in use in  *)
(* each behaviour, against what they stand for.                            *)
(***************************************************************************)
EXTENDS Probabilistic, SequencesExt

CONSTANTS Length, MaxUpdates, MaxPoints, MaxHeld, MaxLength, Symbols

VARIABLES
  which,                                         \* the structure in use
  sumTree, lazy, array, stale, updates,          \* SegmentTree
  intervalRoot, intervalCount, held,             \* IntervalTree
  kdRoot, points,                                \* KdTree
  leaf, leafMbr, inner, rootMbr, rSize, rects,   \* RTree
  words, members, padded,                        \* Bitmap
  seq                                            \* WaveletTree: its sequence

segmentVars == <<sumTree, lazy, array, stale, updates>>
intervalVars == <<intervalRoot, intervalCount, held>>
kdVars == <<kdRoot, points>>
rtreeVars == <<leaf, leafMbr, inner, rootMbr, rSize, rects>>
bitmapVars == <<words, members, padded>>

vars == <<which, segmentVars, intervalVars, kdVars, rtreeVars, bitmapVars, seq,
          countVars, bloomVars, hllVars>>

\* In each row some items collide, but not the same ones.
MCColumn == <<[k \in Items |-> k % 2], [k \in Items |-> k \div 2]>>

\* Elements share registers.
MCRegister == <<0, 0, 1, 1>>
MCRank == <<1, 3, 2, 2>>

\* Elements share slots, and one hashes to the same slot twice.
MCPositions == << <<0, 1>>, <<1, 2>>, <<2, 2>>, <<0>> >>

Corners == {<<0, 0, 1, 1>>, <<1, 1, 2, 3>>, <<3, 0, 3, 2>>, <<2, 2, 3, 3>>}
Coordinates == 0 .. 2
Targets == {-1, 0, 2, 3}

ST == INSTANCE SegmentTree WITH N <- Length, Arrays <- {[i \in 0 .. Length - 1 |-> 2 ^ i]},
        Deltas <- {1, -1}, Sets <- {3}, tree <- sumTree
IT == INSTANCE IntervalTree WITH Ends <- 1 .. 3, root <- intervalRoot, count <- intervalCount
KD == INSTANCE KdTree WITH root <- kdRoot
RT == INSTANCE RTree WITH Rects <- Corners, MaxEntries <- 3, MaxCount <- 5,
        size <- rSize, inserted <- rects
BM == INSTANCE Bitmap WITH BitCount <- 3, WORD_BITS <- 2
WT == INSTANCE WaveletTree WITH Sigma <- Symbols

Init ==
  /\ which \in {"segment", "interval", "kd", "rtree", "bitmap", "wavelet", "count", "bloom", "hll"}
  /\ ST!Init /\ IT!Init /\ KD!Init /\ RT!Init /\ BM!Init /\ BloomInit /\ HllInit /\ CountInit
  /\ seq = <<>>

SegmentStep ==
  /\ which = "segment"
  /\ ST!Next
  /\ UNCHANGED <<which, intervalVars, kdVars, rtreeVars, bitmapVars, seq, countVars, bloomVars, hllVars>>

IntervalStep ==
  /\ which = "interval"
  /\ IT!Next
  /\ UNCHANGED <<which, segmentVars, kdVars, rtreeVars, bitmapVars, seq, countVars, bloomVars, hllVars>>

KdStep ==
  /\ which = "kd"
  /\ KD!Next
  /\ UNCHANGED <<which, segmentVars, intervalVars, rtreeVars, bitmapVars, seq, countVars, bloomVars, hllVars>>

RTreeStep ==
  /\ which = "rtree"
  /\ RT!Next
  /\ UNCHANGED <<which, segmentVars, intervalVars, kdVars, bitmapVars, seq, countVars, bloomVars, hllVars>>

BitmapStep ==
  /\ which = "bitmap"
  /\ BM!Next
  /\ UNCHANGED <<which, segmentVars, intervalVars, kdVars, rtreeVars, seq, countVars, bloomVars, hllVars>>

\* The caller's sequence, for which a wavelet tree is built.
WaveletStep ==
  /\ which = "wavelet"
  /\ Len(seq) < MaxLength
  /\ \E c \in 0 .. Symbols - 1 : seq' = Append(seq, c)
  /\ UNCHANGED <<which, segmentVars, intervalVars, kdVars, rtreeVars, bitmapVars, countVars, bloomVars, hllVars>>

CountStep ==
  /\ which = "count"
  /\ CountNext
  /\ UNCHANGED <<which, segmentVars, intervalVars, kdVars, rtreeVars, bitmapVars, seq, bloomVars, hllVars>>

BloomStep ==
  /\ which = "bloom"
  /\ BloomNext
  /\ UNCHANGED <<which, segmentVars, intervalVars, kdVars, rtreeVars, bitmapVars, seq, countVars, hllVars>>

HyperLogLogStep ==
  /\ which = "hll"
  /\ HllNext
  /\ UNCHANGED <<which, segmentVars, intervalVars, kdVars, rtreeVars, bitmapVars, seq, countVars, bloomVars>>

Next ==
  \/ SegmentStep \/ IntervalStep \/ KdStep \/ RTreeStep \/ BitmapStep
  \/ WaveletStep \/ CountStep \/ BloomStep \/ HyperLogLogStep

Spec == Init /\ [][Next]_vars

\* The segment tree answers the sums of the array it stands for, however
\* range updates and queries have pushed tags about.  A point update leaves
\* the sums above its leaf: after one only single entries are sure.
SumsAreExact ==
  which = "segment" => \A l, r \in 0 .. Length - 1 :
    l = r \/ (l < r /\ ~stale) =>
      ST!QuerySum(l, r) = MapThenSumSet(LAMBDA i : array[i], l .. r)

\* Stabbing finds an interval exactly if one holds the point, and overlap all
\* that meet a range, whatever branches the cached ends prune.
IntervalsAreFound ==
  /\ \A p \in 0 .. 4 :
       LET n == IT!Stab(p)
           holding == {i \in held : i[1] <= p /\ p <= i[2]}
       IN  IF holding = {} THEN n = IT!Null ELSE <<n.lo, n.hi>> \in holding
  /\ \A lo \in 0 .. 4 : \A hi \in lo .. 4 :
       IT!Overlap(lo, hi) = {i \in held : i[1] <= hi /\ lo <= i[2]}

\* The nearest neighbour is right in a tree grown by insertions and in every
\* tree kd_build may make of the points.  A range search finds no point that
\* is too far, and every near one if no coordinate of the centre passes that
\* of a point by more than the radius: further out it drops right subtrees.
NeighboursAreFound ==
  LET all == ToSet(points)
      trees == {kdRoot} \cup KD!Built(DOMAIN points, 0)
  IN  \A t \in trees, x, y \in Targets :
        LET q == <<x, y>>
            n == KD!Nearest(t, q)
        IN  /\ IF points = <<>> THEN n = KD!Null
               ELSE /\ n.point \in all
                    /\ \A p \in all : KD!Dist2(q, n.point) <= KD!Dist2(q, p)
            /\ \A r \in 1 .. 2 :
                 LET near == {p \in all : KD!Dist2(q, p) <= r * r}
                     found == KD!RangeSearch(t, q, r)
                 IN  /\ found \subseteq near
                     /\ (\A p \in all : x - p[1] <= r /\ y - p[2] <= r) => near \subseteq found

\* An R-tree finds the rectangles that meet a query among those it has kept,
\* the first three, although the root's box grows out of step with the count.
RectanglesAreFound ==
  \A query \in Corners \cup {<<0, 3, 0, 3>>, <<1, 0, 3, 0>>} :
    RT!Search(query) =
      {i \in DOMAIN rects : i <= 3 /\ RT!Overlaps(rects[i], query)}

\* The bits of a bitmap are those the calls have made; counting and searching
\* them is right, unless a complement has left ones beyond the last bit, which
\* popcount counts and a search that finds no bit answers.
BitsAreFound ==
  \A m \in BM!Maps :
    /\ \A i \in BM!Bits : BM!Test(m, i) <=> i \in members[m]
    /\ ~padded[m] => BM!Popcount(m) = Cardinality(members[m])
    /\ \A from \in -1 .. 2 :
         LET later == {i \in members[m] : i > from}
             n == IF from = -1 THEN BM!FindFirstSet(m) ELSE BM!FindNextSet(m, from)
         IN  IF later # {} THEN n = Min(later)
             ELSE IF padded[m] THEN n >= 3 ELSE n = -1

\* Rank and select of a wavelet tree count and place the symbols of its sequence.
SymbolsAreRanked ==
  LET tree == WT!Build(seq)
  IN  \A c \in 0 .. Symbols - 1 :
        /\ \A i \in 0 .. Len(seq) :
             WT!Rank(tree, c, i) = Cardinality({j \in 1 .. i : seq[j] = c})
        /\ \A k \in 1 .. MaxLength :
             LET i == WT!Select(seq, c, k)
             IN  IF i = -1 THEN Cardinality({j \in DOMAIN seq : seq[j] = c}) < k
                 ELSE seq[i + 1] = c /\ WT!Rank(tree, c, i + 1) = k

\* Whatever calls have grown or changed it, an index answers what its contents
\* say, as far as its definition above goes.
QueriesAreExact ==
  /\ which = "interval" => IntervalsAreFound
  /\ which = "kd" => NeighboursAreFound
  /\ which = "rtree" => RectanglesAreFound
  /\ which = "bitmap" => BitsAreFound
  /\ which = "wavelet" => SymbolsAreRanked
===========================================================================
