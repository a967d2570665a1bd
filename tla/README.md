# A verification development for dsa_guide

dsa_guide is a C library of data structures and algorithms: some twenty-five
small components, each a header in `include/` and a source file in `src/`, with
a demo program and two test programs. Paths here are relative to the repository,
so `src/linear/ring_buffer.c` is the ring buffer.

This directory holds TLA+ modules that model the components, the
configurations that model-check them, and proofs that TLAPS checks.

    tlc -config MCRingBuffer.cfg MCRingBuffer      model-check one instance
    tlapm RingBufferProofs.tla                     check one proof module

`PROJECT.json` lists the runs with their properties, for every definition the
lines of the code it models, for every property one plausible mistake in the
code that breaks it (the operators whose comment begins with "Mutant:"), the
hazards, the findings and the theorems.

## The system

Every component is a struct and functions that take a pointer to it. There is no
I/O besides printing, no persistence, no callbacks into a component (the visitors
of scans only look), and one place with threads: the ring buffer. Everything
else is sequential: a behaviour is a sequence of calls, and what is hard is what
a long sequence of legal calls leads to. Components hardly call each other: the
graph, the DAG and the heap each carry their own copies of queue and heap code.

| Component | Source | State and operations | What makes it correct, and what is hard |
|---|---|---|---|
| Ring buffer | `linear/ring_buffer.c` | slots, atomic `head`, `tail`; produce, consume, size | two threads, stale loads, wrapping counters: no race, first in first out, honest sizes |
| Union-find | `graph/union_find.c` | `parent`, `rank`, `num_components`; find, union, connected | recursion that rewrites what it walks over: the forest is the partition, shallow, no cycle |
| LSM tree | `specialized/lsm_tree.c` | memtable, sorted levels; put, delete, get, flush (inside put and delete), compact | age of copies across flushes and compactions, array capacities |
| Open addressing | `hash/hash_table.c:93-147` | `keys`, `vals`, `used`, `deleted`, `size`; insert, get, delete | tombstones: reachability of entries, duplicates, a full table |
| Chaining hash table | `hash/hash_table.c:1-91` | buckets of linked entries, `size`; insert with resize, get, delete | a resize moves every entry, and comes before the lookup |
| Cuckoo hash | `hash/cuckoo_hash.c` | two tables, key -1 for empty; insert with kicks, get, delete | a key lives in one of two places; what a failed insertion leaves |
| Skip list | `probabilistic/skip_list.c` | linked levels; insert, search, delete, range | levels are sub-lists of each other, whatever the coin |
| Trie | `trees/trie.c` | linked nodes; insert, delete with pruning, prefix searches | pruning must stop at other words, and leave no dead branch |
| B-tree | `trees/btree.c` | nodes of `2T-1` keys, `size`; insert, delete, search, range scan | shape and order through split, borrow, merge; duplicates |
| Red-black tree | `trees/red_black_tree.c` | linked nodes, one sentinel, cached `leftmost`; insert, delete, search, successor | fix-up loops, the sentinel's parent, the cache |
| Graph, DAG | `graph/graph.c`, `dag.c` | adjacency lists and arrays; add edge; searches, shortest paths, orders, components | each algorithm's answer against its definition |
| Heap | `trees/heap.c` | `keys`, `vals`, `size`; push, pop; heap sort; Dijkstra, Bellman-Ford | heap order, pairs kept together |
| Queue, deque | `linear/queue.c` | circular arrays; enqueue, push and pop at both ends; window maximum, breadth-first search | indices that wrap around, empty against full |
| Circular list | `linear/circular_list.c` | doubly linked ring; pushes, pops, LRU access | pointer surgery at the ends, eviction |
| Linked list | `linear/linked_list.c` | next pointers; push, pop, delete, reverse, merge sort, cycle test | slow and fast pointer, relinking |
| Stack | `linear/stack.c` | bounded array; brackets, postfix, depth-first search | refusals nobody looks at |
| Array | `linear/array.c` | growing array; searches, window maximum, prefix sums | growth, boundaries |
| Segment and interval tree | `trees/segment_tree.c` | sums and lazy tags; intervals with cached ends; updates, queries | tags pending while leaves change; pruning |
| k-d tree, R-tree | `spatial/*.c` | points or rectangles over doubles; insert, nearest, range | pruning of subtrees |
| Bitmap, wavelet tree | `specialized/bitmap.c`, `wavelet_tree.c` | words; set operations, rank, select | padding, index arithmetic |
| Bloom filters | `probabilistic/bloom_filter.c` | bits, or four-bit counters; add, test, remove | no false negatives; saturation |
| Count-min, HyperLogLog | `probabilistic/count_min.c` | counters, registers; add, merge | never an under-estimate; wrapping counters |
| Bit algorithms | `bits/bits.c`, `bits.h` | none: pure functions on words | borrows, the extreme words |

## What is modelled

### Ring buffer: `BoundedFIFO`, `RingBuffer`, `MCRingBuffer`, `RingBufferProofs`

`RingBuffer` has two threads. Each shared access of `rb_produce` and `rb_consume`
is a step: load the other's counter (`ProduceLoad`, `ProduceRefused`,
`ConsumeLoad`, `ConsumeRefused`), access the slot (`ProduceWrite`, `ConsumeRead`),
store the own counter (`ProduceStore`, `ConsumeStore`). A thread reads its own
counter exactly. An acquire load of the other's may return any value from the one
this thread saw last to the newest, which is all C11 coherence gives; `pHead` and
`cTail` are what was seen last. `rb_size` runs on either thread. Counters wrap
around modulo `WordSize`, a power of two that the capacity divides.
`NoDataRace` is stated on happens-before: when a thread is about to access a slot,
the other's accesses to it are all ordered before by a release it has acquired.
`BoundedFIFO` is the abstract queue; `ImplementsFIFO` maps its contents to the
slots between `head` and `tail` (a value is put when `tail` is stored, and taken when its
slot is read), and `given` to the value last accepted, so no other value may be put.

- `ring`: two values, capacity 3 rounded up to 4, three-bit counters, so
  the counters wrap around after two turns of the ring. Safety and liveness are checked
  of the same, fair specification. Fairness: a thread inside a call is
  scheduled (weak), a client calls again and again and sooner or later one of
  its loads returns the newest value (strong, since between two calls the other
  thread may be scheduled): the C11 standard says a store should become visible
  in a finite amount of time (7.17.3p16), and a client that polls is what the ring
  is for. Without calling clients nothing is promised: those are assumptions
  about the users, not about the code.

Proved for every capacity, counter width and set of values: no data race,
conservative sizes, honoured polls, the refinement. The inductive invariant
`IInv` says that the four counters known to anybody (`pHead`, `head`, `cTail`,
`tail`) lie in this order within one capacity around the ring of counter values
(`Ordered`). `NoDataRace` alone is not inductive: that a stale
`pHead` is safe depends on its distance from `tail`. `SlotsDiffer` is the arithmetic
behind it: two counters less than one capacity apart use different slots, also
across the wrap, because the capacity divides the number of counter values.

### Union-find: `Partition`, `UnionFind`, `UnionFindProofs`

The recursion of `uf_find` is unrolled: `path` holds the nodes of the pending
activations, `FindUp` is a call, `FindTop` the base case, `FindDown` the return
that redirects one pointer. `path` is a stack of `MaxDepth`, one pending call per node; a call
beyond it is not recorded, so a cycle in the forest is an endless recursion that the model can
run through. `uf_union` and `uf_connected` run two finds and combine
the roots; `uf_from_edges` is a sequence of unions. `Partition` is the abstract
specification: a partition that only gets coarser, and truthful answers, each with
the call it answers.
All nodes of a path see the forest half compressed, and `TreesAreBlocks`, `PathIsShallow`
and the count hold there too.

- `union_find`: four nodes, the least number with a tree of rank two; all
  sequences of calls (483,361 states). Fairness: a sequential call that has begun
  runs on; nobody is obliged to begin one. `CallsReturn` fails if a compression ever links a
  cycle: the recursion then goes round it for ever.

Proved for every number of nodes: types, ranks grow towards the root (so there is
no cycle), trees are blocks, the recursion is no deeper than a rank, the
counter is the number of trees, a tree of rank r has at least 2^r nodes
(`RankLogarithmic`), the stack never reaches `MaxDepth` (`StackSuffices`: a path is no longer than
the rank on top of it, and a rank is below the number of nodes), the refinement of `Partition`. `IInv` adds to the
forest's invariants what each program point knows: the pending path is a chain of
growing ranks in one block, and the roots found are still roots (which is why the
second find may compress paths before the first root is used). The logarithm follows
from the same invariant: compressions keep every tree's set of nodes, and a link raises
a rank only where two trees of that rank become one (`LinkKeepsLogarithm`); the powers are a
recursive function, with a lemma that they double. `CallsReturn` is only model-checked.

### LSM tree: `LSMTree`, `MCLSMTree`, `LSMTreeProofs`

`Put` and `Delete` append to the memtable, and flush it first if it is full; the
flush is part of the action, as in the code. `qsort` is not stable: `Sorts` is
the set of all its outcomes. `Compact(l)` is the merge loop, the tombstone filter
and the reallocation. `Get` is the read path with its binary search. The flag
`sorted` is left out (it is false only for levels that are empty), and
allocation never fails.

- `lsm`: three keys, five writes, memtable of two, three levels: two flushes,
  and duplicates of a key in every level (253,792 states). The code's sizes (memtable
  8, four levels) only make the same events rarer.
- `lsm_newest`: `MostRecentWriteWins`, the comment of `lsm_get`, is violated (see
  Findings). The properties of `lsm` are what does hold.

Proved for every set of keys, every size of the memtable and number of levels: all three
properties of the run. `MemtableFirst` rests on an invariant of its own (the last entry of a
key in the memtable is the last one written). `LevelsStaySound` and `ReadsStayHonest` rest on
`LSMInv`: every level is sorted and fits its array, level 0's capacity never shrinks below
the memtable's size (so doubling it once suffices: `FlushInBounds`), every stored entry was
written for its key, and a key that was written and never deleted has an entry somewhere. A single
compaction or flush keeps this only if the code's loops do what they are meant to, and those are
lemmas for sequences of any length: `SearchFinds` (the binary search ends at its key if the level
has it), `MergeIsRight` (the merge of two sorted levels is sorted, takes nothing from elsewhere and
keeps an entry of every key), `KeptIsRight` (the filter drops exactly the tombstones),
`SortsKeepMembers`. Which copy of a key survives is not part of it, and cannot be: see finding 1.

### Open-addressing hash table: `OpenHash`, `MCOpenHash`, `HashingProofs`

Insert, get and delete with linear probing; the hash is any function to slots.
`contents` is the dictionary a caller has in mind, `careful` whether the caller
has never updated a held key while there were tombstones: only then the table is a
dictionary exactly (`CarefulIsExact`); otherwise it may hold two copies of a key,
but still reads back what was put (`PutIsRead`).

- `open_hash`: three slots, four keys, colliding hashes, a full table included.

Proved for every capacity and hash function: all four properties. The key of
`IInv` is `PutReadsAt`: the first live copy of a key on its probe is the newest one, and
every slot before it is used, which an insertion that reuses a tombstone keeps
because it only ever puts a copy in front of the others.

### B-tree: `BTree`

Nodes are records and the code's recursive functions are recursive operators that return
the subtree they leave. All of `split_child`, `insert_nonfull`, `fix_child`, `delete_r`,
and the range scan is there, duplicates too, since `bt_insert` does not refuse
a key it holds.

- `btree`: minimum degree two (the code has three), up to eight keys from a set of four:
  trees of three levels whose inner nodes split, borrow and merge.
- `btree_delete`: "15 deleted" of the tests, violated (see Findings).

No proofs: the module needs recursive operators.

### Red-black tree: `RedBlackTree`, `RedBlackTreeProofs`

A node is its key; `tree` holds root, children, parents and colours, the sentinel
included, whose parent is overwritten as in the code. Every turn of the two
fix-up loops is a step, so properties can speak of the middle of a call. A direction
argument stands for an arm of the code and its mirror.
`OneDefect` is the loop invariant of both fix-ups: exactly one node may be out
of order, and the loop is looking at it.

- `red_black_tree`: seven keys, every tree reachable by insertions and deletions
  (26,641 states, up to four levels): every case and its mirror occurs. Fairness: a
  call that has begun runs on.

Proved for every set of integer keys: both invariants of the run (`OneDefectAtMost`,
`WalkStaysSorted`). The argument has three layers.

- Order. `Shape` gives every node its two *bounds*: `b[d][n]` is the closest ancestor of `n` on
  side `d`, or the sentinel. That a linked structure is a search tree is then a statement about
  single nodes and their children (the child inherits the bounds, with its parent as one of
  them) instead of one about subtrees, and a rotation or a transplant changes the bounds of a known
  few nodes. The sentinel's parent, which `transplant` overwrites, is free in `Shape`,
  because nothing but the deletion's loop may read it.
- Balance. `Heights` does the same with a black height `h[n]` per node; the deletion's missing
  black node is a debt `o[n][d]` of one on one side of one node. Colours and heights are kept
  apart from the order, so each case of the fix-ups is an arithmetic fact about the five
  or six nodes around it.
- Loops. Search, minimum and successor are loops over links. A measure shrinks at
  each turn (on the way down, the number of keys between the bounds; on the way up, the number
  of keys outside them), so their recursive functions have a solution
  (`LoopRecursion`), and an induction over the measure says where they end (`SearchFinds`,
  `SuccessorFacts`).

The inductive invariant `Sane` says, for each program point, that such `b` and `h` exist:
between calls with no debt and no red pair (`Settled`), inside an insertion with one red pair
at most, at the node of the loop (`Inserting`), inside a deletion with one debt at most, at its
place (`Deleting`). Neither `OneDefect` nor `WalkIsSorted` is inductive alone: a
rotation keeps searches right only if the tree is ordered by bounds, and a search does not say
that. `Sane` quantifies over all functions of bounds and heights, which TLC cannot
enumerate even for seven keys; its consequences, the two invariants, are what the run checks.
`CallsReturn` is only model-checked.

### Graph and DAG algorithms: `GraphAlgorithms`, `ShortestPaths`, `BinaryHeap`, `MCGraphAlgorithms`, `GraphProofs`

The state is a graph that grows edge by edge; the algorithms are operators. The
loops of Dijkstra, Bellman-Ford, Kahn, both searches, the cycle check, both topological
sorts, the components and the critical path are transcribed and compared with definitions
by the simple paths of the graph. `BinaryHeap` is the heap of `trees/heap.c`, which
graph.c repeats in two macros. Heap sort is in `Array`. `dag_add_edge` appends where `graph_add_edge` prepends:
`DagHeads` is the list in the other order, with the same calls. The loops and recursions of
`GraphAlgorithms` are recursive functions, nested ones on the pair of places they have reached, so
that they can be proved about; those of `ShortestPaths` are recursive operators.

- `graph`: all graphs, directed and undirected, of three vertices and three edges with
  weights -1, 1 and 3, loops and parallel edges included: detours cheaper than a direct
  edge, shortest paths that need all passes of Bellman-Ford, negative cycles in and out of
  reach. The code's heap of Dijkstra has room for `4n` entries and no push checks it
  (`graph.c:77`); the model's has no bound. The graphs of the run push at most seven entries,
  with room for twelve; in a dense graph the code's heap may be too small.

Proved for every number of vertices, all weights and every sequence of added edges
(`TraversalsRight`, `ComponentsRight`, `OrdersRight`): all properties of the run but the shortest
paths. The state's part is small: `GraphInv` types the lists, bounds them, and makes an undirected
graph symmetric. The rest is about what each loop computes on any such graph, and every loop has the
same three parts: a measure that shrinks, so its recursive function has a solution; an invariant of
its arguments, by induction over the measure; and what the invariant says when it stops.

- Searches. `graph_dfs` and the components share one recursion over the vertices not visited and the
  rest of a list; it adds exactly what a path through unvisited vertices reaches, in the lists'
  order. `graph_bfs` keeps its queue in the order of distances, at most one apart (`Hops`),
  and its measure, which Kahn's loop shares, is a pair: the vertices still to be expanded, then the rest of
  the list (`QueueMeasure`).
- Kahn. The in-degrees kept are the arcs from vertices not taken yet. When the queue is empty and
  vertices are left, each has an arc from another one left; a finite graph then has a cycle
  (`NoSource`), and with a cycle none of its vertices is ever taken.
- Cycle check and topological sort by depth. Every vertex on the recursion stack reaches the one
  that is searched, and the vertices done with lead only to each other and to no cycle (`Searching`,
  `Settled`); in the sort, a vertex lies on the stack above all that its arcs lead to (`Stacked`).
- Critical path. Along an order every number is achieved by a path (`Achieved`) and the arcs
  behind are relaxed, so at the end no path is longer.

Only checked by TLC: `ShortestPathsFound`. The distances start at `INT_MAX`, which is only infinite
as long as no path is as long, a bound on weights the code does not state; and the heap and the
main loop are recursive operators.

### Dictionaries: `Dictionary`, `ChainHash`, `CuckooHash`, `SkipList`, `Trie`, `MCDictionaries`

`Dictionary` is the abstract specification: a partial function, with insertions that
overwrite, deletions that say whether the key was there, and a size. Every call is recorded in
`call` with its key, value and answer, so an implementation that forgets an update, stores another
value or deletes another key than asked refines nothing. `LossyNext` adds
an insertion that fails and costs one pair. Each of the four modules has one action per
operation and an operator `Contents` that reads the structure through its own
lookup; `MCDictionaries` uses one of them in each behaviour and maps it to
`Dictionary` by `Contents`, so the lookup is checked with the updates.

- `ChainHash`: buckets are sequences, newest first. The resize is part of
  the insertion, and comes before the search for the key, as in the code.
- `CuckooHash`: the kick loop (`Placed`) is a recursion over the rounds left.
  `careful` says that the caller has not inserted a key that was held: the code does not
  look for it, and may then keep two copies.
- `SkipList`: a node is its key; `forward` is the array of pointers per level, and the
  coin is a choice of any level. `Update` is the vector of predecessors.
- `Trie`: a node is the string that leads to it. `Left` is the return of `delete_r`
  through the activations.

Run `dictionaries`: four keys; one bucket that grows to eight; two cuckoo tables of two
slots and three rounds, so that insertions do give up; three levels; strings
that are prefixes of each other, the empty one included.

Proved of the skip list (in `HashingProofs`), for any number of keys, at least one level, all values
and whatever levels the coin gives: it refines `Dictionary`, call by call (`SkipListIsDictionary`), and a range
visits exactly its keys, in order (`SkipRangesExact`). The inductive invariant `SkipInv` says that
each level is a sorted chain from the head through exactly a set of nodes (no key between a node and its
successor is in it), that each level's set contains the next one's, that the bottom one is the set of
keys held, and that levels above the current one are empty. The predecessors `Update` finds are
then, per level, the last node below the key, and inserting or deleting there is one lemma about a chain
(`ChainTakes`, `ChainDrops`), used on every level.

### Linear structures: `Sequence`, `Queue`, `Deque`, `CircularList`, `LinkedList`, `Array`, `Stack`, `Bits`, `MCLinear`, `LinearProofs`

`Sequence` is the abstract specification of the queues and lists: calls on a sequence of
items, each recorded in `call` with its argument and answer, so refinement covers
the answers. `Queue` and `Deque` have the circular array and its indices,
`CircularList` and `LinkedList` the pointers; a relinking is written as the
assignments of the code, in their order. The LRU access of the circular list is one
call of `Sequence` (`Access`). One answer is excepted from the refinement, that of the
call of finding 9; its effect is not.

`Array`, `Stack` and `Bits` hold the algorithms as operators. In `Array` the two window
maxima of the code are one operator with a flag, since they differ only in what they do
with equal values. `Stack` holds the clients of the stack and queue (brackets, postfix
expressions, the two searches). A word of `Bits` is the set of its one bits, so
`&`, `|` and shifts are set operations and only `+` and `-` go through numbers. Unsigned
arithmetic wraps. Signed arithmetic is `IntOf` the exact number, a `CASE` with no arm for a number
that does not fit an `int32_t`, where C leaves the result undefined (finding 13); likewise the left
shift of a negative number in `ZigzagEncode`. TLC would stop there, so the run also shows that
`BitTricksAreRight` asks only for words with a defined result: the most negative word is left out
of negation, `bit_sub` (as subtrahend), `bit_abs`, `bit_lsb`, `bit_mul` and the pivot of
`bit_two_singles`, too distant operands of `bit_min` and `bit_max`, and all but the small
non-negative words of the zigzag code. Its decoder is checked on every word.

Run `linear`: three places and three values, so every structure wraps around, fills and
empties; arrays of up to five entries, strings of up to five letters, all adjacency tables of three
vertices with up to four heads, all words of eight bits with seven second words. Eight bits in
lanes of two keep the shape of 32 bits in bytes: four lanes, and five halving steps become three.

Proved in `LinearProofs`: the queue, the deque and the circular list refine `Sequence`, for every
capacity or number of nodes and all values, the deque with the same exception
(`QueueRefinesSequence`, `DequeRefinesSequence`, `CircularListRefinesSequence`).

- The deque keeps `front`, `back` and `size` separately, each brought back into the array by its own
  modulus; the inductive invariant `IInv` says that `front + size - 1` and `back` differ by nothing
  or by one turn of the array. Then a push at the back writes the slot after the last item, which
  is no item's slot as long as `size < Capacity`, and each call's new items are the old ones,
  shifted by one slot or not (one lemma a call). `FifoInv` is the same for the queue.
- The circular list's invariant, `RingInv`, is that there is some order `p` of exactly the allocated
  nodes, each once, that `next` and `prev` link into a ring through the sentinel. `p` is what the walk
  finds (`WalkIs`), so it need not be a variable. `_insert_between` and `_unlink` are a lemma each on
  how they change `p` (`RingTakes`, `RingDrops`), whichever neighbours are the sentinel, and all eight
  calls are made of these: the cache's miss pushes and then, if full, drops the last node, which for
  a cache of no entries is the new one. That `prev` mirrors `next` (`CircularListMirrored`) follows.

The linked list stays with TLC: its merge sort and reversal are recursive operators.

### Indexes and sketches: `SegmentTree`, `IntervalTree`, `KdTree`, `RTree`, `Bitmap`, `WaveletTree`, `Probabilistic`, `MCIndexes`, `HashingProofs`

Each module pairs the structure with a history variable that says what it stands for
(`array`, `held`, `points`, `inserted`, `members`, `present`, `added`, `seen`), and
the properties compare queries with that.

- `SegmentTree`: sums and tags in the code's heap numbering. A sum query is an action: it pushes
  tags down. `stale` remembers a point update, which leaves the sums above (finding 7).
- `IntervalTree`, `KdTree`: records for nodes. Bulk building is the set of all trees an
  unstable sort may give. Coordinates are whole numbers; distances stay squared, as in the code.
- `RTree`: the only two shapes the code reaches (finding 17).
- `Bitmap`: two maps and the operations between them, two-bit words, a last word with a
  padding bit. `WaveletTree` is built of bit vectors, its queries walk down it.
- `Probabilistic`: count-min sketches with cells that wrap around modulo `WordSize`, added to and
  merged, a sketch into itself, too; the registers of HyperLogLog; both Bloom filters, the counters
  saturating at three, where `spoiled` says that a counter has stopped or an absent element was
  removed. The hashes are parameters.

Run `indexes`: arrays of four entries with three updates, four points on a three by three grid with
centres also outside it, up to four intervals over three ends, five rectangles into room for three,
sequences of four symbols, cells that wrap around at four with totals of up to five.

Proved of count-min, for any sketches, items, rows, columns, hashes and word size
(`QueriesBounded`): as long as a sketch's total fits into a cell, a query is at least the
true count and, if there is a row, at most the total. By itself this is not inductive: the invariant
adds that every cell is at most the total (so no cell has wrapped, `NoWrap`) and that in every row the
cell of an item holds at least its count. A merge needs both of both sketches.

Proved of HyperLogLog (`RegistersHighest`): for any elements, registers and ranks, through additions,
resets and merges, each register is the highest rank of what was seen in it. Proved of both Bloom
filters (`FiltersKeep`): for any elements, positions and saturation, what was added is reported. A
Bloom filter's bits contain the positions of what was added. Of the counting filter the invariant is
exact: unless spoiled, a counter is the sum, over the elements, of how often each is present times how
often the position is among its own (`Times`: a hash may name a position twice, and the code then
counts it twice), so a removal of what is present takes no counter to zero that another one needs.
`SketchesKeep` states both as the property of the run.

### Common lemmas: `NaturalOrder`

Least and greatest elements of non-empty (bounded) sets of naturals, which the proofs
use where the code stops at the first or last index with a property; induction over naturals and
over a measure, stated for a set in place of a predicate; and `Recursion`: a recursive function
whose argument has a measure that shrinks at every call solves its own equation. TLA+ defines such a
function as some solution of the equation, if there is one, so this theorem is what a proof about a loop
written as a recursive function starts from. `GeneralRecursion` is its form for calls nested in
the arguments of calls (a depth-first search calls itself with what its first call has visited);
`LoopRecursion` and `LoopResult` for loops that only walk, the second with the loop's invariant;
`Lexicographic` makes a measure of a pair, and `Iterates` is for loops that count their turns.

## Findings

Numbers 1 and 2 are shown by runs that expect a violation; the others were met while
modelling, and the properties are stated for what does hold. `PROJECT.json`
quotes the lines.

1. `lsm_get`: "Most recent write wins. Tombstones mask older entries."
   (`lsm_tree.c:63`) does not hold after a flush (`lsm_tree.c:46`; run `lsm_newest`).
2. `bt_delete` may leave its key in the tree when a child borrows from its left sibling
   (`btree.c:158`; run `btree_delete`), although `size` goes down.
3. `oaht_insert` reuses a tombstone before looking for the key (`hash_table.c:113`),
   unlike ALGORITHMS.md:740, and then holds two copies.
4. `dag_add_edge` never returns false (`dag.c:31`), unlike `dag.h:21`.
5. The critical path counts edges (`dag.c:108`), unlike ALGORITHMS.md:979.
6. The red-black tree is not "left-leaning" (`red_black_tree.c:2`).
7. `segtree_update` leaves the sums above its leaf (`segment_tree.c:55`).
8. `segtree_query_min` answers sums (`segment_tree.c:103`).
9. A deque that has only been pushed at the front has `back` at -1, and the first
   `deque_pop_back` or `deque_back` reads outside the array (`queue.c:109`).
10. `cuckoo_insert` loses a pair when it gives up (`cuckoo_hash.c:56`).
11. `cuckoo_insert` does not look for its key, and may keep two copies (`cuckoo_hash.c:40`).
12. The counting Bloom filter's removal is not safe after a saturation
    (`bloom_filter.c:84`), unlike README.md:130.
13. `bit_byte_eq_mask` reports bytes that differ (`bits.c:411`). `bits.h:29` promises no
    undefined signed arithmetic, but an `int32_t` may overflow in `bit_negate`, `bit_sub`, `bit_abs`,
    `bit_lsb` (`bits.h:63`, 66, 77, 131), `bit_mul`, `bit_min`, `bit_max`, `bit_two_singles`
    (`bits.c:50`, 51, 57, 208, 217, 355), and `bit_zigzag_encode` (`bits.h:173`) shifts negative
    numbers left.
14. `wt_quantile` always answers -1 (`wavelet_tree.c:130`).
15. `kd_range_search` misses points to the right of which the centre lies far (`kd_tree.c:95`).
16. `kd_build` sorts the points, not the values with them (`kd_tree.c:118`).
17. The R-tree drops every rectangle after the fourth (`rtree.c:81`).
18. The heap's Dijkstra pops two entries at a time (`heap.c:106`), its Bellman-Ford has no
    sources of edges (`heap.c:138`).
19. `stack_dfs_iterative` may leave vertices unvisited (`stack.c:45`).
20. An array created with no room never gets any (`array.c:29`).
21. A complemented bitmap counts and finds its padding bits (`bitmap.c:36`).
22. A count-min query may answer less than the true count once a 32-bit cell has wrapped
    (`count_min.c:49`), unlike `count_min.c:25`.

## What is proved, and what is only checked

The proofs use the assumptions named in the modules (`CapacityAssumption`,
`WordAssumption`, `NAssumption`, `WeightsAssumption`, `DimensionsAssumption`, `RegistersAssumption`,
`PositionsAssumption`, `KeysAssumption`, ...), and, where a module has no `ASSUME`, hypotheses the
theorem states: `Positive` (a queue or deque has room for an item), `RingConstants` (the number of
nodes is a natural, and no value is the mark of a free node), `SkipDimensions` (there is a level).
Twelve components have proofs: ring buffer, union-find, LSM tree, open addressing, red-black tree,
graph algorithms, count-min and HyperLogLog, both Bloom filters, skip list, queue, deque and circular
list. Only checked by TLC:

- liveness (`Delivered`, `RefusedThenAccepted`, `CallsReturn`): TLAPS does not handle
  fairness here;
- everything about structures that need recursive operators: B-tree, shortest paths, tries, linked list,
  segment, interval, k-d and wavelet trees, and the algorithms on sequences and words;
- the refinement of `Dictionary` but for the skip list, and that of `Sequence` but for the three
  above. `MCDictionaries` and `MCLinear` check their properties of all structures at once; the theorems are
  about the modules they instantiate.

## Not modelled

- Memory: every allocation succeeds; `free` and destroy functions are left out.
- Values a component only carries along (a red-black node's `val`, a point's `val`).
- Printing, the demo `main.c` (it only calls the components and prints) and the tests, which were read
  as documentation.
- `segtree_query_min`, `wt_quantile`, the heap's Dijkstra and Bellman-Ford: they do
  not compute what they are named for (findings 8, 14, 18), and change nothing.
- Floating point: coordinates are whole numbers; the estimate of HyperLogLog and the
  false-positive rate of the Bloom filter are formulas over doubles.
- The arithmetic of the hash functions, which are parameters.
- Bit helpers that are a single C operator (set, clear, test, rotate).
- Ring buffer: threads other than one producer and one consumer.
- Arithmetic that overflows `int` in key comparisons and path lengths, and writes past the
  fixed lists of the DAG (undefined behaviour); unsigned numbers wrap where it matters (ring counters,
  B-tree `size`, count-min cells).

## Plan

Modelled in this order, by how much a wrong interleaving or a long sequence of calls can
break: ring buffer, union-find, LSM tree, open addressing, B-tree, red-black tree, graphs; then the
dictionaries, the linear structures, the indexes and sketches. All components with logic of
their own are there. What is left is to prove more:

1. a cuckoo lookup finds what a careful caller's insertion put, with the kick loop one round a step;
2. the chaining table refines `Dictionary`, a resize keeping every entry;
3. a trie's pruning stops at the other words, with nodes as prefixes and no recursive operator;
4. Bellman-Ford, with a bound on the weights that keeps paths below `INT_MAX`.
