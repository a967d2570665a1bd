----------------------------- MODULE MCLinear -----------------------------
(***************************************************************************)
(* The linear structures and the algorithms on arrays, strings, adjacency  *)
(* tables and words; one of them is in use in each behaviour.  The queues  *)
(* and lists are compared with Sequence, the algorithms with definitions.  *)
(***************************************************************************)
EXTENDS Integers, SequencesExt

CONSTANTS Vals, Capacity, MaxSize, MaxText, MaxHeads, Width

VARIABLES
  which,                                        \* the structure in use
  call,                                         \* the last call of a queue or list
  queueData, queueHead, queueTail, queueSize,   \* Queue
  dequeData, dequeFront, dequeBack, dequeSize,  \* Deque
  ringNext, ringPrev, ringVal, ringSize,        \* CircularList
  listHead, listNext, listVal, listSize,        \* LinkedList
  data, capacity,                               \* Array
  text,                                         \* a string
  adj,                                          \* an adjacency table
  word                                          \* a word of bits

queueVars == <<queueData, queueHead, queueTail, queueSize>>
dequeVars == <<dequeData, dequeFront, dequeBack, dequeSize>>
ringVars == <<ringNext, ringPrev, ringVal, ringSize>>
listVars == <<listHead, listNext, listVal, listSize>>
arrayVars == <<data, capacity>>
inputVars == <<text, adj, word>>

vars == <<which, call, queueVars, dequeVars, ringVars, listVars, arrayVars, inputVars>>

Q == INSTANCE Queue WITH data <- queueData, head <- queueHead, tail <- queueTail,
       size <- queueSize
DQ == INSTANCE Deque WITH data <- dequeData, front <- dequeFront, back <- dequeBack,
       size <- dequeSize
CL == INSTANCE CircularList WITH MaxNodes <- Capacity, next <- ringNext,
       prev <- ringPrev, val <- ringVal, size <- ringSize
LL == INSTANCE LinkedList WITH MaxNodes <- Capacity, head <- listHead,
       next <- listNext, val <- listVal, size <- listSize
A == INSTANCE Array
S == INSTANCE Stack
B == INSTANCE Bits WITH Lane <- Width \div 4

Vertices == 0 .. 2

Init ==
  /\ which \in {"queue", "deque", "clist", "llist", "array", "text", "graph", "word"}
  /\ Q!Init /\ DQ!Init /\ CL!Init /\ LL!Init /\ A!Init
  /\ text = <<>>
  /\ adj = [v \in Vertices |-> <<>>]
  /\ word = {}

QueueStep ==
  /\ which = "queue"
  /\ Q!Next
  /\ UNCHANGED <<which, dequeVars, ringVars, listVars, arrayVars, inputVars>>

DequeStep ==
  /\ which = "deque"
  /\ DQ!Next
  /\ UNCHANGED <<which, queueVars, ringVars, listVars, arrayVars, inputVars>>

CircularListStep ==
  /\ which = "clist"
  /\ CL!Next
  /\ UNCHANGED <<which, queueVars, dequeVars, listVars, arrayVars, inputVars>>

LinkedListStep ==
  /\ which = "llist"
  /\ LL!Next
  /\ UNCHANGED <<which, queueVars, dequeVars, ringVars, arrayVars, inputVars>>

ArrayStep ==
  /\ which = "array"
  /\ A!Next
  /\ UNCHANGED <<which, call, queueVars, dequeVars, ringVars, listVars, inputVars>>

\* The caller's input grows: a string by a letter, a table by a neighbour, a
\* word by a bit; or it starts again.
Type ==
  /\ which = "text"
  /\ \/ /\ Len(text) < MaxText
        /\ \E c \in {"(", ")", "[", "]", "x"} \cup {"1", "2", "+", "-", "/"} :
             text' = Append(text, c)
     \/ text # <<>> /\ text' = <<>>
  /\ UNCHANGED <<adj, word>>

Heads == Len(adj[0]) + Len(adj[1]) + Len(adj[2])

Connect ==
  /\ which = "graph"
  /\ \/ /\ Heads < MaxHeads
        /\ \E v, w \in Vertices : adj' = [adj EXCEPT ![v] = Append(@, w)]
     \/ /\ Heads > 0
        /\ adj' = [v \in Vertices |-> <<>>]
  /\ UNCHANGED <<text, word>>

Flip ==
  /\ which = "word"
  /\ \E i \in B!Places : word' = B!Xor(word, {i})
  /\ UNCHANGED <<text, adj>>

InputStep ==
  /\ Type \/ Connect \/ Flip
  /\ UNCHANGED <<which, call, queueVars, dequeVars, ringVars, listVars, arrayVars>>

Next ==
  \/ QueueStep \/ DequeStep \/ CircularListStep \/ LinkedListStep
  \/ ArrayStep \/ InputStep

Spec == Init /\ [][Next]_vars

Items ==
  CASE which = "queue" -> Q!Items
    [] which = "deque" -> DQ!Items
    [] which = "clist" -> CL!Items
    [] which = "llist" -> LL!Items
    [] OTHER -> <<>>

Abstract == INSTANCE Sequence WITH items <- Items

\* The queue, the deque, the circular list with its LRU cache and the linked
\* list do what the same calls do to a sequence, and answer the same, through
\* every turn of the indices and every relinking.  One answer is excepted, not
\* the effect: that of the first pop at the back of a deque that has only been
\* pushed at the front.
ImplementsSequence ==
  /\ Abstract!Init
  /\ [][\/ Abstract!Next
        \/ /\ which = "deque" /\ dequeBack = -1
           /\ call'.op = "pop_back" /\ Items' = Front(Items)]_(Abstract!vars)

\* The questions asked of lists leave size, the middle and the pointers right:
\* prev mirrors next, size counts the nodes, the slow pointer stops in the
\* middle, and the two pointers meet exactly if the list has been made cyclic.
ListsAreSound ==
  /\ which = "clist" =>
       /\ \A n \in CL!Nodes \cup {CL!Sentinel} : ringPrev[ringNext[n]] = n
       /\ ringSize = Len(Items)
  /\ which = "llist" =>
       LET nodes == LL!From(listHead)
       IN  /\ listSize = Len(nodes)
           /\ nodes # <<>> => /\ LL!Middle = nodes[Len(nodes) \div 2 + 1]
                              /\ ~LL!HasCycle(listNext, listHead)
                              /\ \A n \in ToSet(nodes) :
                                   LL!HasCycle([listNext EXCEPT ![Last(nodes)] = n], listHead)

Maximum(s) == CHOOSE v \in ToSet(s) : \A w \in ToSet(s) : w <= v
Sum(s) == FoldLeft(+, 0, s)

\* The algorithms on arrays against their definitions, for whatever pushes,
\* pops and writes leave: both window maxima, whether equal values are dropped
\* (queue.c) or kept (array.c), prefix sums, heapsort, and on sorted data the
\* binary search and the pair of a sum; the entries never pass the capacity.
ArrayAlgorithmsAreRight ==
  which = "array" =>
    LET sorted == A!Heapsort(data)
    IN  /\ Len(data) <= capacity
        /\ sorted = SortSeq(data, <)
        /\ \A k \in 1 .. Len(data) :
             LET windows == [j \in 1 .. Len(data) - k + 1 |-> Maximum(SubSeq(data, j, j + k - 1))]
             IN  \A dropsEqual \in BOOLEAN : A!SlidingWindowMax(data, k, dropsEqual) = windows
        /\ LET prefix == A!PrefixSums(data)
           IN  \A l, r \in DOMAIN data :
                 l <= r => A!PrefixSumQuery(prefix, l, r) = Sum(SubSeq(data, l, r))
        /\ \A v \in 0 .. 4 :
             LET i == A!BinarySearch(sorted, v)
             IN  IF Contains(sorted, v) THEN sorted[i] = v ELSE i = 0
        /\ \A t \in 1 .. 7 :
             LET pair == A!TwoPointerPair(sorted, t)
                 pairs == {p \in (DOMAIN sorted) \X (DOMAIN sorted) :
                             p[1] < p[2] /\ sorted[p[1]] + sorted[p[2]] = t}
             IN  IF pairs = {} THEN pair = <<>> ELSE pair \in pairs

\* A string of brackets is balanced if neighbours that match can be taken out
\* until none is left.
RECURSIVE Reducible(_)
Reducible(s) ==
  s = <<>> \/ \E i \in 1 .. Len(s) - 1 :
                /\ <<s[i], s[i + 1]>> \in { <<"(", ")">>, <<"[", "]">> }
                /\ Reducible(SubSeq(s, 1, i - 1) \o SubSeq(s, i + 2, Len(s)))

\* The value of a postfix expression: none if it is ill-formed or divides by 0.
RECURSIVE Values(_)
Values(s) ==
  IF Len(s) = 1 THEN {S!Number[c] : c \in ToSet(s) \cap DOMAIN S!Number}
  ELSE IF s = <<>> \/ Last(s) \notin {"+", "-", "*", "/"} THEN {}
  ELSE UNION {{S!Apply(Last(s), a, b) :
                 a \in Values(SubSeq(s, 1, i)),
                 b \in Values(SubSeq(s, i + 1, Len(s) - 1)) \ (IF Last(s) = "/" THEN {0} ELSE {})}
                : i \in 1 .. Len(s) - 2}

RECURSIVE Reachable(_, _)
Reachable(from, n) ==
  IF n = 0 THEN from
  ELSE Reachable(from \cup UNION {ToSet(adj[v]) : v \in from}, n - 1)

\* The lists and the clients of the stack and the queue: brackets, postfix expressions, and
\* the two searches.  The stack of the depth-first search has room for as many
\* entries as there are vertices, and a refused push may hide a vertex; it
\* finds every vertex if no more than that many entries are ever pushed.
ClientsAreRight ==
  /\ ListsAreSound
  /\ which = "text" =>
       /\ LET brackets == SelectSeq(text, LAMBDA c : c \in {"(", ")", "[", "]"})
          IN  S!BalancedBrackets(text) <=> Reducible(brackets)
       /\ \A v \in Values(text) : S!EvalPostfix(text) = v
  /\ which = "graph" => \A src \in Vertices :
       LET order == S!QueueBfs(adj, src)
           found == S!StackDfs(adj, src)
           reachable == Reachable({src}, 3)
       IN  /\ ToSet(order) = reachable /\ IsInjective(order)
           /\ found \subseteq reachable
           /\ Heads <= 3 => found = reachable

Samples == {{}, {0}, {Width - 1}, B!Places, {0, 2, 3}, {1, Width - 2}, {i \in B!Places : i % 2 = 1}}

\* The bit algorithms against arithmetic and counting, on every word and, for
\* those of two words, with a sample of second words.  Each is asked only of
\* the words for which C defines what the code computes; the others, where an
\* int32_t overflows or a negative one is shifted left, are those that B!Fits
\* and the sign leave out here.
BitTricksAreRight ==
  which = "word" =>
    LET n == B!Num(word)
        i == B!Signed(word)
        Pow2 == {2 ^ k : k \in 0 .. Width - 1}
    IN  /\ B!Fits(-i) => /\ B!Signed(B!Negate(word)) = -i
                         /\ B!Signed(B!Abs(word)) = IF i < 0 THEN -i ELSE i
        /\ B!Num(B!Parity(word)) = Cardinality(word) % 2
        /\ n <= 2 ^ (Width - 1) => LET p == B!Num(B!NextPow2(word))
                                   IN  p \in Pow2 /\ n <= p /\ \A q \in Pow2 : n <= q => p <= q
        /\ n > 0 => /\ B!Num(B!PrevPow2(word)) = 2 ^ B!FloorLog2(word)
                    /\ B!Msb(word) = B!PrevPow2(word)
                    /\ B!Fits(-i) => B!Lsb(word) = {B!Ctz(word)}
                    /\ B!ClearLsb(word) = word \ {B!Ctz(word)}
        /\ B!IsPow2(word) <=> n \in Pow2
        /\ B!BitReverse(word) = {Width - 1 - k : k \in word}
        /\ B!ByteSwap(B!ByteSwap(word)) = word
        /\ B!FromGray(B!ToGray(word)) = word
        /\ Cardinality(B!Xor(B!ToGray(word), B!ToGray(B!Plus(word, {0})))) = 1
        /\ i >= 0 /\ B!Fits(2 * i) => /\ B!Num(B!ZigzagEncode(word)) = 2 * i
                                      /\ B!ZigzagDecode(B!ZigzagEncode(word)) = word
        /\ B!Signed(B!ZigzagDecode(word)) = IF n % 2 = 0 THEN n \div 2 ELSE -((n + 1) \div 2)
        /\ LET xy == B!MortonDecode(word)
           IN  /\ B!MortonEncode(xy[1], xy[2]) = word
               /\ xy[1] = {k \in B!Places : 2 * k \in word}
        /\ LET visits == B!EachSubset(word)
           IN  /\ ToSet(visits) = SUBSET word \ {{}}
               /\ \A k \in 1 .. Len(visits) - 1 : B!Num(visits[k + 1]) < B!Num(visits[k])
        /\ \A lo, hi \in B!Places : lo <= hi /\ hi - lo + 1 < Width =>
             /\ B!Num(B!Field(word, lo, hi)) = (n \div (2 ^ lo)) % (2 ^ (hi - lo + 1))
             /\ B!Field(B!FieldSet(word, lo, hi, {0}), lo, hi) = {0}
        /\ \A k \in B!Places :
             LET up == B!Num(B!AlignUp(word, {k}))
             IN  /\ B!IsAligned(word, {k}) <=> n % (2 ^ k) = 0
                 /\ B!Num(B!AlignDown(word, {k})) = n - (n % (2 ^ k))
                 /\ n + 2 ^ k <= 2 ^ Width => up % (2 ^ k) = 0 /\ up - n \in 0 .. 2 ^ k - 1
        /\ n <= 4 => B!MissingNumber([k \in 1 .. 4 |-> B!Word(IF k <= n THEN k - 1 ELSE k)]) = word
        /\ B!HasZeroByte(word) <=> \E k \in B!Ones : word \cap (k .. k + Width \div 4 - 1) = {}
        /\ \A y \in Samples :
             LET m == B!Num(y)
                 j == B!Signed(y)
             IN  /\ B!Num(B!Add(word, y)) = (n + m) % (2 ^ Width)
                 /\ B!Fits(-j) => B!Num(B!Sub(word, y)) = (n - m) % (2 ^ Width)
                 /\ (\A k \in {-i, -j, i * j, -(i * j)} : B!Fits(k)) =>
                      B!Signed(B!Mul(word, y)) = i * j
                 /\ m > 0 => B!Num(B!Div(word, y)) = n \div m
                 /\ B!Fits(i - j) => B!BitMin(word, y) = IF i < j THEN word ELSE y
                 /\ B!Fits(j - i) => B!BitMax(word, y) = IF i < j THEN y ELSE word
                 /\ B!SameSign(word, y) <=> (i < 0) = (j < 0)
                 /\ B!XorSwap(word, y) = <<y, word>>
                 /\ B!SingleNumber(<<y, word, y>>) = word
                 /\ B!Xor(word, y) \notin {{}, {Width - 1}} =>
                      {word, y} = ToSet(B!TwoSingles(<<word, {0}, y, {0}>>))
                 /\ \A k \in B!Ones :
                      LET lane == k .. k + Width \div 4 - 1
                      IN  word \cap lane = y \cap lane => lane \subseteq B!ByteEqMask(word, y)
===========================================================================
