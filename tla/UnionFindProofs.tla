--------------------------- MODULE UnionFindProofs ---------------------------
(***************************************************************************)
(* Theorems about UnionFind, for every number of nodes.                    *)
(***************************************************************************)
EXTENDS UnionFind, NaturalOrder, SequenceTheorems, FiniteSetTheorems, TLAPS

LEMMA NodeFacts == N \in Nat /\ N >= 1 /\ 0 \in Node /\ Node \subseteq Nat
BY NAssumption DEF Node

\* How far the call in progress has come.
CallOK ==
  /\ pc = "idle" => roots = <<>>
  /\ pc \in {"up", "down"} => Len(roots) \in {0, 1}
  /\ pc = "combine" => Len(roots) = 2
  /\ pc \notin {"up", "down"} => path = <<>>

Wanted == IF roots = <<>> THEN x ELSE y

\* What a find has established: its pending activations hold inner nodes of
\* one block, of ranks below that of the node reached, and a root that a
\* find of this call has returned is still one.
SearchOK ==
  /\ pc \in {"up", "down"} => block[cur] = block[Wanted]
  /\ pc = "down" => parent[cur] = cur
  /\ \A i \in 1 .. Len(path) :
       /\ parent[path[i]] # path[i]
       /\ block[path[i]] = block[cur]
       /\ rank[path[i]] < rank[cur]
  /\ Len(roots) >= 1 => roots[1] \in Roots /\ block[roots[1]] = block[x]
  /\ Len(roots) = 2 => roots[2] \in Roots /\ block[roots[2]] = block[y]

BlocksPartition ==
  \A z \in Node : z \in block[z] /\ \A w \in block[z] : block[w] = block[z]

Shape == TypeOK /\ CallOK
Forest == RankGrows /\ TreesAreBlocks /\ BlocksPartition

IInv == Shape /\ Forest /\ SearchOK
------------------------------------------------------------------------------
LEMMA InitIInv == Init => IInv
BY NodeFacts
DEF Init, Answer, IInv, Shape, TypeOK, CallOK, Forest, RankGrows, TreesAreBlocks,
    BlocksPartition, SearchOK, Roots

LEMMA Pushed ==
  ASSUME NEW s \in Seq(Node), NEW z \in Node
  PROVE  /\ Append(s, z) \in Seq(Node) /\ Len(Append(s, z)) = Len(s) + 1
         /\ \A i \in 1 .. Len(s) + 1 :
              Append(s, z)[i] = z \/ (i \in 1 .. Len(s) /\ Append(s, z)[i] = s[i])
OBVIOUS

LEMMA Popped ==
  ASSUME NEW s \in Seq(Node), s # <<>>
  PROVE  /\ Len(s) \in 1 .. Len(s) /\ s[Len(s)] \in Node
         /\ SubSeq(s, 1, Len(s) - 1) \in Seq(Node)
         /\ Len(SubSeq(s, 1, Len(s) - 1)) = Len(s) - 1
         /\ \A i \in 1 .. Len(s) - 1 :
              i \in 1 .. Len(s) /\ SubSeq(s, 1, Len(s) - 1)[i] = s[i]
<1>1. Len(s) \in Nat /\ Len(s) >= 1
  BY EmptySeq
<1>2. Len(s) \in 1 .. Len(s) /\ s[Len(s)] \in Node
  BY <1>1
<1>3. \A i \in 1 .. Len(s) - 1 : i \in 1 .. Len(s) /\ s[i] \in Node
  BY <1>1
<1> DEFINE n == Len(s) - 1
           t == SubSeq(s, 1, n)
<1>4. /\ t \in Seq(Node)
      /\ Len(t) = IF 1 <= n THEN n - 1 + 1 ELSE 0
      /\ \A i \in 1 .. n - 1 + 1 : t[i] = s[1 + i - 1]
  BY <1>1, <1>3, SubSeqProperties
<1>5. n \in Nat
  BY <1>1
<1> HIDE DEF t, n
<1>6. Len(t) = n
  <2>1. CASE n >= 1
    BY <1>4, <1>5, <2>1
  <2>2. CASE n = 0
    BY <1>4, <1>5, <2>2
  <2> QED
    BY <1>5, <2>1, <2>2
<1>7. ASSUME NEW i \in 1 .. n PROVE t[i] = s[i]
  <2>1. i \in 1 .. n - 1 + 1 /\ 1 + i - 1 = i
    BY <1>5
  <2>2. t[i] = s[1 + i - 1]
    BY <1>4, <1>5, <2>1
  <2> QED
    BY <2>1, <2>2
<1> QED
  BY <1>2, <1>3, <1>4, <1>6, <1>7 DEF t, n

LEMMA PushedExactly ==
  ASSUME NEW s \in Seq(Node), NEW z \in Node
  PROVE  /\ Append(s, z) \in Seq(Node) /\ Len(Append(s, z)) = Len(s) + 1
         /\ \A i \in 1 .. Len(s) : Append(s, z)[i] = s[i]
         /\ Append(s, z)[Len(s) + 1] = z
OBVIOUS

LEMMA ForestKept ==
  ASSUME Forest, UNCHANGED <<parent, rank, block>>
  PROVE  Forest' /\ Roots' = Roots
BY DEF Forest, RankGrows, TreesAreBlocks, BlocksPartition, Roots

LEMMA CallStep ==
  ASSUME IInv, NEW o \in {"union", "connected"}, NEW a \in Node, NEW b \in Node,
         Call(o, a, b)
  PROVE  IInv'
<1> USE DEF Call, ufVars, callVars, IInv, Shape, TypeOK, CallOK
<1>1. Shape'
  OBVIOUS
<1>2. Forest' /\ Roots' = Roots
  BY ForestKept
<1>3. SearchOK'
  BY DEF SearchOK, Roots, Wanted
<1> QED
  BY <1>1, <1>2, <1>3

LEMMA FindUpStep == ASSUME IInv, FindUp PROVE IInv'
<1> USE DEF FindUp, ufVars, callVars, IInv, Shape, TypeOK, CallOK
<1>1. path' = path \/ path' = Append(path, cur)
  OBVIOUS
<1>2. Shape'
  BY <1>1
<1>3. Forest' /\ Roots' = Roots
  BY ForestKept
<1>4. SearchOK'
  <2>1. /\ block[parent[cur]] = block[cur]
        /\ rank[cur] < rank[parent[cur]]
    BY DEF Forest, RankGrows, TreesAreBlocks
  <2>2. \A i \in 1 .. Len(path') :
          path'[i] = cur \/ (i \in 1 .. Len(path) /\ path'[i] = path[i])
    BY <1>1, Pushed
  <2>3. \A i \in 1 .. Len(path') :
          /\ parent'[path'[i]] # path'[i]
          /\ block'[path'[i]] = block'[cur']
          /\ rank'[path'[i]] < rank'[cur']
    BY <2>1, <2>2, SMTT(30) DEF SearchOK
  <2> QED
    BY <2>1, <2>3 DEF SearchOK, Roots, Wanted
<1> QED
  BY <1>2, <1>3, <1>4

LEMMA FindTopStep == ASSUME IInv, FindTop PROVE IInv'
<1> USE DEF FindTop, ufVars, callVars, IInv, Shape, TypeOK, CallOK
<1>1. Shape'
  OBVIOUS
<1>2. Forest' /\ Roots' = Roots
  BY ForestKept
<1>3. SearchOK'
  BY DEF SearchOK, Roots, Wanted
<1> QED
  BY <1>1, <1>2, <1>3

\* Redirecting an inner node to the root of its block changes no root.
LEMMA FindDownRoots == ASSUME IInv, FindDown PROVE Roots' = Roots
<1>1. path \in Seq(Node) /\ path # <<>>
  BY DEF FindDown, IInv, Shape, TypeOK
<1>2. /\ path[Len(path)] \in Node /\ cur \in Node
      /\ parent[path[Len(path)]] # path[Len(path)]
      /\ parent[cur] = cur
  BY <1>1, Popped DEF FindDown, IInv, Shape, TypeOK, SearchOK
<1> QED
  BY <1>2 DEF FindDown, Roots, IInv, Shape, TypeOK

LEMMA FindDownStep == ASSUME IInv, FindDown PROVE IInv'
<1> DEFINE last == path[Len(path)]
<1>0. path \in Seq(Node) /\ path # <<>>
  BY DEF FindDown, IInv, Shape, TypeOK
<1>1. /\ last \in Node /\ parent[last] # last
      /\ block[last] = block[cur] /\ rank[last] < rank[cur]
  BY <1>0, Popped DEF FindDown, IInv, SearchOK
<1>2. Shape'
  BY <1>0, <1>1, Popped
  DEF FindDown, ufVars, callVars, IInv, Shape, TypeOK, CallOK
<1>3. Roots' = Roots
  BY FindDownRoots
<1>4. Forest'
  <2>1. parent' = [parent EXCEPT ![last] = cur] /\ rank' = rank /\ block' = block
    BY DEF FindDown
  <2>2. RankGrows'
    BY <1>1, <2>1 DEF RankGrows, IInv, Forest, Shape, TypeOK
  <2>3. TreesAreBlocks'
    BY <1>1, <1>3, <2>1 DEF TreesAreBlocks, IInv, Forest, Shape, TypeOK
  <2>4. BlocksPartition'
    BY <2>1 DEF BlocksPartition, IInv, Forest
  <2> QED
    BY <2>2, <2>3, <2>4 DEF Forest
<1>5. SearchOK'
  <2>1. /\ \A i \in 1 .. Len(path') : i \in 1 .. Len(path) /\ path'[i] = path[i]
        /\ \A i \in 1 .. Len(path) : path[i] \in Node
    BY <1>0, Popped DEF FindDown
  <2>2. \A i \in 1 .. Len(path') :
          /\ parent'[path'[i]] # path'[i]
          /\ block'[path'[i]] = block'[cur']
          /\ rank'[path'[i]] < rank'[cur']
    BY <1>1, <2>1, ZenonT(30) DEF FindDown, IInv, Shape, TypeOK, SearchOK
  <2> QED
    BY <1>1, <1>3, <2>2
    DEF FindDown, IInv, Shape, TypeOK, SearchOK, Wanted, callVars
<1> QED
  BY <1>2, <1>4, <1>5 DEF IInv

LEMMA FirstFoundStep == ASSUME IInv, FirstFound PROVE IInv'
<1> USE DEF FirstFound, ufVars, callVars, IInv, Shape, TypeOK, CallOK
<1>1. Shape'
  OBVIOUS
<1>2. Forest' /\ Roots' = Roots
  BY ForestKept
<1>3. SearchOK'
  BY <1>2 DEF SearchOK, Roots, Wanted
<1> QED
  BY <1>1, <1>2, <1>3

LEMMA SecondFoundStep == ASSUME IInv, SecondFound PROVE IInv'
<1>1. /\ Len(roots) = 1 /\ roots \in Seq(Node) /\ cur \in Node /\ path = <<>>
      /\ roots[1] \in Roots /\ block[roots[1]] = block[x]
      /\ cur \in Roots /\ block[cur] = block[y]
  <2>1. Len(roots) = 1 /\ roots \in Seq(Node) /\ cur \in Node /\ path = <<>>
    BY DEF SecondFound, IInv, Shape, TypeOK, CallOK
  <2> QED
    BY <2>1 DEF SecondFound, IInv, SearchOK, Wanted, Roots
<1>2. /\ roots' \in Seq(Node) /\ Len(roots') = 2
      /\ roots'[1] = roots[1] /\ roots'[2] = cur
  <2>1. /\ roots' \in Seq(Node) /\ Len(roots') = Len(roots) + 1
        /\ \A i \in 1 .. Len(roots) : roots'[i] = roots[i]
        /\ roots'[Len(roots) + 1] = cur
    BY <1>1, PushedExactly DEF SecondFound
  <2> QED
    BY <1>1, <2>1
<1>3. Shape'
  BY <1>1, <1>2 DEF SecondFound, IInv, Shape, TypeOK, CallOK, ufVars, callVars
<1>4. Forest' /\ Roots' = Roots
  BY ForestKept DEF SecondFound, ufVars, IInv
<1>5. SearchOK'
  BY <1>1, <1>2, <1>4 DEF SecondFound, SearchOK, ufVars, callVars
<1> QED
  BY <1>3, <1>4, <1>5 DEF IInv

\* Whatever a call returns is an answer.
LEMMA AnswerType ==
  ASSUME TypeOK, NEW v \in BOOLEAN,
         answer' = [op |-> op, x |-> x, y |-> y, value |-> v]
  PROVE  answer' \in Answer
<1>1. op \in {"none", "union", "connected"} /\ x \in Node /\ y \in Node
  BY DEF TypeOK
<1> QED
  BY <1>1 DEF Answer

LEMMA ReturnStep == ASSUME IInv, UnionSame \/ Connected PROVE IInv'
<1>0. answer' \in Answer
  <2>1. TypeOK
    BY DEF IInv, Shape
  <2>2. answer' = [op |-> op, x |-> x, y |-> y, value |-> FALSE]
          \/ answer' = [op |-> op, x |-> x, y |-> y, value |-> roots[1] = roots[2]]
    BY DEF UnionSame, Connected, Return
  <2>3. (roots[1] = roots[2]) \in BOOLEAN
    OBVIOUS
  <2> QED
    BY <2>1, <2>2, <2>3, AnswerType
<1> USE <1>0, NodeFacts
    DEF UnionSame, Connected, Return, ufVars, callVars, IInv, Shape, TypeOK, CallOK
<1>1. Shape'
  OBVIOUS
<1>2. Forest' /\ Roots' = Roots
  BY ForestKept
<1>3. SearchOK'
  BY DEF SearchOK, Roots, Wanted
<1> QED
  BY <1>1, <1>2, <1>3

\* Before a link: its two ends are roots of different blocks, and those are
\* the blocks of the arguments.
LEMMA LinkEnds ==
  ASSUME IInv, UnionLink
  PROVE  /\ Higher \in Roots /\ Lower \in Roots /\ Higher # Lower
         /\ rank[Lower] <= rank[Higher]
         /\ block[Higher] # block[Lower]
         /\ block[Higher] \cup block[Lower] = block[x] \cup block[y]
<1>1. /\ roots[1] \in Roots /\ roots[2] \in Roots /\ roots[1] # roots[2]
      /\ block[roots[1]] = block[x] /\ block[roots[2]] = block[y]
  BY DEF UnionLink, United, IInv, Shape, CallOK, SearchOK
<1>2. rank[roots[1]] \in Nat /\ rank[roots[2]] \in Nat
  BY <1>1 DEF Roots, IInv, Shape, TypeOK
<1> QED
  BY <1>1, <1>2 DEF Higher, Lower, IInv, Forest, TreesAreBlocks

LEMMA LinkStep == ASSUME IInv, UnionLink PROVE IInv'
<1> DEFINE hi == Higher
           lo == Lower
           both == block[x] \cup block[y]
<1>1. /\ hi \in Node /\ lo \in Node /\ hi # lo
      /\ parent[hi] = hi /\ parent[lo] = lo
      /\ rank[lo] <= rank[hi] /\ rank[hi] \in Nat /\ rank[lo] \in Nat
      /\ block[hi] # block[lo] /\ block[hi] \cup block[lo] = both
  BY LinkEnds DEF Roots, IInv, Shape, TypeOK
<1>2. /\ parent' = [parent EXCEPT ![lo] = hi]
      /\ rank' = [rank EXCEPT ![hi] = IF @ = rank[lo] THEN @ + 1 ELSE @]
      /\ num_components' = num_components - 1
      /\ block' = [z \in Node |-> IF z \in both THEN both ELSE block[z]]
      /\ op' = "none" /\ x' = 0 /\ y' = 0 /\ pc' = "idle" /\ cur' = 0
      /\ path' = path /\ roots' = <<>>
      /\ answer' = [op |-> op, x |-> x, y |-> y, value |-> TRUE]
  BY DEF UnionLink, United, Return
<1>3. path = <<>>
  BY DEF UnionLink, United, IInv, Shape, CallOK
<1>4. TypeOK /\ RankGrows /\ TreesAreBlocks /\ BlocksPartition
  BY DEF IInv, Shape, Forest
<1>5. both \subseteq Node
  BY <1>1, <1>4 DEF TypeOK
<1> HIDE DEF hi, lo, both
<1>6. Shape'
  <2>1. answer' \in Answer
    BY <1>2, <1>4, AnswerType
  <2> QED
    BY <1>1, <1>2, <1>3, <1>4, <1>5, <2>1, NodeFacts, SMTT(30) DEF Shape, TypeOK, CallOK
<1>7. RankGrows'
  BY <1>1, <1>2, <1>4 DEF RankGrows, TypeOK
<1>8. /\ hi \in both /\ lo \in both
      /\ \A z \in Node : z \in both <=> block[z] = block[hi] \/ block[z] = block[lo]
  BY <1>1, <1>4 DEF BlocksPartition
<1>9. TreesAreBlocks'
  <2>1. Roots' = Roots \ {lo}
    BY <1>1, <1>2, <1>4 DEF Roots, TypeOK
  <2>2. \A z \in Node : block'[z] = block'[parent'[z]]
    <3> SUFFICES ASSUME NEW z \in Node PROVE block'[z] = block'[parent'[z]]
      OBVIOUS
    <3>1. CASE z = lo
      BY <1>1, <1>2, <1>4, <1>8, <3>1 DEF TypeOK
    <3>2. CASE z # lo
      <4>1. parent'[z] = parent[z] /\ parent[z] \in Node /\ block[parent[z]] = block[z]
        BY <1>2, <1>4, <3>2 DEF TypeOK, TreesAreBlocks
      <4>2. z \in both <=> parent[z] \in both
        BY <1>8, <4>1
      <4> QED
        BY <1>2, <4>1, <4>2
    <3> QED
      BY <3>1, <3>2
  <2>3. ASSUME NEW r \in Roots', NEW s \in Roots', block'[r] = block'[s]
        PROVE  r = s
    <3>1. r \in Roots /\ s \in Roots /\ r # lo /\ s # lo /\ r \in Node /\ s \in Node
      BY <2>1 DEF Roots
    <3>2. \A q \in Roots \ {lo} : q \in both => q = hi
      BY <1>1, <1>4, <1>8 DEF TreesAreBlocks, Roots
    <3>3. CASE r \in both /\ s \in both
      BY <3>1, <3>2, <3>3
    <3>4. CASE r \notin both /\ s \notin both
      BY <1>2, <1>4, <2>3, <3>1, <3>4 DEF TreesAreBlocks
    <3>5. CASE r \in both /\ s \notin both
      <4>1. s \in block[s] /\ block[s] = both
        BY <1>2, <1>4, <2>3, <3>1, <3>5 DEF BlocksPartition
      <4> QED
        BY <3>5, <4>1
    <3>6. CASE r \notin both /\ s \in both
      <4>1. r \in block[r] /\ block[r] = both
        BY <1>2, <1>4, <2>3, <3>1, <3>6 DEF BlocksPartition
      <4> QED
        BY <3>6, <4>1
    <3> QED
      BY <3>3, <3>4, <3>5, <3>6
  <2> QED
    BY <2>2, <2>3 DEF TreesAreBlocks
<1>10. BlocksPartition'
  <2> SUFFICES ASSUME NEW z \in Node
               PROVE z \in block'[z] /\ \A w \in block'[z] : block'[w] = block'[z]
    BY DEF BlocksPartition
  <2>1. CASE z \in both
    BY <1>2, <1>5, <2>1
  <2>2. CASE z \notin both
    <3>1. block'[z] = block[z] /\ z \in block[z] /\ block[z] \subseteq Node
      BY <1>2, <1>4, <2>2 DEF BlocksPartition, TypeOK
    <3>2. ASSUME NEW w \in block[z] PROVE w \notin both /\ block[w] = block[z]
      BY <1>4, <1>8, <2>2, <3>1 DEF BlocksPartition
    <3> QED
      BY <1>2, <3>1, <3>2
  <2> QED
    BY <2>1, <2>2
<1>11. SearchOK'
  BY <1>2, <1>3 DEF SearchOK
<1> QED
  BY <1>6, <1>7, <1>9, <1>10, <1>11 DEF IInv, Forest

LEMMA StutterStep == ASSUME IInv, UNCHANGED vars PROVE IInv'
BY DEF vars, ufVars, callVars, IInv, Shape, TypeOK, CallOK, Forest, RankGrows,
       TreesAreBlocks, BlocksPartition, SearchOK, Roots, Wanted

THEOREM IInvHolds == Spec => []IInv
<1>1. IInv /\ [Next]_vars => IInv'
  BY CallStep, FindUpStep, FindTopStep, FindDownStep, FirstFoundStep,
     SecondFoundStep, ReturnStep,
     LinkStep, StutterStep DEF Next, Find
<1> QED
  BY InitIInv, <1>1, PTL DEF Spec

THEOREM TypeCorrect == Spec => []TypeOK
BY IInvHolds, PTL DEF IInv, Shape

\* The parent pointers never form a cycle.
THEOREM NoCycle == Spec => []RankGrows
BY IInvHolds, PTL DEF IInv, Forest

\* The trees are the blocks of the partition asked for.
THEOREM TreesCorrect == Spec => []TreesAreBlocks
BY IInvHolds, PTL DEF IInv, Forest
------------------------------------------------------------------------------
\* uf_find never has more pending activations than the rank of the node it
\* looks at.
THEOREM PathsShallow == Spec => []PathIsShallow
<1>1. Init => PathIsShallow
  BY NodeFacts DEF Init, PathIsShallow
<1>2. ASSUME IInv, IInv', PathIsShallow, [Next]_vars
      PROVE  PathIsShallow'
  <2> USE <1>2 DEF IInv, Shape, TypeOK, CallOK
  <2>1. /\ path \in Seq(Node) /\ cur \in Node /\ rank \in [Node -> Nat]
        /\ path' \in Seq(Node) /\ cur' \in Node /\ rank' \in [Node -> Nat]
    OBVIOUS
  <2>2. ASSUME path' = <<>> PROVE PathIsShallow'
    BY <2>1, <2>2 DEF PathIsShallow
  <2>3. CASE FindUp
    <3>1. parent[cur] \in Node /\ rank[cur] < rank[parent[cur]]
      BY <2>3 DEF FindUp, Forest, RankGrows
    <3>2. Len(path') <= Len(path) + 1 /\ rank' = rank /\ cur' = parent[cur]
      BY <2>1, <2>3, PushedExactly DEF FindUp, ufVars
    <3> QED
      BY <2>1, <3>1, <3>2 DEF PathIsShallow
  <2>4. CASE FindDown
    <3>1. Len(path') = Len(path) - 1 /\ Len(path) \in Nat
      BY <2>1, <2>4, Popped DEF FindDown
    <3> QED
      BY <2>1, <2>4, <3>1 DEF FindDown, PathIsShallow
  <2>5. CASE FirstFound \/ SecondFound \/ UnionSame \/ UnionLink \/ Connected
             \/ \E o \in {"union", "connected"}, a, b \in Node : Call(o, a, b)
    <3>1. path' = <<>>
      BY <2>5
      DEF FirstFound, SecondFound, UnionSame, UnionLink, United, Connected, Call, Return
    <3> QED
      BY <2>2, <3>1
  <2>6. CASE FindTop \/ UNCHANGED vars
    BY <2>6 DEF FindTop, vars, ufVars, PathIsShallow
  <2> QED
    BY <2>3, <2>4, <2>5, <2>6 DEF Next, Find
<1> QED
  BY <1>1, <1>2, IInvHolds, PTL DEF Spec
------------------------------------------------------------------------------
LEMMA RootsKept ==
  ASSUME IInv, [Next]_vars
  PROVE  \/ UnionLink
         \/ Roots' = Roots /\ num_components' = num_components
<1>1. CASE FindDown
  BY <1>1, FindDownRoots DEF FindDown
<1>2. CASE \/ FindUp \/ FindTop \/ FirstFound \/ SecondFound \/ UnionSame
           \/ Connected \/ UNCHANGED vars
           \/ \E o \in {"union", "connected"}, a, b \in Node : Call(o, a, b)
  BY <1>2
  DEF FindUp, FindTop, FirstFound, SecondFound, UnionSame, Connected, Call,
      vars, ufVars, Roots
<1> QED
  BY <1>1, <1>2 DEF Next, Find

\* num_components, only ever decremented, is the number of trees: no link of
\* two roots is forgotten or counted twice.
THEOREM CountCorrect == Spec => []ComponentsCounted
<1>1. IsFiniteSet(Roots) /\ Cardinality(Node) = N
  <2>1. IsFiniteSet(Node) /\ Cardinality(Node) = N - 1 - 0 + 1
    BY NodeFacts, FS_Interval DEF Node
  <2> QED
    BY <2>1, NodeFacts, FS_Subset DEF Roots
<1>2. Init => ComponentsCounted
  <2> SUFFICES ASSUME Init PROVE ComponentsCounted
    OBVIOUS
  <2>1. Roots = Node
    BY DEF Init, Roots
  <2> QED
    BY <1>1, <2>1 DEF Init, ComponentsCounted
<1>3. ASSUME IInv, ComponentsCounted, [Next]_vars
      PROVE  ComponentsCounted'
  <2>1. CASE Roots' = Roots /\ num_components' = num_components
    BY <1>3, <2>1 DEF ComponentsCounted
  <2>2. CASE UnionLink
    <3>1. /\ Higher \in Roots /\ Lower \in Roots /\ Higher # Lower
          /\ parent' = [parent EXCEPT ![Lower] = Higher]
          /\ num_components' = num_components - 1
      BY <1>3, <2>2, LinkEnds DEF UnionLink, United
    <3>2. Roots' = Roots \ {Lower}
      BY <1>3, <3>1 DEF Roots, IInv, Shape, TypeOK
    <3>3. Cardinality(Roots \ {Lower}) = Cardinality(Roots) - 1
      BY <1>1, <3>1, FS_RemoveElement
    <3> QED
      BY <1>3, <3>1, <3>2, <3>3 DEF ComponentsCounted
  <2> QED
    BY <1>3, <2>1, <2>2, RootsKept
<1> QED
  BY <1>2, <1>3, IInvHolds, PTL DEF Spec
------------------------------------------------------------------------------
\* Powers of two.
LEMMA PowersDouble ==
  Pow2[0] = 1 /\ \A n \in Nat : Pow2[n] \in Nat /\ Pow2[n + 1] = 2 * Pow2[n]
<1> DEFINE D == Nat
           V == Nat
           m == [n \in D |-> n]
           base == [n \in D |-> 1]
           next == [n \in D |-> IF n = 0 THEN 0 ELSE n - 1]
           comb == [p \in D \X V |-> 2 * p[2]]
           Eq(f) == [n \in Nat |-> IF n = 0 THEN 1 ELSE 2 * f[n - 1]]
<1>1. /\ m \in [D -> Nat] /\ base \in [D -> V] /\ next \in [D -> D]
      /\ comb \in [D \X V -> V]
  OBVIOUS
<1>2. \A n \in D : m[n] # 0 => m[next[n]] < m[n]
  OBVIOUS
<1>3. PICK f \in [D -> V] : Solves(f, D, m, base, next, comb)
  <2> HIDE DEF D, V, m, base, next, comb
  <2> QED
    BY <1>1, <1>2, Recursion
<1>4. ASSUME NEW g, NEW n \in Nat, g = Eq(g)
      PROVE  g[n] = IF n = 0 THEN 1 ELSE 2 * g[n - 1]
  BY <1>4
<1>5. f = Eq(f)
  <2>1. ASSUME NEW n \in Nat PROVE f[n] = IF n = 0 THEN 1 ELSE 2 * f[n - 1]
    <3>1. CASE n = 0
      BY <1>3, <3>1 DEF Solves
    <3>2. CASE n # 0
      <4>1. n - 1 \in Nat /\ next[n] = n - 1 /\ f[n - 1] \in Nat
        BY <3>2
      <4>2. f[n] = comb[<<n, f[n - 1]>>]
        BY <1>3, <3>2, <4>1 DEF Solves
      <4> QED
        BY <3>2, <4>1, <4>2
    <3> QED
      BY <3>1, <3>2
  <2>2. f = [n \in Nat |-> f[n]]
    OBVIOUS
  <2> QED
    BY <2>1, <2>2
<1>6. Pow2 = Eq(Pow2)
  BY <1>5 DEF Pow2
<1> DEFINE T == {n \in Nat : Pow2[n] \in Nat}
<1>7. 0 \in T
  BY <1>4, <1>6
<1>8. ASSUME NEW n \in Nat, n \in T PROVE n + 1 \in T
  <2>1. Pow2[n + 1] = 2 * Pow2[n]
    <3>1. n + 1 \in Nat /\ n + 1 # 0 /\ n + 1 - 1 = n
      OBVIOUS
    <3> HIDE DEF Eq, T
    <3> QED
      BY <1>4, <1>6, <3>1
  <2> QED
    BY <1>8, <2>1
<1> HIDE DEF T, Eq
<1>9. Nat \subseteq T
  BY <1>7, <1>8, Induction
<1>10. ASSUME NEW n \in Nat PROVE Pow2[n] \in Nat /\ Pow2[n + 1] = 2 * Pow2[n]
  <2>1. n + 1 \in Nat /\ n + 1 # 0 /\ n + 1 - 1 = n
    OBVIOUS
  <2>2. Pow2[n + 1] = 2 * Pow2[n]
    BY <1>4, <1>6, <2>1
  <2> QED
    BY <1>9, <2>2 DEF T
<1> QED
  BY <1>4, <1>6, <1>10

\* A union by rank at least doubles the tree when it raises the rank.
LEMMA LinkKeepsLogarithm ==
  ASSUME IInv, RankIsLogarithmic, UnionLink
  PROVE  RankIsLogarithmic'
<1> DEFINE hi == Higher
           lo == Lower
           both == block[x] \cup block[y]
<1>1. /\ hi \in Node /\ lo \in Node /\ hi # lo /\ hi \in Roots /\ lo \in Roots
      /\ parent[hi] = hi /\ parent[lo] = lo
      /\ rank[lo] <= rank[hi] /\ rank[hi] \in Nat /\ rank[lo] \in Nat
      /\ block[hi] # block[lo] /\ both = block[hi] \cup block[lo]
  BY LinkEnds DEF Roots, IInv, Shape, TypeOK
<1>2. /\ parent' = [parent EXCEPT ![lo] = hi]
      /\ rank' = [rank EXCEPT ![hi] = IF @ = rank[lo] THEN @ + 1 ELSE @]
      /\ block' = [z \in Node |-> IF z \in both THEN both ELSE block[z]]
  BY DEF UnionLink, United
<1>3. TypeOK /\ TreesAreBlocks /\ BlocksPartition
  BY DEF IInv, Shape, Forest
<1> HIDE DEF hi, lo, both
<1>4. \A z \in Node : /\ IsFiniteSet(block[z]) /\ Cardinality(block[z]) \in Nat
                      /\ block[z] \subseteq Node
  <2>1. IsFiniteSet(Node)
    BY NodeFacts, FS_Interval DEF Node
  <2> QED
    BY <1>3, <2>1, FS_Subset, FS_CardinalityType DEF TypeOK
<1>5. Cardinality(both) = Cardinality(block[hi]) + Cardinality(block[lo])
  <2>1. block[hi] \cap block[lo] = {}
    BY <1>1, <1>3, <1>4 DEF BlocksPartition
  <2>2. Cardinality({}) = 0
    BY FS_EmptySet
  <2>3. Cardinality(both) = Cardinality(block[hi]) + Cardinality(block[lo])
                             - Cardinality(block[hi] \cap block[lo])
    BY <1>1, <1>4, FS_Union
  <2>4. Cardinality(block[hi]) \in Nat /\ Cardinality(block[lo]) \in Nat
    BY <1>1, <1>4
  <2>5. Cardinality(both) = Cardinality(block[hi]) + Cardinality(block[lo]) - 0
    BY <2>1, <2>2, <2>3
  <2> QED
    BY <2>4, <2>5
<1>6. hi \in both /\ \A z \in Node : z \in both => block[z] = block[hi] \/ block[z] = block[lo]
  BY <1>1, <1>3 DEF BlocksPartition
<1>7. Roots' = Roots \ {lo}
  BY <1>1, <1>2, <1>3 DEF Roots, TypeOK
<1>8. ASSUME NEW r \in Roots, r # lo PROVE Pow2[rank'[r]] <= Cardinality(block'[r])
  <2>1. CASE r = hi
    <3>1. block'[hi] = both /\ rank'[hi] = IF rank[hi] = rank[lo] THEN rank[hi] + 1 ELSE rank[hi]
      BY <1>1, <1>2, <1>3, <1>6 DEF TypeOK
    <3>2. Pow2[rank[hi]] <= Cardinality(block[hi]) /\ Pow2[rank[lo]] <= Cardinality(block[lo])
      BY <1>1 DEF RankIsLogarithmic
    <3>3. /\ Pow2[rank[hi]] \in Nat /\ Pow2[rank[lo]] \in Nat
          /\ Pow2[rank[hi] + 1] = 2 * Pow2[rank[hi]]
      BY <1>1, PowersDouble
    <3>4. Cardinality(block[hi]) \in Nat /\ Cardinality(block[lo]) \in Nat
      BY <1>1, <1>4
    <3>5. CASE rank[hi] = rank[lo]
      BY <1>5, <2>1, <3>1, <3>2, <3>3, <3>4, <3>5
    <3>6. CASE rank[hi] # rank[lo]
      BY <1>5, <2>1, <3>1, <3>2, <3>3, <3>4, <3>6
    <3> QED
      BY <3>5, <3>6
  <2>2. CASE r # hi
    <3>1. r \in Node /\ r \notin both
      BY <1>1, <1>3, <1>6, <1>8, <2>2 DEF Roots, TreesAreBlocks
    <3>2. block'[r] = block[r] /\ rank'[r] = rank[r]
      BY <1>1, <1>2, <1>3, <2>2, <3>1 DEF TypeOK
    <3> QED
      BY <3>2 DEF RankIsLogarithmic
  <2> QED
    BY <2>1, <2>2
<1> QED
  BY <1>7, <1>8 DEF RankIsLogarithmic

\* A tree of rank k holds at least 2^k nodes, whatever unions and path
\* compressions built it: with PathsShallow, uf_find recurses at most
\* logarithmically deep.
THEOREM RankLogarithmic == Spec => []RankIsLogarithmic
<1>1. Init => RankIsLogarithmic
  <2> SUFFICES ASSUME Init, NEW r \in Node PROVE Pow2[rank[r]] <= Cardinality(block[r])
    BY DEF Init, RankIsLogarithmic, Roots
  <2>1. rank[r] = 0 /\ block[r] = {r}
    BY DEF Init
  <2>2. Cardinality({r}) = 1 /\ Pow2[0] = 1
    BY FS_Singleton, PowersDouble
  <2> QED
    BY <2>1, <2>2
<1>2. ASSUME IInv, RankIsLogarithmic, [Next]_vars
      PROVE  RankIsLogarithmic'
  <2>1. CASE UnionLink
    BY <1>2, <2>1, LinkKeepsLogarithm
  <2>2. CASE /\ [Next]_vars /\ ~UnionLink
    <3>1. Roots' = Roots
      BY <1>2, <2>2, RootsKept
    <3>2. rank' = rank /\ block' = block
      BY <2>2
      DEF Next, Find, FindUp, FindTop, FindDown, FirstFound, SecondFound, UnionSame,
          Connected, Call, vars, ufVars
    <3> QED
      BY <1>2, <3>1, <3>2 DEF RankIsLogarithmic
  <2> QED
    BY <1>2, <2>1, <2>2
<1> QED
  BY <1>1, <1>2, IInvHolds, PTL DEF Spec
LEMMA PowersOutgrow == \A n \in Nat : n < Pow2[n]
<1> DEFINE T == {n \in Nat : n < Pow2[n]}
<1>1. 0 \in T
  BY PowersDouble
<1>2. ASSUME NEW n \in Nat, n \in T PROVE n + 1 \in T
  <2>1. n + 1 \in Nat /\ Pow2[n + 1] = 2 * Pow2[n] /\ Pow2[n] \in Nat /\ n < Pow2[n]
    BY <1>2, PowersDouble
  <2> QED
    BY <2>1
<1> HIDE DEF T
<1>3. Nat \subseteq T
  BY <1>1, <1>2, Induction
<1> QED
  BY <1>3 DEF T

RanksAreSmall == \A z \in Node : rank[z] < N

\* The stack of uf_find always has room for another activation: no find ever
\* has as many pending as there are nodes, and the bound of the model cuts
\* nothing off.
THEOREM StackSuffices == Spec => [](Len(path) < MaxDepth)
<1>1. Init => RanksAreSmall
  BY NodeFacts DEF Init, RanksAreSmall
<1>2. ASSUME IInv, IInv', RanksAreSmall, RankIsLogarithmic', [Next]_vars
      PROVE  RanksAreSmall'
  <2>1. ASSUME NEW r \in Roots' PROVE rank'[r] < N
    <3>1. r \in Node /\ rank'[r] \in Nat /\ block'[r] \in SUBSET Node
      BY <1>2 DEF Roots, IInv, Shape, TypeOK
    <3>2. IsFiniteSet(Node) /\ Cardinality(Node) = N - 1 - 0 + 1
      BY NodeFacts, FS_Interval DEF Node
    <3>3. /\ IsFiniteSet(block'[r]) /\ Cardinality(block'[r]) <= Cardinality(Node)
          /\ Cardinality(block'[r]) \in Nat
      BY <3>1, <3>2, FS_Subset, FS_CardinalityType
    <3>4. Pow2[rank'[r]] <= Cardinality(block'[r])
      BY <1>2 DEF RankIsLogarithmic
    <3>5. Pow2[rank'[r]] \in Nat /\ rank'[r] < Pow2[rank'[r]]
      BY <3>1, PowersDouble, PowersOutgrow
    <3> QED
      BY <3>1, <3>2, <3>3, <3>4, <3>5, NodeFacts
  <2>2. CASE UnionLink
    <3>1. Higher \in Roots /\ Lower \in Roots /\ Higher # Lower
      BY <1>2, <2>2, LinkEnds
    <3>2. /\ parent' = [parent EXCEPT ![Lower] = Higher]
          /\ rank' = [rank EXCEPT ![Higher] = IF @ = rank[Lower] THEN @ + 1 ELSE @]
      BY <2>2 DEF UnionLink
    <3>3. Higher \in Roots' /\ \A z \in Node : z # Higher => rank'[z] = rank[z]
      BY <1>2, <3>1, <3>2 DEF Roots, IInv, Shape, TypeOK
    <3> QED
      BY <1>2, <2>1, <3>3 DEF RanksAreSmall
  <2>3. CASE [Next]_vars /\ ~UnionLink
    <3>1. rank' = rank
      BY <2>3
      DEF Next, Find, FindUp, FindTop, FindDown, FirstFound, SecondFound, UnionSame,
          Connected, Call, vars, ufVars
    <3> QED
      BY <1>2, <3>1 DEF RanksAreSmall
  <2> QED
    BY <1>2, <2>2, <2>3
<1>3. IInv /\ RanksAreSmall /\ PathIsShallow => Len(path) < MaxDepth
  <2> SUFFICES ASSUME IInv, RanksAreSmall, PathIsShallow PROVE Len(path) < MaxDepth
    OBVIOUS
  <2>1. Len(path) \in Nat /\ cur \in Node /\ rank[cur] \in Nat
    BY DEF IInv, Shape, TypeOK
  <2>2. Len(path) <= rank[cur] /\ rank[cur] < N
    BY <2>1 DEF RanksAreSmall, PathIsShallow
  <2> QED
    BY <2>1, <2>2, NodeFacts DEF MaxDepth
<1> QED
  BY <1>1, <1>2, <1>3, IInvHolds, RankLogarithmic, PathsShallow, PTL DEF Spec
------------------------------------------------------------------------------
\* In the combine state the two roots are one node exactly if the arguments
\* are in one block.
LEMMA RootsTellBlocks ==
  ASSUME IInv, pc = "combine"
  PROVE  /\ x \in Node /\ y \in Node
         /\ (roots[1] = roots[2]) <=> (block[x] = block[y])
<1>1. x \in Node /\ y \in Node /\ Len(roots) = 2
  BY DEF IInv, Shape, TypeOK, CallOK
<1>2. /\ roots[1] \in Roots /\ block[roots[1]] = block[x]
      /\ roots[2] \in Roots /\ block[roots[2]] = block[y]
  BY <1>1 DEF IInv, SearchOK
<1> QED
  BY <1>1, <1>2 DEF IInv, Forest, TreesAreBlocks

\* Every answer of uf_union and uf_connected is the one the abstract
\* partition gives; every other step leaves the partition alone.
THEOREM PartitionRefined == Spec => ImplementsPartition
<1>1. Init => Blocks!Init
  BY DEF Init, Blocks!Init
<1>2. ASSUME IInv, [Next]_vars
      PROVE  [Blocks!Next]_(Blocks!partitionVars)
  <2> USE <1>2 DEF Blocks!partitionVars
  <2>1. CASE UnionSame
    <3>1. x \in Node /\ y \in Node /\ block[x] = block[y]
      BY <2>1, RootsTellBlocks DEF UnionSame
    <3>2. /\ answer' = [op |-> "union", x |-> x, y |-> y, value |-> FALSE]
          /\ block' = block
      BY <2>1 DEF UnionSame, Return
    <3>3. Blocks!Same(x, y) \/ Blocks!Unite(x, y)
      <4>1. \A z \in Node : z \in block[x] \cup block[y] => block[z] = block[x]
        BY <3>1 DEF IInv, Forest, BlocksPartition
      <4>2. block = [z \in Node |-> IF z \in block[x] \cup block[y]
                                    THEN block[x] \cup block[y] ELSE block[z]]
        BY <3>1, <4>1 DEF IInv, Shape, TypeOK
      <4> QED
        BY <3>1, <3>2, <4>2 DEF Blocks!Unite
    <3> QED
      BY <3>1, <3>3 DEF Blocks!Next
  <2>2. CASE UnionLink
    <3>1. x \in Node /\ y \in Node /\ block[x] # block[y]
      BY <2>2, RootsTellBlocks DEF UnionLink, United
    <3>2. Blocks!Unite(x, y)
      BY <2>2, <3>1 DEF UnionLink, United, Return, Blocks!Unite
    <3> QED
      BY <3>1, <3>2 DEF Blocks!Next
  <2>3. CASE Connected
    <3>1. /\ x \in Node /\ y \in Node
          /\ (roots[1] = roots[2]) <=> (block[x] = block[y])
      BY <2>3, RootsTellBlocks DEF Connected
    <3>2. Blocks!Same(x, y)
      BY <2>3, <3>1 DEF Connected, Return, Blocks!Same
    <3> QED
      BY <3>1, <3>2 DEF Blocks!Next
  <2>4. CASE \/ FindUp \/ FindTop \/ FindDown \/ FirstFound \/ SecondFound
             \/ UNCHANGED vars
             \/ \E o \in {"union", "connected"}, a, b \in Node : Call(o, a, b)
    BY <2>4
    DEF FindUp, FindTop, FindDown, FirstFound, SecondFound, Call, vars
  <2> QED
    BY <2>1, <2>2, <2>3, <2>4 DEF Next, Find
<1> QED
  BY <1>1, <1>2, IInvHolds, PTL DEF Spec, ImplementsPartition, Blocks!Spec
==============================================================================
