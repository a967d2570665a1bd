------------------------------ MODULE UnionFind ------------------------------
(***************************************************************************)
(* src/graph/union_find.c: a forest of parent pointers with union by rank  *)
(* and path compression.                                                   *)
(*                                                                         *)
(* uf_find is recursive.  Its activation records are the variable path:    *)
(* FindUp is a recursive call, FindTop the base case, and FindDown the     *)
(* return of one activation, which is when the pointer it holds is         *)
(* redirected.  uf_union and uf_connected run two finds and then combine   *)
(* the two roots.  (uf_connected leaves the order of its finds to the      *)
(* compiler: the calls with the arguments exchanged are the other order.)  *)
(*                                                                         *)
(* block is a history variable: the partition the unions have asked for.   *)
(*                                                                         *)
(* A find with MaxDepth pending activations has met a node twice and will  *)
(* never return; path keeps no more of them, so that a find that is caught *)
(* in a cycle goes round finitely many states.                             *)
(***************************************************************************)
EXTENDS Integers, FiniteSets, Sequences

CONSTANT N   \* the number of nodes uf_create was given

ASSUME NAssumption == N \in Nat \ {0}

VARIABLES
  parent,          \* uf->parent
  rank,            \* uf->rank
  num_components,  \* uf->num_components
  op,              \* the call in progress: union, connected; none between calls
  x, y,            \* its arguments
  pc,              \* where it is: idle, up, down, combine
  cur,             \* the node uf_find looks at; the root it returns once found
  path,            \* the nodes of uf_find's pending activations, outermost first
  roots,           \* the results of the finds that have returned
  answer,          \* history: the last call, its arguments and what it returned
  block            \* history: block[z], the nodes united with z

ufVars == <<parent, rank, num_components>>
callVars == <<op, x, y>>
vars == <<ufVars, callVars, pc, cur, path, roots, answer, block>>

Node == 0 .. N - 1

MaxDepth == N       \* bound on path

Init ==
  /\ parent = [z \in Node |-> z]
  /\ rank = [z \in Node |-> 0]
  /\ num_components = N
  /\ op = "none" /\ x = 0 /\ y = 0
  /\ pc = "idle" /\ cur = 0 /\ path = <<>> /\ roots = <<>>
  /\ answer = [op |-> op, x |-> x, y |-> y, value |-> FALSE]
  /\ block = [z \in Node |-> {z}]
------------------------------------------------------------------------------
\* uf_find.

FindUp ==
  /\ pc = "up"
  /\ parent[cur] # cur
  /\ path' = IF Len(path) < MaxDepth THEN Append(path, cur) ELSE path
  /\ cur' = parent[cur]
  /\ UNCHANGED <<ufVars, callVars, pc, roots, answer, block>>

FindTop ==
  /\ pc = "up"
  /\ parent[cur] = cur
  /\ pc' = "down"
  /\ UNCHANGED <<ufVars, callVars, cur, path, roots, answer, block>>

\* Mutant: the assignment is the wrong way round, and links the root below the
\* node, which is below the root.
FindDownReversed ==
  /\ pc = "down"
  /\ path # <<>>
  /\ parent' = [parent EXCEPT ![cur] = path[Len(path)]]
  /\ path' = SubSeq(path, 1, Len(path) - 1)
  /\ UNCHANGED <<rank, num_components, callVars, pc, cur, roots, answer, block>>

FindDown ==
  /\ pc = "down"
  /\ path # <<>>
  /\ parent' = [parent EXCEPT ![path[Len(path)]] = cur]
  /\ path' = SubSeq(path, 1, Len(path) - 1)
  /\ UNCHANGED <<rank, num_components, callVars, pc, cur, roots, answer, block>>

FirstFound ==
  /\ pc = "down" /\ path = <<>> /\ roots = <<>>
  /\ roots' = <<cur>>
  /\ cur' = y
  /\ pc' = "up"
  /\ UNCHANGED <<ufVars, callVars, path, answer, block>>

SecondFound ==
  /\ pc = "down" /\ path = <<>> /\ roots # <<>>
  /\ roots' = Append(roots, cur)
  /\ pc' = "combine"
  /\ UNCHANGED <<ufVars, callVars, cur, path, answer, block>>
------------------------------------------------------------------------------
Call(o, a, b) ==
  /\ pc = "idle"
  /\ op' = o /\ x' = a /\ y' = b
  /\ cur' = a
  /\ pc' = "up"
  /\ UNCHANGED <<ufVars, path, roots, answer, block>>

\* The call returns; its locals are gone.
Return(value) ==
  /\ answer' = [op |-> op, x |-> x, y |-> y, value |-> value]
  /\ op' = "none" /\ x' = 0 /\ y' = 0
  /\ pc' = "idle" /\ cur' = 0 /\ roots' = <<>>
  /\ UNCHANGED path

Higher == IF rank[roots[1]] < rank[roots[2]] THEN roots[2] ELSE roots[1]
Lower  == IF rank[roots[1]] < rank[roots[2]] THEN roots[1] ELSE roots[2]

\* Mutant: a union counts down although the nodes are united already.
UnionSameCounts ==
  /\ pc = "combine" /\ op = "union"
  /\ roots[1] = roots[2]
  /\ num_components' = num_components - 1
  /\ Return(FALSE)
  /\ UNCHANGED <<parent, rank, block>>

\* uf_union of two nodes with one root.
UnionSame ==
  /\ pc = "combine" /\ op = "union"
  /\ roots[1] = roots[2]
  /\ Return(FALSE)
  /\ UNCHANGED <<ufVars, block>>

\* What all forms of a union of two trees do.
United ==
  /\ num_components' = num_components - 1
  /\ block' = [z \in Node |-> IF z \in block[x] \cup block[y]
                              THEN block[x] \cup block[y] ELSE block[z]]
  /\ Return(TRUE)

\* Mutants: the argument is attached, not its root; the rank is never raised;
\* the rank is always raised.
UnionLinkArgument ==
  /\ pc = "combine" /\ op = "union" /\ roots[1] # roots[2]
  /\ parent' = [parent EXCEPT ![y] = roots[1]]
  /\ UNCHANGED rank
  /\ United

UnionLinkUnranked ==
  /\ pc = "combine" /\ op = "union" /\ roots[1] # roots[2]
  /\ parent' = [parent EXCEPT ![Lower] = Higher]
  /\ UNCHANGED rank
  /\ United

UnionLinkOverranked ==
  /\ pc = "combine" /\ op = "union" /\ roots[1] # roots[2]
  /\ parent' = [parent EXCEPT ![Lower] = Higher]
  /\ rank' = [rank EXCEPT ![Higher] = @ + 1]
  /\ United

\* uf_union of two trees: the root of lower rank, the second on a tie, is
\* attached to the other.
UnionLink ==
  /\ pc = "combine" /\ op = "union"
  /\ roots[1] # roots[2]
  /\ parent' = [parent EXCEPT ![Lower] = Higher]
  /\ rank' = [rank EXCEPT ![Higher] = IF @ = rank[Lower] THEN @ + 1 ELSE @]
  /\ United

\* Mutant: the second argument is compared without a find.
ConnectedUnfound ==
  /\ pc = "combine" /\ op = "connected"
  /\ Return(roots[1] = y)
  /\ UNCHANGED <<ufVars, block>>

Connected ==
  /\ pc = "combine" /\ op = "connected"
  /\ Return(roots[1] = roots[2])
  /\ UNCHANGED <<ufVars, block>>

Find == FindUp \/ FindTop \/ FindDown \/ FirstFound \/ SecondFound

Next ==
  \/ \E o \in {"union", "connected"}, a, b \in Node : Call(o, a, b)
  \/ Find
  \/ UnionSame
  \/ UnionLink
  \/ Connected

Spec == Init /\ [][Next]_vars

\* A call that has begun runs on; nobody is obliged to make one.
FairSpec == Spec /\ WF_vars(Find \/ UnionSame \/ UnionLink \/ Connected)
------------------------------------------------------------------------------
Roots == {z \in Node : parent[z] = z}

Answer == [op : {"none", "union", "connected"}, x : Node, y : Node, value : BOOLEAN]

TypeOK ==
  /\ parent \in [Node -> Node]
  /\ rank \in [Node -> Nat]
  /\ num_components \in Int
  /\ op \in {"none", "union", "connected"}
  /\ x \in Node /\ y \in Node
  /\ pc \in {"idle", "up", "down", "combine"}
  /\ cur \in Node
  /\ path \in Seq(Node)
  /\ roots \in Seq(Node)
  /\ answer \in Answer
  /\ block \in [Node -> SUBSET Node]

\* Ranks grow strictly on the way up, also half-way through a path
\* compression, so the parent pointers have no cycle and every find ends.
RankGrows == \A z \in Node : parent[z] # z => rank[z] < rank[parent[z]]

\* The trees are exactly the blocks the unions asked for: a node and its
\* parent are in one block, and no block has two roots.
TreesAreBlocks ==
  /\ \A z \in Node : block[z] = block[parent[z]]
  /\ \A r, s \in Roots : block[r] = block[s] => r = s

\* The counter, kept by subtraction, is the number of trees.
ComponentsCounted == num_components = Cardinality(Roots)

\* The recursion of uf_find is no deeper than the rank of the node reached.
PathIsShallow == Len(path) <= rank[cur]

Pow2[n \in Nat] == IF n = 0 THEN 1 ELSE 2 * Pow2[n - 1]

\* A tree of rank k has at least 2^k nodes.  With PathIsShallow: for n nodes
\* the stack of uf_find never holds more than log2(n) activations.
RankIsLogarithmic == \A r \in Roots : Pow2[rank[r]] <= Cardinality(block[r])

Blocks == INSTANCE Partition

\* uf_union and uf_connected answer for the partition that all earlier unions
\* ask for, and no path compression changes it.
ImplementsPartition == Blocks!Spec

\* Every call returns.
CallsReturn == (pc = "up") ~> (pc = "idle")
==============================================================================
