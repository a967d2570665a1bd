--------------------------- MODULE GraphAlgorithms ---------------------------
(***************************************************************************)
(* src/graph/graph.c and src/graph/dag.c.  The state is a graph that grows *)
(* edge by edge; the algorithms, which only read it, are operators that    *)
(* return what the functions return (ShortestPaths has two more).  Nested  *)
(* loops are one recursion on the places they have reached.  dag_add_edge  *)
(* makes the same calls a DAG, whose lists are in the opposite order.      *)
(***************************************************************************)
EXTENDS Integers, FiniteSets, Sequences, SequencesExt

CONSTANTS
  N,        \* g->n
  Weights,  \* the weights of edges
  MaxEdges  \* bound: the edges added

ASSUME NAssumption == N \in Nat \ {0}
ASSUME WeightsAssumption == Weights \subseteq Int

VARIABLES
  directed,  \* g->directed
  adj,       \* adj[u]: the list g->adj[u], of records [to, weight]
  added      \* the number of edges added

vars == <<directed, adj, added>>

Vertex == 0 .. N - 1
Place == Nat \ {0}

Init ==
  /\ directed \in BOOLEAN
  /\ adj = [u \in Vertex |-> <<>>]
  /\ added = 0

\* graph_add_edge, which prepends; an undirected edge is two arcs.
Prepended(a, u, v, w) == [a EXCEPT ![u] = <<[to |-> v, weight |-> w]>> \o @]

AddEdge(u, v, w) ==
  /\ added < MaxEdges
  /\ added' = added + 1
  /\ LET arc == Prepended(adj, u, v, w)
     IN  adj' = IF directed THEN arc ELSE Prepended(arc, v, u, w)
  /\ UNCHANGED directed

Next == \E u, v \in Vertex, w \in Weights : AddEdge(u, v, w)

Spec == Init /\ [][Next]_vars
------------------------------------------------------------------------------
\* Traversals.

\* Mutant: a vertex counts as visited only once it left the queue.
BfsMarksLate(src) ==
  LET bfs[x \in Seq(Vertex) \X Place \X Place] ==
        LET q == x[1]
            i == x[2]
            u == adj[q[i]][x[3]].to
        IN  IF i > Len(q) THEN q
            ELSE IF x[3] > Len(adj[q[i]]) THEN bfs[<<q, i + 1, 1>>]
            ELSE bfs[<<IF u \in ToSet(SubSeq(q, 1, i)) THEN q ELSE Append(q, u), i, x[3] + 1>>]
  IN  bfs[<< <<src>>, 1, 1 >>]

\* graph_bfs: the queue q, whose vertex at place i is being expanded, and the
\* place j in the list of that vertex.
Bfs(src) ==
  LET bfs[x \in Seq(Vertex) \X Place \X Place] ==
        LET q == x[1]
            i == x[2]
            j == x[3]
            u == adj[q[i]][j].to
        IN  IF i > Len(q) THEN q
            ELSE IF j > Len(adj[q[i]]) THEN bfs[<<q, i + 1, 1>>]
            ELSE bfs[<<IF Contains(q, u) THEN q ELSE Append(q, u), i, j + 1>>]
  IN  bfs[<< <<src>>, 1, 1 >>]

\* dfs_r: the vertices visited, in order, the vertex w that is searched and the
\* place j in its list.
DfsFrom(visited, v) ==
  LET dfs[x \in Seq(Vertex) \X Vertex \X Place] ==
        LET s == x[1]
            w == x[2]
            j == x[3]
            u == adj[w][j].to
        IN  IF j > Len(adj[w]) THEN s
            ELSE dfs[<<IF Contains(s, u) THEN s ELSE dfs[<<Append(s, u), u, 1>>], w, j + 1>>]
  IN  dfs[<<Append(visited, v), v, 1>>]

Dfs(src) == DfsFrom(<<>>, src)

Unnumbered == [visited |-> <<>>, count |-> 0, comp |-> [v \in Vertex |-> -1]]

\* Mutant: the vertex a component is entered by gets no number.
ComponentsSkipRoot ==
  LET upTo[k \in 0 .. N] ==
        IF k = 0 THEN Unnumbered
        ELSE LET s == upTo[k - 1]
                 visited == DfsFrom(s.visited, k - 1)
                 new == {visited[i] : i \in Len(s.visited) + 2 .. Len(visited)}
             IN  IF Contains(s.visited, k - 1) THEN s
                 ELSE [visited |-> visited, count |-> s.count + 1,
                       comp |-> [u \in Vertex |-> IF u \in new THEN s.count ELSE s.comp[u]]]
  IN  upTo[N]

\* graph_connected_components: the number of components and each vertex's own.
Components ==
  LET upTo[k \in 0 .. N] ==
        IF k = 0 THEN Unnumbered
        ELSE LET s == upTo[k - 1]
                 visited == DfsFrom(s.visited, k - 1)
                 new == {visited[i] : i \in Len(s.visited) + 1 .. Len(visited)}
             IN  IF Contains(s.visited, k - 1) THEN s
                 ELSE [visited |-> visited, count |-> s.count + 1,
                       comp |-> [u \in Vertex |-> IF u \in new THEN s.count ELSE s.comp[u]]]
  IN  upTo[N]
------------------------------------------------------------------------------
\* Orders and cycles.

\* The heads of the arcs out of u, as graph.c and as dag.c list them.
Heads == [u \in Vertex |-> [i \in DOMAIN adj[u] |-> adj[u][i].to]]
DagHeads == [u \in Vertex |-> Reverse(Heads[u])]


\* The arcs of out: a vertex and a place in its list.
ArcsOf(out) == UNION {{u} \X DOMAIN out[u] : u \in Vertex}
InDegree(out) == [v \in Vertex |-> Cardinality({a \in ArcsOf(out) : out[a[1]][a[2]] = v})]

Sources(indeg) ==
  LET upTo[k \in 0 .. N] ==
        IF k = 0 THEN <<>>
        ELSE IF indeg[k - 1] = 0 THEN Append(upTo[k - 1], k - 1) ELSE upTo[k - 1]
  IN  upTo[N]

\* Kahn's algorithm in graph_topological_sort and dag_topo_kahn: the in-degrees d
\* and the queue q.  The graph is a DAG if the order has all vertices.
Kahn(out) ==
  LET kahn[x \in [Vertex -> Int] \X Seq(Vertex) \X Place \X Place] ==
        LET d == x[1]
            q == x[2]
            i == x[3]
            j == x[4]
            v == out[q[i]][j]
        IN  IF i > Len(q) THEN q
            ELSE IF j > Len(out[q[i]]) THEN kahn[<<d, q, i + 1, 1>>]
            ELSE kahn[<<[d EXCEPT ![v] = @ - 1], IF d[v] = 1 THEN Append(q, v) ELSE q, i, j + 1>>]
  IN  kahn[<<InDegree(out), Sources(InDegree(out)), 1, 1>>]

\* The two Boolean arrays of graph_has_cycle, and has_cycle_dfs's answer.
Marks == [vis : SUBSET Vertex, rec : SUBSET Vertex, found : BOOLEAN]
Enter(r, u) == [vis |-> r.vis \cup {u}, rec |-> r.rec \cup {u}, found |-> FALSE]

\* Mutant: a vertex stays on the recursion stack.
CycleFromKeeps(s, v) ==
  LET search[x \in Marks \X Vertex \X Place] ==
        LET r == x[1]
            w == x[2]
            j == x[3]
            u == adj[w][j].to
            t == IF u \in r.vis THEN r ELSE search[<<Enter(r, u), u, 1>>]
        IN  IF j > Len(adj[w]) THEN r
            ELSE IF t.found \/ u \in t.rec THEN [t EXCEPT !.found = TRUE]
            ELSE search[<<t, w, j + 1>>]
  IN  search[<<Enter(s, v), v, 1>>]

\* has_cycle_dfs.
CycleFrom(s, v) ==
  LET search[x \in Marks \X Vertex \X Place] ==
        LET r == x[1]
            w == x[2]
            j == x[3]
            u == adj[w][j].to
            t == IF u \in r.vis THEN r ELSE search[<<Enter(r, u), u, 1>>]
        IN  IF j > Len(adj[w]) THEN [r EXCEPT !.rec = @ \ {w}]
            ELSE IF t.found \/ u \in t.rec THEN [t EXCEPT !.found = TRUE]
            ELSE search[<<t, w, j + 1>>]
  IN  search[<<Enter(s, v), v, 1>>]

\* graph_has_cycle.
HasCycle ==
  LET upTo[k \in 0 .. N] ==
        IF k = 0 THEN [vis |-> {}, rec |-> {}, found |-> FALSE]
        ELSE LET s == upTo[k - 1]
             IN  IF s.found \/ k - 1 \in s.vis THEN s ELSE CycleFrom(s, k - 1)
  IN  upTo[N].found

\* dfs_topo_r, with the stack top at the front.
TopoFrom(s, v) ==
  LET Visit(r, u) == [vis |-> r.vis \cup {u}, stack |-> r.stack]
      topo[x \in [vis : SUBSET Vertex, stack : Seq(Vertex)] \X Vertex \X Place] ==
        LET r == x[1]
            w == x[2]
            j == x[3]
            u == DagHeads[w][j]
        IN  IF j > Len(DagHeads[w]) THEN [r EXCEPT !.stack = <<w>> \o @]
            ELSE topo[<<IF u \in r.vis THEN r ELSE topo[<<Visit(r, u), u, 1>>], w, j + 1>>]
  IN  topo[<<Visit(s, v), v, 1>>]

\* dag_topo_dfs.
TopoDfs ==
  LET upTo[k \in 0 .. N] ==
        IF k = 0 THEN [vis |-> {}, stack |-> <<>>]
        ELSE LET s == upTo[k - 1]
             IN  IF k - 1 \in s.vis THEN s ELSE TopoFrom(s, k - 1)
  IN  upTo[N].stack

\* dag_critical_path: every edge counts one.
CriticalPath ==
  LET order == Kahn(DagHeads)
      path[x \in [Vertex -> Nat] \X Place \X Place] ==
        LET d == x[1]
            i == x[2]
            j == x[3]
            v == order[i]
            u == DagHeads[v][j]
        IN  IF i > Len(order) THEN d
            ELSE IF j > Len(DagHeads[v]) THEN path[<<d, i + 1, 1>>]
            ELSE path[<<IF d[v] + 1 > d[u] THEN [d EXCEPT ![u] = d[v] + 1] ELSE d, i, j + 1>>]
  IN  path[<<[v \in Vertex |-> 0], 1, 1>>]
------------------------------------------------------------------------------
\* What the answers should be, by the paths of the graph.

Arc(u, v) == \E i \in DOMAIN adj[u] : adj[u][i].to = v
Least(S) == CHOOSE x \in S : \A y \in S : x <= y
Greatest(S) == CHOOSE x \in S : \A y \in S : y <= x

Routes == {p \in BoundedSeq(Vertex, N) : p # <<>> /\ IsInjective(p)}

\* The simple paths of the graph.
Paths ==
  LET arcs == {a \in Vertex \X Vertex : Arc(a[1], a[2])}
  IN  {p \in Routes : \A i \in 1 .. Len(p) - 1 : <<p[i], p[i + 1]>> \in arcs}
From(ps, u) == {p \in ps : Head(p) = u}
Ends(ps) == {Last(p) : p \in ps}

\* Both traversals visit exactly the vertices reachable from src, once each,
\* and breadth-first search in the order of their distances.
TraversalsReachAll ==
  LET ps == Paths
  IN  \A src \in Vertex :
        LET b == Bfs(src)
            hops == {<<Last(p), Len(p)>> : p \in From(ps, src)}
            Nearest(v) == Least({h[2] : h \in {g \in hops : g[1] = v}})
        IN  /\ \A s \in {b, Dfs(src)} :
                 ToSet(s) = Ends(From(ps, src)) /\ IsInjective(s) /\ Head(s) = src
            /\ \A i \in 1 .. Len(b) - 1 : Nearest(b[i]) <= Nearest(b[i + 1])

\* All three topological sorts order the vertices of an acyclic graph along
\* its arcs, the two cycle checks agree with the paths, and the critical path
\* has the most edges.
OrdersFollowArcs ==
  directed =>
    LET ps == Paths
        acyclic == ~ \E p \in ps : Arc(Last(p), Head(p))
        Follows(s) ==
          /\ ToSet(s) = Vertex /\ IsInjective(s)
          /\ \A i, j \in DOMAIN s : Arc(s[i], s[j]) => i < j
    IN  /\ \A out \in {Heads, DagHeads} : Len(Kahn(out)) = N <=> acyclic
        /\ HasCycle <=> ~acyclic
        /\ acyclic =>
             /\ \A s \in {Kahn(Heads), Kahn(DagHeads), TopoDfs} : Follows(s)
             /\ CriticalPath = [v \in Vertex |->
                  Greatest({Len(p) - 1 : p \in {q \in ps : Last(q) = v}})]

\* In an undirected graph two vertices have one component number exactly if a
\* path joins them, and the numbers are 0 up to the count.
ComponentsArePaths ==
  ~directed =>
    LET ps == Paths
        c == Components
    IN  /\ \A u \in Vertex : {v \in Vertex : c.comp[v] = c.comp[u]} = Ends(From(ps, u))
        /\ {c.comp[v] : v \in Vertex} = 0 .. c.count - 1
==============================================================================
