---------------------------- MODULE ShortestPaths ----------------------------
(***************************************************************************)
(* The shortest paths of src/graph/graph.c: Dijkstra's algorithm, with its *)
(* heap, and the one of Bellman and Ford.                                  *)
(***************************************************************************)
EXTENDS GraphAlgorithms, BinaryHeap

VertexSeq == [i \in 1 .. N |-> i - 1]

Infinity == 2147483647  \* INT_MAX, the distance of a vertex not reached

Start(src) == [v \in Vertex |-> IF v = src THEN 0 ELSE Infinity]

Improves(dist, u, e) == dist[u] # Infinity /\ dist[u] + e.weight < dist[e.to]

\* The edges of u relaxed, u being the last vertex visited.
Settled(s, u) ==
  FoldLeft(LAMBDA r, e :
             IF e.to \in r.visited \/ ~Improves(r.dist, u, e) THEN r
             ELSE [r EXCEPT !.dist[e.to] = r.dist[u] + e.weight,
                            !.heap = Push(@, r.dist[u] + e.weight, e.to)],
           [s EXCEPT !.visited = @ \cup {u}], adj[u])

\* The loop of graph_dijkstra, from its heap, distances and visited vertices on.
RECURSIVE DijkstraFrom(_)
DijkstraFrom(s) ==
  IF s.heap = <<>> THEN s.dist
  ELSE LET u == Head(s.heap).val
           rest == [s EXCEPT !.heap = Popped(@)]
       IN  DijkstraFrom(IF u \in s.visited THEN rest ELSE Settled(rest, u))

Dijkstra(src) ==
  DijkstraFrom([heap |-> Push(<<>>, 0, src), dist |-> Start(src), visited |-> {}])

\* One pass of graph_bellman_ford over all edges.
Pass(dist) ==
  FoldLeft(LAMBDA d, u :
             FoldLeft(LAMBDA r, e : IF Improves(r, u, e)
                                    THEN [r EXCEPT ![e.to] = r[u] + e.weight] ELSE r,
                      d, adj[u]),
           dist, VertexSeq)

\* Mutant: one pass too few.
BellmanFordShort(src) ==
  LET dist == FoldLeft(LAMBDA d, i : Pass(d), Start(src), [i \in 1 .. N - 2 |-> i])
  IN  [dist |-> dist,
       negative |-> \E u \in Vertex : \E i \in DOMAIN adj[u] : Improves(dist, u, adj[u][i])]

BellmanFord(src) ==
  LET dist == FoldLeft(LAMBDA d, i : Pass(d), Start(src), [i \in 1 .. N - 1 |-> i])
  IN  [dist |-> dist,
       negative |-> \E u \in Vertex : \E i \in DOMAIN adj[u] : Improves(dist, u, adj[u][i])]
------------------------------------------------------------------------------
Cost(u, v) == Least({e.weight : e \in {f \in ToSet(adj[u]) : f.to = v}})

PathCost(p) ==
  LET upTo[i \in DOMAIN p] ==
        IF i = 1 THEN 0 ELSE upTo[i - 1] + Cost(p[i - 1], p[i])
  IN  upTo[Len(p)]

\* Dijkstra's algorithm, without negative weights, and Bellman-Ford, without a
\* negative cycle in reach, compute the costs of the cheapest paths; a
\* negative cycle in reach is always reported, and nothing else is.
ShortestPathsFound ==
  LET ps == Paths
      nonNegative == \A u \in Vertex : \A i \in DOMAIN adj[u] : adj[u][i].weight >= 0
      onNegativeCycle ==
        {Head(p) : p \in {q \in ps : Arc(Last(q), Head(q))
                                       /\ PathCost(q) + Cost(Last(q), Head(q)) < 0}}
  IN  \A src \in Vertex :
        LET priced == {<<Last(p), PathCost(p)>> : p \in From(ps, src)}
            Shortest(v) == LET prices == {q[2] : q \in {r \in priced : r[1] = v}}
                           IN  IF prices = {} THEN Infinity ELSE Least(prices)
            negative == onNegativeCycle \cap Ends(From(ps, src)) # {}
            bf == BellmanFord(src)
            dijkstra == Dijkstra(src)
        IN  /\ nonNegative => \A v \in Vertex : dijkstra[v] = Shortest(v)
            /\ ~negative => \A v \in Vertex : bf.dist[v] = Shortest(v)
            /\ bf.negative <=> negative
==============================================================================
