----------------------------- MODULE GraphProofs ------------------------------
(***************************************************************************)
(* The answers of the graph algorithms, for every number of vertices, all  *)
(* weights and any graph that additions of edges lead to.                  *)
(***************************************************************************)
EXTENDS GraphAlgorithms, NaturalOrder, FiniteSetTheorems

Edge == [to : Vertex, weight : Weights]
Adjacency == [Vertex -> Seq(Edge)]

ArcIn(a, u, v) == \E i \in DOMAIN a[u] : a[u][i].to = v

\* The graph is well typed, its lists are as long as its edges allow, and an
\* undirected graph has every arc in both directions.
GraphInv ==
  /\ directed \in BOOLEAN
  /\ added \in Nat
  /\ adj \in Adjacency
  /\ \A u \in Vertex : Len(adj[u]) <= 2 * added
  /\ ~directed => \A u, v \in Vertex : Arc(u, v) => Arc(v, u)

LEMMA PrependedFacts ==
  ASSUME NEW a \in Adjacency, NEW u \in Vertex, NEW v \in Vertex, NEW w \in Weights
  PROVE  /\ Prepended(a, u, v, w) \in Adjacency
         /\ \A x \in Vertex : Len(Prepended(a, u, v, w)[x]) = IF x = u THEN Len(a[x]) + 1 ELSE Len(a[x])
         /\ \A x, y \in Vertex : ArcIn(Prepended(a, u, v, w), x, y) <=> (x = u /\ y = v) \/ ArcIn(a, x, y)
<1> DEFINE e == [to |-> v, weight |-> w]
           s == <<e>> \o a[u]
<1>1. e \in Edge /\ e.to = v
  BY DEF Edge
<1>2. a[u] \in Seq(Edge)
  BY DEF Adjacency
<1> HIDE DEF e
<1>3. /\ s \in Seq(Edge) /\ Len(s) = Len(a[u]) + 1 /\ s[1] = e
      /\ \A i \in 1 .. Len(a[u]) : s[i + 1] = a[u][i]
      /\ \A i \in DOMAIN s : i = 1 \/ (i - 1 \in DOMAIN a[u] /\ s[i] = a[u][i - 1])
  BY <1>1, <1>2
<1>4. Prepended(a, u, v, w) = [a EXCEPT ![u] = s]
  BY DEF Prepended, e
<1>5. DOMAIN s = 1 .. Len(a[u]) + 1 /\ DOMAIN a[u] = 1 .. Len(a[u]) /\ Len(a[u]) \in Nat
  BY <1>2, <1>3
<1>6. \A y : (\E i \in DOMAIN s : s[i].to = y) <=> y = v \/ \E i \in DOMAIN a[u] : a[u][i].to = y
  <2> TAKE y
  <2>1. ASSUME NEW i \in DOMAIN s, s[i].to = y
        PROVE  y = v \/ \E k \in DOMAIN a[u] : a[u][k].to = y
    BY <1>1, <1>3, <2>1
  <2>2. ASSUME y = v PROVE \E i \in DOMAIN s : s[i].to = y
    <3>1. 1 \in DOMAIN s /\ s[1].to = y
      BY <1>1, <1>3, <1>5, <2>2
    <3> QED
      BY <3>1
  <2>3. ASSUME NEW i \in DOMAIN a[u], a[u][i].to = y PROVE \E k \in DOMAIN s : s[k].to = y
    <3>1. i + 1 \in DOMAIN s /\ s[i + 1].to = y
      BY <1>3, <1>5, <2>3
    <3> QED
      BY <3>1
  <2> QED
    BY <2>1, <2>2, <2>3
<1> HIDE DEF s
<1>7. Prepended(a, u, v, w) \in Adjacency
  BY <1>3, <1>4 DEF Adjacency
<1>8. \A x \in Vertex : Prepended(a, u, v, w)[x] = IF x = u THEN s ELSE a[x]
  BY <1>4 DEF Adjacency
<1> DEFINE p == Prepended(a, u, v, w)
<1>9. \A x \in Vertex : Len(p[x]) = IF x = u THEN Len(a[x]) + 1 ELSE Len(a[x])
  <2> HIDE DEF p
  <2> QED
    BY <1>3, <1>8 DEF p
<1>10. ASSUME NEW x \in Vertex, NEW y \in Vertex
       PROVE  ArcIn(p, x, y) <=> (x = u /\ y = v) \/ ArcIn(a, x, y)
  <2>1. CASE x = u
    <3>1. p[x] = s
      BY <1>8, <2>1
    <3> HIDE DEF p
    <3> QED
      BY <1>6, <2>1, <3>1 DEF ArcIn
  <2>2. CASE x # u
    <3>1. p[x] = a[x]
      BY <1>8, <2>2
    <3> HIDE DEF p
    <3> QED
      BY <2>2, <3>1 DEF ArcIn
  <2> QED
    BY <2>1, <2>2
<1> QED
  BY <1>7, <1>9, <1>10

LEMMA ArcIsArcIn == \A u, v : Arc(u, v) <=> ArcIn(adj, u, v)
BY DEF Arc, ArcIn

LEMMA InitGraphInv == Init => GraphInv
<1> SUFFICES ASSUME Init PROVE GraphInv
  OBVIOUS
<1>1. \A u \in Vertex : adj[u] = <<>> /\ Len(adj[u]) = 0 /\ DOMAIN adj[u] = {}
  BY DEF Init
<1>2. adj \in Adjacency
  BY DEF Init, Adjacency
<1> QED
  BY <1>1, <1>2 DEF Init, GraphInv, Arc

LEMMA AddEdgeInv ==
  ASSUME GraphInv, NEW u \in Vertex, NEW v \in Vertex, NEW w \in Weights, AddEdge(u, v, w)
  PROVE  GraphInv'
<1> DEFINE a == Prepended(adj, u, v, w)
           b == Prepended(a, v, u, w)
<1>1. a \in Adjacency
  BY PrependedFacts DEF GraphInv
<1>2. \A x \in Vertex : Len(a[x]) <= Len(adj[x]) + 1 /\ Len(adj[x]) \in Nat /\ Len(a[x]) \in Nat
  <2>1. \A x \in Vertex : Len(a[x]) = IF x = u THEN Len(adj[x]) + 1 ELSE Len(adj[x])
    BY PrependedFacts DEF GraphInv
  <2>2. \A x \in Vertex : a[x] \in Seq(Edge) /\ adj[x] \in Seq(Edge)
    BY <1>1 DEF GraphInv, Adjacency
  <2>3. \A x \in Vertex : Len(adj[x]) \in Nat /\ Len(a[x]) \in Nat
    BY <2>2
  <2> HIDE DEF a
  <2> QED
    BY <2>1, <2>3
<1>3. \A x, y \in Vertex : ArcIn(a, x, y) <=> (x = u /\ y = v) \/ ArcIn(adj, x, y)
  BY PrependedFacts DEF GraphInv
<1> HIDE DEF a
<1>4. b \in Adjacency
  BY <1>1, PrependedFacts
<1>5. \A x \in Vertex : Len(b[x]) <= Len(a[x]) + 1 /\ Len(b[x]) \in Nat
  <2>1. \A x \in Vertex : Len(b[x]) = IF x = v THEN Len(a[x]) + 1 ELSE Len(a[x])
    BY <1>1, PrependedFacts
  <2>2. \A x \in Vertex : b[x] \in Seq(Edge)
    BY <1>4 DEF Adjacency
  <2> HIDE DEF b
  <2>3. \A x \in Vertex : Len(b[x]) \in Nat
    BY <2>2
  <2> QED
    BY <1>2, <2>1, <2>3
<1>6. \A x, y \in Vertex : ArcIn(b, x, y) <=> (x = v /\ y = u) \/ ArcIn(a, x, y)
  BY <1>1, PrependedFacts
<1>7. adj' = IF directed THEN a ELSE b
  BY DEF AddEdge, a
<1> HIDE DEF b
<1>8. added' = added + 1 /\ directed' = directed /\ added \in Nat
  BY DEF AddEdge, GraphInv
<1>9. \A x \in Vertex : Len(adj'[x]) <= 2 * added'
  <2> TAKE x \in Vertex
  <2>1. Len(adj[x]) <= 2 * added
    BY DEF GraphInv
  <2>2. Len(adj'[x]) <= Len(adj[x]) + 2 /\ Len(adj'[x]) \in Nat /\ Len(adj[x]) \in Nat
    BY <1>2, <1>5, <1>7
  <2> QED
    BY <1>8, <2>1, <2>2
<1>10. ASSUME ~directed', NEW x \in Vertex, NEW y \in Vertex, ArcIn(adj', x, y)
       PROVE  ArcIn(adj', y, x)
  <2>1. adj' = b /\ ~directed
    BY <1>7, <1>8, <1>10
  <2>2. ArcIn(adj, x, y) => ArcIn(adj, y, x)
    BY <2>1, ArcIsArcIn DEF GraphInv
  <2> QED
    BY <1>3, <1>6, <1>10, <2>1, <2>2
<1>11. adj' \in Adjacency
  BY <1>1, <1>4, <1>7
<1>12. \A x, y : Arc(x, y)' <=> ArcIn(adj', x, y)
  BY DEF Arc, ArcIn
<1>13. added' \in Nat /\ directed' \in BOOLEAN
  BY <1>8 DEF GraphInv
<1>14. ASSUME ~directed' PROVE \A x, y \in Vertex : Arc(x, y)' => Arc(y, x)'
  <2> TAKE x, y \in Vertex
  <2> QED
    BY <1>10, <1>12, <1>14
<1> QED
  BY <1>9, <1>11, <1>13, <1>14 DEF GraphInv, Vertex, Adjacency, Edge

LEMMA NextGraphInv == GraphInv /\ [Next]_vars => GraphInv'
<1> SUFFICES ASSUME GraphInv, [Next]_vars PROVE GraphInv'
  OBVIOUS
<1>1. CASE Next
  BY <1>1, AddEdgeInv DEF Next
<1>2. CASE UNCHANGED vars
  BY <1>2 DEF vars, GraphInv, Arc, Vertex, Adjacency, Edge
<1> QED
  BY <1>1, <1>2

\* Every graph of graph_add_edge is well typed, and symmetric if undirected.
THEOREM GraphInvHolds == Spec => []GraphInv
BY InitGraphInv, NextGraphInv, PTL DEF Spec
------------------------------------------------------------------------------
\* Paths, and the vertices they reach.

LEMMA VertexFacts == IsFiniteSet(Vertex) /\ Cardinality(Vertex) = N /\ N \in Nat
BY NAssumption, FS_Interval DEF Vertex

IsPath(p) ==
  /\ p \in Seq(Vertex) /\ Len(p) \in Nat \ {0}
  /\ \A i, k \in 1 .. Len(p) : p[i] = p[k] => i = k
  /\ \A i \in 1 .. Len(p) - 1 : Arc(p[i], p[i + 1])

LEMMA InjectiveIsShort ==
  ASSUME NEW p \in Seq(Vertex), \A i, k \in 1 .. Len(p) : p[i] = p[k] => i = k
  PROVE  Len(p) <= N
<1>1. p \in [1 .. Len(p) -> Vertex] /\ Len(p) \in Nat
  OBVIOUS
<1>2. p \in Injection(1 .. Len(p), Vertex)
  BY <1>1 DEF Injection, IsInjective
<1>3. Cardinality(1 .. Len(p)) <= Cardinality(Vertex)
  BY <1>2, VertexFacts, FS_Injection
<1> QED
  BY <1>1, <1>3, VertexFacts, FS_Interval

LEMMA PathsAre == \A p : p \in Paths <=> IsPath(p)
<1> TAKE p
<1> DEFINE arcs == {a \in Vertex \X Vertex : Arc(a[1], a[2])}
<1>1. p \in Paths <=>
        /\ p \in BoundedSeq(Vertex, N) /\ p # <<>> /\ IsInjective(p)
        /\ \A i \in 1 .. Len(p) - 1 : <<p[i], p[i + 1]>> \in arcs
  BY DEF Paths, Routes
<1>2. p \in BoundedSeq(Vertex, N) <=> p \in Seq(Vertex) /\ Len(p) <= N
  <2>1. ASSUME p \in BoundedSeq(Vertex, N) PROVE p \in Seq(Vertex) /\ Len(p) <= N
    <3>1. PICK n \in 0 .. N : p \in [1 .. n -> Vertex]
      BY <2>1 DEF BoundedSeq, SeqOf
    <3> QED
      BY <3>1, VertexFacts
  <2>2. ASSUME p \in Seq(Vertex), Len(p) <= N PROVE p \in BoundedSeq(Vertex, N)
    <3>1. p \in [1 .. Len(p) -> Vertex] /\ Len(p) \in 0 .. N
      BY <2>2, VertexFacts
    <3> QED
      BY <3>1 DEF BoundedSeq, SeqOf
  <2> QED
    BY <2>1, <2>2
<1>3. ASSUME p \in Seq(Vertex)
      PROVE  /\ p # <<>> <=> Len(p) \in Nat \ {0}
             /\ IsInjective(p) <=> \A i, k \in 1 .. Len(p) : p[i] = p[k] => i = k
             /\ \A i \in 1 .. Len(p) - 1 : <<p[i], p[i + 1]>> \in arcs <=> Arc(p[i], p[i + 1])
  <2>1. DOMAIN p = 1 .. Len(p) /\ Len(p) \in Nat
    BY <1>3
  <2>2. \A i \in 1 .. Len(p) - 1 : p[i] \in Vertex /\ p[i + 1] \in Vertex
    BY <1>3
  <2> QED
    BY <1>3, <2>1, <2>2 DEF IsInjective
<1> HIDE DEF arcs
<1>4. IsPath(p) => Len(p) <= N
  BY InjectiveIsShort DEF IsPath
<1> QED
  BY <1>1, <1>2, <1>3, <1>4 DEF IsPath

Joins(p, u, v) == IsPath(p) /\ p[1] = u /\ p[Len(p)] = v
Reach(u) == {v \in Vertex : \E p : Joins(p, u, v)}

LEMMA EndsAreReach ==
  ASSUME NEW u \in Vertex
  PROVE  Ends(From(Paths, u)) = Reach(u)
<1>1. \A p : IsPath(p) => Head(p) = p[1] /\ Last(p) = p[Len(p)] /\ p[1] \in Vertex /\ p[Len(p)] \in Vertex
  BY DEF IsPath, Last
<1> QED
  BY <1>1, PathsAre DEF Ends, From, Reach, Joins

LEMMA PartOfPath ==
  ASSUME NEW p, IsPath(p), NEW a \in 1 .. Len(p), NEW b \in a .. Len(p)
  PROVE  /\ IsPath(SubSeq(p, a, b)) /\ Len(SubSeq(p, a, b)) = b - a + 1
         /\ Joins(SubSeq(p, a, b), p[a], p[b])
         /\ \A i \in 1 .. b - a + 1 : SubSeq(p, a, b)[i] = p[a + i - 1]
<1> DEFINE q == SubSeq(p, a, b)
           n == b - a + 1
<1>1. p \in Seq(Vertex) /\ Len(p) \in Nat /\ a \in Nat /\ b \in Nat /\ n \in Nat \ {0}
  BY DEF IsPath
<1>2. q \in Seq(Vertex) /\ Len(q) = n /\ \A i \in 1 .. n : q[i] = p[a + i - 1]
  BY <1>1
<1> HIDE DEF q
<1>3. ASSUME NEW i \in 1 .. n, NEW k \in 1 .. n, q[i] = q[k] PROVE i = k
  <2>1. a + i - 1 \in 1 .. Len(p) /\ a + k - 1 \in 1 .. Len(p)
    BY <1>1
  <2>2. p[a + i - 1] = p[a + k - 1]
    BY <1>2, <1>3
  <2>3. a + i - 1 = a + k - 1
    <3> HIDE DEF n
    <3> QED
      BY <2>1, <2>2 DEF IsPath
  <2> QED
    BY <1>1, <2>3
<1>4. ASSUME NEW i \in 1 .. n - 1 PROVE Arc(q[i], q[i + 1])
  <2>1. a + i - 1 \in 1 .. Len(p) - 1 /\ (a + i - 1) + 1 = a + (i + 1) - 1 /\ i \in 1 .. n /\ i + 1 \in 1 .. n
    BY <1>1
  <2>2. Arc(p[a + i - 1], p[(a + i - 1) + 1])
    BY <2>1 DEF IsPath
  <2> QED
    BY <1>2, <2>1, <2>2
<1>5. IsPath(q)
  BY <1>1, <1>2, <1>3, <1>4 DEF IsPath
<1>6. q[1] = p[a] /\ q[n] = p[b]
  <2>1. 1 \in 1 .. n /\ n \in 1 .. n /\ a + 1 - 1 = a /\ a + n - 1 = b
    BY <1>1
  <2> QED
    BY <1>2, <2>1
<1> QED
  BY <1>2, <1>5, <1>6 DEF Joins, q

LEMMA LongerPath ==
  ASSUME NEW p, IsPath(p), NEW w \in Vertex, Arc(p[Len(p)], w), \A i \in 1 .. Len(p) : p[i] # w
  PROVE  Joins(Append(p, w), p[1], w) /\ Len(Append(p, w)) = Len(p) + 1
<1> DEFINE q == Append(p, w)
           n == Len(p)
<1>1. p \in Seq(Vertex) /\ n \in Nat \ {0}
  BY DEF IsPath
<1>2. q \in Seq(Vertex) /\ Len(q) = n + 1 /\ q[n + 1] = w /\ \A i \in 1 .. n : q[i] = p[i]
  BY <1>1
<1> HIDE DEF q
<1>3. ASSUME NEW i \in 1 .. n + 1, NEW k \in 1 .. n + 1, q[i] = q[k] PROVE i = k
  <2>1. (i = n + 1 \/ i \in 1 .. n) /\ (k = n + 1 \/ k \in 1 .. n)
    BY <1>1
  <2> QED
    BY <1>2, <1>3, <2>1 DEF IsPath
<1>4. ASSUME NEW i \in 1 .. (n + 1) - 1 PROVE Arc(q[i], q[i + 1])
  <2>1. CASE i = n
    BY <1>1, <1>2, <2>1
  <2>2. CASE i # n
    <3>1. i \in 1 .. n - 1 /\ i \in 1 .. n /\ i + 1 \in 1 .. n
      BY <1>1, <2>2
    <3> QED
      BY <1>2, <3>1 DEF IsPath
  <2> QED
    BY <2>1, <2>2
<1>5. IsPath(q)
  BY <1>1, <1>2, <1>3, <1>4 DEF IsPath
<1> QED
  BY <1>1, <1>2, <1>5 DEF Joins, q

LEMMA EarlierPath ==
  ASSUME NEW p, IsPath(p), NEW w \in Vertex, Arc(w, p[1]), \A i \in 1 .. Len(p) : p[i] # w
  PROVE  Joins(<<w>> \o p, w, p[Len(p)]) /\ Len(<<w>> \o p) = Len(p) + 1
         /\ \A i \in 1 .. Len(p) + 1 : (<<w>> \o p)[i] = IF i = 1 THEN w ELSE p[i - 1]
<1> DEFINE q == <<w>> \o p
           n == Len(p)
<1>1. p \in Seq(Vertex) /\ n \in Nat \ {0}
  BY DEF IsPath
<1>2. q \in Seq(Vertex) /\ Len(q) = n + 1 /\ \A i \in 1 .. n + 1 : q[i] = IF i = 1 THEN w ELSE p[i - 1]
  BY <1>1
<1> HIDE DEF q
<1>3. ASSUME NEW i \in 1 .. n + 1, NEW k \in 1 .. n + 1, q[i] = q[k] PROVE i = k
  <2>1. (i = 1 \/ i - 1 \in 1 .. n) /\ (k = 1 \/ k - 1 \in 1 .. n) /\ (i - 1 = k - 1 => i = k)
    BY <1>1
  <2>2. (i = 1 => q[i] = w) /\ (i # 1 => q[i] = p[i - 1]) /\ (k = 1 => q[k] = w) /\ (k # 1 => q[k] = p[k - 1])
    BY <1>2
  <2> QED
    BY <1>3, <2>1, <2>2 DEF IsPath
<1>4. ASSUME NEW i \in 1 .. (n + 1) - 1 PROVE Arc(q[i], q[i + 1])
  <2>1. i \in 1 .. n + 1 /\ i + 1 \in 1 .. n + 1 /\ i + 1 # 1 /\ (i + 1) - 1 = i
    BY <1>1
  <2>2. q[i + 1] = p[i]
    BY <1>2, <2>1
  <2>3. CASE i = 1
    BY <1>2, <2>1, <2>2, <2>3
  <2>4. CASE i # 1
    <3>1. i - 1 \in 1 .. n - 1 /\ (i - 1) + 1 = i
      BY <1>1, <2>4
    <3>2. Arc(p[i - 1], p[i])
      BY <3>1 DEF IsPath
    <3> QED
      BY <1>2, <2>1, <2>2, <2>4, <3>2
  <2> QED
    BY <2>3, <2>4
<1>5. IsPath(q)
  BY <1>1, <1>2, <1>3, <1>4 DEF IsPath
<1>6. 1 \in 1 .. n + 1 /\ n + 1 \in 1 .. n + 1 /\ n + 1 # 1 /\ (n + 1) - 1 = n
  BY <1>1
<1>7. q[1] = w /\ q[Len(q)] = p[n]
  BY <1>2, <1>6
<1> QED
  BY <1>2, <1>5, <1>7 DEF Joins, q

LEMMA TrivialPath == ASSUME NEW u \in Vertex PROVE Joins(<<u>>, u, u) /\ Len(<<u>>) = 1
BY DEF Joins, IsPath

LEMMA ReachStart == ASSUME NEW u \in Vertex PROVE u \in Reach(u)
BY TrivialPath DEF Reach

\* A path goes on along an arc, or comes back to a vertex it has passed.
LEMMA PathGoesOn ==
  ASSUME NEW u, NEW v, NEW p, Joins(p, u, v), NEW w \in Vertex, Arc(v, w)
  PROVE  \E q : Joins(q, u, w) /\ Len(q) <= Len(p) + 1
<1>1. IsPath(p) /\ p[1] = u /\ p[Len(p)] = v /\ Len(p) \in Nat \ {0}
  BY DEF Joins, IsPath
<1>2. CASE \E k \in 1 .. Len(p) : p[k] = w
  <2>1. PICK k \in 1 .. Len(p) : p[k] = w
    BY <1>2
  <2> DEFINE q == SubSeq(p, 1, k)
  <2>2. 1 \in 1 .. Len(p) /\ k \in 1 .. Len(p)
    BY <1>1
  <2>3. Joins(q, p[1], p[k]) /\ Len(q) = k - 1 + 1
    BY <1>1, <2>2, PartOfPath
  <2>4. Len(q) <= Len(p) + 1
    BY <1>1, <2>3
  <2> QED
    BY <1>1, <2>1, <2>3, <2>4
<1>3. CASE \A k \in 1 .. Len(p) : p[k] # w
  <2>1. Joins(Append(p, w), p[1], w) /\ Len(Append(p, w)) = Len(p) + 1
    BY <1>1, <1>3, LongerPath
  <2> DEFINE q == Append(p, w)
  <2>2. Joins(q, u, w) /\ Len(q) <= Len(p) + 1
    BY <1>1, <2>1
  <2> HIDE DEF q
  <2> QED
    BY <2>2
<1> QED
  BY <1>2, <1>3

LEMMA ReachStep ==
  ASSUME NEW u, NEW v \in Reach(u), NEW w \in Vertex, Arc(v, w)
  PROVE  w \in Reach(u)
BY PathGoesOn DEF Reach

Closed(S) == \A x \in S, y \in Vertex : Arc(x, y) => y \in S

LEMMA ReachLeast ==
  ASSUME NEW u, NEW S, Closed(S), u \in S
  PROVE  Reach(u) \subseteq S
<1> SUFFICES ASSUME NEW v, NEW p, Joins(p, u, v) PROVE v \in S
  BY DEF Reach
<1>1. /\ p \in Seq(Vertex) /\ Len(p) \in Nat \ {0} /\ p[1] = u /\ p[Len(p)] = v
      /\ \A i \in 1 .. Len(p) - 1 : Arc(p[i], p[i + 1])
  BY DEF Joins, IsPath
<1> DEFINE T == {k \in Nat : k + 1 <= Len(p) => p[k + 1] \in S}
<1>2. 0 \in T
  BY <1>1
<1>3. ASSUME NEW k \in Nat, k \in T PROVE k + 1 \in T
  <2> SUFFICES ASSUME (k + 1) + 1 <= Len(p) PROVE p[(k + 1) + 1] \in S
    OBVIOUS
  <2>1. k + 1 \in 1 .. Len(p) - 1 /\ k + 1 <= Len(p) /\ (k + 1) + 1 \in 1 .. Len(p)
    BY <1>1
  <2>2. p[k + 1] \in S /\ Arc(p[k + 1], p[(k + 1) + 1]) /\ p[(k + 1) + 1] \in Vertex
    BY <1>1, <1>3, <2>1
  <2> QED
    BY <2>2 DEF Closed
<1> HIDE DEF T
<1>4. Nat \subseteq T
  BY <1>2, <1>3, Induction
<1>5. Len(p) - 1 \in Nat /\ (Len(p) - 1) + 1 = Len(p)
  BY <1>1
<1> DEFINE n == Len(p) - 1
<1>6. n \in T /\ n + 1 <= Len(p)
  BY <1>1, <1>4, <1>5
<1>7. p[n + 1] \in S
  BY <1>6 DEF T
<1> QED
  BY <1>1, <1>5, <1>7

LEMMA ReachClosed == ASSUME NEW u PROVE Closed(Reach(u)) /\ Reach(u) \subseteq Vertex
BY ReachStep DEF Closed, Reach

LEMMA ReachOn ==
  ASSUME NEW u, NEW v \in Reach(u)
  PROVE  Reach(v) \subseteq Reach(u)
BY ReachClosed, ReachLeast

\* What is reached first goes over an arc.
LEMMA ReachFirstArc ==
  ASSUME NEW u \in Vertex, NEW v \in Reach(u), v # u
  PROVE  \E w \in Vertex : Arc(u, w) /\ v \in Reach(w)
<1> DEFINE S == {u} \cup {x \in Vertex : \E w \in Vertex : Arc(u, w) /\ x \in Reach(w)}
<1>1. Closed(S)
  <2> SUFFICES ASSUME NEW x \in S, NEW y \in Vertex, Arc(x, y) PROVE y \in S
    BY DEF Closed
  <2>1. CASE x = u
    BY <2>1, ReachStart
  <2>2. CASE x # u
    BY <2>2, ReachStep
  <2> QED
    BY <2>1, <2>2
<1> HIDE DEF S
<1>2. v \in S
  <2>1. u \in S
    BY DEF S
  <2> QED
    BY <1>1, <2>1, ReachLeast
<1> QED
  BY <1>2 DEF S
------------------------------------------------------------------------------
\* What the searches have in common: a sequence of visited vertices that
\* grows, and a measure of the work that is left.

Distinct(s) == \A i, k \in 1 .. Len(s) : s[i] = s[k] => i = k
Extends(r, s) == Len(s) <= Len(r) /\ \A i \in 1 .. Len(s) : r[i] = s[i]

LEMMA Members ==
  ASSUME NEW s \in Seq(Vertex)
  PROVE  /\ Len(s) \in Nat /\ \A i \in 1 .. Len(s) : s[i] \in Vertex /\ s[i] \in ToSet(s)
         /\ ToSet(s) \subseteq Vertex
         /\ \A u : Contains(s, u) <=> u \in ToSet(s)
         /\ \A u \in ToSet(s) : \E i \in 1 .. Len(s) : s[i] = u
<1>1. Len(s) \in Nat /\ DOMAIN s = 1 .. Len(s) /\ \A i \in 1 .. Len(s) : s[i] \in Vertex
  OBVIOUS
<1> QED
  BY <1>1 DEF ToSet, Contains

LEMMA ExtendsGrows ==
  ASSUME NEW s \in Seq(Vertex), NEW r \in Seq(Vertex), Extends(r, s)
  PROVE  ToSet(s) \subseteq ToSet(r)
<1> SUFFICES ASSUME NEW i \in 1 .. Len(s) PROVE s[i] \in ToSet(r)
  BY Members
<1>1. i \in 1 .. Len(r) /\ r[i] = s[i]
  BY Members DEF Extends
<1> QED
  BY <1>1, Members

LEMMA ExtendsChain ==
  ASSUME NEW s \in Seq(Vertex), NEW t \in Seq(Vertex), NEW r \in Seq(Vertex), Extends(t, s), Extends(r, t)
  PROVE  Extends(r, s)
<1>1. Len(s) \in Nat /\ Len(t) \in Nat /\ Len(r) \in Nat /\ Len(s) <= Len(t) /\ Len(t) <= Len(r)
  BY Members DEF Extends
<1> QED
  BY <1>1 DEF Extends

LEMMA Appended ==
  ASSUME NEW s \in Seq(Vertex), NEW u \in Vertex
  PROVE  /\ Append(s, u) \in Seq(Vertex) /\ Len(Append(s, u)) = Len(s) + 1
         /\ Append(s, u)[Len(s) + 1] = u /\ \A i \in 1 .. Len(s) : Append(s, u)[i] = s[i]
         /\ Extends(Append(s, u), s)
         /\ ToSet(Append(s, u)) = ToSet(s) \cup {u}
         /\ Distinct(s) /\ u \notin ToSet(s) => Distinct(Append(s, u))
<1> DEFINE t == Append(s, u)
           n == Len(s)
<1>1. n \in Nat /\ t \in Seq(Vertex) /\ Len(t) = n + 1 /\ t[n + 1] = u /\ \A i \in 1 .. n : t[i] = s[i]
  OBVIOUS
<1> HIDE DEF t
<1>2. \A i \in 1 .. n + 1 : i = n + 1 \/ i \in 1 .. n
  BY <1>1
<1>3. n + 1 \in 1 .. Len(t) /\ \A i \in 1 .. n : i \in 1 .. Len(t)
  BY <1>1
<1>4. ToSet(t) = ToSet(s) \cup {u}
  <2>1. ASSUME NEW x \in ToSet(t) PROVE x \in ToSet(s) \cup {u}
    <3>1. PICK i \in 1 .. Len(t) : t[i] = x
      BY <1>1, Members
    <3> QED
      BY <1>1, <1>2, <3>1, Members
  <2>2. ASSUME NEW x \in ToSet(s) PROVE x \in ToSet(t)
    <3>1. PICK i \in 1 .. n : s[i] = x
      BY Members
    <3>2. i \in 1 .. Len(t) /\ t[i] = x
      BY <1>1, <1>3, <3>1
    <3> QED
      BY <1>1, <3>2, Members
  <2>3. u \in ToSet(t)
    BY <1>1, <1>3, Members
  <2> QED
    BY <2>1, <2>2, <2>3
<1>5. ASSUME Distinct(s), u \notin ToSet(s), NEW i \in 1 .. n + 1, NEW k \in 1 .. n + 1, t[i] = t[k]
      PROVE  i = k
  <2>1. \A l \in 1 .. n : s[l] # u
    BY <1>5, Members
  <2> QED
    BY <1>1, <1>2, <1>5, <2>1 DEF Distinct
<1>6. Extends(t, s)
  BY <1>1 DEF Extends
<1>7. Distinct(s) /\ u \notin ToSet(s) => Distinct(t)
  <2> SUFFICES ASSUME Distinct(s), u \notin ToSet(s), NEW i \in 1 .. Len(t), NEW k \in 1 .. Len(t), t[i] = t[k]
               PROVE  i = k
    BY DEF Distinct
  <2>1. i \in 1 .. n + 1 /\ k \in 1 .. n + 1
    BY <1>1
  <2> QED
    BY <1>5, <2>1
<1> QED
  BY <1>1, <1>4, <1>6, <1>7 DEF t

Missing(S) == Cardinality(Vertex \ S)

LEMMA MissingFacts ==
  ASSUME NEW S \in SUBSET Vertex
  PROVE  /\ Missing(S) \in Nat
         /\ \A R \in SUBSET Vertex : S \subseteq R => Missing(R) <= Missing(S)
         /\ \A R \in SUBSET Vertex : S \subseteq R /\ S # R => Missing(R) < Missing(S)
         /\ \A u \in Vertex \ S : Missing(S \cup {u}) = Missing(S) - 1
<1>1. IsFiniteSet(Vertex \ S) /\ Missing(S) \in Nat
  BY VertexFacts, FS_Difference, FS_CardinalityType DEF Missing
<1>2. ASSUME NEW R \in SUBSET Vertex, S \subseteq R PROVE Missing(R) <= Missing(S) /\ Missing(R) \in Nat
  <2>1. Vertex \ R \in SUBSET (Vertex \ S)
    BY <1>2
  <2> QED
    BY <1>1, <2>1, FS_Subset, FS_CardinalityType DEF Missing
<1>3. ASSUME NEW u \in Vertex \ S PROVE Missing(S \cup {u}) = Missing(S) - 1
  <2>1. Vertex \ (S \cup {u}) = (Vertex \ S) \ {u}
    OBVIOUS
  <2> QED
    BY SMTT(20), <1>1, <2>1, FS_RemoveElement DEF Missing
<1>4. ASSUME NEW R \in SUBSET Vertex, S \subseteq R, S # R PROVE Missing(R) < Missing(S)
  <2>1. PICK u \in R : u \notin S
    BY <1>4
  <2>2. S \cup {u} \in SUBSET Vertex /\ S \cup {u} \subseteq R
    BY <1>4, <2>1
  <2>3. Vertex \ R \in SUBSET (Vertex \ (S \cup {u})) /\ IsFiniteSet(Vertex \ (S \cup {u}))
    BY <2>2, VertexFacts, FS_Difference
  <2>4. Missing(R) <= Missing(S \cup {u})
    BY <2>3, FS_Subset DEF Missing
  <2> QED
    BY <1>1, <1>2, <1>3, <1>4, <2>1, <2>4
<1> QED
  BY <1>1, <1>2, <1>3, <1>4

\* A search goes on from x to y if it has visited more, or stands at a later
\* place of the same list: that cannot go on forever.
GoesOn(S, W, J, x, y) ==
  /\ S[x] \subseteq S[y]
  /\ S[x] # S[y] \/ (W[x] = W[y] /\ J[x] <= Len(adj[W[x]]) /\ J[x] < J[y])

Measures(m, D, S, W, J) == \A x, y \in D : GoesOn(S, W, J, x, y) => m[y] < m[x]

LEMMA SearchMeasure ==
  ASSUME GraphInv, NEW D, NEW S \in [D -> SUBSET Vertex], NEW W \in [D -> Vertex], NEW J \in [D -> Place]
  PROVE  \E m \in [D -> Nat] : Measures(m, D, S, W, J)
<1> DEFINE a == [x \in D |-> Missing(S[x])]
           B == 2 * added
           Left(x) == IF J[x] <= Len(adj[W[x]]) THEN Len(adj[W[x]]) + 1 - J[x] ELSE 0
           b == [x \in D |-> Left(x)]
<1>1. a \in [D -> Nat]
  <2>1. \A x \in D : S[x] \in SUBSET Vertex
    OBVIOUS
  <2>2. \A x \in D : Missing(S[x]) \in Nat
    BY <2>1, MissingFacts
  <2> QED
    BY <2>2
<1>2. ASSUME NEW x \in D
      PROVE  /\ J[x] \in Nat \ {0} /\ Len(adj[W[x]]) \in Nat /\ Len(adj[W[x]]) <= B /\ B \in Nat
             /\ Left(x) \in 0 .. B
  <2>1. J[x] \in Nat \ {0} /\ W[x] \in Vertex
    BY DEF Place
  <2>2. adj[W[x]] \in Seq(Edge) /\ Len(adj[W[x]]) <= B /\ added \in Nat
    BY <2>1 DEF GraphInv, Adjacency
  <2>3. Len(adj[W[x]]) \in Nat /\ B \in Nat
    BY <2>2
  <2>4. Left(x) \in 0 .. B
    <3> DEFINE n == Len(adj[W[x]])
               k == J[x]
    <3>1. n \in Nat /\ k \in Nat \ {0} /\ n <= B /\ Left(x) = IF k <= n THEN n + 1 - k ELSE 0
      BY <2>1, <2>2, <2>3
    <3> HIDE DEF n, k, B, Left
    <3> QED
      BY <2>3, <3>1
  <2> QED
    BY <2>1, <2>2, <2>3, <2>4
<1>3. B \in Nat
  BY DEF GraphInv
<1> HIDE DEF B
<1>4. b \in [D -> Nat] /\ \A x \in D : b[x] <= B
  <2>1. \A x \in D : Left(x) \in Nat /\ Left(x) <= B
    BY <1>2
  <2> HIDE DEF Left
  <2> QED
    BY <2>1
<1>5. PICK m \in [D -> Nat] : OrdersBoth(m, D, a, b)
  <2> HIDE DEF a, b
  <2> QED
    BY <1>1, <1>3, <1>4, Lexicographic
<1>6. ASSUME NEW x \in D, NEW y \in D, GoesOn(S, W, J, x, y) PROVE m[y] < m[x]
  <2>1. S[x] \in SUBSET Vertex /\ S[y] \in SUBSET Vertex /\ S[x] \subseteq S[y]
    BY <1>6 DEF GoesOn
  <2>2. CASE S[x] # S[y]
    <3>1. a[y] < a[x]
      BY <2>1, <2>2, MissingFacts
    <3> QED
      BY <1>5, <3>1 DEF OrdersBoth
  <2>3. CASE S[x] = S[y] /\ W[x] = W[y] /\ J[x] <= Len(adj[W[x]]) /\ J[x] < J[y]
    <3>1. a[y] = a[x]
      BY <2>3
    <3>2. b[y] < b[x]
      <4> DEFINE n == Len(adj[W[x]])
      <4>1. n \in Nat /\ J[x] \in Nat \ {0} /\ J[y] \in Nat \ {0} /\ J[x] <= n /\ J[x] < J[y]
        BY <1>2, <2>3
      <4>2. b[x] = n + 1 - J[x] /\ b[y] = IF J[y] <= n THEN n + 1 - J[y] ELSE 0
        BY <2>3
      <4> HIDE DEF n, b
      <4> QED
        BY <4>1, <4>2
    <3> HIDE DEF a, b
    <3> QED
      BY <1>5, <3>1, <3>2 DEF OrdersBoth
  <2> QED
    BY <1>6, <2>2, <2>3 DEF GoesOn
<1> QED
  BY <1>6 DEF Measures
\* The place of a depth-first search is what it has, the vertex it searches and
\* a place in the list of that vertex; what it has seen may only grow.
LaterIsLess(m, states, seen) ==
  \A r, t \in states, v, w \in Vertex, i, j \in Place :
    seen[r] \subseteq seen[t] =>
      /\ j <= Len(adj[w]) => m[<<t, w, j + 1>>] < m[<<r, w, j>>]
      /\ seen[r] # seen[t] => m[<<t, v, i>>] < m[<<r, w, j>>]

LEMMA PlacesMeasured ==
  ASSUME GraphInv, NEW states, NEW seen \in [states -> SUBSET Vertex]
  PROVE  \E m \in [states \X Vertex \X Place -> Nat] : LaterIsLess(m, states, seen)
<1> DEFINE D == states \X Vertex \X Place
           S == [x \in D |-> seen[x[1]]]
           W == [x \in D |-> x[2]]
           J == [x \in D |-> x[3]]
<1>1. \A x \in D : x[1] \in states /\ x[2] \in Vertex /\ x[3] \in Place
  OBVIOUS
<1>2. S \in [D -> SUBSET Vertex] /\ W \in [D -> Vertex] /\ J \in [D -> Place]
  BY <1>1
<1>3. \A r \in states, w \in Vertex, j \in Place :
        <<r, w, j>> \in D /\ S[<<r, w, j>>] = seen[r] /\ W[<<r, w, j>>] = w /\ J[<<r, w, j>>] = j
  OBVIOUS
<1> HIDE DEF D, S, W, J
<1>4. PICK m \in [D -> Nat] : Measures(m, D, S, W, J)
  BY <1>2, SearchMeasure
<1>5. \A x, y \in D : GoesOn(S, W, J, x, y) => m[y] < m[x]
  BY <1>4 DEF Measures
<1>6. ASSUME NEW r \in states, NEW t \in states, NEW v \in Vertex, NEW w \in Vertex, NEW i \in Place, NEW j \in Place,
             seen[r] \subseteq seen[t], (v = w /\ i = j + 1 /\ j <= Len(adj[w])) \/ seen[r] # seen[t]
      PROVE  m[<<t, v, i>>] < m[<<r, w, j>>]
  <2> DEFINE x == <<r, w, j>>
             y == <<t, v, i>>
  <2>1. /\ x \in D /\ y \in D /\ S[x] = seen[r] /\ S[y] = seen[t]
        /\ W[x] = w /\ W[y] = v /\ J[x] = j /\ J[y] = i
    BY <1>3
  <2>2. j \in Nat
    BY DEF Place
  <2> HIDE DEF x, y
  <2>3. GoesOn(S, W, J, x, y)
    BY <1>6, <2>1, <2>2 DEF GoesOn
  <2>4. m[y] < m[x]
    BY <1>5, <2>1, <2>3
  <2> QED
    BY <2>4 DEF x, y
<1>7. \A j \in Place : j + 1 \in Place
  BY DEF Place
<1>8. LaterIsLess(m, states, seen)
  <2> SUFFICES ASSUME NEW r \in states, NEW t \in states, NEW v \in Vertex, NEW w \in Vertex,
                      NEW i \in Place, NEW j \in Place, seen[r] \subseteq seen[t]
               PROVE  /\ j <= Len(adj[w]) => m[<<t, w, j + 1>>] < m[<<r, w, j>>]
                      /\ seen[r] # seen[t] => m[<<t, v, i>>] < m[<<r, w, j>>]
    BY DEF LaterIsLess
  <2>1. j + 1 \in Place
    BY <1>7
  <2>2. j <= Len(adj[w]) => m[<<t, w, j + 1>>] < m[<<r, w, j>>]
    BY <1>6, <2>1
  <2>3. seen[r] # seen[t] => m[<<t, v, i>>] < m[<<r, w, j>>]
    BY <1>6
  <2> QED
    BY <2>2, <2>3
<1> QED
  BY <1>8 DEF D
------------------------------------------------------------------------------
\* Depth-first search.

LEMMA HeadsAreArcs ==
  ASSUME GraphInv, NEW w \in Vertex
  PROVE  /\ Len(adj[w]) \in Nat
         /\ \A k \in 1 .. Len(adj[w]) : adj[w][k].to \in Vertex /\ Arc(w, adj[w][k].to)
         /\ \A y : Arc(w, y) => \E k \in 1 .. Len(adj[w]) : adj[w][k].to = y
<1>1. adj[w] \in Seq(Edge)
  BY DEF GraphInv, Adjacency
<1>2. DOMAIN adj[w] = 1 .. Len(adj[w]) /\ Len(adj[w]) \in Nat
  BY <1>1
<1>3. \A k \in 1 .. Len(adj[w]) : adj[w][k] \in Edge
  BY <1>1
<1> QED
  BY <1>2, <1>3 DEF Arc, Edge

DfsPlaces == Seq(Vertex) \X Vertex \X Place

\* The body of dfs in DfsFrom.
DfsBody(x, f) ==
  LET s == x[1]
      w == x[2]
      j == x[3]
      u == adj[w][j].to
  IN  IF j > Len(adj[w]) THEN s
      ELSE f[<<IF Contains(s, u) THEN s ELSE f[<<Append(s, u), u, 1>>], w, j + 1>>]

\* What the search from place j of the list of w, with s visited, returns:
\* the vertices it adds can be reached from w and their arcs, as those of w
\* from j on, lead to visited vertices.
DfsResult(s, w, j, r) ==
  /\ r \in Seq(Vertex) /\ Extends(r, s)
  /\ Distinct(s) => Distinct(r)
  /\ \A i \in Len(s) + 1 .. Len(r) :
       r[i] \in Reach(w) /\ \A y \in Vertex : Arc(r[i], y) => y \in ToSet(r)
  /\ \A k \in j .. Len(adj[w]) : adj[w][k].to \in ToSet(r)

LEMMA DfsEnds ==
  ASSUME GraphInv, NEW s \in Seq(Vertex), NEW w \in Vertex, NEW j \in Place, j > Len(adj[w])
  PROVE  DfsResult(s, w, j, s)
<1>1. Len(s) \in Nat /\ Len(adj[w]) \in Nat /\ j \in Nat
  BY Members, HeadsAreArcs DEF Place
<1>2. \A i \in Len(s) + 1 .. Len(s) : FALSE
  BY <1>1
<1>3. \A k \in j .. Len(adj[w]) : FALSE
  BY <1>1
<1> QED
  BY <1>1, <1>2, <1>3 DEF DfsResult, Extends

LEMMA DfsSkips ==
  ASSUME GraphInv, NEW s \in Seq(Vertex), NEW w \in Vertex, NEW j \in Place, j <= Len(adj[w]),
         adj[w][j].to \in ToSet(s), NEW r, DfsResult(s, w, j + 1, r)
  PROVE  DfsResult(s, w, j, r)
<1>1. Len(adj[w]) \in Nat /\ j \in Nat
  BY HeadsAreArcs DEF Place
<1>2. \A k \in j .. Len(adj[w]) : k = j \/ k \in j + 1 .. Len(adj[w])
  BY <1>1
<1>3. ToSet(s) \subseteq ToSet(r)
  BY ExtendsGrows DEF DfsResult
<1> QED
  BY <1>2, <1>3 DEF DfsResult

LEMMA DfsEnters ==
  ASSUME GraphInv, NEW s \in Seq(Vertex), NEW w \in Vertex, NEW j \in Place, j <= Len(adj[w]),
         NEW u, u = adj[w][j].to, u \notin ToSet(s),
         NEW t, DfsResult(Append(s, u), u, 1, t), NEW r, DfsResult(t, w, j + 1, r)
  PROVE  DfsResult(s, w, j, r)
<1> DEFINE a == Append(s, u)
<1>1. Len(adj[w]) \in Nat /\ j \in 1 .. Len(adj[w]) /\ j \in Nat
  BY HeadsAreArcs DEF Place
<1>2. u \in Vertex /\ Arc(w, u)
  BY <1>1, HeadsAreArcs
<1>3. /\ a \in Seq(Vertex) /\ Len(a) = Len(s) + 1 /\ a[Len(s) + 1] = u /\ Extends(a, s)
      /\ ToSet(a) = ToSet(s) \cup {u}
      /\ Distinct(s) => Distinct(a)
  BY <1>2, Appended
<1> HIDE DEF a
<1>4. /\ t \in Seq(Vertex) /\ Extends(t, a)
      /\ Distinct(a) => Distinct(t)
      /\ \A i \in Len(a) + 1 .. Len(t) :
           t[i] \in Reach(u) /\ \A y \in Vertex : Arc(t[i], y) => y \in ToSet(t)
      /\ \A k \in 1 .. Len(adj[u]) : adj[u][k].to \in ToSet(t)
  BY DEF DfsResult, a
<1>5. /\ r \in Seq(Vertex) /\ Extends(r, t)
      /\ Distinct(t) => Distinct(r)
      /\ \A i \in Len(t) + 1 .. Len(r) :
           r[i] \in Reach(w) /\ \A y \in Vertex : Arc(r[i], y) => y \in ToSet(r)
      /\ \A k \in j + 1 .. Len(adj[w]) : adj[w][k].to \in ToSet(r)
  BY DEF DfsResult
<1>6. ToSet(a) \subseteq ToSet(t) /\ ToSet(t) \subseteq ToSet(r) /\ Extends(r, a) /\ Extends(r, s)
  BY <1>3, <1>4, <1>5, ExtendsGrows, ExtendsChain
<1>7. u \in Reach(w) /\ Reach(u) \subseteq Reach(w)
  BY <1>2, ReachStart, ReachStep, ReachOn
<1>8. Len(s) \in Nat /\ Len(t) \in Nat /\ Len(r) \in Nat
  BY <1>4, <1>5, Members
<1>9. ASSUME NEW i \in Len(s) + 1 .. Len(r)
      PROVE  r[i] \in Reach(w) /\ \A y \in Vertex : Arc(r[i], y) => y \in ToSet(r)
  <2>1. i = Len(s) + 1 \/ (i \in Len(a) + 1 .. Len(t) /\ i \in 1 .. Len(t)) \/ i \in Len(t) + 1 .. Len(r)
    BY <1>3, <1>8
  <2>2. CASE i = Len(s) + 1
    <3>1. r[i] = u
      <4>1. i \in 1 .. Len(a)
        BY <1>3, <1>8, <2>2
      <4> QED
        BY <1>3, <1>6, <2>2, <4>1 DEF Extends
    <3>2. \A y \in Vertex : Arc(u, y) => y \in ToSet(t)
      <4> SUFFICES ASSUME NEW y \in Vertex, Arc(u, y) PROVE y \in ToSet(t)
        OBVIOUS
      <4>1. PICK k \in 1 .. Len(adj[u]) : adj[u][k].to = y
        BY <1>2, HeadsAreArcs
      <4>2. adj[u][k].to \in ToSet(t)
        BY <1>4, <4>1
      <4> QED
        BY <4>1, <4>2
    <3> QED
      BY <1>6, <1>7, <3>1, <3>2
  <2>3. CASE i \in Len(a) + 1 .. Len(t) /\ i \in 1 .. Len(t)
    <3>1. r[i] = t[i]
      BY <1>5, <2>3 DEF Extends
    <3>2. t[i] \in Reach(u) /\ \A y \in Vertex : Arc(t[i], y) => y \in ToSet(t)
      BY <1>4, <2>3
    <3> QED
      BY <1>6, <1>7, <3>1, <3>2
  <2>4. CASE i \in Len(t) + 1 .. Len(r)
    BY <1>5, <2>4
  <2> QED
    BY <2>1, <2>2, <2>3, <2>4
<1>10. ASSUME NEW k \in j .. Len(adj[w]) PROVE adj[w][k].to \in ToSet(r)
  <2>1. k = j \/ k \in j + 1 .. Len(adj[w])
    BY <1>1
  <2>2. u \in ToSet(r)
    BY <1>3, <1>6
  <2> QED
    BY <1>5, <2>1, <2>2
<1> QED
  BY <1>3, <1>4, <1>5, <1>6, <1>9, <1>10 DEF DfsResult

DfsRight == {z \in DfsPlaces \X Seq(Vertex) : DfsResult(z[1][1], z[1][2], z[1][3], z[2])}

DfsSeen == [s \in Seq(Vertex) |-> ToSet(s)]

LEMMA DfsMeasured ==
  ASSUME GraphInv
  PROVE  \E m \in [DfsPlaces -> Nat] : LaterIsLess(m, Seq(Vertex), DfsSeen)
<1>1. DfsSeen \in [Seq(Vertex) -> SUBSET Vertex]
  BY Members DEF DfsSeen
<1> QED
  BY <1>1, PlacesMeasured DEF DfsPlaces

LEMMA DfsShrinks ==
  ASSUME NEW m \in [DfsPlaces -> Nat], LaterIsLess(m, Seq(Vertex), DfsSeen),
         NEW s \in Seq(Vertex), NEW w \in Vertex, NEW j \in Place, NEW t \in Seq(Vertex), ToSet(s) \subseteq ToSet(t)
  PROVE  /\ j <= Len(adj[w]) => m[<<t, w, j + 1>>] < m[<<s, w, j>>]
         /\ \A v \in Vertex, k \in Place : ToSet(s) # ToSet(t) => m[<<t, v, k>>] < m[<<s, w, j>>]
<1>1. DfsSeen[s] = ToSet(s) /\ DfsSeen[t] = ToSet(t)
  BY DEF DfsSeen
<1> QED
  BY <1>1 DEF LaterIsLess

\* The body calls dfs only at places with less work left, and returns what it
\* should if those calls do.
LEMMA DfsStep ==
  ASSUME GraphInv, NEW m \in [DfsPlaces -> Nat], LaterIsLess(m, Seq(Vertex), DfsSeen), NEW x \in DfsPlaces, NEW g, NEW h,
         \A y \in DfsPlaces : m[y] < m[x] => <<y, g[y]>> \in DfsRight /\ g[y] = h[y]
  PROVE  DfsBody(x, g) = DfsBody(x, h) /\ <<x, DfsBody(x, g)>> \in DfsRight
<1> DEFINE s == x[1]
           w == x[2]
           j == x[3]
           u == adj[w][j].to
<1>1. s \in Seq(Vertex) /\ w \in Vertex /\ j \in Place /\ x = <<s, w, j>>
  BY DEF DfsPlaces
<1>2. /\ j > Len(adj[w]) => DfsBody(x, g) = s /\ DfsBody(x, h) = s
      /\ ~(j > Len(adj[w])) /\ Contains(s, u) => DfsBody(x, g) = g[<<s, w, j + 1>>] /\ DfsBody(x, h) = h[<<s, w, j + 1>>]
      /\ ~(j > Len(adj[w])) /\ ~Contains(s, u) =>
           /\ DfsBody(x, g) = g[<<g[<<Append(s, u), u, 1>>], w, j + 1>>]
           /\ DfsBody(x, h) = h[<<h[<<Append(s, u), u, 1>>], w, j + 1>>]
  BY DEF DfsBody
<1> HIDE DEF s, w, j, u
<1>3. \A r : DfsResult(s, w, j, r) => <<x, r>> \in DfsRight
  BY <1>1 DEF DfsRight, DfsPlaces, DfsResult
<1>4. ASSUME NEW t \in Seq(Vertex), NEW v \in Vertex, NEW k \in Place, m[<<t, v, k>>] < m[x]
      PROVE  g[<<t, v, k>>] = h[<<t, v, k>>] /\ DfsResult(t, v, k, g[<<t, v, k>>])
  <2> DEFINE y == <<t, v, k>>
  <2>1. y \in DfsPlaces /\ y[1] = t /\ y[2] = v /\ y[3] = k
    BY DEF DfsPlaces
  <2> HIDE DEF y
  <2>2. <<y, g[y]>> \in DfsRight /\ g[y] = h[y]
    BY <1>4, <2>1 DEF y
  <2>3. DfsResult(y[1], y[2], y[3], g[y])
    BY <2>2 DEF DfsRight
  <2> QED
    BY <2>1, <2>2, <2>3 DEF y
<1>5. j \in Nat /\ j \in Nat \ {0} /\ j + 1 \in Place /\ 1 \in Place /\ Len(adj[w]) \in Nat
  BY <1>1, HeadsAreArcs DEF Place
<1>6. CASE j > Len(adj[w])
  BY <1>1, <1>2, <1>3, <1>6, DfsEnds
<1>7. CASE ~(j > Len(adj[w])) /\ Contains(s, u)
  <2>1. j <= Len(adj[w]) /\ u \in ToSet(s)
    BY <1>1, <1>5, <1>7, Members
  <2>2. m[<<s, w, j + 1>>] < m[x]
    BY <1>1, <2>1, DfsShrinks
  <2>3. g[<<s, w, j + 1>>] = h[<<s, w, j + 1>>] /\ DfsResult(s, w, j + 1, g[<<s, w, j + 1>>])
    BY <1>1, <1>4, <1>5, <2>2
  <2>4. DfsResult(s, w, j, g[<<s, w, j + 1>>])
    BY <1>1, <2>1, <2>3, DfsSkips DEF u
  <2> QED
    BY <1>2, <1>3, <1>7, <2>3, <2>4
<1>8. CASE ~(j > Len(adj[w])) /\ ~Contains(s, u)
  <2>1. j <= Len(adj[w]) /\ u \notin ToSet(s) /\ j \in 1 .. Len(adj[w])
    BY <1>1, <1>5, <1>8, Members
  <2>2. u \in Vertex
    BY <1>1, <2>1, HeadsAreArcs DEF u
  <2> DEFINE a == Append(s, u)
             t == g[<<a, u, 1>>]
             r == g[<<t, w, j + 1>>]
  <2>3. a \in Seq(Vertex) /\ ToSet(a) = ToSet(s) \cup {u}
    BY <1>1, <2>2, Appended
  <2> HIDE DEF a
  <2>4. m[<<a, u, 1>>] < m[x]
    BY <1>1, <1>5, <2>1, <2>2, <2>3, DfsShrinks
  <2>5. t = h[<<a, u, 1>>] /\ DfsResult(a, u, 1, t)
    BY <1>4, <1>5, <2>2, <2>3, <2>4
  <2> HIDE DEF t
  <2>6. t \in Seq(Vertex) /\ ToSet(s) \subseteq ToSet(t)
    <3>1. t \in Seq(Vertex) /\ Extends(t, a)
      BY <2>5 DEF DfsResult
    <3> QED
      BY <2>3, <3>1, ExtendsGrows
  <2>7. m[<<t, w, j + 1>>] < m[x]
    BY <1>1, <2>1, <2>6, DfsShrinks
  <2>8. r = h[<<t, w, j + 1>>] /\ DfsResult(t, w, j + 1, r)
    BY <1>1, <1>4, <1>5, <2>6, <2>7
  <2> HIDE DEF r
  <2>9. DfsResult(s, w, j, r)
    <3>1. u = adj[w][j].to
      BY DEF u
    <3>2. DfsResult(Append(s, u), u, 1, t)
      BY <2>5 DEF a
    <3> QED
      BY <1>1, <2>1, <2>8, <3>1, <3>2, DfsEnters
  <2>10. DfsBody(x, g) = r /\ DfsBody(x, h) = r
    BY <1>2, <1>8, <2>5, <2>8 DEF a, t, r
  <2> QED
    BY <1>3, <2>9, <2>10
<1> QED
  BY <1>6, <1>7, <1>8

LEMMA DfsFromRight ==
  ASSUME GraphInv, NEW s \in Seq(Vertex), NEW v \in Vertex
  PROVE  DfsResult(Append(s, v), v, 1, DfsFrom(s, v))
<1> DEFINE V == Seq(Vertex)
           Loop(f) == [x \in DfsPlaces |-> DfsBody(x, f)]
           dfs == CHOOSE f : f = Loop(f)
           F == [z \in DfsPlaces \X [DfsPlaces -> V] |-> DfsBody(z[1], z[2])]
<1>1. DfsFrom(s, v) = dfs[<<Append(s, v), v, 1>>]
  BY DEF DfsFrom, DfsPlaces, DfsBody
<1>2. PICK m \in [DfsPlaces -> Nat] : LaterIsLess(m, Seq(Vertex), DfsSeen)
  BY DfsMeasured
<1>3. ASSUME NEW x \in DfsPlaces, NEW g \in [DfsPlaces -> V] PROVE DfsBody(x, g) \in V
  <2> DEFINE w == x[2]
             j == x[3]
  <2>1. x[1] \in V /\ w \in Vertex /\ j \in Nat \ {0} /\ Len(adj[w]) \in Nat
    BY HeadsAreArcs DEF DfsPlaces, Place
  <2>2. CASE j > Len(adj[w])
    BY <2>1, <2>2 DEF DfsBody
  <2>3. CASE ~(j > Len(adj[w]))
    <3> DEFINE u == adj[w][j].to
    <3>1. j \in 1 .. Len(adj[w]) /\ j + 1 \in Place /\ 1 \in Place
      BY <2>1, <2>3 DEF Place
    <3>2. u \in Vertex
      BY <2>1, <3>1, HeadsAreArcs
    <3> DEFINE a == Append(x[1], u)
    <3>3. <<a, u, 1>> \in DfsPlaces
      BY <2>1, <3>1, <3>2, Appended DEF DfsPlaces
    <3> DEFINE t == IF Contains(x[1], u) THEN x[1] ELSE g[<<a, u, 1>>]
    <3>4. t \in V
      BY <2>1, <3>3
    <3>5. <<t, w, j + 1>> \in DfsPlaces
      BY <2>1, <3>1, <3>4 DEF DfsPlaces
    <3>6. DfsBody(x, g) = g[<<t, w, j + 1>>]
      BY <2>3 DEF DfsBody
    <3> HIDE DEF t, w, j, V
    <3> QED
      BY <3>5, <3>6
  <2> QED
    BY <2>2, <2>3
<1>4. F \in [DfsPlaces \X [DfsPlaces -> V] -> V]
  BY <1>3
<1>5. \A x \in DfsPlaces, g \in [DfsPlaces -> V] : F[<<x, g>>] = DfsBody(x, g)
  OBVIOUS
<1>6. ShrinksOn(DfsPlaces, V, m, F, DfsRight)
  <2> SUFFICES ASSUME NEW x \in DfsPlaces, NEW g \in [DfsPlaces -> V], NEW h \in [DfsPlaces -> V],
                      \A y \in DfsPlaces : m[y] < m[x] => <<y, g[y]>> \in DfsRight /\ g[y] = h[y]
               PROVE  F[<<x, g>>] = F[<<x, h>>] /\ <<x, F[<<x, g>>]>> \in DfsRight
    BY Zenon DEF ShrinksOn
  <2>1. DfsBody(x, g) = DfsBody(x, h) /\ <<x, DfsBody(x, g)>> \in DfsRight
    BY ZenonT(60), <1>2, DfsStep
  <2> HIDE DEF F, V
  <2> QED
    BY <1>5, <2>1
<1>7. V # {}
  OBVIOUS
<1> HIDE DEF F
<1>8. PICK f \in [DfsPlaces -> V] : SolvesWith(f, DfsPlaces, F, DfsRight)
  <2> HIDE DEF V
  <2> QED
    BY <1>4, <1>6, <1>7, GeneralRecursion
<1>9. f = Loop(f)
  BY <1>5, <1>8 DEF SolvesWith
<1>10. dfs = Loop(dfs)
  <2> HIDE DEF Loop
  <2> QED
    BY <1>9
<1>11. \A x \in DfsPlaces : dfs[x] = DfsBody(x, dfs)
  <2> HIDE DEF dfs
  <2> QED
    BY <1>10
<1> HIDE DEF dfs, Loop
<1> DEFINE U == {x \in DfsPlaces : <<x, dfs[x]>> \in DfsRight}
<1>12. ASSUME NEW x \in DfsPlaces, \A y \in DfsPlaces : m[y] < m[x] => y \in U PROVE x \in U
  <2>1. \A y \in DfsPlaces : m[y] < m[x] => <<y, dfs[y]>> \in DfsRight /\ dfs[y] = dfs[y]
    BY <1>12
  <2>2. <<x, DfsBody(x, dfs)>> \in DfsRight
    BY <1>2, <2>1, DfsStep
  <2> QED
    BY <1>11, <2>2
<1> HIDE DEF U
<1>13. DfsPlaces \subseteq U
  BY <1>12, MeasureInduction
<1> DEFINE x == <<Append(s, v), v, 1>>
<1>14. x \in DfsPlaces /\ x[1] = Append(s, v) /\ x[2] = v /\ x[3] = 1
  <2>1. Append(s, v) \in Seq(Vertex) /\ 1 \in Place
    BY Appended DEF Place
  <2> QED
    BY <2>1 DEF DfsPlaces
<1> HIDE DEF x
<1>15. <<x, dfs[x]>> \in DfsRight
  BY <1>13, <1>14 DEF U
<1>16. DfsResult(x[1], x[2], x[3], dfs[x])
  BY <1>15 DEF DfsRight
<1> QED
  BY <1>1, <1>14, <1>16 DEF x

\* dfs_r adds, each once, the vertices it can reach that were not visited
\* before: all of them, if the visited ones were closed under arcs.
LEMMA DfsFacts ==
  ASSUME GraphInv, NEW s \in Seq(Vertex), Distinct(s), Closed(ToSet(s)), NEW v \in Vertex, v \notin ToSet(s)
  PROVE  /\ DfsFrom(s, v) \in Seq(Vertex) /\ Extends(DfsFrom(s, v), s) /\ Distinct(DfsFrom(s, v))
         /\ Len(s) < Len(DfsFrom(s, v)) /\ DfsFrom(s, v)[Len(s) + 1] = v
         /\ \A i \in Len(s) + 1 .. Len(DfsFrom(s, v)) : DfsFrom(s, v)[i] \in Reach(v)
         /\ Closed(ToSet(DfsFrom(s, v))) /\ Reach(v) \subseteq ToSet(DfsFrom(s, v))
<1> DEFINE a == Append(s, v)
           r == DfsFrom(s, v)
<1>1. /\ a \in Seq(Vertex) /\ Len(a) = Len(s) + 1 /\ a[Len(s) + 1] = v /\ Extends(a, s)
      /\ ToSet(a) = ToSet(s) \cup {v} /\ Distinct(a)
  BY Appended
<1>2. /\ r \in Seq(Vertex) /\ Extends(r, a) /\ Distinct(r)
      /\ \A i \in Len(a) + 1 .. Len(r) :
           r[i] \in Reach(v) /\ \A y \in Vertex : Arc(r[i], y) => y \in ToSet(r)
      /\ \A k \in 1 .. Len(adj[v]) : adj[v][k].to \in ToSet(r)
  <2> HIDE DEF r
  <2>1. DfsResult(a, v, 1, r)
    BY DfsFromRight DEF r
  <2> HIDE DEF a
  <2> QED
    BY <1>1, <2>1 DEF DfsResult
<1> HIDE DEF a, r
<1>3. Extends(r, s) /\ ToSet(a) \subseteq ToSet(r) /\ Len(s) \in Nat /\ Len(r) \in Nat
  BY <1>1, <1>2, ExtendsChain, ExtendsGrows, Members
<1>4. Len(s) < Len(r) /\ r[Len(s) + 1] = v
  <2>1. Len(s) + 1 \in 1 .. Len(a)
    BY <1>1, <1>3
  <2>2. Len(a) <= Len(r) /\ r[Len(s) + 1] = a[Len(s) + 1]
    BY <1>2, <2>1 DEF Extends
  <2> QED
    BY <1>1, <1>3, <2>2
<1>5. \A i \in Len(s) + 1 .. Len(r) : i = Len(s) + 1 \/ i \in Len(a) + 1 .. Len(r)
  BY <1>1, <1>3
<1>6. \A i \in Len(s) + 1 .. Len(r) : r[i] \in Reach(v)
  BY <1>2, <1>4, <1>5, ReachStart
<1>7. Closed(ToSet(r))
  <2> SUFFICES ASSUME NEW x \in ToSet(r), NEW y \in Vertex, Arc(x, y) PROVE y \in ToSet(r)
    BY DEF Closed
  <2>1. PICK i \in 1 .. Len(r) : r[i] = x
    BY <1>2, Members
  <2>2. i \in 1 .. Len(s) \/ i = Len(s) + 1 \/ i \in Len(a) + 1 .. Len(r)
    BY <1>1, <1>3
  <2>3. CASE i \in 1 .. Len(s)
    <3>1. x \in ToSet(s)
      BY <1>3, <2>1, <2>3, Members DEF Extends
    <3> QED
      BY <1>1, <1>3, <3>1 DEF Closed
  <2>4. CASE i = Len(s) + 1
    <3>1. \E k \in 1 .. Len(adj[v]) : adj[v][k].to = y
      BY <1>4, <2>1, <2>4, HeadsAreArcs
    <3> QED
      BY <1>2, <3>1
  <2>5. CASE i \in Len(a) + 1 .. Len(r)
    BY <1>2, <2>1, <2>5
  <2> QED
    BY <2>2, <2>3, <2>4, <2>5
<1>8. Reach(v) \subseteq ToSet(r)
  BY <1>1, <1>3, <1>7, ReachLeast
<1> QED
  BY <1>2, <1>3, <1>4, <1>6, <1>7, <1>8 DEF r

LEMMA DfsReaches ==
  ASSUME GraphInv, NEW src \in Vertex
  PROVE  /\ Dfs(src) \in Seq(Vertex) /\ Distinct(Dfs(src)) /\ Len(Dfs(src)) > 0 /\ Dfs(src)[1] = src
         /\ ToSet(Dfs(src)) = Reach(src)
<1> DEFINE s == <<>>
           r == DfsFrom(s, src)
<1>1. s \in Seq(Vertex) /\ Len(s) = 0 /\ ToSet(s) = {} /\ Distinct(s) /\ Closed(ToSet(s)) /\ src \notin ToSet(s)
  BY DEF ToSet, Distinct, Closed
<1> HIDE DEF s
<1>2. /\ r \in Seq(Vertex) /\ Distinct(r) /\ 0 < Len(r) /\ r[1] = src /\ Len(r) \in Nat
      /\ \A i \in 1 .. Len(r) : r[i] \in Reach(src)
      /\ Reach(src) \subseteq ToSet(r)
  <2>1. /\ r \in Seq(Vertex) /\ Distinct(r) /\ Len(s) < Len(r) /\ r[Len(s) + 1] = src
        /\ \A i \in Len(s) + 1 .. Len(r) : r[i] \in Reach(src)
        /\ Reach(src) \subseteq ToSet(r)
    BY <1>1, DfsFacts
  <2> HIDE DEF r
  <2>2. Len(s) + 1 = 1 /\ Len(r) \in Nat
    BY <1>1, <2>1
  <2> QED
    BY <1>1, <2>1, <2>2
<1> HIDE DEF r
<1>3. ToSet(r) \subseteq Reach(src)
  BY <1>2, Members
<1> QED
  BY <1>2, <1>3 DEF Dfs, r, s
------------------------------------------------------------------------------
\* Connected components.

LEMMA ReachSymmetric ==
  ASSUME GraphInv, ~directed, NEW u \in Vertex, NEW v \in Reach(u)
  PROVE  u \in Reach(v) /\ Reach(v) = Reach(u)
<1>1. \A x, y \in Vertex : Arc(x, y) => Arc(y, x)
  BY DEF GraphInv
<1> DEFINE S == {x \in Vertex : u \in Reach(x)}
<1>2. Closed(S)
  <2> SUFFICES ASSUME NEW x \in S, NEW y \in Vertex, Arc(x, y) PROVE u \in Reach(y)
    BY DEF Closed
  <2>1. x \in Reach(y)
    BY <1>1, ReachStart, ReachStep
  <2> QED
    BY <2>1, ReachOn
<1>3. u \in S
  BY ReachStart
<1> HIDE DEF S
<1>4. v \in S
  BY <1>2, <1>3, ReachLeast
<1>5. u \in Reach(v)
  BY <1>4 DEF S
<1> QED
  BY <1>5, ReachOn

\* One turn of the loop of graph_connected_components.
Numbered(s, v) ==
  LET visited == DfsFrom(s.visited, v)
      new == {visited[i] : i \in Len(s.visited) + 1 .. Len(visited)}
  IN  IF Contains(s.visited, v) THEN s
      ELSE [visited |-> visited, count |-> s.count + 1,
            comp |-> [u \in Vertex |-> IF u \in new THEN s.count ELSE s.comp[u]]]

Numberings == [visited : Seq(Vertex), count : Nat, comp : [Vertex -> Int]]

\* The vertices visited are whole components, with numbers of their own.
ComponentsOf(s) ==
  LET seen == ToSet(s.visited)
  IN  /\ Distinct(s.visited) /\ Closed(seen)
      /\ \A v \in seen : s.comp[v] \in 0 .. s.count - 1
      /\ \A c \in 0 .. s.count - 1 : \E v \in seen : s.comp[v] = c
      /\ \A u, v \in seen : s.comp[v] = s.comp[u] <=> v \in Reach(u)

LEMMA NumberedType ==
  ASSUME GraphInv, NEW s \in Numberings, NEW v \in Vertex
  PROVE  Numbered(s, v) \in Numberings
<1>1. s.visited \in Seq(Vertex) /\ s.count \in Nat /\ s.comp \in [Vertex -> Int]
  BY DEF Numberings
<1>2. DfsFrom(s.visited, v) \in Seq(Vertex)
  <2>1. DfsResult(Append(s.visited, v), v, 1, DfsFrom(s.visited, v))
    BY <1>1, DfsFromRight
  <2> QED
    BY <2>1 DEF DfsResult
<1> QED
  BY <1>1, <1>2 DEF Numbered, Numberings

LEMMA NumbersOneMore ==
  ASSUME GraphInv, ~directed, NEW s \in Numberings, ComponentsOf(s), NEW v \in Vertex
  PROVE  /\ ComponentsOf(Numbered(s, v))
         /\ ToSet(s.visited) \cup {v} \subseteq ToSet(Numbered(s, v).visited)
<1> DEFINE old == s.visited
           n == s.count
           c == s.comp
           r == DfsFrom(old, v)
           new == {r[i] : i \in Len(old) + 1 .. Len(r)}
           d == [u \in Vertex |-> IF u \in new THEN n ELSE c[u]]
           t == [visited |-> r, count |-> n + 1, comp |-> d]
<1>1. old \in Seq(Vertex) /\ n \in Nat /\ c \in [Vertex -> Int]
  BY DEF Numberings
<1>2. /\ Distinct(old) /\ Closed(ToSet(old))
      /\ \A x \in ToSet(old) : c[x] \in 0 .. n - 1
      /\ \A k \in 0 .. n - 1 : \E x \in ToSet(old) : c[x] = k
      /\ \A x, y \in ToSet(old) : c[y] = c[x] <=> y \in Reach(x)
  BY DEF ComponentsOf
<1>3. Numbered(s, v) = IF Contains(old, v) THEN s ELSE t
  BY DEF Numbered
<1>4. CASE v \in ToSet(old)
  BY <1>1, <1>3, <1>4, Members
<1>5. CASE v \notin ToSet(old)
  <2>1. Numbered(s, v) = t
    BY <1>1, <1>3, <1>5, Members
  <2>2. t.visited = r /\ t.count = n + 1 /\ t.comp = d
    OBVIOUS
  <2> HIDE DEF t, old, n, c
  <2>3. /\ r \in Seq(Vertex) /\ Extends(r, old) /\ Distinct(r) /\ Len(old) < Len(r) /\ r[Len(old) + 1] = v
        /\ \A i \in Len(old) + 1 .. Len(r) : r[i] \in Reach(v)
        /\ Closed(ToSet(r)) /\ Reach(v) \subseteq ToSet(r)
    BY <1>1, <1>2, <1>5, DfsFacts
  <2> HIDE DEF r
  <2>4. Len(old) \in Nat /\ Len(r) \in Nat /\ ToSet(old) \subseteq ToSet(r) /\ ToSet(r) \subseteq Vertex
    BY <1>1, <2>3, Members, ExtendsGrows
  <2>5. ToSet(r) \subseteq ToSet(old) \cup new
    <3> SUFFICES ASSUME NEW i \in 1 .. Len(r), r[i] \notin ToSet(old) PROVE r[i] \in new
      BY <2>3, Members
    <3>1. i \in 1 .. Len(old) \/ i \in Len(old) + 1 .. Len(r)
      BY <2>4
    <3>2. i \in 1 .. Len(old) => r[i] \in ToSet(old)
      BY <1>1, <2>3, Members DEF Extends
    <3> QED
      BY <3>1, <3>2
  <2>6. new \subseteq Reach(v) /\ v \in new
    <3>1. Len(old) + 1 \in Len(old) + 1 .. Len(r)
      BY <2>3, <2>4
    <3> QED
      BY <2>3, <3>1
  <2>7. \A x \in Reach(v) : x \notin ToSet(old)
    <3> SUFFICES ASSUME NEW x \in Reach(v), x \in ToSet(old) PROVE FALSE
      OBVIOUS
    <3>1. v \in Reach(x)
      BY ReachSymmetric
    <3> QED
      BY <1>2, <1>5, <3>1, ReachLeast
  <2>8. new = Reach(v)
    BY <2>3, <2>5, <2>6, <2>7
  <2> HIDE DEF new
  <2>9. ToSet(r) = ToSet(old) \cup Reach(v)
    BY <2>3, <2>4, <2>5, <2>8
  <2>10. /\ \A x \in ToSet(old) : d[x] = c[x] /\ d[x] \in 0 .. n - 1 /\ d[x] # n
         /\ \A x \in Reach(v) : d[x] = n
    <3>1. ToSet(old) \subseteq Vertex /\ Reach(v) \subseteq Vertex
      BY <2>4, ReachClosed
    <3>2. \A x \in ToSet(old) : d[x] = c[x]
      BY <2>7, <2>8, <3>1
    <3>3. \A k \in 0 .. n - 1 : k # n
      BY <1>1
    <3> QED
      BY <1>2, <2>8, <3>1, <3>2, <3>3
  <2> HIDE DEF d
  <2>11. \A x \in ToSet(r) : d[x] \in 0 .. (n + 1) - 1
    <3>1. n \in 0 .. (n + 1) - 1 /\ \A k \in 0 .. n - 1 : k \in 0 .. (n + 1) - 1
      BY <1>1
    <3> QED
      BY <2>9, <2>10, <3>1
  <2>12. \A k \in 0 .. (n + 1) - 1 : \E x \in ToSet(r) : d[x] = k
    <3> TAKE k \in 0 .. (n + 1) - 1
    <3>1. k = n \/ k \in 0 .. n - 1
      BY <1>1
    <3>2. CASE k = n
      BY <2>9, <2>10, <3>2, ReachStart
    <3>3. CASE k \in 0 .. n - 1
      <4>1. PICK x \in ToSet(old) : c[x] = k
        BY <1>2, <3>3
      <4> QED
        BY <2>9, <2>10, <4>1
    <3> QED
      BY <3>1, <3>2, <3>3
  <2>13. ASSUME NEW x \in ToSet(r), NEW y \in ToSet(r) PROVE d[y] = d[x] <=> y \in Reach(x)
    <3>1. CASE x \in ToSet(old) /\ y \in ToSet(old)
      BY <1>2, <2>10, <3>1
    <3>2. CASE x \in Reach(v) /\ y \in Reach(v)
      <4>1. Reach(x) = Reach(v)
        BY <3>2, ReachSymmetric
      <4> QED
        BY <2>10, <3>2, <4>1
    <3>3. CASE x \in ToSet(old) /\ y \in Reach(v)
      <4>1. y \notin Reach(x)
        BY <1>2, <2>7, <3>3, ReachLeast
      <4> QED
        BY <2>10, <3>3, <4>1
    <3>4. CASE x \in Reach(v) /\ y \in ToSet(old)
      <4>1. y \notin Reach(x)
        BY <2>7, <3>4, ReachOn
      <4> QED
        BY <2>10, <3>4, <4>1
    <3> QED
      BY <2>9, <3>1, <3>2, <3>3, <3>4
  <2>14. ComponentsOf(t)
    BY <2>2, <2>3, <2>11, <2>12, <2>13 DEF ComponentsOf
  <2> QED
    BY <2>1, <2>2, <2>4, <2>9, <2>14, ReachStart DEF old
<1> QED
  BY <1>4, <1>5

LEMMA ComponentsLoop ==
  ASSUME GraphInv
  PROVE  \E c : /\ c[0] = Unnumbered /\ \A k \in 1 .. N : c[k] = Numbered(c[k - 1], k - 1)
                /\ Components = c[N]
<1> DEFINE Loop(f) == [k \in 0 .. N |-> IF k = 0 THEN Unnumbered ELSE Numbered(f[k - 1], k - 1)]
           c == CHOOSE f : f = Loop(f)
           step == [z \in (1 .. N) \X Numberings |-> Numbered(z[2], z[1] - 1)]
<1>1. N \in Nat /\ 0 \in 0 .. N /\ N \in 0 .. N
  BY NAssumption
<1>2. \A k \in 1 .. N : k - 1 \in Vertex /\ k - 1 \in 0 .. N /\ k \in 0 .. N /\ k # 0
  BY <1>1 DEF Vertex
<1>3. Unnumbered \in Numberings
  BY DEF Unnumbered, Numberings
<1>4. step \in [(1 .. N) \X Numberings -> Numberings]
  <2>1. \A z \in (1 .. N) \X Numberings : Numbered(z[2], z[1] - 1) \in Numberings
    BY <1>2, NumberedType
  <2> QED
    BY <2>1
<1>5. \A k \in 1 .. N, s \in Numberings : step[<<k, s>>] = Numbered(s, k - 1)
  OBVIOUS
<1> HIDE DEF step
<1>6. PICK f \in [0 .. N -> Numberings] : Iteration(f, N, Unnumbered, step)
  BY <1>1, <1>3, <1>4, Iterates
<1>7. f = Loop(f)
  <2>1. ASSUME NEW k \in 0 .. N PROVE f[k] = IF k = 0 THEN Unnumbered ELSE Numbered(f[k - 1], k - 1)
    <3>1. CASE k = 0
      BY <1>6, <3>1 DEF Iteration
    <3>2. CASE k # 0
      <4>1. k \in 1 .. N
        BY <1>1, <3>2
      <4>2. f[k - 1] \in Numberings /\ f[k] = step[<<k, f[k - 1]>>]
        BY <1>2, <1>6, <4>1 DEF Iteration
      <4> QED
        BY <1>5, <3>2, <4>1, <4>2
    <3> QED
      BY <3>1, <3>2
  <2>2. f = [k \in 0 .. N |-> f[k]]
    OBVIOUS
  <2> QED
    BY <2>1, <2>2
<1>8. c = Loop(c)
  <2> HIDE DEF Loop
  <2> QED
    BY <1>7
<1>9. \A k \in 0 .. N : c[k] = IF k = 0 THEN Unnumbered ELSE Numbered(c[k - 1], k - 1)
  <2> HIDE DEF c
  <2> QED
    BY <1>8
<1>10. Components = c[N]
  BY DEF Components, Numbered
<1> HIDE DEF c
<1>11. c[0] = Unnumbered /\ \A k \in 1 .. N : c[k] = Numbered(c[k - 1], k - 1)
  BY <1>1, <1>2, <1>9
<1> QED
  BY <1>10, <1>11

LEMMA ComponentsNumbered ==
  ASSUME GraphInv, ~directed
  PROVE  /\ Components \in Numberings /\ ComponentsOf(Components)
         /\ ToSet(Components.visited) = Vertex
<1>1. PICK c : /\ c[0] = Unnumbered /\ \A k \in 1 .. N : c[k] = Numbered(c[k - 1], k - 1)
               /\ Components = c[N]
  BY ComponentsLoop
<1> DEFINE Right(k) == /\ c[k] \in Numberings /\ ComponentsOf(c[k])
                       /\ \A v \in Vertex : v < k => v \in ToSet(c[k].visited)
           U == {k \in Nat : k <= N => Right(k)}
<1>2. 0 \in U
  <2>1. Unnumbered \in Numberings /\ Unnumbered.visited = <<>> /\ Unnumbered.count = 0
    BY DEF Unnumbered, Numberings
  <2>2. ToSet(<<>>) = {} /\ Distinct(<<>>)
    BY DEF ToSet, Distinct
  <2>3. ComponentsOf(Unnumbered)
    BY <2>1, <2>2 DEF ComponentsOf, Closed
  <2>4. \A v \in Vertex : ~(v < 0)
    BY DEF Vertex
  <2> QED
    BY <1>1, <2>1, <2>3, <2>4
<1>3. ASSUME NEW k \in Nat, k \in U PROVE k + 1 \in U
  <2> SUFFICES ASSUME k + 1 <= N PROVE Right(k + 1)
    OBVIOUS
  <2>1. N \in Nat /\ k + 1 \in 1 .. N /\ (k + 1) - 1 = k /\ k \in Vertex /\ k <= N
    BY NAssumption DEF Vertex
  <2>2. Right(k) /\ c[k + 1] = Numbered(c[k], k)
    BY <1>1, <1>3, <2>1
  <2> DEFINE s == c[k]
  <2>3. s \in Numberings /\ ComponentsOf(s) /\ \A v \in Vertex : v < k => v \in ToSet(s.visited)
    BY <2>2
  <2> HIDE DEF s
  <2>4. /\ Numbered(s, k) \in Numberings /\ ComponentsOf(Numbered(s, k))
        /\ ToSet(s.visited) \cup {k} \subseteq ToSet(Numbered(s, k).visited)
    BY <2>1, <2>3, NumberedType, NumbersOneMore
  <2>5. \A v \in Vertex : v < k + 1 => v < k \/ v = k
    BY DEF Vertex
  <2>6. c[k + 1] = Numbered(s, k)
    BY <2>2 DEF s
  <2> QED
    BY <2>3, <2>4, <2>5, <2>6
<1> HIDE DEF U
<1>4. N \in U /\ N \in Nat /\ \A v \in Vertex : v < N
  <2>1. Nat \subseteq U
    BY <1>2, <1>3, Induction
  <2> QED
    BY <2>1, NAssumption DEF Vertex
<1>5. Right(N)
  BY <1>4 DEF U
<1>6. ToSet(c[N].visited) \subseteq Vertex
  <2>1. c[N].visited \in Seq(Vertex)
    BY <1>5 DEF Numberings
  <2> QED
    BY <2>1, Members
<1> QED
  BY <1>1, <1>4, <1>5, <1>6

\* In every undirected graph that calls can build, two vertices have the same
\* component number exactly if a path joins them, and the numbers used are
\* those below the count.
THEOREM ComponentsRight == Spec => []ComponentsArePaths
<1>1. ASSUME GraphInv PROVE ComponentsArePaths
  <2> SUFFICES ASSUME ~directed
               PROVE  /\ \A u \in Vertex : {v \in Vertex : Components.comp[v] = Components.comp[u]}
                                             = Ends(From(Paths, u))
                      /\ {Components.comp[v] : v \in Vertex} = 0 .. Components.count - 1
    BY DEF ComponentsArePaths
  <2> DEFINE c == Components
  <2>1. /\ \A v \in Vertex : c.comp[v] \in 0 .. c.count - 1
        /\ \A k \in 0 .. c.count - 1 : \E v \in Vertex : c.comp[v] = k
        /\ \A u, v \in Vertex : c.comp[v] = c.comp[u] <=> v \in Reach(u)
    BY <1>1, ComponentsNumbered DEF ComponentsOf
  <2> HIDE DEF c
  <2>2. \A u \in Vertex : {v \in Vertex : c.comp[v] = c.comp[u]} = Ends(From(Paths, u))
    <3> TAKE u \in Vertex
    <3>1. Ends(From(Paths, u)) = Reach(u) /\ Reach(u) \subseteq Vertex
      BY EndsAreReach, ReachClosed
    <3> QED
      BY <2>1, <3>1
  <2>3. {c.comp[v] : v \in Vertex} = 0 .. c.count - 1
    BY <2>1
  <2> QED
    BY <2>2, <2>3 DEF c
<1> QED
  BY <1>1, GraphInvHolds, PTL
------------------------------------------------------------------------------
\* Loops over a queue and the lists of its vertices.

\* From x to y the loop goes on to the next vertex of the queue, or to the
\* next place of the same list; pending bounds what may still be queued.
Advances(Queues, At, J, pending, out, x, y) ==
  /\ At[x] <= Len(Queues[x])
  /\ pending[y] + Len(Queues[y]) <= pending[x] + Len(Queues[x])
  /\ \/ At[y] = At[x] + 1
     \/ /\ At[y] = At[x] /\ At[y] <= Len(Queues[y]) /\ Queues[y][At[y]] = Queues[x][At[x]]
        /\ J[x] <= Len(out[Queues[x][At[x]]]) /\ J[y] = J[x] + 1

Drains(m, D, Queues, At, J, pending, out) ==
  \A x, y \in D : Advances(Queues, At, J, pending, out, x, y) => m[y] < m[x]

LEMMA QueueMeasure ==
  ASSUME NEW D, NEW Queues \in [D -> Seq(Vertex)], NEW At \in [D -> Place], NEW J \in [D -> Place],
         NEW pending \in [D -> Nat], NEW out \in [Vertex -> Seq(Vertex)],
         NEW B \in Nat, \A v \in Vertex : Len(out[v]) <= B
  PROVE  \E m \in [D -> Nat] : Drains(m, D, Queues, At, J, pending, out)
<1> DEFINE Queued(x) == IF At[x] <= Len(Queues[x]) THEN pending[x] + Len(Queues[x]) + 1 - At[x] ELSE 0
           List(x) == out[Queues[x][At[x]]]
           Left(x) == IF At[x] <= Len(Queues[x]) /\ J[x] <= Len(List(x)) THEN Len(List(x)) + 1 - J[x] ELSE 0
           a == [x \in D |-> Queued(x)]
           b == [x \in D |-> Left(x)]
<1>1. ASSUME NEW x \in D
      PROVE  /\ At[x] \in Nat \ {0} /\ J[x] \in Nat \ {0} /\ Len(Queues[x]) \in Nat /\ pending[x] \in Nat
             /\ At[x] <= Len(Queues[x]) => Len(List(x)) \in Nat /\ Len(List(x)) <= B
  <2>1. At[x] \in Nat \ {0} /\ J[x] \in Nat \ {0} /\ Queues[x] \in Seq(Vertex) /\ pending[x] \in Nat
    BY DEF Place
  <2>2. Len(Queues[x]) \in Nat
    BY <2>1
  <2>3. ASSUME At[x] <= Len(Queues[x]) PROVE Len(List(x)) \in Nat /\ Len(List(x)) <= B
    <3>1. At[x] \in 1 .. Len(Queues[x])
      BY <2>1, <2>2, <2>3
    <3>2. Queues[x][At[x]] \in Vertex
      BY <2>1, <3>1
    <3>3. List(x) \in Seq(Vertex)
      BY <3>2
    <3> QED
      BY <3>2, <3>3
  <2> QED
    BY <2>1, <2>2, <2>3
<1> HIDE DEF List
<1>2. a \in [D -> Nat]
  <2>1. \A x \in D : Queued(x) \in Nat
    BY <1>1
  <2> HIDE DEF Queued
  <2> QED
    BY <2>1
<1>3. b \in [D -> Nat] /\ \A x \in D : b[x] <= B
  <2>1. \A x \in D : Left(x) \in Nat /\ Left(x) <= B
    <3> TAKE x \in D
    <3>1. CASE At[x] <= Len(Queues[x]) /\ J[x] <= Len(List(x))
      BY <1>1, <3>1
    <3>2. CASE ~(At[x] <= Len(Queues[x]) /\ J[x] <= Len(List(x)))
      <4>1. Left(x) = 0
        BY <3>2
      <4> QED
        BY <4>1
    <3> QED
      BY <3>1, <3>2
  <2> HIDE DEF Left
  <2> QED
    BY <2>1
<1>4. PICK m \in [D -> Nat] : OrdersBoth(m, D, a, b)
  <2> HIDE DEF a, b
  <2> QED
    BY <1>2, <1>3, Lexicographic
<1>5. ASSUME NEW x \in D, NEW y \in D, Advances(Queues, At, J, pending, out, x, y) PROVE m[y] < m[x]
  <2>1. /\ At[x] <= Len(Queues[x])
        /\ pending[y] + Len(Queues[y]) <= pending[x] + Len(Queues[x])
    BY <1>5 DEF Advances
  <2>2. /\ a[x] = pending[x] + Len(Queues[x]) + 1 - At[x]
        /\ a[y] = IF At[y] <= Len(Queues[y]) THEN pending[y] + Len(Queues[y]) + 1 - At[y] ELSE 0
    BY <2>1
  <2>3. /\ pending[x] \in Nat /\ pending[y] \in Nat /\ At[x] \in Nat \ {0}
        /\ Len(Queues[x]) \in Nat /\ Len(Queues[y]) \in Nat
    BY <1>1
  <2>4. a[y] < a[x] \/ (a[y] = a[x] /\ b[y] < b[x]) => m[y] < m[x]
    <3> HIDE DEF a, b
    <3> QED
      BY <1>4 DEF OrdersBoth
  <2>5. CASE At[y] = At[x] + 1
    <3>1. a[y] < a[x]
      <4> DEFINE p == pending[x] + Len(Queues[x])
                 q == pending[y] + Len(Queues[y])
                 i == At[x]
      <4>1. p \in Nat /\ q \in Nat /\ i \in Nat \ {0} /\ q <= p /\ p + 1 - i > 0
        <5> HIDE DEF a, b, Queued, Left
        <5> QED
          BY <2>1, <2>3
      <4>2. a[x] = p + 1 - i /\ (a[y] = q + 1 - (i + 1) \/ a[y] = 0)
        BY <2>2, <2>5
      <4> HIDE DEF a, p, q, i
      <4> QED
        BY <4>1, <4>2
    <3> HIDE DEF a, b
    <3> QED
      BY <2>4, <3>1
  <2>6. CASE /\ At[y] = At[x] /\ At[y] <= Len(Queues[y]) /\ Queues[y][At[y]] = Queues[x][At[x]]
             /\ J[x] <= Len(out[Queues[x][At[x]]]) /\ J[y] = J[x] + 1
    <3>1. a[y] < a[x] \/ a[y] = a[x]
      <4> DEFINE p == pending[x] + Len(Queues[x])
                 q == pending[y] + Len(Queues[y])
                 i == At[x]
      <4>1. p \in Nat /\ q \in Nat /\ i \in Nat \ {0} /\ q <= p
        <5> HIDE DEF a, b, Queued, Left
        <5> QED
          BY <2>1, <2>3
      <4>2. a[x] = p + 1 - i /\ a[y] = q + 1 - i
        BY <2>2, <2>6
      <4> HIDE DEF a, p, q, i
      <4> QED
        BY <4>1, <4>2
    <3>2. List(y) = List(x) /\ J[x] <= Len(List(x))
      BY <2>6 DEF List
    <3>3. b[x] = Len(List(x)) + 1 - J[x] /\ b[y] = IF J[y] <= Len(List(y)) THEN Len(List(y)) + 1 - J[y] ELSE 0
      BY <2>1, <2>6, <3>2
    <3>4. b[y] < b[x]
      <4> HIDE DEF b
      <4> QED
        BY SMTT(20), <1>1, <2>1, <2>6, <3>2, <3>3
    <3> HIDE DEF a, b
    <3> QED
      BY <2>4, <3>1, <3>4
  <2> QED
    BY <1>5, <2>5, <2>6 DEF Advances
<1> QED
  BY <1>5 DEF Drains
------------------------------------------------------------------------------
\* Distances: the number of vertices of a shortest path.

Hops(u, v) == CHOOSE n \in Nat : /\ \E p : Joins(p, u, v) /\ Len(p) = n
                                 /\ \A p : Joins(p, u, v) => n <= Len(p)

LEMMA HopsFacts ==
  ASSUME NEW u \in Vertex, NEW v \in Reach(u)
  PROVE  /\ Hops(u, v) \in Nat \ {0}
         /\ \E p : Joins(p, u, v) /\ Len(p) = Hops(u, v)
         /\ \A p : Joins(p, u, v) => Hops(u, v) <= Len(p)
<1> DEFINE T == {n \in Nat : \E p : Joins(p, u, v) /\ Len(p) = n}
<1>1. \A p : Joins(p, u, v) => Len(p) \in Nat \ {0}
  BY DEF Joins, IsPath
<1>2. T # {}
  <2>1. PICK p : Joins(p, u, v)
    BY DEF Reach
  <2>2. Len(p) \in T
    BY <1>1, <2>1
  <2> QED
    BY <2>2
<1>3. PICK n \in T : \A k \in T : n <= k
  BY <1>2, LeastElement
<1>4. n \in Nat /\ (\E p : Joins(p, u, v) /\ Len(p) = n) /\ \A p : Joins(p, u, v) => n <= Len(p)
  BY <1>1, <1>3
<1>5. /\ Hops(u, v) \in Nat
      /\ \E p : Joins(p, u, v) /\ Len(p) = Hops(u, v)
      /\ \A p : Joins(p, u, v) => Hops(u, v) <= Len(p)
  BY <1>4 DEF Hops
<1> QED
  BY <1>1, <1>5

LEMMA HopsStart == ASSUME NEW u \in Vertex PROVE Hops(u, u) = 1
<1>1. u \in Reach(u) /\ \E p : Joins(p, u, u) /\ Len(p) = 1
  BY TrivialPath, ReachStart
<1>2. Hops(u, u) \in Nat \ {0} /\ Hops(u, u) <= 1
  BY <1>1, HopsFacts
<1> QED
  BY <1>2

LEMMA HopsStep ==
  ASSUME NEW u \in Vertex, NEW v \in Reach(u), NEW w \in Vertex, Arc(v, w)
  PROVE  w \in Reach(u) /\ Hops(u, w) <= Hops(u, v) + 1
<1>1. w \in Reach(u)
  BY ReachStep
<1>2. PICK p : Joins(p, u, v) /\ Len(p) = Hops(u, v)
  BY HopsFacts
<1>3. PICK q : Joins(q, u, w) /\ Len(q) <= Len(p) + 1
  BY <1>2, PathGoesOn
<1>4. Hops(u, w) <= Len(q) /\ Hops(u, w) \in Nat /\ Len(q) \in Nat /\ Hops(u, v) \in Nat
  BY <1>1, <1>3, HopsFacts DEF Joins, IsPath
<1> QED
  BY <1>1, <1>2, <1>3, <1>4

\* The last arc of a shortest path.
LEMMA HopsBack ==
  ASSUME NEW u \in Vertex, NEW w \in Reach(u), w # u
  PROVE  \E v \in Reach(u) : Arc(v, w) /\ Hops(u, v) + 1 <= Hops(u, w)
<1>1. PICK p : Joins(p, u, w) /\ Len(p) = Hops(u, w)
  BY HopsFacts
<1> DEFINE n == Len(p)
<1>2. p \in Seq(Vertex) /\ n \in Nat \ {0} /\ n # 1 /\ p[1] = u /\ p[n] = w /\ IsPath(p)
  BY <1>1 DEF Joins, IsPath
<1>3. n - 1 \in 1 .. n - 1 /\ n - 1 \in 1 .. n /\ 1 \in 1 .. n /\ (n - 1) + 1 = n /\ (n - 1) - 1 + 1 = n - 1
  BY <1>2
<1> DEFINE v == p[n - 1]
           q == SubSeq(p, 1, n - 1)
<1>4. Arc(v, w) /\ v \in Vertex
  BY <1>2, <1>3 DEF IsPath
<1>5. Joins(q, u, v) /\ Len(q) = n - 1
  BY <1>2, <1>3, PartOfPath
<1> HIDE DEF q, v
<1>6. v \in Reach(u)
  BY <1>4, <1>5 DEF Reach
<1>7. Hops(u, v) <= n - 1 /\ Hops(u, v) \in Nat
  BY <1>5, <1>6, HopsFacts
<1>8. Hops(u, v) + 1 <= Hops(u, w)
  BY <1>1, <1>2, <1>7
<1> QED
  BY <1>4, <1>6, <1>8
------------------------------------------------------------------------------
\* Breadth-first search.

BfsPlaces == Seq(Vertex) \X Place \X Place

BfsBody(x, f) ==
  LET q == x[1]
      i == x[2]
      j == x[3]
      u == adj[q[i]][j].to
  IN  IF i > Len(q) THEN q
      ELSE IF j > Len(adj[q[i]]) THEN f[<<q, i + 1, 1>>]
      ELSE f[<<IF Contains(q, u) THEN q ELSE Append(q, u), i, j + 1>>]

\* The vertices of the queue can be reached, each once, nearer ones first.
BfsQueue(src, q) ==
  /\ q \in Seq(Vertex) /\ Distinct(q) /\ Len(q) > 0 /\ q[1] = src
  /\ \A k \in 1 .. Len(q) : q[k] \in Reach(src)
  /\ \A k, l \in 1 .. Len(q) : k <= l => Hops(src, q[k]) <= Hops(src, q[l])

\* The arcs of the vertices expanded lead to the queue.
BfsDone(q, i) == \A k \in 1 .. Len(q), y \in Vertex : k < i /\ Arc(q[k], y) => y \in ToSet(q)

\* While the vertex at place i is expanded, its first j - 1 arcs lead to the
\* queue, which has all vertices as near as it, and none that is two farther.
BfsFront(src, q, i, j) ==
  /\ \A k \in 1 .. Len(adj[q[i]]) : k < j => adj[q[i]][k].to \in ToSet(q)
  /\ \A l \in 1 .. Len(q) : Hops(src, q[l]) <= Hops(src, q[i]) + 1
  /\ \A v \in Reach(src) : Hops(src, v) <= Hops(src, q[i]) => v \in ToSet(q)

BfsInv(src, q, i, j) ==
  /\ BfsQueue(src, q)
  /\ BfsDone(q, i)
  /\ i <= Len(q) => BfsFront(src, q, i, j)

LEMMA BfsStarts ==
  ASSUME NEW src \in Vertex
  PROVE  BfsInv(src, <<src>>, 1, 1)
<1> DEFINE q == <<src>>
<1>1. q \in Seq(Vertex) /\ Len(q) = 1 /\ q[1] = src /\ src \in ToSet(q)
  BY DEF ToSet
<1>2. \A k \in 1 .. Len(q) : k = 1
  BY <1>1
<1>3. src \in Reach(src) /\ Hops(src, src) = 1
  BY ReachStart, HopsStart
<1> HIDE DEF q
<1>4. BfsQueue(src, q)
  BY <1>1, <1>2, <1>3 DEF BfsQueue, Distinct
<1>5. BfsDone(q, 1)
  BY <1>2 DEF BfsDone
<1>6. ASSUME NEW v \in Reach(src), Hops(src, v) <= Hops(src, q[1]) PROVE v \in ToSet(q)
  <2> SUFFICES ASSUME v # src PROVE FALSE
    BY <1>1
  <2>1. PICK w \in Reach(src) : Hops(src, w) + 1 <= Hops(src, v)
    BY HopsBack
  <2>2. Hops(src, w) \in Nat \ {0} /\ Hops(src, v) \in Nat
    BY HopsFacts
  <2> QED
    BY <1>1, <1>3, <1>6, <2>1, <2>2
<1>7. \A k \in 1 .. Len(adj[q[1]]) : ~(k < 1)
  OBVIOUS
<1>8. \A l \in 1 .. Len(q) : Hops(src, q[l]) <= Hops(src, q[1]) + 1
  BY <1>1, <1>2, <1>3
<1>9. BfsFront(src, q, 1, 1)
  BY <1>6, <1>7, <1>8 DEF BfsFront
<1> QED
  BY <1>4, <1>5, <1>9 DEF BfsInv, q

\* The next vertex of the queue is expanded.
LEMMA BfsMovesOn ==
  ASSUME GraphInv, NEW src \in Vertex, NEW q, NEW i \in Nat \ {0}, NEW j \in Nat, i <= Len(q), j > Len(adj[q[i]]),
         BfsInv(src, q, i, j)
  PROVE  BfsInv(src, q, i + 1, 1)
<1>1. /\ q \in Seq(Vertex) /\ Len(q) \in Nat /\ i \in 1 .. Len(q) /\ q[i] \in Vertex
      /\ \A k \in 1 .. Len(q) : q[k] \in Reach(src) /\ Hops(src, q[k]) \in Nat
      /\ \A k, l \in 1 .. Len(q) : k <= l => Hops(src, q[k]) <= Hops(src, q[l])
  BY HopsFacts, Members DEF BfsInv, BfsQueue
<1>2. /\ \A k \in 1 .. Len(adj[q[i]]) : k < j => adj[q[i]][k].to \in ToSet(q)
      /\ \A l \in 1 .. Len(q) : Hops(src, q[l]) <= Hops(src, q[i]) + 1
      /\ \A v \in Reach(src) : Hops(src, v) <= Hops(src, q[i]) => v \in ToSet(q)
  BY DEF BfsInv, BfsFront
<1>3. BfsDone(q, i + 1)
  <2> SUFFICES ASSUME NEW k \in 1 .. Len(q), NEW y \in Vertex, k < i + 1, Arc(q[k], y) PROVE y \in ToSet(q)
    BY DEF BfsDone
  <2>1. CASE k < i
    BY <2>1 DEF BfsInv, BfsDone
  <2>2. CASE ~(k < i)
    <3>1. k = i
      BY <2>2
    <3>2. PICK l \in 1 .. Len(adj[q[i]]) : adj[q[i]][l].to = y
      BY <1>1, <3>1, HeadsAreArcs
    <3>3. l < j
      BY <1>1, HeadsAreArcs
    <3> QED
      BY <1>2, <3>2, <3>3
  <2> QED
    BY <2>1, <2>2
<1>4. ASSUME i + 1 <= Len(q) PROVE BfsFront(src, q, i + 1, 1)
  <2>1. i + 1 \in 1 .. Len(q) /\ i <= i + 1
    BY <1>1, <1>4
  <2>2. Hops(src, q[i]) <= Hops(src, q[i + 1]) /\ Hops(src, q[i + 1]) <= Hops(src, q[i]) + 1
    BY <1>1, <1>2, <2>1
  <2>3. \A l \in 1 .. Len(q) : Hops(src, q[l]) <= Hops(src, q[i + 1]) + 1
    <3> TAKE l \in 1 .. Len(q)
    <3>1. Hops(src, q[l]) <= Hops(src, q[i]) + 1
      BY <1>2
    <3> QED
      BY <1>1, <2>1, <2>2, <3>1
  <2>4. ASSUME NEW v \in Reach(src), Hops(src, v) <= Hops(src, q[i + 1]) PROVE v \in ToSet(q)
    <3>1. Hops(src, v) \in Nat \ {0} /\ Hops(src, q[i]) \in Nat /\ Hops(src, q[i + 1]) \in Nat
      BY <1>1, <2>1, HopsFacts
    <3>2. CASE Hops(src, v) <= Hops(src, q[i])
      BY <1>2, <3>2
    <3>3. CASE ~(Hops(src, v) <= Hops(src, q[i]))
      <4>1. CASE v = src
        <5>1. src \in ToSet(q)
          <6>1. 1 \in 1 .. Len(q) /\ q[1] = src
            BY <1>1 DEF BfsInv, BfsQueue
          <6> QED
            BY <1>1, <6>1, Members
        <5> QED
          BY <4>1, <5>1
      <4>2. CASE v # src
        <5>1. PICK w \in Reach(src) : Arc(w, v) /\ Hops(src, w) + 1 <= Hops(src, v)
          BY <4>2, HopsBack
        <5>2. Hops(src, w) \in Nat
          BY HopsFacts
        <5>3. Hops(src, w) <= Hops(src, q[i]) /\ ~(Hops(src, q[i + 1]) <= Hops(src, w))
          BY <2>2, <2>4, <3>1, <3>3, <5>1, <5>2
        <5>4. w \in ToSet(q)
          BY <1>2, <5>3
        <5>5. PICK k \in 1 .. Len(q) : q[k] = w
          BY <1>1, <5>4, Members
        <5>6. k < i + 1
          <6>1. ~(i + 1 <= k)
            BY <1>1, <2>1, <5>3, <5>5
          <6> QED
            BY <6>1
        <5>7. v \in Vertex
          BY ReachClosed
        <5> QED
          BY <1>3, <5>1, <5>5, <5>6, <5>7 DEF BfsDone
      <4> QED
        BY <4>1, <4>2
    <3> QED
      BY <3>2, <3>3
  <2>5. \A k \in 1 .. Len(adj[q[i + 1]]) : ~(k < 1)
    OBVIOUS
  <2> QED
    BY <2>3, <2>4, <2>5 DEF BfsFront
<1> QED
  BY <1>3, <1>4 DEF BfsInv

\* The next arc leads to a vertex already queued.
LEMMA BfsSkips ==
  ASSUME GraphInv, NEW src \in Vertex, NEW q, NEW i \in Nat \ {0}, NEW j \in Nat \ {0}, i <= Len(q),
         BfsInv(src, q, i, j), j <= Len(adj[q[i]]), adj[q[i]][j].to \in ToSet(q)
  PROVE  BfsInv(src, q, i, j + 1)
<1>1. \A k \in Nat : k < j + 1 => k < j \/ k = j
  OBVIOUS
<1>2. \A k \in 1 .. Len(adj[q[i]]) : k \in Nat
  OBVIOUS
<1>3. BfsFront(src, q, i, j + 1)
  <2> SUFFICES ASSUME NEW k \in 1 .. Len(adj[q[i]]), k < j + 1 PROVE adj[q[i]][k].to \in ToSet(q)
    BY DEF BfsInv, BfsFront
  <2> QED
    BY <1>1, <1>2 DEF BfsInv, BfsFront
<1> QED
  BY <1>3 DEF BfsInv

\* It leads to a new vertex, which is one farther.
LEMMA BfsQueues ==
  ASSUME GraphInv, NEW src \in Vertex, NEW q, NEW i \in Nat \ {0}, NEW j \in Nat \ {0}, i <= Len(q),
         BfsInv(src, q, i, j), j <= Len(adj[q[i]]), NEW u, u = adj[q[i]][j].to, u \notin ToSet(q)
  PROVE  BfsInv(src, Append(q, u), i, j + 1)
<1> DEFINE r == Append(q, u)
           n == Len(q)
<1>1. /\ q \in Seq(Vertex) /\ n \in Nat \ {0} /\ i \in 1 .. n /\ q[i] \in Vertex /\ Distinct(q) /\ q[1] = src
      /\ \A k \in 1 .. n : q[k] \in Reach(src) /\ Hops(src, q[k]) \in Nat
      /\ \A k, l \in 1 .. n : k <= l => Hops(src, q[k]) <= Hops(src, q[l])
  BY HopsFacts, Members DEF BfsInv, BfsQueue
<1>2. /\ \A k \in 1 .. Len(adj[q[i]]) : k < j => adj[q[i]][k].to \in ToSet(q)
      /\ \A l \in 1 .. n : Hops(src, q[l]) <= Hops(src, q[i]) + 1
      /\ \A v \in Reach(src) : Hops(src, v) <= Hops(src, q[i]) => v \in ToSet(q)
  BY DEF BfsInv, BfsFront
<1>3. u \in Vertex /\ Arc(q[i], u)
  <2>1. Len(adj[q[i]]) \in Nat /\ j \in 1 .. Len(adj[q[i]])
    BY <1>1, HeadsAreArcs
  <2> QED
    BY <1>1, <2>1, HeadsAreArcs
<1>4. u \in Reach(src) /\ Hops(src, u) <= Hops(src, q[i]) + 1 /\ Hops(src, u) \in Nat
  BY <1>1, <1>3, HopsStep, HopsFacts
<1>5. Hops(src, u) = Hops(src, q[i]) + 1
  <2>1. ~(Hops(src, u) <= Hops(src, q[i]))
    BY <1>2, <1>4
  <2> QED
    BY <1>1, <1>4, <2>1
<1>6. /\ r \in Seq(Vertex) /\ Len(r) = n + 1 /\ r[n + 1] = u /\ \A k \in 1 .. n : r[k] = q[k]
      /\ ToSet(r) = ToSet(q) \cup {u} /\ Distinct(r)
  BY <1>1, <1>3, Appended
<1> HIDE DEF r
<1>7. i \in 1 .. Len(r) /\ r[i] = q[i] /\ 1 \in 1 .. n /\ \A k \in 1 .. Len(r) : k = n + 1 \/ k \in 1 .. n
  <2>1. n \in Nat \ {0} /\ i \in 1 .. n /\ Len(r) = n + 1 /\ \A k \in 1 .. n : r[k] = q[k]
    BY <1>1, <1>6
  <2> HIDE DEF n
  <2>2. i \in 1 .. Len(r) /\ 1 \in 1 .. n /\ \A k \in 1 .. Len(r) : k = n + 1 \/ k \in 1 .. n
    BY <2>1
  <2> QED
    BY <2>1, <2>2
<1>8. ASSUME NEW l \in 1 .. Len(r)
      PROVE  Hops(src, r[l]) \in Nat /\ Hops(src, r[l]) <= Hops(src, r[i]) + 1 /\ r[l] \in Reach(src)
  <2>1. CASE l = n + 1
    BY <1>1, <1>4, <1>6, <1>7, <2>1
  <2>2. CASE l \in 1 .. n
    BY <1>1, <1>2, <1>6, <1>7, <2>2
  <2> QED
    BY <1>7, <2>1, <2>2
<1>9. ASSUME NEW k \in 1 .. Len(r), NEW l \in 1 .. Len(r), k <= l PROVE Hops(src, r[k]) <= Hops(src, r[l])
  <2>1. CASE l = n + 1
    BY <1>5, <1>6, <1>7, <1>8, <2>1
  <2>2. CASE l \in 1 .. n
    <3>1. k \in 1 .. n
      BY <1>1, <1>9, <2>2
    <3> QED
      BY <1>1, <1>6, <1>9, <2>2, <3>1
  <2> QED
    BY <1>7, <2>1, <2>2
<1>10. BfsQueue(src, r)
  BY <1>1, <1>6, <1>7, <1>8, <1>9 DEF BfsQueue
<1>11. BfsDone(r, i)
  <2> SUFFICES ASSUME NEW k \in 1 .. Len(r), NEW y \in Vertex, k < i, Arc(r[k], y) PROVE y \in ToSet(r)
    BY DEF BfsDone
  <2>1. k \in 1 .. n /\ r[k] = q[k]
    BY <1>1, <1>6
  <2> QED
    BY <1>6, <2>1 DEF BfsInv, BfsDone
<1>12. ASSUME NEW k \in 1 .. Len(adj[r[i]]), k < j + 1 PROVE adj[r[i]][k].to \in ToSet(r)
  <2>1. k = j \/ k < j
    BY <1>12
  <2> QED
    BY <1>2, <1>6, <1>7, <2>1
<1>13. BfsFront(src, r, i, j + 1)
  BY <1>2, <1>6, <1>7, <1>8, <1>12 DEF BfsFront
<1> QED
  BY <1>10, <1>11, <1>13 DEF BfsInv, r

\* When the queue is empty it has held everything in reach.
LEMMA BfsEnds ==
  ASSUME NEW src \in Vertex, NEW q, NEW i \in Nat, NEW j, i > Len(q), BfsInv(src, q, i, j)
  PROVE  BfsQueue(src, q) /\ ToSet(q) = Reach(src)
<1>1. q \in Seq(Vertex) /\ Len(q) \in Nat \ {0} /\ q[1] = src /\ \A k \in 1 .. Len(q) : q[k] \in Reach(src)
  BY DEF BfsInv, BfsQueue
<1>2. Closed(ToSet(q))
  <2> SUFFICES ASSUME NEW x \in ToSet(q), NEW y \in Vertex, Arc(x, y) PROVE y \in ToSet(q)
    BY DEF Closed
  <2>1. PICK k \in 1 .. Len(q) : q[k] = x
    BY <1>1, Members
  <2>2. k < i
    BY <1>1
  <2> QED
    BY <2>1, <2>2 DEF BfsInv, BfsDone
<1>3. src \in ToSet(q) /\ ToSet(q) \subseteq Reach(src)
  <2>1. 1 \in 1 .. Len(q)
    BY <1>1
  <2> QED
    BY <1>1, <2>1, Members
<1> QED
  BY <1>2, <1>3, ReachLeast DEF BfsInv

\* out has the heads of the arcs of every vertex.
Lists(out) ==
  /\ out \in [Vertex -> Seq(Vertex)]
  /\ \A u \in Vertex : Len(out[u]) <= 2 * added
  /\ \A u, y \in Vertex : Arc(u, y) <=> \E k \in 1 .. Len(out[u]) : out[u][k] = y

LEMMA HeadsAreLists ==
  ASSUME GraphInv
  PROVE  /\ Lists(Heads) /\ Lists(DagHeads)
         /\ \A u \in Vertex : /\ Len(Heads[u]) = Len(adj[u])
                              /\ \A k \in 1 .. Len(adj[u]) : Heads[u][k] = adj[u][k].to
<1>1. ASSUME NEW u \in Vertex
      PROVE  /\ Heads[u] \in Seq(Vertex) /\ Len(Heads[u]) = Len(adj[u])
             /\ \A k \in 1 .. Len(adj[u]) : Heads[u][k] = adj[u][k].to
             /\ Len(adj[u]) \in Nat
  <2>1. /\ Len(adj[u]) \in Nat /\ DOMAIN adj[u] = 1 .. Len(adj[u])
        /\ \A k \in 1 .. Len(adj[u]) : adj[u][k].to \in Vertex
    <3>1. adj[u] \in Seq(Edge)
      BY DEF GraphInv, Adjacency
    <3>2. DOMAIN adj[u] = 1 .. Len(adj[u])
      BY <3>1
    <3> QED
      BY <3>2, HeadsAreArcs
  <2>2. Heads[u] = [k \in 1 .. Len(adj[u]) |-> adj[u][k].to]
    BY <2>1 DEF Heads
  <2>3. Heads[u] \in [1 .. Len(adj[u]) -> Vertex]
    BY <2>1, <2>2
  <2>4. Heads[u] \in Seq(Vertex) /\ Len(Heads[u]) = Len(adj[u])
    BY <2>1, <2>3
  <2> QED
    BY <2>1, <2>2, <2>4
<1>2. Heads = [u \in Vertex |-> Heads[u]] /\ DagHeads = [u \in Vertex |-> Reverse(Heads[u])]
  BY DEF Heads, DagHeads
<1>3. Heads \in [Vertex -> Seq(Vertex)]
  <2>1. \A u \in Vertex : Heads[u] \in Seq(Vertex)
    BY <1>1
  <2> QED
    BY <1>2, <2>1
<1>4. \A u \in Vertex : Len(adj[u]) <= 2 * added
  BY DEF GraphInv
<1>5. \A u, y \in Vertex : Arc(u, y) <=> \E k \in 1 .. Len(adj[u]) : adj[u][k].to = y
  BY HeadsAreArcs
<1>6. Lists(Heads)
  <2>1. \A u \in Vertex : Len(Heads[u]) <= 2 * added
    BY <1>1, <1>4
  <2>2. ASSUME NEW u \in Vertex, NEW y \in Vertex
        PROVE  Arc(u, y) <=> \E k \in 1 .. Len(Heads[u]) : Heads[u][k] = y
    BY SMTT(20), <1>1, <1>5
  <2> QED
    BY <1>3, <2>1, <2>2 DEF Lists
<1>7. ASSUME NEW u \in Vertex
      PROVE  /\ DagHeads[u] \in Seq(Vertex) /\ Len(DagHeads[u]) = Len(Heads[u])
             /\ \A k \in 1 .. Len(Heads[u]) : DagHeads[u][k] = Heads[u][Len(Heads[u]) - k + 1]
  <2> DEFINE s == Heads[u]
             n == Len(s)
             r == [k \in 1 .. n |-> s[n - k + 1]]
  <2>1. s \in Seq(Vertex) /\ n \in Nat
    BY <1>1
  <2>2. DagHeads[u] = r
    BY <1>2 DEF Reverse
  <2>3. \A k \in 1 .. n : s[n - k + 1] \in Vertex
    <3> HIDE DEF s, n
    <3>1. \A k \in 1 .. n : n - k + 1 \in 1 .. n
      BY <2>1
    <3> QED
      BY <2>1, <3>1 DEF n
  <2> HIDE DEF s, n
  <2>4. r \in [1 .. n -> Vertex]
    BY <2>3
  <2>5. r \in Seq(Vertex) /\ Len(r) = n
    BY <2>1, <2>4
  <2>6. \A k \in 1 .. n : r[k] = s[n - k + 1]
    OBVIOUS
  <2> HIDE DEF r
  <2> QED
    BY <2>2, <2>5, <2>6 DEF s, n
<1>8. Lists(DagHeads)
  <2>1. DagHeads \in [Vertex -> Seq(Vertex)]
    <3>1. \A u \in Vertex : DagHeads[u] \in Seq(Vertex)
      BY <1>7
    <3>2. DagHeads = [u \in Vertex |-> DagHeads[u]]
      BY <1>2
    <3> QED
      BY <3>1, <3>2
  <2>2. \A u \in Vertex : Len(DagHeads[u]) <= 2 * added
    BY <1>1, <1>4, <1>7
  <2>3. ASSUME NEW u \in Vertex, NEW y \in Vertex
        PROVE  Arc(u, y) <=> \E k \in 1 .. Len(DagHeads[u]) : DagHeads[u][k] = y
    <3> DEFINE n == Len(Heads[u])
    <3>1. n \in Nat /\ Len(DagHeads[u]) = n /\ \A k \in 1 .. n : DagHeads[u][k] = Heads[u][n - k + 1]
      BY <1>1, <1>7
    <3>2. Arc(u, y) <=> \E k \in 1 .. n : Heads[u][k] = y
      BY <1>6 DEF Lists
    <3> HIDE DEF n
    <3>3. \A k \in 1 .. n : n - k + 1 \in 1 .. n /\ n - (n - k + 1) + 1 = k
      BY <3>1
    <3> QED
      BY <3>1, <3>2, <3>3
  <2> QED
    BY <2>1, <2>2, <2>3 DEF Lists
<1> QED
  BY <1>1, <1>6, <1>8

BfsNext(x) ==
  LET q == x[1]
      i == x[2]
      j == x[3]
      u == adj[q[i]][j].to
  IN  IF i > Len(q) THEN x
      ELSE IF j > Len(adj[q[i]]) THEN <<q, i + 1, 1>>
      ELSE <<IF Contains(q, u) THEN q ELSE Append(q, u), i, j + 1>>

BfsDrains(m) ==
  Drains(m, BfsPlaces, [x \in BfsPlaces |-> x[1]], [x \in BfsPlaces |-> x[2]], [x \in BfsPlaces |-> x[3]],
         [x \in BfsPlaces |-> Missing(ToSet(x[1]))], Heads)

LEMMA BfsMeasured ==
  ASSUME GraphInv
  PROVE  \E m \in [BfsPlaces -> Nat] : BfsDrains(m)
<1> DEFINE Queues == [x \in BfsPlaces |-> x[1]]
           At == [x \in BfsPlaces |-> x[2]]
           J == [x \in BfsPlaces |-> x[3]]
           pending == [x \in BfsPlaces |-> Missing(ToSet(x[1]))]
           B == 2 * added
<1>1. \A x \in BfsPlaces : x[1] \in Seq(Vertex) /\ x[2] \in Place /\ x[3] \in Place
  BY DEF BfsPlaces
<1>2. Queues \in [BfsPlaces -> Seq(Vertex)] /\ At \in [BfsPlaces -> Place] /\ J \in [BfsPlaces -> Place]
  BY <1>1
<1>3. pending \in [BfsPlaces -> Nat]
  <2>1. \A x \in BfsPlaces : Missing(ToSet(x[1])) \in Nat
    BY <1>1, Members, MissingFacts
  <2> QED
    BY <2>1
<1>4. Heads \in [Vertex -> Seq(Vertex)] /\ B \in Nat /\ \A v \in Vertex : Len(Heads[v]) <= B
  BY HeadsAreLists DEF Lists, GraphInv
<1> HIDE DEF Queues, At, J, pending, B
<1>5. \E m \in [BfsPlaces -> Nat] : Drains(m, BfsPlaces, Queues, At, J, pending, Heads)
  BY <1>2, <1>3, <1>4, QueueMeasure
<1> QED
  BY <1>5 DEF BfsDrains, Queues, At, J, pending

LEMMA BfsGoesOn ==
  ASSUME GraphInv, NEW x \in BfsPlaces
  PROVE  /\ BfsNext(x) \in BfsPlaces
         /\ \A m \in [BfsPlaces -> Nat] : BfsDrains(m) /\ ~(x[2] > Len(x[1])) => m[BfsNext(x)] < m[x]
<1> DEFINE q == x[1]
           i == x[2]
           j == x[3]
           u == adj[q[i]][j].to
           r == IF Contains(q, u) THEN q ELSE Append(q, u)
           y == BfsNext(x)
           Queues == [z \in BfsPlaces |-> z[1]]
           At == [z \in BfsPlaces |-> z[2]]
           J == [z \in BfsPlaces |-> z[3]]
           pending == [z \in BfsPlaces |-> Missing(ToSet(z[1]))]
<1>1. q \in Seq(Vertex) /\ i \in Nat \ {0} /\ j \in Nat \ {0} /\ Len(q) \in Nat /\ x = <<q, i, j>>
  BY DEF BfsPlaces, Place
<1>2. i + 1 \in Place /\ 1 \in Place /\ j + 1 \in Place /\ i \in Place
  BY <1>1 DEF Place
<1>3. \A z \in BfsPlaces : Queues[z] = z[1] /\ At[z] = z[2] /\ J[z] = z[3] /\ pending[z] = Missing(ToSet(z[1]))
  OBVIOUS
<1>4. \A m \in [BfsPlaces -> Nat] : BfsDrains(m) =>
        \A z, w \in BfsPlaces : Advances(Queues, At, J, pending, Heads, z, w) => m[w] < m[z]
  BY DEF BfsDrains, Drains
<1>5. /\ i > Len(q) => y = x
      /\ ~(i > Len(q)) /\ j > Len(adj[q[i]]) => y = <<q, i + 1, 1>>
      /\ ~(i > Len(q)) /\ ~(j > Len(adj[q[i]])) => y = <<r, i, j + 1>>
  BY DEF BfsNext
<1> HIDE DEF q, i, j, y, Queues, At, J, pending
<1>6. CASE i > Len(q)
  BY <1>5, <1>6 DEF i, q, y
<1>7. ASSUME ~(i > Len(q)) PROVE y \in BfsPlaces /\ Advances(Queues, At, J, pending, Heads, x, y)
  <2>1. i \in 1 .. Len(q) /\ q[i] \in Vertex /\ i <= Len(q)
    BY <1>1, <1>7
  <2>2. /\ Queues[x] = q /\ At[x] = i /\ J[x] = j /\ pending[x] = Missing(ToSet(q))
    BY <1>3 DEF q, i, j
  <2>3. CASE j > Len(adj[q[i]])
    <3>1. y = <<q, i + 1, 1>> /\ y \in BfsPlaces
      BY <1>1, <1>2, <1>5, <1>7, <2>3 DEF BfsPlaces
    <3>2. Queues[y] = q /\ At[y] = i + 1 /\ pending[y] = Missing(ToSet(q))
      BY <1>3, <3>1
    <3>3. Missing(ToSet(q)) + Len(q) <= Missing(ToSet(q)) + Len(q)
      BY <1>1, Members, MissingFacts
    <3> QED
      BY <2>1, <2>2, <3>1, <3>2, <3>3 DEF Advances
  <2>4. CASE ~(j > Len(adj[q[i]]))
    <3>1. j \in 1 .. Len(adj[q[i]]) /\ j <= Len(adj[q[i]])
      BY <1>1, <2>1, <2>4, HeadsAreArcs
    <3>2. u \in Vertex
      BY <2>1, <3>1, HeadsAreArcs
    <3> HIDE DEF u
    <3>3. /\ r \in Seq(Vertex) /\ Len(q) <= Len(r) /\ r[i] = q[i]
          /\ Missing(ToSet(r)) + Len(r) <= Missing(ToSet(q)) + Len(q) /\ Len(r) \in Nat
      <4>1. CASE Contains(q, u)
        BY <1>1, <4>1, Members, MissingFacts
      <4>2. CASE ~Contains(q, u)
        <5>1. u \notin ToSet(q) /\ ToSet(q) \subseteq Vertex
          BY <1>1, <4>2, Members
        <5>2. /\ r \in Seq(Vertex) /\ Len(r) = Len(q) + 1 /\ r[i] = q[i] /\ ToSet(r) = ToSet(q) \cup {u}
          BY <1>1, <2>1, <3>2, <4>2, Appended
        <5>3. Missing(ToSet(r)) = Missing(ToSet(q)) - 1 /\ Missing(ToSet(q)) \in Nat
          BY <3>2, <5>1, <5>2, MissingFacts
        <5> HIDE DEF r
        <5> QED
          BY <1>1, <5>2, <5>3
      <4> QED
        BY <4>1, <4>2
    <3> HIDE DEF r
    <3>4. y = <<r, i, j + 1>> /\ y \in BfsPlaces
      BY <1>1, <1>2, <1>5, <1>7, <2>4, <3>3 DEF BfsPlaces
    <3>5. Queues[y] = r /\ At[y] = i /\ J[y] = j + 1 /\ pending[y] = Missing(ToSet(r))
      BY <1>3, <3>4
    <3>6. i <= Len(r) /\ j <= Len(Heads[q[i]])
      BY <1>1, <2>1, <3>1, <3>3, HeadsAreLists
    <3> QED
      BY <2>1, <2>2, <3>3, <3>4, <3>5, <3>6 DEF Advances
  <2> QED
    BY <2>3, <2>4
<1>8. CASE ~(i > Len(q))
  BY <1>4, <1>7, <1>8 DEF q, i, y
<1> QED
  BY <1>6, <1>8

\* The queue graph_bfs leaves.
LEMMA BfsReaches ==
  ASSUME GraphInv, NEW src \in Vertex
  PROVE  BfsQueue(src, Bfs(src)) /\ ToSet(Bfs(src)) = Reach(src)
<1> DEFINE V == Seq(Vertex)
           Loop(f) == [x \in BfsPlaces |-> BfsBody(x, f)]
           bfs == CHOOSE f : f = Loop(f)
           s == [x \in BfsPlaces |-> x[2] > Len(x[1])]
           b == [x \in BfsPlaces |-> x[1]]
           nx == [x \in BfsPlaces |-> BfsNext(x)]
           T == {x \in BfsPlaces : BfsInv(src, x[1], x[2], x[3])}
           R == {q \in V : BfsQueue(src, q) /\ ToSet(q) = Reach(src)}
           x0 == << <<src>>, 1, 1 >>
<1>1. Bfs(src) = bfs[x0]
  BY DEF Bfs, BfsPlaces, BfsBody
<1>2. \A x \in BfsPlaces : x[1] \in V /\ x[2] \in Nat \ {0} /\ x[3] \in Nat \ {0} /\ x = <<x[1], x[2], x[3]>>
  BY DEF BfsPlaces, Place
<1>3. s \in [BfsPlaces -> BOOLEAN] /\ b \in [BfsPlaces -> V] /\ nx \in [BfsPlaces -> BfsPlaces]
  BY <1>2, BfsGoesOn
<1>4. PICK m \in [BfsPlaces -> Nat] : BfsDrains(m)
  BY BfsMeasured
<1>5. \A x \in BfsPlaces : ~s[x] => m[nx[x]] < m[x]
  BY <1>4, BfsGoesOn
<1>6. ASSUME NEW f PROVE \A x \in BfsPlaces : BfsBody(x, f) = IF s[x] THEN b[x] ELSE f[nx[x]]
  BY DEF BfsBody, BfsNext
<1>7. x0 \in T
  <2>1. <<src>> \in V /\ 1 \in Place
    BY DEF Place
  <2>2. x0 \in BfsPlaces /\ x0[1] = <<src>> /\ x0[2] = 1 /\ x0[3] = 1
    BY <2>1 DEF BfsPlaces
  <2> HIDE DEF x0
  <2> QED
    BY <2>2, BfsStarts
<1>8. ASSUME NEW x \in BfsPlaces, x \in T, ~s[x] PROVE nx[x] \in T
  <2> DEFINE q == x[1]
             i == x[2]
             j == x[3]
             u == adj[q[i]][j].to
             y == BfsNext(x)
  <2>1. BfsInv(src, q, i, j) /\ ~(i > Len(q)) /\ nx[x] = y /\ y \in BfsPlaces
    BY <1>3, <1>8
  <2>2. q \in V /\ i \in Nat \ {0} /\ j \in Nat \ {0} /\ Len(q) \in Nat
    BY <1>2, Members
  <2>3. i <= Len(q) /\ q[i] \in Vertex /\ Len(adj[q[i]]) \in Nat
    <3>1. i \in 1 .. Len(q)
      BY <2>1, <2>2
    <3>2. q[i] \in Vertex
      BY <2>2, <3>1, Members
    <3> QED
      BY <3>1, <3>2, HeadsAreArcs
  <2>4. y = IF j > Len(adj[q[i]]) THEN <<q, i + 1, 1>>
            ELSE <<IF Contains(q, u) THEN q ELSE Append(q, u), i, j + 1>>
    BY <2>1 DEF BfsNext
  <2>5. Contains(q, u) <=> u \in ToSet(q)
    BY <2>2, Members
  <2> HIDE DEF q, i, j, y, s, nx
  <2>6. BfsInv(src, y[1], y[2], y[3])
    <3>1. CASE j > Len(adj[q[i]])
      BY <2>1, <2>2, <2>3, <2>4, <3>1, BfsMovesOn
    <3>2. CASE ~(j > Len(adj[q[i]])) /\ Contains(q, u)
      <4>1. j <= Len(adj[q[i]]) /\ adj[q[i]][j].to \in ToSet(q)
        BY <2>2, <2>3, <2>5, <3>2
      <4>2. BfsInv(src, q, i, j + 1)
        BY <2>1, <2>2, <2>3, <4>1, BfsSkips
      <4> QED
        BY <2>4, <3>2, <4>2
    <3>3. CASE ~(j > Len(adj[q[i]])) /\ ~Contains(q, u)
      <4>1. BfsInv(src, Append(q, u), i, j + 1)
        BY <2>1, <2>2, <2>3, <2>5, <3>3, BfsQueues
      <4> QED
        BY <2>4, <3>3, <4>1
    <3> QED
      BY <3>1, <3>2, <3>3
  <2> QED
    BY <2>1, <2>6
<1>9. ASSUME NEW x \in BfsPlaces, x \in T, s[x] PROVE b[x] \in R
  <2>1. BfsInv(src, x[1], x[2], x[3]) /\ x[2] > Len(x[1]) /\ x[1] \in V /\ x[2] \in Nat /\ b[x] = x[1]
    BY <1>2, <1>9
  <2>2. BfsQueue(src, x[1]) /\ ToSet(x[1]) = Reach(src)
    BY <2>1, BfsEnds
  <2> QED
    BY <2>1, <2>2
<1> HIDE DEF s, b, nx, T, x0
<1>10. PICK f \in [BfsPlaces -> V] : Loops(f, BfsPlaces, s, b, nx)
  <2> HIDE DEF V
  <2> QED
    BY <1>3, <1>5, LoopRecursion
<1>11. f = Loop(f)
  BY <1>6, <1>10 DEF Loops
<1>12. bfs = Loop(bfs)
  <2> HIDE DEF Loop
  <2> QED
    BY <1>11
<1>13. Loops(bfs, BfsPlaces, s, b, nx)
  <2>1. \A x \in BfsPlaces : bfs[x] = BfsBody(x, bfs)
    <3> HIDE DEF bfs
    <3> QED
      BY <1>12
  <2> HIDE DEF bfs
  <2> QED
    BY <1>6, <2>1 DEF Loops
<1> HIDE DEF bfs, Loop, R
<1>14. \A x \in BfsPlaces : x \in T => bfs[x] \in R
  <2>1. Keeps(T, R, BfsPlaces, s, b, nx)
    BY <1>8, <1>9 DEF Keeps
  <2> QED
    <3>1. Halts(m, BfsPlaces, s, nx)
      BY <1>5 DEF Halts
    <3> QED
      BY ZenonT(60), <1>3, <1>4, <1>13, <2>1, <3>1, LoopResult
<1>15. bfs[x0] \in R
  BY <1>7, <1>14 DEF T
<1> QED
  BY <1>1, <1>15 DEF R

LEMMA LeastIs ==
  ASSUME NEW S \in SUBSET Nat, NEW n \in S, \A k \in S : n <= k
  PROVE  Least(S) = n
<1>1. \A k \in S : n <= k /\ n \in Nat /\ k \in Nat
  OBVIOUS
<1>2. ASSUME NEW x \in S, \A y \in S : x <= y PROVE x = n
  BY <1>1, <1>2
<1> QED
  BY <1>2 DEF Least

\* In every graph that can be built, both traversals return exactly the
\* vertices reachable from their source, once each and the source first, and
\* the queue of graph_bfs has them in the order of their distances.
THEOREM TraversalsRight == Spec => []TraversalsReachAll
<1>1. ASSUME GraphInv PROVE TraversalsReachAll
  <2> SUFFICES ASSUME NEW src \in Vertex
               PROVE  LET b == Bfs(src)
                          hops == {<<Last(p), Len(p)>> : p \in From(Paths, src)}
                          Nearest(v) == Least({h[2] : h \in {g \in hops : g[1] = v}})
                      IN  /\ \A s \in {b, Dfs(src)} :
                               ToSet(s) = Ends(From(Paths, src)) /\ IsInjective(s) /\ Head(s) = src
                          /\ \A i \in 1 .. Len(b) - 1 : Nearest(b[i]) <= Nearest(b[i + 1])
    BY DEF TraversalsReachAll
  <2> DEFINE b == Bfs(src)
             hops == {<<Last(p), Len(p)>> : p \in From(Paths, src)}
             Lengths(v) == {h[2] : h \in {g \in hops : g[1] = v}}
  <2>1. BfsQueue(src, b) /\ ToSet(b) = Reach(src)
    BY <1>1, BfsReaches
  <2>2. /\ b \in Seq(Vertex) /\ Distinct(b) /\ Len(b) > 0 /\ b[1] = src
        /\ \A k \in 1 .. Len(b) : b[k] \in Reach(src)
        /\ \A k, l \in 1 .. Len(b) : k <= l => Hops(src, b[k]) <= Hops(src, b[l])
    BY <2>1 DEF BfsQueue
  <2>3. ASSUME NEW s \in Seq(Vertex), Distinct(s), Len(s) > 0, s[1] = src, ToSet(s) = Reach(src)
        PROVE  ToSet(s) = Ends(From(Paths, src)) /\ IsInjective(s) /\ Head(s) = src
    <3>1. IsInjective(s)
      <4>1. DOMAIN s = 1 .. Len(s)
        BY <2>3
      <4> QED
        BY <2>3, <4>1 DEF IsInjective, Distinct
    <3>2. Head(s) = src
      BY <2>3
    <3> QED
      BY <2>3, <3>1, <3>2, EndsAreReach
  <2>4. ASSUME NEW v \in Reach(src) PROVE Least(Lengths(v)) = Hops(src, v)
    <3>1. \A n : n \in Lengths(v) <=> \E p \in From(Paths, src) : Last(p) = v /\ Len(p) = n
      <4> TAKE n
      <4>1. n \in Lengths(v) <=> \E h \in hops : h[1] = v /\ n = h[2]
        BY Zenon
      <4>2. \A h : h \in hops <=> \E p \in From(Paths, src) : h = <<Last(p), Len(p)>>
        BY Zenon
      <4>3. ASSUME NEW h \in hops, h[1] = v, n = h[2]
            PROVE  \E p \in From(Paths, src) : Last(p) = v /\ Len(p) = n
        BY <4>2, <4>3
      <4>4. ASSUME NEW p \in From(Paths, src), Last(p) = v, Len(p) = n
            PROVE  \E h \in hops : h[1] = v /\ n = h[2]
        <5>1. <<Last(p), Len(p)>> \in hops
          BY <4>2
        <5> QED
          BY <4>4, <5>1
      <4> QED
        BY <4>1, <4>3, <4>4
    <3>2. \A p : p \in From(Paths, src) /\ Last(p) = v <=> Joins(p, src, v)
      <4>1. \A p : IsPath(p) => Head(p) = p[1] /\ Last(p) = p[Len(p)]
        BY DEF IsPath, Last
      <4> QED
        BY <4>1, PathsAre DEF From, Joins
    <3> HIDE DEF Lengths, hops
    <3>3. \A n : n \in Lengths(v) <=> \E p : Joins(p, src, v) /\ Len(p) = n
      BY <3>1, <3>2
    <3>4. Hops(src, v) \in Lengths(v) /\ \A n \in Lengths(v) : Hops(src, v) <= n
      BY <3>3, HopsFacts
    <3>5. Lengths(v) \in SUBSET Nat
      <4>1. \A p : Joins(p, src, v) => Len(p) \in Nat
        BY DEF Joins, IsPath
      <4> QED
        BY <3>3, <4>1
    <3> QED
      BY <3>4, <3>5, LeastIs
  <2>5. \A s \in {b, Dfs(src)} : ToSet(s) = Ends(From(Paths, src)) /\ IsInjective(s) /\ Head(s) = src
    <3>1. /\ Dfs(src) \in Seq(Vertex) /\ Distinct(Dfs(src)) /\ Len(Dfs(src)) > 0 /\ Dfs(src)[1] = src
          /\ ToSet(Dfs(src)) = Reach(src)
      BY <1>1, DfsReaches
    <3> HIDE DEF b
    <3> QED
      BY <2>1, <2>2, <2>3, <3>1
  <2>6. ASSUME NEW i \in 1 .. Len(b) - 1 PROVE Least(Lengths(b[i])) <= Least(Lengths(b[i + 1]))
    <3> HIDE DEF b, Lengths
    <3>1. i \in 1 .. Len(b) /\ i + 1 \in 1 .. Len(b) /\ i <= i + 1
      BY <2>2, <2>6
    <3>2. b[i] \in Reach(src) /\ b[i + 1] \in Reach(src) /\ Hops(src, b[i]) <= Hops(src, b[i + 1])
      BY <2>2, <3>1
    <3> QED
      BY <2>4, <3>2
  <2> HIDE DEF b
  <2> QED
    BY <2>5, <2>6 DEF b
<1> QED
  BY <1>1, GraphInvHolds, PTL
------------------------------------------------------------------------------
\* Orders and cycles.

Acyclic == \A u \in Vertex : \A v \in Reach(u) : ~Arc(v, u)

LEMMA AcyclicIs == Acyclic <=> ~ \E p \in Paths : Arc(Last(p), Head(p))
<1>1. \A p : IsPath(p) => /\ Head(p) = p[1] /\ Last(p) = p[Len(p)]
                          /\ p[1] \in Vertex /\ p[Len(p)] \in Vertex
  BY DEF IsPath, Last
<1>2. ASSUME NEW p \in Paths, Arc(Last(p), Head(p)) PROVE ~Acyclic
  <2>1. IsPath(p)
    BY PathsAre
  <2> DEFINE u == p[1]
             v == p[Len(p)]
  <2>2. Joins(p, u, v) /\ u \in Vertex /\ v \in Vertex /\ Arc(v, u)
    BY <1>1, <1>2, <2>1 DEF Joins
  <2> HIDE DEF u, v
  <2> QED
    BY <2>2 DEF Acyclic, Reach
<1>3. ASSUME NEW u \in Vertex, NEW v \in Reach(u), Arc(v, u) PROVE \E p \in Paths : Arc(Last(p), Head(p))
  <2>1. PICK p : Joins(p, u, v)
    BY DEF Reach
  <2> QED
    BY <1>1, <1>3, <2>1, PathsAre DEF Joins
<1> QED
  BY <1>2, <1>3 DEF Acyclic

\* Where everything has a predecessor there is a cycle: a longest path that
\* starts there could start earlier.
LEMMA NoSource ==
  ASSUME Acyclic, NEW S \in SUBSET Vertex, \A v \in S : \E u \in S : Arc(u, v)
  PROVE  S = {}
<1> SUFFICES ASSUME NEW v0 \in S PROVE FALSE
  OBVIOUS
<1> DEFINE T == {n \in 0 .. N : \E p : IsPath(p) /\ p[1] \in S /\ Len(p) = n}
<1>1. \A p : IsPath(p) /\ p[1] \in S => Len(p) \in T
  <2> SUFFICES ASSUME NEW p, IsPath(p), p[1] \in S PROVE Len(p) \in 0 .. N
    OBVIOUS
  <2>1. p \in Seq(Vertex) /\ Len(p) \in Nat /\ \A i, k \in 1 .. Len(p) : p[i] = p[k] => i = k
    BY DEF IsPath
  <2>2. Len(p) <= N
    BY <2>1, InjectiveIsShort
  <2> QED
    BY <2>1, <2>2, VertexFacts
<1>2. T # {}
  <2>1. IsPath(<<v0>>) /\ <<v0>>[1] = v0
    BY TrivialPath DEF Joins
  <2> QED
    BY <1>1, <2>1
<1>3. PICK n \in T : \A k \in T : k <= n
  BY <1>2, VertexFacts, GreatestElement
<1>4. PICK p : IsPath(p) /\ p[1] \in S /\ Len(p) = n
  BY <1>3
<1> HIDE DEF T
<1>5. PICK u \in S : Arc(u, p[1])
  BY <1>4
<1>6. Len(p) \in Nat \ {0} /\ u \in Vertex
  BY <1>4 DEF IsPath
<1>7. CASE \A i \in 1 .. Len(p) : p[i] # u
  <2> DEFINE q == <<u>> \o p
  <2>1. /\ Joins(q, u, p[Len(p)])
        /\ Len(q) = Len(p) + 1
    BY <1>4, <1>5, <1>6, <1>7, EarlierPath
  <2> HIDE DEF q
  <2>2. IsPath(q) /\ q[1] \in S
    BY <2>1 DEF Joins
  <2>3. Len(q) <= n
    BY <1>1, <1>3, <2>2
  <2> QED
    BY <1>4, <1>6, <2>1, <2>3
<1>8. CASE \E i \in 1 .. Len(p) : p[i] = u
  <2>1. PICK i \in 1 .. Len(p) : p[i] = u
    BY <1>8
  <2> DEFINE q == SubSeq(p, 1, i)
  <2>2. 1 \in 1 .. Len(p) /\ i \in 1 .. Len(p)
    BY <1>6
  <2>3. Joins(q, p[1], p[i])
    BY <1>4, <2>2, PartOfPath
  <2> HIDE DEF q
  <2>4. p[1] \in Vertex /\ u \in Reach(p[1])
    BY <1>4, <1>6, <2>1, <2>3 DEF Reach
  <2> QED
    BY <1>5, <2>4 DEF Acyclic
<1> QED
  BY <1>7, <1>8

\* s has every vertex once, after all those with an arc to it.
Ordered(s) ==
  /\ s \in Seq(Vertex) /\ Distinct(s) /\ ToSet(s) = Vertex
  /\ \A i, k \in 1 .. Len(s) : Arc(s[i], s[k]) => i < k

LEMMA OrderedIsAcyclic ==
  ASSUME NEW s, Ordered(s)
  PROVE  Acyclic
<1>1. /\ s \in Seq(Vertex) /\ Len(s) \in Nat /\ ToSet(s) = Vertex
      /\ \A i, k \in 1 .. Len(s) : Arc(s[i], s[k]) => i < k
      /\ \A i, k \in 1 .. Len(s) : s[i] = s[k] => i = k
  BY Members DEF Ordered, Distinct
<1> SUFFICES ASSUME NEW u \in Vertex, NEW v \in Reach(u), Arc(v, u) PROVE FALSE
  BY DEF Acyclic
<1>2. PICK l \in 1 .. Len(s) : s[l] = u
  BY <1>1, Members
<1> DEFINE S == {x \in Vertex : \E i \in 1 .. Len(s) : l <= i /\ s[i] = x}
<1>3. Closed(S)
  <2> SUFFICES ASSUME NEW x \in S, NEW y \in Vertex, Arc(x, y) PROVE y \in S
    BY DEF Closed
  <2>1. PICK i \in 1 .. Len(s) : l <= i /\ s[i] = x
    OBVIOUS
  <2>2. PICK k \in 1 .. Len(s) : s[k] = y
    BY <1>1, Members
  <2>3. i < k
    BY <1>1, <2>1, <2>2
  <2>4. l <= k
    BY <1>1, <2>1, <2>3
  <2> QED
    BY <2>2, <2>4
<1>4. u \in S
  BY <1>1, <1>2
<1> HIDE DEF S
<1>5. v \in S
  BY <1>3, <1>4, ReachLeast
<1>6. PICK i \in 1 .. Len(s) : l <= i /\ s[i] = v
  BY <1>5 DEF S
<1>7. i < l
  BY <1>1, <1>2, <1>6
<1> QED
  BY <1>1, <1>6, <1>7

\* A vertex-distinct sequence of length N has every vertex.
LEMMA AllDistinct ==
  ASSUME NEW s \in Seq(Vertex), Distinct(s)
  PROVE  Len(s) = N <=> ToSet(s) = Vertex
<1>1. Len(s) \in Nat /\ DOMAIN s = 1 .. Len(s) /\ ToSet(s) \in SUBSET Vertex
  BY Members
<1>2. s \in Surjection(1 .. Len(s), ToSet(s))
  BY <1>1 DEF Surjection, ToSet
<1>3. s \in Injection(1 .. Len(s), ToSet(s))
  BY <1>1, <1>2 DEF Injection, IsInjective, Distinct, Surjection
<1>4. Cardinality(1 .. Len(s)) = Len(s) /\ IsFiniteSet(1 .. Len(s))
  BY SMTT(20), <1>1, FS_Interval
<1>5. IsFiniteSet(ToSet(s)) /\ Cardinality(ToSet(s)) = Len(s)
  <2>1. s \in Bijection(1 .. Len(s), ToSet(s))
    BY <1>2, <1>3 DEF Bijection
  <2>2. ExistsBijection(1 .. Len(s), ToSet(s))
    BY <2>1 DEF ExistsBijection
  <2> QED
    BY <1>1, <1>4, <2>2, VertexFacts, FS_Bijection, FS_Subset
<1>6. ASSUME Len(s) = N PROVE ToSet(s) = Vertex
  BY <1>1, <1>5, <1>6, VertexFacts, FS_Subset
<1> QED
  BY <1>5, <1>6, VertexFacts

\* One turn of the loop of Sources.
Sourced(indeg, s, v) == IF indeg[v] = 0 THEN Append(s, v) ELSE s

LEMMA SourcesLoop ==
  ASSUME NEW indeg
  PROVE  \E c : /\ c[0] = <<>> /\ \A k \in 1 .. N : c[k] = Sourced(indeg, c[k - 1], k - 1)
                /\ Sources(indeg) = c[N]
<1> DEFINE V == Seq(Vertex)
           Turn(f, k) == IF k = 0 THEN <<>> ELSE Sourced(indeg, f[k - 1], k - 1)
           Loop(f) == [k \in 0 .. N |-> Turn(f, k)]
           c == CHOOSE f : f = Loop(f)
           step == [z \in (1 .. N) \X V |-> Sourced(indeg, z[2], z[1] - 1)]
<1>1. N \in Nat /\ 0 \in 0 .. N /\ N \in 0 .. N
  BY NAssumption
<1>2. \A k \in 1 .. N : k - 1 \in Vertex /\ k - 1 \in 0 .. N /\ k \in 0 .. N /\ k # 0
  BY <1>1 DEF Vertex
<1>3. <<>> \in V
  OBVIOUS
<1>4. step \in [(1 .. N) \X V -> V]
  <2>1. \A z \in (1 .. N) \X V : Sourced(indeg, z[2], z[1] - 1) \in V
    <3> TAKE z \in (1 .. N) \X V
    <3>1. z[2] \in V /\ z[1] - 1 \in Vertex
      BY <1>2
    <3> QED
      BY <3>1, Appended DEF Sourced
  <2> QED
    BY <2>1
<1>5. \A k \in 1 .. N, s \in V : step[<<k, s>>] = Sourced(indeg, s, k - 1)
  OBVIOUS
<1> HIDE DEF step, V
<1>6. PICK f \in [0 .. N -> V] : Iteration(f, N, <<>>, step)
  BY <1>1, <1>3, <1>4, Iterates
<1>7. f = Loop(f)
  <2>1. ASSUME NEW k \in 0 .. N PROVE f[k] = Turn(f, k)
    <3>1. CASE k = 0
      BY <1>6, <3>1 DEF Iteration
    <3>2. CASE k # 0
      <4>1. k \in 1 .. N
        BY <1>1, <3>2
      <4>2. f[k - 1] \in V /\ f[k] = step[<<k, f[k - 1]>>]
        BY <1>2, <1>6, <4>1 DEF Iteration
      <4> QED
        BY <1>5, <3>2, <4>1, <4>2
    <3> QED
      BY <3>1, <3>2
  <2>2. f = [k \in 0 .. N |-> f[k]]
    OBVIOUS
  <2> HIDE DEF Turn
  <2> QED
    BY <2>1, <2>2
<1>8. Sources(indeg) = c[N]
  BY DEF Sources, Sourced
<1>9. c = Loop(c)
  <2> HIDE DEF Loop
  <2> QED
    BY <1>7
<1>10. \A k \in 0 .. N : c[k] = Turn(c, k)
  <2> HIDE DEF c, Turn
  <2> QED
    BY <1>9
<1> HIDE DEF c
<1> QED
  BY <1>1, <1>2, <1>8, <1>10

\* The queue Kahn's algorithm starts with.
LEMMA SourcesAre ==
  ASSUME NEW indeg
  PROVE  /\ Sources(indeg) \in Seq(Vertex) /\ Distinct(Sources(indeg))
         /\ \A v \in Vertex : v \in ToSet(Sources(indeg)) <=> indeg[v] = 0
<1>1. PICK c : /\ c[0] = <<>> /\ \A k \in 1 .. N : c[k] = Sourced(indeg, c[k - 1], k - 1)
               /\ Sources(indeg) = c[N]
  BY SourcesLoop
<1> DEFINE Right(k) == /\ c[k] \in Seq(Vertex) /\ Distinct(c[k])
                       /\ \A v \in Vertex : v \in ToSet(c[k]) <=> v < k /\ indeg[v] = 0
           U == {k \in Nat : k <= N => Right(k)}
<1>2. 0 \in U
  <2>1. ToSet(<<>>) = {} /\ Distinct(<<>>) /\ <<>> \in Seq(Vertex)
    BY DEF ToSet, Distinct
  <2>2. \A v \in Vertex : ~(v < 0)
    BY DEF Vertex
  <2> QED
    BY <1>1, <2>1, <2>2
<1>3. ASSUME NEW k \in Nat, k \in U PROVE k + 1 \in U
  <2> SUFFICES ASSUME k + 1 <= N PROVE Right(k + 1)
    OBVIOUS
  <2>1. N \in Nat /\ k + 1 \in 1 .. N /\ (k + 1) - 1 = k /\ k \in Vertex /\ k <= N
    BY NAssumption DEF Vertex
  <2> DEFINE s == c[k]
             t == c[k + 1]
  <2>2. Right(k) /\ t = Sourced(indeg, s, k)
    BY <1>1, <1>3, <2>1
  <2>3. /\ s \in Seq(Vertex) /\ Distinct(s)
        /\ \A v \in Vertex : v \in ToSet(s) <=> v < k /\ indeg[v] = 0
    BY <2>2
  <2>4. \A v \in Vertex : v < k + 1 <=> v < k \/ v = k
    BY DEF Vertex
  <2>5. k \notin ToSet(s)
    BY <2>1, <2>3
  <2> HIDE DEF s, t
  <2>6. CASE indeg[k] = 0
    <3>1. t = Append(s, k)
      BY <2>2, <2>6 DEF Sourced
    <3>2. t \in Seq(Vertex) /\ Distinct(t) /\ ToSet(t) = ToSet(s) \cup {k}
      BY <2>1, <2>3, <2>5, <3>1, Appended
    <3>3. \A v \in Vertex : v \in ToSet(t) <=> v < k + 1 /\ indeg[v] = 0
      BY <2>3, <2>4, <2>6, <3>2
    <3> QED
      BY <3>2, <3>3 DEF t
  <2>7. CASE indeg[k] # 0
    <3>1. t = s
      BY <2>2, <2>7 DEF Sourced
    <3>2. \A v \in Vertex : v \in ToSet(t) <=> v < k + 1 /\ indeg[v] = 0
      BY <2>3, <2>4, <2>7, <3>1
    <3> QED
      BY <2>3, <3>1, <3>2 DEF t
  <2> QED
    BY <2>6, <2>7
<1> HIDE DEF U
<1>4. N \in U /\ N \in Nat /\ N <= N /\ \A v \in Vertex : v < N
  <2>1. Nat \subseteq U
    BY <1>2, <1>3, Induction
  <2> QED
    BY <2>1, NAssumption DEF Vertex
<1>5. Right(N)
  BY <1>4 DEF U
<1> QED
  BY <1>1, <1>4, <1>5
------------------------------------------------------------------------------
\* Kahn's algorithm.

LEMMA ArcsFacts ==
  ASSUME GraphInv, NEW out, Lists(out)
  PROVE  /\ IsFiniteSet(ArcsOf(out))
         /\ \A u, k : <<u, k>> \in ArcsOf(out) <=> u \in Vertex /\ k \in 1 .. Len(out[u])
         /\ \A a \in ArcsOf(out) : /\ a = <<a[1], a[2]>> /\ a[1] \in Vertex /\ a[2] \in Nat \ {0}
                                   /\ a[2] \in 1 .. Len(out[a[1]])
                                   /\ out[a[1]][a[2]] \in Vertex /\ Arc(a[1], out[a[1]][a[2]])
<1> DEFINE B == 2 * added
<1>1. \A u \in Vertex : /\ out[u] \in Seq(Vertex) /\ Len(out[u]) <= B /\ Len(out[u]) \in Nat
                        /\ DOMAIN out[u] = 1 .. Len(out[u])
  BY DEF Lists
<1>2. B \in Nat
  BY DEF GraphInv
<1> HIDE DEF B
<1>3. \A u, k : <<u, k>> \in ArcsOf(out) <=> u \in Vertex /\ k \in 1 .. Len(out[u])
  BY <1>1 DEF ArcsOf
<1>4. \A a \in ArcsOf(out) : a = <<a[1], a[2]>>
  BY DEF ArcsOf
<1>5. \A a \in ArcsOf(out) : /\ a[1] \in Vertex /\ a[2] \in 1 .. Len(out[a[1]]) /\ a[2] \in 1 .. B
                             /\ a[2] \in Nat \ {0}
  <2> TAKE a \in ArcsOf(out)
  <2>1. a[1] \in Vertex /\ a[2] \in 1 .. Len(out[a[1]])
    BY <1>3, <1>4
  <2> QED
    BY <1>1, <1>2, <2>1
<1>6. ArcsOf(out) \in SUBSET (Vertex \X (1 .. B))
  BY <1>4, <1>5
<1>7. IsFiniteSet(ArcsOf(out))
  <2>1. IsFiniteSet(1 .. B)
    BY <1>2, FS_Interval
  <2>2. IsFiniteSet(Vertex \X (1 .. B))
    BY <2>1, VertexFacts, FS_Product
  <2> QED
    BY <1>6, <2>2, FS_Subset
<1>8. ASSUME NEW a \in ArcsOf(out)
      PROVE  out[a[1]][a[2]] \in Vertex /\ Arc(a[1], out[a[1]][a[2]])
  <2>1. a[1] \in Vertex /\ a[2] \in 1 .. Len(out[a[1]]) /\ out[a[1]] \in Seq(Vertex)
    BY <1>1, <1>5
  <2>2. out[a[1]][a[2]] \in Vertex
    BY <2>1
  <2> QED
    BY <2>1, <2>2 DEF Lists
<1> QED
  BY <1>3, <1>4, <1>5, <1>7, <1>8

\* The arcs to v that have not been taken off its in-degree: those of vertices
\* not yet expanded and, of the one at place i of the queue, from place j on.
Expanded(q, i, j, a) == \E l \in 1 .. Len(q) : q[l] = a[1] /\ (l < i \/ (l = i /\ a[2] < j))
Waiting(out, q, i, j, v) == {a \in ArcsOf(out) : out[a[1]][a[2]] = v /\ ~Expanded(q, i, j, a)}

\* Every vertex with an arc to one of the queue stands before it.
AfterSources(q) == \A l \in 1 .. Len(q), u \in Vertex : Arc(u, q[l]) => \E k \in 1 .. Len(q) : k < l /\ q[k] = u

KahnInv(out, d, q, i, j) ==
  /\ d \in [Vertex -> Int] /\ q \in Seq(Vertex) /\ Distinct(q)
  /\ \A v \in Vertex : d[v] = Cardinality(Waiting(out, q, i, j, v))
  /\ \A v \in Vertex : v \in ToSet(q) <=> d[v] = 0
  /\ AfterSources(q)

\* What is not in the queue at the end has a predecessor that is not.
KahnResult(q) ==
  /\ q \in Seq(Vertex) /\ Distinct(q) /\ AfterSources(q)
  /\ \A v \in Vertex \ ToSet(q) : \E u \in Vertex \ ToSet(q) : Arc(u, v)

LEMMA WaitingFacts ==
  ASSUME GraphInv, NEW out, Lists(out), NEW q, NEW i, NEW j, NEW v
  PROVE  /\ IsFiniteSet(Waiting(out, q, i, j, v)) /\ Cardinality(Waiting(out, q, i, j, v)) \in Nat
         /\ Cardinality(Waiting(out, q, i, j, v)) = 0 <=> Waiting(out, q, i, j, v) = {}
<1>1. Waiting(out, q, i, j, v) \in SUBSET ArcsOf(out)
  BY DEF Waiting
<1>2. IsFiniteSet(Waiting(out, q, i, j, v))
  BY <1>1, ArcsFacts, FS_Subset
<1> QED
  BY <1>2, FS_CardinalityType, FS_EmptySet

LEMMA KahnStarts ==
  ASSUME GraphInv, NEW out, Lists(out)
  PROVE  KahnInv(out, InDegree(out), Sources(InDegree(out)), 1, 1)
<1> DEFINE d == InDegree(out)
           q == Sources(d)
<1>1. /\ q \in Seq(Vertex) /\ Distinct(q)
      /\ \A v \in Vertex : v \in ToSet(q) <=> d[v] = 0
  BY SourcesAre
<1> HIDE DEF q
<1>2. \A a \in ArcsOf(out) : ~Expanded(q, 1, 1, a)
  <2> SUFFICES ASSUME NEW a \in ArcsOf(out), NEW l \in 1 .. Len(q), l < 1 \/ (l = 1 /\ a[2] < 1) PROVE FALSE
    BY DEF Expanded
  <2>1. a[2] \in Nat \ {0}
    BY ArcsFacts
  <2> QED
    BY <2>1
<1>3. \A v : Waiting(out, q, 1, 1, v) = {a \in ArcsOf(out) : out[a[1]][a[2]] = v}
  BY <1>2 DEF Waiting
<1>4. d = [v \in Vertex |-> Cardinality({a \in ArcsOf(out) : out[a[1]][a[2]] = v})]
  BY DEF InDegree
<1> HIDE DEF d
<1>5. \A v \in Vertex : d[v] = Cardinality(Waiting(out, q, 1, 1, v))
  BY <1>3, <1>4
<1>6. d \in [Vertex -> Int]
  <2>1. \A v \in Vertex : d[v] \in Int
    BY <1>5, WaitingFacts
  <2>2. d = [v \in Vertex |-> d[v]]
    BY <1>4
  <2> QED
    BY <2>1, <2>2
<1>7. AfterSources(q)
  <2> SUFFICES ASSUME NEW l \in 1 .. Len(q), NEW u \in Vertex, Arc(u, q[l]) PROVE FALSE
    BY DEF AfterSources
  <2> DEFINE v == q[l]
  <2>1. v \in Vertex /\ v \in ToSet(q)
    BY <1>1, Members
  <2>2. PICK k \in 1 .. Len(out[u]) : out[u][k] = v
    BY <2>1 DEF Lists
  <2> DEFINE a == <<u, k>>
  <2>3. a \in ArcsOf(out) /\ out[a[1]][a[2]] = v
    BY <2>2, ArcsFacts
  <2> HIDE DEF a, v
  <2>4. Waiting(out, q, 1, 1, v) # {}
    BY <1>3, <2>3
  <2>5. d[v] # 0
    BY <1>5, <2>1, <2>4, WaitingFacts
  <2> QED
    BY <1>1, <2>1, <2>5
<1> QED
  BY <1>1, <1>5, <1>6, <1>7 DEF KahnInv, q, d

\* The next vertex of the queue is expanded.
LEMMA KahnMovesOn ==
  ASSUME GraphInv, NEW out, Lists(out), NEW d, NEW q, NEW i \in Nat \ {0}, NEW j \in Nat \ {0},
         i <= Len(q), j > Len(out[q[i]]), KahnInv(out, d, q, i, j)
  PROVE  KahnInv(out, d, q, i + 1, 1)
<1>1. q \in Seq(Vertex) /\ Len(q) \in Nat
  BY Members DEF KahnInv
<1>2. ASSUME NEW a \in ArcsOf(out) PROVE Expanded(q, i, j, a) <=> Expanded(q, i + 1, 1, a)
  <2>1. a[1] \in Vertex /\ a[2] \in Nat \ {0} /\ a[2] \in 1 .. Len(out[a[1]])
    BY ArcsFacts
  <2>2. ASSUME NEW l \in 1 .. Len(q), q[l] = a[1]
        PROVE  (l < i \/ (l = i /\ a[2] < j)) <=> (l < i + 1 \/ (l = i + 1 /\ a[2] < 1))
    <3>1. l = i => a[2] < j
      <4> SUFFICES ASSUME l = i PROVE a[2] < j
        OBVIOUS
      <4>1. a[2] <= Len(out[q[i]]) /\ Len(out[q[i]]) \in Nat
        BY <2>1, <2>2 DEF Lists
      <4> QED
        BY <2>1, <4>1
    <3> QED
      BY <1>1, <2>1, <3>1
  <2> QED
    BY <2>2 DEF Expanded
<1>3. \A v : Waiting(out, q, i, j, v) = Waiting(out, q, i + 1, 1, v)
  BY <1>2 DEF Waiting
<1> QED
  BY <1>3 DEF KahnInv

\* The next arc is taken off the in-degree of its head, which is queued if it
\* was the last one.
LEMMA KahnCounts ==
  ASSUME GraphInv, NEW out, Lists(out), NEW d, NEW q, NEW i \in Nat \ {0}, NEW j \in Nat \ {0},
         i <= Len(q), ~(j > Len(out[q[i]])), KahnInv(out, d, q, i, j), NEW v, v = out[q[i]][j]
  PROVE  KahnInv(out, [d EXCEPT ![v] = @ - 1], IF d[v] = 1 THEN Append(q, v) ELSE q, i, j + 1)
<1> DEFINE e == [d EXCEPT ![v] = @ - 1]
           r == IF d[v] = 1 THEN Append(q, v) ELSE q
           a == <<q[i], j>>
<1>1. /\ q \in Seq(Vertex) /\ Len(q) \in Nat /\ Distinct(q) /\ d \in [Vertex -> Int]
      /\ \A w \in Vertex : d[w] = Cardinality(Waiting(out, q, i, j, w))
      /\ \A w \in Vertex : w \in ToSet(q) <=> d[w] = 0
      /\ AfterSources(q)
  BY Members DEF KahnInv
<1>2. i \in 1 .. Len(q) /\ q[i] \in Vertex
  <2>1. i \in 1 .. Len(q)
    BY <1>1
  <2> QED
    BY <1>1, <2>1, Members
<1>3. a \in ArcsOf(out) /\ a[1] = q[i] /\ a[2] = j /\ out[a[1]][a[2]] = v
  <2>1. Len(out[q[i]]) \in Nat
    BY <1>2 DEF Lists
  <2>2. j \in 1 .. Len(out[q[i]])
    BY <2>1
  <2> QED
    BY <1>2, <2>2, ArcsFacts
<1>4. v \in Vertex
  BY <1>3, ArcsFacts
<1>5. ~Expanded(q, i, j, a)
  <2> SUFFICES ASSUME NEW l \in 1 .. Len(q), q[l] = a[1], l < i \/ (l = i /\ a[2] < j) PROVE FALSE
    BY DEF Expanded
  <2>1. l = i
    BY <1>1, <1>2, <1>3 DEF Distinct
  <2> QED
    BY <1>3, <2>1
<1>6. \A b \in ArcsOf(out) : Expanded(q, i, j + 1, b) <=> Expanded(q, i, j, b) \/ b = a
  <2> TAKE b \in ArcsOf(out)
  <2>1. b = <<b[1], b[2]>> /\ b[2] \in Nat \ {0}
    BY ArcsFacts
  <2>2. \A l \in 1 .. Len(q) : (l < i \/ (l = i /\ b[2] < j + 1)) <=> (l < i \/ (l = i /\ b[2] < j)) \/ (l = i /\ b[2] = j)
    BY <2>1
  <2>3. b = a <=> b[1] = q[i] /\ b[2] = j
    BY <2>1
  <2> HIDE DEF a
  <2> QED
    BY <1>2, <2>2, <2>3 DEF Expanded
<1>7. \A b \in ArcsOf(out) : Expanded(r, i, j + 1, b) <=> Expanded(q, i, j + 1, b)
  <2> TAKE b \in ArcsOf(out)
  <2>1. CASE d[v] = 1
    <3>1. r = Append(q, v) /\ Len(r) = Len(q) + 1 /\ \A l \in 1 .. Len(q) : r[l] = q[l]
      BY <1>1, <1>4, <2>1, Appended
    <3>2. \A l \in 1 .. Len(r) : l <= i => l \in 1 .. Len(q) /\ r[l] = q[l]
      BY <1>1, <1>2, <3>1
    <3>3. \A l \in 1 .. Len(q) : l \in 1 .. Len(r) /\ r[l] = q[l]
      BY <1>1, <3>1
    <3>4. \A l \in 1 .. Len(r) : l < i \/ l = i => l <= i
      BY <1>1
    <3> DEFINE Before(l) == l < i \/ (l = i /\ b[2] < j + 1)
    <3>5. \A l \in 1 .. Len(r) : Before(l) => l \in 1 .. Len(q) /\ r[l] = q[l]
      BY <3>2, <3>4
    <3>6. /\ Expanded(r, i, j + 1, b) <=> \E l \in 1 .. Len(r) : r[l] = b[1] /\ Before(l)
          /\ Expanded(q, i, j + 1, b) <=> \E l \in 1 .. Len(q) : q[l] = b[1] /\ Before(l)
      BY DEF Expanded
    <3> HIDE DEF r, Before
    <3> QED
      BY Zenon, <3>3, <3>5, <3>6
  <2>2. CASE d[v] # 1
    BY <2>2
  <2> QED
    BY <2>1, <2>2
<1> HIDE DEF a
<1>8. /\ Waiting(out, r, i, j + 1, v) = Waiting(out, q, i, j, v) \ {a}
      /\ a \in Waiting(out, q, i, j, v)
      /\ \A w : w # v => Waiting(out, r, i, j + 1, w) = Waiting(out, q, i, j, w)
  <2> HIDE DEF r
  <2> QED
    BY <1>3, <1>5, <1>6, <1>7 DEF Waiting
<1>9. /\ Cardinality(Waiting(out, r, i, j + 1, v)) = d[v] - 1
      /\ d[v] \in Nat \ {0}
  <2>1. IsFiniteSet(Waiting(out, q, i, j, v)) /\ d[v] = Cardinality(Waiting(out, q, i, j, v)) /\ d[v] \in Nat
    BY <1>1, <1>4, WaitingFacts
  <2>2. d[v] # 0
    BY <1>8, <2>1, WaitingFacts
  <2> DEFINE W == Waiting(out, q, i, j, v)
  <2>3. IsFiniteSet(W) /\ a \in W /\ Cardinality(W) = d[v]
    BY <1>8, <2>1
  <2> HIDE DEF r, W
  <2>4. Cardinality(W \ {a}) = Cardinality(W) - 1
    BY <2>3, FS_RemoveElement
  <2> QED
    BY <1>8, <2>1, <2>2, <2>3, <2>4 DEF W
<1>10. e \in [Vertex -> Int] /\ e[v] = d[v] - 1 /\ \A w \in Vertex : w # v => e[w] = d[w]
  <2>1. d[v] - 1 \in Int
    BY <1>9
  <2> QED
    BY <1>1, <1>4, <2>1
<1>11. v \notin ToSet(q)
  BY <1>1, <1>4, <1>9
<1>12. r \in Seq(Vertex) /\ Distinct(r) /\ \A w \in Vertex : w \in ToSet(r) <=> e[w] = 0
  <2>1. CASE d[v] = 1
    <3>1. r \in Seq(Vertex) /\ Distinct(r) /\ ToSet(r) = ToSet(q) \cup {v}
      BY <1>1, <1>4, <1>11, <2>1, Appended
    <3>2. e[v] = 0
      BY <1>10, <2>1
    <3> HIDE DEF r, e
    <3> QED
      BY <1>1, <1>10, <3>1, <3>2
  <2>2. CASE d[v] # 1
    <3>1. e[v] # 0
      BY <1>9, <1>10, <2>2
    <3>2. r = q
      BY <2>2
    <3> HIDE DEF r, e
    <3> QED
      BY <1>1, <1>10, <1>11, <3>1, <3>2
  <2> QED
    BY <2>1, <2>2
<1>13. \A w \in Vertex : e[w] = Cardinality(Waiting(out, r, i, j + 1, w))
  <2> HIDE DEF e, r
  <2> QED
    BY <1>1, <1>8, <1>9, <1>10
<1>14. AfterSources(r)
  <2>1. CASE d[v] = 1
    <3>1. /\ r = Append(q, v) /\ Len(r) = Len(q) + 1 /\ r[Len(q) + 1] = v
          /\ \A l \in 1 .. Len(q) : r[l] = q[l]
      BY <1>1, <1>4, <2>1, Appended
    <3> HIDE DEF r
    <3> DEFINE n == Len(q)
    <3>0. n \in Nat /\ Len(r) = n + 1
      BY <1>1, <3>1
    <3> HIDE DEF n
    <3>2. \A l \in 1 .. Len(r) : l \in 1 .. n \/ l = n + 1
      BY <3>0
    <3>3. \A l \in 1 .. n : l \in 1 .. Len(r) /\ l < n + 1
      BY <3>0
    <3> USE DEF n
    <3>4. ASSUME NEW u \in Vertex, Arc(u, v) PROVE \E k \in 1 .. Len(q) : q[k] = u
      <4>1. PICK k \in 1 .. Len(out[u]) : out[u][k] = v
        BY <1>4, <3>4 DEF Lists
      <4> DEFINE b == <<u, k>>
      <4>2. b \in ArcsOf(out) /\ out[b[1]][b[2]] = v /\ b[1] = u
        BY <3>4, <4>1, ArcsFacts
      <4> HIDE DEF b
      <4>3. Waiting(out, r, i, j + 1, v) = {}
        <5>1. Cardinality(Waiting(out, r, i, j + 1, v)) = 0
          BY <1>9, <2>1
        <5> QED
          BY <5>1, WaitingFacts
      <4>4. Expanded(r, i, j + 1, b)
        BY <4>2, <4>3 DEF Waiting
      <4>5. Expanded(q, i, j + 1, b)
        BY <1>7, <4>2, <4>4
      <4> QED
        BY <4>2, <4>5 DEF Expanded
    <3>5. ASSUME NEW l \in 1 .. Len(r), NEW u \in Vertex, Arc(u, r[l])
          PROVE  \E k \in 1 .. Len(r) : k < l /\ r[k] = u
      <4>1. CASE l \in 1 .. Len(q)
        <5>1. PICK k \in 1 .. Len(q) : k < l /\ q[k] = u
          BY <1>1, <3>1, <3>5, <4>1 DEF AfterSources
        <5> QED
          BY <3>1, <3>3, <5>1
      <4>2. CASE l = Len(q) + 1
        <5>1. PICK k \in 1 .. Len(q) : q[k] = u
          BY <3>1, <3>4, <3>5, <4>2
        <5> QED
          BY <3>1, <3>3, <4>2, <5>1
      <4> QED
        BY <3>2, <4>1, <4>2
    <3> QED
      BY <3>5 DEF AfterSources
  <2>2. CASE d[v] # 1
    BY <1>1, <2>2
  <2> QED
    BY <2>1, <2>2
<1> HIDE DEF e, r
<1>15. KahnInv(out, e, r, i, j + 1)
  BY <1>10, <1>12, <1>13, <1>14 DEF KahnInv
<1> QED
  BY <1>15 DEF e, r

LEMMA KahnEnds ==
  ASSUME GraphInv, NEW out, Lists(out), NEW d, NEW q, NEW i \in Nat, NEW j, i > Len(q), KahnInv(out, d, q, i, j)
  PROVE  KahnResult(q)
<1>1. /\ q \in Seq(Vertex) /\ Len(q) \in Nat
      /\ \A w \in Vertex : d[w] = Cardinality(Waiting(out, q, i, j, w))
      /\ \A w \in Vertex : w \in ToSet(q) <=> d[w] = 0
  BY Members DEF KahnInv
<1>2. ASSUME NEW v \in Vertex \ ToSet(q) PROVE \E u \in Vertex \ ToSet(q) : Arc(u, v)
  <2>1. Waiting(out, q, i, j, v) # {}
    BY <1>1, WaitingFacts
  <2>2. PICK a \in ArcsOf(out) : out[a[1]][a[2]] = v /\ ~Expanded(q, i, j, a)
    BY <2>1 DEF Waiting
  <2>3. a[1] \in Vertex /\ Arc(a[1], v)
    BY <2>2, ArcsFacts
  <2>4. a[1] \notin ToSet(q)
    <3> SUFFICES ASSUME a[1] \in ToSet(q) PROVE FALSE
      OBVIOUS
    <3>1. PICK l \in 1 .. Len(q) : q[l] = a[1]
      BY <1>1, Members
    <3>2. l < i
      BY <1>1
    <3> QED
      BY <2>2, <3>1, <3>2 DEF Expanded
  <2> QED
    BY <2>3, <2>4
<1> QED
  BY <1>2 DEF KahnResult, KahnInv

KahnPlaces == [Vertex -> Int] \X Seq(Vertex) \X Place \X Place

\* The body of kahn in Kahn(out), and the place where it goes on.
KahnBody(out, x, f) ==
  LET d == x[1]
      q == x[2]
      i == x[3]
      j == x[4]
      v == out[q[i]][j]
  IN  IF i > Len(q) THEN q
      ELSE IF j > Len(out[q[i]]) THEN f[<<d, q, i + 1, 1>>]
      ELSE f[<<[d EXCEPT ![v] = @ - 1], IF d[v] = 1 THEN Append(q, v) ELSE q, i, j + 1>>]

KahnNext(out, x) ==
  LET d == x[1]
      q == x[2]
      i == x[3]
      j == x[4]
      v == out[q[i]][j]
  IN  IF i > Len(q) THEN x
      ELSE IF j > Len(out[q[i]]) THEN <<d, q, i + 1, 1>>
      ELSE <<[d EXCEPT ![v] = @ - 1], IF d[v] = 1 THEN Append(q, v) ELSE q, i, j + 1>>

\* The vertices that may still be queued.
Entered(d) == Cardinality({v \in Vertex : d[v] >= 1})

LEMMA EnteredFacts ==
  ASSUME NEW d \in [Vertex -> Int]
  PROVE  /\ Entered(d) \in Nat
         /\ \A v \in Vertex : Entered([d EXCEPT ![v] = @ - 1]) = IF d[v] = 1 THEN Entered(d) - 1 ELSE Entered(d)
<1> DEFINE S == {v \in Vertex : d[v] >= 1}
<1>1. S \in SUBSET Vertex /\ IsFiniteSet(S)
  <2>1. S \in SUBSET Vertex
    OBVIOUS
  <2> QED
    BY <2>1, VertexFacts, FS_Subset
<1>2. Cardinality(S) \in Nat
  BY <1>1, FS_CardinalityType
<1>3. ASSUME NEW v \in Vertex
      PROVE  Entered([d EXCEPT ![v] = @ - 1]) = IF d[v] = 1 THEN Entered(d) - 1 ELSE Entered(d)
  <2> DEFINE e == [d EXCEPT ![v] = @ - 1]
             R == {w \in Vertex : e[w] >= 1}
  <2>1. d[v] \in Int /\ e[v] = d[v] - 1 /\ \A w \in Vertex : w # v => e[w] = d[w]
    OBVIOUS
  <2> HIDE DEF e
  <2>2. CASE d[v] = 1
    <3>1. v \in S /\ R = S \ {v}
      BY <2>1, <2>2
    <3> HIDE DEF S, R
    <3>2. Cardinality(R) = Cardinality(S) - 1
      BY <1>1, <3>1, FS_RemoveElement
    <3> QED
      BY <2>2, <3>2 DEF Entered, S, R, e
  <2>3. CASE d[v] # 1
    <3>1. \A w \in Vertex : e[w] >= 1 <=> d[w] >= 1
      <4>1. e[v] >= 1 <=> d[v] >= 1
        BY <2>1, <2>3
      <4> QED
        BY <2>1, <4>1
    <3>2. R = S
      BY <3>1
    <3> HIDE DEF S, R
    <3> QED
      BY <2>3, <3>2 DEF Entered, S, R, e
  <2> QED
    BY <2>2, <2>3
<1> QED
  BY <1>2, <1>3 DEF Entered

KahnDrains(m, out) ==
  Drains(m, KahnPlaces, [x \in KahnPlaces |-> x[2]], [x \in KahnPlaces |-> x[3]], [x \in KahnPlaces |-> x[4]],
         [x \in KahnPlaces |-> Entered(x[1])], out)

LEMMA KahnMeasured ==
  ASSUME GraphInv, NEW out, Lists(out)
  PROVE  \E m \in [KahnPlaces -> Nat] : KahnDrains(m, out)
<1> DEFINE Queues == [x \in KahnPlaces |-> x[2]]
           At == [x \in KahnPlaces |-> x[3]]
           J == [x \in KahnPlaces |-> x[4]]
           pending == [x \in KahnPlaces |-> Entered(x[1])]
           B == 2 * added
<1>1. \A x \in KahnPlaces : x[1] \in [Vertex -> Int] /\ x[2] \in Seq(Vertex) /\ x[3] \in Place /\ x[4] \in Place
  BY DEF KahnPlaces
<1>2. Queues \in [KahnPlaces -> Seq(Vertex)] /\ At \in [KahnPlaces -> Place] /\ J \in [KahnPlaces -> Place]
  BY <1>1
<1>3. pending \in [KahnPlaces -> Nat]
  <2>1. \A x \in KahnPlaces : Entered(x[1]) \in Nat
    BY <1>1, EnteredFacts
  <2> QED
    BY <2>1
<1>4. out \in [Vertex -> Seq(Vertex)] /\ B \in Nat /\ \A v \in Vertex : Len(out[v]) <= B
  BY DEF Lists, GraphInv
<1> HIDE DEF Queues, At, J, pending, B
<1>5. \E m \in [KahnPlaces -> Nat] : Drains(m, KahnPlaces, Queues, At, J, pending, out)
  BY <1>2, <1>3, <1>4, QueueMeasure
<1> QED
  BY <1>5 DEF KahnDrains, Queues, At, J, pending

LEMMA KahnGoesOn ==
  ASSUME GraphInv, NEW out, Lists(out), NEW x \in KahnPlaces
  PROVE  /\ KahnNext(out, x) \in KahnPlaces
         /\ \A m \in [KahnPlaces -> Nat] : KahnDrains(m, out) /\ ~(x[3] > Len(x[2])) => m[KahnNext(out, x)] < m[x]
<1> DEFINE d == x[1]
           q == x[2]
           i == x[3]
           j == x[4]
           v == out[q[i]][j]
           e == [d EXCEPT ![v] = @ - 1]
           r == IF d[v] = 1 THEN Append(q, v) ELSE q
           y == KahnNext(out, x)
           Queues == [z \in KahnPlaces |-> z[2]]
           At == [z \in KahnPlaces |-> z[3]]
           J == [z \in KahnPlaces |-> z[4]]
           pending == [z \in KahnPlaces |-> Entered(z[1])]
<1>1. d \in [Vertex -> Int] /\ q \in Seq(Vertex) /\ i \in Nat \ {0} /\ j \in Nat \ {0} /\ Len(q) \in Nat
  BY DEF KahnPlaces, Place
<1>2. i + 1 \in Place /\ 1 \in Place /\ j + 1 \in Place /\ i \in Place
  BY <1>1 DEF Place
<1>3. \A z \in KahnPlaces : Queues[z] = z[2] /\ At[z] = z[3] /\ J[z] = z[4] /\ pending[z] = Entered(z[1])
  OBVIOUS
<1>4. \A m \in [KahnPlaces -> Nat] : KahnDrains(m, out) =>
        \A z, w \in KahnPlaces : Advances(Queues, At, J, pending, out, z, w) => m[w] < m[z]
  BY DEF KahnDrains, Drains
<1>5. /\ i > Len(q) => y = x
      /\ ~(i > Len(q)) /\ j > Len(out[q[i]]) => y = <<d, q, i + 1, 1>>
      /\ ~(i > Len(q)) /\ ~(j > Len(out[q[i]])) => y = <<e, r, i, j + 1>>
  BY DEF KahnNext
<1> HIDE DEF d, q, i, j, y, Queues, At, J, pending
<1>6. CASE i > Len(q)
  BY <1>5, <1>6 DEF i, q, y
<1>7. ASSUME ~(i > Len(q)) PROVE y \in KahnPlaces /\ Advances(Queues, At, J, pending, out, x, y)
  <2>1. i \in 1 .. Len(q) /\ q[i] \in Vertex /\ i <= Len(q)
    <3>1. i \in 1 .. Len(q)
      BY <1>1, <1>7
    <3> QED
      BY <1>1, <3>1, Members
  <2>2. Queues[x] = q /\ At[x] = i /\ J[x] = j /\ pending[x] = Entered(d) /\ Entered(d) \in Nat
    BY <1>1, <1>3, EnteredFacts DEF d, q, i, j
  <2>3. CASE j > Len(out[q[i]])
    <3>1. y = <<d, q, i + 1, 1>> /\ y \in KahnPlaces
      BY <1>1, <1>2, <1>5, <1>7, <2>3 DEF KahnPlaces
    <3>2. Queues[y] = q /\ At[y] = i + 1 /\ pending[y] = Entered(d)
      BY <1>3, <3>1
    <3>3. Entered(d) + Len(q) <= Entered(d) + Len(q)
      BY <1>1, <2>2
    <3> QED
      BY <2>1, <2>2, <3>1, <3>2, <3>3 DEF Advances
  <2>4. CASE ~(j > Len(out[q[i]]))
    <3>1. j \in 1 .. Len(out[q[i]]) /\ j <= Len(out[q[i]]) /\ out[q[i]] \in Seq(Vertex)
      <4>1. out[q[i]] \in Seq(Vertex) /\ Len(out[q[i]]) \in Nat
        BY <2>1 DEF Lists
      <4> QED
        BY <1>1, <2>4, <4>1
    <3>2. v \in Vertex
      BY <3>1
    <3> HIDE DEF v
    <3>3. e \in [Vertex -> Int]
      <4>1. d[v] - 1 \in Int
        BY <1>1, <3>2
      <4> QED
        BY <1>1, <4>1
    <3>4. /\ r \in Seq(Vertex) /\ Len(q) <= Len(r) /\ r[i] = q[i]
          /\ Entered(e) + Len(r) <= Entered(d) + Len(q) /\ Len(r) \in Nat
      <4>1. CASE d[v] = 1
        <5>1. r \in Seq(Vertex) /\ Len(r) = Len(q) + 1 /\ r[i] = q[i]
          BY <1>1, <2>1, <3>2, <4>1, Appended
        <5>2. Entered(e) = Entered(d) - 1
          BY <1>1, <3>2, <4>1, EnteredFacts
        <5> HIDE DEF r, e
        <5> QED
          BY <1>1, <2>2, <5>1, <5>2
      <4>2. CASE d[v] # 1
        <5>1. Entered(e) = Entered(d) /\ r = q
          BY <1>1, <3>2, <4>2, EnteredFacts
        <5> HIDE DEF r, e
        <5> QED
          BY <1>1, <2>2, <5>1
      <4> QED
        BY <4>1, <4>2
    <3> HIDE DEF r, e
    <3>5. y = <<e, r, i, j + 1>> /\ y \in KahnPlaces
      BY <1>2, <1>5, <1>7, <2>4, <3>3, <3>4 DEF KahnPlaces
    <3>6. Queues[y] = r /\ At[y] = i /\ J[y] = j + 1 /\ pending[y] = Entered(e)
      BY <1>3, <3>5
    <3>7. i <= Len(r)
      BY <1>1, <2>1, <3>4
    <3> QED
      BY <2>1, <2>2, <3>1, <3>4, <3>5, <3>6, <3>7 DEF Advances
  <2> QED
    BY <2>3, <2>4
<1>8. CASE ~(i > Len(q))
  BY <1>4, <1>7, <1>8 DEF q, i, y
<1> QED
  BY <1>6, <1>8

\* What Kahn's algorithm returns.
LEMMA KahnReturns ==
  ASSUME GraphInv, NEW out, Lists(out)
  PROVE  KahnResult(Kahn(out))
<1> DEFINE V == Seq(Vertex)
           Loop(f) == [x \in KahnPlaces |-> KahnBody(out, x, f)]
           kahn == CHOOSE f : f = Loop(f)
           s == [x \in KahnPlaces |-> x[3] > Len(x[2])]
           b == [x \in KahnPlaces |-> x[2]]
           nx == [x \in KahnPlaces |-> KahnNext(out, x)]
           T == {x \in KahnPlaces : KahnInv(out, x[1], x[2], x[3], x[4])}
           R == {q \in V : KahnResult(q)}
           x0 == <<InDegree(out), Sources(InDegree(out)), 1, 1>>
<1>1. Kahn(out) = kahn[x0]
  BY DEF Kahn, KahnPlaces, KahnBody
<1>2. \A x \in KahnPlaces : /\ x[1] \in [Vertex -> Int] /\ x[2] \in V
                            /\ x[3] \in Nat \ {0} /\ x[4] \in Nat \ {0}
  BY DEF KahnPlaces, Place
<1>3. s \in [KahnPlaces -> BOOLEAN] /\ b \in [KahnPlaces -> V] /\ nx \in [KahnPlaces -> KahnPlaces]
  BY <1>2, KahnGoesOn
<1>4. PICK m \in [KahnPlaces -> Nat] : KahnDrains(m, out)
  BY KahnMeasured
<1>5. \A x \in KahnPlaces : ~s[x] => m[nx[x]] < m[x]
  BY <1>4, KahnGoesOn
<1>6. ASSUME NEW f PROVE \A x \in KahnPlaces : KahnBody(out, x, f) = IF s[x] THEN b[x] ELSE f[nx[x]]
  BY DEF KahnBody, KahnNext
<1>7. x0 \in T
  <2>1. KahnInv(out, InDegree(out), Sources(InDegree(out)), 1, 1)
    BY KahnStarts
  <2>2. InDegree(out) \in [Vertex -> Int] /\ Sources(InDegree(out)) \in V /\ 1 \in Place
    BY <2>1 DEF KahnInv, Place
  <2>3. x0 \in KahnPlaces
    BY <2>2 DEF KahnPlaces
  <2> QED
    BY <2>1, <2>3
<1>8. ASSUME NEW x \in KahnPlaces, x \in T, ~s[x] PROVE nx[x] \in T
  <2> DEFINE d == x[1]
             q == x[2]
             i == x[3]
             j == x[4]
             v == out[q[i]][j]
             y == KahnNext(out, x)
  <2>1. KahnInv(out, d, q, i, j) /\ ~(i > Len(q)) /\ nx[x] = y /\ y \in KahnPlaces
    BY <1>3, <1>8
  <2>2. q \in V /\ i \in Nat \ {0} /\ j \in Nat \ {0} /\ Len(q) \in Nat
    BY <1>2, Members
  <2>3. i <= Len(q)
    BY <2>1, <2>2
  <2>4. y = IF j > Len(out[q[i]]) THEN <<d, q, i + 1, 1>>
            ELSE <<[d EXCEPT ![v] = @ - 1], IF d[v] = 1 THEN Append(q, v) ELSE q, i, j + 1>>
    BY <2>1 DEF KahnNext
  <2> HIDE DEF d, q, i, j, y, s, nx
  <2>5. KahnInv(out, y[1], y[2], y[3], y[4])
    <3>1. CASE j > Len(out[q[i]])
      <4>1. KahnInv(out, d, q, i + 1, 1)
        BY <2>1, <2>2, <2>3, <3>1, KahnMovesOn
      <4> QED
        BY <2>4, <3>1, <4>1
    <3>2. CASE ~(j > Len(out[q[i]]))
      <4> DEFINE e == [d EXCEPT ![v] = @ - 1]
                 r == IF d[v] = 1 THEN Append(q, v) ELSE q
      <4>1. KahnInv(out, e, r, i, j + 1)
        BY <2>1, <2>2, <2>3, <3>2, KahnCounts
      <4>2. y = <<e, r, i, j + 1>>
        BY <2>4, <3>2
      <4> HIDE DEF e, r
      <4> QED
        BY <4>1, <4>2
    <3> QED
      BY <3>1, <3>2
  <2> QED
    BY <2>1, <2>5
<1>9. ASSUME NEW x \in KahnPlaces, x \in T, s[x] PROVE b[x] \in R
  <2>1. KahnInv(out, x[1], x[2], x[3], x[4]) /\ x[3] > Len(x[2]) /\ x[2] \in V /\ x[3] \in Nat /\ b[x] = x[2]
    BY <1>2, <1>9
  <2>2. KahnResult(x[2])
    BY <2>1, KahnEnds
  <2> QED
    BY <2>1, <2>2
<1> HIDE DEF s, b, nx, T, x0
<1>10. PICK f \in [KahnPlaces -> V] : Loops(f, KahnPlaces, s, b, nx)
  <2> HIDE DEF V
  <2> QED
    BY <1>3, <1>4, <1>5, LoopRecursion
<1>11. f = Loop(f)
  BY <1>6, <1>10 DEF Loops
<1>12. kahn = Loop(kahn)
  <2> HIDE DEF Loop
  <2> QED
    BY <1>11
<1>13. Loops(kahn, KahnPlaces, s, b, nx)
  <2>1. \A x \in KahnPlaces : kahn[x] = KahnBody(out, x, kahn)
    <3> HIDE DEF kahn
    <3> QED
      BY <1>12
  <2> HIDE DEF kahn
  <2> QED
    BY <1>6, <2>1 DEF Loops
<1> HIDE DEF kahn, Loop, R
<1>14. \A x \in KahnPlaces : x \in T => kahn[x] \in R
  <2>1. Keeps(T, R, KahnPlaces, s, b, nx)
    BY <1>8, <1>9 DEF Keeps
  <2>2. Halts(m, KahnPlaces, s, nx)
    BY <1>5 DEF Halts
  <2> QED
    BY ZenonT(60), <1>3, <1>4, <1>13, <2>1, <2>2, LoopResult
<1>15. kahn[x0] \in R
  BY <1>7, <1>14 DEF T
<1> QED
  BY <1>1, <1>15 DEF R

\* It orders the vertices of an acyclic graph, and not those of another.
LEMMA KahnOrders ==
  ASSUME GraphInv, NEW out, Lists(out)
  PROVE  /\ Kahn(out) \in Seq(Vertex)
         /\ Len(Kahn(out)) = N <=> Acyclic
         /\ Acyclic => Ordered(Kahn(out))
<1> DEFINE q == Kahn(out)
<1>1. /\ q \in Seq(Vertex) /\ Distinct(q) /\ AfterSources(q)
      /\ \A v \in Vertex \ ToSet(q) : \E u \in Vertex \ ToSet(q) : Arc(u, v)
  BY KahnReturns DEF KahnResult
<1> HIDE DEF q
<1>2. Len(q) = N <=> ToSet(q) = Vertex
  BY <1>1, AllDistinct
<1>3. ASSUME Acyclic PROVE ToSet(q) = Vertex
  <2> DEFINE S == Vertex \ ToSet(q)
  <2>1. S \in SUBSET Vertex /\ \A v \in S : \E u \in S : Arc(u, v)
    BY <1>1
  <2> HIDE DEF S
  <2>2. S = {}
    BY <1>3, <2>1, NoSource
  <2> QED
    BY <1>1, <2>2, Members DEF S
<1>4. ASSUME ToSet(q) = Vertex PROVE Ordered(q)
  <2>1. ASSUME NEW i \in 1 .. Len(q), NEW k \in 1 .. Len(q), Arc(q[i], q[k]) PROVE i < k
    <3>1. PICK l \in 1 .. Len(q) : l < k /\ q[l] = q[i]
      BY <1>1, <2>1, Members DEF AfterSources
    <3>2. l = i
      BY <1>1, <3>1 DEF Distinct
    <3> QED
      BY <3>1, <3>2
  <2> QED
    BY <1>1, <1>4, <2>1 DEF Ordered
<1>5. Ordered(q) => Acyclic
  BY OrderedIsAcyclic
<1> QED
  BY <1>1, <1>2, <1>3, <1>4, <1>5 DEF q
------------------------------------------------------------------------------
\* The cycle check.

\* The vertices done with lead only to vertices done with, and to no cycle.
Settled(r) ==
  /\ Closed(r.vis \ r.rec)
  /\ \A x \in r.vis \ r.rec : \A y \in Reach(x) : ~Arc(y, x)

\* The search is at place j of the list of w: the vertices on the recursion
\* stack reach w, and its first j - 1 arcs lead to vertices done with.
Searching(r, w, j) ==
  /\ r.rec \subseteq r.vis /\ w \in r.rec /\ ~r.found
  /\ \A u \in r.rec : w \in Reach(u)
  /\ Settled(r)
  /\ \A k \in 1 .. Len(adj[w]) : k < j => adj[w][k].to \in r.vis \ r.rec

\* What the search of w, begun with r, returns.
Searched(r, w, t) ==
  /\ t.found => ~Acyclic
  /\ ~t.found => r.vis \subseteq t.vis /\ t.rec = r.rec \ {w} /\ Settled(t)

LEMMA CycleEnds ==
  ASSUME GraphInv, NEW r \in Marks, NEW w \in Vertex, NEW j \in Nat, j > Len(adj[w]), Searching(r, w, j)
  PROVE  Searched(r, w, [r EXCEPT !.rec = @ \ {w}])
<1> DEFINE t == [r EXCEPT !.rec = @ \ {w}]
           F == r.vis \ r.rec
<1>1. t.vis = r.vis /\ t.rec = r.rec \ {w} /\ t.found = r.found
  BY DEF Marks
<1>2. /\ w \in r.vis /\ w \in r.rec /\ ~r.found /\ Closed(F)
      /\ \A x \in F : \A y \in Reach(x) : ~Arc(y, x)
  BY DEF Searching, Settled
<1>3. t.vis \ t.rec = F \cup {w}
  BY <1>1, <1>2
<1>4. \A y \in Vertex : Arc(w, y) => y \in F
  <2> SUFFICES ASSUME NEW y \in Vertex, Arc(w, y) PROVE y \in F
    OBVIOUS
  <2>1. PICK k \in 1 .. Len(adj[w]) : adj[w][k].to = y
    BY HeadsAreArcs
  <2>2. k < j
    BY HeadsAreArcs
  <2> QED
    BY <2>1, <2>2 DEF Searching
<1>5. w \notin F
  BY <1>2
<1> HIDE DEF F, t
<1>6. Closed(F \cup {w})
  BY <1>2, <1>4 DEF Closed
<1>7. \A y \in Reach(w) : ~Arc(y, w)
  <2> SUFFICES ASSUME NEW y \in Reach(w), Arc(y, w) PROVE FALSE
    OBVIOUS
  <2>1. Reach(w) \subseteq F \cup {w}
    BY <1>6, ReachLeast
  <2>2. y \in F \/ y = w
    BY <2>1
  <2>3. w \in F
    BY <1>2, <1>4, <2>2 DEF Closed
  <2> QED
    BY <1>5, <2>3
<1>8. Settled(t)
  BY <1>2, <1>3, <1>6, <1>7 DEF Settled
<1> QED
  BY <1>1, <1>2, <1>8 DEF Searched, t

LEMMA CycleGoesOn ==
  ASSUME GraphInv, NEW r \in Marks, NEW w \in Vertex, NEW j \in Nat \ {0}, ~(j > Len(adj[w])), Searching(r, w, j),
         NEW u, u = adj[w][j].to
  PROVE  /\ u \in Vertex /\ Arc(w, u)
         /\ u \in r.rec => ~Acyclic
         /\ u \in r.vis /\ u \notin r.rec => Searching(r, w, j + 1)
         /\ u \notin r.vis => Searching(Enter(r, u), u, 1)
<1>1. u \in Vertex /\ Arc(w, u)
  <2>1. j \in 1 .. Len(adj[w])
    BY HeadsAreArcs
  <2> QED
    BY <2>1, HeadsAreArcs
<1>2. r.vis \subseteq Vertex /\ r.rec \subseteq Vertex /\ r.rec \subseteq r.vis
  BY DEF Marks, Searching
<1>3. ASSUME u \in r.rec PROVE ~Acyclic
  <2>1. w \in Reach(u)
    BY <1>3 DEF Searching
  <2> QED
    BY <1>1, <2>1 DEF Acyclic
<1>4. ASSUME u \in r.vis, u \notin r.rec PROVE Searching(r, w, j + 1)
  <2>1. ASSUME NEW k \in 1 .. Len(adj[w]), k < j + 1 PROVE adj[w][k].to \in r.vis \ r.rec
    <3>1. k < j \/ k = j
      BY <2>1
    <3> QED
      BY <1>4, <3>1 DEF Searching
  <2> QED
    BY <2>1 DEF Searching
<1>5. ASSUME u \notin r.vis PROVE Searching(Enter(r, u), u, 1)
  <2> DEFINE e == Enter(r, u)
  <2>1. e.vis = r.vis \cup {u} /\ e.rec = r.rec \cup {u} /\ ~e.found
    BY DEF Enter
  <2>2. e.vis \ e.rec = r.vis \ r.rec
    BY <1>2, <1>5, <2>1
  <2> HIDE DEF e
  <2>3. Settled(e)
    BY <2>2 DEF Settled, Searching
  <2>4. \A v \in e.rec : u \in Reach(v)
    <3> SUFFICES ASSUME NEW v \in e.rec, v # u PROVE u \in Reach(v)
      BY <1>1, ReachStart
    <3>1. w \in Reach(v)
      BY <2>1 DEF Searching
    <3> QED
      BY <1>1, <3>1, ReachStep
  <2>5. \A k \in 1 .. Len(adj[u]) : ~(k < 1)
    OBVIOUS
  <2>6. e.rec \subseteq e.vis /\ u \in e.rec
    BY <1>2, <2>1
  <2> QED
    BY <2>1, <2>3, <2>4, <2>5, <2>6 DEF Searching, e
<1> QED
  BY <1>1, <1>3, <1>4, <1>5

\* After the search of a new vertex found no cycle, that of w goes on.
LEMMA CycleReturns ==
  ASSUME GraphInv, NEW r \in Marks, NEW w \in Vertex, NEW j \in Nat \ {0}, ~(j > Len(adj[w])), Searching(r, w, j),
         NEW u, u = adj[w][j].to, u \notin r.vis, NEW t \in Marks, ~t.found, Searched(Enter(r, u), u, t)
  PROVE  u \notin t.rec /\ t.rec = r.rec /\ r.vis \subseteq t.vis /\ Searching(t, w, j + 1)
<1>1. t.rec = r.rec /\ u \notin t.rec /\ r.vis \subseteq t.vis /\ u \in t.vis /\ Settled(t)
  <2>1. Enter(r, u).vis = r.vis \cup {u} /\ Enter(r, u).rec = r.rec \cup {u}
    BY DEF Enter
  <2>2. u \notin r.rec
    BY DEF Searching
  <2> QED
    BY ZenonT(60), <2>1, <2>2 DEF Searched
<1>2. ASSUME NEW k \in 1 .. Len(adj[w]), k < j + 1 PROVE adj[w][k].to \in t.vis \ t.rec
  <2>1. k < j \/ k = j
    BY <1>2
  <2> QED
    BY <1>1, <2>1 DEF Searching
<1> QED
  BY <1>1, <1>2 DEF Searching

CyclePlaces == Marks \X Vertex \X Place

\* The body of search in CycleFrom.
CycleBody(x, f) ==
  LET r == x[1]
      w == x[2]
      j == x[3]
      u == adj[w][j].to
      t == IF u \in r.vis THEN r ELSE f[<<Enter(r, u), u, 1>>]
  IN  IF j > Len(adj[w]) THEN [r EXCEPT !.rec = @ \ {w}]
      ELSE IF t.found \/ u \in t.rec THEN [t EXCEPT !.found = TRUE]
      ELSE f[<<t, w, j + 1>>]

CycleResult(r, w, j, t) ==
  /\ t \in Marks /\ r.vis \subseteq t.vis
  /\ Searching(r, w, j) => Searched(r, w, t)

CycleRight == {z \in CyclePlaces \X Marks : CycleResult(z[1][1], z[1][2], z[1][3], z[2])}

CycleSeen == [r \in Marks |-> r.vis]

LEMMA CycleMeasured ==
  ASSUME GraphInv
  PROVE  \E m \in [CyclePlaces -> Nat] : LaterIsLess(m, Marks, CycleSeen)
<1>1. CycleSeen \in [Marks -> SUBSET Vertex]
  BY DEF CycleSeen, Marks
<1> QED
  BY <1>1, PlacesMeasured DEF CyclePlaces

LEMMA CycleShrinks ==
  ASSUME NEW m \in [CyclePlaces -> Nat], LaterIsLess(m, Marks, CycleSeen),
         NEW r \in Marks, NEW w \in Vertex, NEW j \in Place, NEW t \in Marks, r.vis \subseteq t.vis
  PROVE  /\ j <= Len(adj[w]) => m[<<t, w, j + 1>>] < m[<<r, w, j>>]
         /\ \A v \in Vertex, k \in Place : r.vis # t.vis => m[<<t, v, k>>] < m[<<r, w, j>>]
<1>1. CycleSeen[r] = r.vis /\ CycleSeen[t] = t.vis
  BY DEF CycleSeen
<1> QED
  BY <1>1 DEF LaterIsLess

LEMMA CycleStep ==
  ASSUME GraphInv, NEW m \in [CyclePlaces -> Nat], LaterIsLess(m, Marks, CycleSeen), NEW x \in CyclePlaces,
         NEW g, NEW h,
         \A y \in CyclePlaces : m[y] < m[x] => <<y, g[y]>> \in CycleRight /\ g[y] = h[y]
  PROVE  CycleBody(x, g) = CycleBody(x, h) /\ <<x, CycleBody(x, g)>> \in CycleRight
<1> DEFINE r == x[1]
           w == x[2]
           j == x[3]
           u == adj[w][j].to
           tg == IF u \in r.vis THEN r ELSE g[<<Enter(r, u), u, 1>>]
           th == IF u \in r.vis THEN r ELSE h[<<Enter(r, u), u, 1>>]
<1>1. r \in Marks /\ w \in Vertex /\ j \in Place /\ x = <<r, w, j>>
  BY DEF CyclePlaces
<1>2. /\ CycleBody(x, g) = IF j > Len(adj[w]) THEN [r EXCEPT !.rec = @ \ {w}]
                           ELSE IF tg.found \/ u \in tg.rec THEN [tg EXCEPT !.found = TRUE]
                           ELSE g[<<tg, w, j + 1>>]
      /\ CycleBody(x, h) = IF j > Len(adj[w]) THEN [r EXCEPT !.rec = @ \ {w}]
                           ELSE IF th.found \/ u \in th.rec THEN [th EXCEPT !.found = TRUE]
                           ELSE h[<<th, w, j + 1>>]
  BY DEF CycleBody
<1> HIDE DEF r, w, j, u
<1>3. \A t : CycleResult(r, w, j, t) => <<x, t>> \in CycleRight
  BY <1>1 DEF CycleRight, CyclePlaces, CycleResult
<1>4. ASSUME NEW t \in Marks, NEW v \in Vertex, NEW k \in Place, m[<<t, v, k>>] < m[x]
      PROVE  g[<<t, v, k>>] = h[<<t, v, k>>] /\ CycleResult(t, v, k, g[<<t, v, k>>])
  <2> DEFINE y == <<t, v, k>>
  <2>1. y \in CyclePlaces /\ y[1] = t /\ y[2] = v /\ y[3] = k
    BY DEF CyclePlaces
  <2> HIDE DEF y
  <2>2. <<y, g[y]>> \in CycleRight /\ g[y] = h[y]
    BY <1>4, <2>1 DEF y
  <2>3. CycleResult(y[1], y[2], y[3], g[y])
    BY <2>2 DEF CycleRight
  <2> QED
    BY <2>1, <2>2, <2>3 DEF y
<1>5. j \in Nat \ {0} /\ j \in Nat /\ j + 1 \in Place /\ 1 \in Place /\ Len(adj[w]) \in Nat
  BY <1>1, HeadsAreArcs DEF Place
<1>6. CASE j > Len(adj[w])
  <2> DEFINE t == [r EXCEPT !.rec = @ \ {w}]
  <2>1. t \in Marks /\ t.vis = r.vis
    BY <1>1 DEF Marks
  <2>2. Searching(r, w, j) => Searched(r, w, t)
    <3> HIDE DEF t
    <3> QED
      BY <1>1, <1>5, <1>6, CycleEnds DEF t
  <2>3. CycleBody(x, g) = t /\ CycleBody(x, h) = t
    BY <1>2, <1>6
  <2> HIDE DEF t
  <2>4. CycleResult(r, w, j, t)
    BY <2>1, <2>2 DEF CycleResult
  <2> QED
    BY <1>3, <2>3, <2>4
<1>7. CASE ~(j > Len(adj[w]))
  <2>1. j <= Len(adj[w]) /\ j \in 1 .. Len(adj[w])
    BY <1>5, <1>7
  <2>2. u \in Vertex
    BY <1>1, <2>1, HeadsAreArcs DEF u
  <2>3. Searching(r, w, j) =>
          /\ u \in r.rec => ~Acyclic
          /\ u \in r.vis /\ u \notin r.rec => Searching(r, w, j + 1)
          /\ u \notin r.vis => Searching(Enter(r, u), u, 1)
    BY <1>1, <1>5, <1>7, CycleGoesOn DEF u
  <2>4. /\ tg = th /\ tg \in Marks /\ r.vis \subseteq tg.vis
        /\ Searching(r, w, j) => /\ tg.found \/ u \in tg.rec => ~Acyclic
                                 /\ ~(tg.found \/ u \in tg.rec) => Searching(tg, w, j + 1) /\ tg.rec = r.rec
    <3>1. CASE u \in r.vis
      <4>1. tg = r /\ th = r
        BY <3>1
      <4>2. Searching(r, w, j) => ~r.found
        BY DEF Searching
      <4> HIDE DEF tg, th
      <4> QED
        BY <1>1, <2>3, <3>1, <4>1, <4>2
    <3>2. CASE u \notin r.vis
      <4> DEFINE e == Enter(r, u)
      <4>1. e \in Marks /\ e.vis = r.vis \cup {u}
        BY <1>1, <2>2 DEF Marks, Enter
      <4> HIDE DEF e
      <4>2. m[<<e, u, 1>>] < m[x]
        BY <1>1, <1>5, <2>2, <3>2, <4>1, CycleShrinks
      <4>3. tg = g[<<e, u, 1>>] /\ th = h[<<e, u, 1>>]
        BY <3>2 DEF e
      <4>4. tg = th /\ CycleResult(e, u, 1, tg)
        BY <1>4, <1>5, <2>2, <4>1, <4>2, <4>3
      <4> HIDE DEF tg, th
      <4>5. tg \in Marks /\ r.vis \subseteq tg.vis /\ (Searching(e, u, 1) => Searched(e, u, tg))
        BY <4>1, <4>4 DEF CycleResult
      <4>6. ASSUME Searching(r, w, j)
            PROVE  /\ tg.found \/ u \in tg.rec => ~Acyclic
                   /\ ~(tg.found \/ u \in tg.rec) => Searching(tg, w, j + 1) /\ tg.rec = r.rec
        <5>1. Searched(e, u, tg)
          BY <2>3, <3>2, <4>5, <4>6 DEF e
        <5>2. CASE tg.found
          BY <5>1, <5>2 DEF Searched
        <5>3. CASE ~tg.found
          <6>1. u \notin tg.rec /\ tg.rec = r.rec /\ Searching(tg, w, j + 1)
            BY <1>1, <1>5, <1>7, <3>2, <4>5, <4>6, <5>1, <5>3, CycleReturns DEF u, e
          <6> QED
            BY <5>3, <6>1
        <5> QED
          BY <5>2, <5>3
      <4> QED
        BY <4>4, <4>5, <4>6
    <3> QED
      BY <3>1, <3>2
  <2> HIDE DEF tg, th
  <2>5. CASE tg.found \/ u \in tg.rec
    <3> DEFINE t == [tg EXCEPT !.found = TRUE]
    <3>1. t \in Marks /\ t.vis = tg.vis /\ t.found
      BY <2>4 DEF Marks
    <3>2. CycleBody(x, g) = t /\ CycleBody(x, h) = t
      BY <1>2, <1>7, <2>4, <2>5
    <3> HIDE DEF t
    <3>3. Searching(r, w, j) => Searched(r, w, t)
      BY <2>4, <2>5, <3>1 DEF Searched
    <3>4. CycleResult(r, w, j, t)
      BY <2>4, <3>1, <3>3 DEF CycleResult
    <3> QED
      BY <1>3, <3>2, <3>4
  <2>6. CASE ~(tg.found \/ u \in tg.rec)
    <3> DEFINE t == g[<<tg, w, j + 1>>]
    <3>1. m[<<tg, w, j + 1>>] < m[x]
      BY <1>1, <2>1, <2>4, CycleShrinks
    <3>2. t = h[<<tg, w, j + 1>>] /\ CycleResult(tg, w, j + 1, t)
      BY <1>1, <1>4, <1>5, <2>4, <3>1
    <3>3. CycleBody(x, g) = t /\ CycleBody(x, h) = t
      BY <1>2, <1>7, <2>4, <2>6, <3>2
    <3> HIDE DEF t
    <3>4. t \in Marks /\ tg.vis \subseteq t.vis /\ (Searching(tg, w, j + 1) => Searched(tg, w, t))
      BY <3>2 DEF CycleResult
    <3>5. Searching(r, w, j) => Searched(r, w, t)
      BY <2>4, <2>6, <3>4 DEF Searched
    <3>6. CycleResult(r, w, j, t)
      BY <2>4, <3>4, <3>5 DEF CycleResult
    <3> QED
      BY <1>3, <3>3, <3>6
  <2> QED
    BY <2>5, <2>6
<1> QED
  BY <1>6, <1>7

LEMMA CycleFromRight ==
  ASSUME GraphInv, NEW s \in Marks, NEW v \in Vertex
  PROVE  CycleResult(Enter(s, v), v, 1, CycleFrom(s, v))
<1> DEFINE V == Marks
           D == CyclePlaces
           Loop(f) == [x \in D |-> CycleBody(x, f)]
           search == CHOOSE f : f = Loop(f)
           F == [z \in D \X [D -> V] |-> CycleBody(z[1], z[2])]
<1>1. CycleFrom(s, v) = search[<<Enter(s, v), v, 1>>]
  BY DEF CycleFrom, CyclePlaces, CycleBody
<1>2. PICK m \in [D -> Nat] : LaterIsLess(m, Marks, CycleSeen)
  BY CycleMeasured
<1>3. ASSUME NEW x \in D, NEW g \in [D -> V] PROVE CycleBody(x, g) \in V
  <2> DEFINE r == x[1]
             w == x[2]
             j == x[3]
             u == adj[w][j].to
             t == IF u \in r.vis THEN r ELSE g[<<Enter(r, u), u, 1>>]
  <2>1. r \in Marks /\ w \in Vertex /\ j \in Nat \ {0} /\ Len(adj[w]) \in Nat
    BY HeadsAreArcs DEF CyclePlaces, Place
  <2>2. CycleBody(x, g) = IF j > Len(adj[w]) THEN [r EXCEPT !.rec = @ \ {w}]
                          ELSE IF t.found \/ u \in t.rec THEN [t EXCEPT !.found = TRUE]
                          ELSE g[<<t, w, j + 1>>]
    BY DEF CycleBody
  <2> HIDE DEF r, w, j, u
  <2>3. CASE j > Len(adj[w])
    BY <2>1, <2>2, <2>3 DEF Marks
  <2>4. CASE ~(j > Len(adj[w]))
    <3>1. j \in 1 .. Len(adj[w]) /\ j + 1 \in Place /\ 1 \in Place
      BY <2>1, <2>4 DEF Place
    <3>2. u \in Vertex
      BY <2>1, <3>1, HeadsAreArcs DEF u
    <3>3. Enter(r, u) \in Marks
      BY <2>1, <3>2 DEF Enter, Marks
    <3>4. t \in Marks
      <4>1. <<Enter(r, u), u, 1>> \in CyclePlaces
        BY <3>1, <3>2, <3>3 DEF CyclePlaces
      <4> QED
        BY <2>1, <4>1
    <3> HIDE DEF t
    <3>5. [t EXCEPT !.found = TRUE] \in Marks
      BY <3>4 DEF Marks
    <3>6. <<t, w, j + 1>> \in CyclePlaces
      BY <2>1, <3>1, <3>4 DEF CyclePlaces
    <3>7. g[<<t, w, j + 1>>] \in Marks
      BY <3>6
    <3> QED
      BY <2>2, <2>4, <3>5, <3>7
  <2> QED
    BY <2>3, <2>4
<1>4. F \in [D \X [D -> V] -> V]
  BY <1>3
<1>5. \A x \in D, g \in [D -> V] : F[<<x, g>>] = CycleBody(x, g)
  OBVIOUS
<1>6. ShrinksOn(D, V, m, F, CycleRight)
  <2> SUFFICES ASSUME NEW x \in D, NEW g \in [D -> V], NEW h \in [D -> V],
                      \A y \in D : m[y] < m[x] => <<y, g[y]>> \in CycleRight /\ g[y] = h[y]
               PROVE  F[<<x, g>>] = F[<<x, h>>] /\ <<x, F[<<x, g>>]>> \in CycleRight
    BY Zenon DEF ShrinksOn
  <2>1. CycleBody(x, g) = CycleBody(x, h) /\ <<x, CycleBody(x, g)>> \in CycleRight
    BY <1>2, CycleStep
  <2> HIDE DEF F, V
  <2> QED
    BY <1>5, <2>1
<1>7. V # {}
  BY DEF Marks
<1> HIDE DEF F
<1>8. PICK f \in [D -> V] : SolvesWith(f, D, F, CycleRight)
  <2> HIDE DEF V, D
  <2> QED
    BY <1>2, <1>4, <1>6, <1>7, GeneralRecursion
<1>9. f = Loop(f)
  BY <1>5, <1>8 DEF SolvesWith
<1>10. search = Loop(search)
  <2> HIDE DEF Loop
  <2> QED
    BY <1>9
<1>11. \A x \in D : search[x] = CycleBody(x, search)
  <2> HIDE DEF search
  <2> QED
    BY <1>10
<1> HIDE DEF search, Loop
<1> DEFINE U == {x \in D : <<x, search[x]>> \in CycleRight}
<1>12. ASSUME NEW x \in D, \A y \in D : m[y] < m[x] => y \in U PROVE x \in U
  <2>1. \A y \in D : m[y] < m[x] => <<y, search[y]>> \in CycleRight /\ search[y] = search[y]
    BY <1>12
  <2>2. <<x, CycleBody(x, search)>> \in CycleRight
    BY <1>2, <2>1, CycleStep
  <2> QED
    BY <1>11, <2>2
<1> HIDE DEF U
<1>13. D \subseteq U
  BY <1>2, <1>12, MeasureInduction
<1> DEFINE x == <<Enter(s, v), v, 1>>
<1>14. x \in D /\ x[1] = Enter(s, v) /\ x[2] = v /\ x[3] = 1
  <2>1. Enter(s, v) \in Marks /\ 1 \in Place
    BY DEF Enter, Marks, Place
  <2> QED
    BY <2>1 DEF CyclePlaces
<1> HIDE DEF x
<1>15. <<x, search[x]>> \in CycleRight
  BY <1>13, <1>14 DEF U
<1>16. CycleResult(x[1], x[2], x[3], search[x])
  BY <1>15 DEF CycleRight
<1> QED
  BY <1>1, <1>14, <1>16 DEF x

\* One turn of the loop of HasCycle.
Unmarked == [vis |-> {}, rec |-> {}, found |-> FALSE]
Marked(s, v) == IF s.found \/ v \in s.vis THEN s ELSE CycleFrom(s, v)

LEMMA HasCycleLoop ==
  ASSUME GraphInv
  PROVE  \E c : /\ c[0] = Unmarked /\ \A k \in 1 .. N : c[k] = Marked(c[k - 1], k - 1)
                /\ HasCycle = c[N].found
<1> DEFINE V == Marks
           Turn(f, k) == IF k = 0 THEN Unmarked ELSE Marked(f[k - 1], k - 1)
           Loop(f) == [k \in 0 .. N |-> Turn(f, k)]
           c == CHOOSE f : f = Loop(f)
           step == [z \in (1 .. N) \X V |-> Marked(z[2], z[1] - 1)]
<1>1. N \in Nat /\ 0 \in 0 .. N /\ N \in 0 .. N
  BY NAssumption
<1>2. \A k \in 1 .. N : k - 1 \in Vertex /\ k - 1 \in 0 .. N /\ k \in 0 .. N /\ k # 0
  BY <1>1 DEF Vertex
<1>3. Unmarked \in V
  BY DEF Marks, Unmarked
<1>4. step \in [(1 .. N) \X V -> V]
  <2>1. \A z \in (1 .. N) \X V : Marked(z[2], z[1] - 1) \in V
    <3> TAKE z \in (1 .. N) \X V
    <3>1. z[2] \in Marks /\ z[1] - 1 \in Vertex
      BY <1>2
    <3>2. CycleFrom(z[2], z[1] - 1) \in Marks
      BY <3>1, CycleFromRight DEF CycleResult
    <3> QED
      BY <3>1, <3>2 DEF Marked
  <2> QED
    BY <2>1
<1>5. \A k \in 1 .. N, s \in V : step[<<k, s>>] = Marked(s, k - 1)
  OBVIOUS
<1> HIDE DEF step, V
<1>6. PICK f \in [0 .. N -> V] : Iteration(f, N, Unmarked, step)
  BY <1>1, <1>3, <1>4, Iterates
<1>7. f = Loop(f)
  <2>1. ASSUME NEW k \in 0 .. N PROVE f[k] = Turn(f, k)
    <3>1. CASE k = 0
      BY <1>6, <3>1 DEF Iteration
    <3>2. CASE k # 0
      <4>1. k \in 1 .. N
        BY <1>1, <3>2
      <4>2. f[k - 1] \in V /\ f[k] = step[<<k, f[k - 1]>>]
        BY <1>2, <1>6, <4>1 DEF Iteration
      <4> QED
        BY <1>5, <3>2, <4>1, <4>2
    <3> QED
      BY <3>1, <3>2
  <2>2. f = [k \in 0 .. N |-> f[k]]
    OBVIOUS
  <2> HIDE DEF Turn
  <2> QED
    BY <2>1, <2>2
<1>8. HasCycle = c[N].found
  BY DEF HasCycle, Marked, Unmarked
<1>9. c = Loop(c)
  <2> HIDE DEF Loop
  <2> QED
    BY <1>7
<1>10. \A k \in 0 .. N : c[k] = Turn(c, k)
  <2> HIDE DEF c, Turn
  <2> QED
    BY <1>9
<1> HIDE DEF c
<1> QED
  BY <1>1, <1>2, <1>8, <1>10

LEMMA HasCycleRight == GraphInv => (HasCycle <=> ~Acyclic)
<1> SUFFICES ASSUME GraphInv PROVE HasCycle <=> ~Acyclic
  OBVIOUS
<1>1. PICK c : /\ c[0] = Unmarked /\ \A k \in 1 .. N : c[k] = Marked(c[k - 1], k - 1)
               /\ HasCycle = c[N].found
  BY HasCycleLoop
<1> DEFINE Right(k) == /\ c[k] \in Marks
                       /\ c[k].found => ~Acyclic
                       /\ ~c[k].found =>
                            /\ c[k].rec = {} /\ Settled(c[k])
                            /\ \A v \in Vertex : v < k => v \in c[k].vis
           U == {k \in Nat : k <= N => Right(k)}
<1>2. 0 \in U
  <2>1. Unmarked \in Marks /\ Unmarked.rec = {} /\ Unmarked.vis = {} /\ ~Unmarked.found
    BY DEF Unmarked, Marks
  <2>2. Settled(Unmarked)
    BY <2>1 DEF Settled, Closed
  <2>3. \A v \in Vertex : ~(v < 0)
    BY DEF Vertex
  <2> QED
    BY <1>1, <2>1, <2>2, <2>3
<1>3. ASSUME NEW k \in Nat, k \in U PROVE k + 1 \in U
  <2> SUFFICES ASSUME k + 1 <= N PROVE Right(k + 1)
    OBVIOUS
  <2>1. N \in Nat /\ k + 1 \in 1 .. N /\ (k + 1) - 1 = k /\ k \in Vertex /\ k <= N
    BY NAssumption DEF Vertex
  <2> DEFINE s == c[k]
             t == c[k + 1]
  <2>2. Right(k) /\ t = Marked(s, k)
    BY <1>1, <1>3, <2>1
  <2>3. /\ s \in Marks
        /\ s.found => ~Acyclic
        /\ ~s.found => s.rec = {} /\ Settled(s) /\ \A v \in Vertex : v < k => v \in s.vis
    BY <2>2
  <2>4. \A v \in Vertex : v < k + 1 => v < k \/ v = k
    BY DEF Vertex
  <2> HIDE DEF s, t
  <2>5. CASE s.found \/ k \in s.vis
    <3>1. t = s
      BY <2>2, <2>5 DEF Marked
    <3>2. ~t.found => \A v \in Vertex : v < k + 1 => v \in t.vis
      BY <2>3, <2>4, <2>5, <3>1
    <3> QED
      BY <2>3, <3>1, <3>2 DEF t
  <2>6. CASE ~(s.found \/ k \in s.vis)
    <3> DEFINE e == Enter(s, k)
    <3>1. t = CycleFrom(s, k)
      BY <2>2, <2>6 DEF Marked
    <3>2. e.vis = s.vis \cup {k} /\ e.rec = {k} /\ ~e.found
      BY <2>3, <2>6 DEF Enter
    <3>3. CycleResult(e, k, 1, t)
      BY <2>1, <2>3, <3>1, CycleFromRight
    <3> HIDE DEF e
    <3>4. e.vis \ e.rec = s.vis \ s.rec
      BY <2>3, <2>6, <3>2
    <3>5. Settled(e)
      BY <2>3, <2>6, <3>4 DEF Settled
    <3>6. \A i \in 1 .. Len(adj[k]) : ~(i < 1)
      OBVIOUS
    <3>7. Searching(e, k, 1)
      BY <2>1, <3>2, <3>5, <3>6, ReachStart DEF Searching
    <3>8. t \in Marks /\ Searched(e, k, t)
      BY <3>3, <3>7 DEF CycleResult
    <3>9. ASSUME ~t.found PROVE t.rec = {} /\ Settled(t) /\ \A v \in Vertex : v < k + 1 => v \in t.vis
      BY <2>3, <2>4, <2>6, <3>2, <3>8, <3>9 DEF Searched
    <3> QED
      BY <3>8, <3>9 DEF Searched, t
  <2> QED
    BY <2>5, <2>6
<1> HIDE DEF U
<1>4. N \in U /\ N \in Nat /\ N <= N /\ \A v \in Vertex : v < N
  <2>1. Nat \subseteq U
    BY <1>2, <1>3, Induction
  <2> QED
    BY <2>1, NAssumption DEF Vertex
<1>5. Right(N)
  BY <1>4 DEF U
<1>6. ASSUME ~c[N].found PROVE Acyclic
  BY <1>4, <1>5, <1>6 DEF Settled, Acyclic
<1> QED
  BY <1>1, <1>5, <1>6
------------------------------------------------------------------------------
\* The topological sort by depth-first search.

TopoStates == [vis : SUBSET Vertex, stack : Seq(Vertex)]
TopoPlaces == TopoStates \X Vertex \X Place
TopoVisit(r, u) == [vis |-> r.vis \cup {u}, stack |-> r.stack]

\* The body of topo in TopoFrom.
TopoBody(x, f) ==
  LET r == x[1]
      w == x[2]
      j == x[3]
      u == DagHeads[w][j]
  IN  IF j > Len(DagHeads[w]) THEN [r EXCEPT !.stack = <<w>> \o @]
      ELSE f[<<IF u \in r.vis THEN r ELSE f[<<TopoVisit(r, u), u, 1>>], w, j + 1>>]

\* The stack has each vertex once, above all those its arcs lead to.
Stacked(s) ==
  /\ s \in Seq(Vertex) /\ Distinct(s)
  /\ \A i \in 1 .. Len(s), y \in Vertex : Arc(s[i], y) => \E k \in 1 .. Len(s) : i < k /\ s[k] = y

\* The vertices visited and not yet pushed, those on the recursion stack.
Open(r) == r.vis \ ToSet(r.stack)

\* The search is at place j of the list of w: the open vertices reach it, and
\* its first j - 1 arcs lead to the stack.
TopoSearching(r, w, j) ==
  /\ Stacked(r.stack) /\ ToSet(r.stack) \subseteq r.vis
  /\ w \in Open(r) /\ \A u \in Open(r) : w \in Reach(u)
  /\ \A k \in 1 .. Len(DagHeads[w]) : k < j => DagHeads[w][k] \in ToSet(r.stack)

TopoSearched(r, w, t) ==
  /\ Stacked(t.stack) /\ ToSet(t.stack) \subseteq t.vis
  /\ r.vis \subseteq t.vis /\ Open(t) = Open(r) \ {w}

LEMMA DagHeadsFacts ==
  ASSUME GraphInv, NEW w \in Vertex
  PROVE  /\ Len(DagHeads[w]) \in Nat /\ Len(DagHeads[w]) = Len(adj[w])
         /\ \A k \in 1 .. Len(DagHeads[w]) : DagHeads[w][k] \in Vertex /\ Arc(w, DagHeads[w][k])
         /\ \A y \in Vertex : Arc(w, y) => \E k \in 1 .. Len(DagHeads[w]) : DagHeads[w][k] = y
<1>1. DagHeads[w] \in Seq(Vertex) /\ Lists(DagHeads)
  BY HeadsAreLists DEF Lists
<1>2. Len(DagHeads[w]) = Len(adj[w])
  <2>1. DagHeads[w] = Reverse(Heads[w])
    BY DEF DagHeads
  <2>2. Len(Heads[w]) = Len(adj[w]) /\ Len(adj[w]) \in Nat
    BY HeadsAreLists, HeadsAreArcs
  <2> QED
    BY <2>1, <2>2 DEF Reverse
<1>3. \A k \in 1 .. Len(DagHeads[w]) : DagHeads[w][k] \in Vertex
  BY <1>1, Members
<1> QED
  BY <1>1, <1>2, <1>3, Members DEF Lists

LEMMA Pushed ==
  ASSUME NEW s \in Seq(Vertex), NEW u \in Vertex
  PROVE  /\ <<u>> \o s \in Seq(Vertex) /\ Len(<<u>> \o s) = Len(s) + 1 /\ (<<u>> \o s)[1] = u
         /\ \A i \in 1 .. Len(s) : (<<u>> \o s)[i + 1] = s[i]
         /\ \A i \in 1 .. Len(s) + 1 : i = 1 \/ (i - 1 \in 1 .. Len(s) /\ (<<u>> \o s)[i] = s[i - 1])
         /\ ToSet(<<u>> \o s) = ToSet(s) \cup {u}
<1> DEFINE t == <<u>> \o s
           n == Len(s)
<1>1. n \in Nat /\ t \in Seq(Vertex) /\ Len(t) = n + 1 /\ t[1] = u
  OBVIOUS
<1>2. \A i \in 1 .. n + 1 : i = 1 \/ (i - 1 \in 1 .. n /\ t[i] = s[i - 1])
  OBVIOUS
<1>3. \A i \in 1 .. n : t[i + 1] = s[i]
  OBVIOUS
<1> HIDE DEF t, n
<1>4. 1 \in 1 .. n + 1 /\ \A i \in 1 .. n : i + 1 \in 1 .. n + 1
  BY <1>1
<1>5. ToSet(t) = ToSet(s) \cup {u}
  <2>1. ASSUME NEW x \in ToSet(t) PROVE x \in ToSet(s) \cup {u}
    <3>1. PICK i \in 1 .. n + 1 : t[i] = x
      BY <1>1, Members
    <3>2. i = 1 \/ (i - 1 \in 1 .. n /\ t[i] = s[i - 1])
      BY <1>2
    <3> QED
      BY <1>1, <3>1, <3>2, Members DEF n
  <2>2. ASSUME NEW x \in ToSet(s) PROVE x \in ToSet(t)
    <3>1. PICK i \in 1 .. n : s[i] = x
      BY Members DEF n
    <3>2. i + 1 \in 1 .. Len(t) /\ t[i + 1] = x
      BY <1>1, <1>3, <1>4, <3>1
    <3> QED
      BY <1>1, <3>2, Members
  <2>3. u \in ToSet(t)
    BY <1>1, <1>4, Members
  <2> QED
    BY <2>1, <2>2, <2>3
<1> QED
  BY <1>1, <1>2, <1>3, <1>5 DEF t, n

LEMMA TopoEnds ==
  ASSUME GraphInv, NEW r \in TopoStates, NEW w \in Vertex, NEW j \in Nat, j > Len(DagHeads[w]), TopoSearching(r, w, j)
  PROVE  TopoSearched(r, w, [r EXCEPT !.stack = <<w>> \o @])
<1> DEFINE s == r.stack
           p == <<w>> \o s
           t == [r EXCEPT !.stack = p]
           n == Len(s)
<1>1. t.vis = r.vis /\ t.stack = p /\ t = [r EXCEPT !.stack = <<w>> \o @]
  BY DEF TopoStates
<1>2. /\ s \in Seq(Vertex) /\ n \in Nat /\ \A i, k \in 1 .. n : s[i] = s[k] => i = k
      /\ \A i \in 1 .. n, y \in Vertex : Arc(s[i], y) => \E k \in 1 .. n : i < k /\ s[k] = y
      /\ ToSet(s) \subseteq r.vis /\ w \in r.vis /\ w \notin ToSet(s)
      /\ \A i \in 1 .. n : s[i] # w
  BY Members DEF TopoSearching, Stacked, Open, Distinct
<1>3. /\ p \in Seq(Vertex) /\ Len(p) = n + 1 /\ p[1] = w
      /\ \A i \in 1 .. n : p[i + 1] = s[i]
      /\ \A i \in 1 .. n + 1 : i = 1 \/ (i - 1 \in 1 .. n /\ p[i] = s[i - 1])
      /\ ToSet(p) = ToSet(s) \cup {w}
  BY <1>2, Pushed
<1>4. \A y \in Vertex : Arc(w, y) => \E k \in 1 .. n : s[k] = y
  <2> SUFFICES ASSUME NEW y \in Vertex, Arc(w, y) PROVE \E k \in 1 .. n : s[k] = y
    OBVIOUS
  <2>1. PICK k \in 1 .. Len(DagHeads[w]) : DagHeads[w][k] = y
    BY DagHeadsFacts
  <2>2. k < j
    BY DagHeadsFacts
  <2>3. y \in ToSet(s)
    BY <2>1, <2>2 DEF TopoSearching
  <2> QED
    BY <1>2, <2>3, Members
<1> HIDE DEF p, n, s, t
<1>5. ASSUME NEW i \in 1 .. n + 1, NEW k \in 1 .. n + 1, p[i] = p[k] PROVE i = k
  <2>1. (i = 1 \/ (i - 1 \in 1 .. n /\ p[i] = s[i - 1])) /\ (k = 1 \/ (k - 1 \in 1 .. n /\ p[k] = s[k - 1]))
    BY <1>3
  <2>2. i - 1 = k - 1 => i = k
    BY <1>2
  <2> QED
    BY <1>2, <1>3, <1>5, <2>1, <2>2
<1>6. ASSUME NEW i \in 1 .. n + 1, NEW y \in Vertex, Arc(p[i], y) PROVE \E k \in 1 .. n + 1 : i < k /\ p[k] = y
  <2>1. i = 1 \/ (i - 1 \in 1 .. n /\ p[i] = s[i - 1])
    BY <1>3
  <2>2. PICK k \in 1 .. n : i - 1 < k /\ s[k] = y
    <3>1. CASE i = 1
      <4>1. PICK k \in 1 .. n : s[k] = y
        BY <1>3, <1>4, <1>6, <3>1
      <4>2. i - 1 < k
        BY <3>1
      <4> QED
        BY <4>1, <4>2
    <3>2. CASE i - 1 \in 1 .. n /\ p[i] = s[i - 1]
      BY <1>2, <1>6, <3>2
    <3> QED
      BY <2>1, <3>1, <3>2
  <2>3. k + 1 \in 1 .. n + 1 /\ i < k + 1 /\ p[k + 1] = y
    BY <1>2, <1>3, <2>2
  <2> QED
    BY <2>3
<1>7. Stacked(p)
  BY <1>3, <1>5, <1>6 DEF Stacked, Distinct
<1>8. Open(t) = Open(r) \ {w} /\ ToSet(t.stack) \subseteq t.vis
  BY <1>1, <1>2, <1>3 DEF Open, s
<1>9. TopoSearched(r, w, t)
  BY <1>1, <1>7, <1>8 DEF TopoSearched
<1> QED
  BY <1>1, <1>9

LEMMA TopoGoesOn ==
  ASSUME GraphInv, Acyclic, NEW r \in TopoStates, NEW w \in Vertex, NEW j \in Nat \ {0}, ~(j > Len(DagHeads[w])),
         TopoSearching(r, w, j), NEW u, u = DagHeads[w][j]
  PROVE  /\ u \in r.vis => TopoSearching(r, w, j + 1)
         /\ u \notin r.vis => TopoSearching(TopoVisit(r, u), u, 1)
<1>1. u \in Vertex /\ Arc(w, u)
  <2>1. j \in 1 .. Len(DagHeads[w])
    BY DagHeadsFacts
  <2> QED
    BY <2>1, DagHeadsFacts
<1>2. ASSUME u \in r.vis PROVE TopoSearching(r, w, j + 1)
  <2>1. u \in ToSet(r.stack)
    <3> SUFFICES ASSUME u \in Open(r) PROVE FALSE
      BY <1>2 DEF Open
    <3>1. w \in Reach(u)
      BY DEF TopoSearching
    <3> QED
      BY <1>1, <3>1 DEF Acyclic
  <2>2. ASSUME NEW k \in 1 .. Len(DagHeads[w]), k < j + 1 PROVE DagHeads[w][k] \in ToSet(r.stack)
    <3>1. k < j \/ k = j
      BY <2>2
    <3> QED
      BY <2>1, <3>1 DEF TopoSearching
  <2> QED
    BY <2>2 DEF TopoSearching
<1>3. ASSUME u \notin r.vis PROVE TopoSearching(TopoVisit(r, u), u, 1)
  <2> DEFINE e == TopoVisit(r, u)
  <2>1. e.vis = r.vis \cup {u} /\ e.stack = r.stack
    BY DEF TopoVisit
  <2> HIDE DEF e
  <2>2. ToSet(r.stack) \subseteq r.vis /\ Stacked(r.stack)
    BY DEF TopoSearching
  <2>3. Open(e) = Open(r) \cup {u}
    BY <1>3, <2>1, <2>2 DEF Open
  <2>4. \A v \in Open(e) : u \in Reach(v)
    <3> SUFFICES ASSUME NEW v \in Open(e), v # u PROVE u \in Reach(v)
      BY <1>1, ReachStart
    <3>1. w \in Reach(v)
      BY <2>3 DEF TopoSearching
    <3> QED
      BY <1>1, <3>1, ReachStep
  <2>5. \A k \in 1 .. Len(DagHeads[u]) : ~(k < 1)
    OBVIOUS
  <2>6. TopoSearching(e, u, 1)
    BY <2>1, <2>2, <2>3, <2>4, <2>5 DEF TopoSearching
  <2> QED
    BY <2>6 DEF e
<1> QED
  BY <1>2, <1>3

LEMMA TopoReturns ==
  ASSUME GraphInv, NEW r \in TopoStates, NEW w \in Vertex, NEW j \in Nat \ {0}, ~(j > Len(DagHeads[w])),
         TopoSearching(r, w, j), NEW u, u = DagHeads[w][j], u \notin r.vis,
         NEW t \in TopoStates, TopoSearched(TopoVisit(r, u), u, t)
  PROVE  TopoSearching(t, w, j + 1) /\ Open(t) = Open(r)
<1> DEFINE e == TopoVisit(r, u)
<1>1. e.vis = r.vis \cup {u} /\ e.stack = r.stack
  BY DEF TopoVisit
<1> HIDE DEF e
<1>2. Stacked(t.stack) /\ ToSet(t.stack) \subseteq t.vis /\ e.vis \subseteq t.vis /\ Open(t) = Open(e) \ {u}
  BY DEF TopoSearched, e
<1>3. ToSet(r.stack) \subseteq r.vis
  BY DEF TopoSearching
<1>4. Open(t) = Open(r)
  BY <1>1, <1>2, <1>3 DEF Open
<1>5. ASSUME NEW k \in 1 .. Len(DagHeads[w]), k < j + 1 PROVE DagHeads[w][k] \in ToSet(t.stack)
  <2>1. k < j \/ k = j
    BY <1>5
  <2>2. CASE k < j
    <3>1. DagHeads[w][k] \in ToSet(r.stack)
      BY <2>2 DEF TopoSearching
    <3> QED
      BY <1>1, <1>2, <1>3, <1>4, <3>1 DEF Open
  <2>3. CASE k = j
    BY <1>1, <1>2, <1>4, <2>3 DEF Open
  <2> QED
    BY <2>1, <2>2, <2>3
<1>6. w \in Open(t) /\ \A v \in Open(t) : w \in Reach(v)
  BY <1>4 DEF TopoSearching
<1> QED
  BY <1>2, <1>4, <1>5, <1>6 DEF TopoSearching

TopoResult(r, w, j, t) ==
  /\ t \in TopoStates /\ r.vis \subseteq t.vis
  /\ Acyclic /\ TopoSearching(r, w, j) => TopoSearched(r, w, t)

TopoRight == {z \in TopoPlaces \X TopoStates : TopoResult(z[1][1], z[1][2], z[1][3], z[2])}

TopoSeen == [r \in TopoStates |-> r.vis]

LEMMA TopoMeasured ==
  ASSUME GraphInv
  PROVE  \E m \in [TopoPlaces -> Nat] : LaterIsLess(m, TopoStates, TopoSeen)
<1>1. TopoSeen \in [TopoStates -> SUBSET Vertex]
  BY DEF TopoSeen, TopoStates
<1> QED
  BY <1>1, PlacesMeasured DEF TopoPlaces

LEMMA TopoShrinks ==
  ASSUME NEW m \in [TopoPlaces -> Nat], LaterIsLess(m, TopoStates, TopoSeen),
         NEW r \in TopoStates, NEW w \in Vertex, NEW j \in Place, NEW t \in TopoStates, r.vis \subseteq t.vis
  PROVE  /\ j <= Len(adj[w]) => m[<<t, w, j + 1>>] < m[<<r, w, j>>]
         /\ \A v \in Vertex, k \in Place : r.vis # t.vis => m[<<t, v, k>>] < m[<<r, w, j>>]
<1>1. TopoSeen[r] = r.vis /\ TopoSeen[t] = t.vis
  BY DEF TopoSeen
<1> QED
  BY <1>1 DEF LaterIsLess

LEMMA TopoStep ==
  ASSUME GraphInv, NEW m \in [TopoPlaces -> Nat], LaterIsLess(m, TopoStates, TopoSeen), NEW x \in TopoPlaces,
         NEW g, NEW h,
         \A y \in TopoPlaces : m[y] < m[x] => <<y, g[y]>> \in TopoRight /\ g[y] = h[y]
  PROVE  TopoBody(x, g) = TopoBody(x, h) /\ <<x, TopoBody(x, g)>> \in TopoRight
<1> DEFINE r == x[1]
           w == x[2]
           j == x[3]
           u == DagHeads[w][j]
           tg == IF u \in r.vis THEN r ELSE g[<<TopoVisit(r, u), u, 1>>]
           th == IF u \in r.vis THEN r ELSE h[<<TopoVisit(r, u), u, 1>>]
<1>1. r \in TopoStates /\ w \in Vertex /\ j \in Place /\ x = <<r, w, j>>
  BY DEF TopoPlaces
<1>2. /\ TopoBody(x, g) = IF j > Len(DagHeads[w]) THEN [r EXCEPT !.stack = <<w>> \o @] ELSE g[<<tg, w, j + 1>>]
      /\ TopoBody(x, h) = IF j > Len(DagHeads[w]) THEN [r EXCEPT !.stack = <<w>> \o @] ELSE h[<<th, w, j + 1>>]
  BY DEF TopoBody
<1> HIDE DEF r, w, j, u
<1>3. \A t : TopoResult(r, w, j, t) => <<x, t>> \in TopoRight
  BY <1>1 DEF TopoRight, TopoPlaces, TopoResult
<1>4. ASSUME NEW t \in TopoStates, NEW v \in Vertex, NEW k \in Place, m[<<t, v, k>>] < m[x]
      PROVE  g[<<t, v, k>>] = h[<<t, v, k>>] /\ TopoResult(t, v, k, g[<<t, v, k>>])
  <2> DEFINE y == <<t, v, k>>
  <2>1. y \in TopoPlaces /\ y[1] = t /\ y[2] = v /\ y[3] = k
    BY DEF TopoPlaces
  <2> HIDE DEF y
  <2>2. <<y, g[y]>> \in TopoRight /\ g[y] = h[y]
    BY <1>4, <2>1 DEF y
  <2>3. TopoResult(y[1], y[2], y[3], g[y])
    BY <2>2 DEF TopoRight
  <2> QED
    BY <2>1, <2>2, <2>3 DEF y
<1>5. j \in Nat \ {0} /\ j \in Nat /\ j + 1 \in Place /\ 1 \in Place
      /\ Len(DagHeads[w]) \in Nat /\ Len(DagHeads[w]) = Len(adj[w])
  BY <1>1, DagHeadsFacts DEF Place
<1>6. CASE j > Len(DagHeads[w])
  <2> DEFINE t == [r EXCEPT !.stack = <<w>> \o @]
  <2>1. t \in TopoStates /\ t.vis = r.vis
    <3>1. <<w>> \o r.stack \in Seq(Vertex)
      BY <1>1, Pushed DEF TopoStates
    <3> QED
      BY <1>1, <3>1 DEF TopoStates
  <2>2. TopoSearching(r, w, j) => TopoSearched(r, w, t)
    BY <1>1, <1>5, <1>6, TopoEnds
  <2>3. TopoBody(x, g) = t /\ TopoBody(x, h) = t
    BY <1>2, <1>6
  <2> HIDE DEF t
  <2>4. TopoResult(r, w, j, t)
    BY <2>1, <2>2 DEF TopoResult
  <2> QED
    BY <1>3, <2>3, <2>4
<1>7. CASE ~(j > Len(DagHeads[w]))
  <2>1. j <= Len(adj[w]) /\ j \in 1 .. Len(DagHeads[w])
    BY <1>5, <1>7
  <2>2. u \in Vertex
    BY <1>1, <2>1, DagHeadsFacts DEF u
  <2>3. Acyclic /\ TopoSearching(r, w, j) =>
          /\ u \in r.vis => TopoSearching(r, w, j + 1)
          /\ u \notin r.vis => TopoSearching(TopoVisit(r, u), u, 1)
    BY <1>1, <1>5, <1>7, TopoGoesOn DEF u
  <2>4. /\ tg = th /\ tg \in TopoStates /\ r.vis \subseteq tg.vis
        /\ Acyclic /\ TopoSearching(r, w, j) => TopoSearching(tg, w, j + 1) /\ Open(tg) = Open(r)
    <3>1. CASE u \in r.vis
      <4>1. tg = r /\ th = r
        BY <3>1
      <4> HIDE DEF tg, th
      <4> QED
        BY <1>1, <2>3, <3>1, <4>1
    <3>2. CASE u \notin r.vis
      <4> DEFINE e == TopoVisit(r, u)
      <4>1. e \in TopoStates /\ e.vis = r.vis \cup {u}
        BY <1>1, <2>2 DEF TopoStates, TopoVisit
      <4> HIDE DEF e
      <4>2. m[<<e, u, 1>>] < m[x]
        BY <1>1, <1>5, <2>2, <3>2, <4>1, TopoShrinks
      <4>3. tg = g[<<e, u, 1>>] /\ th = h[<<e, u, 1>>]
        BY <3>2 DEF e
      <4>4. tg = th /\ TopoResult(e, u, 1, tg)
        BY <1>4, <1>5, <2>2, <4>1, <4>2, <4>3
      <4> HIDE DEF tg, th
      <4>5. tg \in TopoStates /\ r.vis \subseteq tg.vis /\ (Acyclic /\ TopoSearching(e, u, 1) => TopoSearched(e, u, tg))
        BY <4>1, <4>4 DEF TopoResult
      <4>6. ASSUME Acyclic, TopoSearching(r, w, j)
            PROVE  TopoSearching(tg, w, j + 1) /\ Open(tg) = Open(r)
        <5>1. TopoSearched(e, u, tg)
          BY <2>3, <3>2, <4>5, <4>6 DEF e
        <5> QED
          BY <1>1, <1>5, <1>7, <3>2, <4>5, <4>6, <5>1, TopoReturns DEF u, e
      <4> QED
        BY <4>4, <4>5, <4>6
    <3> QED
      BY <3>1, <3>2
  <2> HIDE DEF tg, th
  <2> DEFINE t == g[<<tg, w, j + 1>>]
  <2>5. m[<<tg, w, j + 1>>] < m[x]
    BY <1>1, <2>1, <2>4, TopoShrinks
  <2>6. t = h[<<tg, w, j + 1>>] /\ TopoResult(tg, w, j + 1, t)
    BY <1>1, <1>4, <1>5, <2>4, <2>5
  <2>7. TopoBody(x, g) = t /\ TopoBody(x, h) = t
    BY <1>2, <1>7, <2>4, <2>6
  <2> HIDE DEF t
  <2>8. /\ t \in TopoStates /\ tg.vis \subseteq t.vis
        /\ Acyclic /\ TopoSearching(tg, w, j + 1) => TopoSearched(tg, w, t)
    BY <2>6 DEF TopoResult
  <2>9. Acyclic /\ TopoSearching(r, w, j) => TopoSearched(r, w, t)
    BY <2>4, <2>8 DEF TopoSearched
  <2>10. TopoResult(r, w, j, t)
    BY <2>4, <2>8, <2>9 DEF TopoResult
  <2> QED
    BY <1>3, <2>7, <2>10
<1> QED
  BY <1>6, <1>7

LEMMA TopoFromRight ==
  ASSUME GraphInv, NEW s \in TopoStates, NEW v \in Vertex
  PROVE  TopoResult(TopoVisit(s, v), v, 1, TopoFrom(s, v))
<1> DEFINE V == TopoStates
           D == TopoPlaces
           Loop(f) == [x \in D |-> TopoBody(x, f)]
           topo == CHOOSE f : f = Loop(f)
           F == [z \in D \X [D -> V] |-> TopoBody(z[1], z[2])]
<1>1. TopoFrom(s, v) = topo[<<TopoVisit(s, v), v, 1>>]
  BY DEF TopoFrom, TopoPlaces, TopoStates, TopoBody, TopoVisit
<1>2. PICK m \in [D -> Nat] : LaterIsLess(m, TopoStates, TopoSeen)
  BY TopoMeasured
<1>3. ASSUME NEW x \in D, NEW g \in [D -> V] PROVE TopoBody(x, g) \in V
  <2> DEFINE r == x[1]
             w == x[2]
             j == x[3]
             u == DagHeads[w][j]
             t == IF u \in r.vis THEN r ELSE g[<<TopoVisit(r, u), u, 1>>]
  <2>1. r \in TopoStates /\ w \in Vertex /\ j \in Nat \ {0} /\ Len(DagHeads[w]) \in Nat
    BY DagHeadsFacts DEF TopoPlaces, Place
  <2>2. TopoBody(x, g) = IF j > Len(DagHeads[w]) THEN [r EXCEPT !.stack = <<w>> \o @] ELSE g[<<t, w, j + 1>>]
    BY DEF TopoBody
  <2> HIDE DEF r, w, j, u
  <2>3. CASE j > Len(DagHeads[w])
    <3>1. <<w>> \o r.stack \in Seq(Vertex)
      BY <2>1, Pushed DEF TopoStates
    <3> QED
      BY <2>1, <2>2, <2>3, <3>1 DEF TopoStates
  <2>4. CASE ~(j > Len(DagHeads[w]))
    <3>1. j \in 1 .. Len(DagHeads[w]) /\ j + 1 \in Place /\ 1 \in Place
      BY <2>1, <2>4 DEF Place
    <3>2. u \in Vertex
      BY <2>1, <3>1, DagHeadsFacts DEF u
    <3>3. TopoVisit(r, u) \in TopoStates
      BY <2>1, <3>2 DEF TopoVisit, TopoStates
    <3>4. t \in TopoStates
      <4>1. <<TopoVisit(r, u), u, 1>> \in TopoPlaces
        BY <3>1, <3>2, <3>3 DEF TopoPlaces
      <4> QED
        BY <2>1, <4>1
    <3> HIDE DEF t
    <3>5. <<t, w, j + 1>> \in TopoPlaces
      BY <2>1, <3>1, <3>4 DEF TopoPlaces
    <3> QED
      BY <2>2, <2>4, <3>5
  <2> QED
    BY <2>3, <2>4
<1>4. F \in [D \X [D -> V] -> V]
  BY <1>3
<1>5. \A x \in D, g \in [D -> V] : F[<<x, g>>] = TopoBody(x, g)
  OBVIOUS
<1>6. ShrinksOn(D, V, m, F, TopoRight)
  <2> SUFFICES ASSUME NEW x \in D, NEW g \in [D -> V], NEW h \in [D -> V],
                      \A y \in D : m[y] < m[x] => <<y, g[y]>> \in TopoRight /\ g[y] = h[y]
               PROVE  F[<<x, g>>] = F[<<x, h>>] /\ <<x, F[<<x, g>>]>> \in TopoRight
    BY Zenon DEF ShrinksOn
  <2>1. TopoBody(x, g) = TopoBody(x, h) /\ <<x, TopoBody(x, g)>> \in TopoRight
    BY <1>2, TopoStep
  <2> HIDE DEF F, V
  <2> QED
    BY <1>5, <2>1
<1>7. V # {}
  <2>1. [vis |-> {}, stack |-> <<>>] \in V
    BY DEF TopoStates
  <2> QED
    BY <2>1
<1> HIDE DEF F
<1>8. PICK f \in [D -> V] : SolvesWith(f, D, F, TopoRight)
  <2> HIDE DEF V, D
  <2> QED
    BY <1>2, <1>4, <1>6, <1>7, GeneralRecursion
<1>9. f = Loop(f)
  BY <1>5, <1>8 DEF SolvesWith
<1>10. topo = Loop(topo)
  <2> HIDE DEF Loop
  <2> QED
    BY <1>9
<1>11. \A x \in D : topo[x] = TopoBody(x, topo)
  <2> HIDE DEF topo
  <2> QED
    BY <1>10
<1> HIDE DEF topo, Loop
<1> DEFINE U == {x \in D : <<x, topo[x]>> \in TopoRight}
<1>12. ASSUME NEW x \in D, \A y \in D : m[y] < m[x] => y \in U PROVE x \in U
  <2>1. \A y \in D : m[y] < m[x] => <<y, topo[y]>> \in TopoRight /\ topo[y] = topo[y]
    BY <1>12
  <2>2. <<x, TopoBody(x, topo)>> \in TopoRight
    BY <1>2, <2>1, TopoStep
  <2> QED
    BY <1>11, <2>2
<1> HIDE DEF U
<1>13. D \subseteq U
  BY <1>2, <1>12, MeasureInduction
<1> DEFINE x == <<TopoVisit(s, v), v, 1>>
<1>14. x \in D /\ x[1] = TopoVisit(s, v) /\ x[2] = v /\ x[3] = 1
  <2>1. TopoVisit(s, v) \in TopoStates /\ 1 \in Place
    BY DEF TopoVisit, TopoStates, Place
  <2> QED
    BY <2>1 DEF TopoPlaces
<1> HIDE DEF x
<1>15. <<x, topo[x]>> \in TopoRight
  BY <1>13, <1>14 DEF U
<1>16. TopoResult(x[1], x[2], x[3], topo[x])
  BY <1>15 DEF TopoRight
<1> QED
  BY <1>1, <1>14, <1>16 DEF x

\* One turn of the loop of TopoDfs.
Unvisited == [vis |-> {}, stack |-> <<>>]
TopoTurn(s, v) == IF v \in s.vis THEN s ELSE TopoFrom(s, v)

LEMMA TopoDfsLoop ==
  ASSUME GraphInv
  PROVE  \E c : /\ c[0] = Unvisited /\ \A k \in 1 .. N : c[k] = TopoTurn(c[k - 1], k - 1)
                /\ TopoDfs = c[N].stack
<1> DEFINE V == TopoStates
           Turn(f, k) == IF k = 0 THEN Unvisited ELSE TopoTurn(f[k - 1], k - 1)
           Loop(f) == [k \in 0 .. N |-> Turn(f, k)]
           c == CHOOSE f : f = Loop(f)
           step == [z \in (1 .. N) \X V |-> TopoTurn(z[2], z[1] - 1)]
<1>1. N \in Nat /\ 0 \in 0 .. N /\ N \in 0 .. N
  BY NAssumption
<1>2. \A k \in 1 .. N : k - 1 \in Vertex /\ k - 1 \in 0 .. N /\ k \in 0 .. N /\ k # 0
  BY <1>1 DEF Vertex
<1>3. Unvisited \in V
  BY DEF TopoStates, Unvisited
<1>4. step \in [(1 .. N) \X V -> V]
  <2>1. \A z \in (1 .. N) \X V : TopoTurn(z[2], z[1] - 1) \in V
    <3> TAKE z \in (1 .. N) \X V
    <3>1. z[2] \in TopoStates /\ z[1] - 1 \in Vertex
      BY <1>2
    <3>2. TopoFrom(z[2], z[1] - 1) \in TopoStates
      BY <3>1, TopoFromRight DEF TopoResult
    <3> QED
      BY <3>1, <3>2 DEF TopoTurn
  <2> QED
    BY <2>1
<1>5. \A k \in 1 .. N, s \in V : step[<<k, s>>] = TopoTurn(s, k - 1)
  OBVIOUS
<1> HIDE DEF step, V
<1>6. PICK f \in [0 .. N -> V] : Iteration(f, N, Unvisited, step)
  BY <1>1, <1>3, <1>4, Iterates
<1>7. f = Loop(f)
  <2>1. ASSUME NEW k \in 0 .. N PROVE f[k] = Turn(f, k)
    <3>1. CASE k = 0
      BY <1>6, <3>1 DEF Iteration
    <3>2. CASE k # 0
      <4>1. k \in 1 .. N
        BY <1>1, <3>2
      <4>2. f[k - 1] \in V /\ f[k] = step[<<k, f[k - 1]>>]
        BY <1>2, <1>6, <4>1 DEF Iteration
      <4> QED
        BY <1>5, <3>2, <4>1, <4>2
    <3> QED
      BY <3>1, <3>2
  <2>2. f = [k \in 0 .. N |-> f[k]]
    OBVIOUS
  <2> HIDE DEF Turn
  <2> QED
    BY <2>1, <2>2
<1>8. TopoDfs = c[N].stack
  BY DEF TopoDfs, TopoTurn, Unvisited
<1>9. c = Loop(c)
  <2> HIDE DEF Loop
  <2> QED
    BY <1>7
<1>10. \A k \in 0 .. N : c[k] = Turn(c, k)
  <2> HIDE DEF c, Turn
  <2> QED
    BY <1>9
<1> HIDE DEF c
<1> QED
  BY <1>1, <1>2, <1>8, <1>10

LEMMA TopoDfsOrders ==
  ASSUME GraphInv, Acyclic
  PROVE  Ordered(TopoDfs)
<1>1. PICK c : /\ c[0] = Unvisited /\ \A k \in 1 .. N : c[k] = TopoTurn(c[k - 1], k - 1)
               /\ TopoDfs = c[N].stack
  BY TopoDfsLoop
<1> DEFINE Right(k) == /\ c[k] \in TopoStates /\ Stacked(c[k].stack)
                       /\ ToSet(c[k].stack) = c[k].vis
                       /\ \A v \in Vertex : v < k => v \in c[k].vis
           U == {k \in Nat : k <= N => Right(k)}
<1>2. 0 \in U
  <2>1. Unvisited \in TopoStates /\ Unvisited.vis = {} /\ Unvisited.stack = <<>>
    BY DEF Unvisited, TopoStates
  <2>2. Stacked(<<>>) /\ ToSet(<<>>) = {}
    BY DEF Stacked, Distinct, ToSet
  <2>3. \A v \in Vertex : ~(v < 0)
    BY DEF Vertex
  <2> QED
    BY <1>1, <2>1, <2>2, <2>3
<1>3. ASSUME NEW k \in Nat, k \in U PROVE k + 1 \in U
  <2> SUFFICES ASSUME k + 1 <= N PROVE Right(k + 1)
    OBVIOUS
  <2>1. N \in Nat /\ k + 1 \in 1 .. N /\ (k + 1) - 1 = k /\ k \in Vertex /\ k <= N
    BY NAssumption DEF Vertex
  <2> DEFINE s == c[k]
             t == c[k + 1]
  <2>2. Right(k) /\ t = TopoTurn(s, k)
    BY <1>1, <1>3, <2>1
  <2>3. /\ s \in TopoStates /\ Stacked(s.stack) /\ ToSet(s.stack) = s.vis
        /\ \A v \in Vertex : v < k => v \in s.vis
    BY <2>2
  <2>4. \A v \in Vertex : v < k + 1 => v < k \/ v = k
    BY DEF Vertex
  <2> HIDE DEF s, t
  <2>5. CASE k \in s.vis
    <3>1. t = s
      BY <2>2, <2>5 DEF TopoTurn
    <3>2. \A v \in Vertex : v < k + 1 => v \in t.vis
      BY <2>3, <2>4, <2>5, <3>1
    <3> QED
      BY <2>3, <3>1, <3>2 DEF t
  <2>6. CASE k \notin s.vis
    <3> DEFINE e == TopoVisit(s, k)
    <3>1. t = TopoFrom(s, k)
      BY <2>2, <2>6 DEF TopoTurn
    <3>2. e.vis = s.vis \cup {k} /\ e.stack = s.stack
      BY DEF TopoVisit
    <3>3. TopoResult(e, k, 1, t)
      BY <2>1, <2>3, <3>1, TopoFromRight
    <3> HIDE DEF e
    <3>4. Open(e) = {k} /\ ToSet(e.stack) \subseteq e.vis
      BY <2>3, <2>6, <3>2 DEF Open
    <3>5. \A i \in 1 .. Len(DagHeads[k]) : ~(i < 1)
      OBVIOUS
    <3>6. TopoSearching(e, k, 1)
      BY <2>1, <2>3, <3>2, <3>4, <3>5, ReachStart DEF TopoSearching
    <3>7. t \in TopoStates /\ TopoSearched(e, k, t)
      BY <3>3, <3>6 DEF TopoResult
    <3>8. Open(t) = {} /\ Stacked(t.stack) /\ ToSet(t.stack) \subseteq t.vis /\ e.vis \subseteq t.vis
      BY <3>4, <3>7 DEF TopoSearched
    <3>9. ToSet(t.stack) = t.vis
      BY <3>8 DEF Open
    <3>10. \A v \in Vertex : v < k + 1 => v \in t.vis
      BY <2>3, <2>4, <3>2, <3>8
    <3> QED
      BY <3>7, <3>8, <3>9, <3>10 DEF t
  <2> QED
    BY <2>5, <2>6
<1> HIDE DEF U
<1>4. N \in U /\ N \in Nat /\ N <= N /\ \A v \in Vertex : v < N
  <2>1. Nat \subseteq U
    BY <1>2, <1>3, Induction
  <2> QED
    BY <2>1, NAssumption DEF Vertex
<1>5. Right(N)
  BY <1>4 DEF U
<1> DEFINE s == TopoDfs
<1>6. s \in Seq(Vertex) /\ Distinct(s) /\ ToSet(s) = Vertex /\ Stacked(s)
  <2>1. c[N].vis \subseteq Vertex
    BY <1>5 DEF TopoStates
  <2> QED
    BY <1>1, <1>4, <1>5, <2>1 DEF Stacked
<1> HIDE DEF s
<1>7. ASSUME NEW i \in 1 .. Len(s), NEW k \in 1 .. Len(s), Arc(s[i], s[k]) PROVE i < k
  <2>1. PICK l \in 1 .. Len(s) : i < l /\ s[l] = s[k]
    BY <1>6, <1>7, Members DEF Stacked
  <2>2. l = k
    BY <1>6, <2>1 DEF Distinct
  <2> QED
    BY <2>1, <2>2
<1> QED
  BY <1>6, <1>7 DEF Ordered, s
------------------------------------------------------------------------------
\* The critical path.

PathPlaces == [Vertex -> Nat] \X Place \X Place
Relaxed(d, v, u) == IF d[v] + 1 > d[u] THEN [d EXCEPT ![u] = d[v] + 1] ELSE d

\* The body of path in CriticalPath, with the order o.
PathBody(o, x, f) ==
  LET d == x[1]
      i == x[2]
      j == x[3]
      v == o[i]
      u == DagHeads[v][j]
  IN  IF i > Len(o) THEN d
      ELSE IF j > Len(DagHeads[v]) THEN f[<<d, i + 1, 1>>]
      ELSE f[<<IF d[v] + 1 > d[u] THEN [d EXCEPT ![u] = d[v] + 1] ELSE d, i, j + 1>>]

\* Every vertex ends a path of the length noted for it.
Achieved(d) == \A v \in Vertex : \E p : IsPath(p) /\ p[Len(p)] = v /\ Len(p) = d[v] + 1

\* The arcs followed so far are counted.
PathInv(o, d, i, j) ==
  /\ d \in [Vertex -> Nat] /\ Achieved(d)
  /\ \A k \in 1 .. Len(o), y \in Vertex : k < i /\ Arc(o[k], y) => d[o[k]] + 1 <= d[y]
  /\ i <= Len(o) => \A l \in 1 .. Len(DagHeads[o[i]]) : l < j => d[o[i]] + 1 <= d[DagHeads[o[i]][l]]

\* No path is longer.
Longest(d) ==
  /\ d \in [Vertex -> Nat] /\ Achieved(d)
  /\ \A p : IsPath(p) => Len(p) <= d[p[Len(p)]] + 1

LEMMA PathStarts ==
  ASSUME NEW o
  PROVE  PathInv(o, [v \in Vertex |-> 0], 1, 1)
<1> DEFINE d == [v \in Vertex |-> 0]
<1>1. d \in [Vertex -> Nat] /\ \A v \in Vertex : d[v] = 0
  OBVIOUS
<1> HIDE DEF d
<1>2. Achieved(d)
  <2> SUFFICES ASSUME NEW v \in Vertex PROVE \E p : IsPath(p) /\ p[Len(p)] = v /\ Len(p) = d[v] + 1
    BY DEF Achieved
  <2>1. Joins(<<v>>, v, v) /\ Len(<<v>>) = 1 /\ d[v] = 0
    BY <1>1, TrivialPath
  <2> QED
    BY <2>1 DEF Joins
<1>3. /\ \A k \in 1 .. Len(o), y \in Vertex : ~(k < 1)
      /\ \A l \in 1 .. Len(DagHeads[o[1]]) : ~(l < 1)
  OBVIOUS
<1> QED
  BY <1>1, <1>2, <1>3 DEF PathInv, d

LEMMA PathMovesOn ==
  ASSUME GraphInv, NEW o \in Seq(Vertex), NEW d, NEW i \in 1 .. Len(o), NEW j \in Nat,
         PathInv(o, d, i, j), j > Len(DagHeads[o[i]])
  PROVE  PathInv(o, d, i + 1, 1)
<1> DEFINE v == o[i]
           n == Len(DagHeads[v])
<1>1. i \in Nat /\ v \in Vertex /\ Len(o) \in Nat
  BY Members
<1>2. n \in Nat /\ \A y \in Vertex : Arc(v, y) => \E l \in 1 .. n : DagHeads[v][l] = y
  BY <1>1, DagHeadsFacts
<1>3. \A l \in 1 .. n : l < j => d[v] + 1 <= d[DagHeads[v][l]]
  BY <1>1 DEF PathInv
<1> HIDE DEF n, v
<1>4. ASSUME NEW y \in Vertex, Arc(v, y) PROVE d[v] + 1 <= d[y]
  <2>1. PICK l \in 1 .. n : DagHeads[v][l] = y
    BY <1>2, <1>4
  <2>2. l < j
    BY <1>2 DEF n, v
  <2> QED
    BY <1>3, <2>1, <2>2
<1>5. ASSUME NEW k \in 1 .. Len(o), NEW y \in Vertex, k < i + 1, Arc(o[k], y) PROVE d[o[k]] + 1 <= d[y]
  <2>1. k < i \/ k = i
    BY <1>1, <1>5
  <2> QED
    BY <1>4, <1>5, <2>1 DEF PathInv, v
<1>6. \A l \in 1 .. Len(DagHeads[o[i + 1]]) : ~(l < 1)
  OBVIOUS
<1> QED
  BY <1>5, <1>6 DEF PathInv

LEMMA PathRelaxes ==
  ASSUME GraphInv, NEW o, Ordered(o), NEW d, NEW i \in 1 .. Len(o), NEW j \in Nat \ {0},
         PathInv(o, d, i, j), j <= Len(DagHeads[o[i]])
  PROVE  PathInv(o, Relaxed(d, o[i], DagHeads[o[i]][j]), i, j + 1)
<1> DEFINE v == o[i]
           n == Len(DagHeads[v])
           u == DagHeads[v][j]
           e == Relaxed(d, v, u)
<1>1. o \in Seq(Vertex) /\ Len(o) \in Nat /\ i \in Nat /\ i <= Len(o) /\ \A k \in 1 .. Len(o) : o[k] \in Vertex
  BY Members DEF Ordered
<1>2. v \in Vertex /\ n \in Nat /\ \A l \in 1 .. n : DagHeads[v][l] \in Vertex /\ Arc(v, DagHeads[v][l])
  BY <1>1, DagHeadsFacts
<1>3. j \in 1 .. n
  BY <1>2
<1>4. u \in Vertex /\ Arc(v, u)
  BY <1>2, <1>3
<1>5. /\ d \in [Vertex -> Nat] /\ Achieved(d)
      /\ \A k \in 1 .. Len(o), y \in Vertex : k < i /\ Arc(o[k], y) => d[o[k]] + 1 <= d[y]
      /\ \A l \in 1 .. n : l < j => d[v] + 1 <= d[DagHeads[v][l]]
  BY <1>1 DEF PathInv
<1> HIDE DEF n
<1>6. \A k \in 1 .. Len(o) : k <= i => o[k] # u
  BY <1>1, <1>4 DEF Ordered
<1> HIDE DEF u
<1>7. d[v] \in Nat /\ d[u] \in Nat /\ d[v] + 1 \in Nat
  BY <1>2, <1>4, <1>5
<1>8. /\ e \in [Vertex -> Nat] /\ \A w \in Vertex : w # u => e[w] = d[w]
      /\ e[u] = IF d[v] + 1 > d[u] THEN d[v] + 1 ELSE d[u]
  BY <1>4, <1>5, <1>7 DEF Relaxed
<1> HIDE DEF e
<1>9. d[v] + 1 <= e[u] /\ \A w \in Vertex : d[w] <= e[w]
  <2>1. d[v] + 1 <= e[u] /\ d[u] <= e[u]
    BY <1>7, <1>8
  <2>2. \A w \in Vertex : d[w] \in Nat
    BY <1>5
  <2> QED
    BY <1>8, <2>1, <2>2
<1>10. \A k \in 1 .. Len(o) : k <= i => e[o[k]] = d[o[k]]
  BY <1>1, <1>6, <1>8
<1>11. e[v] = d[v]
  BY <1>1, <1>10
<1>12. ASSUME NEW k \in 1 .. Len(o), NEW y \in Vertex, k < i, Arc(o[k], y) PROVE e[o[k]] + 1 <= e[y]
  <2>1. d[o[k]] + 1 <= d[y] /\ d[y] <= e[y] /\ e[o[k]] = d[o[k]]
    BY <1>1, <1>5, <1>9, <1>10, <1>12
  <2>2. d[o[k]] \in Nat /\ d[y] \in Nat /\ e[y] \in Nat
    BY <1>1, <1>5, <1>8
  <2> QED
    BY <2>1, <2>2
<1>13. ASSUME NEW l \in 1 .. n, l < j + 1 PROVE e[v] + 1 <= e[DagHeads[v][l]]
  <2> DEFINE y == DagHeads[v][l]
  <2>1. y \in Vertex
    BY <1>2 DEF n
  <2>2. l < j \/ l = j
    BY <1>3, <1>13
  <2>3. CASE l < j
    <3>1. d[v] + 1 <= d[y] /\ d[y] <= e[y]
      BY <1>5, <1>9, <2>1, <2>3
    <3>2. d[y] \in Nat /\ e[y] \in Nat
      BY <1>5, <1>8, <2>1
    <3> HIDE DEF y
    <3>3. d[v] + 1 <= e[y]
      BY <1>7, <3>1, <3>2
    <3> QED
      BY <1>11, <3>3 DEF y
  <2>4. CASE l = j
    BY <1>9, <1>11, <2>4 DEF u
  <2> QED
    BY <2>2, <2>3, <2>4
<1>14. Achieved(e)
  <2> SUFFICES ASSUME NEW w \in Vertex PROVE \E p : IsPath(p) /\ p[Len(p)] = w /\ Len(p) = e[w] + 1
    BY DEF Achieved
  <2>1. CASE e[w] = d[w]
    BY <1>5, <2>1 DEF Achieved
  <2>2. CASE e[w] # d[w]
    <3>1. w = u /\ e[u] = d[v] + 1
      BY <1>8, <2>2
    <3>2. PICK p : IsPath(p) /\ p[Len(p)] = v /\ Len(p) = d[v] + 1
      BY <1>2, <1>5 DEF Achieved
    <3>3. ASSUME NEW l \in 1 .. Len(p), p[l] = u PROVE FALSE
      <4>1. Len(p) \in l .. Len(p)
        BY <1>7, <3>2
      <4>2. Joins(SubSeq(p, l, Len(p)), u, v)
        BY <3>2, <3>3, <4>1, PartOfPath
      <4>3. v \in Reach(u)
        BY <1>2, <4>2 DEF Reach
      <4> QED
        BY <1>4, <4>3, OrderedIsAcyclic DEF Acyclic
    <3> DEFINE q == Append(p, u)
    <3>4. Joins(q, p[1], u) /\ Len(q) = Len(p) + 1
      BY <1>4, <3>2, <3>3, LongerPath
    <3> HIDE DEF q
    <3>5. IsPath(q) /\ q[Len(q)] = w /\ Len(q) = e[w] + 1
      BY <3>1, <3>2, <3>4 DEF Joins
    <3> QED
      BY <3>5
  <2> QED
    BY <2>1, <2>2
<1>15. PathInv(o, e, i, j + 1)
  BY <1>8, <1>12, <1>13, <1>14 DEF PathInv, n
<1> QED
  BY <1>15 DEF e, u

LEMMA PathEnds ==
  ASSUME GraphInv, NEW o, Ordered(o), NEW d, NEW i \in Nat, NEW j, PathInv(o, d, i, j), i > Len(o)
  PROVE  Longest(d)
<1>1. o \in Seq(Vertex) /\ Len(o) \in Nat /\ ToSet(o) = Vertex
  BY Members DEF Ordered
<1>2. /\ d \in [Vertex -> Nat] /\ Achieved(d)
      /\ \A k \in 1 .. Len(o), y \in Vertex : k < i /\ Arc(o[k], y) => d[o[k]] + 1 <= d[y]
  BY DEF PathInv
<1>3. ASSUME NEW x \in Vertex, NEW y \in Vertex, Arc(x, y) PROVE d[x] + 1 <= d[y]
  <2>1. PICK k \in 1 .. Len(o) : o[k] = x
    BY <1>1, Members
  <2>2. k < i
    BY <1>1
  <2> QED
    BY <1>2, <1>3, <2>1, <2>2
<1>4. ASSUME NEW p, IsPath(p) PROVE Len(p) <= d[p[Len(p)]] + 1
  <2> DEFINE U == {k \in Nat : k + 1 <= Len(p) => k <= d[p[k + 1]]}
  <2>1. /\ Len(p) \in Nat \ {0} /\ \A k \in 1 .. Len(p) : p[k] \in Vertex
        /\ \A k \in 1 .. Len(p) - 1 : Arc(p[k], p[k + 1])
    BY <1>4 DEF IsPath
  <2>2. 0 \in U
    <3>1. 1 \in 1 .. Len(p)
      BY <2>1
    <3>2. d[p[1]] \in Nat
      BY <1>2, <2>1, <3>1
    <3> QED
      BY <3>2
  <2>3. ASSUME NEW k \in Nat, k \in U PROVE k + 1 \in U
    <3> SUFFICES ASSUME (k + 1) + 1 <= Len(p) PROVE k + 1 <= d[p[(k + 1) + 1]]
      OBVIOUS
    <3>1. k + 1 \in 1 .. Len(p) - 1 /\ k + 1 \in 1 .. Len(p) /\ (k + 1) + 1 \in 1 .. Len(p) /\ k + 1 <= Len(p)
      BY <2>1
    <3> DEFINE x == p[k + 1]
               y == p[(k + 1) + 1]
    <3>2. x \in Vertex /\ y \in Vertex /\ Arc(x, y)
      BY <2>1, <3>1
    <3>3. k <= d[x]
      BY <2>3, <3>1
    <3> HIDE DEF x, y
    <3>4. d[x] + 1 <= d[y] /\ d[x] \in Nat /\ d[y] \in Nat
      BY <1>2, <1>3, <3>2
    <3>5. k + 1 <= d[y]
      BY <3>3, <3>4
    <3> QED
      BY <3>5 DEF y
  <2> HIDE DEF U
  <2>4. Nat \subseteq U
    BY <2>2, <2>3, Induction
  <2>5. Len(p) - 1 \in Nat /\ (Len(p) - 1) + 1 = Len(p) /\ Len(p) \in 1 .. Len(p)
    BY <2>1
  <2>6. Len(p) - 1 <= d[p[Len(p)]]
    BY <2>4, <2>5 DEF U
  <2>7. d[p[Len(p)]] \in Nat
    BY <1>2, <2>1, <2>5
  <2> QED
    BY <2>1, <2>6, <2>7
<1> QED
  BY <1>2, <1>4 DEF Longest

PathNext(o, x) ==
  LET d == x[1]
      i == x[2]
      j == x[3]
      v == o[i]
  IN  IF i > Len(o) THEN x
      ELSE IF j > Len(DagHeads[v]) THEN <<d, i + 1, 1>>
      ELSE <<Relaxed(d, v, DagHeads[v][j]), i, j + 1>>

PathDrains(m, o) ==
  Drains(m, PathPlaces, [x \in PathPlaces |-> o], [x \in PathPlaces |-> x[2]], [x \in PathPlaces |-> x[3]],
         [x \in PathPlaces |-> 0], DagHeads)

LEMMA PathMeasured ==
  ASSUME GraphInv, NEW o \in Seq(Vertex)
  PROVE  \E m \in [PathPlaces -> Nat] : PathDrains(m, o)
<1> DEFINE Queues == [x \in PathPlaces |-> o]
           At == [x \in PathPlaces |-> x[2]]
           J == [x \in PathPlaces |-> x[3]]
           pending == [x \in PathPlaces |-> 0]
           B == 2 * added
<1>1. \A x \in PathPlaces : x[2] \in Place /\ x[3] \in Place
  BY DEF PathPlaces
<1>2. Queues \in [PathPlaces -> Seq(Vertex)] /\ At \in [PathPlaces -> Place] /\ J \in [PathPlaces -> Place]
  BY <1>1
<1>3. pending \in [PathPlaces -> Nat]
  OBVIOUS
<1>4. DagHeads \in [Vertex -> Seq(Vertex)] /\ B \in Nat /\ \A v \in Vertex : Len(DagHeads[v]) <= B
  BY HeadsAreLists DEF Lists, GraphInv
<1> HIDE DEF Queues, At, J, pending, B
<1>5. \E m \in [PathPlaces -> Nat] : Drains(m, PathPlaces, Queues, At, J, pending, DagHeads)
  BY <1>2, <1>3, <1>4, QueueMeasure
<1> QED
  BY <1>5 DEF PathDrains, Queues, At, J, pending

LEMMA PathGoesFurther ==
  ASSUME GraphInv, NEW o \in Seq(Vertex), NEW x \in PathPlaces
  PROVE  /\ PathNext(o, x) \in PathPlaces
         /\ \A m \in [PathPlaces -> Nat] : PathDrains(m, o) /\ ~(x[2] > Len(o)) => m[PathNext(o, x)] < m[x]
<1> DEFINE d == x[1]
           i == x[2]
           j == x[3]
           v == o[i]
           u == DagHeads[v][j]
           e == Relaxed(d, v, u)
           y == PathNext(o, x)
           Queues == [z \in PathPlaces |-> o]
           At == [z \in PathPlaces |-> z[2]]
           J == [z \in PathPlaces |-> z[3]]
           pending == [z \in PathPlaces |-> 0]
<1>1. d \in [Vertex -> Nat] /\ i \in Nat \ {0} /\ j \in Nat \ {0} /\ Len(o) \in Nat
  BY DEF PathPlaces, Place
<1>2. i + 1 \in Place /\ 1 \in Place /\ j + 1 \in Place /\ i \in Place
  BY <1>1 DEF Place
<1>3. \A z \in PathPlaces : Queues[z] = o /\ At[z] = z[2] /\ J[z] = z[3] /\ pending[z] = 0
  OBVIOUS
<1>4. \A m \in [PathPlaces -> Nat] : PathDrains(m, o) =>
        \A z, w \in PathPlaces : Advances(Queues, At, J, pending, DagHeads, z, w) => m[w] < m[z]
  BY DEF PathDrains, Drains
<1>5. /\ i > Len(o) => y = x
      /\ ~(i > Len(o)) /\ j > Len(DagHeads[v]) => y = <<d, i + 1, 1>>
      /\ ~(i > Len(o)) /\ ~(j > Len(DagHeads[v])) => y = <<e, i, j + 1>>
  BY DEF PathNext
<1> HIDE DEF d, i, j, y, Queues, At, J, pending
<1>6. CASE i > Len(o)
  BY <1>5, <1>6 DEF i, y
<1>7. ASSUME ~(i > Len(o)) PROVE y \in PathPlaces /\ Advances(Queues, At, J, pending, DagHeads, x, y)
  <2>1. i \in 1 .. Len(o) /\ v \in Vertex /\ i <= Len(o)
    <3>1. i \in 1 .. Len(o)
      BY <1>1, <1>7
    <3> QED
      BY <1>1, <3>1, Members
  <2>2. Queues[x] = o /\ At[x] = i /\ J[x] = j /\ pending[x] = 0
    BY <1>3 DEF i, j
  <2>3. CASE j > Len(DagHeads[v])
    <3>1. y = <<d, i + 1, 1>> /\ y \in PathPlaces
      BY <1>1, <1>2, <1>5, <1>7, <2>3 DEF PathPlaces
    <3>2. Queues[y] = o /\ At[y] = i + 1 /\ pending[y] = 0
      BY <1>3, <3>1
    <3>3. 0 + Len(o) <= 0 + Len(o)
      BY <1>1
    <3> QED
      BY <2>1, <2>2, <3>1, <3>2, <3>3 DEF Advances
  <2>4. CASE ~(j > Len(DagHeads[v]))
    <3>1. j \in 1 .. Len(DagHeads[v]) /\ j <= Len(DagHeads[v])
      <4>1. Len(DagHeads[v]) \in Nat
        BY <2>1, DagHeadsFacts
      <4> QED
        BY <1>1, <2>4, <4>1
    <3>2. u \in Vertex
      BY <2>1, <3>1, DagHeadsFacts
    <3> HIDE DEF u
    <3>3. e \in [Vertex -> Nat]
      <4>1. d[v] + 1 \in Nat
        BY <1>1, <2>1
      <4> QED
        BY <1>1, <3>2, <4>1 DEF Relaxed
    <3> HIDE DEF e
    <3>4. y = <<e, i, j + 1>> /\ y \in PathPlaces
      BY <1>2, <1>5, <1>7, <2>4, <3>3 DEF PathPlaces
    <3>5. Queues[y] = o /\ At[y] = i /\ J[y] = j + 1 /\ pending[y] = 0
      BY <1>3, <3>4
    <3>6. 0 + Len(o) <= 0 + Len(o)
      BY <1>1
    <3> QED
      BY <2>1, <2>2, <3>1, <3>4, <3>5, <3>6 DEF Advances
  <2> QED
    BY <2>3, <2>4
<1>8. CASE ~(i > Len(o))
  BY <1>4, <1>7, <1>8 DEF i, y
<1> QED
  BY <1>6, <1>8

\* What dag_critical_path returns on an acyclic graph.
LEMMA PathReturns ==
  ASSUME GraphInv, Acyclic
  PROVE  Longest(CriticalPath)
<1> DEFINE o == Kahn(DagHeads)
           V == [Vertex -> Nat]
           Loop(f) == [x \in PathPlaces |-> PathBody(o, x, f)]
           path == CHOOSE f : f = Loop(f)
           s == [x \in PathPlaces |-> x[2] > Len(o)]
           b == [x \in PathPlaces |-> x[1]]
           nx == [x \in PathPlaces |-> PathNext(o, x)]
           T == {x \in PathPlaces : PathInv(o, x[1], x[2], x[3])}
           R == {d \in V : Longest(d)}
           x0 == <<[v \in Vertex |-> 0], 1, 1>>
<1>1. CriticalPath = path[x0]
  BY DEF CriticalPath, PathPlaces, PathBody
<1>2. Ordered(o)
  BY HeadsAreLists, KahnOrders
<1> HIDE DEF o
<1>3. o \in Seq(Vertex) /\ Len(o) \in Nat
  BY <1>2, Members DEF Ordered
<1>4. \A x \in PathPlaces : x[1] \in V /\ x[2] \in Nat \ {0} /\ x[3] \in Nat \ {0}
  BY DEF PathPlaces, Place
<1>5. s \in [PathPlaces -> BOOLEAN] /\ b \in [PathPlaces -> V] /\ nx \in [PathPlaces -> PathPlaces]
  BY <1>3, <1>4, PathGoesFurther
<1>6. PICK m \in [PathPlaces -> Nat] : PathDrains(m, o)
  BY <1>3, PathMeasured
<1>7. \A x \in PathPlaces : ~s[x] => m[nx[x]] < m[x]
  BY <1>3, <1>6, PathGoesFurther
<1>8. ASSUME NEW f PROVE \A x \in PathPlaces : PathBody(o, x, f) = IF s[x] THEN b[x] ELSE f[nx[x]]
  BY DEF PathBody, PathNext, Relaxed
<1>9. x0 \in T
  <2>1. PathInv(o, [v \in Vertex |-> 0], 1, 1)
    BY PathStarts
  <2>2. x0 \in PathPlaces
    BY DEF PathPlaces, Place
  <2> QED
    BY <2>1, <2>2
<1>10. ASSUME NEW x \in PathPlaces, x \in T, ~s[x] PROVE nx[x] \in T
  <2> DEFINE d == x[1]
             i == x[2]
             j == x[3]
             v == o[i]
             y == PathNext(o, x)
  <2>1. PathInv(o, d, i, j) /\ ~(i > Len(o)) /\ nx[x] = y /\ y \in PathPlaces
    BY <1>5, <1>10
  <2>2. i \in Nat \ {0} /\ j \in Nat \ {0}
    BY <1>4
  <2>3. y = IF j > Len(DagHeads[v]) THEN <<d, i + 1, 1>>
            ELSE <<Relaxed(d, v, DagHeads[v][j]), i, j + 1>>
    BY <2>1 DEF PathNext
  <2> HIDE DEF d, i, j, y, s, nx
  <2>4. i \in 1 .. Len(o) /\ v \in Vertex
    <3>1. i \in 1 .. Len(o)
      BY <1>3, <2>1, <2>2
    <3> QED
      BY <1>3, <3>1, Members
  <2>5. PathInv(o, y[1], y[2], y[3])
    <3>1. CASE j > Len(DagHeads[v])
      <4>1. PathInv(o, d, i + 1, 1)
        BY <1>3, <2>1, <2>2, <2>4, <3>1, PathMovesOn
      <4> QED
        BY <2>3, <3>1, <4>1
    <3>2. CASE ~(j > Len(DagHeads[v]))
      <4> DEFINE e == Relaxed(d, v, DagHeads[v][j])
      <4>1. j <= Len(DagHeads[v])
        BY <2>2, <2>4, <3>2, DagHeadsFacts
      <4>2. PathInv(o, e, i, j + 1)
        BY <1>2, <2>1, <2>2, <2>4, <4>1, PathRelaxes
      <4>3. y = <<e, i, j + 1>>
        BY <2>3, <3>2
      <4> HIDE DEF e
      <4> QED
        BY <4>2, <4>3
    <3> QED
      BY <3>1, <3>2
  <2> QED
    BY <2>1, <2>5
<1>11. ASSUME NEW x \in PathPlaces, x \in T, s[x] PROVE b[x] \in R
  <2>1. PathInv(o, x[1], x[2], x[3]) /\ x[2] > Len(o) /\ x[1] \in V /\ x[2] \in Nat /\ b[x] = x[1]
    BY <1>4, <1>11
  <2>2. Longest(x[1])
    BY <1>2, <2>1, PathEnds
  <2> QED
    BY <2>1, <2>2
<1> HIDE DEF s, b, nx, T, x0
<1>12. PICK f \in [PathPlaces -> V] : Loops(f, PathPlaces, s, b, nx)
  <2> HIDE DEF V
  <2> QED
    BY <1>5, <1>6, <1>7, LoopRecursion
<1>13. f = Loop(f)
  BY <1>8, <1>12 DEF Loops
<1>14. path = Loop(path)
  <2> HIDE DEF Loop
  <2> QED
    BY <1>13
<1>15. Loops(path, PathPlaces, s, b, nx)
  <2>1. \A x \in PathPlaces : path[x] = PathBody(o, x, path)
    <3> HIDE DEF path
    <3> QED
      BY <1>14
  <2> HIDE DEF path
  <2> QED
    BY <1>8, <2>1 DEF Loops
<1> HIDE DEF path, Loop, R
<1>16. \A x \in PathPlaces : x \in T => path[x] \in R
  <2>1. Keeps(T, R, PathPlaces, s, b, nx)
    BY <1>10, <1>11 DEF Keeps
  <2>2. Halts(m, PathPlaces, s, nx)
    BY <1>7 DEF Halts
  <2> QED
    BY ZenonT(60), <1>5, <1>6, <1>15, <2>1, <2>2, LoopResult
<1>17. path[x0] \in R
  BY <1>9, <1>16 DEF T
<1> QED
  BY <1>1, <1>17 DEF R

LEMMA GreatestIs ==
  ASSUME NEW S \in SUBSET Nat, NEW n \in S, \A k \in S : k <= n
  PROVE  Greatest(S) = n
<1>1. \A k \in S : k <= n /\ n \in Nat /\ k \in Nat
  OBVIOUS
<1>2. ASSUME NEW x \in S, \A y \in S : y <= x PROVE x = n
  BY <1>1, <1>2
<1> QED
  BY <1>2 DEF Greatest

LEMMA LongestAre ==
  ASSUME NEW d, Longest(d)
  PROVE  d = [v \in Vertex |-> Greatest({Len(p) - 1 : p \in {q \in Paths : Last(q) = v}})]
<1>1. d \in [Vertex -> Nat] /\ Achieved(d) /\ \A p : IsPath(p) => Len(p) <= d[p[Len(p)]] + 1
  BY DEF Longest
<1>2. \A p : p \in Paths => IsPath(p) /\ Len(p) \in Nat \ {0} /\ Last(p) = p[Len(p)]
  BY PathsAre DEF IsPath, Last
<1>3. ASSUME NEW v \in Vertex
      PROVE  d[v] = Greatest({Len(p) - 1 : p \in {q \in Paths : Last(q) = v}})
  <2> DEFINE S == {Len(p) - 1 : p \in {q \in Paths : Last(q) = v}}
  <2>1. d[v] \in Nat
    BY <1>1
  <2>2. ASSUME NEW k \in S PROVE k \in Nat /\ k <= d[v]
    <3>1. PICK p \in Paths : Last(p) = v /\ k = Len(p) - 1
      OBVIOUS
    <3>2. Len(p) \in Nat \ {0} /\ Len(p) <= d[v] + 1
      BY <1>1, <1>2, <3>1
    <3> QED
      BY <2>1, <3>1, <3>2
  <2>3. d[v] \in S
    <3>1. PICK p : IsPath(p) /\ p[Len(p)] = v /\ Len(p) = d[v] + 1
      BY <1>1 DEF Achieved
    <3>2. p \in Paths /\ Last(p) = v
      BY <1>2, <3>1, PathsAre
    <3>3. Len(p) - 1 = d[v]
      BY <2>1, <3>1
    <3>4. Len(p) - 1 \in S
      BY <3>2
    <3> QED
      BY <3>3, <3>4
  <2> HIDE DEF S
  <2>4. Greatest(S) = d[v]
    BY <2>2, <2>3, GreatestIs
  <2> QED
    BY <2>4 DEF S
<1> QED
  BY <1>1, <1>3

\* In every directed graph that can be built, both versions of Kahn's algorithm
\* order all the vertices exactly if there is no cycle, graph_has_cycle finds
\* one exactly if there is one, and without one every order follows the arcs
\* and dag_critical_path has the most edges of any path to each vertex.
THEOREM OrdersRight == Spec => []OrdersFollowArcs
<1>1. ASSUME GraphInv PROVE OrdersFollowArcs
  <2> DEFINE acyclic == ~ \E p \in Paths : Arc(Last(p), Head(p))
             Follows(s) == /\ ToSet(s) = Vertex /\ IsInjective(s)
                           /\ \A i, j \in DOMAIN s : Arc(s[i], s[j]) => i < j
  <2>1. acyclic <=> Acyclic
    BY AcyclicIs
  <2>2. ASSUME NEW s, Ordered(s) PROVE Follows(s)
    <3>1. s \in Seq(Vertex) /\ DOMAIN s = 1 .. Len(s)
      BY <2>2 DEF Ordered
    <3> QED
      BY <2>2, <3>1 DEF Ordered, Distinct, IsInjective
  <2>3. \A out \in {Heads, DagHeads} : Len(Kahn(out)) = N <=> acyclic
    BY <1>1, <2>1, HeadsAreLists, KahnOrders
  <2>4. HasCycle <=> ~acyclic
    BY <1>1, <2>1, HasCycleRight
  <2>5. ASSUME acyclic
        PROVE  /\ \A s \in {Kahn(Heads), Kahn(DagHeads), TopoDfs} : Follows(s)
               /\ CriticalPath = [v \in Vertex |->
                    Greatest({Len(p) - 1 : p \in {q \in Paths : Last(q) = v}})]
    <3>1. Acyclic
      BY <2>1, <2>5
    <3>2. Ordered(Kahn(Heads)) /\ Ordered(Kahn(DagHeads)) /\ Ordered(TopoDfs)
      BY <1>1, <3>1, HeadsAreLists, KahnOrders, TopoDfsOrders
    <3>3. Follows(Kahn(Heads)) /\ Follows(Kahn(DagHeads)) /\ Follows(TopoDfs)
      <4> HIDE DEF Follows
      <4> QED
        BY <2>2, <3>2
    <3>4. Longest(CriticalPath)
      BY <1>1, <3>1, PathReturns
    <3> HIDE DEF Follows
    <3> QED
      BY <3>3, <3>4, LongestAre
  <2> QED
    BY <2>3, <2>4, <2>5 DEF OrdersFollowArcs
<1> QED
  BY <1>1, GraphInvHolds, PTL
==============================================================================
