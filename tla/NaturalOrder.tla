---------------------------- MODULE NaturalOrder -----------------------------
(***************************************************************************)
(* Least and greatest elements of sets of natural numbers, induction over  *)
(* naturals and over a measure (a set T stands for the predicate), and the *)
(* existence of functions defined by a recursion whose measure shrinks.    *)
(***************************************************************************)
EXTENDS Integers, WellFoundedInduction, TLAPS

Less == {p \in Nat \X Nat : p[1] < p[2]}

LEMMA LessIsWellFounded == IsWellFoundedOn(Less, Nat)
<1>1. OpToRel(<, Nat) = Less
  BY Zenon DEF OpToRel, Less
<1> QED
  BY <1>1, NatLessThanWellFounded, Zenon

\* Every non-empty set of natural numbers has a least element.
THEOREM LeastElement ==
  ASSUME NEW T \in SUBSET Nat, T # {}
  PROVE  \E m \in T : \A n \in T : m <= n
<1>1. PICK m \in T : \A n \in T : <<n, m>> \notin Less
  BY LessIsWellFounded, WFMin
<1>2. ASSUME NEW n \in T PROVE m <= n
  <2>1. <<n, m>> \in Nat \X Nat /\ <<n, m>> \notin Less
    BY <1>1
  <2> QED
    BY <2>1 DEF Less
<1> QED
  BY <1>1, <1>2

\* A bounded one has a greatest element.
THEOREM GreatestElement ==
  ASSUME NEW b \in Nat, NEW T \in SUBSET (0 .. b), T # {}
  PROVE  \E m \in T : \A n \in T : n <= m
<1> DEFINE U == {b - t : t \in T}
<1>1. U \in SUBSET Nat /\ U # {}
  <2>1. \A t \in T : b - t \in Nat
    OBVIOUS
  <2>2. PICK t \in T : TRUE
    OBVIOUS
  <2>3. b - t \in U
    OBVIOUS
  <2> QED
    BY <2>1, <2>3
<1>2. PICK u \in U : \A w \in U : u <= w
  BY <1>1, LeastElement
<1>3. PICK m \in T : u = b - m
  BY <1>2
<1>4. ASSUME NEW n \in T PROVE n <= m
  <2>1. b - n \in U
    OBVIOUS
  <2>2. u <= b - n
    BY <1>2, <2>1
  <2> QED
    BY <1>3, <2>2
<1> QED
  BY <1>4
------------------------------------------------------------------------------
\* Induction over the natural numbers, for a property given by its set.
THEOREM Induction ==
  ASSUME NEW T, 0 \in T, \A n \in Nat : n \in T => n + 1 \in T
  PROVE  Nat \subseteq T
<1> SUFFICES ASSUME Nat \ T # {} PROVE FALSE
  OBVIOUS
<1>1. PICK m \in Nat \ T : \A n \in Nat \ T : m <= n
  BY LeastElement
<1>2. m # 0 /\ m - 1 \in Nat
  BY <1>1
<1>3. m - 1 \in T
  BY <1>1, <1>2
<1> QED
  BY <1>1, <1>2, <1>3

\* Induction over a set whose elements have a measure.
THEOREM MeasureInduction ==
  ASSUME NEW D, NEW m \in [D -> Nat], NEW T,
         \A x \in D : (\A y \in D : m[y] < m[x] => y \in T) => x \in T
  PROVE  D \subseteq T
<1> DEFINE U == {m[x] : x \in D \ T}
<1> SUFFICES ASSUME D \ T # {} PROVE FALSE
  OBVIOUS
<1>1. U \in SUBSET Nat /\ U # {}
  OBVIOUS
<1>2. PICK k \in U : \A n \in U : k <= n
  BY <1>1, LeastElement
<1>3. PICK x \in D \ T : k = m[x]
  BY <1>2
<1>4. \A y \in D : m[y] < m[x] => y \in T
  <2> SUFFICES ASSUME NEW y \in D, m[y] < m[x], y \notin T PROVE FALSE
    OBVIOUS
  <2>1. m[y] \in U
    OBVIOUS
  <2>2. m[x] <= m[y] /\ m[x] \in Nat /\ m[y] \in Nat
    BY <1>2, <1>3, <2>1
  <2> QED
    BY <2>2
<1> QED
  BY <1>3, <1>4

\* m shrinks wherever a shrinks, or b does and a stays.
OrdersBoth(m, D, a, b) ==
  \A x, y \in D : a[y] < a[x] \/ (a[y] = a[x] /\ b[y] < b[x]) => m[y] < m[x]

\* Two measures taken lexicographically make one, if the second is bounded.
THEOREM Lexicographic ==
  ASSUME NEW D, NEW a \in [D -> Nat], NEW b \in [D -> Nat],
         NEW B \in Nat, \A x \in D : b[x] <= B
  PROVE  \E m \in [D -> Nat] : OrdersBoth(m, D, a, b)
<1> DEFINE C == B + 1
           m == [x \in D |-> a[x] * C + b[x]]
<1>1. C \in Nat /\ \A p, q \in Nat : p * q \in Nat
  OBVIOUS
<1>2. \A x \in D : a[x] \in Nat /\ b[x] \in Nat /\ b[x] < C
  OBVIOUS
<1> HIDE DEF C
<1>3. m \in [D -> Nat]
  <2>1. \A x \in D : a[x] * C \in Nat
    BY <1>1, <1>2
  <2>2. \A x \in D : a[x] * C + b[x] \in Nat
    BY <1>2, <2>1
  <2> QED
    BY <2>2
<1>4. ASSUME NEW p \in Nat, NEW q \in Nat, p < q PROVE p * C + C <= q * C
  <2>1. q = (q - p - 1) + p + 1 /\ q - p - 1 \in Nat
    BY <1>4
  <2> DEFINE d == q - p - 1
  <2>2. q * C = d * C + p * C + C
    <3>1. \A i, k, n \in Nat : (i + k + 1) * n = i * n + k * n + n
      OBVIOUS
    <3> HIDE DEF d
    <3>2. q = d + p + 1 /\ d \in Nat
      BY <2>1 DEF d
    <3> QED
      BY <1>1, <3>1, <3>2
  <2>3. d * C \in Nat /\ p * C \in Nat
    BY <1>1, <2>1
  <2> HIDE DEF d
  <2> QED
    BY <1>1, <2>2, <2>3
<1>5. ASSUME NEW x \in D, NEW y \in D, a[y] < a[x] \/ (a[y] = a[x] /\ b[y] < b[x])
      PROVE  m[y] < m[x]
  <2>1. m[x] = a[x] * C + b[x] /\ m[y] = a[y] * C + b[y]
    OBVIOUS
  <2>2. a[x] * C \in Nat /\ a[y] * C \in Nat
    BY <1>1, <1>2
  <2>3. CASE a[y] < a[x]
    <3>1. a[y] * C + C <= a[x] * C
      BY <1>2, <1>4, <2>3
    <3> HIDE DEF m
    <3> QED
      BY <1>1, <1>2, <2>1, <2>2, <3>1
  <2>4. CASE a[y] = a[x] /\ b[y] < b[x]
    <3> HIDE DEF m
    <3> QED
      BY <1>2, <2>1, <2>2, <2>4
  <2> QED
    BY <1>5, <2>3, <2>4
<1> HIDE DEF m
<1> QED
  BY <1>3, <1>5 DEF OrdersBoth

\* f is a solution of the recursion F, which computes the value at x from the
\* function itself, and T holds of each argument and its value.
SolvesWith(f, D, F, T) == \A x \in D : f[x] = F[<<x, f>>] /\ <<x, f[x]>> \in T

\* What F computes at x depends only on values at smaller measures, and if T
\* holds of those it holds of the result.
ShrinksOn(D, V, m, F, T) ==
  \A x \in D, g, h \in [D -> V] :
    (\A y \in D : m[y] < m[x] => <<y, g[y]>> \in T /\ g[y] = h[y])
      => F[<<x, g>>] = F[<<x, h>>] /\ <<x, F[<<x, g>>]>> \in T

\* A recursive definition has a solution if its recursive calls shrink the
\* measure; the arguments of a nested call may rest on what T says of the
\* results of the calls inside it.
THEOREM GeneralRecursion ==
  ASSUME NEW D, NEW V, V # {}, NEW m \in [D -> Nat],
         NEW F \in [D \X [D -> V] -> V], NEW T, ShrinksOn(D, V, m, F, T)
  PROVE  \E f \in [D -> V] : SolvesWith(f, D, F, T)
<1> DEFINE Good(f, n) ==
             f \in [D -> V] /\ \A x \in D : m[x] < n => f[x] = F[<<x, f>>] /\ <<x, f[x]>> \in T
<1>1. ASSUME NEW x \in D, NEW g \in [D -> V], NEW h \in [D -> V],
             \A y \in D : m[y] < m[x] => <<y, g[y]>> \in T /\ g[y] = h[y]
      PROVE  F[<<x, g>>] = F[<<x, h>>] /\ <<x, F[<<x, g>>]>> \in T
  BY <1>1, Zenon DEF ShrinksOn
<1>2. ASSUME NEW f, NEW n \in Nat, Good(f, n), NEW g, NEW p \in Nat, Good(g, p)
      PROVE  \A x \in D : m[x] < n /\ m[x] < p => f[x] = g[x]
  <2> DEFINE U == {x \in D : m[x] < n /\ m[x] < p => f[x] = g[x]}
  <2>1. ASSUME NEW x \in D, \A y \in D : m[y] < m[x] => y \in U PROVE x \in U
    <3> SUFFICES ASSUME m[x] < n, m[x] < p PROVE f[x] = g[x]
      OBVIOUS
    <3>1. \A y \in D : m[y] < m[x] => <<y, f[y]>> \in T /\ f[y] = g[y]
      <4> SUFFICES ASSUME NEW y \in D, m[y] < m[x] PROVE <<y, f[y]>> \in T /\ f[y] = g[y]
        OBVIOUS
      <4>1. m[y] \in Nat /\ m[x] \in Nat
        OBVIOUS
      <4>2. m[y] < n /\ m[y] < p
        BY <4>1
      <4> QED
        BY <1>2, <2>1, <4>2
    <3>2. F[<<x, f>>] = F[<<x, g>>]
      BY <1>1, <1>2, <3>1
    <3> QED
      BY <1>2, <3>2
  <2> HIDE DEF U
  <2>2. D \subseteq U
    BY <2>1, MeasureInduction
  <2> QED
    BY <2>2 DEF U
<1>3. \A n \in Nat : \E f : Good(f, n)
  <2> DEFINE U == {n \in Nat : \E f : Good(f, n)}
  <2>1. 0 \in U
    <3>1. PICK v \in V : TRUE
      OBVIOUS
    <3> DEFINE g == [x \in D |-> v]
    <3>2. g \in [D -> V]
      OBVIOUS
    <3>3. \A x \in D : m[x] \in Nat /\ ~(m[x] < 0)
      OBVIOUS
    <3>4. Good(g, 0)
      BY <3>2, <3>3
    <3> QED
      BY <3>4
  <2>2. ASSUME NEW n \in Nat, n \in U PROVE n + 1 \in U
    <3>1. PICK f : Good(f, n)
      BY <2>2
    <3> DEFINE g == [x \in D |-> F[<<x, f>>]]
    <3>2. g \in [D -> V] /\ f \in [D -> V]
      BY <3>1
    <3>3. ASSUME NEW x \in D, m[x] < n + 1
          PROVE  g[x] = F[<<x, g>>] /\ <<x, g[x]>> \in T
      <4>1. \A y \in D : m[y] < m[x] => <<y, f[y]>> \in T /\ f[y] = g[y]
        <5> SUFFICES ASSUME NEW y \in D, m[y] < m[x] PROVE <<y, f[y]>> \in T /\ f[y] = g[y]
          OBVIOUS
        <5>1. m[y] \in Nat /\ m[x] \in Nat
          OBVIOUS
        <5>2. m[y] < n
          BY <3>3, <5>1
        <5> QED
          BY <3>1, <5>2
      <4> HIDE DEF g
      <4>2. F[<<x, f>>] = F[<<x, g>>] /\ <<x, F[<<x, f>>]>> \in T
        BY <1>1, <3>2, <4>1
      <4>3. g[x] = F[<<x, f>>]
        BY DEF g
      <4> QED
        BY <4>2, <4>3
    <3> HIDE DEF g
    <3>4. Good(g, n + 1)
      BY <3>2, <3>3
    <3> QED
      BY <3>4
  <2> HIDE DEF U
  <2>3. Nat \subseteq U
    BY <2>1, <2>2, Induction
  <2> QED
    BY <2>3 DEF U
<1> DEFINE at(n) == CHOOSE f : Good(f, n)
           h == [x \in D |-> at(m[x] + 1)[x]]
<1>4. \A n \in Nat : Good(at(n), n)
  BY <1>3
<1> HIDE DEF at, Good
<1>5. \A x \in D : m[x] + 1 \in Nat /\ m[x] < m[x] + 1
  OBVIOUS
<1>6. h \in [D -> V]
  <2>1. \A x \in D : at(m[x] + 1)[x] \in V
    BY <1>4, <1>5 DEF Good
  <2> QED
    BY <2>1
<1>7. ASSUME NEW x \in D PROVE h[x] = F[<<x, h>>] /\ <<x, h[x]>> \in T
  <2> DEFINE f == at(m[x] + 1)
  <2>1. Good(f, m[x] + 1) /\ f \in [D -> V]
    BY <1>4, <1>5 DEF Good
  <2>2. h[x] = f[x] /\ f[x] = F[<<x, f>>]
    BY <1>5, <2>1 DEF Good
  <2>3. \A y \in D : m[y] < m[x] => <<y, f[y]>> \in T /\ f[y] = h[y]
    <3> SUFFICES ASSUME NEW y \in D, m[y] < m[x] PROVE <<y, f[y]>> \in T /\ f[y] = h[y]
      OBVIOUS
    <3>1. m[y] \in Nat /\ m[x] \in Nat
      OBVIOUS
    <3>2. m[y] < m[x] + 1 /\ m[y] < m[y] + 1
      BY <3>1
    <3>3. <<y, f[y]>> \in T
      BY <2>1, <3>2 DEF Good
    <3>4. f[y] = at(m[y] + 1)[y]
      BY <1>2, <1>4, <1>5, <2>1, <3>2
    <3> QED
      BY <3>3, <3>4
  <2> HIDE DEF f, h
  <2>4. F[<<x, f>>] = F[<<x, h>>] /\ <<x, F[<<x, f>>]>> \in T
    BY <1>1, <1>6, <2>1, <2>3
  <2> QED
    BY <2>2, <2>4
<1> HIDE DEF h
<1> QED
  BY <1>6, <1>7, Zenon DEF SolvesWith

\* A recursion with one recursive call, at nx[x], and none where the measure m
\* is 0.
Solves(f, D, m, b, nx, c) ==
  \A x \in D : f[x] = IF m[x] = 0 THEN b[x] ELSE c[<<x, f[nx[x]]>>]

\* What a recursive definition assumes: that some function satisfies it.  One
\* does if the measure decreases.
THEOREM Recursion ==
  ASSUME NEW D, NEW V, NEW m \in [D -> Nat],
         NEW b \in [D -> V], NEW nx \in [D -> D], NEW c \in [D \X V -> V],
         \A x \in D : m[x] # 0 => m[nx[x]] < m[x]
  PROVE  \E f \in [D -> V] : Solves(f, D, m, b, nx, c)
<1> DEFINE Value(x, f) == IF m[x] = 0 THEN b[x] ELSE c[<<x, f[nx[x]]>>]
           F == [z \in D \X [D -> V] |-> Value(z[1], z[2])]
           T == D \X V
<1>1. CASE D = {}
  <2>1. [x \in {} |-> x] \in [D -> V]
    BY <1>1
  <2> QED
    BY <1>1, <2>1 DEF Solves
<1>2. CASE D # {}
  <2>1. V # {}
    BY <1>2
  <2>2. ASSUME NEW x \in D, NEW f \in [D -> V]
        PROVE  F[<<x, f>>] = Value(x, f) /\ Value(x, f) \in V
    <3>1. nx[x] \in D /\ f[nx[x]] \in V /\ b[x] \in V
      OBVIOUS
    <3>2. c[<<x, f[nx[x]]>>] \in V
      BY <3>1
    <3> QED
      BY <3>1, <3>2
  <2>3. F \in [D \X [D -> V] -> V]
    <3>1. \A z \in D \X [D -> V] : Value(z[1], z[2]) \in V
      <4> SUFFICES ASSUME NEW z \in D \X [D -> V] PROVE Value(z[1], z[2]) \in V
        OBVIOUS
      <4>1. z[1] \in D /\ z[2] \in [D -> V]
        OBVIOUS
      <4> HIDE DEF Value
      <4> QED
        BY <2>2, <4>1
    <3> HIDE DEF Value
    <3> QED
      BY <3>1
  <2>4. ShrinksOn(D, V, m, F, T)
    <3> SUFFICES ASSUME NEW x \in D, NEW g \in [D -> V], NEW h \in [D -> V],
                        \A y \in D : m[y] < m[x] => <<y, g[y]>> \in T /\ g[y] = h[y]
                 PROVE  F[<<x, g>>] = F[<<x, h>>] /\ <<x, F[<<x, g>>]>> \in T
      BY Zenon DEF ShrinksOn
    <3>1. Value(x, g) = Value(x, h)
      OBVIOUS
    <3> HIDE DEF F, Value
    <3> QED
      BY <2>2, <3>1
  <2> HIDE DEF F, T
  <2>5. PICK f \in [D -> V] : SolvesWith(f, D, F, T)
    BY <2>1, <2>3, <2>4, GeneralRecursion
  <2>6. \A x \in D : f[x] = Value(x, f)
    <3> HIDE DEF Value
    <3> QED
      BY <2>2, <2>5 DEF SolvesWith
  <2> QED
    BY <2>6 DEF Solves
<1> QED
  BY <1>1, <1>2

\* A loop of n steps from base.
Iteration(f, n, base, step) ==
  f[0] = base /\ \A k \in 1 .. n : f[k] = step[<<k, f[k - 1]>>]

\* A loop that counts its turns has a value after each of them.
THEOREM Iterates ==
  ASSUME NEW V, NEW n \in Nat, NEW base \in V, NEW step \in [(1 .. n) \X V -> V]
  PROVE  \E f \in [0 .. n -> V] : Iteration(f, n, base, step)
<1> DEFINE D == 0 .. n
           m == [k \in D |-> k]
           b == [k \in D |-> base]
           nx == [k \in D |-> IF k = 0 THEN 0 ELSE k - 1]
           c == [z \in D \X V |-> IF z[1] = 0 THEN base ELSE step[<<z[1], z[2]>>]]
<1>1. m \in [D -> Nat] /\ b \in [D -> V] /\ nx \in [D -> D]
  OBVIOUS
<1>2. c \in [D \X V -> V]
  <2>1. \A z \in D \X V : z[1] # 0 => <<z[1], z[2]>> \in (1 .. n) \X V
    OBVIOUS
  <2> QED
    BY <2>1
<1>3. \A k \in D : m[k] # 0 => m[nx[k]] < m[k]
  OBVIOUS
<1>4. 0 \in D /\ m[0] = 0 /\ b[0] = base
  OBVIOUS
<1>5. \A k \in 1 .. n : k \in D /\ m[k] # 0 /\ nx[k] = k - 1 /\ \A v \in V : c[<<k, v>>] = step[<<k, v>>]
  OBVIOUS
<1>6. \A k \in 1 .. n : k - 1 \in D
  OBVIOUS
<1> HIDE DEF D, m, b, nx, c
<1>7. PICK f \in [D -> V] : Solves(f, D, m, b, nx, c)
  BY <1>1, <1>2, <1>3, Recursion
<1>8. f[0] = base
  BY <1>4, <1>7 DEF Solves
<1>9. \A k \in 1 .. n : f[k] = step[<<k, f[k - 1]>>]
  BY <1>5, <1>6, <1>7 DEF Solves
<1> QED
  BY <1>7, <1>8, <1>9 DEF D, Iteration

\* f[x] is what the loop from x returns: it stops where s is true, with b, and
\* otherwise goes on at nx.
Loops(f, D, s, b, nx) == \A x \in D : f[x] = IF s[x] THEN b[x] ELSE f[nx[x]]

\* A loop whose measure decreases until it stops returns a value from every
\* place: its recursive definition has a solution (the walks of the code).
THEOREM LoopRecursion ==
  ASSUME NEW D, NEW V, NEW s \in [D -> BOOLEAN], NEW m \in [D -> Nat],
         NEW b \in [D -> V], NEW nx \in [D -> D],
         \A x \in D : ~s[x] => m[nx[x]] < m[x]
  PROVE  \E f \in [D -> V] : Loops(f, D, s, b, nx)
<1> DEFINE left == [x \in D |-> IF s[x] THEN 0 ELSE m[x] + 1]
           c == [z \in D \X V |-> z[2]]
<1>1. left \in [D -> Nat]
  <2>1. \A x \in D : m[x] + 1 \in Nat
    OBVIOUS
  <2> QED
    BY <2>1
<1>2. \A x \in D : left[x] # 0 => left[nx[x]] < left[x]
  <2> SUFFICES ASSUME NEW x \in D, left[x] # 0 PROVE left[nx[x]] < left[x]
    OBVIOUS
  <2>1. ~s[x] /\ left[x] = m[x] + 1 /\ m[nx[x]] < m[x] /\ nx[x] \in D
    OBVIOUS
  <2>2. left[nx[x]] = 0 \/ left[nx[x]] = m[nx[x]] + 1
    OBVIOUS
  <2>3. m[x] \in Nat /\ m[nx[x]] \in Nat
    BY <2>1
  <2> HIDE DEF left
  <2> QED
    BY <2>1, <2>2, <2>3
<1>3. c \in [D \X V -> V]
  OBVIOUS
<1>4. \A x \in D : left[x] = 0 <=> s[x]
  <2> SUFFICES ASSUME NEW x \in D PROVE left[x] = 0 <=> s[x]
    OBVIOUS
  <2>1. m[x] \in Nat /\ m[x] + 1 # 0
    OBVIOUS
  <2> QED
    BY <2>1
<1> HIDE DEF left, c
<1>5. PICK f \in [D -> V] : Solves(f, D, left, b, nx, c)
  BY <1>1, <1>2, <1>3, Recursion
<1>6. ASSUME NEW x \in D PROVE f[x] = IF s[x] THEN b[x] ELSE f[nx[x]]
  <2>1. f[x] = IF left[x] = 0 THEN b[x] ELSE c[<<x, f[nx[x]]>>]
    BY <1>5 DEF Solves
  <2>2. nx[x] \in D /\ f[nx[x]] \in V
    OBVIOUS
  <2>3. c[<<x, f[nx[x]]>>] = f[nx[x]]
    BY <2>2 DEF c
  <2> QED
    BY <1>4, <2>1, <2>3
<1> QED
  BY <1>6 DEF Loops

\* Every turn of the loop keeps the invariant T, and where it stops T puts its
\* value in R.
Keeps(T, R, D, s, b, nx) ==
  /\ \A x \in D : x \in T /\ ~s[x] => nx[x] \in T
  /\ \A x \in D : x \in T /\ s[x] => b[x] \in R

Halts(m, D, s, nx) == \A x \in D : ~s[x] => m[nx[x]] < m[x]

\* Then R has what the loop returns from any place where T holds.
THEOREM LoopResult ==
  ASSUME NEW D, NEW s \in [D -> BOOLEAN], NEW m \in [D -> Nat],
         NEW b, NEW nx \in [D -> D], NEW f, Loops(f, D, s, b, nx),
         NEW T, NEW R, Keeps(T, R, D, s, b, nx), Halts(m, D, s, nx)
  PROVE  \A x \in D : x \in T => f[x] \in R
<1> DEFINE U == {x \in D : x \in T => f[x] \in R}
<1>1. ASSUME NEW x \in D, \A y \in D : m[y] < m[x] => y \in U PROVE x \in U
  <2> SUFFICES ASSUME x \in T PROVE f[x] \in R
    OBVIOUS
  <2>1. f[x] = IF s[x] THEN b[x] ELSE f[nx[x]]
    BY DEF Loops
  <2>2. CASE s[x]
    BY <2>1, <2>2 DEF Keeps
  <2>3. CASE ~s[x]
    <3>1. nx[x] \in D /\ nx[x] \in T /\ m[nx[x]] < m[x]
      BY <2>3 DEF Keeps, Halts
    <3>2. nx[x] \in U
      BY <1>1, <3>1
    <3> QED
      BY <2>1, <2>3, <3>1, <3>2
  <2> QED
    BY <2>2, <2>3
<1> HIDE DEF U
<1>2. D \subseteq U
  BY <1>1, MeasureInduction
<1> QED
  BY <1>2 DEF U
==============================================================================
