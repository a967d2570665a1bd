------------------------------- MODULE Stack -------------------------------
(***************************************************************************)
(* The stack and its clients (stack.c), and the breadth-first search on    *)
(* the circular queue (queue.c).  A stack is a sequence with its top at    *)
(* the end; a push on a full stack is refused, and no client looks.        *)
(***************************************************************************)
EXTENDS Integers, SequencesExt

Push(s, v, capacity) == IF Len(s) < capacity THEN Append(s, v) ELSE s

Peek(s) == Last(s)
Pop(s) == Front(s)

\* The inner loop of stack_dfs_iterative, over a row of the adjacency table.
PushAll(s, row, visited, n) ==
  FoldLeft(LAMBDA t, w : IF w \in visited THEN t ELSE Push(t, w, n), s, row)

\* The vertices stack_dfs_iterative visits, with stack s and visited so far.
RECURSIVE DfsFrom(_, _, _)
DfsFrom(adj, s, visited) ==
  IF s = <<>> THEN visited
  ELSE
    LET v == Peek(s)
        seen == visited \cup {v}
    IN  IF v \in visited THEN DfsFrom(adj, Pop(s), visited)
        ELSE DfsFrom(adj, PushAll(Pop(s), adj[v], seen, Cardinality(DOMAIN adj)), seen)

StackDfs(adj, src) == DfsFrom(adj, Push(<<>>, src, Cardinality(DOMAIN adj)), {})

\* queue_bfs: the order of the visits, with queue q and the vertices marked.
RECURSIVE BfsFrom(_, _, _, _)
BfsFrom(adj, q, visited, order) ==
  IF q = <<>> THEN order
  ELSE
    LET fresh == FoldLeft(LAMBDA s, w : IF w \in visited \cup ToSet(s) THEN s ELSE Append(s, w),
                          <<>>, adj[Head(q)])
    IN  BfsFrom(adj, Tail(q) \o fresh, visited \cup ToSet(fresh), Append(order, Head(q)))

\* Mutant: the source is not marked.
QueueBfsUnmarked(adj, src) == BfsFrom(adj, <<src>>, {}, <<>>)

QueueBfs(adj, src) == BfsFrom(adj, <<src>>, {src}, <<>>)

Opening == (")" :> "(") @@ ("]" :> "[") @@ ("}" :> "{")

\* stack_balanced_brackets, on the rest of a string; it pushes no more than
\* the length of the string, the capacity of its stack.
RECURSIVE Balanced(_, _)
Balanced(text, s) ==
  IF text = <<>> THEN s = <<>>
  ELSE
    LET c == Head(text)
    IN  IF c \in Range(Opening) THEN Balanced(Tail(text), Append(s, c))
        ELSE IF c \notin DOMAIN Opening THEN Balanced(Tail(text), s)
        ELSE s # <<>> /\ Peek(s) = Opening[c] /\ Balanced(Tail(text), Pop(s))

BalancedBrackets(text) == Balanced(text, <<>>)

\* Division in C rounds towards zero.
Quotient(a, b) ==
  LET size(x) == IF x < 0 THEN -x ELSE x
      q == size(a) \div size(b)
  IN  IF (a < 0) = (b < 0) THEN q ELSE -q

Apply(op, a, b) ==
  CASE op = "+" -> a + b [] op = "-" -> a - b [] op = "*" -> a * b
    [] op = "/" -> Quotient(a, b)

Number == [c \in {"1", "2", "3"} |-> CHOOSE n \in 1 .. 3 : ToString(n) = c]

\* stack_eval_postfix, on the rest of a well-formed expression.
RECURSIVE Evaluated(_, _)
Evaluated(text, s) ==
  IF text = <<>> THEN Peek(s)
  ELSE IF Head(text) \in DOMAIN Number
  THEN Evaluated(Tail(text), Append(s, Number[Head(text)]))
  ELSE LET rest == Pop(Pop(s))
       IN  Evaluated(Tail(text), Append(rest, Apply(Head(text), Peek(Pop(s)), Peek(s))))

EvalPostfix(text) == Evaluated(text, <<>>)
===========================================================================
