------------------------------- MODULE Trie -------------------------------
(***************************************************************************)
(* The trie (trie.c).  A node is named by the letters on the way to it;    *)
(* the root, <<>>, is always there.  Text spells the keys, so that the     *)
(* keys themselves can be those of the other dictionaries.                 *)
(***************************************************************************)
EXTENDS Naturals, SequencesExt

CONSTANTS
  Keys, Vals,
  Letters,        \* the bytes that occur, as numbers 1 .. Letters
  Text            \* the string of each key

VARIABLES
  nodes,          \* the nodes below the root
  value,          \* the values of the nodes whose is_end is set
  size,           \* count
  call

vars == <<nodes, value, size, call>>

Called(op, k, v, answer) == call' = [op |-> op, key |-> k, val |-> v, answer |-> answer]

Start(w, n) == SubSeq(w, 1, n)

Reaches(w) == \A n \in 1 .. Len(w) : Start(w, n) \in nodes

\* trie_search
Found(w) == Reaches(w) /\ w \in DOMAIN value

Init ==
  /\ nodes = {}
  /\ value = [w \in {} |-> 0]
  /\ size = 0
  /\ call = [op |-> "create", key |-> 0, val |-> 0, answer |-> TRUE]

Insert(k, v) ==
  LET w == Text[k]
  IN  /\ nodes' = nodes \cup {Start(w, n) : n \in 1 .. Len(w)}
      /\ size' = IF w \in DOMAIN value THEN size ELSE size + 1
      /\ value' = [x \in DOMAIN value \cup {w} |-> IF x = w THEN v ELSE value[x]]
      /\ Called("insert", k, v, TRUE)

HasChildren(w, S) == \E c \in 1 .. Letters : Append(w, c) \in S

\* Mutant: only the last node is freed.
LeftUnpruned(w, ends) ==
  IF w = <<>> \/ HasChildren(w, nodes) THEN nodes ELSE nodes \ {w}

\* The nodes left when the activation of delete_r for the first n letters of w
\* returns: the one below has freed its node if it is no end and has no child.
Left(w, ends) ==
  LET left[n \in 0 .. Len(w)] ==
        IF n = Len(w) THEN nodes
        ELSE LET child == Start(w, n + 1)
                 below == left[n + 1]
             IN  IF child \in ends \/ HasChildren(child, below) THEN below
                 ELSE below \ {child}
  IN  left[0]

Delete(k) ==
  LET w == Text[k]
  IN  \/ /\ Found(w)
         /\ value' = [x \in DOMAIN value \ {w} |-> value[x]]
         /\ nodes' = Left(w, DOMAIN value \ {w})
         /\ size' = size - 1
         /\ Called("delete", k, 0, TRUE)
      \/ /\ ~Found(w)
         /\ Called("delete", k, 0, FALSE)
         /\ UNCHANGED <<nodes, value, size>>

Next == \E k \in Keys : Delete(k) \/ \E v \in Vals : Insert(k, v)

Spec == Init /\ [][Next]_vars

Contents == [k \in {j \in Keys : Found(Text[j])} |-> value[Text[k]]]

\* trie_longest_prefix_match: the length of the last end on the way along w.
LongestMatch(w) ==
  LET best[n \in 0 .. Len(w)] ==
        IF n = 0 THEN 0
        ELSE IF Reaches(Start(w, n)) /\ Start(w, n) \in DOMAIN value THEN n
        ELSE best[n - 1]
  IN  best[Len(w)]

\* The ends below the node w, in the order autocomplete_r visits them.
RECURSIVE Walk(_)
Walk(w) ==
  (IF w \in DOMAIN value THEN <<w>> ELSE <<>>)
    \o FlattenSeq([c \in 1 .. Letters |->
         IF Append(w, c) \in nodes THEN Walk(Append(w, c)) ELSE <<>>])

\* trie_autocomplete
Autocomplete(w) == IF Reaches(w) THEN Walk(w) ELSE <<>>
===========================================================================
