---------------------------- MODULE WaveletTree ----------------------------
(***************************************************************************)
(* The wavelet tree (wavelet_tree.c), built once over a sequence of        *)
(* symbols 0 .. Sigma - 1.  The bitmap of a node is the set of the places, *)
(* from 0 on, of the symbols that went right.  wt_quantile answers -1      *)
(* whatever it is asked and is left out.                                   *)
(***************************************************************************)
EXTENDS Integers, Sequences, FiniteSets

CONSTANTS Sigma

Null == [null |-> TRUE]

Mid(lo, hi) == (lo + hi) \div 2

\* wt_build_r
RECURSIVE BuildFrom(_, _, _)
BuildFrom(s, lo, hi) ==
  LET goesLeft(c) == c <= Mid(lo, hi)
      goesRight(c) == ~goesLeft(c)
      left == SelectSeq(s, goesLeft)
      right == SelectSeq(s, goesRight)
  IN  IF s = <<>> \/ lo = hi THEN Null
      ELSE [null |-> FALSE, lo |-> lo, hi |-> hi,
            bm |-> {i - 1 : i \in {j \in DOMAIN s : goesRight(s[j])}},
            left |-> BuildFrom(left, lo, Mid(lo, hi)),
            right |-> BuildFrom(right, Mid(lo, hi) + 1, hi)]

Build(s) == BuildFrom(s, 0, Sigma - 1)

\* wt_rank: the number of places becomes that in the child, level by level.
RECURSIVE Rank(_, _, _)
Rank(node, c, i) ==
  IF node = Null THEN i
  ELSE
    LET ones == Cardinality({j \in node.bm : j < i})
    IN  IF c <= Mid(node.lo, node.hi) THEN Rank(node.left, c, i - ones)
        ELSE Rank(node.right, c, ones)

\* wt_select: the place of the k-th c, counted from 0, or -1.
Select(s, c, k) ==
  LET count[i \in 0 .. Len(s)] ==
        IF i = 0 THEN 0 ELSE count[i - 1] + IF s[i] = c THEN 1 ELSE 0
      found == {i \in DOMAIN s : s[i] = c /\ count[i] = k}
  IN  IF found = {} THEN -1 ELSE (CHOOSE i \in found : TRUE) - 1
===========================================================================
