-------------------------------- MODULE BTree --------------------------------
(***************************************************************************)
(* src/trees/btree.c: a B-tree of minimum degree T that splits and merges  *)
(* nodes on the way down.  A node is a record; the recursive functions of  *)
(* the code are recursive operators that return the subtree they leave.    *)
(* Indices start at 1: keys[i] lies between children[i] and children[i+1]. *)
(* bt_insert does not refuse a key it holds, so a key may occur twice.     *)
(***************************************************************************)
EXTENDS Integers, FiniteSets, Sequences, SequencesExt

CONSTANTS
  Keys,    \* the int keys
  T,       \* BTREE_T
  SizeMod, \* 2^(bits of size_t)
  MaxKeys  \* bound: the keys a tree may hold

ASSUME KeysAssumption == Keys \subseteq Int
ASSUME TAssumption == T \in Nat /\ T >= 2
ASSUME BoundsAssumption == SizeMod \in Nat \ {0} /\ MaxKeys \in Nat

VARIABLES root, size

vars == <<root, size>>

LeafNode(keys) == [leaf |-> TRUE, keys |-> keys, children |-> <<>>]

Init ==
  /\ root = LeafNode(<<>>)
  /\ size = 0
------------------------------------------------------------------------------
\* The keys of a subtree from left to right.
RECURSIVE InOrder(_)
InOrder(n) ==
  IF n.leaf THEN n.keys
  ELSE FoldLeftDomain(LAMBDA s, i : s \o <<n.keys[i]>> \o InOrder(n.children[i + 1]),
                      InOrder(n.children[1]), n.keys)

\* Search.

Least(I) == CHOOSE i \in I : \A j \in I : i <= j
Greatest(I) == CHOOSE i \in I : \A j \in I : j <= i

\* The first index whose key is not below key, one past the last if none is.
LowerBound(n, key) ==
  Least({i \in 1 .. Len(n.keys) : key <= n.keys[i]} \cup {Len(n.keys) + 1})

Has(n, i, key) == i <= Len(n.keys) /\ n.keys[i] = key

RECURSIVE Search(_, _)
Search(n, key) ==
  LET i == LowerBound(n, key)
  IN  Has(n, i, key) \/ (~n.leaf /\ Search(n.children[i], key))
------------------------------------------------------------------------------
\* Insertion.

IsFull(n) == Len(n.keys) = 2 * T - 1

\* The full child i of x becomes two; its median moves up.
SplitChild(x, i) ==
  LET y == x.children[i]
      Half(from, to) ==
        [y EXCEPT !.keys = SubSeq(@, from, to),
                  !.children = IF y.leaf THEN @ ELSE SubSeq(@, from, to + 1)]
  IN  [x EXCEPT !.keys = InsertAt(@, i, y.keys[T]),
                !.children = InsertAt(ReplaceAt(@, i, Half(1, T - 1)), i + 1,
                                      Half(T + 1, 2 * T - 1))]

RECURSIVE InsertNonfull(_, _)
InsertNonfull(x, key) ==
  LET i == 1 + Greatest({j \in 1 .. Len(x.keys) : x.keys[j] <= key} \cup {0})
  IN  IF x.leaf THEN [x EXCEPT !.keys = InsertAt(@, i, key)]
      ELSE LET w == IF IsFull(x.children[i]) THEN SplitChild(x, i) ELSE x
               c == IF IsFull(x.children[i]) /\ key > w.keys[i] THEN i + 1 ELSE i
           IN  [w EXCEPT !.children[c] = InsertNonfull(@, key)]

Grown(r) == SplitChild([leaf |-> FALSE, keys |-> <<>>, children |-> <<r>>], 1)

Insert(key) ==
  /\ Len(InOrder(root)) < MaxKeys
  /\ root' = InsertNonfull(IF IsFull(root) THEN Grown(root) ELSE root, key)
  /\ size' = (size + 1) % SizeMod
------------------------------------------------------------------------------
\* Deletion.

Rich(n) == Len(n.keys) >= T

BorrowLeft(n, i) ==
  LET c == n.children[i]
      sib == n.children[i - 1]
  IN  [n EXCEPT
         !.keys[i - 1] = Last(sib.keys),
         !.children[i - 1] = [sib EXCEPT !.keys = Front(@),
                                !.children = IF sib.leaf THEN @ ELSE Front(@)],
         !.children[i] = [c EXCEPT !.keys = <<n.keys[i - 1]>> \o @,
                            !.children = IF c.leaf THEN @
                                         ELSE <<Last(sib.children)>> \o @]]

BorrowRight(n, i) ==
  LET c == n.children[i]
      sib == n.children[i + 1]
  IN  [n EXCEPT
         !.keys[i] = Head(sib.keys),
         !.children[i + 1] = [sib EXCEPT !.keys = Tail(@),
                                !.children = IF sib.leaf THEN @ ELSE Tail(@)],
         !.children[i] = [c EXCEPT !.keys = Append(@, n.keys[i]),
                            !.children = IF c.leaf THEN @
                                         ELSE Append(@, Head(sib.children))]]

\* Mutant: a merge forgets the key between the two children.
MergedWithoutKey(n, m) ==
  [n EXCEPT
     !.keys = RemoveAt(@, m),
     !.children = RemoveAt(
        [@ EXCEPT ![m] = [@ EXCEPT
                            !.keys = @ \o n.children[m + 1].keys,
                            !.children = @ \o n.children[m + 1].children]],
        m + 1)]

\* Children m and m + 1 become one, with the key between them.
Merged(n, m) ==
  LET left == n.children[m]
      right == n.children[m + 1]
  IN  [n EXCEPT
         !.keys = RemoveAt(@, m),
         !.children = RemoveAt(
            [@ EXCEPT ![m] = [left EXCEPT
                                !.keys = @ \o <<n.keys[m]>> \o right.keys,
                                !.children = @ \o right.children]],
            m + 1)]

\* Mutant: a poor child is always merged, even with a rich sibling.
FixChildByMerge(n, i) == Merged(n, IF i <= Len(n.keys) THEN i ELSE i - 1)

\* Gives child i a key more, from its left or its right sibling or by a merge.
FixChild(n, i) ==
  IF i > 1 /\ Rich(n.children[i - 1]) THEN BorrowLeft(n, i)
  ELSE IF i <= Len(n.keys) /\ Rich(n.children[i + 1]) THEN BorrowRight(n, i)
  ELSE Merged(n, IF i <= Len(n.keys) THEN i ELSE i - 1)

RECURSIVE MinKey(_), MaxKey(_)
MinKey(n) == IF n.leaf THEN Head(n.keys) ELSE MinKey(Head(n.children))
MaxKey(n) == IF n.leaf THEN Last(n.keys) ELSE MaxKey(n.children[Len(n.keys) + 1])

RECURSIVE DeleteFrom(_, _)
DeleteFrom(n, key) ==
  LET i == LowerBound(n, key)
      \* Puts key k into place i and deletes it from child c.
      Replaced(k, c) == [n EXCEPT !.keys[i] = k, !.children[c] = DeleteFrom(@, k)]
      fixed == FixChild(n, i)
  IN  IF Has(n, i, key)
      THEN IF n.leaf THEN [n EXCEPT !.keys = RemoveAt(@, i)]
           ELSE IF Rich(n.children[i]) THEN Replaced(MaxKey(n.children[i]), i)
           ELSE IF Rich(n.children[i + 1])
             THEN Replaced(MinKey(n.children[i + 1]), i + 1)
           ELSE [fixed EXCEPT !.children[i] = DeleteFrom(@, key)]
      ELSE IF n.leaf THEN n
      ELSE IF Rich(n.children[i])
        THEN [n EXCEPT !.children[i] = DeleteFrom(@, key)]
      ELSE LET d == IF i > Len(fixed.keys) + 1 THEN i - 1 ELSE i
           IN  [fixed EXCEPT !.children[d] = DeleteFrom(@, key)]

\* An empty root gives way to its only child.
Shrunk(r) == IF r.keys = <<>> /\ ~r.leaf THEN r.children[1] ELSE r

Delete(key) ==
  /\ Search(root, key)
  /\ root' = Shrunk(DeleteFrom(root, key))
  /\ size' = (size - 1) % SizeMod

DeleteAbsent(key) ==
  /\ ~Search(root, key)
  /\ UNCHANGED vars

Next == \E key \in Keys : Insert(key) \/ Delete(key) \/ DeleteAbsent(key)

Spec == Init /\ [][Next]_vars
------------------------------------------------------------------------------
\* Mutant: the scan prunes children whose left key has reached lo, not hi.
RECURSIVE RangeScanPrunedLow(_, _, _)
RangeScanPrunedLow(n, lo, hi) ==
  FoldLeftDomain(
    LAMBDA visited, i :
      visited
        \o (IF ~n.leaf /\ (i = 1 \/ n.keys[i - 1] < lo)
            THEN RangeScanPrunedLow(n.children[i], lo, hi) ELSE <<>>)
        \o (IF i <= Len(n.keys) /\ n.keys[i] \in lo .. hi
            THEN <<n.keys[i]>> ELSE <<>>),
    <<>>, Append(n.keys, 0))

\* The keys bt_range_scan visits, in order.
RECURSIVE RangeScan(_, _, _)
RangeScan(n, lo, hi) ==
  FoldLeftDomain(
    LAMBDA visited, i :
      visited
        \o (IF ~n.leaf /\ (i = 1 \/ n.keys[i - 1] < hi)
            THEN RangeScan(n.children[i], lo, hi) ELSE <<>>)
        \o (IF i <= Len(n.keys) /\ n.keys[i] \in lo .. hi
            THEN <<n.keys[i]>> ELSE <<>>),
    <<>>, Append(n.keys, 0))

\* All leaves of the subtree are h levels down, and its nodes have T - 1 to
\* 2T - 1 keys; the root needs only one, and none if it is a leaf.
RECURSIVE IsBalanced(_, _, _)
IsBalanced(n, h, least) ==
  /\ Len(n.keys) \in least .. 2 * T - 1
  /\ n.leaf <=> h = 0
  /\ Len(n.children) = IF n.leaf THEN 0 ELSE Len(n.keys) + 1
  /\ \A i \in DOMAIN n.children : IsBalanced(n.children[i], h - 1, T - 1)

RECURSIVE Height(_)
Height(n) == IF n.leaf THEN 0 ELSE 1 + Height(n.children[1])

\* The shape of a B-tree survives every split, borrowing and merge, so no
\* node overflows its arrays and an operation visits height + 1 nodes.
Balanced ==
  LET h == Height(root)
      least == IF root.leaf THEN 0 ELSE 1
  IN  IsBalanced(root, h, least)

\* How often each key occurs.
Copies == LET s == InOrder(root)
          IN  [k \in Keys |-> Cardinality({i \in DOMAIN s : s[i] = k})]

\* The keys are in search-tree order, and bt_search finds what is there.
SearchIsRight ==
  /\ IsSorted(InOrder(root), <=)
  /\ \A k \in Keys : Search(root, k) <=> k \in ToSet(InOrder(root))

\* No split, merge or borrowing loses a key: an insertion adds one copy of
\* its key, and a deletion takes away at most one copy of its own key and,
\* while no key is in the tree twice, changes nothing else.  (Among equal
\* keys a deletion may leave the copy it moved up in both places.)
OthersKept ==
  [][LET old == Copies
         new == Copies'
     IN  \A k \in Keys :
           /\ Insert(k) => new = [old EXCEPT ![k] = @ + 1]
           /\ Delete(k) => /\ new[k] >= old[k] - 1
                           /\ \A j \in Keys \ {k} : new[j] >= old[j]
                           /\ (\A j \in Keys : old[j] <= 1)
                                => new \in {old, [old EXCEPT ![k] = @ - 1]}]_vars

\* A range scan visits the keys of the range in order; the only thing it may
\* leave out is further copies of hi itself.
ScanIsExact ==
  \A lo, hi \in Keys :
    LET inRange == SelectSeq(InOrder(root), LAMBDA k : k \in lo .. hi)
        visited == RangeScan(root, lo, hi)
    IN  IsPrefix(visited, inRange) /\ ToSet(visited) = ToSet(inRange)

\* After any splits, borrowings and merges searches and scans see the keys of
\* the tree.
KeysAreFound == SearchIsRight /\ ScanIsExact

\* The test of bt_delete, "15 deleted": in a tree without repetitions a key is
\* no longer found once it was deleted.
DeletedIsGone ==
  [][LET old == Copies
     IN  \A k \in Keys :
           (\A j \in Keys : old[j] <= 1) /\ Delete(k) => ~Search(root, k)']_vars
==============================================================================
