-------------------------- MODULE MCDictionaries --------------------------
(***************************************************************************)
(* The dictionaries of the library side by side, one of them in use in     *)
(* each behaviour, and what they promise: Dictionary.  The refinement      *)
(* mapping reads a dictionary through its own lookups.                     *)
(***************************************************************************)
EXTENDS Naturals, Sequences, FiniteSets

CONSTANTS MaxKey, Vals

VARIABLES
  which,                                \* the dictionary in use
  call,                                 \* the last call
  buckets, chainSize,                   \* ChainHash
  table1, table2, cuckooSize, careful,  \* CuckooHash
  forward, val, curLevel, skipSize,     \* SkipList
  nodes, value, trieSize                \* Trie

chainVars == <<buckets, chainSize>>
cuckooVars == <<table1, table2, cuckooSize, careful>>
skipVars == <<forward, val, curLevel, skipSize>>
trieVars == <<nodes, value, trieSize>>

vars == <<which, call, chainVars, cuckooVars, skipVars, trieVars>>

Keys == 1 .. MaxKey

ChainHashes == <<1, 2, 5, 6>>

\* Three keys share both of their slots, so that one must be refused; the
\* fourth shares one of them and has another to go to.
Cuckoo1 == <<0, 0, 0, 0>>
Cuckoo2 == <<0, 0, 0, 1>>

Strings == << <<>>, <<1>>, <<1, 2, 1>>, <<1, 2, 2>> >>

Chain == INSTANCE ChainHash WITH Hash <- ChainHashes, Capacity <- 1, size <- chainSize
Cuckoo == INSTANCE CuckooHash WITH Hash1 <- Cuckoo1, Hash2 <- Cuckoo2, Capacity <- 2,
            MaxKicks <- 3, MaxCount <- 5, size <- cuckooSize
Skip == INSTANCE SkipList WITH MaxLevel <- 3, size <- skipSize
Tree == INSTANCE Trie WITH Letters <- 2, Text <- Strings, size <- trieSize

Init ==
  /\ which \in {"chain", "cuckoo", "skip", "trie"}
  /\ Chain!Init /\ Cuckoo!Init /\ Skip!Init /\ Tree!Init

ChainStep ==
  /\ which = "chain"
  /\ Chain!Next
  /\ UNCHANGED <<which, cuckooVars, skipVars, trieVars>>

CuckooStep ==
  /\ which = "cuckoo"
  /\ Cuckoo!Next
  /\ UNCHANGED <<which, chainVars, skipVars, trieVars>>

SkipStep ==
  /\ which = "skip"
  /\ Skip!Next
  /\ UNCHANGED <<which, chainVars, cuckooVars, trieVars>>

TrieStep ==
  /\ which = "trie"
  /\ Tree!Next
  /\ UNCHANGED <<which, chainVars, cuckooVars, skipVars>>

Next == ChainStep \/ CuckooStep \/ SkipStep \/ TrieStep

Spec == Init /\ [][Next]_vars

Contents ==
  CASE which = "chain" -> Chain!Contents
    [] which = "cuckoo" -> Cuckoo!Contents
    [] which = "skip" -> Skip!Contents
    [] which = "trie" -> Tree!Contents

Size ==
  CASE which = "chain" -> chainSize
    [] which = "cuckoo" -> cuckooSize
    [] which = "skip" -> skipSize
    [] which = "trie" -> trieSize

D == INSTANCE Dictionary WITH dict <- Contents, size <- Size

\* The chaining hash table, the skip list and the trie are dictionaries: an
\* insertion, also of a key that is held, makes the lookup through the chains,
\* levels or letters find the value of the call under the key of the call, a
\* deletion removes the key of the call and tells truly whether it was there,
\* no resize, random level or pruning changes what is found under another key,
\* and size counts the keys.
ImplementsDictionary == D!Init /\ [][which = "cuckoo" \/ D!Next]_(D!vars)

\* The cuckoo hash, as long as its caller inserts no key it holds, is a
\* dictionary that may refuse: a refused call costs exactly one pair, which need
\* not be that of the call, every other pair survives the kicks, and size is
\* right.
CuckooLosesOne == [][which = "cuckoo" /\ careful' => D!LossyNext]_(D!vars)

\* The prefixes and strings asked for: all of up to three letters.
Queries == UNION {[1 .. n -> 1 .. 2] : n \in 0 .. 3}

Sorted(s, Less(_, _)) == \A i, j \in DOMAIN s : i < j => Less(s[i], s[j])

Prefixed(w, p) == Len(p) <= Len(w) /\ SubSeq(w, 1, Len(p)) = p

Before(w, x) ==
  \/ Prefixed(x, w)
  \/ \E n \in 1 .. Len(w) :
       n <= Len(x) /\ SubSeq(w, 1, n - 1) = SubSeq(x, 1, n - 1) /\ w[n] < x[n]

\* The deletions of the trie free exactly the dead branches: a node is there,
\* and trie_starts_with answers TRUE, if and only if some key begins that way;
\* and the longest match is the longest key that begins the string.
PrefixesAreLive ==
  which = "trie" =>
    LET held == {Strings[k] : k \in DOMAIN Contents}
    IN  \A p \in Queries :
          /\ p = <<>> \/ (Tree!Reaches(p) <=> \E w \in held : Prefixed(w, p))
          /\ LET n == Tree!LongestMatch(p)
             IN  /\ n = 0 \/ SubSeq(p, 1, n) \in held
                 /\ \A w \in held : Prefixed(p, w) => Len(w) <= n

\* sl_range visits the keys of a range in order, each once; trie_autocomplete
\* those with a prefix, in dictionary order, in a trie without dead branches.
RangesAreExact ==
  /\ PrefixesAreLive
  /\ which = "skip" => \A lo, hi \in Keys :
       LET visited == Skip!Range(lo, hi)
       IN  /\ Sorted(visited, <)
           /\ {visited[i] : i \in DOMAIN visited} = {k \in DOMAIN Contents : lo <= k /\ k <= hi}
  /\ which = "trie" => \A p \in Queries :
       LET visited == Tree!Autocomplete(p)
       IN  /\ Sorted(visited, Before)
           /\ {visited[i] : i \in DOMAIN visited} =
                {Strings[k] : k \in {j \in DOMAIN Contents : Prefixed(Strings[j], p)}}
===========================================================================
