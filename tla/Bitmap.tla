------------------------------- MODULE Bitmap -------------------------------
(***************************************************************************)
(* Two bitmaps of the same size and the operations between them            *)
(* (bitmap.c).  A word is the set of its one bits.  members[m] is the set  *)
(* of bits below BitCount the calls have made bitmap m; padded[m] says     *)
(* that a complement has left ones above them, in the last word.           *)
(***************************************************************************)
EXTENDS Integers, FiniteSetsExt

CONSTANTS
  BitCount,
  WORD_BITS       \* 64 in the code

VARIABLES words, members, padded

vars == <<words, members, padded>>

Bits == 0 .. BitCount - 1
Maps == {1, 2}
WordCount == (BitCount + WORD_BITS - 1) \div WORD_BITS
Places == 0 .. WORD_BITS - 1

WORD(i) == i \div WORD_BITS
BIT(i) == i % WORD_BITS

\* bm_create, twice
Init ==
  /\ words = [m \in Maps |-> [w \in 0 .. WordCount - 1 |-> {}]]
  /\ members = [m \in Maps |-> {}]
  /\ padded = [m \in Maps |-> FALSE]

Test(m, i) == BIT(i) \in words[m][WORD(i)]

Set(m, i) ==
  /\ words' = [words EXCEPT ![m][WORD(i)] = @ \cup {BIT(i)}]
  /\ members' = [members EXCEPT ![m] = @ \cup {i}]
  /\ UNCHANGED padded

Clear(m, i) ==
  /\ words' = [words EXCEPT ![m][WORD(i)] = @ \ {BIT(i)}]
  /\ members' = [members EXCEPT ![m] = @ \ {i}]
  /\ UNCHANGED padded

Toggle(m, i) ==
  /\ words' = [words EXCEPT ![m][WORD(i)] = (@ \ {BIT(i)}) \cup ({BIT(i)} \ @)]
  /\ members' = [members EXCEPT ![m] = (@ \ {i}) \cup ({i} \ @)]
  /\ UNCHANGED padded

\* dst becomes the bitmaps 1 and 2 combined word by word.
And(dst) ==
  /\ words' = [words EXCEPT ![dst] = [w \in DOMAIN @ |-> words[1][w] \cap words[2][w]]]
  /\ members' = [members EXCEPT ![dst] = members[1] \cap members[2]]
  /\ padded' = [padded EXCEPT ![dst] = padded[1] /\ padded[2]]

Or(dst) ==
  /\ words' = [words EXCEPT ![dst] = [w \in DOMAIN @ |-> words[1][w] \cup words[2][w]]]
  /\ members' = [members EXCEPT ![dst] = members[1] \cup members[2]]
  /\ padded' = [padded EXCEPT ![dst] = padded[1] \/ padded[2]]

Complement(dst, a) ==
  /\ words' = [words EXCEPT ![dst] = [w \in DOMAIN @ |-> Places \ words[a][w]]]
  /\ members' = [members EXCEPT ![dst] = Bits \ members[a]]
  /\ padded' = [padded EXCEPT ![dst] = ~padded[a]]

Next ==
  \E m \in Maps :
    \/ And(m) \/ Or(m)
    \/ \E a \in Maps : Complement(m, a)
    \/ \E i \in Bits : Set(m, i) \/ Clear(m, i) \/ Toggle(m, i)

Popcount(m) == MapThenSumSet(LAMBDA w : Cardinality(words[m][w]), DOMAIN words[m])

\* The first one bit of the words from the given one on; bits below it in that
\* word are masked.
FirstFrom(m, start) ==
  LET masked(w) == IF w = WORD(start) THEN words[m][w] \ (0 .. BIT(start) - 1) ELSE words[m][w]
      found == {w \in WORD(start) .. WordCount - 1 : masked(w) # {}}
  IN  IF found = {} THEN -1 ELSE Min(found) * WORD_BITS + Min(masked(Min(found)))

FindFirstSet(m) == FirstFrom(m, 0)
FindNextSet(m, from) == FirstFrom(m, from + 1)
===========================================================================
