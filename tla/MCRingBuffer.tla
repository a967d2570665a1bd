---------------------------- MODULE MCRingBuffer -----------------------------
(***************************************************************************)
(* An instance of RingBuffer for TLC: the ring a client asked Requested    *)
(* slots for, with a size_t of WordBits bits.                              *)
(***************************************************************************)
EXTENDS RingBuffer

CONSTANTS Requested, WordBits

\* next_pow2: the loop doubles p from 1 until it reaches n.
NextPow2(n) ==
  LET grow[p \in Nat] == IF p < n THEN grow[2 * p] ELSE p
  IN  grow[1]

MCCapacity == NextPow2(Requested)
MCWordSize == 2 ^ WordBits
==============================================================================
