------------------------------- MODULE Bits -------------------------------
(***************************************************************************)
(* The bit algorithms (bits.c, bits.h), for words of Width bits in lanes   *)
(* of Lane bits (32 and 8 in the code).  A word is the set of its one      *)
(* bits; Num is its value, Signed its value as a signed number.            *)
(*                                                                         *)
(* Unsigned arithmetic wraps (Plus, Minus, Shl).  Where the code adds,     *)
(* negates or shifts an int32_t, the result is IntOf the exact number,     *)
(* and there is none for a number that does not fit: C leaves the overflow *)
(* of a signed number undefined, and TLC stops at such a CASE.             *)
(***************************************************************************)
EXTENDS Integers, Sequences, FiniteSetsExt

CONSTANTS Width, Lane

Places == 0 .. Width - 1

Num(x) == MapThenSumSet(LAMBDA i : 2 ^ i, x)
Word(n) == {i \in Places : (n \div (2 ^ i)) % 2 = 1}
Signed(x) == IF Width - 1 \in x THEN Num(x) - 2 ^ Width ELSE Num(x)

Fits(n) == -(2 ^ (Width - 1)) <= n /\ n < 2 ^ (Width - 1)
IntOf(n) == CASE Fits(n) -> Word(n % (2 ^ Width))

Xor(x, y) == (x \ y) \cup (y \ x)
Not(x) == Places \ x
Shl(x, k) == {i + k : i \in {j \in x : j + k < Width}}
Shr(x, k) == {i - k : i \in {j \in x : j >= k}}
Plus(x, y) == Word(Num(x) + Num(y))
Minus(x, y) == Word(Num(x) - Num(y) + 2 ^ Width)
Mask(n) == Minus(Word(2 ^ n), {0})              \* the n lowest bits
Sign(x) == IF Width - 1 \in x THEN Places ELSE {}  \* x >> Width - 1, signed

\* 1. Fields
Field(x, lo, hi) == Shr(x, lo) \cap Mask(hi - lo + 1)
FieldSet(x, lo, hi, v) ==
  LET mask == Shl(Mask(hi - lo + 1), lo)
  IN  (x \cap Not(mask)) \cup (Shl(v, lo) \cap mask)

\* 2. Arithmetic
RECURSIVE Add(_, _)
Add(a, b) == IF b = {} THEN a ELSE Add(Xor(a, b), Shl(a \cap b, 1))

Negate(x) == IntOf(Signed(Not(x)) + 1)
MinusInt(x) == IntOf(-Signed(x))                 \* -x
Sub(a, b) == Add(a, Negate(b))
Abs(x) == IntOf(Signed(Xor(x, Sign(x))) - Signed(Sign(x)))

RECURSIVE MulLoop(_, _, _)
MulLoop(result, ua, ub) ==
  IF ub = {} THEN result
  ELSE MulLoop(IF 0 \in ub THEN Add(result, ua) ELSE result, Shl(ua, 1), Shr(ub, 1))

Mul(a, b) ==
  LET size(x) == IF Width - 1 \in x THEN MinusInt(x) ELSE x
      result == MulLoop({}, size(a), size(b))
  IN  IF (Width - 1 \in a) # (Width - 1 \in b) THEN MinusInt(result) ELSE result

Clz(x) == IF x = {} THEN Width ELSE Width - 1 - Max(x)
Ctz(x) == IF x = {} THEN Width ELSE Min(x)

RECURSIVE DivLoop(_, _, _, _)
DivLoop(a, b, quotient, s) ==
  IF s < 0 THEN quotient
  ELSE IF Num(Shl(b, s)) <= Num(a)
  THEN DivLoop(Minus(a, Shl(b, s)), b, quotient \cup {s}, s - 1)
  ELSE DivLoop(a, b, quotient, s - 1)

Div(a, b) == DivLoop(a, b, {}, Clz(b))

\* 3, 4, 7. Folding: x is combined with itself shifted by each of the powers
\* of two below Width, from the largest down or from one up.
RECURSIVE XorDown(_, _)
XorDown(x, k) == IF k = 0 THEN x ELSE XorDown(Xor(x, Shr(x, k)), k \div 2)

RECURSIVE OrUp(_, _)
OrUp(x, k) == IF k = Width THEN x ELSE OrUp(x \cup Shr(x, k), 2 * k)

\* Mutant: the upper half is not folded in.
ParityLowHalf(x) == XorDown(x, Width \div 4) \cap {0}

Parity(x) == XorDown(x, Width \div 2) \cap {0}
NextPow2(x) == IF x = {} THEN {0} ELSE Plus(OrUp(Minus(x, {0}), 1), {0})
PrevPow2(x) ==
  LET filled == OrUp(x, 1)
  IN  IF x = {} THEN {} ELSE Minus(filled, Shr(filled, 1))
FloorLog2(x) == IF x = {} THEN -1 ELSE Width - 1 - Clz(x)
AlignUp(x, align) == Minus(Plus(x, align), {0}) \cap Not(Minus(align, {0}))
AlignDown(x, align) == x \cap Not(Minus(align, {0}))
IsAligned(x, align) == x \cap Minus(align, {0}) = {}

\* 5. Isolation
Lsb(x) == x \cap MinusInt(x)
ClearLsb(x) == x \cap Minus(x, {0})
Msb(x) == IF x = {} THEN {} ELSE Shl({0}, Width - 1 - Clz(x))

\* The bits that are in the lower of two neighbouring groups of k bits, the
\* masks 0x55.., 0x33.., 0x0F.. and 0x00FF00FF.
Lower(k) == {i \in Places : (i \div k) % 2 = 0}

SwapGroups(x, k) == Shl(x \cap Lower(k), k) \cup (Shr(x, k) \cap Lower(k))

\* bswap32 swaps the groups of Lane bits and above.
RECURSIVE Swapped(_, _)
Swapped(x, k) == IF k = Width THEN x ELSE Swapped(SwapGroups(x, k), 2 * k)

BitReverse(x) == Swapped(x, 1)
ByteSwap(x) == Swapped(x, Lane)

\* 6. Predicates
IsPow2(x) == x # {} /\ x \cap Minus(x, {0}) = {}
SameSign(a, b) == Width - 1 \notin Xor(a, b)
BitMin(a, b) ==
  LET diff == IntOf(Signed(a) - Signed(b))
  IN  IntOf(Signed(b) + Signed(diff \cap Sign(diff)))
BitMax(a, b) ==
  LET diff == IntOf(Signed(b) - Signed(a))
  IN  IntOf(Signed(a) + Signed(diff \cap Not(Sign(diff))))
XorSwap(a, b) ==                        \* of two different variables
  LET a1 == Xor(a, b)
      b1 == Xor(b, a1)
  IN  <<Xor(a1, b1), b1>>

\* 7. Coding
ToGray(n) == Xor(n, Shr(n, 1))
FromGray(g) == XorDown(g, Width \div 2)
ZigzagEncode(n) ==                      \* n << 1 of a negative n is undefined too
  CASE Signed(n) >= 0 -> Xor(IntOf(2 * Signed(n)), Sign(n))
ZigzagDecode(n) == Xor(Shr(n, 1), MinusInt(n \cap {0}))

RECURSIVE Spread(_, _)
Spread(x, k) == IF k = 0 THEN x ELSE Spread((x \cup Shl(x, k)) \cap Lower(k), k \div 2)

RECURSIVE Compact(_, _)
Compact(x, k) ==
  IF 2 * k = Width THEN x ELSE Compact((x \cup Shr(x, k)) \cap Lower(2 * k), 2 * k)

MortonEncode(x, y) == Spread(x, Width \div 4) \cup Shl(Spread(y, Width \div 4), 1)
MortonDecode(z) == <<Compact(z \cap Lower(1), 1), Compact(Shr(z, 1) \cap Lower(1), 1)>>

\* 8. Puzzles, on sequences of words
XorAll(s) == LET f[i \in 0 .. Len(s)] == IF i = 0 THEN {} ELSE Xor(f[i - 1], s[i]) IN f[Len(s)]
SingleNumber(s) == XorAll(s)
MissingNumber(s) == XorAll(<<Word(Len(s)), XorAll([i \in DOMAIN s |-> Word(i - 1)]), XorAll(s)>>)
TwoSingles(s) ==
  LET pivot == Lsb(XorAll(s))
      inGroup(x) == x \cap pivot # {}
  IN  <<XorAll(SelectSeq(s, inGroup)), XorAll(SelectSeq(s, LAMBDA x : ~inGroup(x)))>>

\* 9. bit_each_subset: the words it visits after s.
RECURSIVE SubsetsFrom(_, _)
SubsetsFrom(s, mask) ==
  IF s = {} THEN <<>> ELSE <<s>> \o SubsetsFrom(Minus(s, {0}) \cap mask, mask)

EachSubset(mask) == SubsetsFrom(mask, mask)

\* 10. Lanes
Ones == {i \in Places : i % Lane = 0}
Tops == {i \in Places : i % Lane = Lane - 1}
ZeroTops(v) == Minus(v, Ones) \cap Not(v) \cap Tops
ByteEqMask(a, b) ==
  LET z == ZeroTops(Xor(a, b))
  IN  z \cup Minus(z, Shr(z, Lane - 1))
HasZeroByte(x) == ZeroTops(x) # {}
===========================================================================
