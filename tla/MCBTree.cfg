\* Minimum degree two, so that eight keys, with repetitions, make trees of three
\* levels whose inner nodes split, borrow and merge.  size has two bits.
CONSTANTS
  Keys = {1, 2, 3, 4}
  T = 2
  SizeMod = 4
  MaxKeys = 8
SPECIFICATION Spec
INVARIANT KeysAreFound
INVARIANT Balanced
PROPERTY OthersKept
