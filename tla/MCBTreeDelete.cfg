\* Six keys: a root with three children of which the left one has a key to lend.
CONSTANTS
  Keys = {1, 2, 3, 4, 5, 6}
  T = 2
  SizeMod = 8
  MaxKeys = 6
SPECIFICATION Spec
PROPERTY DeletedIsGone
