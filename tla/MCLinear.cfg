\* Three values, room for three; arrays of five entries, strings of five letters,
\* tables of three vertices and four heads, words of eight bits.
CONSTANTS
  Vals = {1, 2, 3}
  Capacity = 3
  MaxSize = 5
  MaxText = 5
  MaxHeads = 4
  Width = 8
SPECIFICATION Spec
INVARIANT ArrayAlgorithmsAreRight
INVARIANT ClientsAreRight
INVARIANT BitTricksAreRight
PROPERTY ImplementsSequence
