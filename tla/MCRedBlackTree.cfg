\* Seven keys: trees of up to four levels, in which every case of the two
\* fix-ups and its mirror occurs.
CONSTANTS
  Keys = {1, 2, 3, 4, 5, 6, 7}
  Nil = Nil
SPECIFICATION FairSpec
INVARIANT OneDefect
INVARIANT WalkIsSorted
PROPERTY CallsReturn
