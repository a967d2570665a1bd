\* Three keys and five writes through a memtable of two entries: two flushes
\* into level 0, compactions down to level 2, and duplicates in every level.
\* The bound on the writes ends every behaviour.
CONSTANTS
  Keys = {1, 2, 3}
  Values = {10, 20}
  NotFound = NotFound
  MemMax = 2
  LevelMax = 3
  FirstCapacity <- MCFirstCapacity
  MaxWrites = 5
SPECIFICATION Spec
INVARIANT LevelsAreSound
INVARIANT ReadsAreHonest
INVARIANT MemtableWins
CHECK_DEADLOCK FALSE
