\* Two keys and three writes: a flush of two writes of one key is enough for a
\* stale read. The bound on the writes ends every behaviour.
CONSTANTS
  Keys = {1, 2}
  Values = {10, 20}
  NotFound = NotFound
  MemMax = 2
  LevelMax = 3
  FirstCapacity <- MCFirstCapacity
  MaxWrites = 3
SPECIFICATION Spec
INVARIANT MostRecentWriteWins
CHECK_DEADLOCK FALSE
