\* Every hash in the table, all collisions, and more keys than slots.
CONSTANTS
  Keys <- MCKeys
  Values = {v1, v2}
  NotFound = NotFound
  Junk = Junk
  Capacity = 3
  Hash <- MCHash
SPECIFICATION Spec
INVARIANT ProbeReachable
INVARIANT PutIsRead
INVARIANT SizeCountsSlots
INVARIANT CarefulIsExact
