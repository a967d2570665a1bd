\* Three slots requested, four allocated; counters of three bits wrap around
\* after eight values.
CONSTANTS
  Values = {v1, v2}
  Junk = Junk
  Requested = 3
  WordBits = 3
  Capacity <- MCCapacity
  WordSize <- MCWordSize
SPECIFICATION FairSpec
INVARIANT NoDataRace
INVARIANT SizeIsConservative
PROPERTY PollIsHonoured
PROPERTY ImplementsFIFO
PROPERTY Delivered
PROPERTY RefusedThenAccepted
