\* Four keys; a table of one bucket that grows, two cuckoo tables of two slots
\* with three rounds, three levels, and strings that share prefixes.
CONSTANTS
  MaxKey = 4
  Vals = {1, 2}
SPECIFICATION Spec
INVARIANT RangesAreExact
PROPERTY ImplementsDictionary
PROPERTY CuckooLosesOne
