\* An array of four, four points in the plane, four intervals, sequences of
\* four symbols out of four; two sketches with cells that wrap around at 4.
CONSTANTS
  Length = 4
  MaxUpdates = 3
  MaxPoints = 4
  MaxHeld = 4
  MaxLength = 4
  Symbols = 4
  Sketches = {1, 2}
  Items = {0, 1, 2}
  Rows = {1, 2}
  Columns = {0, 1}
  Column <- MCColumn
  WordSize = 4
  Amounts = {1, 2}
  MaxTotal = 5
  Elements = {1, 2, 3, 4}
  Registers = {0, 1}
  RegisterOf <- MCRegister
  RankOf <- MCRank
  Positions = {0, 1, 2}
  PositionsOf <- MCPositions
  Saturation = 3
  MaxPresent = 2
SPECIFICATION Spec
INVARIANT SumsAreExact
INVARIANT QueriesAreExact
INVARIANT SketchesKeepWhatWasAdded
INVARIANT NeverUnderestimates
\* The structures that only grow stop at their bounds.
CHECK_DEADLOCK FALSE
