\* Three vertices and three edges, parallel ones and loops included: enough for
\* a detour cheaper than the direct edge, for a shortest path that needs every
\* pass, and for cycles of every length. The bound on the edges ends every
\* behaviour.
CONSTANTS
  N = 3
  Weights <- MCWeights
  MaxEdges = 3
SPECIFICATION Spec
INVARIANT TraversalsReachAll
INVARIANT ShortestPathsFound
INVARIANT OrdersFollowArcs
INVARIANT ComponentsArePaths
CHECK_DEADLOCK FALSE
