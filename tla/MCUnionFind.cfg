\* Four nodes: enough for a tree of rank two and a path of two pending
\* activations that a find compresses.
CONSTANT N = 4
SPECIFICATION FairSpec
INVARIANT TreesAreBlocks
INVARIANT ComponentsCounted
INVARIANT PathIsShallow
INVARIANT RankIsLogarithmic
PROPERTY ImplementsPartition
PROPERTY CallsReturn
