------------------------- MODULE MCGraphAlgorithms ---------------------------
(***************************************************************************)
(* An instance of the graph algorithms for TLC, with weights of both signs *)
(***************************************************************************)
EXTENDS ShortestPaths

MCWeights == {-1, 1, 3}
==============================================================================
