---------------------------- MODULE MCOpenHash -------------------------------
(***************************************************************************)
(* An instance of OpenHash for TLC: four keys for three slots, two of them *)
(* hashed to the last slot, so that probes collide and wrap around.        *)
(***************************************************************************)
EXTENDS OpenHash

MCKeys == {"a", "b", "c", "d"}
MCHash == [k \in MCKeys |-> CASE k \in {"a", "b"} -> Capacity - 1
                              [] k = "c" -> 0
                              [] k = "d" -> 1]
==============================================================================
