----------------------------- MODULE MCLSMTree -------------------------------
(***************************************************************************)
(* An instance of LSMTree for TLC: levels that all start with room for one *)
(* memtable, so that the flush and the compaction both have to grow them.  *)
(***************************************************************************)
EXTENDS LSMTree

MCFirstCapacity == [l \in Level |-> MemMax]
==============================================================================
