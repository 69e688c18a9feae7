------------------------------ MODULE MCFdMap -------------------------------
(* A table of two entries, three descriptors, two threads that put. *)
EXTENDS FdMap, TLC

MCFds == 0..2

Symmetry == Permutations(Threads) \cup Permutations(Blocks)
MCCounts == 0..2
MCPayloads == {"empty", "short", "long"}
MCPayloadLen == [p \in MCPayloads |-> CASE p = "empty" -> 0 [] p = "short" -> 1 [] p = "long" -> 2]
=============================================================================
