---------------------------- MODULE MCBaReorder ----------------------------
(* Small instances of the Block Ack recipient. *)
EXTENDS BaReorder, TLC

Symmetry == Permutations(Flows)
=============================================================================
