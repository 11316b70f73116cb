----------------------------- MODULE MCBlkCache -----------------------------
(* The block cache on small sets for TLC. *)
EXTENDS BlkCache, TLC

Symmetry == Permutations(Task) \union Permutations(Writer)
=============================================================================
