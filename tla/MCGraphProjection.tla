------------------------- MODULE MCGraphProjection -------------------------
(* Small instances of GraphProjection for TLC.                              *)
EXTENDS GraphProjection, TLC

RequestSymmetry == Permutations(Rebuilders)
===========================================================================
