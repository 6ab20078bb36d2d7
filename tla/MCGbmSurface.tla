---------------------------- MODULE MCGbmSurface ----------------------------
(* Model-checking instance of GbmSurface. *)
EXTENDS GbmSurface, TLC

Symmetry == Permutations(Buffer)
=============================================================================
