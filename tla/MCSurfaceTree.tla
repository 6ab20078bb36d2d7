--------------------------- MODULE MCSurfaceTree ---------------------------
(* Model-checking instance of SurfaceTree. *)
EXTENDS SurfaceTree, TLC

Symmetry == Permutations(Surface) \cup Permutations(Subsurface)
=============================================================================
