--------------------------- MODULE MCGdprManager ---------------------------
(* Small instances of GdprManager. *)
EXTENDS GdprManager, TLC

CallerSymmetry == Permutations(Callers)
=============================================================================
