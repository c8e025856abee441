---------------------------- MODULE MCGttWindows ----------------------------
(* Model values and symmetry for TLC runs of GttWindows. *)
EXTENDS GttWindows, TLC

CONSTANTS c1, c2, f1, m1

Symmetry == Permutations(Copiers)
=============================================================================
