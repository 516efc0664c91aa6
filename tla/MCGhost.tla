------------------------------ MODULE MCGhost ------------------------------
(* Instances of Ghost for TLC.                                             *)
EXTENDS GhostProps, TLC

CONSTANTS p1, p2

Symmetry == Permutations(Ids)
=============================================================================
