----------------------------- MODULE MCProfile -----------------------------
(* Instances of the profiles for TLC.                                      *)
EXTENDS ProfileProps

CONSTANTS p1, p2, f1, f2
=============================================================================
