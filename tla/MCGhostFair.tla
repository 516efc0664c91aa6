---------------------------- MODULE MCGhostFair ----------------------------
(* Instances of GhostFair for TLC.                                         *)
EXTENDS GhostProps, GhostFair, TLC

CONSTANTS p1, p2
=============================================================================
