---------------------------- MODULE MCMatchFlow ----------------------------
(* Instances of the match controller for TLC.                              *)
EXTENDS MatchFlowProps, TLC

CONSTANTS h1, h2, b1, b2

\* Clients who differ in nothing but their name: the plain humans, the bots.
Symmetry == Permutations(Humans \ Admins) \cup Permutations(Bots)
=============================================================================
