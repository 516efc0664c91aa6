------------------------------- MODULE MCVote -------------------------------
(* Instances of Vote for TLC.                                              *)
EXTENDS VoteProps, TLC

CONSTANTS h1, h2, h3, b1

Symmetry == Permutations(Humans)
=============================================================================
