---------------------------- MODULE MCDuelQueue ----------------------------
(* Instances of the duel queue for TLC.                                    *)
EXTENDS DuelQueueProps
=============================================================================
