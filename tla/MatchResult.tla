---------------------------- MODULE MatchResult ----------------------------
(***************************************************************************)
(* What the match controller promises about results, and nothing else: a   *)
(* result is recorded from the start of a match to its settlement; between *)
(* settlement and publication it is frozen; it is published once; it may   *)
(* be void at any time.  In particular no frozen result thaws, no          *)
(* published one is published again, and no match begins on top of another *)
(* one that is still open or not yet published.                            *)
(***************************************************************************)
VARIABLE result

Open    == result \in {"none", "published"} /\ result' = "open"
Settle  == result = "open" /\ result' = "frozen"
Publish == result \in {"open", "frozen"} /\ result' = "published"
Void    == result' = "none"

Init == result = "none"
Next == Open \/ Settle \/ Publish \/ Void
Spec == Init /\ [][Next]_result
=============================================================================
