------------------------------- MODULE Ballot -------------------------------
(***************************************************************************)
(* What a vote promises, whoever counts it: a proposal is open until it is *)
(* accepted or turned down; only an accepted one may take effect, once;    *)
(* one that was turned down never does; and there is one at a time.  Only  *)
(* a change of level makes a proposal disappear without an outcome.        *)
(***************************************************************************)
EXTENDS Naturals

VARIABLES
  stage,      \* of the one proposal there may be
  effects,    \* how often it took effect
  leaving     \* the level is about to change

Stages == {"none", "open", "accepted", "closed"}

Init == stage = "none" /\ effects = 0 /\ leaving = FALSE

Step(from, to) == ~leaving /\ stage = from /\ stage' = to /\ leaving' \in BOOLEAN

Propose == Step("none", "open") /\ effects' = 0

Accept  == Step("open", "accepted") /\ UNCHANGED effects

Enact   == Step("accepted", "closed") /\ effects = 0 /\ effects' = 1

Reject  == \E from \in {"open", "accepted"} :
             Step(from, "closed") /\ UNCHANGED effects

Close   == Step("closed", "none") /\ effects' = 0

\* Something else decides to leave the level.
Depart  == ~leaving /\ leaving' = TRUE /\ UNCHANGED <<stage, effects>>

NewLevel == leaving /\ leaving' = FALSE /\ stage' = "none" /\ effects' = 0

Next == Propose \/ Accept \/ Enact \/ Reject \/ Close \/ Depart \/ NewLevel

Spec == Init /\ [][Next]_<<stage, effects, leaving>>
=============================================================================
