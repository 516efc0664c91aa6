----------------------------- MODULE HostBundle -----------------------------
(***************************************************************************)
(* What an update owes the operator of a server, whatever it does to get   *)
(* there: the configs, map catalog and map pool that refer to each other   *)
(* (the host bundle) are replaced together or not at all.  In the middle   *)
(* of an update the bundle may be mixed.  It stays mixed only if the       *)
(* machine or the updater dies, or if the updater says that it could not   *)
(* restore it.                                                             *)
(***************************************************************************)
VARIABLES
  stage,     \* of the bundle, while an update works on it
  report     \* what the last update said

Stages == {"settled", "before", "mixed", "after"}

Init == stage = "settled" /\ report = "none"

\* An update is asked for.
Ask == stage = "settled" /\ report' = "none" /\ UNCHANGED stage

\* It looks at the bundle; a reinstall finds it already in place.
Begin ==
  /\ stage = "settled"
  /\ stage' \in {"before", "after"} /\ UNCHANGED report

Work ==
  /\ stage # "settled"
  /\ stage' \in {"before", "mixed", "after"} /\ UNCHANGED report

Succeed == stage = "after" /\ stage' = "settled" /\ report' = "ok"

\* A failure is reported with the bundle whole: untouched, old or new.
Fail == stage # "mixed" /\ stage' = "settled" /\ report' = "failed"

GiveUp == stage # "settled" /\ stage' = "settled" /\ report' = "unrestored"

Crash == stage' = "settled" /\ report' = "none"

Next == Ask \/ Begin \/ Work \/ Succeed \/ Fail \/ GiveUp \/ Crash

Spec == Init /\ [][Next]_<<stage, report>>
=============================================================================
