--------------------------- MODULE DuelQueueProps ---------------------------
(***************************************************************************)
(* What the duel queue promises.                                           *)
(***************************************************************************)
EXTENDS DuelQueue

TypeOK ==
  /\ conn \in [Slots -> {"gone", "loading", "in"}]
  /\ playing \subseteq Slots /\ queued \subseteq Slots
  /\ lost \subseteq queued
  /\ order \in [Slots -> 0..MaxOrder] /\ nextOrder \in 0..MaxOrder
  /\ phase \in Phases /\ inFrame \in BOOLEAN
  /\ verdict \in {"none", "void", "draw", "won"}
  /\ loser \in Slots \union {Nobody} /\ loserIs \in {"same", "other", "unknown"} /\ credited \in Nat

Waiting == queued \ lost

Ahead == [c \in Slots |->
            IF c \in Waiting THEN {d \in Waiting : OrderBefore(d, c)} ELSE {}]

TheLine == INSTANCE Line
  WITH People <- Slots, waiting <- Waiting, ahead <- Ahead, here <- Here

\* The duel queue is a line: numbers, slots, joins, promotions, level changes
\* and the renumbering when the numbers run out keep everybody's place, and
\* a promotion never passes somebody who came earlier and is here.
KeepsLine == TheLine!Spec

\* Forfeit, departure, limit, next map and the intermission that follows may
\* each settle a duel: it is credited to a winner at most once.
OneVerdict == credited <= 1

Vacant == phase = "open" /\ OccupiedSlots < 2 /\ InLine # {}

\* As long as somebody waits, a free slot does not stay free.
VacancyFills == Vacant ~> ~Vacant

\* The manual's promise: there are never more than two duelists.
TwoSlots == OccupiedSlots <= 2
=============================================================================
