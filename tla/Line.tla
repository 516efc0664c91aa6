-------------------------------- MODULE Line --------------------------------
(***************************************************************************)
(* What a waiting line promises, whoever keeps it: who queues comes last,  *)
(* and nobody is served while somebody ahead of him is here.  People may   *)
(* go away and come back without losing their place.  A place is lost only *)
(* if the numbers run out while its owner is away.  The line promises      *)
(* nothing about who plays without having queued.                          *)
(***************************************************************************)
CONSTANT People

VARIABLES
  waiting,   \* those with a place
  ahead,     \* for each of them, who came before and still waits
  here,      \* those who could be served now
  playing    \* those who have been served, or never queued

vars == <<waiting, ahead, here, playing>>

Init ==
  /\ waiting = {} /\ here = {} /\ playing = {}
  /\ ahead = [p \in People |-> {}]

\* Those who wait move up when those who left were ahead of them.
CloseUp(left) ==
  ahead' = [q \in People |-> IF q \in left THEN {} ELSE ahead[q] \ left]

\* p joins the end of the line; those in "gone" have lost their place.
Append(p, gone) ==
  /\ p \notin waiting
  /\ waiting' = (waiting \ gone) \union {p}
  /\ ahead' = [q \in People |->
                 IF q = p THEN waiting \ gone
                 ELSE IF q \in gone THEN {} ELSE ahead[q] \ gone]
  /\ here' = here \union {p} /\ playing' = playing \ {p}

Queue(p) == Append(p, {})

\* The numbers are given out anew, and only those here get one.
Renumber(p) == Append(p, waiting \ here)

Serve(p) ==
  /\ p \in waiting \intersect here
  /\ ahead[p] \intersect here = {}
  /\ waiting' = waiting \ {p} /\ CloseUp({p})
  /\ playing' = playing \union {p} /\ UNCHANGED here

Leave(p) ==
  /\ p \in waiting
  /\ waiting' = waiting \ {p} /\ CloseUp({p})
  /\ here' \in {here, here \ {p}} /\ UNCHANGED playing

\* Whatever those do who do not wait; and anybody may go away and return.
Roam ==
  /\ UNCHANGED <<waiting, ahead>>
  /\ here' \in SUBSET People
  /\ playing' \in SUBSET (People \ waiting)

Next == Roam \/ \E p \in People : Queue(p) \/ Renumber(p) \/ Serve(p) \/ Leave(p)

Spec == Init /\ [][Next]_vars
=============================================================================
