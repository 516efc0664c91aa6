----------------------------- MODULE GhostFair -----------------------------
(* Ghost with the server's clock: frames keep coming while G_RunFrame has  *)
(* a reason not to skip them, whatever the clients and the match do, and a *)
(* queued intermission begins.                                             *)
EXTENDS Ghost

VARIABLE odd     \* the parity of the frame number

FairInit == Init /\ odd = FALSE

\* MM_Ghost_HasActiveReservations: a snapshot, stale or not, or a client
\* whose ClientBegin or deferred spawn is still to come.
HasActiveReservations ==
  \/ \E i \in Slots : w.snap[i].valid
  \/ \E s \in Slots :
       /\ w.client[s].conn
       /\ \/ FallbackPending(w, s)
          \/ s \in w.abort /\ (~w.client[s].spawned \/ w.client[s].limbo)

FrameRuns ==
  \/ \E s \in Slots : Active(w, s) /\ w.client[s].spawned
  \/ w.timeout.left > 0 \/ HasActiveReservations

\* Only whether a generation is the present one of its slot is ever asked,
\* so that the generations of slot s can begin again at 1 when they reach
\* MaxGen: here nothing bounds how often a player drops.
Renumber(s) ==
  LET now == w.client[s].gen
      again(gen) == IF gen = now THEN 1 ELSE 0
  IN
  /\ now + 1 >= MaxGen /\ now > 1
  /\ w' = [w EXCEPT
       !.client[s].gen = 1,
       !.fall[s] = IF @.valid THEN [@ EXCEPT !.gen = again(@)] ELSE @,
       !.snap = [i \in Slots |-> IF @[i].valid /\ @[i].target = s
                                 THEN [@[i] EXCEPT !.gen = again(@)] ELSE @[i]]]

FairNext ==
  \/ \E blocked \in Crowds :
       \/ FrameRuns /\ Frame(blocked) /\ odd' = ~odd
       \/ (ClientSteps(blocked) \/ MatchSteps(blocked)) /\ UNCHANGED odd
  \/ \E s \in Slots : Renumber(s) /\ UNCHANGED odd

FairSpec ==
  /\ FairInit /\ [][FairNext]_<<w, odd>>
  /\ WF_odd(FrameRuns /\ odd' = ~odd) /\ WF_w(BeginIntermission)

Held(i) == w.snap[i].valid /\ w.snap[i].phase # "AwaitingBegin"

\* CancelPendingRestore: whoever waits for his state drops once more.
DropsAgain(i) ==
  /\ Held(i) /\ w.snap[i].phase = "Reinstating" /\ w.client[w.snap[i].target].conn
  /\ w'.snap[i].valid /\ w'.snap[i].phase = "Reserved"
  /\ ~w'.client[w.snap[i].target].conn

\* Every reservation is resolved: given back, handed to ClientBegin, or
\* ended with its slot free for others; neither blocked spawn points nor
\* claims dropped before ClientBegin nor the end of the match nor a server
\* that has emptied keep it for ever.  Only its owner can, by dropping again
\* and again out of a reinstatement, during which the reservation does not
\* grow older.
ReservationEnds ==
  \A i \in Slots : (Held(i) ~> ~Held(i)) \/ []<><<DropsAgain(i)>>_w
=============================================================================
