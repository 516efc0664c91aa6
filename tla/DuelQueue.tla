----------------------------- MODULE DuelQueue -----------------------------
(***************************************************************************)
(* Who plays a duel (mm_duel.cpp, and what SetTeam, ClientBegin,           *)
(* ClientDisconnect, the warmup tick, the exit rules and the level change  *)
(* do to its roster): two active slots, a line of contenders that outlives *)
(* the maps, and a verdict that sends the loser to its end.                *)
(*                                                                         *)
(* A slot stands for the client in it.  Scores are abstracted: whoever can *)
(* lose may.  Who is idle may be asked to join at every map load, not only *)
(* the first.  Left out: reconnect reservations (Ghost has them), accounts *)
(* (an identity is the slot and its generation), locks and join limits,    *)
(* and the administrator's setteam, which puts in whom it likes.           *)
(***************************************************************************)
EXTENDS Integers, FiniteSets

CONSTANTS
  Slots,      \* the numbers of the client slots
  Bots,       \* those that hold bots
  Nobody,     \* no loser
  MaxOrder    \* the largest queue number: 2^64 - 1 in the code

ASSUME SlotsAssumption == Slots \subseteq Nat /\ IsFiniteSet(Slots) /\ Bots \subseteq Slots
ASSUME NobodyAssumption == Nobody \notin Slots
ASSUME OrderAssumption == MaxOrder \in Nat /\ MaxOrder > Cardinality(Slots)

VARIABLES
  conn,       \* slot: gone, loading (the map) or in
  playing,    \* slots whose session is on TEAM_FREE
  queued,     \* sess.duel_queued
  order,      \* sess.duel_queue_order, 0 for none
  nextOrder,  \* next_duel_queue_order
  phase,      \* match_state and the intermission clocks
  verdict,    \* final_duel_result: none, void, draw or won
  loser,      \* final_duel_result.loser, its slot
  loserIs,    \* its generation: same, other, or unknown after a map load
  inFrame,    \* has a frame queued bots and not yet moved the line
  lost,       \* history: queued, but skipped when numbers were given anew
  credited    \* history: wins given since the match or the map began

sessions == <<playing, queued, order, nextOrder, lost>>
result   == <<verdict, loser, loserIs, credited>>
vars     == <<conn, phase, inFrame, sessions, result>>

Phases == {"open", "countdown", "live", "queued", "over", "left"}

Here == {c \in Slots : conn[c] = "in"}

\* AuthoritativeDuelParticipantState, for a slot without a reservation.
Duelists == playing \intersect Here

OccupiedSlots == Cardinality(Duelists)

\* active_clients() with duel_queued.
InLine == queued \intersect Here

\* Mutant: one duelist is enough to close the roster.
QueuesBehindOne == OccupiedSlots >= 1 \/ phase # "open"

JoinWouldQueue == OccupiedSlots >= 2 \/ phase # "open"

\* MM_DuelQueueOrderBefore; zero is older than every number.
OrderBefore(a, b) ==
  IF order[a] # order[b]
  THEN order[a] = 0 \/ (order[b] # 0 /\ order[a] < order[b])
  ELSE a < b

(***************************************************************************)
(* Teams.                                                                  *)
(***************************************************************************)
\* Mutant: the queue is renumbered without being sorted.
RankBySlot(c, d) == 1 + Cardinality({e \in InLine \union {c} : e < d})

\* Its place in the line, when the numbers are given out anew.  The number
\* of c, whose duel_queued has just been set, is still 0 and sorts first.
Rank(c, d) == 1 + Cardinality({e \in InLine \union {c} : OrderBefore(e, d)})

NextNumber(c, highest) ==
  /\ highest < MaxOrder
  /\ nextOrder' = highest + 1
  /\ order' = [order EXCEPT ![c] = highest + 1]
  /\ UNCHANGED lost

NewNumbers(c) ==
  LET last == Cardinality(InLine \union {c}) + 1 IN
  /\ nextOrder' = last
  /\ order' = [d \in Slots |-> IF d = c THEN last
                               ELSE IF d \in InLine THEN Rank(c, d) ELSE order[d]]
  /\ lost' = lost \union (queued \ Here)

\* AllocateQueueOrder: the highest number known, and one more.
AllocateQueueOrder(c) ==
  \E highest \in {nextOrder} \union {order[d] : d \in InLine} :
    /\ nextOrder <= highest /\ \A d \in InLine : order[d] <= highest
    /\ \/ NextNumber(c, highest)
       \/ highest = MaxOrder /\ NewNumbers(c)

Enqueue(c) ==
  /\ playing' = playing \ {c} /\ queued' = queued \union {c}
  /\ AllocateQueueOrder(c)

Dequeue(c) ==
  /\ queued' = queued \ {c}
  /\ order' = [order EXCEPT ![c] = 0] /\ lost' = lost \ {c} /\ UNCHANGED nextOrder

Enter(c) == Dequeue(c) /\ playing' = playing \union {c}

Sit(c) == Dequeue(c) /\ playing' = playing \ {c}

\* SetTeam(TEAM_FREE) by a spectator who is not queued.
RequestPlay(c) ==
  \/ JoinWouldQueue /\ Enqueue(c)
  \/ ~JoinWouldQueue /\ Enter(c)

(***************************************************************************)
(* The verdict.                                                            *)
(***************************************************************************)
ResetFinalResult == verdict' = "none" /\ loser' = Nobody /\ loserIs' = "same"

Freeze(v, c, is) ==
  /\ verdict' = v /\ loser' = c /\ loserIs' = is
  /\ credited' = IF v = "won" THEN credited + 1 ELSE credited

\* Mutant: a frozen verdict is given again.
CommitAgain(v, c, is) == Freeze(v, c, is)

\* CommitFinalDuelResult and the void of MatchEnd_AdjustScores: once frozen,
\* a verdict stays.
Commit(v, c, is) ==
  \/ verdict # "none" /\ UNCHANGED result
  \/ verdict = "none" /\ Freeze(v, c, is)

MatchEndAdjustScores ==
  \/ OccupiedSlots # 2 /\ Commit("void", Nobody, "same")
  \/ /\ OccupiedSlots = 2
     /\ Commit("draw", Nobody, "same") \/ \E c \in Duelists : Commit("won", c, "same")

\* SettleDeparture: one of two duelists who leaves a match forfeits it.
Forfeits(c) == phase = "live" /\ c \in Duelists /\ OccupiedSlots = 2

SettleDeparture(c) ==
  \/ Forfeits(c) /\ Commit("won", c, "same") /\ phase' = "queued"
  \/ ~Forfeits(c) /\ UNCHANGED <<phase, result>>

(***************************************************************************)
(* Between frames: the engine and the clients.                             *)
(***************************************************************************)
Between == ~inFrame /\ phase # "left" /\ UNCHANGED inFrame

Connect(c) ==
  /\ Between /\ conn[c] = "gone"
  /\ conn' = [conn EXCEPT ![c] = "loading"]
  /\ UNCHANGED <<sessions, phase, result>>

\* ClientBegin: a retained client keeps team and place, and a spectator may
\* join by himself.
Begin(c) ==
  /\ Between /\ conn[c] = "loading"
  /\ conn' = [conn EXCEPT ![c] = "in"]
  /\ \/ UNCHANGED sessions
     \/ c \notin playing \union queued /\ RequestPlay(c)
  /\ UNCHANGED <<phase, result>>

\* ClientDisconnect: the slot gets another generation, after a duelist has
\* lost as what he was.  Nothing reads the session of an empty slot.
Disconnect(c) ==
  /\ Between /\ conn[c] # "gone" /\ Sit(c)
  /\ conn' = [conn EXCEPT ![c] = "gone"]
  /\ \/ Forfeits(c) /\ Commit("won", c, "other") /\ phase' = "queued"
     \/ /\ ~Forfeits(c) /\ UNCHANGED <<phase, verdict, loser, credited>>
        /\ loserIs' = IF loser = c /\ loserIs = "same" THEN "other" ELSE loserIs

\* The commands of people: play, spectate, forfeit.
Join(c) ==
  /\ Between /\ c \in Here \ (Bots \union playing \union queued)
  /\ RequestPlay(c)
  /\ UNCHANGED <<conn, phase, result>>

Spectate(c) ==
  /\ Between /\ c \in Here \ Bots
  /\ SettleDeparture(c) /\ Sit(c)
  /\ UNCHANGED conn

Forfeit(c) ==
  /\ Between /\ Forfeits(c) /\ c \notin Bots
  /\ verdict = "none" /\ Commit("won", c, "same") /\ phase' = "queued"
  /\ UNCHANGED <<conn, sessions>>

MatchStart ==
  /\ phase \in {"open", "countdown"} /\ OccupiedSlots = 2
  /\ phase' = "live" /\ ResetFinalResult /\ credited' = 0

\* Administrators and votes start, reset and end a match, or change the map.
ForceStart == Between /\ MatchStart /\ UNCHANGED <<conn, sessions>>

MatchReset ==
  /\ Between /\ phase' = "open" /\ ResetFinalResult /\ credited' = 0
  /\ UNCHANGED <<conn, sessions>>

MatchEnd == MatchEndAdjustScores /\ phase' = "over"

NextMap == Between /\ MatchEnd /\ UNCHANGED <<conn, sessions>>

\* SpawnEntities: every entity is new and its generation starts at zero,
\* everybody loads, and neither the sessions nor the verdict are touched.
MapLoad ==
  /\ ~inFrame /\ UNCHANGED inFrame
  /\ conn' = [c \in Slots |-> IF conn[c] = "in" THEN "loading" ELSE conn[c]]
  /\ phase' = "open" /\ credited' = 0
  /\ loserIs' = IF verdict = "won" THEN "unknown" ELSE loserIs
  /\ UNCHANGED <<sessions, verdict, loser>>

\* RemoveLoser moves the loser to the end of the line if the slot still has
\* his generation and he still plays, and forgets the verdict.
RemoveLoser ==
  \/ verdict # "won" /\ UNCHANGED <<sessions, verdict, loser, loserIs>>
  \/ /\ verdict = "won" /\ loser \in Duelists /\ loserIs \in {"same", "unknown"}
     /\ Enqueue(loser) /\ ResetFinalResult
  \/ /\ verdict = "won" /\ (loser \in Duelists => loserIs \in {"other", "unknown"})
     /\ ResetFinalResult /\ UNCHANGED sessions

\* The gamemap command that ExitLevel issues is the next that is executed.
ExitLevel ==
  /\ Between /\ phase = "over" /\ phase' = "left"
  /\ RemoveLoser
  /\ UNCHANGED <<conn, credited>>

(***************************************************************************)
(* The frame: bots queue, the line moves, the match ticks, the rules end   *)
(* it.                                                                     *)
(***************************************************************************)
Idlers ==
  {c \in Bots \intersect Here :
     /\ c \notin playing \union queued
     /\ phase \notin {"queued", "over"}}

\* QueueSpectatorBots, in the order of the slots.
QueueBot(c) ==
  /\ phase # "left" /\ c \in Idlers /\ \A d \in Idlers : c <= d
  /\ Enqueue(c) /\ inFrame' = TRUE
  /\ UNCHANGED <<conn, phase, result>>

AddPlayer(c) ==
  /\ phase # "left" /\ Idlers = {} /\ ~JoinWouldQueue
  /\ c \in InLine /\ \A d \in InLine \ {c} : OrderBefore(c, d)
  /\ Enter(c) /\ inFrame' = FALSE
  /\ UNCHANGED <<conn, phase, result>>

\* The rest of TickWarmupState: an empty roster ends whatever there was; a
\* countdown needs both duelists.
Tick ==
  /\ phase # "left" /\ Idlers = {} /\ (JoinWouldQueue \/ InLine = {})
  /\ \/ /\ Duelists = {} /\ phase \notin {"queued", "over"}
        /\ phase' = "open" /\ UNCHANGED result
     \/ /\ phase = "open" /\ OccupiedSlots = 2
        /\ phase' = "countdown" /\ UNCHANGED result
     \/ phase = "countdown" /\ phase' = "open" /\ UNCHANGED result
     \/ MatchStart
     \/ UNCHANGED <<phase, result>>
  /\ inFrame' = FALSE /\ UNCHANGED <<conn, sessions>>

\* CheckDMExitRules, which the frame calls last.  It waits after the start
\* of a match, while nothing is decided, and before the scoreboard.
ExitRules ==
  /\ Between
  /\ \/ phase = "live" /\ MatchEndAdjustScores /\ phase' = "queued"
     \/ phase = "queued" /\ MatchEnd
  /\ UNCHANGED <<conn, sessions>>

Frame ==
  \/ \E c \in Slots : QueueBot(c) \/ AddPlayer(c)
  \/ Tick \/ ExitRules

Client(c) ==
  Connect(c) \/ Begin(c) \/ Disconnect(c) \/ Join(c) \/ Spectate(c) \/ Forfeit(c)

Server == ForceStart \/ MatchReset \/ NextMap \/ ExitLevel \/ MapLoad

Init ==
  /\ conn = [c \in Slots |-> "gone"]
  /\ playing = {} /\ queued = {} /\ lost = {}
  /\ order = [c \in Slots |-> 0] /\ nextOrder = 0
  /\ phase = "open" /\ inFrame = FALSE
  /\ verdict = "none" /\ loser = Nobody /\ loserIs = "same" /\ credited = 0

Next == Frame \/ Server \/ \E c \in Slots : Client(c)

Spec == Init /\ [][Next]_vars

\* The server keeps running frames.
FairSpec == Spec /\ WF_vars(Frame)
=============================================================================
