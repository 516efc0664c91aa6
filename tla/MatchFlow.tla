----------------------------- MODULE MatchFlow -----------------------------
(***************************************************************************)
(* The singleton match controller of MuffMode: the state machine that      *)
(* takes a level from an empty server through warmup, ready-up, countdown, *)
(* play, the queued end of the match and the intermission to the next map, *)
(* together with everything that changes it between two server frames:     *)
(* clients arriving, leaving, switching team, readying, calling timeouts,  *)
(* locking teams, and the administrator's commands.                        *)
(*                                                                         *)
(* The game is single threaded.  One server frame (G_RunFrame_) and one    *)
(* client or engine callback are each an atomic step, but inside a step    *)
(* the C++ functions call each other: nearly every change of the roster    *)
(* ends in CalculateRanks, and that runs the exit rules.  So each function *)
(* is an operator from a world to a world, w = [lv, cl], and an action     *)
(* composes them in the order of the code.                                 *)
(*                                                                         *)
(* Deadlines are kept as the number of frames left (0: due) and ages as    *)
(* the number of frames passed, saturating where the code stops caring, so *)
(* that no bound on level.time is needed.  Unset is the code's 0_sec.      *)
(***************************************************************************)
EXTENDS Integers, FiniteSets, FiniteSetsExt

CONSTANTS
  Humans, Bots,        \* client slots, by kind of connection
  Admins,              \* the humans holding sess.admin
  NoClient,            \* the null gentity_t pointer
  Teamplay,            \* Teams(): TDM and CTF, otherwise free for all
  MinPlayers,          \* minplayers
  ForceBalance,        \* g_teamplay_force_balance, with auto_balance 0
  DoWarmup,            \* g_dm_do_warmup
  DoReadyup,           \* g_dm_do_readyup
  ReadyPercent,        \* 100 * g_warmup_ready_percentage
  AllowNoHumans,       \* g_dm_allow_no_humans
  DelayFrames,         \* 5 s before warmup proper
  CountdownFrames,     \* g_warmup_countdown, 0 for none
  CancelFrames,        \* 300 ms of grace before a countdown is cancelled
  TimeoutFrames,       \* g_dm_timeout_length, 0 for disabled
  ResumeFrames,        \* g_dm_timeout_resume_countdown, 0 for none
  QueueFrames,         \* 1 s between the end of a match and intermission
  FloorFrames,         \* 5 s nobody can shorten in intermission
  ExitFrames,          \* 10 s from the first ready bot to the exit
  TimeLimit,           \* timelimit, 0 for none
  TieFrames,           \* g_dm_tie_max_time, 0 for none
  MapExits,            \* the map holds a target_changelevel players can reach
  CvarChanges          \* g_match_lock, g_warmup_countdown may be changed live

ASSUME ClientsAssumption ==
  /\ IsFiniteSet(Humans) /\ IsFiniteSet(Bots)
  /\ Humans \cap Bots = {}
  /\ Admins \subseteq Humans
  /\ NoClient \notin Humans \cup Bots

ASSUME SwitchesAssumption ==
  /\ Teamplay \in BOOLEAN /\ ForceBalance \in BOOLEAN
  /\ DoWarmup \in BOOLEAN /\ DoReadyup \in BOOLEAN
  /\ AllowNoHumans \in BOOLEAN
  /\ MapExits \in BOOLEAN /\ CvarChanges \in BOOLEAN

ASSUME NumbersAssumption ==
  /\ MinPlayers \in Nat
  /\ ReadyPercent \in 0..100
  /\ CountdownFrames \in Nat /\ TimeoutFrames \in Nat /\ ResumeFrames \in Nat
  /\ TimeLimit \in Nat /\ TieFrames \in Nat
  /\ DelayFrames \in Nat \ {0} /\ CancelFrames \in Nat \ {0}
  /\ QueueFrames \in Nat \ {0} /\ FloorFrames \in Nat \ {0}
  /\ ExitFrames \in Nat \ {0}

-----------------------------------------------------------------------------
(* Data.                                                                    *)

Clients == Humans \cup Bots

\* match_state_t, in the order the code compares with < and >.
MATCH_NONE             == 0
MATCH_WARMUP_DELAYED   == 1
MATCH_WARMUP_DEFAULT   == 2
MATCH_WARMUP_READYUP   == 3
MATCH_COUNTDOWN        == 4
MATCH_IN_PROGRESS      == 5
MATCH_ENDED            == 6

PlayTeams == IF Teamplay THEN {"red", "blue"} ELSE {"free"}
Teams     == PlayTeams \cup {"spectator"}

Unset  == -1
Timers == Nat \cup {Unset}

\* Who is ahead, as far as the exit rules can tell: nobody, somebody, or
\* somebody at the score or mercy limit.
Scores == {"tied", "led", "decided"}

\* The statistics of the match: level.match.collecting and finalized, and
\* whether match_end_real_time_ms froze the result.
Records == {"idle", "live", "frozen", "final"}

Level ==
  [ match        : MATCH_NONE..MATCH_ENDED,   \* level.match_state
    timer        : Nat,                       \* level.match_state_timer
    cancel       : Timers,                    \* match_cancel_delay_timer
    auto         : SUBSET PlayTeams,          \* automatic_match_locked
    locked       : SUBSET PlayTeams,          \* locked, by captain or admin
    lockCvar     : BOOLEAN,                   \* g_match_lock
    lockStale    : BOOLEAN,                   \* its change not yet applied
    countStale   : BOOLEAN,                   \* g_warmup_countdown's likewise
    timeout      : Nat,                       \* timeout_in_place
    caller       : Clients \cup {NoClient},   \* timeout_ent
    resuming     : BOOLEAN,                   \* timeout_resuming
    queued       : Timers,                    \* intermission_queued
    inter        : Timers,                    \* age of intermission_time
    exit         : BOOLEAN,                   \* intermission_exit
    exitTimer    : Timers,                    \* exit_time
    readyToExit  : BOOLEAN,                   \* ready_to_exit
    changing     : BOOLEAN,                   \* a gamemap command is pending
    clock        : Nat,                       \* age of match_time
    tied         : Timers,                    \* tied_overtime_start
    score        : Scores,
    open         : BOOLEAN,                   \* s_match_open
    stats        : Records ]

Client ==
  [ state       : {"off", "loading", "on"},   \* pers.connected, pers.spawned
    team        : Teams,                      \* sess.team
    ready       : BOOLEAN,                    \* resp.ready
    timeoutUsed : BOOLEAN ]                   \* pers.timeout_used

World == [lv : Level, cl : [Clients -> Client]]

VARIABLES
  level,      \* level_locals_t, the part of it the controller owns
  client,     \* gclient_t of every slot
  calledIn    \* history: who was granted a timeout since the match began

vars == <<level, client, calledIn>>

Here == [lv |-> level, cl |-> client]

\* An operation that touches only the level.
At(w, lv) == [lv |-> lv, cl |-> w.cl]

Present(w) == {c \in Clients : w.cl[c].state = "on"}
Playing(w) == {c \in Present(w) : w.cl[c].team \in PlayTeams}
Size(w, t) == Cardinality({c \in Present(w) : w.cl[c].team = t})
Spread(w)  == LET d == Size(w, "red") - Size(w, "blue")
              IN IF d < 0 THEN -d ELSE d
Opponent(t) == IF t = "red" THEN "blue" ELSE "red"

Humanless(w) == ~AllowNoHumans /\ Playing(w) \cap Humans = {}

-----------------------------------------------------------------------------
(* Team locks.                                                              *)

AutomaticLockPhase(lv) ==
  lv.match \in {MATCH_COUNTDOWN, MATCH_IN_PROGRESS, MATCH_ENDED}

\* SynchronizeAutomaticMatchLocksForCurrentPhase: adopt the cvar's current
\* value and recompute every automatic lock, discarding per-team unlocks.
Synchronize(lv) ==
  [lv EXCEPT !.lockStale = FALSE,
             !.auto = IF lv.lockCvar /\ AutomaticLockPhase(lv)
                      THEN PlayTeams ELSE {}]

\* Mutant: the locks are recomputed whether the cvar changed or not.
ReconcileAlways(lv) == Synchronize(lv)

\* ReconcileAutomaticMatchLocks: the same, but only after a cvar change.
Reconcile(lv) == IF lv.lockStale THEN Synchronize(lv) ELSE lv

IsTeamLocked(lv, t) == t \in lv.locked \cup Reconcile(lv).auto

-----------------------------------------------------------------------------
(* The operations on a match.                                               *)

UnReadyAll(cl) ==
  [c \in Clients |->
     IF cl[c].state = "on" THEN [cl[c] EXCEPT !.ready = FALSE] ELSE cl[c]]

\* ResetClientMatchScopedState, after the UnReadyAll that precedes it.
ResetClientMatchScopedState(cl) ==
  [c \in Clients |->
     IF cl[c].state = "on"
     THEN [cl[c] EXCEPT !.ready = FALSE, !.timeoutUsed = FALSE] ELSE cl[c]]

\* Mutant: the client who called the timeout is not forgotten.
ResetKeepsCaller(lv) ==
  [lv EXCEPT !.tied = Unset, !.cancel = Unset, !.timeout = 0,
             !.resuming = FALSE, !.auto = {}]

ResetMatchScopedTransientState(lv) ==
  [lv EXCEPT !.tied = Unset, !.cancel = Unset, !.timeout = 0,
             !.caller = NoClient, !.resuming = FALSE, !.auto = {}]

\* Mutant: the scoreboard does not keep a match from starting.
CanStartUnderScoreboard(w) ==
  w.lv.queued = Unset /\ w.lv.match <= MATCH_COUNTDOWN /\ Playing(w) # {}

SingletonMatchCanStart(w) ==
  /\ w.lv.queued = Unset /\ w.lv.inter = Unset
  /\ w.lv.match <= MATCH_COUNTDOWN
  /\ Playing(w) # {}

\* Match_Start: a refused start changes nothing.
MatchStart(w) ==
  IF SingletonMatchCanStart(w)
  THEN [ lv |-> Synchronize(
                  [ResetMatchScopedTransientState(w.lv) EXCEPT
                     !.clock = 0, !.match = MATCH_IN_PROGRESS, !.timer = 0,
                     !.score = "tied", !.open = TRUE, !.stats = "live"]),
         cl |-> ResetClientMatchScopedState(w.cl) ]
  ELSE w

\* Mutants: a reset that forgets the queued intermission, and one that
\* leaves the statistics as they are.
ResetKeepsQueue(w) ==
  [ lv |-> Synchronize(
             [ResetMatchScopedTransientState(w.lv) EXCEPT
                !.open = FALSE, !.stats = "idle", !.locked = {}, !.clock = 0,
                !.match = MATCH_WARMUP_DEFAULT, !.timer = 0,
                !.countStale = FALSE, !.exit = FALSE,
                !.inter = Unset, !.score = "tied"]),
    cl |-> ResetClientMatchScopedState(w.cl) ]

ResetKeepsStats(w) ==
  [ lv |-> Synchronize(
             [ResetMatchScopedTransientState(w.lv) EXCEPT
                !.open = FALSE, !.locked = {}, !.clock = 0,
                !.match = MATCH_WARMUP_DEFAULT, !.timer = 0,
                !.countStale = FALSE, !.queued = Unset, !.exit = FALSE,
                !.inter = Unset, !.score = "tied"]),
    cl |-> ResetClientMatchScopedState(w.cl) ]

\* Match_Reset.  The exit rules that run while players are respawned, and
\* at its end, find nothing that this does not overwrite.
MatchReset(w) ==
  [ lv |-> Synchronize(
             [ResetMatchScopedTransientState(w.lv) EXCEPT
                !.open = FALSE, !.stats = "idle", !.locked = {}, !.clock = 0,
                !.match = MATCH_WARMUP_DEFAULT, !.timer = 0,
                !.countStale = FALSE, !.queued = Unset, !.exit = FALSE,
                !.inter = Unset, !.score = "tied"]),
    cl |-> ResetClientMatchScopedState(w.cl) ]

\* MM_MatchStats_FreezeResultTime and MM_MatchStats_End, each exact-once.
Freeze(stats) == IF stats = "live" THEN "frozen" ELSE stats
Export(stats) == IF stats \in {"live", "frozen"} THEN "final" ELSE stats

\* QueueIntermission without reset: the result is settled now, the
\* scoreboard comes QueueFrames later.
QueueIntermission(lv) ==
  IF lv.queued # Unset \/ lv.match < MATCH_IN_PROGRESS
  THEN lv
  ELSE [lv EXCEPT !.tied = Unset, !.stats = Freeze(lv.stats), !.open = FALSE,
                  !.match = MATCH_ENDED, !.timer = 0, !.clock = 0,
                  !.queued = QueueFrames]

\* QueueIntermission with reset, the answer to imbalanced teams.
QueueReset(w) ==
  IF w.lv.queued # Unset \/ w.lv.match < MATCH_IN_PROGRESS
  THEN w ELSE MatchReset(w)

BeginIntermission(lv) ==
  IF lv.inter # Unset
  THEN lv
  ELSE [lv EXCEPT !.stats = Export(lv.stats), !.open = FALSE, !.inter = 0,
                  !.exitTimer = Unset, !.readyToExit = FALSE, !.exit = FALSE]

\* Match_End: also settles when it is reached without QueueIntermission.
MatchEnd(lv) ==
  BeginIntermission([lv EXCEPT !.match = MATCH_ENDED, !.timer = 0,
                               !.stats = Export(lv.stats), !.open = FALSE])

\* ExitLevel: the gamemap command is only queued here.
ExitLevel(lv) ==
  [lv EXCEPT !.exit = FALSE, !.inter = Unset, !.changing = TRUE]

-----------------------------------------------------------------------------
(* CheckDMExitRules, first rule that applies.                               *)

\* Mutant: a scoreboard without players waits for one to get ready.
ExitNeedsReadyPlayer(w) ==
  LET lv      == w.lv
      ready   == Playing(w) \cap Bots
      polled  == IF lv.readyToExit THEN lv
                 ELSE [lv EXCEPT !.readyToExit = TRUE,
                                 !.exitTimer = ExitFrames]
  IN IF lv.inter < FloorFrames /\ lv.exitTimer = Unset THEN lv
     ELSE IF ready = {} THEN [lv EXCEPT !.readyToExit = FALSE]
     ELSE IF polled.exitTimer > 0 THEN polled
     ELSE ExitLevel(polled)

\* CheckDMIntermissionExit: playing bots are always ready, humans never.
CheckDMIntermissionExit(w) ==
  LET lv      == w.lv
      ready   == Playing(w) \cap Bots
      waiting == Playing(w) \cap Humans
      polled  == IF lv.readyToExit THEN lv
                 ELSE [lv EXCEPT !.readyToExit = TRUE,
                                 !.exitTimer = ExitFrames]
  IN IF lv.inter < FloorFrames /\ lv.exitTimer = Unset THEN lv
     ELSE IF waiting = {} THEN ExitLevel(lv)
     ELSE IF ready = {} THEN [lv EXCEPT !.readyToExit = FALSE]
     ELSE IF polled.exitTimer > 0 THEN polled
     ELSE ExitLevel(polled)

\* The rules for a running match are reached one frame after it began.
RulesApply(lv) == lv.match >= MATCH_IN_PROGRESS /\ lv.clock > 1

TooFew(w) ==
  Humanless(w) \/ Cardinality(Playing(w)) < MinPlayers

Imbalanced(w) == Teamplay /\ ForceBalance /\ Spread(w) > 1

TimeUp(lv) == TimeLimit > 0 /\ lv.clock >= TimeLimit

\* A tie at the time limit starts the tie clock, and play goes on.
Overtime(lv) ==
  IF TieFrames > 0 /\ lv.tied = Unset THEN [lv EXCEPT !.tied = TieFrames]
  ELSE lv

Decided(lv) ==
  \/ lv.score = "decided"
  \/ TimeUp(lv) /\ (lv.score # "tied" \/ (TieFrames > 0 /\ lv.tied = 0))

\* Mutant: a queued intermission is found pending before it is found due.
QueuedNeverDue(w) ==
  IF w.lv.inter # Unset THEN At(w, CheckDMIntermissionExit(w))
  ELSE IF w.lv.queued # Unset \/ ~RulesApply(w.lv) THEN w
  ELSE IF w.lv.queued = 0 THEN At(w, MatchEnd([w.lv EXCEPT !.queued = Unset]))
  ELSE IF TooFew(w) THEN At(w, QueueIntermission(w.lv))
  ELSE IF Imbalanced(w) THEN QueueReset(w)
  ELSE IF Decided(w.lv) THEN At(w, QueueIntermission(w.lv))
  ELSE IF TimeUp(w.lv) THEN At(w, Overtime(w.lv))
  ELSE w

CheckDMExitRules(w) ==
  IF w.lv.inter # Unset THEN At(w, CheckDMIntermissionExit(w))
  ELSE IF w.lv.queued = 0 THEN At(w, MatchEnd([w.lv EXCEPT !.queued = Unset]))
  ELSE IF w.lv.queued # Unset \/ ~RulesApply(w.lv) THEN w
  ELSE IF TooFew(w) THEN At(w, QueueIntermission(w.lv))
  ELSE IF Imbalanced(w) THEN QueueReset(w)
  ELSE IF Decided(w.lv) THEN At(w, QueueIntermission(w.lv))
  ELSE IF TimeUp(w.lv) THEN At(w, Overtime(w.lv))
  ELSE w

-----------------------------------------------------------------------------
(* Team membership.                                                         *)

\* A client entering the world on a team: ClientSpawn rebuilds client->pers
\* and so forgets timeout_used; the roster change runs the exit rules.  Its
\* score starts from zero, which can move the lead of a running match.
Spawn(w, c, team, ready, s) ==
  CheckDMExitRules(
    [ lv |-> [w.lv EXCEPT !.score = s],
      cl |-> [w.cl EXCEPT ![c] = [state |-> "on", team |-> team,
                                  ready |-> ready, timeoutUsed |-> FALSE]] ])

\* AllowTeamSwitch under g_teamplay_force_balance, the client itself left
\* out of both counts: the team may be ahead by one.
FitsBalance(w, c, t) ==
  LET size(u) == Cardinality({d \in Present(w) \ {c} : w.cl[d].team = u})
  IN Teamplay /\ ForceBalance /\ t # "spectator"
       => size(t) - size(Opponent(t)) < 2

\* The refusals of SetTeam and AllowTeamSwitch for an unforced request.
MayJoin(w, c, t) ==
  /\ t # "spectator" => t # w.cl[c].team
  /\ ~IsTeamLocked(w.lv, t)
  /\ FitsBalance(w, c, t)

\* PickTeam: the smaller side; at equal sizes scores or chance choose.
PickTeam(w) ==
  {t \in PlayTeams : Teamplay => Size(w, t) <= Size(w, Opponent(t))}

\* The lead after a client comes or goes: only a running match keeps score.
Scoring(lv) ==
  lv.match = MATCH_IN_PROGRESS /\ lv.queued = Unset /\ lv.inter = Unset
Leads(lv) == IF Scoring(lv) THEN Scores ELSE {lv.score}

-----------------------------------------------------------------------------
(* TickWarmupState, one frame of the match state machine.                   *)

EffectiveMinPlayers == Max({1, MinPlayers})

WaitingBots(w) == (Present(w) \cap Bots) \ Playing(w)

\* The waiting bots a placement brings into the game: a closed team refuses.
Joining(w, p) == {b \in DOMAIN p : ~IsTeamLocked(w.lv, p[b])}

\* SetTeam(bot, PickTeam()) for every spectating bot.  One after another
\* they even the sides out, so no side that took one ends two ahead, and a
\* side that refused one, and so took none, ends no bigger than the other.
Placements(w) ==
  {p \in [WaitingBots(w) -> PlayTeams] :
     LET joined(t) == {b \in Joining(w, p) : p[b] = t}
         size(t)   == Size(w, t) + Cardinality(joined(t))
     IN Teamplay => \A b \in DOMAIN p :
          size(p[b]) <= size(Opponent(p[b]))
                          + (IF b \in Joining(w, p) THEN 1 ELSE 0)}

Placed(w, p, s) ==
  [ lv |-> [w.lv EXCEPT !.score = s],
    cl |-> [c \in Clients |->
              IF c \in Joining(w, p)
              THEN [w.cl[c] EXCEPT !.team = p[c], !.timeoutUsed = FALSE]
              ELSE w.cl[c]] ]

PullBots(w, p, s) ==
  IF Joining(w, p) = {} THEN w ELSE CheckDMExitRules(Placed(w, p, s))

\* Mutants: falling back to waiting leaves the ready flags, or the locks.
BackKeepsReady(w) ==
  At(w, IF w.lv.match > MATCH_COUNTDOWN THEN w.lv
        ELSE [w.lv EXCEPT !.match = MATCH_WARMUP_DEFAULT, !.auto = {},
                          !.timer = 0])

BackKeepsLocks(w) ==
  [ lv |-> IF w.lv.match > MATCH_COUNTDOWN THEN w.lv
           ELSE [w.lv EXCEPT !.match = MATCH_WARMUP_DEFAULT, !.timer = 0],
    cl |-> IF w.lv.match \in {MATCH_WARMUP_READYUP, MATCH_COUNTDOWN}
           THEN UnReadyAll(w.cl) ELSE w.cl ]

\* A match that falls back to waiting: whoever had readied must do so again.
BackToWaiting(w) ==
  [ lv |-> IF w.lv.match > MATCH_COUNTDOWN THEN w.lv
           ELSE [w.lv EXCEPT !.match = MATCH_WARMUP_DEFAULT, !.auto = {},
                             !.timer = 0],
    cl |-> IF w.lv.match \in {MATCH_WARMUP_READYUP, MATCH_COUNTDOWN}
           THEN UnReadyAll(w.cl) ELSE w.cl ]

\* Mutant: whoever readied and then left the game is counted all the same.
CountsSpectators(w) ==
  LET humans == Playing(w) \cap Humans
      ready  == {c \in Present(w) \cap Humans : w.cl[c].ready}
  IN ~DoReadyup
     \/ /\ Cardinality(Playing(w)) >= EffectiveMinPlayers
        /\ \/ humans = {} /\ AllowNoHumans
           \/ /\ ready # {}
              /\ 100 * Cardinality(ready) >= ReadyPercent * Cardinality(humans)

\* GetWarmupReadyCounts and ReadyConditionsMet.
ReadyConditionsMet(w) ==
  LET humans == Playing(w) \cap Humans
      ready  == {c \in humans : w.cl[c].ready}
  IN ~DoReadyup
     \/ /\ Cardinality(Playing(w)) >= EffectiveMinPlayers
        /\ \/ humans = {} /\ AllowNoHumans
           \/ /\ ready # {}
              /\ 100 * Cardinality(ready) >= ReadyPercent * Cardinality(humans)

NotEnough(w) ==
  \/ Humanless(w)
  \/ Cardinality(Playing(w)) < EffectiveMinPlayers
  \/ Teamplay /\ \E t \in PlayTeams : Size(w, t) < 1

\* Mutant: a match all players have left is dropped, not exported.
TickEmptyDrops(w, p, s) ==
  IF w.lv.queued # Unset \/ w.lv.inter # Unset THEN w
  ELSE IF w.lv.match = MATCH_NONE THEN PullBots(w, p, s)
  ELSE [ lv |-> [w.lv EXCEPT !.open = FALSE, !.match = MATCH_NONE, !.timer = 0,
                             !.cancel = Unset, !.auto = {}],
         cl |-> UnReadyAll(w.cl) ]

\* The frame of an empty roster.  A running match is settled, not dropped.
TickEmpty(w, p, s) ==
  IF w.lv.queued # Unset \/ w.lv.inter # Unset THEN w
  ELSE IF w.lv.match = MATCH_NONE THEN PullBots(w, p, s)
  ELSE [ lv |-> [w.lv EXCEPT
                   !.open = IF w.lv.match = MATCH_IN_PROGRESS THEN FALSE
                            ELSE w.lv.open,
                   !.stats = IF w.lv.match = MATCH_IN_PROGRESS
                             THEN Export(w.lv.stats) ELSE w.lv.stats,
                   !.match = MATCH_NONE, !.timer = 0, !.cancel = Unset,
                   !.auto = {}],
         cl |-> UnReadyAll(w.cl) ]

\* The countdown begins, or with no countdown the match.
StartCountdown(w) ==
  LET v == At(w, Synchronize([w.lv EXCEPT !.match = MATCH_COUNTDOWN,
                                          !.timer = CountdownFrames]))
  IN IF CountdownFrames > 0 THEN v ELSE MatchStart(v)

\* A changed g_warmup_countdown restarts the warmup.
RestartWarmup(w) ==
  LET v == BackToWaiting(w)
  IN At(v, [v.lv EXCEPT !.countStale = FALSE, !.timer = 0])

\* Mutant: a countdown that is running is started again.
TickReadyRearms(w) ==
  LET v == At(w, [w.lv EXCEPT !.cancel = Unset])
  IN IF v.lv.match > MATCH_COUNTDOWN THEN v
     ELSE IF v.lv.countStale THEN RestartWarmup(v)
     ELSE IF v.lv.match = MATCH_WARMUP_DEFAULT /\ DoReadyup THEN
            At(v, [v.lv EXCEPT !.match = MATCH_WARMUP_READYUP, !.timer = 0])
     ELSE IF ReadyConditionsMet(v) THEN StartCountdown(v)
     ELSE IF v.lv.match = MATCH_COUNTDOWN /\ v.lv.timer = 0 THEN MatchStart(v)
     ELSE v

\* A roster that suffices: ready-up, countdown, start.
TickReady(w) ==
  LET v == At(w, [w.lv EXCEPT !.cancel = Unset])
  IN IF v.lv.match > MATCH_COUNTDOWN THEN v
     ELSE IF v.lv.countStale THEN RestartWarmup(v)
     ELSE IF v.lv.match = MATCH_WARMUP_DEFAULT THEN
            IF DoReadyup
            THEN At(v, [v.lv EXCEPT !.match = MATCH_WARMUP_READYUP, !.timer = 0])
            ELSE StartCountdown(v)
     ELSE IF v.lv.match = MATCH_WARMUP_READYUP THEN
            IF ReadyConditionsMet(v) THEN StartCountdown(v) ELSE v
     ELSE IF v.lv.timer = 0 THEN MatchStart(v)
     ELSE v

\* A roster that does not: cancel, after CancelFrames of grace for
\* bot_minclients to fill the gap.
TickNotEnough(w) ==
  LET left == IF w.lv.cancel = Unset THEN CancelFrames ELSE w.lv.cancel
  IN IF left > 0 THEN At(w, [w.lv EXCEPT !.cancel = left])
     ELSE BackToWaiting(At(w, [w.lv EXCEPT !.cancel = Unset]))

\* The end of the start-up delay is a transition of its own, and the frame
\* goes on from WARMUP_DEFAULT.
LeaveDelay(w) ==
  IF w.lv.match = MATCH_WARMUP_DELAYED
  THEN At(w, [w.lv EXCEPT !.match = MATCH_WARMUP_DEFAULT, !.timer = 0,
                          !.countStale = FALSE, !.auto = {}])
  ELSE w

\* Mutant: once counting down, nobody looks at the roster any more.
RosterCountsDown(w, p, s) ==
  LET v == PullBots(w, p, s)
  IN IF w.lv.match = MATCH_COUNTDOWN THEN TickReady(v)
     ELSE IF Imbalanced(w)
     THEN BackToWaiting(At(v, [v.lv EXCEPT !.cancel = Unset]))
     ELSE IF NotEnough(w) THEN TickNotEnough(v)
     ELSE TickReady(v)

\* The roster is judged before the spectating bots are pulled in.
TickRoster(w, p, s) ==
  LET v == PullBots(w, p, s)
  IN IF Imbalanced(w)
     THEN BackToWaiting(At(v, [v.lv EXCEPT !.cancel = Unset]))
     ELSE IF NotEnough(w) THEN TickNotEnough(v)
     ELSE TickReady(v)

StartsWithoutWarmup(w) ==
  /\ ~DoWarmup /\ w.lv.match < MATCH_COUNTDOWN
  /\ Cardinality(Playing(w)) >= EffectiveMinPlayers
  /\ ~Humanless(w)

TickWarmupState(w, p, s) ==
  IF Playing(w) = {} THEN TickEmpty(w, p, s)
  ELSE IF StartsWithoutWarmup(w) THEN MatchStart(w)
  ELSE IF w.lv.match = MATCH_NONE
       THEN [ lv |-> [w.lv EXCEPT !.match = MATCH_WARMUP_DELAYED,
                                  !.timer = DelayFrames, !.auto = {}],
              cl |-> UnReadyAll(w.cl) ]
  ELSE IF w.lv.match = MATCH_WARMUP_DELAYED /\ w.lv.timer > 0 THEN w
  ELSE TickRoster(LeaveDelay(w), p, s)

-----------------------------------------------------------------------------
(* Frames.                                                                  *)

Less(t) == IF t > 0 THEN t - 1 ELSE t
UpTo(n, t) == IF t = n THEN t ELSE t + 1

\* level.time += FRAME_TIME_MS, seen by every deadline and age.
Elapse(lv) ==
  [lv EXCEPT !.timer = Less(lv.timer), !.cancel = Less(lv.cancel),
             !.queued = Less(lv.queued), !.exitTimer = Less(lv.exitTimer),
             !.tied = Less(lv.tied),
             !.inter = IF lv.inter = Unset THEN Unset
                       ELSE UpTo(FloorFrames + 1, lv.inter),
             !.clock = UpTo(Max({2, TimeLimit}), lv.clock)]

\* FinishTimeout, MM_TimeoutBeginResumeCountdown, TimeoutEnd.
FinishTimeout(lv) ==
  [lv EXCEPT !.timeout = 0, !.caller = NoClient, !.resuming = FALSE]

BeginResumeCountdown(lv) ==
  IF ResumeFrames = 0 THEN FinishTimeout(lv)
  ELSE [lv EXCEPT !.timeout = ResumeFrames, !.caller = NoClient,
                  !.resuming = TRUE]

\* Mutant: the end of the resume countdown is taken for that of the timeout.
TimeoutNeverFinishes(lv) == BeginResumeCountdown(lv)

TimeoutEnd(lv) ==
  IF lv.resuming THEN FinishTimeout(lv) ELSE BeginResumeCountdown(lv)

\* The step's outcome, and what the history remembers of it.
Become(w) ==
  \E v \in {w} :
    /\ level' = v.lv
    /\ client' = v.cl
    /\ calledIn' = IF v.lv.open /\ level.open
                   THEN {c \in calledIn : v.cl[c].state = "on"} ELSE {}

\* Between maps nothing runs.
Running == ~level.changing

\* G_RunFrame: the server skips its frames while nobody is connected.
FrameRuns == Running /\ (Present(Here) # {} \/ level.timeout > 0)

\* A timeout stops the clock and everything else in the frame.
PausedFrame ==
  /\ FrameRuns /\ level.timeout > 0
  /\ Become(At(Here, IF level.timeout = 1 THEN TimeoutEnd(level)
                     ELSE [level EXCEPT !.timeout = level.timeout - 1]))

\* A pressed or commanded exit is taken at the start of the next frame.
ExitFrame ==
  /\ FrameRuns /\ level.timeout = 0 /\ level.exit
  /\ Become(At(Here, ExitLevel(Elapse(level))))

\* Any other frame: the match state machine, then the exit rules.
GameFrame ==
  /\ FrameRuns /\ level.timeout = 0 /\ ~level.exit
  /\ \E w \in {At(Here, Reconcile(Elapse(level)))} :
       \E p \in Placements(w) :
         \E s \in IF p = << >> THEN {level.score} ELSE Leads(level) :
           \E v \in {TickWarmupState(w, p, s)} :
             Become(CheckDMExitRules(v))

\* The engine executes the gamemap command: a new level, whose clients are
\* all there but have yet to begin.  An open match is aborted.
ChangeLevel ==
  /\ level.changing
  /\ level' = [ match |-> MATCH_NONE, timer |-> 0, cancel |-> Unset,
                auto |-> {}, locked |-> {}, lockCvar |-> level.lockCvar,
                lockStale |-> TRUE, countStale |-> TRUE,
                timeout |-> 0, caller |-> NoClient, resuming |-> FALSE,
                queued |-> Unset, inter |-> Unset, exit |-> FALSE,
                exitTimer |-> Unset, readyToExit |-> FALSE,
                changing |-> FALSE, clock |-> 0, tied |-> Unset,
                score |-> "tied", open |-> FALSE, stats |-> "idle" ]
  /\ client' = [c \in Clients |->
                  IF client[c].state = "off" THEN client[c]
                  ELSE [client[c] EXCEPT !.state = "loading"]]
  /\ calledIn' = {}

-----------------------------------------------------------------------------
(* Clients.                                                                 *)

\* ClientConnect and ClientBegin of a new connection: a human arrives as a
\* spectator, a bot asks for the team PickTeam gives it.
Join(c) ==
  /\ Running /\ client[c].state = "off"
  /\ LET w == Spawn(Here, c, "spectator", FALSE, level.score)
     IN IF c \in Humans THEN Become(w)
        ELSE \E t \in PickTeam(w), s \in Leads(w.lv) :
               LET v == At(w, Reconcile(w.lv))
               IN Become(IF IsTeamLocked(w.lv, t) THEN v
                         ELSE Spawn(v, c, t, FALSE, s))

\* ClientBegin of a client that came along from the previous map.
Begin(c) ==
  /\ Running /\ client[c].state = "loading"
  /\ Become(Spawn(Here, c, client[c].team, FALSE, level.score))

\* ClientDisconnect: a timeout outlives its caller, but nobody inherits the
\* authority to end it.
Leave(c) ==
  /\ Running /\ client[c].state = "on"
  /\ \E s \in Leads(level) :
       Become(CheckDMExitRules(
         [ lv |-> [level EXCEPT
                     !.caller = IF level.caller = c THEN NoClient ELSE level.caller,
                     !.score = s],
           cl |-> [client EXCEPT ![c] = [state |-> "off", team |-> "spectator",
                                 ready |-> FALSE, timeoutUsed |-> FALSE]] ]))

\* ClientCommand refuses most commands during intermission.
MayCommand(c) == Running /\ client[c].state = "on" /\ level.inter = Unset

\* MM_CmdTeam.  Even a refusal may have reconciled the automatic locks.
Team(c, t) ==
  /\ MayCommand(c)
  /\ LET w == At(Here, Reconcile(level))
     IN IF MayJoin(Here, c, t)
        THEN \E s \in Leads(level) :
               Become(Spawn(w, c, t, client[c].ready, s))
        ELSE t # client[c].team /\ Become(w)

\* MM_CmdSetTeam: the administrator overrides locks and balance.
SetTeam(c, t) ==
  /\ Running /\ client[c].state = "on" /\ t # client[c].team
  /\ \E a \in Admins : client[a].state = "on"
  /\ \E s \in Leads(level) : Become(Spawn(Here, c, t, client[c].ready, s))

\* A player who died comes back.
Respawn(c) ==
  /\ Running /\ level.timeout = 0 /\ level.inter = Unset
  /\ c \in Playing(Here)
  /\ Become(Spawn(Here, c, client[c].team, client[c].ready, level.score))

\* G_AdjustPlayerScore: kills and captures of a running match.
Score(s) ==
  /\ Running /\ Scoring(level) /\ level.timeout = 0 /\ Playing(Here) # {}
  /\ s # level.score
  /\ Become(CheckDMExitRules(At(Here, [level EXCEPT !.score = s])))

\* MM_ToggleReadyUp; MM_CmdReady and MM_CmdNotReady are its two halves.
ToggleReadyUp(c) ==
  /\ MayCommand(c) /\ c \in Playing(Here)
  /\ level.match = MATCH_WARMUP_READYUP
  /\ Become([lv |-> level, cl |-> [client EXCEPT ![c].ready = ~client[c].ready]])

\* MM_CmdTimeOut: players and spectators alike.
TimeOut(c) ==
  /\ MayCommand(c) /\ TimeoutFrames > 0
  /\ level.match = MATCH_IN_PROGRESS
  /\ ~client[c].timeoutUsed \/ c \in Admins
  /\ level.timeout = 0
  /\ level' = [level EXCEPT !.timeout = TimeoutFrames, !.caller = c,
                            !.resuming = FALSE]
  /\ client' = [client EXCEPT ![c].timeoutUsed = TRUE]
  /\ calledIn' = calledIn \cup {c}

\* MM_CmdTimeIn: the caller or an administrator starts the resume countdown.
TimeIn(c) ==
  /\ MayCommand(c)
  /\ level.timeout > 0 /\ ~level.resuming
  /\ c \in Admins \/ level.caller = c
  /\ Become(At(Here, BeginResumeCountdown(level)))

\* Who may lock and unlock a team: here any of its members could be its
\* captain; the captaincy itself is not part of this module.
MayLock(c, t) == Teamplay /\ MayCommand(c) /\ (c \in Admins \/ client[c].team = t)

LockTeam(c, t) ==
  /\ MayLock(c, t) /\ t \notin level.locked
  /\ Become(At(Here, [level EXCEPT !.locked = level.locked \cup {t}]))

\* MM_CmdUnlockTeam takes both kinds of lock off the one team.
UnlockTeam(c, t) ==
  /\ MayLock(c, t)
  /\ LET lv == Reconcile(level)
     IN Become(At(Here, IF IsTeamLocked(level, t)
                        THEN [lv EXCEPT !.locked = lv.locked \ {t},
                                        !.auto = lv.auto \ {t}]
                        ELSE lv))

\* ClientThink: a button pressed once the scoreboard's floor has passed.
PressExit(c) ==
  /\ Running /\ client[c].state = "on" /\ level.timeout = 0
  /\ level.inter > FloorFrames /\ ~level.exit
  /\ Become(At(Here, [level EXCEPT !.exit = TRUE]))

\* use_target_changelevel: a player reaches the map's exit.
ReachExit ==
  /\ MapExits /\ Running /\ level.timeout = 0 /\ level.inter = Unset
  /\ Playing(Here) # {}
  /\ Become(At(Here, BeginIntermission(level)))

-----------------------------------------------------------------------------
(* Administrators and the server console.                                   *)

AdminHere == Running /\ \E a \in Admins : client[a].state = "on"

\* MM_CmdStartMatch, MM_CmdEndMatch, MM_CmdResetMatch, MM_CmdNextMap.
StartMatch ==
  /\ AdminHere /\ level.match <= MATCH_COUNTDOWN
  /\ Become(MatchStart(Here))

EndMatch ==
  /\ AdminHere /\ level.match >= MATCH_IN_PROGRESS /\ level.inter = Unset
  /\ Become(At(Here, QueueIntermission(level)))

ResetMatch ==
  /\ AdminHere /\ level.match >= MATCH_IN_PROGRESS /\ level.inter = Unset
  /\ Become(MatchReset(Here))

NextMap ==
  /\ AdminHere
  /\ Become(At(Here, [MatchEnd(level) EXCEPT !.exit = TRUE]))

\* MM_CmdSetMap, MM_CmdMapRestart: gamemap without any end of match.
SetMap ==
  /\ AdminHere
  /\ Become(At(Here, [level EXCEPT !.changing = TRUE]))

\* MM_CmdReadyAll, MM_CmdUnReadyAll.
ReadyAll(ready) ==
  /\ AdminHere /\ level.match = MATCH_WARMUP_READYUP
  /\ Become([ lv |-> level,
              cl |-> IF ready
                     THEN [c \in Clients |->
                             [client[c] EXCEPT !.ready =
                                c \in Playing(Here) \/ client[c].ready]]
                     ELSE UnReadyAll(client) ])

\* set g_match_lock, set g_warmup_countdown.
ChangeMatchLock ==
  /\ CvarChanges /\ Running
  /\ Become(At(Here, [level EXCEPT !.lockCvar = ~level.lockCvar,
                                   !.lockStale = TRUE]))

ChangeCountdown ==
  /\ CvarChanges /\ Running /\ ~level.countStale
  /\ Become(At(Here, [level EXCEPT !.countStale = TRUE]))

-----------------------------------------------------------------------------
Init ==
  /\ \E on \in BOOLEAN : level =
       [ match |-> MATCH_NONE, timer |-> 0, cancel |-> Unset,
         auto |-> {}, locked |-> {}, lockCvar |-> on,
         lockStale |-> TRUE, countStale |-> TRUE,
         timeout |-> 0, caller |-> NoClient, resuming |-> FALSE,
         queued |-> Unset, inter |-> Unset, exit |-> FALSE,
         exitTimer |-> Unset, readyToExit |-> FALSE,
         changing |-> FALSE, clock |-> 0, tied |-> Unset,
         score |-> "tied", open |-> FALSE, stats |-> "idle" ]
  /\ client = [c \in Clients |-> [state |-> "off", team |-> "spectator",
                                  ready |-> FALSE, timeoutUsed |-> FALSE]]
  /\ calledIn = {}

Frame == PausedFrame \/ ExitFrame \/ GameFrame

Command(c) ==
  \/ \E t \in Teams : Team(c, t) \/ SetTeam(c, t)
  \/ \E t \in PlayTeams : LockTeam(c, t) \/ UnlockTeam(c, t)
  \/ ToggleReadyUp(c) \/ TimeOut(c) \/ TimeIn(c) \/ PressExit(c)

Connection(c) == Join(c) \/ Begin(c) \/ Leave(c) \/ Respawn(c)

Administration ==
  \/ StartMatch \/ EndMatch \/ ResetMatch \/ NextMap \/ SetMap
  \/ \E ready \in BOOLEAN : ReadyAll(ready)
  \/ ChangeMatchLock \/ ChangeCountdown

Next ==
  \/ Frame \/ ChangeLevel \/ ReachExit \/ Administration
  \/ \E s \in Scores : Score(s)
  \/ \E c \in Clients : Connection(c) \/ Command(c)

Spec == Init /\ [][Next]_vars

\* The engine keeps calling G_RunFrame and executes its command buffer, and
\* a client that is loading the map gets there.
Fairness ==
  /\ WF_vars(Frame) /\ WF_vars(ChangeLevel)
  /\ WF_vars(\E c \in Clients : Begin(c))

FairSpec == Spec /\ Fairness
=============================================================================
