-------------------------- MODULE MatchFlowProofs --------------------------
(***************************************************************************)
(* Theorems about the match controller, for any clients and any settings.  *)
(*                                                                         *)
(* The invariant Coherent is followed through a step the way the code goes *)
(* through it: one lemma for every function the step calls, saying that a  *)
(* coherent world stays coherent and whether a timeout stays as it was.    *)
(* A step then only has to compose them.                                   *)
(*                                                                         *)
(* A function rewrites a few fields of a record of twenty-two.  Its lemma  *)
(* therefore goes in three steps: the new level has its type; its fields   *)
(* are these; and from the fields alone, the record hidden, coherence.     *)
(***************************************************************************)
EXTENDS MatchFlowProps, TLAPS

-----------------------------------------------------------------------------
(* Data.                                                                    *)

\* The fields Coherent speaks of, in groups that functions leave alone.
SamePhase(l, k)   == l.match = k.match /\ l.auto = k.auto
SameTimeout(l, k) == /\ l.timeout = k.timeout /\ l.caller = k.caller
                     /\ l.resuming = k.resuming
SameRecord(l, k)  == l.open = k.open /\ l.stats = k.stats
SameEnd(l, k)     == /\ l.queued = k.queued /\ l.inter = k.inter
                     /\ l.exit = k.exit /\ l.changing = k.changing

\* Every match state is one of the seven.
LEMMA PhaseFacts ==
  /\ MATCH_NONE \in MATCH_NONE..MATCH_ENDED
  /\ MATCH_WARMUP_DELAYED \in MATCH_NONE..MATCH_ENDED
  /\ MATCH_WARMUP_DEFAULT \in MATCH_NONE..MATCH_ENDED
  /\ MATCH_WARMUP_READYUP \in MATCH_NONE..MATCH_ENDED
  /\ MATCH_COUNTDOWN \in MATCH_NONE..MATCH_ENDED
  /\ MATCH_IN_PROGRESS \in MATCH_NONE..MATCH_ENDED
  /\ MATCH_ENDED \in MATCH_NONE..MATCH_ENDED
BY DEF MATCH_NONE, MATCH_WARMUP_DELAYED, MATCH_WARMUP_DEFAULT,
       MATCH_WARMUP_READYUP, MATCH_COUNTDOWN, MATCH_IN_PROGRESS, MATCH_ENDED

\* What the deadlines are set to are deadlines.
LEMMA TimerFacts ==
  /\ 0 \in Timers /\ Unset \in Timers /\ Unset # 0
  /\ QueueFrames \in Timers /\ QueueFrames # Unset
  /\ CancelFrames \in Timers /\ ExitFrames \in Timers /\ TieFrames \in Timers
BY NumbersAssumption DEF Timers, Unset

\* A frozen record is no longer live.
LEMMA FreezeFacts ==
  ASSUME NEW s \in Records
  PROVE  Freeze(s) \in Records /\ Freeze(s) # "live"
BY DEF Freeze, Records

\* An exported record is neither live nor frozen.
LEMMA ExportFacts ==
  ASSUME NEW s \in Records
  PROVE  Export(s) \in Records /\ Export(s) # "live" /\ Export(s) # "frozen"
BY DEF Export, Records

\* At replaces the level of a world and nothing else.
LEMMA AtFacts ==
  ASSUME NEW w \in World, NEW lv \in Level
  PROVE  At(w, lv) \in World /\ At(w, lv).lv = lv /\ At(w, lv).cl = w.cl
BY DEF At, World

\* What a coherent world says of its types and of an absent timeout.
LEMMA CoherentType ==
  ASSUME NEW w, Coherent(w)
  PROVE  /\ w \in World /\ w.lv \in Level /\ w.cl \in [Clients -> Client]
         /\ w.lv.stats \in Records /\ w = At(w, w.lv)
         /\ w.lv.timeout = 0 => w.lv.caller = NoClient /\ ~w.lv.resuming
BY DEF Coherent, World, Level, At

\* UnReadyAll keeps the clients and clears every present one's flag.
LEMMA UnReadyAllFacts ==
  ASSUME NEW cl \in [Clients -> Client]
  PROVE  /\ UnReadyAll(cl) \in [Clients -> Client]
         /\ \A c \in Clients :
              /\ UnReadyAll(cl)[c].state = cl[c].state
              /\ UnReadyAll(cl)[c].state = "on" => ~UnReadyAll(cl)[c].ready
BY DEF UnReadyAll, Client

\* A match-scoped reset clears flags of the clients present.
LEMMA ResetClientFacts ==
  ASSUME NEW cl \in [Clients -> Client]
  PROVE  /\ ResetClientMatchScopedState(cl) \in [Clients -> Client]
         /\ \A c \in Clients :
              /\ ResetClientMatchScopedState(cl)[c].state = cl[c].state
              /\ ResetClientMatchScopedState(cl)[c].state = "on"
                   => ~ResetClientMatchScopedState(cl)[c].ready
BY DEF ResetClientMatchScopedState, Client

\* A match-scoped reset of the level leaves no timeout and no lock.
LEMMA TransientFacts ==
  ASSUME NEW lv \in Level
  PROVE  LET new == ResetMatchScopedTransientState(lv)
         IN /\ new \in Level
            /\ new.timeout = 0 /\ new.caller = NoClient /\ ~new.resuming
            /\ new.auto = {} /\ SameEnd(new, lv)
BY TimerFacts DEF ResetMatchScopedTransientState, Level, SameEnd

-----------------------------------------------------------------------------
(* The operations on a match.                                               *)

\* Recomputing the automatic locks cannot leave one outside its phase.
LEMMA SynchronizeCoherent ==
  ASSUME NEW w, Coherent(w)
  PROVE  /\ Coherent(At(w, Synchronize(w.lv)))
         /\ Synchronize(w.lv).timeout = w.lv.timeout
BY DEF Coherent, At, Synchronize, AutomaticLockPhase, World, Level

\* Nor can doing so only after a change of the cvar.
LEMMA ReconcileCoherent ==
  ASSUME NEW w, Coherent(w)
  PROVE  /\ Coherent(At(w, Reconcile(w.lv)))
         /\ Reconcile(w.lv).timeout = w.lv.timeout
BY SynchronizeCoherent, CoherentType DEF Reconcile

\* Match_Start opens both recorders or changes nothing.
LEMMA MatchStartCoherent ==
  ASSUME NEW w, Coherent(w)
  PROVE  /\ Coherent(MatchStart(w))
         /\ w.lv.timeout = 0 => MatchStart(w).lv.timeout = 0
<1> DEFINE lv == [ResetMatchScopedTransientState(w.lv) EXCEPT
                     !.clock = 0, !.match = MATCH_IN_PROGRESS, !.timer = 0,
                     !.score = "tied", !.open = TRUE, !.stats = "live"]
           cl == ResetClientMatchScopedState(w.cl)
           v  == [lv |-> lv, cl |-> cl]
<1>1. CASE ~SingletonMatchCanStart(w)
  BY <1>1 DEF MatchStart
<1>2. CASE SingletonMatchCanStart(w)
  <2>0. ResetMatchScopedTransientState(w.lv) \in Level
    BY CoherentType, TransientFacts
  <2>1. lv \in Level
    <3>1. "tied" \in Scores /\ "live" \in Records
      BY DEF Scores, Records
    <3>2. QED BY <2>0, <3>1, PhaseFacts DEF Level
  <2>2. /\ lv.match = MATCH_IN_PROGRESS /\ lv.auto = {}
        /\ lv.timeout = 0 /\ lv.caller = NoClient /\ ~lv.resuming
        /\ lv.open /\ lv.stats = "live" /\ SameEnd(lv, w.lv)
    BY CoherentType DEF ResetMatchScopedTransientState, Level, SameEnd
  <2>3. /\ cl \in [Clients -> Client]
        /\ \A c \in Clients : cl[c].state = "on" => ~cl[c].ready
    BY CoherentType, ResetClientFacts
  <2>4. MatchStart(w) = At(v, Synchronize(v.lv))
    BY <1>2 DEF MatchStart, At
  <2> HIDE DEF lv, cl
  <2>5. Coherent(v)
    BY <1>2, <2>1, <2>2, <2>3
    DEF Coherent, SingletonMatchCanStart, SameEnd, World, MATCH_IN_PROGRESS,
        MATCH_WARMUP_READYUP, MATCH_COUNTDOWN, MATCH_ENDED
  <2>6. Synchronize(v.lv).timeout = 0
    BY <2>2, <2>5, SynchronizeCoherent
  <2>7. QED
    BY <2>1, <2>4, <2>5, <2>6, SynchronizeCoherent DEF At
<1>3. QED BY <1>1, <1>2

\* Match_Reset closes the match, its queue and its timeout together.
LEMMA MatchResetCoherent ==
  ASSUME NEW w, Coherent(w)
  PROVE  Coherent(MatchReset(w)) /\ MatchReset(w).lv.timeout = 0
<1> DEFINE lv == [ResetMatchScopedTransientState(w.lv) EXCEPT
                     !.open = FALSE, !.stats = "idle", !.locked = {},
                     !.clock = 0, !.match = MATCH_WARMUP_DEFAULT, !.timer = 0,
                     !.countStale = FALSE, !.queued = Unset, !.exit = FALSE,
                     !.inter = Unset, !.score = "tied"]
           cl == ResetClientMatchScopedState(w.cl)
           v  == [lv |-> lv, cl |-> cl]
<1>1. ResetMatchScopedTransientState(w.lv) \in Level
  BY CoherentType, TransientFacts
<1>2. lv \in Level
  <2>1. "tied" \in Scores /\ "idle" \in Records
    BY DEF Scores, Records
  <2>2. QED BY <1>1, <2>1, PhaseFacts, TimerFacts DEF Level
<1>3. /\ lv.match = MATCH_WARMUP_DEFAULT /\ lv.auto = {}
      /\ lv.timeout = 0 /\ lv.caller = NoClient /\ ~lv.resuming
      /\ ~lv.open /\ lv.stats = "idle"
      /\ lv.queued = Unset /\ lv.inter = Unset /\ ~lv.exit
  BY CoherentType DEF ResetMatchScopedTransientState, Level
<1>4. /\ cl \in [Clients -> Client]
      /\ \A c \in Clients : cl[c].state = "on" => ~cl[c].ready
  BY CoherentType, ResetClientFacts
<1>5. MatchReset(w) = At(v, Synchronize(v.lv))
  BY DEF MatchReset, At
<1> HIDE DEF lv, cl
<1>6. Coherent(v)
  BY <1>2, <1>3, <1>4
  DEF Coherent, World, MATCH_WARMUP_DEFAULT, MATCH_IN_PROGRESS
<1>7. QED
  BY <1>3, <1>5, <1>6, SynchronizeCoherent DEF At

\* QueueIntermission freezes the result of the match it ends.
LEMMA QueueIntermissionCoherent ==
  ASSUME NEW w, Coherent(w), w.lv.inter = Unset
  PROVE  /\ Coherent(At(w, QueueIntermission(w.lv)))
         /\ QueueIntermission(w.lv).timeout = w.lv.timeout
<1> DEFINE lv == [w.lv EXCEPT !.tied = Unset, !.stats = Freeze(w.lv.stats),
                    !.open = FALSE, !.match = MATCH_ENDED, !.timer = 0,
                    !.clock = 0, !.queued = QueueFrames]
<1>0. w.lv \in Level
  BY CoherentType
<1>1. CASE w.lv.queued # Unset \/ w.lv.match < MATCH_IN_PROGRESS
  BY <1>1, CoherentType DEF QueueIntermission
<1>2. CASE ~(w.lv.queued # Unset \/ w.lv.match < MATCH_IN_PROGRESS)
  <2>1. Freeze(w.lv.stats) \in Records /\ Freeze(w.lv.stats) # "live"
    BY CoherentType, FreezeFacts
  <2>2. lv \in Level
    BY <1>0, <2>1, PhaseFacts, TimerFacts DEF Level
  <2>3. /\ lv.match = MATCH_ENDED /\ lv.auto = w.lv.auto
        /\ SameTimeout(lv, w.lv)
        /\ ~lv.open /\ lv.stats = Freeze(w.lv.stats)
        /\ lv.queued = QueueFrames /\ lv.inter = Unset /\ lv.exit = w.lv.exit
    BY <1>0 DEF Level, SameTimeout
  <2>4. QueueIntermission(w.lv) = lv
    BY <1>2 DEF QueueIntermission
  <2> HIDE DEF lv
  <2>5a. /\ At(w, lv) \in World
         /\ At(w, lv).lv = lv /\ At(w, lv).cl = w.cl
    BY <2>2, CoherentType, AtFacts
  <2>5. Coherent(At(w, lv))
    BY <2>5a, <2>1, <2>2, <2>3, TimerFacts
    DEF Coherent, SameTimeout, AutomaticLockPhase, MATCH_IN_PROGRESS,
        MATCH_ENDED
  <2>6. QED BY <2>3, <2>4, <2>5 DEF SameTimeout
<1>3. QED BY <1>1, <1>2

\* BeginIntermission settles a match that is still recorded.
LEMMA BeginIntermissionCoherent ==
  ASSUME NEW w, Coherent(w)
  PROVE  /\ Coherent(At(w, BeginIntermission(w.lv)))
         /\ BeginIntermission(w.lv).inter # Unset
         /\ BeginIntermission(w.lv).timeout = w.lv.timeout
<1> DEFINE lv == [w.lv EXCEPT !.stats = Export(w.lv.stats), !.open = FALSE,
                    !.inter = 0, !.exitTimer = Unset, !.readyToExit = FALSE,
                    !.exit = FALSE]
<1>0. w.lv \in Level
  BY CoherentType
<1>1. CASE w.lv.inter # Unset
  BY <1>1, CoherentType DEF BeginIntermission
<1>2. CASE w.lv.inter = Unset
  <2>1. /\ Export(w.lv.stats) \in Records
        /\ Export(w.lv.stats) \notin {"live", "frozen"}
    BY CoherentType, ExportFacts
  <2>2. lv \in Level
    BY <1>0, <2>1, TimerFacts DEF Level
  <2>3. /\ SamePhase(lv, w.lv) /\ SameTimeout(lv, w.lv)
        /\ ~lv.open /\ lv.stats = Export(w.lv.stats)
        /\ lv.queued = w.lv.queued /\ lv.inter = 0 /\ ~lv.exit
    BY <1>0 DEF Level, SamePhase, SameTimeout
  <2>4. BeginIntermission(w.lv) = lv
    BY <1>2 DEF BeginIntermission
  <2> HIDE DEF lv
  <2>5a. /\ At(w, lv) \in World
         /\ At(w, lv).lv = lv /\ At(w, lv).cl = w.cl
    BY <2>2, CoherentType, AtFacts
  <2>5. Coherent(At(w, lv))
    BY <2>5a, <2>1, <2>2, <2>3, TimerFacts
    DEF Coherent, SamePhase, SameTimeout, AutomaticLockPhase
  <2>6. QED BY <2>3, <2>4, <2>5, TimerFacts DEF SameTimeout
<1>3. QED BY <1>1, <1>2

\* The exit rules clear intermission_queued on the way in, MM_CmdNextMap
\* does not.
LEMMA MatchEndCoherent ==
  ASSUME NEW w, Coherent(w), NEW k \in Level,
         SamePhase(k, w.lv), SameTimeout(k, w.lv), SameRecord(k, w.lv),
         k.queued \in {w.lv.queued, Unset}, k.inter = w.lv.inter,
         k.exit = w.lv.exit
  PROVE  /\ Coherent(At(w, MatchEnd(k)))
         /\ MatchEnd(k).inter # Unset
         /\ MatchEnd(k).timeout = w.lv.timeout
<1> DEFINE lv == [k EXCEPT !.match = MATCH_ENDED, !.timer = 0,
                           !.stats = Export(k.stats), !.open = FALSE]
<1>0. k.stats \in Records
  BY DEF Level
<1>1. /\ Export(k.stats) \in Records
      /\ Export(k.stats) \notin {"live", "frozen"}
  BY <1>0, ExportFacts
<1>2. lv \in Level
  BY <1>1, PhaseFacts DEF Level
<1>3. /\ lv.match = MATCH_ENDED /\ lv.auto = k.auto
      /\ SameTimeout(lv, k)
      /\ ~lv.open /\ lv.stats = Export(k.stats) /\ SameEnd(lv, k)
  BY DEF Level, SameTimeout, SameEnd
<1>4. MatchEnd(k) = BeginIntermission(lv)
  BY DEF MatchEnd
<1> HIDE DEF lv
<1>5. /\ At(w, lv) \in World
      /\ At(w, lv).lv = lv /\ At(w, lv).cl = w.cl
  BY <1>2, CoherentType, AtFacts
<1>6. Coherent(At(w, lv))
  BY <1>1, <1>3, <1>5
  DEF Coherent, SamePhase, SameTimeout, SameEnd, AutomaticLockPhase,
      MATCH_IN_PROGRESS, MATCH_ENDED
<1>7. At(w, lv).lv = lv /\ At(At(w, lv), MatchEnd(k)) = At(w, MatchEnd(k))
  BY DEF At
<1>8. QED
  BY <1>3, <1>4, <1>6, <1>7, BeginIntermissionCoherent DEF SameTimeout

\* ExitLevel takes a world whose match is settled out of its level.
LEMMA ExitLevelCoherent ==
  ASSUME NEW w, Coherent(w), w.lv.inter # Unset
  PROVE  /\ Coherent(At(w, ExitLevel(w.lv)))
         /\ ExitLevel(w.lv).timeout = w.lv.timeout
<1> DEFINE lv == ExitLevel(w.lv)
<1>0. w.lv \in Level
  BY CoherentType
<1>1. lv \in Level
  BY <1>0, TimerFacts DEF Level, ExitLevel
<1>2. /\ SamePhase(lv, w.lv) /\ SameTimeout(lv, w.lv) /\ SameRecord(lv, w.lv)
      /\ lv.queued = w.lv.queued /\ lv.inter = Unset /\ ~lv.exit /\ lv.changing
  BY <1>0 DEF Level, ExitLevel, SamePhase, SameTimeout, SameRecord
<1> HIDE DEF lv
<1>3a. /\ At(w, lv) \in World
       /\ At(w, lv).lv = lv /\ At(w, lv).cl = w.cl
  BY <1>1, CoherentType, AtFacts
<1>3. Coherent(At(w, lv))
  BY <1>3a, <1>1, <1>2
  DEF Coherent, SamePhase, SameTimeout, SameRecord, AutomaticLockPhase
<1>4. QED BY <1>2, <1>3 DEF lv, SameTimeout

\* A change of the fields that coherence says nothing of.
Same(l, k) == /\ SamePhase(l, k) /\ SameTimeout(l, k)
              /\ SameRecord(l, k) /\ SameEnd(l, k)

\* Fields that Coherent does not mention may change.
LEMMA SameCoherent ==
  ASSUME NEW w, Coherent(w), NEW lv \in Level, Same(lv, w.lv)
  PROVE  Coherent(At(w, lv)) /\ lv.timeout = w.lv.timeout
<1>1. /\ At(w, lv) \in World
      /\ At(w, lv).lv = lv /\ At(w, lv).cl = w.cl
  BY CoherentType, AtFacts
<1>2. QED
  BY <1>1 DEF Coherent, Same, SamePhase, SameTimeout, SameRecord, SameEnd,
              AutomaticLockPhase

-----------------------------------------------------------------------------
(* The exit rules.                                                          *)

\* The intermission's exit rules leave the level coherent.
LEMMA IntermissionExitCoherent ==
  ASSUME NEW w, Coherent(w), w.lv.inter # Unset
  PROVE  /\ Coherent(At(w, CheckDMIntermissionExit(w)))
         /\ CheckDMIntermissionExit(w).timeout = w.lv.timeout
<1> DEFINE polled == IF w.lv.readyToExit THEN w.lv
                     ELSE [w.lv EXCEPT !.readyToExit = TRUE,
                                       !.exitTimer = ExitFrames]
           cleared == [w.lv EXCEPT !.readyToExit = FALSE]
<1>0. w.lv \in Level
  BY CoherentType
<1>1. polled \in Level /\ cleared \in Level
  BY <1>0, TimerFacts DEF Level
<1>2. Same(polled, w.lv) /\ Same(cleared, w.lv)
  BY <1>0 DEF Level, Same, SamePhase, SameTimeout, SameRecord, SameEnd
<1>3. CheckDMIntermissionExit(w) \in
        {w.lv, cleared, polled, ExitLevel(w.lv), ExitLevel(polled)}
  BY DEF CheckDMIntermissionExit
<1> HIDE DEF polled, cleared
<1>4. /\ Coherent(At(w, polled)) /\ polled.timeout = w.lv.timeout
      /\ Coherent(At(w, cleared)) /\ cleared.timeout = w.lv.timeout
  BY <1>1, <1>2, SameCoherent
<1>5. /\ Coherent(At(w, ExitLevel(w.lv)))
      /\ ExitLevel(w.lv).timeout = w.lv.timeout
  BY ExitLevelCoherent
<1>6. /\ Coherent(At(w, ExitLevel(polled)))
      /\ ExitLevel(polled).timeout = w.lv.timeout
  <2>1. /\ At(w, polled).lv = polled /\ polled.inter # Unset
        /\ At(At(w, polled), ExitLevel(polled)) = At(w, ExitLevel(polled))
    BY <1>2 DEF At, Same, SameEnd
  <2>2. /\ Coherent(At(At(w, polled), ExitLevel(At(w, polled).lv)))
        /\ ExitLevel(At(w, polled).lv).timeout = At(w, polled).lv.timeout
    BY <1>4, <2>1, ExitLevelCoherent
  <2>3. QED BY <1>4, <2>1, <2>2
<1>7. Coherent(At(w, w.lv))
  BY CoherentType
<1>8. QED BY <1>3, <1>4, <1>5, <1>6, <1>7

\* A tie clock is nothing to the other fields.
LEMMA OvertimeCoherent ==
  ASSUME NEW w, Coherent(w)
  PROVE  Coherent(At(w, Overtime(w.lv))) /\ Overtime(w.lv).timeout = w.lv.timeout
<1>0. w.lv \in Level
  BY CoherentType
<1>1. Overtime(w.lv) \in Level
  BY <1>0, TimerFacts DEF Level, Overtime
<1>2. Same(Overtime(w.lv), w.lv)
  BY <1>0
  DEF Level, Overtime, Same, SamePhase, SameTimeout, SameRecord, SameEnd
<1>3. QED BY <1>1, <1>2, SameCoherent

\* Whichever exit rule applies, the world stays coherent.
LEMMA ExitRulesCoherent ==
  ASSUME NEW w, Coherent(w)
  PROVE  /\ Coherent(CheckDMExitRules(w))
         /\ w.lv.timeout = 0 => CheckDMExitRules(w).lv.timeout = 0
<1> DEFINE due == [w.lv EXCEPT !.queued = Unset]
<1>0. w.lv \in Level
  BY CoherentType
<1>a. \A lv : At(w, lv).lv = lv
  BY DEF At
<1>1. CASE w.lv.inter # Unset
  BY <1>1, <1>a, IntermissionExitCoherent DEF CheckDMExitRules
<1>2. CASE w.lv.inter = Unset /\ w.lv.queued = 0
  <2>1. due \in Level
    BY <1>0, TimerFacts DEF Level
  <2>2. /\ SamePhase(due, w.lv) /\ SameTimeout(due, w.lv)
        /\ SameRecord(due, w.lv) /\ due.queued = Unset
        /\ due.inter = w.lv.inter /\ due.exit = w.lv.exit
        /\ due.changing = w.lv.changing
    BY <1>0 DEF Level, SamePhase, SameTimeout, SameRecord
  <2>3. CheckDMExitRules(w) = At(w, MatchEnd(due))
    BY <1>2 DEF CheckDMExitRules
  <2> HIDE DEF due
  <2>4. QED BY <1>a, <2>1, <2>2, <2>3, MatchEndCoherent
<1>3. CASE w.lv.inter = Unset /\ w.lv.queued # 0
  <2>1. CheckDMExitRules(w) \in
          {w, At(w, QueueIntermission(w.lv)), QueueReset(w),
           At(w, Overtime(w.lv))}
    BY <1>3 DEF CheckDMExitRules
  <2>2. /\ Coherent(QueueReset(w))
        /\ w.lv.timeout = 0 => QueueReset(w).lv.timeout = 0
    BY MatchResetCoherent DEF QueueReset
  <2>3. /\ Coherent(At(w, QueueIntermission(w.lv)))
        /\ QueueIntermission(w.lv).timeout = w.lv.timeout
    BY <1>3, QueueIntermissionCoherent
  <2>4. QED BY <1>a, <2>1, <2>2, <2>3, OvertimeCoherent
<1>4. QED BY <1>1, <1>2, <1>3

-----------------------------------------------------------------------------
(* Team membership.                                                         *)

\* A client that enters the world, before the exit rules run.
Entered(w, c, team, ready, s) ==
  [ lv |-> [w.lv EXCEPT !.score = s],
    cl |-> [w.cl EXCEPT ![c] = [state |-> "on", team |-> team,
                                ready |-> ready, timeoutUsed |-> FALSE]] ]

\* A client may enter the world whenever its ready flag is current.
LEMMA EnteredCoherent ==
  ASSUME NEW w, Coherent(w), NEW c \in Clients, NEW team \in Teams,
         NEW ready \in BOOLEAN, NEW s \in Scores,
         ready => w.lv.match \in {MATCH_WARMUP_READYUP, MATCH_COUNTDOWN,
                                  MATCH_ENDED}
  PROVE  /\ Coherent(Entered(w, c, team, ready, s))
         /\ Same(Entered(w, c, team, ready, s).lv, w.lv)
         /\ Entered(w, c, team, ready, s).lv.lockStale = w.lv.lockStale
<1> DEFINE lv  == [w.lv EXCEPT !.score = s]
           new == [state |-> "on", team |-> team,
                   ready |-> ready, timeoutUsed |-> FALSE]
           cl  == [w.cl EXCEPT ![c] = new]
           v   == [lv |-> lv, cl |-> cl]
<1>0. w.lv \in Level /\ w.cl \in [Clients -> Client]
  BY CoherentType
<1>1. lv \in Level
  BY <1>0 DEF Level
<1>2. Same(lv, w.lv) /\ lv.lockStale = w.lv.lockStale
  BY <1>0 DEF Level, Same, SamePhase, SameTimeout, SameRecord, SameEnd
<1>3. new \in Client
  BY DEF Client
<1>4. /\ cl \in [Clients -> Client]
      /\ \A d \in Clients : cl[d] = IF d = c THEN new ELSE w.cl[d]
  BY <1>0, <1>3
<1>5. new.state = "on" /\ new.ready = ready
  OBVIOUS
<1>6. Entered(w, c, team, ready, s) = v
  BY DEF Entered
<1> HIDE DEF lv, cl, new
<1>7. Coherent(At(w, lv)) /\ lv.timeout = w.lv.timeout
  BY <1>1, <1>2, SameCoherent
<1>8. v \in World /\ v.lv = lv /\ v.cl = cl
  BY <1>1, <1>4 DEF World
<1>9. \A d \in Clients : v.cl[d].state = "on" /\ v.cl[d].ready
        => lv.match \in {MATCH_WARMUP_READYUP, MATCH_COUNTDOWN, MATCH_ENDED}
  BY <1>2, <1>4, <1>5, <1>8 DEF Coherent, Same, SamePhase
<1>10. lv.caller # NoClient => v.cl[lv.caller].state = "on"
  <2>1. lv.caller \in Clients \cup {NoClient} /\ lv.caller = w.lv.caller
    BY <1>1, <1>2 DEF Level, Same, SameTimeout
  <2>2. QED BY <1>4, <1>5, <1>8, <2>1 DEF Coherent
<1>11. Coherent(v)
  BY <1>7, <1>8, <1>9, <1>10 DEF Coherent, At
<1>12. QED BY <1>2, <1>6, <1>8, <1>11

\* Nor do the exit rules that follow disturb anything.
LEMMA SpawnCoherent ==
  ASSUME NEW w, Coherent(w), NEW c \in Clients, NEW team \in Teams,
         NEW ready \in BOOLEAN, NEW s \in Scores,
         ready => w.lv.match \in {MATCH_WARMUP_READYUP, MATCH_COUNTDOWN,
                                  MATCH_ENDED}
  PROVE  /\ Coherent(Spawn(w, c, team, ready, s))
         /\ w.lv.timeout = 0 => Spawn(w, c, team, ready, s).lv.timeout = 0
<1> DEFINE v == Entered(w, c, team, ready, s)
<1>1. Spawn(w, c, team, ready, s) = CheckDMExitRules(v)
  BY DEF Spawn, Entered
<1>2. Coherent(v) /\ Same(v.lv, w.lv)
  BY EnteredCoherent
<1> HIDE DEF v
<1>3. QED BY <1>1, <1>2, ExitRulesCoherent DEF Same, SameTimeout

\* Only teams and timeout allowances change when bots are pulled in.
LEMMA PlacedFacts ==
  ASSUME NEW w, Coherent(w), NEW s \in Scores,
         NEW p \in [WaitingBots(w) -> PlayTeams]
  PROVE  /\ Placed(w, p, s) \in World
         /\ Same(Placed(w, p, s).lv, w.lv)
         /\ \A c \in Clients :
              /\ Placed(w, p, s).cl[c].state = w.cl[c].state
              /\ Placed(w, p, s).cl[c].ready = w.cl[c].ready
              /\ Placed(w, p, s).cl[c].team =
                   IF c \in Joining(w, p) THEN p[c] ELSE w.cl[c].team
<1>0. w.lv \in Level /\ w.cl \in [Clients -> Client]
  BY CoherentType
<1>1. Joining(w, p) \subseteq WaitingBots(w)
  BY DEF Joining
<1>2. PICK J : J = Joining(w, p)
  OBVIOUS
<1> DEFINE lv == [w.lv EXCEPT !.score = s]
           cl == [c \in Clients |->
                    IF c \in J
                    THEN [w.cl[c] EXCEPT !.team = p[c], !.timeoutUsed = FALSE]
                    ELSE w.cl[c]]
<1>3. lv \in Level /\ Same(lv, w.lv)
  BY <1>0 DEF Level, Same, SamePhase, SameTimeout, SameRecord, SameEnd
<1>4. \A c \in J : p[c] \in Teams
  BY <1>1, <1>2 DEF Teams
<1>5. /\ cl \in [Clients -> Client]
      /\ \A c \in Clients :
           /\ cl[c].state = w.cl[c].state
           /\ cl[c].ready = w.cl[c].ready
           /\ cl[c].team = IF c \in J THEN p[c] ELSE w.cl[c].team
  BY <1>0, <1>4 DEF Client
<1>6. Placed(w, p, s) = [lv |-> lv, cl |-> cl]
  BY <1>2 DEF Placed
<1> HIDE DEF lv, cl
<1>7. [lv |-> lv, cl |-> cl] \in World
  BY <1>3, <1>5 DEF World
<1>8. Placed(w, p, s).lv = lv /\ Placed(w, p, s).cl = cl
  BY <1>6
<1>9. QED BY <1>2, <1>3, <1>5, <1>6, <1>7, <1>8

\* Bots pulled in leave the world coherent,
LEMMA PlacedCoherent ==
  ASSUME NEW w, Coherent(w), NEW s \in Scores,
         NEW p \in [WaitingBots(w) -> PlayTeams]
  PROVE  Coherent(Placed(w, p, s)) /\ Placed(w, p, s).lv.timeout = w.lv.timeout
<1> DEFINE v == Placed(w, p, s)
<1>1. /\ v \in World /\ Same(v.lv, w.lv)
      /\ \A c \in Clients : /\ v.cl[c].state = w.cl[c].state
                            /\ v.cl[c].ready = w.cl[c].ready
  BY PlacedFacts
<1> HIDE DEF v
<1>2. v.lv \in Level /\ v.lv.caller \in Clients \cup {NoClient}
  BY <1>1 DEF World, Level
<1>3. Coherent(At(w, v.lv)) /\ v.lv.timeout = w.lv.timeout
  BY <1>1, <1>2, SameCoherent
<1>4. Coherent(v)
  BY <1>1, <1>2, <1>3 DEF Coherent, At
<1>5. QED BY <1>3, <1>4 DEF v

\* and so do the exit rules their arrival runs.
LEMMA PullBotsCoherent ==
  ASSUME NEW w, Coherent(w), NEW s \in Scores,
         NEW p \in [WaitingBots(w) -> PlayTeams]
  PROVE  /\ Coherent(PullBots(w, p, s))
         /\ w.lv.timeout = 0 => PullBots(w, p, s).lv.timeout = 0
BY PlacedCoherent, ExitRulesCoherent DEF PullBots

-----------------------------------------------------------------------------
(* The frame of the match state machine.  It only runs unpaused.            *)

Unpaused(w) == Coherent(w) /\ w.lv.timeout = 0

\* Falling back to waiting clears flags and locks.
LEMMA BackToWaitingCoherent ==
  ASSUME NEW w, Unpaused(w)
  PROVE  Unpaused(BackToWaiting(w))
<1> DEFINE lv == [w.lv EXCEPT !.match = MATCH_WARMUP_DEFAULT, !.auto = {},
                              !.timer = 0]
           cl == IF w.lv.match \in {MATCH_WARMUP_READYUP, MATCH_COUNTDOWN}
                 THEN UnReadyAll(w.cl) ELSE w.cl
           v  == [lv |-> lv, cl |-> cl]
<1>0. /\ w.lv \in Level /\ w.cl \in [Clients -> Client]
      /\ w.lv.match \in MATCH_NONE..MATCH_ENDED
      /\ w.lv.timeout = 0 /\ w.lv.caller = NoClient /\ ~w.lv.resuming
  BY CoherentType DEF Unpaused, Level
<1>1. CASE w.lv.match > MATCH_COUNTDOWN
  <2>1. w.lv.match \notin {MATCH_WARMUP_READYUP, MATCH_COUNTDOWN}
    BY <1>1 DEF MATCH_WARMUP_READYUP, MATCH_COUNTDOWN
  <2>2. BackToWaiting(w) = w
    BY <1>1, <2>1 DEF BackToWaiting, Unpaused, Coherent, World
  <2>3. QED BY <2>2
<1>2. CASE ~(w.lv.match > MATCH_COUNTDOWN)
  <2>1. lv \in Level
    BY <1>0, PhaseFacts DEF Level
  <2>2. /\ lv.match = MATCH_WARMUP_DEFAULT /\ lv.auto = {}
        /\ SameTimeout(lv, w.lv) /\ SameRecord(lv, w.lv) /\ SameEnd(lv, w.lv)
    BY <1>0 DEF Level, SameTimeout, SameRecord, SameEnd
  <2>3. /\ cl \in [Clients -> Client]
        /\ \A c \in Clients : cl[c].state = "on" => ~cl[c].ready
    <3>1. CASE w.lv.match \in {MATCH_WARMUP_READYUP, MATCH_COUNTDOWN}
      BY <1>0, <3>1, UnReadyAllFacts
    <3>2. CASE w.lv.match \notin {MATCH_WARMUP_READYUP, MATCH_COUNTDOWN}
      BY <1>0, <1>2, <3>2 DEF Unpaused, Coherent, MATCH_COUNTDOWN, MATCH_ENDED
    <3>3. QED BY <3>1, <3>2
  <2>4. BackToWaiting(w) = v
    BY <1>2 DEF BackToWaiting
  <2> HIDE DEF lv, cl
  <2>5. v \in World /\ v.lv = lv /\ v.cl = cl
    BY <2>1, <2>3 DEF World
  <2>6. w.lv.queued = Unset /\ ~w.lv.open
    BY <1>2 DEF Unpaused, Coherent, MATCH_COUNTDOWN, MATCH_IN_PROGRESS,
                MATCH_ENDED
  <2>7. Coherent(v)
    BY <1>0, <2>2, <2>3, <2>5, <2>6
    DEF Unpaused, Coherent, SameTimeout, SameRecord, SameEnd,
        MATCH_WARMUP_DEFAULT, MATCH_IN_PROGRESS, MATCH_ENDED
  <2>8. QED BY <1>0, <2>2, <2>4, <2>5, <2>7 DEF Unpaused, SameTimeout
<1>3. QED BY <1>1, <1>2

\* An unpaused world is coherent and has no timeout.
LEMMA UnpausedFacts ==
  ASSUME NEW w, Unpaused(w)
  PROVE  /\ Coherent(w) /\ w \in World
         /\ w.lv \in Level /\ w.cl \in [Clients -> Client]
         /\ w.lv.match \in MATCH_NONE..MATCH_ENDED /\ w.lv.stats \in Records
         /\ w.lv.timeout = 0 /\ w.lv.caller = NoClient /\ ~w.lv.resuming
         /\ At(w, w.lv) = w
BY CoherentType DEF Unpaused, Level

\* Fields that do not matter may be changed in an unpaused frame too.
LEMMA SameUnpaused ==
  ASSUME NEW w, Unpaused(w), NEW lv \in Level, Same(lv, w.lv)
  PROVE  Unpaused(At(w, lv))
BY SameCoherent DEF Unpaused, At

\* A start does not pause.
LEMMA MatchStartUnpaused ==
  ASSUME NEW w, Unpaused(w)
  PROVE  Unpaused(MatchStart(w))
BY MatchStartCoherent DEF Unpaused

\* Pulling bots in does not pause.
LEMMA PullBotsUnpaused ==
  ASSUME NEW w, Unpaused(w), NEW s \in Scores,
         NEW p \in [WaitingBots(w) -> PlayTeams]
  PROVE  Unpaused(PullBots(w, p, s))
BY PullBotsCoherent DEF Unpaused

\* The frame of an empty roster settles the match it finds running.
LEMMA TickEmptyUnpaused ==
  ASSUME NEW w, Unpaused(w), NEW s \in Scores,
         NEW p \in [WaitingBots(w) -> PlayTeams]
  PROVE  Unpaused(TickEmpty(w, p, s))
<1> DEFINE running == w.lv.match = MATCH_IN_PROGRESS
           stats == IF running THEN Export(w.lv.stats) ELSE w.lv.stats
           open  == IF running THEN FALSE ELSE w.lv.open
           lv == [w.lv EXCEPT !.open = open, !.stats = stats,
                    !.match = MATCH_NONE, !.timer = 0, !.cancel = Unset,
                    !.auto = {}]
           cl == UnReadyAll(w.cl)
           v  == [lv |-> lv, cl |-> cl]
<1>1. CASE w.lv.queued # Unset \/ w.lv.inter # Unset
  BY <1>1 DEF TickEmpty
<1>2. CASE /\ ~(w.lv.queued # Unset \/ w.lv.inter # Unset)
           /\ w.lv.match = MATCH_NONE
  BY <1>2, PullBotsUnpaused DEF TickEmpty
<1>3. CASE /\ ~(w.lv.queued # Unset \/ w.lv.inter # Unset)
           /\ w.lv.match # MATCH_NONE
  <2>0. w.lv \in Level /\ w.lv.stats \in Records /\ w.lv.open \in BOOLEAN
    BY UnpausedFacts DEF Level
  <2>1. stats \in Records /\ stats # "live" /\ stats # "frozen"
    BY <1>3, <2>0, ExportFacts DEF Unpaused, Coherent
  <2>2. open = FALSE
    BY <1>3, <2>0 DEF Unpaused, Coherent
  <2> HIDE DEF stats, open
  <2>3. lv \in Level
    BY <2>0, <2>1, <2>2, PhaseFacts, TimerFacts DEF Level
  <2>4. /\ lv.match = MATCH_NONE /\ lv.auto = {} /\ SameTimeout(lv, w.lv)
        /\ ~lv.open /\ lv.stats = stats /\ SameEnd(lv, w.lv)
    BY <2>0, <2>2 DEF Level, SameTimeout, SameEnd
  <2>5. /\ cl \in [Clients -> Client]
        /\ \A c \in Clients : cl[c].state = "on" => ~cl[c].ready
    BY UnpausedFacts, UnReadyAllFacts
  <2>6. TickEmpty(w, p, s) = v
    BY <1>3 DEF TickEmpty, stats, open
  <2> HIDE DEF lv, cl
  <2>7. v \in World /\ v.lv = lv /\ v.cl = cl
    BY <2>3, <2>5 DEF World
  <2>8. w.lv.timeout = 0 /\ w.lv.caller = NoClient /\ ~w.lv.resuming
    BY UnpausedFacts
  <2>9. Coherent(v)
    BY <1>3, <2>1, <2>4, <2>5, <2>7, <2>8
    DEF Unpaused, Coherent, SameTimeout, SameEnd, MATCH_NONE,
        MATCH_IN_PROGRESS
  <2>10. QED BY <2>4, <2>6, <2>7, <2>8, <2>9 DEF Unpaused, SameTimeout
<1>4. QED BY <1>1, <1>2, <1>3

\* A warmup phase that is entered with the locks of no phase and with the
\* ready flags as they may be there.
LEMMA EnterWarmup ==
  ASSUME NEW w, Unpaused(w), w.lv.match < MATCH_IN_PROGRESS,
         NEW lv \in Level, NEW cl \in [Clients -> Client],
         lv.match < MATCH_IN_PROGRESS,
         lv.auto # {} => lv.match = MATCH_COUNTDOWN,
         SameTimeout(lv, w.lv), SameRecord(lv, w.lv), SameEnd(lv, w.lv),
         \A c \in Clients : cl[c].state = "on" /\ cl[c].ready =>
           lv.match \in {MATCH_WARMUP_READYUP, MATCH_COUNTDOWN}
  PROVE  Unpaused([lv |-> lv, cl |-> cl])
<1> DEFINE v == [lv |-> lv, cl |-> cl]
<1>1. v \in World /\ v.lv = lv /\ v.cl = cl
  BY DEF World
<1>2. w.lv.timeout = 0 /\ w.lv.caller = NoClient /\ ~w.lv.resuming
  BY UnpausedFacts
<1>3. /\ w.lv.match # MATCH_IN_PROGRESS /\ w.lv.match # MATCH_ENDED
      /\ lv.match # MATCH_IN_PROGRESS /\ lv.match # MATCH_ENDED
  BY DEF MATCH_IN_PROGRESS, MATCH_ENDED
<1> HIDE DEF v
<1>4. w.lv.queued = Unset /\ ~w.lv.open
  BY <1>3 DEF Unpaused, Coherent
<1>5. Coherent(v)
  BY <1>1, <1>2, <1>3, <1>4
  DEF Unpaused, Coherent, SameTimeout, SameRecord, SameEnd, AutomaticLockPhase
<1>6. QED BY <1>1, <1>2, <1>5 DEF Unpaused, SameTimeout, v

\* A countdown, or the match itself, begins from a coherent world.
LEMMA StartCountdownUnpaused ==
  ASSUME NEW w, Unpaused(w), w.lv.match < MATCH_IN_PROGRESS
  PROVE  Unpaused(StartCountdown(w))
<1> DEFINE k  == [w.lv EXCEPT !.match = MATCH_COUNTDOWN,
                              !.timer = CountdownFrames]
           u  == [lv |-> k, cl |-> w.cl]
           v  == At(u, Synchronize(k))
<1>0. w.lv \in Level /\ w.cl \in [Clients -> Client]
  BY UnpausedFacts
<1>1. k \in Level
  BY <1>0, PhaseFacts, NumbersAssumption DEF Level
<1>2. /\ k.match = MATCH_COUNTDOWN /\ SameTimeout(k, w.lv)
      /\ SameRecord(k, w.lv) /\ SameEnd(k, w.lv)
  BY <1>0 DEF Level, SameTimeout, SameRecord, SameEnd
<1>3. StartCountdown(w) = IF CountdownFrames > 0 THEN v ELSE MatchStart(v)
  BY DEF StartCountdown, At
<1> HIDE DEF k
<1>4. Unpaused(u)
  BY <1>0, <1>1, <1>2, EnterWarmup DEF MATCH_COUNTDOWN, MATCH_IN_PROGRESS
<1>5. Unpaused(v)
  BY <1>4, SynchronizeCoherent DEF Unpaused, At
<1>6. QED BY <1>3, <1>5, MatchStartUnpaused

\* A restarted warmup is coherent.
LEMMA RestartWarmupUnpaused ==
  ASSUME NEW w, Unpaused(w)
  PROVE  Unpaused(RestartWarmup(w))
<1> DEFINE v  == BackToWaiting(w)
           lv == [v.lv EXCEPT !.countStale = FALSE, !.timer = 0]
<1>1. Unpaused(v)
  BY BackToWaitingCoherent
<1>2. v.lv \in Level
  BY <1>1, UnpausedFacts
<1>3. RestartWarmup(w) = At(v, lv)
  BY DEF RestartWarmup
<1> HIDE DEF v
<1>4. lv \in Level
  BY <1>2 DEF Level
<1>5. Same(lv, v.lv)
  BY <1>2 DEF Level, Same, SamePhase, SameTimeout, SameRecord, SameEnd
<1>6. QED BY <1>1, <1>3, <1>4, <1>5, SameUnpaused

\* The frame of a sufficient roster stays coherent.
LEMMA TickReadyUnpaused ==
  ASSUME NEW w, Unpaused(w)
  PROVE  Unpaused(TickReady(w))
<1> DEFINE k  == [w.lv EXCEPT !.cancel = Unset]
           v  == At(w, k)
           up == [k EXCEPT !.match = MATCH_WARMUP_READYUP, !.timer = 0]
<1>0. w.lv \in Level /\ w.cl \in [Clients -> Client]
  BY UnpausedFacts
<1>1. k \in Level /\ Same(k, w.lv)
  BY <1>0, TimerFacts
  DEF Level, Same, SamePhase, SameTimeout, SameRecord, SameEnd
<1>2. v.lv = k /\ v.cl = w.cl
  BY DEF At
<1> HIDE DEF k
<1>3. Unpaused(v)
  BY <1>1, SameUnpaused
<1>4. CASE k.match = MATCH_WARMUP_DEFAULT
  <2>1. up \in Level
    BY <1>1, PhaseFacts DEF Level
  <2>2. /\ up.match = MATCH_WARMUP_READYUP /\ up.auto = k.auto
        /\ SameTimeout(up, k) /\ SameRecord(up, k) /\ SameEnd(up, k)
    BY <1>1 DEF Level, SameTimeout, SameRecord, SameEnd
  <2>3. /\ v.lv.match < MATCH_IN_PROGRESS
        /\ up.match < MATCH_IN_PROGRESS
    BY <1>2, <1>4, <2>2
    DEF MATCH_WARMUP_DEFAULT, MATCH_WARMUP_READYUP, MATCH_IN_PROGRESS
  <2>4. k.auto = {}
    BY <1>2, <1>3, <1>4
    DEF Unpaused, Coherent, AutomaticLockPhase, MATCH_WARMUP_DEFAULT,
        MATCH_COUNTDOWN, MATCH_IN_PROGRESS, MATCH_ENDED
  <2> HIDE DEF up
  <2>5. Unpaused(At(v, up))
    BY <1>0, <1>2, <1>3, <2>1, <2>2, <2>3, <2>4, EnterWarmup DEF At
  <2>6. Unpaused(StartCountdown(v))
    BY <1>3, <2>3, StartCountdownUnpaused
  <2>7. TickReady(w) \in {v, RestartWarmup(v), At(v, up), StartCountdown(v)}
    BY <1>2, <1>4 DEF TickReady, k, up
  <2>8. QED BY <1>3, <2>5, <2>6, <2>7, RestartWarmupUnpaused
<1>5. CASE k.match = MATCH_WARMUP_READYUP
  <2>1. v.lv.match < MATCH_IN_PROGRESS
    BY <1>2, <1>5 DEF MATCH_WARMUP_READYUP, MATCH_IN_PROGRESS
  <2>2. k.match # MATCH_WARMUP_DEFAULT
    BY <1>5 DEF MATCH_WARMUP_READYUP, MATCH_WARMUP_DEFAULT
  <2>3. TickReady(w) \in {v, RestartWarmup(v), StartCountdown(v)}
    BY <1>2, <2>2 , <1>5 DEF TickReady, k
  <2>4. QED
    BY <1>3, <2>1, <2>3, RestartWarmupUnpaused, StartCountdownUnpaused
<1>6. CASE k.match \notin {MATCH_WARMUP_DEFAULT, MATCH_WARMUP_READYUP}
  <2>1. TickReady(w) \in {v, RestartWarmup(v), MatchStart(v)}
    BY <1>2, <1>6 DEF TickReady, k
  <2>2. QED BY <1>3, <2>1, RestartWarmupUnpaused, MatchStartUnpaused
<1>7. QED BY <1>4, <1>5, <1>6

\* The frame of an insufficient roster stays coherent.
LEMMA TickNotEnoughUnpaused ==
  ASSUME NEW w, Unpaused(w)
  PROVE  Unpaused(TickNotEnough(w))
<1> DEFINE left == IF w.lv.cancel = Unset THEN CancelFrames ELSE w.lv.cancel
           wait == [w.lv EXCEPT !.cancel = left]
           stop == [w.lv EXCEPT !.cancel = Unset]
<1>0. w.lv \in Level
  BY UnpausedFacts
<1>1. left \in Timers
  BY <1>0, TimerFacts DEF Level
<1>2. TickNotEnough(w) \in {At(w, wait), BackToWaiting(At(w, stop))}
  BY DEF TickNotEnough
<1> HIDE DEF left
<1>3. wait \in Level /\ stop \in Level
  BY <1>0, <1>1, TimerFacts DEF Level
<1>4. Same(wait, w.lv) /\ Same(stop, w.lv)
  BY <1>0 DEF Level, Same, SamePhase, SameTimeout, SameRecord, SameEnd
<1>5. Unpaused(At(w, wait)) /\ Unpaused(At(w, stop))
  BY <1>3, <1>4, SameUnpaused
<1>6. QED BY <1>2, <1>5, BackToWaitingCoherent

\* Leaving the start-up delay stays coherent.
LEMMA LeaveDelayUnpaused ==
  ASSUME NEW w, Unpaused(w)
  PROVE  Unpaused(LeaveDelay(w)) /\ WaitingBots(LeaveDelay(w)) = WaitingBots(w)
<1> DEFINE lv == [w.lv EXCEPT !.match = MATCH_WARMUP_DEFAULT, !.timer = 0,
                              !.countStale = FALSE, !.auto = {}]
<1>0. w.lv \in Level /\ w.cl \in [Clients -> Client]
  BY UnpausedFacts
<1>1. CASE w.lv.match # MATCH_WARMUP_DELAYED
  BY <1>1 DEF LeaveDelay
<1>2. CASE w.lv.match = MATCH_WARMUP_DELAYED
  <2>1. lv \in Level
    BY <1>0, PhaseFacts DEF Level
  <2>2. /\ lv.match = MATCH_WARMUP_DEFAULT /\ lv.auto = {}
        /\ SameTimeout(lv, w.lv) /\ SameRecord(lv, w.lv) /\ SameEnd(lv, w.lv)
    BY <1>0 DEF Level, SameTimeout, SameRecord, SameEnd
  <2>3. LeaveDelay(w) = [lv |-> lv, cl |-> w.cl]
    BY <1>2 DEF LeaveDelay, At
  <2> HIDE DEF lv
  <2>4. w.lv.match < MATCH_IN_PROGRESS /\ lv.match < MATCH_IN_PROGRESS
    BY <1>2, <2>2
    DEF MATCH_WARMUP_DELAYED, MATCH_WARMUP_DEFAULT, MATCH_IN_PROGRESS
  <2>5. \A c \in Clients : ~(w.cl[c].state = "on" /\ w.cl[c].ready)
    BY <1>2 DEF Unpaused, Coherent, MATCH_WARMUP_DELAYED,
                MATCH_WARMUP_READYUP, MATCH_COUNTDOWN, MATCH_ENDED
  <2>6. Unpaused([lv |-> lv, cl |-> w.cl])
    BY <1>0, <2>1, <2>2, <2>4, <2>5, EnterWarmup
  <2>7. QED BY <2>3, <2>6 DEF WaitingBots, Playing, Present
<1>3. QED BY <1>1, <1>2

\* Judging the roster, pulling bots in, and acting on the verdict.
LEMMA TickRosterUnpaused ==
  ASSUME NEW w, Unpaused(w), NEW s \in Scores,
         NEW p \in [WaitingBots(w) -> PlayTeams]
  PROVE  Unpaused(TickRoster(w, p, s))
<1> DEFINE v  == PullBots(w, p, s)
           lv == [v.lv EXCEPT !.cancel = Unset]
<1>1. Unpaused(v)
  BY PullBotsUnpaused
<1>2. v.lv \in Level
  BY <1>1, UnpausedFacts
<1>3. TickRoster(w, p, s) \in
        {BackToWaiting(At(v, lv)), TickNotEnough(v), TickReady(v)}
  BY DEF TickRoster
<1> HIDE DEF v
<1>4. lv \in Level /\ Same(lv, v.lv)
  BY <1>2, TimerFacts
  DEF Level, Same, SamePhase, SameTimeout, SameRecord, SameEnd
<1>5. Unpaused(At(v, lv))
  BY <1>1, <1>4, SameUnpaused
<1>6. QED
  BY <1>1, <1>3, <1>5, BackToWaitingCoherent, TickNotEnoughUnpaused,
     TickReadyUnpaused

\* A whole frame of the match state machine stays coherent.
LEMMA TickWarmupStateUnpaused ==
  ASSUME NEW w, Unpaused(w), NEW s \in Scores,
         NEW p \in [WaitingBots(w) -> PlayTeams]
  PROVE  Unpaused(TickWarmupState(w, p, s))
<1> DEFINE lv == [w.lv EXCEPT !.match = MATCH_WARMUP_DELAYED,
                              !.timer = DelayFrames, !.auto = {}]
           cl == UnReadyAll(w.cl)
           v  == [lv |-> lv, cl |-> cl]
<1>0. w.lv \in Level /\ w.cl \in [Clients -> Client]
  BY UnpausedFacts
<1>1. CASE w.lv.match = MATCH_NONE
  <2>1. lv \in Level
    BY <1>0, PhaseFacts, NumbersAssumption DEF Level
  <2>2. /\ lv.match = MATCH_WARMUP_DELAYED /\ lv.auto = {}
        /\ SameTimeout(lv, w.lv) /\ SameRecord(lv, w.lv) /\ SameEnd(lv, w.lv)
    BY <1>0 DEF Level, SameTimeout, SameRecord, SameEnd
  <2>3. /\ cl \in [Clients -> Client]
        /\ \A c \in Clients : cl[c].state = "on" => ~cl[c].ready
    BY <1>0, UnReadyAllFacts
  <2>4. TickWarmupState(w, p, s) \in {TickEmpty(w, p, s), MatchStart(w), v}
    BY <1>1 DEF TickWarmupState
  <2> HIDE DEF lv, cl
  <2>5. w.lv.match < MATCH_IN_PROGRESS /\ lv.match < MATCH_IN_PROGRESS
    BY <1>1, <2>2 DEF MATCH_NONE, MATCH_WARMUP_DELAYED, MATCH_IN_PROGRESS
  <2>6. Unpaused(v)
    BY <2>1, <2>2, <2>3, <2>5, EnterWarmup
  <2>7. QED BY <2>4, <2>6, TickEmptyUnpaused, MatchStartUnpaused
<1>2. CASE w.lv.match # MATCH_NONE
  <2>1. TickWarmupState(w, p, s) \in
          {TickEmpty(w, p, s), MatchStart(w), w, TickRoster(LeaveDelay(w), p, s)}
    BY <1>2 DEF TickWarmupState
  <2>2. Unpaused(TickRoster(LeaveDelay(w), p, s))
    BY LeaveDelayUnpaused, TickRosterUnpaused
  <2>3. QED BY <2>1, <2>2, TickEmptyUnpaused, MatchStartUnpaused
<1>3. QED BY <1>1, <1>2

-----------------------------------------------------------------------------
(* Time, timeouts, and the small changes commands make.                     *)

\* A deadline stays one, and is set exactly as long as it was.
LEMMA LessFacts ==
  ASSUME NEW t \in Timers
  PROVE  /\ Less(t) \in Timers
         /\ Less(t) = Unset <=> t = Unset
         /\ t \in Nat => Less(t) \in Nat
BY DEF Less, Timers, Unset

\* An age stays a natural number.
LEMMA UpToFacts ==
  ASSUME NEW n, NEW t \in Nat
  PROVE  UpTo(n, t) \in Nat
BY DEF UpTo

\* Time alone breaks nothing.
LEMMA ElapseCoherent ==
  ASSUME NEW w, Coherent(w)
  PROVE  /\ Coherent(At(w, Elapse(w.lv)))
         /\ Elapse(w.lv).timeout = w.lv.timeout
         /\ Elapse(w.lv).inter = Unset <=> w.lv.inter = Unset
         /\ Elapse(w.lv).score = w.lv.score
<1> DEFINE inter == IF w.lv.inter = Unset THEN Unset
                    ELSE UpTo(FloorFrames + 1, w.lv.inter)
           clock == UpTo(Max({2, TimeLimit}), w.lv.clock)
           lv == Elapse(w.lv)
<1>0. w.lv \in Level
  BY CoherentType
<1>1. /\ w.lv.timer \in Nat /\ w.lv.timer \in Timers
      /\ w.lv.cancel \in Timers /\ w.lv.queued \in Timers
      /\ w.lv.exitTimer \in Timers /\ w.lv.tied \in Timers
      /\ w.lv.inter \in Timers /\ w.lv.clock \in Nat
  BY <1>0 DEF Level, Timers
<1>2. /\ Less(w.lv.timer) \in Nat /\ Less(w.lv.cancel) \in Timers
      /\ Less(w.lv.queued) \in Timers /\ Less(w.lv.exitTimer) \in Timers
      /\ Less(w.lv.tied) \in Timers
      /\ Less(w.lv.queued) = Unset <=> w.lv.queued = Unset
  BY <1>1, LessFacts
<1>3. inter \in Timers /\ (inter = Unset <=> w.lv.inter = Unset)
  BY <1>1, UpToFacts DEF Timers, Unset
<1>4. clock \in Nat
  BY <1>1, UpToFacts
<1>5. lv = [w.lv EXCEPT !.timer = Less(w.lv.timer),
              !.cancel = Less(w.lv.cancel), !.queued = Less(w.lv.queued),
              !.exitTimer = Less(w.lv.exitTimer), !.tied = Less(w.lv.tied),
              !.inter = inter, !.clock = clock]
  BY DEF Elapse
<1> HIDE DEF inter, clock, lv
<1>6. lv \in Level
  BY <1>0, <1>2, <1>3, <1>4, <1>5 DEF Level
<1>7. /\ SamePhase(lv, w.lv) /\ SameTimeout(lv, w.lv) /\ SameRecord(lv, w.lv)
      /\ lv.queued = Less(w.lv.queued) /\ lv.inter = inter
      /\ lv.exit = w.lv.exit /\ lv.changing = w.lv.changing
      /\ lv.score = w.lv.score
  BY <1>0, <1>5 DEF Level, SamePhase, SameTimeout, SameRecord
<1>8. /\ At(w, lv) \in World
      /\ At(w, lv).lv = lv /\ At(w, lv).cl = w.cl
  BY <1>6, CoherentType, AtFacts
<1>9. Coherent(At(w, lv))
  BY <1>2, <1>3, <1>7, <1>8
  DEF Coherent, SamePhase, SameTimeout, SameRecord, AutomaticLockPhase
<1>10. QED BY <1>3, <1>7, <1>9 DEF lv, SameTimeout

\* Only a timeout in place is ever changed, except where one is called.
LEMMA TimeoutChangeCoherent ==
  ASSUME NEW w, Coherent(w), NEW n \in Nat, NEW c \in Clients \cup {NoClient},
         NEW resuming \in BOOLEAN,
         n > 0 => w.lv.match \in {MATCH_IN_PROGRESS, MATCH_ENDED},
         resuming => n > 0,
         c # NoClient => n > 0 /\ ~resuming /\ w.cl[c].state = "on"
  PROVE  Coherent(At(w, [w.lv EXCEPT !.timeout = n, !.caller = c,
                                     !.resuming = resuming]))
<1> DEFINE lv == [w.lv EXCEPT !.timeout = n, !.caller = c,
                              !.resuming = resuming]
<1>0. w.lv \in Level
  BY CoherentType
<1>1. lv \in Level
  BY <1>0 DEF Level
<1>2. /\ SamePhase(lv, w.lv) /\ SameRecord(lv, w.lv) /\ SameEnd(lv, w.lv)
      /\ lv.timeout = n /\ lv.caller = c /\ lv.resuming = resuming
  BY <1>0 DEF Level, SamePhase, SameRecord, SameEnd
<1> HIDE DEF lv
<1>3. /\ At(w, lv) \in World
      /\ At(w, lv).lv = lv /\ At(w, lv).cl = w.cl
  BY <1>1, CoherentType, AtFacts
<1>4. Coherent(At(w, lv))
  BY <1>2, <1>3
  DEF Coherent, SamePhase, SameRecord, SameEnd, AutomaticLockPhase
<1>5. QED BY <1>4 DEF lv

\* A finished timeout leaves no caller behind.
LEMMA FinishTimeoutCoherent ==
  ASSUME NEW w, Coherent(w)
  PROVE  Coherent(At(w, FinishTimeout(w.lv)))
<1>1. Coherent(At(w, [w.lv EXCEPT !.timeout = 0, !.caller = NoClient,
                                 !.resuming = FALSE]))
  <2>1. 0 \in Nat /\ NoClient \in Clients \cup {NoClient} /\ ~(0 > 0)
    OBVIOUS
  <2>2. QED BY <2>1, TimeoutChangeCoherent
<1>2. QED BY <1>1 DEF FinishTimeout

\* Nor does one that begins to resume.
LEMMA BeginResumeCountdownCoherent ==
  ASSUME NEW w, Coherent(w), w.lv.timeout > 0
  PROVE  Coherent(At(w, BeginResumeCountdown(w.lv)))
<1>1. CASE ResumeFrames = 0
  BY <1>1, FinishTimeoutCoherent DEF BeginResumeCountdown
<1>2. CASE ResumeFrames # 0
  <2>1. ResumeFrames \in Nat /\ ResumeFrames > 0
    BY <1>2, NumbersAssumption
  <2>2. w.lv.match \in {MATCH_IN_PROGRESS, MATCH_ENDED}
    BY DEF Coherent
  <2>3. Coherent(At(w, [w.lv EXCEPT !.timeout = ResumeFrames,
                                    !.caller = NoClient, !.resuming = TRUE]))
    BY <2>1, <2>2, TimeoutChangeCoherent
  <2>4. QED BY <1>2, <2>3 DEF BeginResumeCountdown
<1>3. QED BY <1>1, <1>2

\* The ready flags change only while there is something to be ready for.
LEMMA ReadyChangeCoherent ==
  ASSUME NEW w, Coherent(w), NEW cl \in [Clients -> Client],
         \A c \in Clients : cl[c].state = w.cl[c].state,
         \/ w.lv.match \in {MATCH_WARMUP_READYUP, MATCH_COUNTDOWN, MATCH_ENDED}
         \/ \A c \in Clients : cl[c].state = "on" /\ cl[c].ready => w.cl[c].ready
  PROVE  Coherent([lv |-> w.lv, cl |-> cl])
<1> DEFINE v == [lv |-> w.lv, cl |-> cl]
<1>1. w.lv \in Level /\ w.lv.caller \in Clients \cup {NoClient}
  BY CoherentType DEF Level
<1>2. v \in World /\ v.lv = w.lv /\ v.cl = cl
  BY <1>1 DEF World
<1> HIDE DEF v
<1>3. Coherent(v)
  BY <1>1, <1>2 DEF Coherent
<1>4. QED BY <1>3 DEF v

-----------------------------------------------------------------------------
(* Steps.                                                                   *)

IndInv == Inv /\ calledIn \subseteq Clients

\* The variables are the parts of the world Here.
LEMMA HereFacts ==
  ASSUME IndInv
  PROVE  /\ Coherent(Here) /\ Here.lv = level /\ Here.cl = client
         /\ level \in Level /\ client \in [Clients -> Client]
         /\ Leads(level) \subseteq Scores /\ level.score \in Scores
<1>1. Coherent(Here) /\ Here.lv = level /\ Here.cl = client
  BY DEF IndInv, Inv, Here
<1>2. level \in Level /\ client \in [Clients -> Client]
  BY <1>1, CoherentType
<1>3. level.score \in Scores
  BY <1>2 DEF Level
<1>4. QED BY <1>1, <1>2, <1>3 DEF Leads

\* A step to a coherent world keeps the inductive invariant.
LEMMA BecomeCoherent ==
  ASSUME IndInv, NEW w, Coherent(w), Become(w)
  PROVE  IndInv'
<1>1. level' = w.lv /\ client' = w.cl /\ calledIn' \subseteq Clients
  BY DEF Become, IndInv
<1>2. w = [lv |-> w.lv, cl |-> w.cl]
  BY DEF Coherent, World
<1>3. Here' = w
  BY <1>1, <1>2 DEF Here
<1>4. QED BY <1>1, <1>3 DEF IndInv, Inv

\* The frame that leaves the level keeps it.
LEMMA ExitFrameKeeps ==
  ASSUME IndInv, ExitFrame
  PROVE  IndInv'
<1> DEFINE w == At(Here, Elapse(level))
<1>1. level.inter # Unset
  BY DEF ExitFrame, IndInv, Inv, Coherent, Here
<1>2. Coherent(w) /\ w.lv = Elapse(level) /\ w.lv.inter # Unset
  BY <1>1, HereFacts, ElapseCoherent DEF At
<1>3. At(w, ExitLevel(w.lv)) = At(Here, ExitLevel(Elapse(level)))
  BY DEF At
<1> HIDE DEF w
<1>4. Coherent(At(Here, ExitLevel(Elapse(level))))
  BY <1>2, <1>3, ExitLevelCoherent
<1>5. QED BY <1>4, BecomeCoherent DEF ExitFrame

\* A frame of a timeout keeps it.
LEMMA PausedFrameKeeps ==
  ASSUME IndInv, PausedFrame
  PROVE  IndInv'
<1> DEFINE left == [level EXCEPT !.timeout = level.timeout - 1]
           w == At(Here, IF level.timeout = 1 THEN TimeoutEnd(level) ELSE left)
<1>1. level.timeout > 0 /\ Become(w)
  BY DEF PausedFrame
<1>2. /\ Coherent(At(Here, FinishTimeout(level)))
      /\ Coherent(At(Here, BeginResumeCountdown(level)))
  BY <1>1, HereFacts, FinishTimeoutCoherent, BeginResumeCountdownCoherent
<1>3. Coherent(At(Here, TimeoutEnd(level)))
  BY <1>2 DEF TimeoutEnd
<1>4. CASE level.timeout = 1
  BY <1>1, <1>3, <1>4, BecomeCoherent
<1>5. CASE level.timeout # 1
  <2>0. level \in Level /\ level.timeout \in Nat
    BY HereFacts DEF Level
  <2>1. level.timeout - 1 \in Nat /\ level.timeout - 1 > 0
    BY <1>1, <1>5, <2>0
  <2>2. left \in Level
    BY <2>0, <2>1 DEF Level
  <2>3. /\ SamePhase(left, level) /\ SameRecord(left, level)
        /\ SameEnd(left, level) /\ left.timeout = level.timeout - 1
        /\ left.caller = level.caller /\ left.resuming = level.resuming
    BY <2>0 DEF Level, SamePhase, SameRecord, SameEnd
  <2>4. w = At(Here, left)
    BY <1>5
  <2> HIDE DEF left
  <2>5. /\ At(Here, left) \in World
        /\ At(Here, left).lv = left /\ At(Here, left).cl = client
    BY <2>2, HereFacts, CoherentType, AtFacts
  <2>6. Coherent(At(Here, left))
    BY <1>1, <2>1, <2>3, <2>5
    DEF IndInv, Inv, Here, Coherent, SamePhase, SameRecord, SameEnd,
        AutomaticLockPhase
  <2>7. QED BY <1>1, <2>4, <2>6, BecomeCoherent
<1>6. QED BY <1>4, <1>5

\* A frame of the game keeps it.
LEMMA GameFrameKeeps ==
  ASSUME IndInv, GameFrame
  PROVE  IndInv'
<1> DEFINE e == At(Here, Elapse(level))
           w == At(Here, Reconcile(Elapse(level)))
<1>1. level.timeout = 0
  BY DEF GameFrame
<1>2. Coherent(e) /\ e.lv = Elapse(level) /\ e.lv.timeout = 0
  BY <1>1, HereFacts, ElapseCoherent DEF At
<1>3. Unpaused(w)
  <2>1. At(e, Reconcile(e.lv)) = w /\ w.lv = Reconcile(e.lv)
    BY DEF At
  <2> HIDE DEF e, w
  <2>2. QED BY <1>2, <2>1, ReconcileCoherent DEF Unpaused
<1>4. PICK p \in Placements(w), s \in {level.score} \cup Leads(level) :
        Become(CheckDMExitRules(TickWarmupState(w, p, s)))
  BY DEF GameFrame
<1>5. s \in Scores
  BY <1>4, HereFacts
<1>6. p \in [WaitingBots(w) -> PlayTeams]
  BY <1>4 DEF Placements
<1> HIDE DEF w
<1>7. Coherent(TickWarmupState(w, p, s))
  BY <1>3, <1>5, <1>6, TickWarmupStateUnpaused DEF Unpaused
<1>8. Coherent(CheckDMExitRules(TickWarmupState(w, p, s)))
  BY <1>7, ExitRulesCoherent
<1>9. QED BY <1>4, <1>8, BecomeCoherent

\* The new level satisfies it, whatever the old one was like.
LEMMA ChangeLevelKeeps ==
  ASSUME IndInv, ChangeLevel
  PROVE  IndInv'
<1>0. level \in Level /\ client \in [Clients -> Client]
  BY HereFacts
<1>1. level' \in Level
  <2>1. "tied" \in Scores /\ "idle" \in Records /\ level.lockCvar \in BOOLEAN
    BY <1>0 DEF Scores, Records, Level
  <2>2. QED BY <2>1, PhaseFacts, TimerFacts DEF ChangeLevel, Level
<1>2. /\ client' \in [Clients -> Client]
      /\ \A c \in Clients : client'[c].state # "on"
  BY <1>0 DEF ChangeLevel, Client
<1>3. /\ level'.match = MATCH_NONE /\ level'.auto = {} /\ level'.timeout = 0
      /\ level'.caller = NoClient /\ ~level'.resuming /\ ~level'.open
      /\ level'.stats = "idle" /\ level'.queued = Unset /\ ~level'.exit
  BY DEF ChangeLevel
<1>4. Here' \in World /\ Here'.lv = level' /\ Here'.cl = client'
  BY <1>1, <1>2 DEF Here, World
<1>5. Coherent(Here)'
  BY <1>2, <1>3, <1>4 DEF Coherent, MATCH_NONE, MATCH_IN_PROGRESS
<1>6. QED BY <1>5 DEF IndInv, Inv, ChangeLevel

\* A client may be ready only when there is something to be ready for.
LEMMA ReadyFacts ==
  ASSUME IndInv, NEW c \in Clients, client[c].state = "on"
  PROVE  /\ client[c].ready \in BOOLEAN
         /\ client[c].ready =>
              level.match \in {MATCH_WARMUP_READYUP, MATCH_COUNTDOWN,
                               MATCH_ENDED}
BY HereFacts DEF IndInv, Inv, Coherent, Here, Client

\* A client that connects keeps it.
LEMMA JoinKeeps ==
  ASSUME IndInv, NEW c \in Clients, Join(c)
  PROVE  IndInv'
<1> DEFINE w == Spawn(Here, c, "spectator", FALSE, level.score)
           v == At(w, Reconcile(w.lv))
<1>1. "spectator" \in Teams /\ PickTeam(w) \subseteq Teams
  BY DEF Teams, PickTeam
<1>2. Coherent(w)
  BY <1>1, HereFacts, SpawnCoherent
<1>3. Coherent(v)
  BY <1>2, ReconcileCoherent
<1> DEFINE in(t, s) == IF IsTeamLocked(w.lv, t) THEN v
                      ELSE Spawn(v, c, t, FALSE, s)
<1>4. \/ Become(w)
      \/ \E t \in PickTeam(w), s \in Leads(w.lv) : Become(in(t, s))
  BY DEF Join
<1>5. Leads(w.lv) \subseteq Scores
  <2>1. w.lv \in Level
    BY <1>2, CoherentType
  <2>2. w.lv.score \in Scores
    BY <2>1 DEF Level
  <2>3. QED BY <2>2 DEF Leads
<1> HIDE DEF w, v
<1>6. ASSUME NEW t \in PickTeam(w), NEW s \in Leads(w.lv)
      PROVE  Coherent(in(t, s))
  <2>1. Coherent(Spawn(v, c, t, FALSE, s))
    BY <1>1, <1>3, <1>5, SpawnCoherent
  <2>2. in(t, s) \in {v, Spawn(v, c, t, FALSE, s)}
    OBVIOUS
  <2>3. QED BY <1>3, <2>1, <2>2
<1> HIDE DEF in
<1>7. QED BY <1>2, <1>4, <1>6, BecomeCoherent

\* A client that comes along from the last map keeps it.
LEMMA BeginKeeps ==
  ASSUME IndInv, NEW c \in Clients, Begin(c)
  PROVE  IndInv'
<1>1. client[c].team \in Teams
  BY HereFacts DEF Client
<1>2. Coherent(Spawn(Here, c, client[c].team, FALSE, level.score))
  BY <1>1, HereFacts, SpawnCoherent
<1>3. QED BY <1>2, BecomeCoherent DEF Begin

\* A client that leaves, before the exit rules run.
Left(c, s) ==
  [ lv |-> [level EXCEPT
              !.caller = IF level.caller = c THEN NoClient ELSE level.caller,
              !.score = s],
    cl |-> [client EXCEPT ![c] = [state |-> "off", team |-> "spectator",
                                  ready |-> FALSE, timeoutUsed |-> FALSE]] ]

\* It takes its timeout's authority with it,
LEMMA LeftCoherent ==
  ASSUME IndInv, NEW c \in Clients, NEW s \in Scores
  PROVE  /\ Coherent(Left(c, s))
         /\ SamePhase(Left(c, s).lv, level) /\ SameRecord(Left(c, s).lv, level)
         /\ SameEnd(Left(c, s).lv, level)
         /\ Left(c, s).lv.lockStale = level.lockStale
<1> DEFINE heir == IF level.caller = c THEN NoClient ELSE level.caller
           gone == [state |-> "off", team |-> "spectator",
                    ready |-> FALSE, timeoutUsed |-> FALSE]
           cl   == [client EXCEPT ![c] = gone]
           lv   == [level EXCEPT !.caller = heir, !.score = s]
           v    == [lv |-> lv, cl |-> cl]
<1>1. Left(c, s) = v
  BY DEF Left
<1>2. level \in Level /\ client \in [Clients -> Client]
  BY HereFacts
<1>3. heir \in Clients \cup {NoClient} /\ heir # c
      /\ (heir # NoClient => heir = level.caller)
  BY <1>2, ClientsAssumption DEF Level, Clients
<1> HIDE DEF heir
<1>4. lv \in Level
  BY <1>2, <1>3 DEF Level
<1>5. /\ SamePhase(lv, level) /\ SameRecord(lv, level)
      /\ SameEnd(lv, level) /\ lv.caller = heir
      /\ lv.timeout = level.timeout /\ lv.resuming = level.resuming
      /\ lv.lockStale = level.lockStale
  BY <1>2 DEF Level, SamePhase, SameRecord, SameEnd
<1>6. gone \in Client /\ gone.state # "on"
  BY DEF Client, Teams
<1> HIDE DEF gone
<1>7. /\ cl \in [Clients -> Client]
      /\ \A d \in Clients : cl[d] = IF d = c THEN gone ELSE client[d]
  BY <1>2, <1>6
<1> HIDE DEF lv, cl
<1>8. v \in World /\ v.lv = lv /\ v.cl = cl
  BY <1>4, <1>7 DEF World
<1>9. Coherent(v)
  BY <1>3, <1>5, <1>6, <1>7, <1>8
  DEF IndInv, Inv, Here, Coherent, SamePhase, SameRecord, SameEnd,
      AutomaticLockPhase
<1>10. QED BY <1>1, <1>5, <1>8, <1>9

\* and its going keeps the invariant.
LEMMA LeaveKeeps ==
  ASSUME IndInv, NEW c \in Clients, Leave(c)
  PROVE  IndInv'
<1>1. PICK s \in Scores : Become(CheckDMExitRules(Left(c, s)))
  BY HereFacts DEF Leave, Left
<1>2. QED BY <1>1, LeftCoherent, ExitRulesCoherent, BecomeCoherent

\* A respawn keeps it.
LEMMA RespawnKeeps ==
  ASSUME IndInv, NEW c \in Clients, Respawn(c)
  PROVE  IndInv'
<1>1. client[c].team \in Teams /\ client[c].state = "on"
  BY HereFacts DEF Respawn, Playing, Present, Client
<1>2. Coherent(Spawn(Here, c, client[c].team, client[c].ready, level.score))
  BY <1>1, HereFacts, ReadyFacts, SpawnCoherent
<1>3. QED BY <1>2, BecomeCoherent DEF Respawn

\* An administrator's team change keeps it.
LEMMA SetTeamKeeps ==
  ASSUME IndInv, NEW c \in Clients, NEW t \in Teams, SetTeam(c, t)
  PROVE  IndInv'
<1>1. client[c].state = "on"
  BY DEF SetTeam
<1>2. ASSUME NEW s \in Leads(level)
      PROVE  Coherent(Spawn(Here, c, t, client[c].ready, s))
  BY <1>1, HereFacts, ReadyFacts, SpawnCoherent
<1>3. QED BY <1>2, BecomeCoherent DEF SetTeam

\* A team change, granted or refused, keeps it.
LEMMA TeamKeeps ==
  ASSUME IndInv, NEW c \in Clients, NEW t \in Teams, Team(c, t)
  PROVE  IndInv'
<1> DEFINE w == At(Here, Reconcile(level))
<1>1. client[c].state = "on"
  BY DEF Team, MayCommand
<1>2. Coherent(w)
  BY HereFacts, ReconcileCoherent
<1>3. w.lv.match = level.match
  BY HereFacts DEF At, Reconcile, Synchronize, Level
<1>4. \/ Become(w)
      \/ \E s \in Leads(level) : Become(Spawn(w, c, t, client[c].ready, s))
  BY DEF Team
<1> HIDE DEF w
<1>5. ASSUME NEW s \in Leads(level)
      PROVE  Coherent(Spawn(w, c, t, client[c].ready, s))
  BY <1>1, <1>2, <1>3, HereFacts, ReadyFacts, SpawnCoherent
<1>6. QED BY <1>2, <1>4, <1>5, BecomeCoherent

\* Steps that change fields coherence says nothing of.
LEMMA MinorKeeps ==
  ASSUME IndInv, NEW lv \in Level, Same(lv, level), Become(At(Here, lv))
  PROVE  IndInv'
<1>1. Coherent(At(Here, lv))
  BY HereFacts, SameCoherent
<1>2. QED BY <1>1, BecomeCoherent

\* A score, and the exit rules it runs, keeps it.
LEMMA ScoreKeeps ==
  ASSUME IndInv, NEW s \in Scores, Score(s)
  PROVE  IndInv'
<1> DEFINE lv == [level EXCEPT !.score = s]
<1>0. level \in Level
  BY HereFacts
<1>1. lv \in Level /\ Same(lv, level)
  BY <1>0 DEF Level, Same, SamePhase, SameTimeout, SameRecord, SameEnd
<1>2. Become(CheckDMExitRules(At(Here, lv)))
  BY DEF Score
<1> HIDE DEF lv
<1>3. Coherent(At(Here, lv))
  BY <1>1, HereFacts, SameCoherent
<1>4. QED BY <1>2, <1>3, ExitRulesCoherent, BecomeCoherent

\* Readying keeps it.
LEMMA ToggleReadyUpKeeps ==
  ASSUME IndInv, NEW c \in Clients, ToggleReadyUp(c)
  PROVE  IndInv'
<1> DEFINE cl == [client EXCEPT ![c].ready = ~client[c].ready]
<1>1. /\ cl \in [Clients -> Client]
      /\ \A d \in Clients : cl[d].state = client[d].state
  BY HereFacts DEF Client
<1>2. /\ Become([lv |-> level, cl |-> cl])
      /\ level.match \in {MATCH_WARMUP_READYUP, MATCH_COUNTDOWN, MATCH_ENDED}
  BY DEF ToggleReadyUp
<1> HIDE DEF cl
<1>3. Coherent([lv |-> level, cl |-> cl])
  BY <1>1, <1>2, HereFacts, ReadyChangeCoherent
<1>4. QED BY <1>2, <1>3, BecomeCoherent

\* A called timeout belongs to a client who is there.
LEMMA TimeOutKeeps ==
  ASSUME IndInv, NEW c \in Clients, TimeOut(c)
  PROVE  IndInv'
<1> DEFINE lv == [level EXCEPT !.timeout = TimeoutFrames, !.caller = c,
                               !.resuming = FALSE]
           cl == [client EXCEPT ![c].timeoutUsed = TRUE]
           v  == At(Here, lv)
<1>1. /\ TimeoutFrames \in Nat /\ TimeoutFrames > 0
      /\ level.match \in {MATCH_IN_PROGRESS, MATCH_ENDED}
      /\ client[c].state = "on"
  BY NumbersAssumption DEF TimeOut, MayCommand
<1>2. Coherent(v)
  <2>1. c \in Clients \cup {NoClient} /\ FALSE \in BOOLEAN
    OBVIOUS
  <2>2. QED BY <1>1, <2>1, HereFacts, TimeoutChangeCoherent
<1>3. v.lv = lv /\ v.cl = client
  BY HereFacts DEF At
<1>4. /\ cl \in [Clients -> Client]
      /\ \A d \in Clients : /\ cl[d].state = client[d].state
                            /\ cl[d].ready = client[d].ready
  BY HereFacts DEF Client
<1>5. level' = lv /\ client' = cl /\ calledIn' \subseteq Clients
  BY DEF TimeOut, IndInv
<1> HIDE DEF lv, cl, v
<1>6. Coherent([lv |-> v.lv, cl |-> cl])
  BY <1>2, <1>3, <1>4, ReadyChangeCoherent
<1>7. QED BY <1>3, <1>5, <1>6 DEF IndInv, Inv, Here

\* A timeout cut short keeps it.
LEMMA TimeInKeeps ==
  ASSUME IndInv, NEW c \in Clients, TimeIn(c)
  PROVE  IndInv'
<1>1. level.timeout > 0 /\ Become(At(Here, BeginResumeCountdown(level)))
  BY DEF TimeIn
<1>2. Coherent(At(Here, BeginResumeCountdown(level)))
  BY <1>1, HereFacts, BeginResumeCountdownCoherent
<1>3. QED BY <1>1, <1>2, BecomeCoherent

\* A captain's lock keeps it.
LEMMA LockTeamKeeps ==
  ASSUME IndInv, NEW c \in Clients, NEW t \in PlayTeams, LockTeam(c, t)
  PROVE  IndInv'
<1> DEFINE lv == [level EXCEPT !.locked = level.locked \cup {t}]
<1>0. level \in Level
  BY HereFacts
<1>1. lv \in Level /\ Same(lv, level)
  BY <1>0 DEF Level, Same, SamePhase, SameTimeout, SameRecord, SameEnd
<1>2. Become(At(Here, lv))
  BY DEF LockTeam
<1> HIDE DEF lv
<1>3. QED BY <1>1, <1>2, MinorKeeps

\* An unlock, which may reconcile the automatic locks, keeps it.
LEMMA UnlockTeamKeeps ==
  ASSUME IndInv, NEW c \in Clients, NEW t \in PlayTeams, UnlockTeam(c, t)
  PROVE  IndInv'
<1> DEFINE k  == Reconcile(level)
           lv == [k EXCEPT !.locked = k.locked \ {t}, !.auto = k.auto \ {t}]
           w  == At(Here, k)
<1>1. Coherent(w) /\ w.lv = k
  BY HereFacts, ReconcileCoherent DEF At
<1>2. k \in Level
  BY <1>1, CoherentType
<1>3. Become(w) \/ Become(At(Here, lv))
  BY DEF UnlockTeam
<1>4. At(Here, lv) = At(w, lv)
  BY DEF At
<1> HIDE DEF k, w
<1>5. lv \in Level
  BY <1>2 DEF Level
<1>6. /\ lv.match = k.match /\ (lv.auto # {} => k.auto # {})
      /\ SameTimeout(lv, k) /\ SameRecord(lv, k) /\ SameEnd(lv, k)
  BY <1>2 DEF Level, SameTimeout, SameRecord, SameEnd
<1> HIDE DEF lv
<1>7. At(w, lv) \in World /\ At(w, lv).lv = lv /\ At(w, lv).cl = w.cl
  BY <1>1, <1>5, CoherentType, AtFacts
<1>8. Coherent(At(w, lv))
  BY <1>1, <1>6, <1>7
  DEF Coherent, SameTimeout, SameRecord, SameEnd, AutomaticLockPhase
<1>9. QED BY <1>1, <1>3, <1>4, <1>8, BecomeCoherent

\* An exit may only become pending where a scoreboard is up.
LEMMA PendingExitCoherent ==
  ASSUME NEW w, Coherent(w), w.lv.inter # Unset
  PROVE  Coherent(At(w, [w.lv EXCEPT !.exit = TRUE]))
<1> DEFINE lv == [w.lv EXCEPT !.exit = TRUE]
<1>0. w.lv \in Level
  BY CoherentType
<1>1. lv \in Level
  BY <1>0 DEF Level
<1>2. /\ SamePhase(lv, w.lv) /\ SameTimeout(lv, w.lv) /\ SameRecord(lv, w.lv)
      /\ lv.queued = w.lv.queued /\ lv.inter = w.lv.inter
      /\ lv.changing = w.lv.changing
  BY <1>0 DEF Level, SamePhase, SameTimeout, SameRecord
<1> HIDE DEF lv
<1>3. At(w, lv) \in World /\ At(w, lv).lv = lv /\ At(w, lv).cl = w.cl
  BY <1>1, CoherentType, AtFacts
<1>4. Coherent(At(w, lv))
  BY <1>2, <1>3
  DEF Coherent, SamePhase, SameTimeout, SameRecord, AutomaticLockPhase
<1>5. QED BY <1>4 DEF lv

\* A pressed exit keeps it.
LEMMA PressExitKeeps ==
  ASSUME IndInv, NEW c \in Clients, PressExit(c)
  PROVE  IndInv'
<1>1. level.inter > FloorFrames /\ Become(At(Here, [level EXCEPT !.exit = TRUE]))
  BY DEF PressExit
<1>2. level.inter # Unset
  BY <1>1, NumbersAssumption DEF Unset
<1>3. Coherent(At(Here, [level EXCEPT !.exit = TRUE]))
  BY <1>2, HereFacts, PendingExitCoherent
<1>4. QED BY <1>1, <1>3, BecomeCoherent

\* A reached map exit keeps it.
LEMMA ReachExitKeeps ==
  ASSUME IndInv, ReachExit
  PROVE  IndInv'
<1>1. Coherent(At(Here, BeginIntermission(level)))
  BY HereFacts, BeginIntermissionCoherent
<1>2. QED BY <1>1, BecomeCoherent DEF ReachExit

\* start, end and reset match keep it.
LEMMA MatchCommandsKeep ==
  ASSUME IndInv, StartMatch \/ EndMatch \/ ResetMatch
  PROVE  IndInv'
<1>1. CASE StartMatch
  BY <1>1, HereFacts, MatchStartCoherent, BecomeCoherent DEF StartMatch
<1>2. CASE EndMatch
  <2>1. level.inter = Unset /\ Become(At(Here, QueueIntermission(level)))
    BY <1>2 DEF EndMatch
  <2>2. Coherent(At(Here, QueueIntermission(level)))
    BY <2>1, HereFacts, QueueIntermissionCoherent
  <2>3. QED BY <2>1, <2>2, BecomeCoherent
<1>3. CASE ResetMatch
  BY <1>3, HereFacts, MatchResetCoherent, BecomeCoherent DEF ResetMatch
<1>4. QED BY <1>1, <1>2, <1>3

\* nextmap settles the match before it asks for the exit.
LEMMA NextMapKeeps ==
  ASSUME IndInv, NextMap
  PROVE  IndInv'
<1> DEFINE w == At(Here, MatchEnd(level))
<1>0. level \in Level
  BY HereFacts
<1>1. /\ SamePhase(level, level) /\ SameTimeout(level, level)
      /\ SameRecord(level, level)
  BY DEF SamePhase, SameTimeout, SameRecord
<1>2. Coherent(w) /\ w.lv = MatchEnd(level) /\ w.lv.inter # Unset
  BY <1>0, <1>1, HereFacts, MatchEndCoherent DEF At
<1>3. At(w, [w.lv EXCEPT !.exit = TRUE])
        = At(Here, [MatchEnd(level) EXCEPT !.exit = TRUE])
  BY DEF At
<1> HIDE DEF w
<1>4. Coherent(At(Here, [MatchEnd(level) EXCEPT !.exit = TRUE]))
  BY <1>2, <1>3, PendingExitCoherent
<1>5. QED BY <1>4, BecomeCoherent DEF NextMap

\* setmap keeps it, the recorders of the abandoned match open.
LEMMA SetMapKeeps ==
  ASSUME IndInv, SetMap
  PROVE  IndInv'
<1> DEFINE lv == [level EXCEPT !.changing = TRUE]
<1>0. level \in Level
  BY HereFacts
<1>1. lv \in Level
  BY <1>0 DEF Level
<1>2. /\ SamePhase(lv, level) /\ SameTimeout(lv, level) /\ SameRecord(lv, level)
      /\ lv.queued = level.queued /\ lv.inter = level.inter
      /\ lv.exit = level.exit /\ lv.changing
  BY <1>0 DEF Level, SamePhase, SameTimeout, SameRecord
<1>3. Become(At(Here, lv))
  BY DEF SetMap
<1> HIDE DEF lv
<1>4. /\ At(Here, lv) \in World
      /\ At(Here, lv).lv = lv /\ At(Here, lv).cl = Here.cl
  BY <1>1, HereFacts, CoherentType, AtFacts
<1>5. Coherent(At(Here, lv))
  BY <1>2, <1>4, HereFacts
  DEF Coherent, SamePhase, SameTimeout, SameRecord, AutomaticLockPhase
<1>6. QED BY <1>3, <1>5, BecomeCoherent

\* readyall and unreadyall keep it.
LEMMA ReadyAllKeeps ==
  ASSUME IndInv, NEW ready \in BOOLEAN, ReadyAll(ready)
  PROVE  IndInv'
<1> DEFINE all == [c \in Clients |->
                     [client[c] EXCEPT !.ready =
                        c \in Playing(Here) \/ client[c].ready]]
           cl  == IF ready THEN all ELSE UnReadyAll(client)
<1>1. client \in [Clients -> Client]
  BY HereFacts
<1>2. all \in [Clients -> Client]
  BY <1>1 DEF Client
<1>3. \A c \in Clients : all[c].state = client[c].state
  BY <1>1 DEF Client
<1>4. /\ UnReadyAll(client) \in [Clients -> Client]
      /\ \A c \in Clients : UnReadyAll(client)[c].state = client[c].state
  BY <1>1, UnReadyAllFacts
<1>5. /\ Become([lv |-> level, cl |-> cl])
      /\ level.match \in {MATCH_WARMUP_READYUP, MATCH_COUNTDOWN, MATCH_ENDED}
  BY DEF ReadyAll
<1> HIDE DEF all
<1>6. /\ cl \in [Clients -> Client]
      /\ \A c \in Clients : cl[c].state = client[c].state
  BY <1>2, <1>3, <1>4
<1> HIDE DEF cl
<1>7. Coherent([lv |-> level, cl |-> cl])
  BY <1>5, <1>6, HereFacts, ReadyChangeCoherent
<1>8. QED BY <1>5, <1>7, BecomeCoherent

\* Changes of the two live cvars keep it.
LEMMA CvarChangesKeep ==
  ASSUME IndInv, ChangeMatchLock \/ ChangeCountdown
  PROVE  IndInv'
<1> DEFINE other == ~level.lockCvar
           lock  == [level EXCEPT !.lockCvar = other, !.lockStale = TRUE]
           count == [level EXCEPT !.countStale = TRUE]
<1>0. level \in Level /\ other \in BOOLEAN
  BY HereFacts
<1> HIDE DEF other
<1>1. lock \in Level /\ count \in Level
  BY <1>0 DEF Level
<1>2. Same(lock, level) /\ Same(count, level)
  BY <1>0 DEF Level, Same, SamePhase, SameTimeout, SameRecord, SameEnd
<1>3. Become(At(Here, lock)) \/ Become(At(Here, count))
  BY DEF ChangeMatchLock, ChangeCountdown, other
<1> HIDE DEF lock, count
<1>4. QED BY <1>1, <1>2, <1>3, MinorKeeps

-----------------------------------------------------------------------------
(* The theorems.                                                            *)

\* A new server satisfies the inductive invariant.
LEMMA InitIndInv == Init => IndInv
<1> SUFFICES ASSUME Init PROVE IndInv
  OBVIOUS
<1>1. level \in Level
  <2>1. "tied" \in Scores /\ "idle" \in Records
    BY DEF Scores, Records
  <2>2. QED BY <2>1, PhaseFacts, TimerFacts DEF Init, Level
<1>2. /\ client \in [Clients -> Client]
      /\ \A c \in Clients : client[c].state # "on"
  BY DEF Init, Client, Teams
<1>3. /\ level.match = MATCH_NONE /\ level.auto = {} /\ level.timeout = 0
      /\ level.caller = NoClient /\ ~level.resuming /\ ~level.open
      /\ level.stats = "idle" /\ level.queued = Unset /\ ~level.exit
  BY DEF Init
<1>4. Here \in World /\ Here.lv = level /\ Here.cl = client
  BY <1>1, <1>2 DEF Here, World
<1>5. Coherent(Here)
  BY <1>2, <1>3, <1>4 DEF Coherent, MATCH_NONE, MATCH_IN_PROGRESS
<1>6. QED BY <1>5 DEF IndInv, Inv, Init

\* Every step keeps the inductive invariant.
LEMMA NextIndInv == IndInv /\ [Next]_vars => IndInv'
<1> SUFFICES ASSUME IndInv, [Next]_vars PROVE IndInv'
  OBVIOUS
<1>1. CASE Frame
  BY <1>1, PausedFrameKeeps, ExitFrameKeeps, GameFrameKeeps DEF Frame
<1>2. CASE ChangeLevel \/ ReachExit
  BY <1>2, ChangeLevelKeeps, ReachExitKeeps
<1>3. CASE Administration
  BY <1>3, MatchCommandsKeep, NextMapKeeps, SetMapKeeps, ReadyAllKeeps,
     CvarChangesKeep
  DEF Administration
<1>4. CASE \E s \in Scores : Score(s)
  BY <1>4, ScoreKeeps
<1>5. CASE \E c \in Clients : Connection(c)
  BY <1>5, JoinKeeps, BeginKeeps, LeaveKeeps, RespawnKeeps DEF Connection
<1>6. CASE \E c \in Clients : Command(c)
  BY <1>6, TeamKeeps, SetTeamKeeps, LockTeamKeeps, UnlockTeamKeeps,
     ToggleReadyUpKeeps, TimeOutKeeps, TimeInKeeps, PressExitKeeps
  DEF Command
<1>7. CASE UNCHANGED vars
  BY <1>7 DEF vars, IndInv, Inv, Here
<1>8. QED BY <1>1, <1>2, <1>3, <1>4, <1>5, <1>6, <1>7 DEF Next

\* The invariant behind the others holds of every run of the controller.
THEOREM Invariance == Spec => []IndInv
<1>1. QED BY InitIndInv, NextIndInv, PTL DEF Spec

\* Every field of the level and of the clients keeps its type.
THEOREM TypeCorrectness == Spec => []TypeOK
<1>1. IndInv => TypeOK
  BY HereFacts DEF IndInv, TypeOK
<1>2. QED BY Invariance, <1>1, PTL

\* However a phase is left, its automatic locks are released with it.
THEOREM LocksHavePhase == Spec => []AutomaticLocksHavePhase
<1>1. IndInv => AutomaticLocksHavePhase
  BY DEF IndInv, Inv, Coherent, Here, AutomaticLocksHavePhase
<1>2. QED BY Invariance, <1>1, PTL

\* No client present carries a ready flag into a warmup it was not given in.
THEOREM ReadinessIsCurrent == Spec => []ReadyIsCurrent
<1>1. IndInv => ReadyIsCurrent
  BY DEF IndInv, Inv, Coherent, Here, ReadyIsCurrent, Present
<1>2. QED BY Invariance, <1>1, PTL

\* A timeout belongs to a match, its authority to somebody who is there.
THEOREM TimeoutOwnership == Spec => []TimeoutHasOwner
<1>1. IndInv => TimeoutHasOwner
  BY DEF IndInv, Inv, Coherent, Here, TimeoutHasOwner
<1>2. QED BY Invariance, <1>1, PTL

\* Whatever ends, aborts or voids a match does so in both recorders.
THEOREM RecordersStayTogether == Spec => []RecordersAgree
<1>1. IndInv => RecordersAgree
  BY DEF IndInv, Inv, Coherent, Here, RecordersAgree
<1>2. QED BY Invariance, <1>1, PTL

\* No match is played while its intermission is queued.
THEOREM QueuedIsOver == Spec => []QueuedMatchIsOver
<1>1. IndInv => QueuedMatchIsOver
  BY DEF IndInv, Inv, Coherent, Here, QueuedMatchIsOver
<1>2. QED BY Invariance, <1>1, PTL
=============================================================================
