-------------------------- MODULE MatchStepProofs --------------------------
(***************************************************************************)
(* What a step of the match controller may never do, for any clients and   *)
(* any settings: the action properties of MatchFlowProps, and that the     *)
(* controller implements MatchResult.                                      *)
(*                                                                         *)
(* A frame composes up to a dozen functions, so the properties are not     *)
(* followed through it one by one.  A function either winds a match down   *)
(* (Calm, a preorder, so that calm functions compose), or begins the       *)
(* countdown (Counts), or begins a match (Starts); the last two only where *)
(* the frame has not wound anything down before (Onward).  The properties  *)
(* are read off these relations at the end.                                *)
(***************************************************************************)
EXTENDS MatchFlowProofs, FiniteSetTheorems

-----------------------------------------------------------------------------
(* The relations between the levels before and after a function.            *)

\* What a result may become while no match begins.
Settles(s, t) ==
  \/ t = s \/ t = "idle"
  \/ s \in {"live", "frozen"} /\ t = "final"
  \/ s = "live" /\ t = "frozen"

\* No countdown and no match begins, and no lock appears unless its cvar
\* was changed.
Winds(l, k) ==
  /\ Settles(l.stats, k.stats)
  /\ k.match = MATCH_COUNTDOWN => l.match = MATCH_COUNTDOWN
  /\ k.match = MATCH_IN_PROGRESS => l.match = MATCH_IN_PROGRESS
  /\ l.lockStale \/ k.auto \subseteq l.auto

\* So that two of these compose: the cvar's change is not noticed anew, a
\* pending map change stays, and a scoreboard goes only for a map change.
Calm(l, k) ==
  /\ Winds(l, k)
  /\ k.lockStale => l.lockStale
  /\ l.changing => k.changing
  /\ l.inter # Unset => k.inter # Unset \/ k.changing

\* A countdown begins.
Counts(l, k) ==
  /\ l.match < MATCH_COUNTDOWN /\ k.match = MATCH_COUNTDOWN
  /\ Settles(l.stats, k.stats)

\* A match begins: its predecessor is over and exported, and there is no
\* scoreboard but one that this very frame has closed.
Starts(l, k) ==
  /\ l.match <= MATCH_COUNTDOWN /\ k.match = MATCH_IN_PROGRESS
  /\ l.stats \in {"idle", "final"} /\ k.stats = "live"
  /\ l.queued = Unset
  /\ l.inter = Unset \/ k.changing
  /\ l.changing => k.changing

\* A match that has just begun: the exit rules let it be.
Fresh(w) ==
  /\ w.lv.match = MATCH_IN_PROGRESS /\ w.lv.clock = 0
  /\ w.lv.queued = Unset /\ w.lv.inter = Unset

Outcome(l, w) ==
  Calm(l, w.lv) \/ Counts(l, w.lv) \/ (Starts(l, w.lv) /\ Fresh(w))

\* A calm change after which the warmup, if there still is one, is where
\* it was.
Onward(l, k) ==
  /\ Calm(l, k)
  /\ k.match <= MATCH_COUNTDOWN =>
       \/ l.match = k.match
       \/ l.match = MATCH_WARMUP_DELAYED /\ k.match = MATCH_WARMUP_DEFAULT

\* Results settle in an order.
LEMMA SettlesTransitive ==
  ASSUME NEW r, NEW s, NEW t, Settles(r, s), Settles(s, t)
  PROVE  Settles(r, t)
BY DEF Settles

\* Calm changes compose.
LEMMA CalmTransitive ==
  ASSUME NEW l, NEW k, NEW m, Calm(l, k), Calm(k, m)
  PROVE  Calm(l, m)
<1>1. Settles(l.stats, m.stats)
  BY SettlesTransitive DEF Calm, Winds
<1>2. QED BY <1>1 DEF Calm, Winds

\* Doing nothing that these relations speak of is calm.
LEMMA SameCalm ==
  ASSUME NEW l, NEW k, Same(k, l), k.lockStale = l.lockStale
  PROVE  Calm(l, k) /\ Onward(l, k)
BY DEF Same, SamePhase, SameRecord, SameEnd, Calm, Winds, Settles, Onward

\* Before a match there is nothing to settle.
LEMMA NothingToSettle ==
  ASSUME NEW w, Coherent(w), w.lv.match <= MATCH_COUNTDOWN
  PROVE  w.lv.stats \in {"idle", "final"} /\ w.lv.queued = Unset
<1>1. w.lv.match # MATCH_IN_PROGRESS /\ w.lv.match # MATCH_ENDED
  BY DEF MATCH_COUNTDOWN, MATCH_IN_PROGRESS, MATCH_ENDED
<1>2. w.lv.stats \in Records
  BY CoherentType
<1>3. QED BY <1>1, <1>2 DEF Coherent, Records

\* What follows a calm change that left the warmup alone might as well have
\* followed without it.
LEMMA OutcomeAfter ==
  ASSUME NEW w, Coherent(w), NEW k \in Level, NEW v,
         Onward(w.lv, k), Outcome(k, v)
  PROVE  Outcome(w.lv, v)
<1>0. k.match \in MATCH_NONE..MATCH_ENDED
  BY DEF Level
<1>1. CASE Calm(k, v.lv)
  BY <1>1, CalmTransitive DEF Onward, Outcome
<1>2. CASE Counts(k, v.lv)
  <2>1. k.match < MATCH_COUNTDOWN /\ v.lv.match = MATCH_COUNTDOWN
    BY <1>2 DEF Counts
  <2>2. w.lv.match < MATCH_COUNTDOWN
    BY <1>0, <2>1
    DEF Onward, MATCH_NONE, MATCH_ENDED, MATCH_COUNTDOWN, MATCH_WARMUP_DELAYED
  <2>3. Settles(w.lv.stats, v.lv.stats)
    BY <1>2, SettlesTransitive DEF Onward, Calm, Winds, Counts
  <2>4. QED BY <2>1, <2>2, <2>3 DEF Outcome, Counts
<1>3. CASE Starts(k, v.lv) /\ Fresh(v)
  <2>1. k.match <= MATCH_COUNTDOWN
    BY <1>3 DEF Starts
  <2>2. w.lv.match <= MATCH_COUNTDOWN
    BY <2>1 DEF Onward, MATCH_COUNTDOWN, MATCH_WARMUP_DELAYED
  <2>3. w.lv.stats \in {"idle", "final"} /\ w.lv.queued = Unset
    BY <2>2, NothingToSettle
  <2>4. w.lv.inter = Unset \/ v.lv.changing
    BY <1>3 DEF Onward, Calm, Starts, Fresh
  <2>5. w.lv.changing => v.lv.changing
    BY <1>3 DEF Onward, Calm, Starts
  <2>6. QED BY <1>3, <2>2, <2>3, <2>4, <2>5 DEF Outcome, Starts
<1>4. QED BY <1>1, <1>2, <1>3 DEF Outcome

-----------------------------------------------------------------------------
(* The operations on a match, and the exit rules.                           *)

\* ExitLevel closes the scoreboard because the map changes.
LEMMA ExitLevelCalm ==
  ASSUME NEW lv \in Level
  PROVE  Calm(lv, ExitLevel(lv)) /\ ExitLevel(lv).match = lv.match
<1>1. /\ SamePhase(ExitLevel(lv), lv) /\ SameRecord(ExitLevel(lv), lv)
      /\ ExitLevel(lv).lockStale = lv.lockStale /\ ExitLevel(lv).changing
  BY DEF Level, ExitLevel, SamePhase, SameRecord
<1>2. QED BY <1>1 DEF Calm, Winds, Settles, SamePhase, SameRecord

\* The scoreboard's exit rules are calm.
LEMMA IntermissionExitCalm ==
  ASSUME NEW w, Coherent(w)
  PROVE  /\ Calm(w.lv, CheckDMIntermissionExit(w))
         /\ CheckDMIntermissionExit(w).match = w.lv.match
<1> DEFINE polled == IF w.lv.readyToExit THEN w.lv
                     ELSE [w.lv EXCEPT !.readyToExit = TRUE,
                                       !.exitTimer = ExitFrames]
           cleared == [w.lv EXCEPT !.readyToExit = FALSE]
<1>0. w.lv \in Level
  BY CoherentType
<1>1. polled \in Level /\ cleared \in Level
  BY <1>0, TimerFacts DEF Level
<1>2. /\ Same(polled, w.lv) /\ Same(cleared, w.lv) /\ Same(w.lv, w.lv)
      /\ polled.lockStale = w.lv.lockStale
      /\ cleared.lockStale = w.lv.lockStale
  BY <1>0 DEF Level, Same, SamePhase, SameTimeout, SameRecord, SameEnd
<1>3. CheckDMIntermissionExit(w) \in
        {w.lv, cleared, polled, ExitLevel(w.lv), ExitLevel(polled)}
  BY DEF CheckDMIntermissionExit
<1> HIDE DEF polled, cleared
<1>4. /\ Calm(w.lv, w.lv) /\ Calm(w.lv, polled) /\ Calm(w.lv, cleared)
      /\ polled.match = w.lv.match /\ cleared.match = w.lv.match
  BY <1>2, SameCalm DEF Same, SamePhase
<1>5. /\ Calm(w.lv, ExitLevel(w.lv)) /\ ExitLevel(w.lv).match = w.lv.match
      /\ Calm(polled, ExitLevel(polled))
      /\ ExitLevel(polled).match = polled.match
  BY <1>0, <1>1, ExitLevelCalm
<1>6. Calm(w.lv, ExitLevel(polled))
  BY <1>4, <1>5, CalmTransitive
<1>7. QED BY <1>3, <1>4, <1>5, <1>6

\* QueueIntermission is calm, and leaves the match over if it was running.
LEMMA QueueIntermissionCalm ==
  ASSUME NEW w, Coherent(w)
  PROVE  /\ Calm(w.lv, QueueIntermission(w.lv))
         /\ QueueIntermission(w.lv).match \in {w.lv.match, MATCH_ENDED}
         /\ w.lv.match < MATCH_IN_PROGRESS
              => QueueIntermission(w.lv) = w.lv
<1> DEFINE lv == [w.lv EXCEPT !.tied = Unset, !.stats = Freeze(w.lv.stats),
                    !.open = FALSE, !.match = MATCH_ENDED, !.timer = 0,
                    !.clock = 0, !.queued = QueueFrames]
<1>0. w.lv \in Level
  BY CoherentType
<1>1. Calm(w.lv, w.lv)
  BY SameCalm DEF Same, SamePhase, SameTimeout, SameRecord, SameEnd
<1>2. /\ lv.match = MATCH_ENDED /\ lv.auto = w.lv.auto
      /\ lv.lockStale = w.lv.lockStale /\ lv.stats = Freeze(w.lv.stats)
      /\ lv.inter = w.lv.inter /\ lv.changing = w.lv.changing
  BY <1>0 DEF Level
<1>3. QueueIntermission(w.lv) =
        IF w.lv.queued # Unset \/ w.lv.match < MATCH_IN_PROGRESS
        THEN w.lv ELSE lv
  BY DEF QueueIntermission
<1> HIDE DEF lv
<1>4. Settles(w.lv.stats, lv.stats)
  BY <1>2 DEF Settles, Freeze
<1>5. Calm(w.lv, lv)
  BY <1>2, <1>4 DEF Calm, Winds, MATCH_ENDED, MATCH_COUNTDOWN,
      MATCH_IN_PROGRESS
<1>6. QED BY <1>1, <1>2, <1>3, <1>5

\* An exported result is one that has settled.
LEMMA ExportSettles ==
  ASSUME NEW s
  PROVE  Settles(s, Export(s)) /\ Settles(s, Export(Export(s)))
BY DEF Settles, Export

\* BeginIntermission is calm, and puts the scoreboard up.
LEMMA BeginIntermissionCalm ==
  ASSUME NEW lv \in Level
  PROVE  /\ Calm(lv, BeginIntermission(lv))
         /\ BeginIntermission(lv).match = lv.match
<1> DEFINE k == [lv EXCEPT !.stats = Export(lv.stats), !.open = FALSE,
                   !.inter = 0, !.exitTimer = Unset, !.readyToExit = FALSE,
                   !.exit = FALSE]
<1>1. Calm(lv, lv)
  BY SameCalm DEF Same, SamePhase, SameTimeout, SameRecord, SameEnd
<1>2. /\ SamePhase(k, lv) /\ k.stats = Export(lv.stats)
      /\ k.lockStale = lv.lockStale /\ k.inter = 0
      /\ k.changing = lv.changing
  BY DEF Level, SamePhase
<1>3. BeginIntermission(lv) = IF lv.inter # Unset THEN lv ELSE k
  BY DEF BeginIntermission
<1> HIDE DEF k
<1>4. Calm(lv, k)
  BY <1>2, ExportSettles, TimerFacts DEF Calm, Winds, SamePhase
<1>5. QED BY <1>1, <1>2, <1>3, <1>4 DEF SamePhase

\* Match_End is calm; what it is given may have lost its queue.
LEMMA MatchEndCalm ==
  ASSUME NEW w, Coherent(w), NEW k \in Level,
         SamePhase(k, w.lv), SameRecord(k, w.lv), k.inter = w.lv.inter,
         k.changing = w.lv.changing, k.lockStale = w.lv.lockStale
  PROVE  Calm(w.lv, MatchEnd(k)) /\ MatchEnd(k).match = MATCH_ENDED
<1> DEFINE lv == [k EXCEPT !.match = MATCH_ENDED, !.timer = 0,
                           !.stats = Export(k.stats), !.open = FALSE]
<1>1. k.stats \in Records
  BY DEF Level
<1>2. lv \in Level
  BY <1>1, ExportFacts, PhaseFacts DEF Level
<1>3. /\ lv.match = MATCH_ENDED /\ lv.auto = k.auto
      /\ lv.stats = Export(k.stats) /\ lv.inter = k.inter
      /\ lv.changing = k.changing /\ lv.lockStale = k.lockStale
  BY DEF Level
<1>4. MatchEnd(k) = BeginIntermission(lv)
  BY DEF MatchEnd
<1> HIDE DEF lv
<1>5. Calm(w.lv, lv)
  BY <1>3, ExportSettles
  DEF Calm, Winds, SamePhase, SameRecord, MATCH_ENDED, MATCH_COUNTDOWN,
      MATCH_IN_PROGRESS
<1>6. QED
  BY <1>2, <1>3, <1>4, <1>5, BeginIntermissionCalm, CalmTransitive

\* Recomputing the automatic locks: which fields it touches.
LEMMA SynchronizeFacts ==
  ASSUME NEW lv \in Level
  PROVE  LET k == Synchronize(lv)
         IN /\ k \in Level /\ k.match = lv.match /\ k.stats = lv.stats
            /\ k.open = lv.open /\ k.clock = lv.clock
            /\ SameTimeout(k, lv) /\ SameEnd(k, lv) /\ ~k.lockStale
            /\ ~AutomaticLockPhase(lv) => k.auto = {}
BY DEF Synchronize, Level, SameTimeout, SameEnd

\* Match_Reset leaves no result, no lock and no scoreboard.
LEMMA MatchResetCalm ==
  ASSUME NEW w, Coherent(w)
  PROVE  /\ Winds(w.lv, MatchReset(w).lv)
         /\ MatchReset(w).lv.match = MATCH_WARMUP_DEFAULT
         /\ w.lv.inter = Unset => Calm(w.lv, MatchReset(w).lv)
<1> DEFINE k == [ResetMatchScopedTransientState(w.lv) EXCEPT
                   !.open = FALSE, !.stats = "idle", !.locked = {},
                   !.clock = 0, !.match = MATCH_WARMUP_DEFAULT, !.timer = 0,
                   !.countStale = FALSE, !.queued = Unset, !.exit = FALSE,
                   !.inter = Unset, !.score = "tied"]
<1>0. w.lv \in Level
  BY CoherentType
<1>1. ResetMatchScopedTransientState(w.lv) \in Level
  BY <1>0, TransientFacts
<1>2. k \in Level
  <2>1. "tied" \in Scores /\ "idle" \in Records
    BY DEF Scores, Records
  <2>2. QED BY <1>1, <2>1, PhaseFacts, TimerFacts DEF Level
<1>3. /\ k.match = MATCH_WARMUP_DEFAULT /\ k.stats = "idle"
      /\ k.changing = w.lv.changing
  BY <1>0 DEF ResetMatchScopedTransientState, Level
<1>4. MatchReset(w).lv = Synchronize(k)
  BY DEF MatchReset
<1> HIDE DEF k
<1>5. ~AutomaticLockPhase(k)
  BY <1>3 DEF AutomaticLockPhase, MATCH_WARMUP_DEFAULT, MATCH_COUNTDOWN,
              MATCH_IN_PROGRESS, MATCH_ENDED
<1>6. /\ Synchronize(k).match = MATCH_WARMUP_DEFAULT
      /\ Synchronize(k).stats = "idle" /\ Synchronize(k).auto = {}
      /\ ~Synchronize(k).lockStale
      /\ Synchronize(k).changing = w.lv.changing
  BY <1>2, <1>3, <1>5, SynchronizeFacts DEF SameEnd
<1>7. QED
  BY <1>4, <1>6
  DEF Calm, Winds, Settles, MATCH_WARMUP_DEFAULT, MATCH_COUNTDOWN,
      MATCH_IN_PROGRESS

\* Match_Start begins a match or does nothing.
LEMMA MatchStartOutcome ==
  ASSUME NEW w, Coherent(w)
  PROVE  /\ Outcome(w.lv, MatchStart(w))
         /\ \/ MatchStart(w) = w
            \/ Starts(w.lv, MatchStart(w).lv) /\ Fresh(MatchStart(w))
<1> DEFINE k == [ResetMatchScopedTransientState(w.lv) EXCEPT
                   !.clock = 0, !.match = MATCH_IN_PROGRESS, !.timer = 0,
                   !.score = "tied", !.open = TRUE, !.stats = "live"]
<1>0. w.lv \in Level
  BY CoherentType
<1>1. CASE ~SingletonMatchCanStart(w)
  <2>1. MatchStart(w) = w
    BY <1>1 DEF MatchStart
  <2>2. Calm(w.lv, w.lv)
    BY SameCalm DEF Same, SamePhase, SameTimeout, SameRecord, SameEnd
  <2>3. QED BY <2>1, <2>2 DEF Outcome
<1>2. CASE SingletonMatchCanStart(w)
  <2>1. ResetMatchScopedTransientState(w.lv) \in Level
    BY <1>0, TransientFacts
  <2>2. k \in Level
    <3>1. "tied" \in Scores /\ "live" \in Records
      BY DEF Scores, Records
    <3>2. QED BY <2>1, <3>1, PhaseFacts DEF Level
  <2>3. /\ k.match = MATCH_IN_PROGRESS /\ k.stats = "live" /\ k.clock = 0
        /\ SameEnd(k, w.lv)
    BY <1>0 DEF ResetMatchScopedTransientState, Level, SameEnd
  <2>4. MatchStart(w).lv = Synchronize(k)
    BY <1>2 DEF MatchStart
  <2> HIDE DEF k
  <2>5. /\ Synchronize(k).match = MATCH_IN_PROGRESS
        /\ Synchronize(k).stats = "live" /\ Synchronize(k).clock = 0
        /\ SameEnd(Synchronize(k), w.lv)
    BY <2>2, <2>3, SynchronizeFacts DEF SameEnd
  <2>6. /\ w.lv.match <= MATCH_COUNTDOWN
        /\ w.lv.queued = Unset /\ w.lv.inter = Unset
    BY <1>2 DEF SingletonMatchCanStart
  <2>7. w.lv.stats \in {"idle", "final"}
    BY <2>6, NothingToSettle
  <2>8. Starts(w.lv, MatchStart(w).lv) /\ Fresh(MatchStart(w))
    BY <2>4, <2>5, <2>6, <2>7 DEF Starts, Fresh, SameEnd
  <2>9. QED BY <2>8 DEF Outcome
<1>3. QED BY <1>1, <1>2

\* A tie clock is no matter of these relations.
LEMMA OvertimeCalm ==
  ASSUME NEW lv \in Level
  PROVE  Calm(lv, Overtime(lv)) /\ Overtime(lv).match = lv.match
<1>1. Same(Overtime(lv), lv) /\ Overtime(lv).lockStale = lv.lockStale
  BY DEF Overtime, Level, Same, SamePhase, SameTimeout, SameRecord, SameEnd
<1>2. QED BY <1>1, SameCalm DEF Same, SamePhase

\* The exit rules begin nothing.  They leave a warmup where it is, return
\* to one only for imbalanced teams, and let a new match be.
LEMMA ExitRulesCalm ==
  ASSUME NEW w, Coherent(w)
  PROVE  /\ Calm(w.lv, CheckDMExitRules(w).lv)
         /\ w.lv.match <= MATCH_COUNTDOWN
              => CheckDMExitRules(w).lv.match = w.lv.match
         /\ w.lv.match > MATCH_COUNTDOWN /\ ~Imbalanced(w)
              => CheckDMExitRules(w).lv.match > MATCH_COUNTDOWN
         /\ Fresh(w) => CheckDMExitRules(w) = w
<1> DEFINE v == CheckDMExitRules(w)
           due == [w.lv EXCEPT !.queued = Unset]
<1>0. w.lv \in Level /\ w.lv.match \in MATCH_NONE..MATCH_ENDED
  BY CoherentType DEF Level
<1>a. \A lv : At(w, lv).lv = lv
  BY DEF At
<1>b. Calm(w.lv, w.lv)
  BY SameCalm DEF Same, SamePhase, SameTimeout, SameRecord, SameEnd
<1>1. CASE w.lv.inter # Unset
  <2>1. v.lv = CheckDMIntermissionExit(w) /\ ~Fresh(w)
    BY <1>1, <1>a DEF CheckDMExitRules, Fresh
  <2>2. Calm(w.lv, v.lv) /\ v.lv.match = w.lv.match
    BY <2>1, IntermissionExitCalm
  <2>3. QED BY <2>1, <2>2
<1>2. CASE w.lv.inter = Unset /\ w.lv.queued = 0
  <2>1. due \in Level
    BY <1>0, TimerFacts DEF Level
  <2>2. /\ SamePhase(due, w.lv) /\ SameRecord(due, w.lv)
        /\ due.inter = w.lv.inter /\ due.changing = w.lv.changing
        /\ due.lockStale = w.lv.lockStale
    BY <1>0 DEF Level, SamePhase, SameRecord
  <2>3. v.lv = MatchEnd(due) /\ ~Fresh(w)
    BY <1>2, <1>a, TimerFacts DEF CheckDMExitRules, Fresh
  <2> HIDE DEF due
  <2>4. Calm(w.lv, v.lv) /\ v.lv.match = MATCH_ENDED
    BY <2>1, <2>2, <2>3, MatchEndCalm
  <2>5. w.lv.match = MATCH_ENDED
    BY <1>2, TimerFacts DEF Coherent
  <2>6. QED BY <2>3, <2>4, <2>5 DEF MATCH_ENDED, MATCH_COUNTDOWN
<1>3. CASE w.lv.inter = Unset /\ w.lv.queued # 0
  <2>1. CASE w.lv.queued # Unset \/ ~RulesApply(w.lv)
    BY <1>3, <1>b, <2>1 DEF CheckDMExitRules
  <2>2. CASE ~(w.lv.queued # Unset \/ ~RulesApply(w.lv))
    <3>1. /\ w.lv.match > MATCH_COUNTDOWN /\ w.lv.match >= MATCH_IN_PROGRESS
          /\ ~Fresh(w)
      BY <1>0, <2>2
      DEF RulesApply, Fresh, MATCH_NONE, MATCH_ENDED, MATCH_COUNTDOWN,
          MATCH_IN_PROGRESS
    <3>2. /\ Calm(w.lv, QueueIntermission(w.lv))
          /\ QueueIntermission(w.lv).match > MATCH_COUNTDOWN
      BY <3>1, QueueIntermissionCalm DEF MATCH_ENDED, MATCH_COUNTDOWN
    <3>3. /\ Calm(w.lv, Overtime(w.lv))
          /\ Overtime(w.lv).match > MATCH_COUNTDOWN
      BY <1>0, <3>1, OvertimeCalm
    <3>4. \/ v \in {w, At(w, QueueIntermission(w.lv)), At(w, Overtime(w.lv))}
          \/ Imbalanced(w) /\ v = MatchReset(w)
      BY <1>3, <2>2 DEF CheckDMExitRules, QueueReset
    <3>5. Calm(w.lv, MatchReset(w).lv)
      BY <1>3, MatchResetCalm
    <3>6. ~(w.lv.match <= MATCH_COUNTDOWN)
      BY <1>0, <3>1 DEF MATCH_NONE, MATCH_ENDED, MATCH_COUNTDOWN
    <3> HIDE DEF v
    <3>7. QED BY <1>a, <1>b, <3>1, <3>2, <3>3, <3>4, <3>5, <3>6 DEF v
  <2>3. QED BY <2>1, <2>2
<1>4. QED BY <1>1, <1>2, <1>3

\* They end a match or leave its phase alone, and touch clients only when
\* they reset it.
LEMMA ExitRulesMatch ==
  ASSUME NEW w, Coherent(w)
  PROVE  LET v == CheckDMExitRules(w)
         IN /\ v.lv.match \in {w.lv.match, MATCH_ENDED, MATCH_WARMUP_DEFAULT}
            /\ v.cl = w.cl \/ v.lv.match = MATCH_WARMUP_DEFAULT
<1> DEFINE v == CheckDMExitRules(w)
           due == [w.lv EXCEPT !.queued = Unset]
<1>0. w.lv \in Level
  BY CoherentType
<1>a. \A lv : At(w, lv).lv = lv /\ At(w, lv).cl = w.cl
  BY DEF At
<1>1. v \in {w, At(w, CheckDMIntermissionExit(w)), At(w, MatchEnd(due)),
             At(w, QueueIntermission(w.lv)), At(w, Overtime(w.lv)),
             MatchReset(w)}
  BY DEF CheckDMExitRules, QueueReset
<1>2. MatchEnd(due).match = MATCH_ENDED
  <2>1. due \in Level
    BY <1>0, TimerFacts DEF Level
  <2>2. /\ SamePhase(due, w.lv) /\ SameRecord(due, w.lv)
        /\ due.inter = w.lv.inter /\ due.changing = w.lv.changing
        /\ due.lockStale = w.lv.lockStale
    BY <1>0 DEF Level, SamePhase, SameRecord
  <2> HIDE DEF due
  <2>3. QED BY <2>1, <2>2, MatchEndCalm
<1>3. /\ CheckDMIntermissionExit(w).match = w.lv.match
      /\ QueueIntermission(w.lv).match \in {w.lv.match, MATCH_ENDED}
      /\ Overtime(w.lv).match = w.lv.match
      /\ MatchReset(w).lv.match = MATCH_WARMUP_DEFAULT
  BY <1>0, IntermissionExitCalm, QueueIntermissionCalm, OvertimeCalm,
     MatchResetCalm
<1> HIDE DEF v, due
<1>4. QED BY <1>a, <1>1, <1>2, <1>3 DEF v

\* Who has agreed is a matter of the clients alone.
LEMMA SameAgreed ==
  ASSUME NEW w, NEW v, v.cl = w.cl
  PROVE  Agreed(v) = Agreed(w)
BY DEF Agreed, Playing, Present

-----------------------------------------------------------------------------
(* Pulling bots in evens the sides out.                                     *)

\* The members of a side.
Members(w, t) == {c \in Present(w) : w.cl[c].team = t}

\* There are finitely many clients, so sizes are natural numbers.
LEMMA SizeFacts ==
  ASSUME NEW w, NEW t
  PROVE  /\ IsFiniteSet(Members(w, t)) /\ Size(w, t) = Cardinality(Members(w, t))
         /\ Size(w, t) \in Nat
<1>1. IsFiniteSet(Clients)
  BY ClientsAssumption, FS_Union DEF Clients
<1>2. Members(w, t) \subseteq Clients
  BY DEF Members, Present
<1>3. IsFiniteSet(Members(w, t))
  BY <1>1, <1>2, FS_Subset
<1>4. Size(w, t) = Cardinality(Members(w, t))
  BY DEF Size, Members
<1>5. QED BY <1>3, <1>4, FS_CardinalityType

\* A side grows by the bots placed on it.
LEMMA PlacedSize ==
  ASSUME NEW w, Coherent(w), NEW s \in Scores, NEW t \in PlayTeams,
         NEW p \in [WaitingBots(w) -> PlayTeams]
  PROVE  LET joined == {b \in Joining(w, p) : p[b] = t}
         IN /\ Cardinality(joined) \in Nat
            /\ joined = {} => Cardinality(joined) = 0
            /\ Size(Placed(w, p, s), t) = Size(w, t) + Cardinality(joined)
<1> DEFINE joined == {b \in Joining(w, p) : p[b] = t}
           v == Placed(w, p, s)
<1>1. joined \subseteq WaitingBots(w)
  BY DEF Joining
<1>2. /\ WaitingBots(w) \subseteq Clients
      /\ \A c \in WaitingBots(w) : c \in Present(w) /\ w.cl[c].team \notin PlayTeams
  BY DEF WaitingBots, Present, Playing
<1>3. IsFiniteSet(joined) /\ Cardinality(joined) \in Nat
  <2>1. IsFiniteSet(Clients)
    BY ClientsAssumption, FS_Union DEF Clients
  <2>2. joined \subseteq Clients
    BY <1>1, <1>2
  <2>3. QED BY <2>1, <2>2, FS_Subset, FS_CardinalityType
<1>4. joined = {} => Cardinality(joined) = 0
  BY FS_EmptySet
<1>5. \A c \in Clients :
        /\ v.cl[c].state = w.cl[c].state
        /\ v.cl[c].team = IF c \in Joining(w, p) THEN p[c] ELSE w.cl[c].team
  BY PlacedFacts
<1>6. Joining(w, p) \subseteq WaitingBots(w)
  BY DEF Joining
<1> HIDE DEF v
<1>7. Members(v, t) = Members(w, t) \cup joined
  BY <1>2, <1>5, <1>6 DEF Members, Present
<1>8. Members(w, t) \cap joined = {}
  BY <1>1, <1>2 DEF Members
<1> HIDE DEF joined
<1>9. Cardinality(Members(v, t)) =
        Cardinality(Members(w, t)) + Cardinality(joined)
  <2>1. IsFiniteSet(Members(w, t)) /\ Cardinality(Members(w, t)) \in Nat
    BY SizeFacts
  <2>2. Cardinality(Members(w, t) \cap joined) = 0
    BY <1>8, FS_EmptySet
  <2>3. Cardinality(Members(w, t) \cup joined) =
          Cardinality(Members(w, t)) + Cardinality(joined)
            - Cardinality(Members(w, t) \cap joined)
    BY <1>3, <2>1, FS_Union
  <2>4. QED BY <1>3, <1>7, <2>1, <2>2, <2>3
<1>10. Size(v, t) = Size(w, t) + Cardinality(joined)
  BY <1>9, SizeFacts
<1>11. QED BY <1>3, <1>4, <1>10 DEF joined, v

\* Sides that are balanced stay so when bots are pulled in.
LEMMA PlacedBalanced ==
  ASSUME NEW w, Coherent(w), NEW s \in Scores, NEW p \in Placements(w),
         ~Imbalanced(w)
  PROVE  ~Imbalanced(Placed(w, p, s))
<1> DEFINE v == Placed(w, p, s)
           joined(t) == {b \in Joining(w, p) : p[b] = t}
           size(t) == Size(w, t) + Cardinality(joined(t))
<1>1. CASE ~(Teamplay /\ ForceBalance)
  BY <1>1 DEF Imbalanced
<1>2. CASE Teamplay /\ ForceBalance
  <2>1. p \in [WaitingBots(w) -> PlayTeams]
    BY DEF Placements
  <2>2. PlayTeams = {"red", "blue"}
    BY <1>2 DEF PlayTeams
  <2>3. \A b \in Joining(w, p) : size(p[b]) <= size(Opponent(p[b])) + 1
    <3>1. \A b \in DOMAIN p :
            size(p[b]) <= size(Opponent(p[b]))
                            + (IF b \in Joining(w, p) THEN 1 ELSE 0)
      BY <1>2 DEF Placements
    <3>2. Joining(w, p) \subseteq DOMAIN p
      BY DEF Joining
    <3>3. QED BY <3>1, <3>2
  <2>4. ASSUME NEW t \in {"red", "blue"}
        PROVE  /\ Size(w, t) \in Nat /\ Cardinality(joined(t)) \in Nat
               /\ Cardinality(joined(t)) = 0 \/ size(t) <= size(Opponent(t)) + 1
               /\ Size(v, t) = size(t)
    <3>1. /\ Cardinality(joined(t)) \in Nat
          /\ joined(t) = {} => Cardinality(joined(t)) = 0
          /\ Size(v, t) = size(t)
      BY <2>1, <2>2, <2>4, PlacedSize
    <3>2. joined(t) # {} => size(t) <= size(Opponent(t)) + 1
      BY <2>3
    <3>3. Size(w, t) \in Nat
      BY SizeFacts
    <3>4. QED BY <3>1, <3>2, <3>3
  <2> DEFINE r == Size(w, "red")
             b == Size(w, "blue")
             m == Cardinality(joined("red"))
             n == Cardinality(joined("blue"))
  <2>5. /\ r \in Nat /\ b \in Nat /\ m \in Nat /\ n \in Nat
        /\ m = 0 \/ r + m <= b + n + 1
        /\ n = 0 \/ b + n <= r + m + 1
        /\ Size(v, "red") = r + m /\ Size(v, "blue") = b + n
    BY <2>4 DEF Opponent
  <2>6. ~(Spread(w) > 1)
    BY <1>2 DEF Imbalanced
  <2> HIDE DEF v
  <2>7. ~(Spread(v) > 1)
    <3>1. r - b <= 1 /\ b - r <= 1
      BY <2>5, <2>6 DEF Spread
    <3> HIDE DEF r, b, m, n
    <3>2. (r + m) - (b + n) <= 1 /\ (b + n) - (r + m) <= 1
      BY <2>5, <3>1
    <3>3. QED BY <2>5, <3>2 DEF Spread
  <2>8. QED BY <2>7 DEF Imbalanced, v
<1>3. QED BY <1>1, <1>2

-----------------------------------------------------------------------------
(* The frame of the match state machine.                                    *)

\* Pulling bots in begins nothing,
LEMMA PullBotsCalm ==
  ASSUME NEW w, Coherent(w), NEW s \in Scores,
         NEW p \in [WaitingBots(w) -> PlayTeams]
  PROVE  /\ Calm(w.lv, PullBots(w, p, s).lv)
         /\ w.lv.match <= MATCH_COUNTDOWN
              => PullBots(w, p, s).lv.match = w.lv.match
<1> DEFINE v == Placed(w, p, s)
<1>1. CASE Joining(w, p) = {}
  <2>1. Calm(w.lv, w.lv)
    BY SameCalm DEF Same, SamePhase, SameTimeout, SameRecord, SameEnd
  <2>2. QED BY <1>1, <2>1 DEF PullBots
<1>2. CASE Joining(w, p) # {}
  <2>1. Coherent(v) /\ Same(v.lv, w.lv)
    BY PlacedCoherent, PlacedFacts
  <2>2. v.lv.lockStale = w.lv.lockStale
    BY CoherentType DEF Placed, Level
  <2>3. PullBots(w, p, s) = CheckDMExitRules(v)
    BY <1>2 DEF PullBots
  <2> HIDE DEF v
  <2>4. Calm(w.lv, v.lv) /\ v.lv.match = w.lv.match
    BY <2>1, <2>2, SameCalm DEF Same, SamePhase
  <2>5. /\ Calm(v.lv, CheckDMExitRules(v).lv)
        /\ v.lv.match <= MATCH_COUNTDOWN
             => CheckDMExitRules(v).lv.match = v.lv.match
    BY <2>1, ExitRulesCalm
  <2>6. QED BY <2>3, <2>4, <2>5, CalmTransitive
<1>3. QED BY <1>1, <1>2

\* asks nobody's consent,
LEMMA PullBotsAgreed ==
  ASSUME NEW w, Coherent(w), NEW s \in Scores,
         NEW p \in [WaitingBots(w) -> PlayTeams]
  PROVE  LET u == PullBots(w, p, s)
         IN /\ u.lv.match \in {w.lv.match, MATCH_ENDED, MATCH_WARMUP_DEFAULT}
            /\ u.lv.match # MATCH_WARMUP_DEFAULT => Agreed(u) = Agreed(w)
<1> DEFINE v == Placed(w, p, s)
           u == PullBots(w, p, s)
<1>1. CASE Joining(w, p) = {}
  BY <1>1 DEF PullBots
<1>2. CASE Joining(w, p) # {}
  <2>1. /\ Coherent(v) /\ v.lv.match = w.lv.match
        /\ \A c \in Clients :
             /\ v.cl[c].state = w.cl[c].state
             /\ v.cl[c].ready = w.cl[c].ready
             /\ v.cl[c].team =
                  IF c \in Joining(w, p) THEN p[c] ELSE w.cl[c].team
    BY PlacedFacts, PlacedCoherent DEF Same, SamePhase
  <2>2. u = CheckDMExitRules(v)
    BY <1>2 DEF PullBots
  <2>3. Joining(w, p) \cap Humans = {} /\ Humans \subseteq Clients
    BY ClientsAssumption DEF Joining, WaitingBots, Clients
  <2> HIDE DEF u, v
  <2>4. \A c \in Humans : /\ v.cl[c].state = w.cl[c].state
                          /\ v.cl[c].team = w.cl[c].team
                          /\ v.cl[c].ready = w.cl[c].ready
    BY <2>1, <2>3
  <2>5. Playing(v) \cap Humans = Playing(w) \cap Humans
    BY <2>3, <2>4 DEF Playing, Present
  <2>6. {c \in Playing(v) \cap Humans : v.cl[c].ready} =
          {c \in Playing(w) \cap Humans : w.cl[c].ready}
    BY <2>4, <2>5
  <2>7. Agreed(v) = Agreed(w)
    BY <2>5, <2>6 DEF Agreed
  <2>8. /\ u.lv.match \in {v.lv.match, MATCH_ENDED, MATCH_WARMUP_DEFAULT}
        /\ u.cl = v.cl \/ u.lv.match = MATCH_WARMUP_DEFAULT
    BY <2>1, <2>2, ExitRulesMatch
  <2>9. u.cl = v.cl => Agreed(u) = Agreed(v)
    BY SameAgreed
  <2>10. QED BY <2>1, <2>7, <2>8, <2>9 DEF u
<1>3. QED BY <1>1, <1>2

\* and brings no match back to warmup while the sides are even.
LEMMA PullBotsOnward ==
  ASSUME NEW w, Coherent(w), NEW s \in Scores,
         NEW p \in [WaitingBots(w) -> PlayTeams],
         w.lv.match <= MATCH_COUNTDOWN
           \/ (p \in Placements(w) /\ ~Imbalanced(w))
  PROVE  Onward(w.lv, PullBots(w, p, s).lv)
<1> DEFINE v == Placed(w, p, s)
<1>0. w.lv.match \in MATCH_NONE..MATCH_ENDED
  BY CoherentType DEF Level
<1>1. CASE w.lv.match <= MATCH_COUNTDOWN
  BY <1>1, PullBotsCalm DEF Onward
<1>2. CASE w.lv.match > MATCH_COUNTDOWN
  <2>0. p \in Placements(w) /\ ~Imbalanced(w)
    BY <1>0, <1>2 DEF MATCH_NONE, MATCH_ENDED, MATCH_COUNTDOWN
  <2>1. CASE Joining(w, p) = {}
    BY <2>1, PullBotsCalm DEF PullBots, Onward
  <2>2. CASE Joining(w, p) # {}
    <3>1. Coherent(v) /\ Same(v.lv, w.lv) /\ ~Imbalanced(v)
      BY <2>0, PlacedCoherent, PlacedFacts, PlacedBalanced
    <3>2. PullBots(w, p, s) = CheckDMExitRules(v)
      BY <2>2 DEF PullBots
    <3> HIDE DEF v
    <3>3. PullBots(w, p, s).lv.match > MATCH_COUNTDOWN
      BY <1>2, <3>1, <3>2, ExitRulesCalm DEF Same, SamePhase
    <3>4. PullBots(w, p, s).lv.match \in MATCH_NONE..MATCH_ENDED
      BY PullBotsCoherent, CoherentType DEF Level
    <3>5. QED
      BY <3>3, <3>4, PullBotsCalm
      DEF Onward, MATCH_NONE, MATCH_ENDED, MATCH_COUNTDOWN
  <2>3. QED BY <2>1, <2>2
<1>3. QED
  BY <1>0, <1>1, <1>2 DEF MATCH_NONE, MATCH_ENDED, MATCH_COUNTDOWN

\* Entering a phase of the warmup that clears the locks is calm.
LEMMA WarmupCalm ==
  ASSUME NEW l, NEW k,
         k.match \notin {MATCH_COUNTDOWN, MATCH_IN_PROGRESS},
         k.auto \subseteq l.auto,
         Settles(l.stats, k.stats), SameEnd(k, l),
         k.lockStale = l.lockStale
  PROVE  Calm(l, k)
BY DEF SameEnd, Calm, Winds

\* Falling back to waiting is calm.
LEMMA BackToWaitingCalm ==
  ASSUME NEW w, Coherent(w)
  PROVE  Calm(w.lv, BackToWaiting(w).lv)
<1> DEFINE k == [w.lv EXCEPT !.match = MATCH_WARMUP_DEFAULT, !.auto = {},
                             !.timer = 0]
<1>1. /\ k.match = MATCH_WARMUP_DEFAULT /\ k.auto = {} /\ SameRecord(k, w.lv)
      /\ SameEnd(k, w.lv) /\ k.lockStale = w.lv.lockStale
  BY CoherentType DEF Level, SameRecord, SameEnd
<1>2. BackToWaiting(w).lv \in {w.lv, k}
  BY DEF BackToWaiting
<1> HIDE DEF k
<1>3. Calm(w.lv, k)
  BY <1>1, WarmupCalm
  DEF Settles, SameRecord, MATCH_WARMUP_DEFAULT, MATCH_COUNTDOWN,
      MATCH_IN_PROGRESS
<1>4. Calm(w.lv, w.lv)
  BY SameCalm DEF Same, SamePhase, SameTimeout, SameRecord, SameEnd
<1>5. QED BY <1>2, <1>3, <1>4

\* A restarted warmup is calm.
LEMMA RestartWarmupCalm ==
  ASSUME NEW w, Unpaused(w)
  PROVE  Calm(w.lv, RestartWarmup(w).lv)
<1> DEFINE v == BackToWaiting(w)
           k == [v.lv EXCEPT !.countStale = FALSE, !.timer = 0]
<1>1. v.lv \in Level /\ Calm(w.lv, v.lv)
  BY BackToWaitingCoherent, UnpausedFacts, BackToWaitingCalm
<1>2. RestartWarmup(w).lv = k
  BY DEF RestartWarmup, At
<1> HIDE DEF v
<1>3. Same(k, v.lv) /\ k.lockStale = v.lv.lockStale
  BY <1>1 DEF Level, Same, SamePhase, SameTimeout, SameRecord, SameEnd
<1> HIDE DEF k
<1>4. Calm(v.lv, k)
  BY <1>3, SameCalm
<1>5. QED BY <1>1, <1>2, <1>4, CalmTransitive

\* StartCountdown begins a countdown, or where there is none the match.
LEMMA StartCountdownOutcome ==
  ASSUME NEW w, Unpaused(w), w.lv.match < MATCH_COUNTDOWN
  PROVE  Outcome(w.lv, StartCountdown(w))
<1> DEFINE k == [w.lv EXCEPT !.match = MATCH_COUNTDOWN,
                             !.timer = CountdownFrames]
           u == [lv |-> k, cl |-> w.cl]
           v == At(u, Synchronize(k))
<1>0. w.lv \in Level /\ w.cl \in [Clients -> Client] /\ Coherent(w)
  BY UnpausedFacts
<1>1. k \in Level
  BY <1>0, PhaseFacts, NumbersAssumption DEF Level
<1>2. /\ k.match = MATCH_COUNTDOWN /\ SameTimeout(k, w.lv)
      /\ SameRecord(k, w.lv) /\ SameEnd(k, w.lv)
  BY <1>0 DEF Level, SameTimeout, SameRecord, SameEnd
<1>3. StartCountdown(w) = IF CountdownFrames > 0 THEN v ELSE MatchStart(v)
  BY DEF StartCountdown, At
<1>4. v.lv = Synchronize(k)
  BY DEF At
<1> HIDE DEF k
<1>5. w.lv.match < MATCH_IN_PROGRESS /\ w.lv.match <= MATCH_COUNTDOWN
  BY <1>0 DEF Level, MATCH_NONE, MATCH_ENDED, MATCH_COUNTDOWN, MATCH_IN_PROGRESS
<1>6. Unpaused(u)
  BY <1>0, <1>1, <1>2, <1>5, EnterWarmup DEF MATCH_COUNTDOWN, MATCH_IN_PROGRESS
<1>7. Coherent(v)
  BY <1>6, SynchronizeCoherent DEF Unpaused
<1>8. /\ v.lv.match = MATCH_COUNTDOWN /\ v.lv.stats = w.lv.stats
      /\ SameEnd(v.lv, w.lv)
  BY <1>1, <1>2, <1>4, SynchronizeFacts DEF SameRecord, SameEnd
<1> HIDE DEF v
<1>9. Outcome(w.lv, v)
  BY <1>8 DEF Outcome, Counts, Settles
<1>10. CASE MatchStart(v) = v
  BY <1>3, <1>9, <1>10
<1>11. CASE Starts(v.lv, MatchStart(v).lv) /\ Fresh(MatchStart(v))
  <2>1. Starts(w.lv, MatchStart(v).lv)
    BY <1>5, <1>8, <1>11 DEF Starts, SameEnd
  <2>2. QED BY <1>3, <1>9, <1>11, <2>1 DEF Outcome
<1>12. QED BY <1>7, <1>10, <1>11, MatchStartOutcome

\* A sufficient roster leads on: to the ready-up, the countdown, the match;
\* out of the ready-up only if its players agree.
LEMMA TickReadyOutcome ==
  ASSUME NEW w, Unpaused(w)
  PROVE  /\ Outcome(w.lv, TickReady(w))
         /\ ( /\ DoReadyup
              /\ w.lv.match \notin
                   {MATCH_NONE, MATCH_WARMUP_DELAYED, MATCH_COUNTDOWN}
              /\ ~(w.lv.match = MATCH_WARMUP_READYUP /\ Agreed(w)) )
            => Calm(w.lv, TickReady(w).lv)
<1> DEFINE k  == [w.lv EXCEPT !.cancel = Unset]
           v  == At(w, k)
           up == [k EXCEPT !.match = MATCH_WARMUP_READYUP, !.timer = 0]
<1>0. w.lv \in Level /\ Coherent(w)
  BY UnpausedFacts
<1>1. k \in Level /\ Same(k, w.lv) /\ k.lockStale = w.lv.lockStale
  BY <1>0, TimerFacts
  DEF Level, Same, SamePhase, SameTimeout, SameRecord, SameEnd
<1>2. v.lv = k
  BY DEF At
<1>3. /\ up.match = MATCH_WARMUP_READYUP /\ up.auto = k.auto
      /\ SameRecord(up, k) /\ SameEnd(up, k) /\ up.lockStale = k.lockStale
  BY <1>1 DEF Level, SameRecord, SameEnd
<1>4. \/ TickReady(w) \in {v, RestartWarmup(v), At(v, up), MatchStart(v)}
      \/ /\ k.match \in {MATCH_WARMUP_DEFAULT, MATCH_WARMUP_READYUP}
         /\ TickReady(w) = StartCountdown(v)
  BY <1>2 DEF TickReady, k, up
<1>a. ASSUME DoReadyup, k.match \notin
               {MATCH_NONE, MATCH_WARMUP_DELAYED, MATCH_COUNTDOWN},
             ~(k.match = MATCH_WARMUP_READYUP /\ Agreed(v))
      PROVE  TickReady(w) \in {v, RestartWarmup(v), At(v, up)}
  <2>1. CASE k.match > MATCH_COUNTDOWN \/ k.countStale
    BY <1>2, <2>1 DEF TickReady, k
  <2>2. CASE k.match = MATCH_WARMUP_DEFAULT
    BY <1>2, <1>a, <2>2 DEF TickReady, k, up
  <2>3. CASE k.match = MATCH_WARMUP_READYUP /\ ~(k.match > MATCH_COUNTDOWN)
    <3>1. ~ReadyConditionsMet(v)
      BY <1>a, <2>3 DEF Agreed, ReadyConditionsMet
    <3>2. k.match # MATCH_WARMUP_DEFAULT
      BY <2>3 DEF MATCH_WARMUP_DEFAULT, MATCH_WARMUP_READYUP
    <3>3. QED BY <1>2, <2>1, <2>3, <3>1, <3>2 DEF TickReady, k
  <2>4. k.match \in MATCH_NONE..MATCH_ENDED
    BY <1>1 DEF Level
  <2>5. QED
    BY <1>a, <2>1, <2>2, <2>3, <2>4
    DEF MATCH_NONE, MATCH_WARMUP_DELAYED, MATCH_WARMUP_DEFAULT,
        MATCH_WARMUP_READYUP, MATCH_COUNTDOWN, MATCH_ENDED
<1>5. At(v, up).lv = up
  BY DEF At
<1>b. v.cl = w.cl /\ k.match = w.lv.match
  BY <1>1 DEF At, Same, SamePhase
<1> HIDE DEF k, up
<1>6. Unpaused(v)
  BY <1>1, SameUnpaused
<1> HIDE DEF v
<1>7. Onward(w.lv, k)
  BY <1>1, SameCalm
<1>8. Calm(k, k) /\ Calm(k, up)
  <2>1. Calm(k, k)
    BY SameCalm DEF Same, SamePhase, SameTimeout, SameRecord, SameEnd
  <2>2. Calm(k, up)
    BY <1>3, WarmupCalm
    DEF Settles, SameRecord, MATCH_WARMUP_READYUP, MATCH_COUNTDOWN,
      MATCH_IN_PROGRESS
  <2>3. QED BY <2>1, <2>2
<1>9. /\ Outcome(k, v) /\ Outcome(k, RestartWarmup(v)) /\ Outcome(k, At(v, up))
      /\ Outcome(k, MatchStart(v))
  <2>1. Outcome(k, v) /\ Outcome(k, At(v, up))
    BY <1>2, <1>5, <1>8 DEF Outcome
  <2>2. Outcome(k, RestartWarmup(v))
    BY <1>2, <1>6, RestartWarmupCalm DEF Outcome
  <2>3. Outcome(k, MatchStart(v))
    BY <1>2, <1>6, UnpausedFacts, MatchStartOutcome
  <2>4. QED BY <2>1, <2>2, <2>3
<1>10. ASSUME k.match \in {MATCH_WARMUP_DEFAULT, MATCH_WARMUP_READYUP}
       PROVE  Outcome(k, StartCountdown(v))
  <2>1. v.lv.match < MATCH_COUNTDOWN
    BY <1>2, <1>10
    DEF MATCH_WARMUP_DEFAULT, MATCH_WARMUP_READYUP, MATCH_COUNTDOWN
  <2>2. QED BY <1>2, <1>6, <2>1, StartCountdownOutcome
<1>11. Outcome(k, TickReady(w))
  BY <1>4, <1>9, <1>10
<1>12. Outcome(w.lv, TickReady(w))
  BY <1>0, <1>1, <1>7, <1>11, OutcomeAfter
<1>13. /\ Calm(w.lv, v.lv) /\ Calm(w.lv, RestartWarmup(v).lv)
       /\ Calm(w.lv, At(v, up).lv)
  <2>1. Calm(k, RestartWarmup(v).lv)
    BY <1>2, <1>6, RestartWarmupCalm
  <2>2. QED BY <1>2, <1>5, <1>7, <1>8, <2>1, CalmTransitive DEF Onward
<1>14. Agreed(v) = Agreed(w)
  BY <1>b, SameAgreed
<1>15. ASSUME DoReadyup, w.lv.match \notin
                {MATCH_NONE, MATCH_WARMUP_DELAYED, MATCH_COUNTDOWN},
              ~(w.lv.match = MATCH_WARMUP_READYUP /\ Agreed(w))
       PROVE  Calm(w.lv, TickReady(w).lv)
  <2>1. TickReady(w) \in {v, RestartWarmup(v), At(v, up)}
    BY <1>a, <1>b, <1>14, <1>15
  <2>2. QED BY <1>13, <2>1
<1>16. QED BY <1>12, <1>15

\* An insufficient one waits, or falls back.
LEMMA TickNotEnoughCalm ==
  ASSUME NEW w, Unpaused(w)
  PROVE  Calm(w.lv, TickNotEnough(w).lv)
<1> DEFINE left == IF w.lv.cancel = Unset THEN CancelFrames ELSE w.lv.cancel
           wait == [w.lv EXCEPT !.cancel = left]
           stop == [w.lv EXCEPT !.cancel = Unset]
<1>0. w.lv \in Level
  BY UnpausedFacts
<1>1. TickNotEnough(w) \in {At(w, wait), BackToWaiting(At(w, stop))}
  BY DEF TickNotEnough
<1>2. stop \in Level
  BY <1>0, TimerFacts DEF Level
<1> HIDE DEF left
<1>3. /\ Same(wait, w.lv) /\ wait.lockStale = w.lv.lockStale
      /\ Same(stop, w.lv) /\ stop.lockStale = w.lv.lockStale
  BY <1>0 DEF Level, Same, SamePhase, SameTimeout, SameRecord, SameEnd
<1>4. At(w, wait).lv = wait /\ At(w, stop).lv = stop
  BY DEF At
<1> HIDE DEF wait, stop
<1>5. Calm(w.lv, wait) /\ Calm(w.lv, stop)
  BY <1>3, SameCalm
<1>6. Unpaused(At(w, stop))
  BY <1>2, <1>3, SameUnpaused
<1>7. Calm(stop, BackToWaiting(At(w, stop)).lv)
  BY <1>4, <1>6, BackToWaitingCalm DEF Unpaused
<1>8. QED BY <1>1, <1>4, <1>5, <1>7, CalmTransitive

\* Leaving the start-up delay leads on to the warmup.
LEMMA LeaveDelayOnward ==
  ASSUME NEW w, Coherent(w)
  PROVE  /\ Onward(w.lv, LeaveDelay(w).lv)
         /\ LeaveDelay(w).cl = w.cl
         /\ \/ LeaveDelay(w) = w /\ w.lv.match # MATCH_WARMUP_DELAYED
            \/ LeaveDelay(w).lv.match = MATCH_WARMUP_DEFAULT
<1> DEFINE k == [w.lv EXCEPT !.match = MATCH_WARMUP_DEFAULT, !.timer = 0,
                             !.countStale = FALSE, !.auto = {}]
<1>1. CASE w.lv.match # MATCH_WARMUP_DELAYED
  <2>1. Onward(w.lv, w.lv)
    BY SameCalm DEF Same, SamePhase, SameTimeout, SameRecord, SameEnd
  <2>2. QED BY <1>1, <2>1 DEF LeaveDelay
<1>2. CASE w.lv.match = MATCH_WARMUP_DELAYED
  <2>1. /\ k.match = MATCH_WARMUP_DEFAULT /\ k.auto = {} /\ SameRecord(k, w.lv)
        /\ SameEnd(k, w.lv) /\ k.lockStale = w.lv.lockStale
    BY CoherentType DEF Level, SameRecord, SameEnd
  <2>2. LeaveDelay(w).lv = k /\ LeaveDelay(w).cl = w.cl
    BY <1>2 DEF LeaveDelay, At
  <2> HIDE DEF k
  <2>3. Calm(w.lv, k)
    BY <2>1, WarmupCalm
    DEF Settles, SameRecord, MATCH_WARMUP_DEFAULT, MATCH_COUNTDOWN,
      MATCH_IN_PROGRESS
  <2>4. QED BY <1>2, <2>1, <2>2, <2>3 DEF Onward
<1>3. QED BY <1>1, <1>2

\* The same roster, judged in another phase of the warmup.
LEMMA SameRoster ==
  ASSUME NEW w, NEW v, v.cl = w.cl
  PROVE  /\ Imbalanced(v) = Imbalanced(w) /\ NotEnough(v) = NotEnough(w)
         /\ WaitingBots(v) = WaitingBots(w) /\ Playing(v) = Playing(w)
BY DEF Imbalanced, NotEnough, Humanless, WaitingBots, Playing, Present, Spread,
       Size

\* Where a warmup asks for it, there is no consent, nor a countdown that
\* had it.
Unasked(w) ==
  /\ DoWarmup /\ DoReadyup
  /\ w.lv.match # MATCH_COUNTDOWN /\ ~Agreed(w)

\* The frame of a roster: calm unless it is even and sufficient, and has
\* agreed where it is asked.
LEMMA TickRosterOutcome ==
  ASSUME NEW w, Unpaused(w), NEW s \in Scores, NEW p \in Placements(w)
  PROVE  /\ Outcome(w.lv, TickRoster(LeaveDelay(w), p, s))
         /\ NotEnough(w) \/ Imbalanced(w)
              => Calm(w.lv, TickRoster(LeaveDelay(w), p, s).lv)
         /\ Unasked(w) /\ w.lv.match # MATCH_NONE
              => Calm(w.lv, TickRoster(LeaveDelay(w), p, s).lv)
<1> DEFINE d == LeaveDelay(w)
           u == PullBots(d, p, s)
           k == [u.lv EXCEPT !.cancel = Unset]
<1>1. /\ Unpaused(d) /\ d.cl = w.cl /\ Onward(w.lv, d.lv)
      /\ \/ d = w /\ w.lv.match # MATCH_WARMUP_DELAYED
         \/ d.lv.match = MATCH_WARMUP_DEFAULT
  BY LeaveDelayUnpaused, LeaveDelayOnward DEF Unpaused
<1>2. p \in [WaitingBots(w) -> PlayTeams]
  BY DEF Placements
<1> HIDE DEF d
<1>3. /\ Imbalanced(d) = Imbalanced(w) /\ NotEnough(d) = NotEnough(w)
      /\ p \in [WaitingBots(d) -> PlayTeams]
  BY <1>1, <1>2, SameRoster
<1>4. Unpaused(u) /\ Calm(d.lv, u.lv)
  BY <1>1, <1>3, PullBotsUnpaused, PullBotsCalm DEF Unpaused
<1>5. ~Imbalanced(w) => Onward(d.lv, u.lv)
  <2>1. ~Imbalanced(w) => d.lv.match <= MATCH_COUNTDOWN
                            \/ (p \in Placements(d) /\ ~Imbalanced(d))
    BY <1>1, <1>3 DEF MATCH_WARMUP_DEFAULT, MATCH_COUNTDOWN
  <2>2. QED BY <1>1, <1>3, <2>1, PullBotsOnward DEF Unpaused
<1>b. ASSUME Unasked(w), w.lv.match # MATCH_NONE
      PROVE  /\ DoReadyup
             /\ u.lv.match \notin
                  {MATCH_NONE, MATCH_WARMUP_DELAYED, MATCH_COUNTDOWN}
             /\ ~(u.lv.match = MATCH_WARMUP_READYUP /\ Agreed(u))
  <2>1. /\ u.lv.match \in {d.lv.match, MATCH_ENDED, MATCH_WARMUP_DEFAULT}
        /\ u.lv.match # MATCH_WARMUP_DEFAULT => Agreed(u) = Agreed(d)
    BY <1>1, <1>3, PullBotsAgreed DEF Unpaused
  <2> HIDE DEF u
  <2>2. Agreed(d) = Agreed(w)
    BY <1>1, SameAgreed
  <2>3. d.lv.match \notin {MATCH_NONE, MATCH_WARMUP_DELAYED, MATCH_COUNTDOWN}
    BY <1>1, <1>b
    DEF Unasked, MATCH_NONE, MATCH_WARMUP_DELAYED, MATCH_WARMUP_DEFAULT,
        MATCH_COUNTDOWN
  <2>4. QED
    BY <1>b, <2>1, <2>2, <2>3
    DEF Unasked, MATCH_NONE, MATCH_WARMUP_DELAYED, MATCH_WARMUP_DEFAULT,
        MATCH_WARMUP_READYUP, MATCH_COUNTDOWN, MATCH_ENDED
<1>6. TickRoster(d, p, s) =
        IF Imbalanced(d) THEN BackToWaiting(At(u, k))
        ELSE IF NotEnough(d) THEN TickNotEnough(u) ELSE TickReady(u)
  BY DEF TickRoster
<1> HIDE DEF u
<1>7. Calm(w.lv, u.lv) /\ u.lv \in Level /\ d.lv \in Level
  BY <1>1, <1>4, CalmTransitive, UnpausedFacts DEF Onward
<1>8. CASE Imbalanced(w)
  <2>1. k \in Level /\ Same(k, u.lv) /\ k.lockStale = u.lv.lockStale
    BY <1>7, TimerFacts
    DEF Level, Same, SamePhase, SameTimeout, SameRecord, SameEnd
  <2>2. At(u, k).lv = k
    BY DEF At
  <2> HIDE DEF k
  <2>3. Coherent(At(u, k)) /\ Calm(u.lv, k)
    BY <1>4, <2>1, SameUnpaused, SameCalm DEF Unpaused
  <2>4. Calm(k, BackToWaiting(At(u, k)).lv)
    BY <2>2, <2>3, BackToWaitingCalm
  <2>5. Calm(w.lv, BackToWaiting(At(u, k)).lv)
    BY <1>7, <2>3, <2>4, CalmTransitive
  <2>6. QED BY <1>3, <1>6, <1>8, <2>5 DEF Outcome, d
<1>9. CASE ~Imbalanced(w) /\ NotEnough(w)
  <2>1. Calm(w.lv, TickNotEnough(u).lv)
    BY <1>4, <1>7, TickNotEnoughCalm, CalmTransitive
  <2>2. QED BY <1>3, <1>6, <1>9, <2>1 DEF Outcome, d
<1>10. CASE ~Imbalanced(w) /\ ~NotEnough(w)
  <2>1. Outcome(u.lv, TickReady(u))
    BY <1>4, TickReadyOutcome
  <2>2. Outcome(d.lv, TickReady(u))
    BY <1>1, <1>5, <1>7, <1>10, <2>1, OutcomeAfter DEF Unpaused
  <2>3. Outcome(w.lv, TickReady(u))
    BY <1>1, <1>7, <2>2, OutcomeAfter DEF Unpaused
  <2>4. ASSUME Unasked(w), w.lv.match # MATCH_NONE
        PROVE  Calm(w.lv, TickReady(u).lv)
    <3>1. Calm(u.lv, TickReady(u).lv)
      BY <1>4, <1>b, <2>4, TickReadyOutcome
    <3>2. QED BY <1>7, <3>1, CalmTransitive
  <2>5. QED BY <1>3, <1>6, <1>10, <2>3, <2>4 DEF d
<1>11. QED BY <1>8, <1>9, <1>10

\* The frame of an empty roster begins nothing.
LEMMA TickEmptyCalm ==
  ASSUME NEW w, Unpaused(w), NEW s \in Scores,
         NEW p \in [WaitingBots(w) -> PlayTeams]
  PROVE  Calm(w.lv, TickEmpty(w, p, s).lv)
<1> DEFINE stats == IF w.lv.match = MATCH_IN_PROGRESS THEN Export(w.lv.stats)
                    ELSE w.lv.stats
           open  == IF w.lv.match = MATCH_IN_PROGRESS THEN FALSE ELSE w.lv.open
           k == [w.lv EXCEPT !.open = open, !.stats = stats,
                   !.match = MATCH_NONE, !.timer = 0, !.cancel = Unset,
                   !.auto = {}]
<1>1. Settles(w.lv.stats, stats)
  BY ExportSettles DEF Settles
<1>2. \/ TickEmpty(w, p, s) \in {w, PullBots(w, p, s)}
      \/ TickEmpty(w, p, s).lv = k
  BY DEF TickEmpty
<1> HIDE DEF stats, open
<1>3. /\ k.match = MATCH_NONE /\ k.auto = {} /\ k.stats = stats
      /\ SameEnd(k, w.lv) /\ k.lockStale = w.lv.lockStale
  BY UnpausedFacts DEF Level, SameEnd
<1> HIDE DEF k
<1>4. Calm(w.lv, k)
  BY <1>1, <1>3, WarmupCalm DEF MATCH_NONE, MATCH_COUNTDOWN,
      MATCH_IN_PROGRESS
<1>5. Calm(w.lv, w.lv)
  BY SameCalm DEF Same, SamePhase, SameTimeout, SameRecord, SameEnd
<1>6. Calm(w.lv, PullBots(w, p, s).lv)
  BY PullBotsCalm DEF Unpaused
<1>7. QED BY <1>2, <1>4, <1>5, <1>6

\* A frame of the match state machine begins at most one thing, and where
\* there is a warmup nothing without the roster and the consent it asks for.
LEMMA TickWarmupStateOutcome ==
  ASSUME NEW w, Unpaused(w), NEW s \in Scores, NEW p \in Placements(w)
  PROVE  /\ Outcome(w.lv, TickWarmupState(w, p, s))
         /\ DoWarmup /\ (NotEnough(w) \/ Imbalanced(w))
              => Calm(w.lv, TickWarmupState(w, p, s).lv)
         /\ Unasked(w) => Calm(w.lv, TickWarmupState(w, p, s).lv)
<1> DEFINE v == TickWarmupState(w, p, s)
           k == [w.lv EXCEPT !.match = MATCH_WARMUP_DELAYED,
                             !.timer = DelayFrames, !.auto = {}]
<1>1. p \in [WaitingBots(w) -> PlayTeams]
  BY DEF Placements
<1>2. \/ v \in {w, TickEmpty(w, p, s)} \/ v.lv = k
      \/ v = TickRoster(LeaveDelay(w), p, s) /\ w.lv.match # MATCH_NONE
      \/ v = MatchStart(w) /\ ~DoWarmup
  BY DEF TickWarmupState, StartsWithoutWarmup
<1> HIDE DEF v
<1>3. Calm(w.lv, w.lv) /\ Calm(w.lv, TickEmpty(w, p, s).lv)
  <2>1. Calm(w.lv, w.lv)
    BY SameCalm DEF Same, SamePhase, SameTimeout, SameRecord, SameEnd
  <2>2. QED BY <1>1, <2>1, TickEmptyCalm
<1>4. Calm(w.lv, k)
  <2>1. /\ k.match = MATCH_WARMUP_DELAYED /\ k.auto = {} /\ SameRecord(k, w.lv)
        /\ SameEnd(k, w.lv) /\ k.lockStale = w.lv.lockStale
    BY UnpausedFacts DEF Level, SameRecord, SameEnd
  <2> HIDE DEF k
  <2>2. QED
    BY <2>1, WarmupCalm
    DEF Settles, SameRecord, MATCH_WARMUP_DELAYED, MATCH_COUNTDOWN,
      MATCH_IN_PROGRESS
<1> HIDE DEF k
<1>5. /\ Outcome(w.lv, TickRoster(LeaveDelay(w), p, s))
      /\ NotEnough(w) \/ Imbalanced(w)
           => Calm(w.lv, TickRoster(LeaveDelay(w), p, s).lv)
      /\ Unasked(w) /\ w.lv.match # MATCH_NONE
           => Calm(w.lv, TickRoster(LeaveDelay(w), p, s).lv)
  BY TickRosterOutcome
<1>6. Outcome(w.lv, MatchStart(w))
  BY MatchStartOutcome DEF Unpaused
<1>7. QED BY <1>2, <1>3, <1>4, <1>5, <1>6 DEF Outcome, Unasked, v

-----------------------------------------------------------------------------
(* Steps.                                                                   *)

\* What a step does to the level.
Advances(l, k) == Winds(l, k) \/ Counts(l, k) \/ Starts(l, k)

\* The exit rules that end a frame take nothing back that it has begun.
LEMMA ExitRulesAfter ==
  ASSUME NEW l, NEW v, Coherent(v), Outcome(l, v)
  PROVE  /\ Advances(l, CheckDMExitRules(v).lv)
         /\ Calm(l, v.lv) => Calm(l, CheckDMExitRules(v).lv)
<1> DEFINE k == CheckDMExitRules(v).lv
<1>1. /\ Calm(v.lv, k)
      /\ v.lv.match <= MATCH_COUNTDOWN => k.match = v.lv.match
      /\ Fresh(v) => CheckDMExitRules(v) = v
  BY ExitRulesCalm
<1>2. Calm(l, v.lv) => Calm(l, k)
  BY <1>1, CalmTransitive
<1>3. CASE Calm(l, v.lv)
  BY <1>2, <1>3 DEF Calm, Advances
<1>4. CASE Counts(l, v.lv)
  <2>1. k.match = MATCH_COUNTDOWN
    BY <1>1, <1>4 DEF Counts, MATCH_COUNTDOWN
  <2>2. Settles(l.stats, k.stats)
    BY <1>1, <1>4, SettlesTransitive DEF Counts, Calm, Winds
  <2>3. Counts(l, k)
    BY <1>4, <2>1, <2>2 DEF Counts
  <2>4. QED BY <1>2, <2>3 DEF Advances
<1>5. CASE Starts(l, v.lv) /\ Fresh(v)
  BY <1>1, <1>2, <1>5 DEF Advances
<1>6. QED BY <1>3, <1>4, <1>5 DEF Outcome

\* Time alone is calm.
LEMMA ElapseOnward ==
  ASSUME NEW lv \in Level
  PROVE  Onward(lv, Elapse(lv))
<1> DEFINE inter == IF lv.inter = Unset THEN Unset
                    ELSE UpTo(FloorFrames + 1, lv.inter)
           clock == UpTo(Max({2, TimeLimit}), lv.clock)
           k == Elapse(lv)
<1>1. inter # Unset <=> lv.inter # Unset
  BY UpToFacts DEF Level, Timers, Unset
<1>2. k = [lv EXCEPT !.timer = Less(lv.timer), !.cancel = Less(lv.cancel),
             !.queued = Less(lv.queued), !.exitTimer = Less(lv.exitTimer),
             !.tied = Less(lv.tied), !.inter = inter, !.clock = clock]
  BY DEF Elapse
<1> HIDE DEF inter, clock, k
<1>3. /\ SamePhase(k, lv) /\ SameRecord(k, lv) /\ k.inter = inter
      /\ k.changing = lv.changing /\ k.lockStale = lv.lockStale
  BY <1>2 DEF Level, SamePhase, SameRecord
<1>4. QED
  BY <1>1, <1>3
  DEF k, Onward, Calm, Winds, Settles, SamePhase, SameRecord

\* It changes no phase.
LEMMA ElapseMatch ==
  ASSUME NEW lv \in Level
  PROVE  Elapse(lv).match = lv.match
BY DEF Elapse, Level

\* Applying a change of the cvar is calm.
LEMMA ReconcileOnward ==
  ASSUME NEW lv \in Level
  PROVE  /\ Onward(lv, Reconcile(lv)) /\ Reconcile(lv) \in Level
         /\ Reconcile(lv).match = lv.match
<1>1. Onward(lv, lv)
  BY SameCalm DEF Same, SamePhase, SameTimeout, SameRecord, SameEnd
<1>2. ASSUME lv.lockStale
      PROVE  /\ Onward(lv, Synchronize(lv)) /\ Synchronize(lv) \in Level
             /\ Synchronize(lv).match = lv.match
  BY <1>2, SynchronizeFacts DEF SameEnd, Onward, Calm, Winds, Settles
<1>3. QED BY <1>1, <1>2 DEF Reconcile

\* The world a step becomes.
LEMMA BecomeFacts ==
  ASSUME NEW w, Become(w)
  PROVE  level' = w.lv
BY DEF Become

\* A frame of the game.
LEMMA GameFrameAdvances ==
  ASSUME IndInv, GameFrame
  PROVE  /\ Advances(level, level')
         /\ DoWarmup /\ (NotEnough(Here) \/ Imbalanced(Here))
              => Winds(level, level')
         /\ Unasked(Here) => Winds(level, level')
<1> DEFINE e == At(Here, Elapse(level))
           w == At(Here, Reconcile(Elapse(level)))
<1>1. level.timeout = 0 /\ level \in Level
  BY HereFacts DEF GameFrame
<1>2. /\ Coherent(e) /\ e.lv = Elapse(level) /\ e.lv.timeout = 0
      /\ Coherent(Here) /\ Here.lv = level /\ e.lv \in Level
  BY <1>1, HereFacts, ElapseCoherent, CoherentType DEF At
<1>3. Unpaused(w) /\ w.lv = Reconcile(e.lv) /\ w.cl = Here.cl /\ w.lv \in Level
  <2>1. /\ At(e, Reconcile(e.lv)) = w /\ w.lv = Reconcile(e.lv)
        /\ w.cl = Here.cl
    BY DEF At
  <2> HIDE DEF e, w
  <2>2. QED BY <1>2, <2>1, ReconcileCoherent, CoherentType DEF Unpaused
<1>4. PICK p \in Placements(w), s \in {level.score} \cup Leads(level) :
        Become(CheckDMExitRules(TickWarmupState(w, p, s)))
  BY DEF GameFrame
<1>5. s \in Scores
  BY <1>4, HereFacts
<1>6. p \in [WaitingBots(w) -> PlayTeams]
  BY <1>4 DEF Placements
<1> HIDE DEF w, e
<1> DEFINE v == TickWarmupState(w, p, s)
<1>7. /\ Outcome(w.lv, v)
      /\ DoWarmup /\ (NotEnough(w) \/ Imbalanced(w)) => Calm(w.lv, v.lv)
      /\ Unasked(w) => Calm(w.lv, v.lv)
  BY <1>3, <1>4, <1>5, TickWarmupStateOutcome
<1>8. Coherent(v)
  BY <1>3, <1>5, <1>6, TickWarmupStateUnpaused DEF Unpaused
<1> HIDE DEF v
<1>9. Onward(level, e.lv) /\ Onward(e.lv, w.lv)
  BY <1>1, <1>2, <1>3, ElapseOnward, ReconcileOnward
<1>10. Outcome(level, v)
  <2>1. Outcome(e.lv, v)
    BY <1>2, <1>3, <1>7, <1>9, OutcomeAfter
  <2>2. QED BY <1>2, <1>9, <2>1, OutcomeAfter
<1>11. DoWarmup /\ (NotEnough(Here) \/ Imbalanced(Here)) => Calm(level, v.lv)
  <2>1. NotEnough(w) = NotEnough(Here) /\ Imbalanced(w) = Imbalanced(Here)
    BY <1>3, SameRoster
  <2>2. QED BY <1>7, <1>9, <2>1, CalmTransitive DEF Onward
<1>12. Unasked(Here) => Calm(level, v.lv)
  <2>1. e.lv.match = level.match
    BY <1>1, <1>2, ElapseMatch
  <2>2. w.lv.match = e.lv.match
    BY <1>2, <1>3, ReconcileOnward
  <2>3. Agreed(w) = Agreed(Here)
    BY <1>3, SameAgreed
  <2>4. Unasked(Here) => Unasked(w)
    BY <1>2, <2>1, <2>2, <2>3 DEF Unasked
  <2>5. QED BY <1>7, <1>9, <2>4, CalmTransitive DEF Onward
<1>13. level' = CheckDMExitRules(v).lv
  BY <1>4, BecomeFacts DEF v
<1>14. QED BY <1>8, <1>10, <1>11, <1>12, <1>13, ExitRulesAfter DEF Calm

\* A step that leaves phase, locks and record alone.
LEMMA QuietWinds ==
  ASSUME NEW k, SamePhase(k, level), SameRecord(k, level), level' = k
  PROVE  Winds(level, level')
BY DEF SamePhase, SameRecord, Winds, Settles

\* A client that enters the world begins nothing.
LEMMA SpawnCalm ==
  ASSUME NEW w, Coherent(w), NEW c \in Clients, NEW team \in Teams,
         NEW ready \in BOOLEAN, NEW s \in Scores,
         ready => w.lv.match \in {MATCH_WARMUP_READYUP, MATCH_COUNTDOWN,
                                  MATCH_ENDED}
  PROVE  Calm(w.lv, Spawn(w, c, team, ready, s).lv)
<1> DEFINE v == Entered(w, c, team, ready, s)
<1>1. Spawn(w, c, team, ready, s) = CheckDMExitRules(v)
  BY DEF Spawn, Entered
<1>2. Coherent(v) /\ Same(v.lv, w.lv) /\ v.lv.lockStale = w.lv.lockStale
  BY EnteredCoherent
<1> HIDE DEF v
<1>3. Calm(w.lv, v.lv) /\ Calm(v.lv, CheckDMExitRules(v).lv)
  BY <1>2, SameCalm, ExitRulesCalm
<1>4. QED BY <1>1, <1>3, CalmTransitive

\* A client that connects begins nothing.
LEMMA JoinWinds ==
  ASSUME IndInv, NEW c \in Clients, Join(c)
  PROVE  Winds(level, level')
<1> DEFINE w == Spawn(Here, c, "spectator", FALSE, level.score)
           v == At(w, Reconcile(w.lv))
<1>1. "spectator" \in Teams /\ PickTeam(w) \subseteq Teams
  BY DEF Teams, PickTeam
<1>2. Coherent(w) /\ Calm(level, w.lv) /\ w.lv \in Level
  BY <1>1, HereFacts, SpawnCoherent, SpawnCalm, CoherentType
<1>3. v.lv = Reconcile(w.lv) /\ Coherent(v)
  BY <1>2, ReconcileCoherent DEF At
<1> DEFINE in(t, s) == IF IsTeamLocked(w.lv, t) THEN v
                      ELSE Spawn(v, c, t, FALSE, s)
<1>4. \/ Become(w)
      \/ \E t \in PickTeam(w), s \in Leads(w.lv) : Become(in(t, s))
  BY DEF Join
<1>5. Leads(w.lv) \subseteq Scores
  <2>1. w.lv.score \in Scores
    BY <1>2 DEF Level
  <2>2. QED BY <2>1 DEF Leads
<1> HIDE DEF w, v
<1>6. Calm(level, v.lv)
  BY <1>2, <1>3, ReconcileOnward, CalmTransitive DEF Onward
<1>7. ASSUME NEW t \in PickTeam(w), NEW s \in Leads(w.lv)
      PROVE  Calm(level, in(t, s).lv)
  <2>1. Calm(v.lv, Spawn(v, c, t, FALSE, s).lv)
    BY <1>1, <1>3, <1>5, SpawnCalm
  <2>2. Calm(level, Spawn(v, c, t, FALSE, s).lv)
    BY <1>6, <2>1, CalmTransitive
  <2>3. in(t, s) \in {v, Spawn(v, c, t, FALSE, s)}
    OBVIOUS
  <2>4. QED BY <1>6, <2>2, <2>3
<1> HIDE DEF in
<1>8. QED BY <1>2, <1>4, <1>7, BecomeFacts DEF Calm

\* Nor does one that was there before, or that leaves.
LEMMA ConnectionWinds ==
  ASSUME IndInv, NEW c \in Clients, Connection(c)
  PROVE  Winds(level, level')
<1>1. CASE Join(c)
  BY <1>1, JoinWinds
<1>2. CASE Begin(c)
  <2>1. client[c].team \in Teams
    BY HereFacts DEF Client
  <2>2. Calm(level, Spawn(Here, c, client[c].team, FALSE, level.score).lv)
    BY <2>1, HereFacts, SpawnCalm
  <2>3. QED BY <1>2, <2>2, BecomeFacts DEF Begin, Calm
<1>3. CASE Leave(c)
  <2>1. PICK s \in Scores : Become(CheckDMExitRules(Left(c, s)))
    BY <1>3, HereFacts DEF Leave, Left
  <2>2. /\ Coherent(Left(c, s))
        /\ SamePhase(Left(c, s).lv, level) /\ SameRecord(Left(c, s).lv, level)
        /\ SameEnd(Left(c, s).lv, level)
        /\ Left(c, s).lv.lockStale = level.lockStale
    BY LeftCoherent
  <2>3. Calm(level, Left(c, s).lv)
    BY <2>2 DEF SamePhase, SameRecord, SameEnd, Calm, Winds, Settles
  <2>4. Calm(level, CheckDMExitRules(Left(c, s)).lv)
    BY <2>2, <2>3, ExitRulesCalm, CalmTransitive
  <2>5. QED BY <2>1, <2>4, BecomeFacts DEF Calm
<1>4. CASE Respawn(c)
  <2>1. client[c].team \in Teams /\ client[c].state = "on"
    BY <1>4, HereFacts DEF Respawn, Playing, Present, Client
  <2>2. Calm(level,
             Spawn(Here, c, client[c].team, client[c].ready, level.score).lv)
    BY <2>1, HereFacts, ReadyFacts, SpawnCalm
  <2>3. QED BY <1>4, <2>2, BecomeFacts DEF Respawn, Calm
<1>5. QED BY <1>1, <1>2, <1>3, <1>4 DEF Connection

\* A team change begins nothing.
LEMMA TeamWinds ==
  ASSUME IndInv, NEW c \in Clients, NEW t \in Teams,
         Team(c, t) \/ SetTeam(c, t)
  PROVE  Winds(level, level')
<1> DEFINE w == At(Here, Reconcile(level))
<1>1. client[c].state = "on"
  BY DEF Team, MayCommand, SetTeam
<1>2. Coherent(w) /\ Calm(level, w.lv) /\ w.lv.match = level.match
  <2>1. w.lv = Reconcile(level)
    BY DEF At
  <2>2. w.lv.match = level.match /\ Calm(level, w.lv)
    BY <2>1, HereFacts, ReconcileOnward DEF Onward
  <2>3. Coherent(w)
    BY HereFacts, ReconcileCoherent
  <2>4. QED BY <2>2, <2>3
<1>3. \/ Become(w)
      \/ \E s \in Leads(level) : Become(Spawn(w, c, t, client[c].ready, s))
      \/ \E s \in Leads(level) : Become(Spawn(Here, c, t, client[c].ready, s))
  BY DEF Team, SetTeam
<1> HIDE DEF w
<1>4. ASSUME NEW s \in Leads(level)
      PROVE  /\ Calm(level, Spawn(w, c, t, client[c].ready, s).lv)
             /\ Calm(level, Spawn(Here, c, t, client[c].ready, s).lv)
  <2>1. Calm(w.lv, Spawn(w, c, t, client[c].ready, s).lv)
    BY <1>1, <1>2, HereFacts, ReadyFacts, SpawnCalm
  <2>2. Calm(level, Spawn(Here, c, t, client[c].ready, s).lv)
    BY <1>1, HereFacts, ReadyFacts, SpawnCalm
  <2>3. QED BY <1>2, <2>1, <2>2, CalmTransitive
<1>5. QED BY <1>2, <1>3, <1>4, BecomeFacts DEF Calm

\* Nor does any other command of a client.
LEMMA CommandWinds ==
  ASSUME IndInv, NEW c \in Clients, Command(c)
  PROVE  Winds(level, level')
<1>0. level \in Level
  BY HereFacts
<1>a. \A lv : At(Here, lv).lv = lv
  BY DEF At
<1>1. CASE \E t \in Teams : Team(c, t) \/ SetTeam(c, t)
  BY <1>1, TeamWinds
<1>2. ASSUME NEW t \in PlayTeams, LockTeam(c, t)
      PROVE  Winds(level, level')
  <2>1. level' = [level EXCEPT !.locked = level.locked \cup {t}]
    BY <1>2, <1>a, BecomeFacts DEF LockTeam
  <2>2. SamePhase(level', level) /\ SameRecord(level', level)
    BY <1>0, <2>1 DEF Level, SamePhase, SameRecord
  <2>3. QED BY <2>2, QuietWinds
<1>3. ASSUME NEW t \in PlayTeams, UnlockTeam(c, t)
      PROVE  Winds(level, level')
  <2> DEFINE lv == Reconcile(level)
             k  == [lv EXCEPT !.locked = lv.locked \ {t},
                              !.auto = lv.auto \ {t}]
  <2>1. level' \in {lv, k}
    BY <1>3, <1>a, BecomeFacts DEF UnlockTeam
  <2>2. Calm(level, lv) /\ lv \in Level
    BY <1>0, ReconcileOnward DEF Onward
  <2> HIDE DEF lv
  <2>3. /\ k.auto \subseteq lv.auto /\ k.match = lv.match
        /\ k.stats = lv.stats
    BY <2>2 DEF Level
  <2> HIDE DEF k
  <2>4. Winds(level, k) /\ Winds(level, lv)
    BY <2>2, <2>3 DEF Calm, Winds
  <2>5. QED BY <2>1, <2>4
<1>4. CASE ToggleReadyUp(c)
  <2>1. level' = level
    BY <1>4, BecomeFacts DEF ToggleReadyUp
  <2>2. QED BY <2>1, QuietWinds DEF SamePhase, SameRecord
<1>5. CASE TimeOut(c)
  <2>1. SamePhase(level', level) /\ SameRecord(level', level)
    BY <1>0, <1>5 DEF TimeOut, Level, SamePhase, SameRecord
  <2>2. QED BY <2>1, QuietWinds
<1>6. CASE TimeIn(c)
  <2>1. level' = BeginResumeCountdown(level)
    BY <1>6, <1>a, BecomeFacts DEF TimeIn
  <2>2. SamePhase(level', level) /\ SameRecord(level', level)
    BY <1>0, <2>1
    DEF BeginResumeCountdown, FinishTimeout, Level, SamePhase, SameRecord
  <2>3. QED BY <2>2, QuietWinds
<1>7. CASE PressExit(c)
  <2>1. level' = [level EXCEPT !.exit = TRUE]
    BY <1>7, <1>a, BecomeFacts DEF PressExit
  <2>2. SamePhase(level', level) /\ SameRecord(level', level)
    BY <1>0, <2>1 DEF Level, SamePhase, SameRecord
  <2>3. QED BY <2>2, QuietWinds
<1>8. QED BY <1>1, <1>2, <1>3, <1>4, <1>5, <1>6, <1>7 DEF Command

\* An administrator can begin a match; nothing else here does.
LEMMA AdministrationWinds ==
  ASSUME IndInv, Administration
  PROVE  \/ Winds(level, level')
         \/ StartMatch /\ Advances(level, level')
<1>0. level \in Level /\ Coherent(Here) /\ Here.lv = level
  BY HereFacts
<1>a. \A lv : At(Here, lv).lv = lv
  BY DEF At
<1>1. CASE StartMatch
  <2>1. level' = MatchStart(Here).lv
    BY <1>1, BecomeFacts DEF StartMatch
  <2>2. Outcome(level, MatchStart(Here))
    BY <1>0, MatchStartOutcome
  <2>3. QED BY <1>1, <2>1, <2>2 DEF Outcome, Calm, Advances
<1>2. CASE EndMatch
  <2>1. level' = QueueIntermission(level)
    BY <1>2, <1>a, BecomeFacts DEF EndMatch
  <2>2. QED BY <1>0, <2>1, QueueIntermissionCalm DEF Calm
<1>3. CASE ResetMatch
  <2>1. level' = MatchReset(Here).lv
    BY <1>3, BecomeFacts DEF ResetMatch
  <2>2. QED BY <1>0, <2>1, MatchResetCalm
<1>4. CASE NextMap
  <2>1. level' = [MatchEnd(level) EXCEPT !.exit = TRUE]
    BY <1>4, <1>a, BecomeFacts DEF NextMap
  <2>2. SamePhase(level, level) /\ SameRecord(level, level)
    BY DEF SamePhase, SameRecord
  <2>3. Calm(level, MatchEnd(level))
    BY <1>0, <2>2, MatchEndCalm
  <2>4. /\ SamePhase(level', MatchEnd(level))
        /\ SameRecord(level', MatchEnd(level))
    <3>1. MatchEnd(level) \in Level
      <4>1. /\ SameTimeout(level, level) /\ level.queued \in {level.queued, Unset}
        BY DEF SameTimeout
      <4>2. Coherent(At(Here, MatchEnd(level)))
        BY <1>0, <2>2, <4>1, MatchEndCoherent
      <4>3. QED BY <1>a, <4>2, CoherentType
    <3> HIDE DEF MatchEnd
    <3>2. QED BY <2>1, <3>1 DEF Level, SamePhase, SameRecord
  <2>5. QED BY <2>3, <2>4 DEF Calm, Winds, SamePhase, SameRecord
<1>5. CASE SetMap
  <2>1. level' = [level EXCEPT !.changing = TRUE]
    BY <1>5, <1>a, BecomeFacts DEF SetMap
  <2>2. SamePhase(level', level) /\ SameRecord(level', level)
    BY <1>0, <2>1 DEF Level, SamePhase, SameRecord
  <2>3. QED BY <2>2, QuietWinds
<1>6. CASE \E ready \in BOOLEAN : ReadyAll(ready)
  <2>1. level' = level
    BY <1>6, BecomeFacts DEF ReadyAll
  <2>2. QED BY <2>1, QuietWinds DEF SamePhase, SameRecord
<1>7. CASE ChangeMatchLock
  <2>1. level' = [level EXCEPT !.lockCvar = ~level.lockCvar,
                               !.lockStale = TRUE]
    BY <1>7, <1>a, BecomeFacts DEF ChangeMatchLock
  <2>2. SamePhase(level', level) /\ SameRecord(level', level)
    BY <1>0, <2>1 DEF Level, SamePhase, SameRecord
  <2>3. QED BY <2>2, QuietWinds
<1>8. CASE ChangeCountdown
  <2>1. level' = [level EXCEPT !.countStale = TRUE]
    BY <1>8, <1>a, BecomeFacts DEF ChangeCountdown
  <2>2. SamePhase(level', level) /\ SameRecord(level', level)
    BY <1>0, <2>1 DEF Level, SamePhase, SameRecord
  <2>3. QED BY <2>2, QuietWinds
<1>9. QED
  BY <1>1, <1>2, <1>3, <1>4, <1>5, <1>6, <1>7, <1>8 DEF Administration

\* A frame that is not one of the game.
LEMMA OtherFrameWinds ==
  ASSUME IndInv, PausedFrame \/ ExitFrame
  PROVE  Winds(level, level')
<1>0. level \in Level
  BY HereFacts
<1>a. \A lv : At(Here, lv).lv = lv
  BY DEF At
<1>1. CASE PausedFrame
  <2>1. level' \in {FinishTimeout(level), BeginResumeCountdown(level),
                    [level EXCEPT !.timeout = level.timeout - 1]}
    BY <1>1, <1>a, BecomeFacts DEF PausedFrame, TimeoutEnd
  <2>2. SamePhase(level', level) /\ SameRecord(level', level)
    BY <1>0, <2>1
    DEF BeginResumeCountdown, FinishTimeout, Level, SamePhase, SameRecord
  <2>3. QED BY <2>2, QuietWinds
<1>2. CASE ExitFrame
  <2>1. level' = ExitLevel(Elapse(level))
    BY <1>2, <1>a, BecomeFacts DEF ExitFrame
  <2>2. Elapse(level) \in Level
    BY <1>a, HereFacts, ElapseCoherent, CoherentType
  <2>3. Calm(level, Elapse(level)) /\ Calm(Elapse(level), ExitLevel(Elapse(level)))
    BY <1>0, <2>2, ElapseOnward, ExitLevelCalm DEF Onward
  <2>4. QED BY <2>1, <2>3, CalmTransitive DEF Calm
<1>3. QED BY <1>1, <1>2

\* Only a frame of the game and an administrator's start begin anything.
LEMMA NextWinds ==
  ASSUME IndInv, [Next]_vars
  PROVE  \/ Winds(level, level')
         \/ (GameFrame \/ StartMatch) /\ Advances(level, level')
<1>0. level \in Level /\ Coherent(Here) /\ Here.lv = level
  BY HereFacts
<1>a. \A lv : At(Here, lv).lv = lv
  BY DEF At
<1>1. CASE Frame
  BY <1>1, OtherFrameWinds, GameFrameAdvances DEF Frame
<1>2. CASE ChangeLevel
  <2>1. /\ level'.match = MATCH_NONE /\ level'.stats = "idle"
        /\ level'.auto = {}
    BY <1>2 DEF ChangeLevel
  <2>2. QED
    BY <2>1
    DEF Winds, Settles, MATCH_NONE, MATCH_COUNTDOWN, MATCH_IN_PROGRESS
<1>3. CASE ReachExit
  <2>1. level' = BeginIntermission(level)
    BY <1>3, <1>a, BecomeFacts DEF ReachExit
  <2>2. QED BY <1>0, <2>1, BeginIntermissionCalm DEF Calm
<1>4. CASE Administration
  BY <1>4, AdministrationWinds
<1>5. ASSUME NEW s \in Scores, Score(s)
      PROVE  Winds(level, level')
  <2> DEFINE k == [level EXCEPT !.score = s]
             w == At(Here, k)
  <2>1. k \in Level /\ Same(k, level) /\ k.lockStale = level.lockStale
    BY <1>0 DEF Level, Same, SamePhase, SameTimeout, SameRecord, SameEnd
  <2>2. level' = CheckDMExitRules(w).lv /\ w.lv = k
    BY <1>5, <1>a, BecomeFacts DEF Score
  <2> HIDE DEF k
  <2>3. Coherent(w) /\ Calm(level, k)
    BY <1>0, <2>1, SameCoherent, SameCalm
  <2> HIDE DEF w
  <2>4. Calm(level, CheckDMExitRules(w).lv)
    BY <2>2, <2>3, ExitRulesCalm, CalmTransitive
  <2>5. QED BY <2>2, <2>4 DEF Calm
<1>6. ASSUME NEW c \in Clients, Connection(c) \/ Command(c)
      PROVE  Winds(level, level')
  BY <1>6, ConnectionWinds, CommandWinds
<1>7. CASE UNCHANGED vars
  BY <1>7, QuietWinds DEF vars, SamePhase, SameRecord
<1>8. QED
  BY <1>1, <1>2, <1>3, <1>4, <1>5, <1>6, <1>7 DEF Next

-----------------------------------------------------------------------------
(* The theorems.                                                            *)

\* An unlocked team stays unlocked (ReconcileAutomaticMatchLocks).
THEOREM UnlocksSurvive == Spec => UnlockSurvives
<1>1. ASSUME IndInv, [Next]_vars
      PROVE  [level'.auto \subseteq level.auto
              \/ level.lockStale
              \/ (level'.match # level.match
                  /\ level'.match \in {MATCH_COUNTDOWN, MATCH_IN_PROGRESS})]_vars
  <2>1. Advances(level, level')
    BY <1>1, NextWinds DEF Advances
  <2>2. CASE Winds(level, level')
    BY <2>2 DEF Winds
  <2>3. CASE Counts(level, level')
    BY <2>3 DEF Counts, MATCH_COUNTDOWN
  <2>4. CASE Starts(level, level')
    BY <2>4 DEF Starts, MATCH_COUNTDOWN, MATCH_IN_PROGRESS
  <2>5. QED BY <2>1, <2>2, <2>3, <2>4 DEF Advances
<1>2. QED BY <1>1, Invariance, PTL DEF Spec, UnlockSurvives

\* No match begins under a scoreboard or in the second before it
\* (SingletonMatchCanStart), however a frame comes to begin one.
THEOREM NoStartUnderScoreboard == Spec => NoStartDuringIntermission
<1>1. ASSUME IndInv, [Next]_vars
      PROVE  [level'.match = MATCH_IN_PROGRESS /\ level.match # MATCH_IN_PROGRESS
              => /\ level.queued = Unset
                 /\ level.inter = Unset \/ level'.changing]_vars
  <2>1. Advances(level, level')
    BY <1>1, NextWinds DEF Advances
  <2>2. CASE Winds(level, level')
    BY <2>2 DEF Winds
  <2>3. CASE Counts(level, level')
    BY <2>3 DEF Counts, MATCH_COUNTDOWN, MATCH_IN_PROGRESS
  <2>4. CASE Starts(level, level')
    BY <2>4 DEF Starts
  <2>5. QED BY <2>1, <2>2, <2>3, <2>4 DEF Advances
<1>2. QED BY <1>1, Invariance, PTL DEF Spec, NoStartDuringIntermission

\* Where there is a warmup and nobody is an administrator, a match starts
\* only with the roster that warmup asks for (TickWarmupState).
THEOREM StartsNeedRoster ==
  ASSUME DoWarmup, Admins = {}
  PROVE  Spec => StartNeedsRoster
<1>1. ASSUME IndInv, [Next]_vars
      PROVE  [level'.match = MATCH_IN_PROGRESS /\ level.match # MATCH_IN_PROGRESS
              => ~NotEnough(Here) /\ ~Imbalanced(Here)]_vars
  <2>1. Winds(level, level') \/ GameFrame
    BY <1>1, NextWinds DEF StartMatch, AdminHere
  <2>2. CASE Winds(level, level')
    BY <2>2 DEF Winds
  <2>3. CASE GameFrame
    BY <1>1, <2>2, <2>3, GameFrameAdvances
  <2>4. QED BY <2>1, <2>2, <2>3
<1>2. QED BY <1>1, Invariance, PTL DEF Spec, StartNeedsRoster

\* Where there is a warmup that asks players to ready and nobody is an
\* administrator, what TickWarmupState begins has the consent of those who
\* play then: whoever left the game, came back as a spectator or was pulled
\* in as a bot since is not counted.
THEOREM CountdownsNeedConsent ==
  ASSUME DoWarmup, DoReadyup, Admins = {}
  PROVE  Spec => CountdownNeedsConsent
<1>1. ASSUME IndInv, [Next]_vars
      PROVE  [/\ level'.match \in {MATCH_COUNTDOWN, MATCH_IN_PROGRESS}
              /\ level.match \notin {MATCH_COUNTDOWN, MATCH_IN_PROGRESS}
              => Agreed(Here)]_vars
  <2>1. Winds(level, level') \/ GameFrame
    BY <1>1, NextWinds DEF StartMatch, AdminHere
  <2>2. CASE Winds(level, level')
    BY <2>2 DEF Winds
  <2>3. CASE GameFrame /\ level.match # MATCH_COUNTDOWN /\ ~Agreed(Here)
    <3>1. Unasked(Here)
      BY <1>1, <2>3, HereFacts DEF Unasked
    <3>2. QED BY <1>1, <2>2, <2>3, <3>1, GameFrameAdvances
  <2>4. QED BY <2>1, <2>2, <2>3
<1>2. QED BY <1>1, Invariance, PTL DEF Spec, CountdownNeedsConsent

\* The controller implements MatchResult: a result is settled and exported
\* once, and no match begins on top of one that is not.
THEOREM ImplementsMatchResult == Spec => ResultsAreKept
<1>1. Init => ResultLife!Init
  BY DEF Init, ResultLife!Init, Result
<1>2. ASSUME IndInv, [Next]_vars
      PROVE  [ResultLife!Next]_Result
  <2>0. level.stats \in Records
    BY <1>2, HereFacts DEF Level
  <2>1. Settles(level.stats, level'.stats)
        \/ (level.stats \in {"idle", "final"} /\ level'.stats = "live")
    BY <1>2, NextWinds DEF Advances, Winds, Counts, Starts
  <2>2. QED
    BY <2>0, <2>1
    DEF Records, Settles, Result, ResultLife!Next, ResultLife!Open,
        ResultLife!Settle, ResultLife!Publish, ResultLife!Void
<1>3. QED BY <1>1, <1>2, Invariance, PTL DEF Spec, ResultsAreKept, ResultLife!Spec

=============================================================================
