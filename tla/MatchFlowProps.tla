-------------------------- MODULE MatchFlowProps --------------------------
(***************************************************************************)
(* What must hold of the match controller of MatchFlow.                    *)
(***************************************************************************)
EXTENDS MatchFlow

\* Every variable has its type.
TypeOK ==
  /\ level \in Level
  /\ client \in [Clients -> Client]
  /\ calledIn \subseteq Clients

-----------------------------------------------------------------------------
(* Invariants.                                                              *)

\* An automatic lock never outlives the phase it belongs to: every way out
\* of countdown, play and end of match has to release it, or a team stays
\* closed in the next warmup.
AutomaticLocksHavePhase == level.auto # {} => AutomaticLockPhase(level)

\* A ready flag never leaks into another warmup: it is held only while the
\* ready-up or the countdown it led to lasts, or by a match that ended from
\* there.  A stale flag would start a countdown nobody agreed to.
ReadyIsCurrent ==
  \A c \in Present(Here) : client[c].ready =>
    level.match \in {MATCH_WARMUP_READYUP, MATCH_COUNTDOWN, MATCH_ENDED}

\* A timeout pauses a match that was being played, and the client who may
\* end it is connected and still inside its own timeout.
TimeoutHasOwner ==
  /\ level.timeout > 0 => level.match \in {MATCH_IN_PROGRESS, MATCH_ENDED}
  /\ level.resuming => level.timeout > 0
  /\ level.caller # NoClient =>
       /\ level.timeout > 0 /\ ~level.resuming
       /\ client[level.caller].state = "on"

\* The two recorders of a match, ratings and statistics, open and close
\* together, whichever of the many exits the match takes; and a match in
\* progress is recorded until the scoreboard is up.
RecordersAgree ==
  /\ level.open <=> level.stats = "live"
  /\ level.open => level.match = MATCH_IN_PROGRESS /\ level.inter = Unset
  /\ (level.match = MATCH_IN_PROGRESS /\ level.inter = Unset
        /\ ~level.changing) => level.open

\* A queued intermission belongs to a match that has ended, and a frozen
\* result waits for nothing but that intermission.
QueuedMatchIsOver ==
  /\ level.queued # Unset => level.match = MATCH_ENDED
  /\ level.stats = "frozen" => level.queued # Unset /\ level.inter = Unset

\* The inductive invariant behind the five: the same facts of any world,
\* so that they can be followed through a frame call by call.  What it adds
\* is that an exit is only ever pending under a scoreboard; without it
\* ExitFrame could leave a level whose match is still being recorded.
Coherent(w) ==
  /\ w \in World
  /\ w.lv.auto # {} => AutomaticLockPhase(w.lv)
  /\ \A c \in Clients : w.cl[c].state = "on" /\ w.cl[c].ready =>
       w.lv.match \in {MATCH_WARMUP_READYUP, MATCH_COUNTDOWN, MATCH_ENDED}
  /\ w.lv.timeout > 0 => w.lv.match \in {MATCH_IN_PROGRESS, MATCH_ENDED}
  /\ w.lv.resuming => w.lv.timeout > 0
  /\ w.lv.caller # NoClient =>
       /\ w.lv.timeout > 0 /\ ~w.lv.resuming
       /\ w.cl[w.lv.caller].state = "on"
  /\ w.lv.open <=> w.lv.stats = "live"
  /\ w.lv.open => w.lv.match = MATCH_IN_PROGRESS /\ w.lv.inter = Unset
  /\ (w.lv.match = MATCH_IN_PROGRESS /\ w.lv.inter = Unset
        /\ ~w.lv.changing) => w.lv.open
  /\ w.lv.queued # Unset => w.lv.match = MATCH_ENDED
  /\ w.lv.stats = "frozen" => w.lv.queued # Unset /\ w.lv.inter = Unset
  /\ w.lv.exit => w.lv.inter # Unset

Inv == Coherent(Here)

-----------------------------------------------------------------------------
(* Action properties.                                                       *)

\* An unlocked team stays unlocked: automatic locks appear only when the
\* countdown or the match begins, or when g_match_lock was changed, never
\* in a frame in between.
UnlockSurvives ==
  [][level'.auto \subseteq level.auto
     \/ level.lockStale
     \/ (level'.match # level.match
         /\ level'.match \in {MATCH_COUNTDOWN, MATCH_IN_PROGRESS})]_vars

\* No match begins under a scoreboard, or in the second before it.  (In the
\* frame that leaves the level one still can: a bot pulled into a countdown
\* may close the scoreboard before the countdown is looked at.)
NoStartDuringIntermission ==
  [][level'.match = MATCH_IN_PROGRESS /\ level.match # MATCH_IN_PROGRESS
     => level.queued = Unset /\ (level.inter = Unset \/ level'.changing)]_vars

\* Without an administrator's command a match starts only with the players
\* warmup asks for: the countdown does not carry a match past a roster that
\* fell short while it ran.
StartNeedsRoster ==
  [][level'.match = MATCH_IN_PROGRESS /\ level.match # MATCH_IN_PROGRESS
     => ~NotEnough(Here) /\ ~Imbalanced(Here)]_vars

\* Enough of the humans who play have readied.
Agreed(w) ==
  LET humans == Playing(w) \cap Humans
      ready  == {c \in humans : w.cl[c].ready}
  IN humans # {} =>
       ready # {} /\ 100 * Cardinality(ready) >= ReadyPercent * Cardinality(humans)

\* Where players are asked to ready, a countdown, or where there is none the
\* match, begins with the agreement of those who play then: not with that of
\* somebody who has left the game since, nor that of bots pulled in.
CountdownNeedsConsent ==
  [][/\ level'.match \in {MATCH_COUNTDOWN, MATCH_IN_PROGRESS}
     /\ level.match \notin {MATCH_COUNTDOWN, MATCH_IN_PROGRESS}
     => Agreed(Here)]_vars

\* Every change of the controller is a step of the result's life cycle.
Result ==
  CASE level.stats = "idle"   -> "none"
    [] level.stats = "live"   -> "open"
    [] level.stats = "frozen" -> "frozen"
    [] level.stats = "final"  -> "published"

ResultLife == INSTANCE MatchResult WITH result <- Result
ResultsAreKept == ResultLife!Spec

-----------------------------------------------------------------------------
(* Liveness, under the fairness of FairSpec.                                *)

\* A timeout comes to an end although nobody ends it, nobody is left to end
\* it, or the server has emptied.
TimeoutEnds == level.timeout > 0 ~> level.timeout = 0

\* Players keep leaving the server empty, which skips its frames then
\* (G_RunFrame): what is pending waits until somebody stays.
Deserted == []<>(Present(Here) = {})

\* A countdown leads somewhere: a match, a cancellation, or, if the map's
\* exit is reached, the end of the level's frames.
CountdownResolves ==
  \/ level.match = MATCH_COUNTDOWN ~>
       level.match # MATCH_COUNTDOWN \/ level.inter # Unset
  \/ Deserted

\* A match that has ended reaches its scoreboard, also when everybody left
\* in between and somebody came back.
EndReachesIntermission ==
  \/ level.queued # Unset ~> level.inter # Unset \/ level.queued = Unset
  \/ Deserted

\* A scoreboard that only bots look at ends by itself.
BotScoreboardEnds ==
  level.inter # Unset /\ Present(Here) # {} ~>
    \/ level.changing \/ Present(Here) = {} \/ level.inter = Unset
    \/ Playing(Here) \cap Humans # {}

-----------------------------------------------------------------------------
(* What the code's comments and messages say, and the code does not do.     *)

\* "Timeout allowance ... belong[s] to one singleton match" and "You have
\* already used your timeout.": nobody but an administrator is granted two
\* timeouts in one match.
OneTimeoutPerMatch ==
  [][\A c \in Clients \ Admins :
       level.timeout = 0 /\ level'.timeout > 0 /\ level'.caller = c
       => c \notin calledIn]_vars

\* "It's ok, the team we are switching to has less or same number of
\* players": a player who changes sides under g_teamplay_force_balance does
\* not join the bigger side.
SwitchJoinsSmallerSide ==
  [][\A c \in Clients :
       LET t == client'[c].team
           size(u) == Cardinality({d \in Present(Here) \ {c} : client[d].team = u})
       IN t \in PlayTeams /\ t # client[c].team => size(t) <= size(Opponent(t))]_vars

\* "let a queued/running intermission complete - with no playing clients it
\* auto-exits to the next map shortly".
EmptyIntermissionExits ==
  level.queued # Unset /\ Playing(Here) = {} ~>
    level.changing \/ level.queued = Unset \/ Playing(Here) # {}
=============================================================================
