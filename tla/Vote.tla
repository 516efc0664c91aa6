-------------------------------- MODULE Vote --------------------------------
(***************************************************************************)
(* The callvote of MuffMode: the state machine of level.vote_state against *)
(* the clients who call, cast and leave, the spawns that rebuild what a    *)
(* client persists, the administrator who decides over their heads, and    *)
(* the match that goes on meanwhile.                                       *)
(*                                                                         *)
(* As in MatchFlow, a frame and a client's or engine's call are atomic, a  *)
(* deadline is the number of frames left (0: due) and an age the number of *)
(* frames passed, saturating where the code stops caring.  The frames of a *)
(* timeout neither count votes nor let time pass, so they are stuttering.  *)
(*                                                                         *)
(* A command that passes changes other components.  What the vote itself   *)
(* depends on is kept: the phase of the match and the exit of the level.   *)
(***************************************************************************)
EXTENDS Integers, FiniteSets

CONSTANTS
  Humans, Bots,        \* client slots, by kind of connection
  Admins,              \* the humans holding sess.admin
  NoClient,            \* the null gclient_t pointer
  Commands,            \* those g_vote_flags does not disable
  NoCommand,           \* the null vcmds_t pointer
  SpecVote,            \* g_allow_spec_vote
  MidgameVote,         \* g_allow_vote_midgame
  VoteLimit,           \* g_vote_limit, 0 for none
  GraceFrames,         \* 1 s before the first count
  VoteFrames,          \* 30 s until a vote times out
  ExecuteFrames        \* 3 s from passing to execution

ASSUME ClientsAssumption ==
  /\ IsFiniteSet(Humans) /\ IsFiniteSet(Bots)
  /\ Humans \cap Bots = {}
  /\ Admins \subseteq Humans
  /\ NoClient \notin Humans \cup Bots

\* The commands by what executing them does: those that only write settings
\* are one, those that reset the match, leave the level or both are not.
ASSUME CommandsAssumption ==
  /\ Commands \subseteq
       {"setting", "readyall", "restart", "shuffle", "nextmap", "map"}
  /\ NoCommand \notin Commands

ASSUME NumbersAssumption ==
  /\ SpecVote \in BOOLEAN /\ MidgameVote \in BOOLEAN
  /\ VoteLimit \in Nat
  /\ GraceFrames \in Nat \ {0} /\ ExecuteFrames \in Nat \ {0}
  /\ VoteFrames \in Nat /\ VoteFrames > GraceFrames

-----------------------------------------------------------------------------
(* Data.                                                                    *)

Clients == Humans \cup Bots

States == {"IDLE", "ACTIVE", "PASSED", "EXECUTING", "FAILED", "COMPLETE"}

\* pers.voted.
Choices == {-1, 0, 1}

\* level.match_state, as far as votes can tell, and the scoreboard.
Phases == {"warmup", "countdown", "match", "intermission"}

VoteState ==
  [ state   : States,
    command : Commands \cup {NoCommand},
    caller  : Clients \cup {NoClient},
    age     : 0..VoteFrames,               \* since start_time
    due     : 0..ExecuteFrames ]           \* until execute_time

Client ==
  [ here    : BOOLEAN,                     \* connected and begun
    playing : BOOLEAN,                     \* ClientIsPlaying, or duel_queued
    retained : BOOLEAN,                    \* a player of another level, not yet
                                           \* spawned in this one
    voted   : Choices,                     \* pers.voted
    count   : 0..VoteLimit ]               \* pers.vote_count

VARIABLES
  vote,       \* level.vote_state
  client,     \* gclient_t of every slot
  phase,      \* level.match_state and intermission_time
  exiting,    \* level.intermission_exit
  changing,   \* a gamemap command is pending
  effects,    \* history: how often the command of this vote took effect
  cast,       \* history: what a person last answered to this vote
  calls       \* history: how many votes a person called in this match

vars == <<vote, client, phase, exiting, changing, effects, cast, calls>>

NoVote == [state |-> "IDLE", command |-> NoCommand, caller |-> NoClient,
           age |-> 0, due |-> 0]

Present(cl) == {c \in Clients : cl[c].here}

\* pers.spawned, which keeps the frames coming.
Spawned(cl) == {c \in Present(cl) : ~cl[c].retained}

\* ClientCanVote.
CanVote(cl, c) == cl[c].playing \/ SpecVote

\* The clients a count looks at: humans who can vote.
Eligible(cl) == {c \in Humans : cl[c].here /\ CanVote(cl, c)}

Voting(cl, choice) == {c \in Eligible(cl) : cl[c].voted = choice}

Running == ~changing

\* A world, for the operations a command is made of.
Here == [vote |-> vote, client |-> client, phase |-> phase,
         exiting |-> exiting, changing |-> changing, effects |-> effects,
         calls |-> calls]

-----------------------------------------------------------------------------
(* The state machine.                                                       *)

\* Mutants: a command that was executed does not complete; a vote that failed
\* does not make room for the next.
NothingCompletes ==
  [ IDLE      |-> {"ACTIVE"},
    ACTIVE    |-> {"PASSED", "FAILED"},
    PASSED    |-> {"EXECUTING", "FAILED"},
    EXECUTING |-> {"FAILED"},
    FAILED    |-> {"IDLE"},
    COMPLETE  |-> {"IDLE"} ]

FailedIsFinal ==
  [NothingCompletes EXCEPT !.EXECUTING = {"COMPLETE", "FAILED"}, !.FAILED = {}]

\* MM_IsValidVoteTransition, but for the harmless IDLE to IDLE.
ValidTransitions ==
  [ IDLE      |-> {"ACTIVE"},
    ACTIVE    |-> {"PASSED", "FAILED"},
    PASSED    |-> {"EXECUTING", "FAILED"},
    EXECUTING |-> {"COMPLETE", "FAILED"},
    FAILED    |-> {"IDLE"},
    COMPLETE  |-> {"IDLE"} ]

\* MM_TransitionVoteState: an invalid transition is ignored.
TransitionVoteState(v, to) ==
  IF to \notin ValidTransitions[v.state] THEN v
  ELSE CASE to = "IDLE"   -> NoVote
         [] to = "PASSED" -> [v EXCEPT !.state = to, !.due = ExecuteFrames]
         [] to = "FAILED" -> [v EXCEPT !.state = to, !.caller = NoClient]
         [] OTHER         -> [v EXCEPT !.state = to]

\* Mutant: half of the eligible is enough to pass.
PassesAtHalf(yes, eligible) == yes >= eligible \div 2

Passes(yes, eligible) == yes > eligible \div 2
Fails(no, eligible)   == no >= eligible - eligible \div 2

\* The count of MM_UpdateActiveVote: no eligible voter decides nothing.
Count(v, cl) ==
  LET eligible == Cardinality(Eligible(cl))
  IN IF eligible = 0 THEN v
     ELSE IF Passes(Cardinality(Voting(cl, 1)), eligible)
          THEN TransitionVoteState(v, "PASSED")
     ELSE IF Fails(Cardinality(Voting(cl, -1)), eligible)
          THEN TransitionVoteState(v, "FAILED")
     ELSE v

\* MM_UpdateActiveVote: nothing in the first second, and at most 30.
UpdateActiveVote(v, cl) ==
  IF v.age < GraceFrames THEN v
  ELSE IF v.age >= VoteFrames THEN TransitionVoteState(v, "FAILED")
  ELSE Count(v, cl)

-----------------------------------------------------------------------------
(* What the commands do.                                                    *)

Effective(w) == [w EXCEPT !.effects = w.effects + 1]

\* Mutant: a command finds out too late that it must fail.
FailsAfterEffect(w) ==
  [Effective(w) EXCEPT !.vote = TransitionVoteState(w.vote, "FAILED")]

\* MM_MarkExecutingVoteFailed.
MarkExecutingVoteFailed(w) ==
  IF w.vote.state = "EXECUTING"
  THEN [w EXCEPT !.vote = TransitionVoteState(w.vote, "FAILED")] ELSE w

\* Match_Reset, whoever asks for it: back to warmup, even from under a
\* scoreboard, and the quotas of those connected start over.
MatchReset(w) ==
  [w EXCEPT !.phase = "warmup", !.exiting = FALSE,
            !.calls = [c \in Clients |-> 0],
            !.client = [c \in Clients |->
              IF w.client[c].here THEN [w.client[c] EXCEPT !.count = 0]
              ELSE w.client[c]]]

\* The vcmds_t functions.  What was valid when the vote was called may not be
\* when it is executed: settings and maps are validated again and fail the
\* vote; a shuffle or a readyall that is pointless by now does nothing, but
\* the vote completes.
Outcomes(w) ==
  CASE w.vote.command = "setting"  -> {Effective(w), MarkExecutingVoteFailed(w)}
    [] w.vote.command = "readyall" ->
         IF w.phase = "warmup" THEN {Effective(w), w} ELSE {w}
    [] w.vote.command = "restart"  -> {MatchReset(Effective(w))}
    [] w.vote.command = "shuffle"  -> {MatchReset(Effective(w)), w}
    [] w.vote.command = "nextmap"  ->
         {[Effective(w) EXCEPT !.phase = "intermission", !.exiting = TRUE]}
    [] w.vote.command = "map"      ->
         {[Effective(w) EXCEPT !.changing = TRUE], MarkExecutingVoteFailed(w)}
    [] OTHER -> {[w EXCEPT !.vote = TransitionVoteState(w.vote, "FAILED")]}

\* MM_VotePassed: completes unless the command changed the state itself.
VotePassed(w) ==
  {IF v.vote.state # "EXECUTING" THEN v
   ELSE [v EXCEPT !.vote = TransitionVoteState(v.vote, "COMPLETE")] :
     v \in Outcomes(w)}

\* MM_CheckVote.
CheckVote(w) ==
  LET v == w.vote
      To(u) == {[w EXCEPT !.vote = u]}
  IN CASE v.state = "IDLE"      -> {w}
       [] v.state = "ACTIVE"    ->
            IF v.command = NoCommand \/ v.caller = NoClient
            THEN To(TransitionVoteState(v, "FAILED"))
            ELSE To(UpdateActiveVote(v, w.client))
       [] v.state = "PASSED"    ->
            IF v.due = 0 THEN To(TransitionVoteState(v, "EXECUTING")) ELSE {w}
       [] v.state = "EXECUTING" -> VotePassed(w)
       [] v.state \in {"FAILED", "COMPLETE"} ->
            {[w EXCEPT !.vote = TransitionVoteState(v, "IDLE"), !.effects = 0]}

\* level.time += FRAME_TIME_MS, for the times that are still looked at.
Elapse(v) ==
  [v EXCEPT
     !.age = IF v.state = "ACTIVE" THEN v.age + 1 ELSE v.age,
     !.due = IF v.state = "PASSED" /\ v.due > 0 THEN v.due - 1 ELSE v.due]

-----------------------------------------------------------------------------
(* The server frame and the match.                                          *)

Become(w) ==
  /\ vote' = w.vote /\ client' = w.client /\ phase' = w.phase
  /\ exiting' = w.exiting /\ changing' = w.changing /\ effects' = w.effects
  /\ calls' = w.calls

\* G_RunFrame skips its frames while nobody has spawned.
FrameRuns == Running /\ Spawned(client) # {}

\* ExitLevel: the gamemap command is queued.
ExitLevel(w) == [w EXCEPT !.exiting = FALSE, !.changing = TRUE]

\* The end of the frame: an exit asked for is taken at once; otherwise the
\* scoreboard may end, but not while there is a vote.
ExitRules(w) ==
  IF w.changing THEN {w}
  ELSE IF w.exiting THEN {ExitLevel(w)}
  ELSE IF w.phase = "intermission" /\ w.vote.state = "IDLE"
       THEN {w, ExitLevel(w)}
  ELSE {w}

\* One frame: the vote first, then time, then the exits.
Frame ==
  /\ FrameRuns
  /\ \E u \in CheckVote(Here) :
       \E w \in ExitRules([u EXCEPT !.vote = Elapse(u.vote)]) :
         Become(w)
  /\ UNCHANGED cast

\* TickWarmupState: a countdown starts, or is cut short.
Countdown ==
  /\ Running
  /\ \/ phase = "warmup" /\ phase' = "countdown"
     \/ phase = "countdown" /\ phase' = "warmup"
  /\ UNCHANGED <<vote, client, exiting, changing, effects, cast, calls>>

\* Match_Start gives everybody connected a new quota.
StartMatch ==
  /\ Running /\ phase \in {"warmup", "countdown"}
  /\ \E c \in Present(client) : client[c].playing
  /\ Become([MatchReset(Here) EXCEPT !.phase = "match"])
  /\ UNCHANGED cast

\* BeginIntermission.
EndMatch ==
  /\ Running /\ phase = "match" /\ phase' = "intermission"
  /\ exiting' = FALSE
  /\ UNCHANGED <<vote, client, changing, effects, cast, calls>>

\* An administrator, or the answer to uneven teams.
ResetMatch ==
  /\ Running /\ phase = "match"
  /\ Become(MatchReset(Here))
  /\ UNCHANGED cast

\* Somebody presses a key under the scoreboard: no vote holds this exit.
PressExit ==
  /\ Running /\ phase = "intermission" /\ ~exiting
  /\ Present(client) \cap Humans # {}
  /\ exiting' = TRUE
  /\ UNCHANGED <<vote, client, phase, changing, effects, cast, calls>>

\* The engine executes the gamemap command.  The level, its vote with it, is
\* new; the clients come along, with what they persist, and have yet to begin.
ChangeLevel ==
  /\ changing
  /\ vote' = NoVote /\ effects' = 0
  /\ phase' = "warmup" /\ exiting' = FALSE /\ changing' = FALSE
  /\ client' = [c \in Clients |->
       LET cl == client[c]
       IN [cl EXCEPT !.here = FALSE,
                     !.retained = cl.playing /\ (cl.here \/ cl.retained)]]
  /\ cast' = [c \in Clients |-> 0] /\ calls' = [c \in Clients |-> 0]

-----------------------------------------------------------------------------
(* Clients.                                                                 *)

\* InitClientPersistant: a spawn in deathmatch rebuilds client->pers, and
\* with it the answer to the vote and the number of votes called.
Spawn(cl, c) ==
  [cl EXCEPT ![c].voted = 0, ![c].count = 0, ![c].retained = FALSE]

\* MM_RevertVote: only while there is a vote to take an answer back from.
RevertVote(v, cl, c) ==
  IF v.state = "ACTIVE" /\ v.caller # NoClient
  THEN [cl EXCEPT ![c].voted = 0] ELSE cl

\* ClientConnect and ClientBegin.  A new human watches; one who came along
\* from the previous level is on the team of before; a bot plays.
Join(c) ==
  /\ Running /\ ~client[c].here
  /\ \E playing \in IF c \in Bots THEN {TRUE} ELSE BOOLEAN :
       client' = Spawn([client EXCEPT ![c].here = TRUE,
                                      ![c].playing = playing], c)
  /\ cast' = [cast EXCEPT ![c] = 0] /\ calls' = [calls EXCEPT ![c] = 0]
  /\ UNCHANGED <<vote, phase, exiting, changing, effects>>

\* A player who comes along and finds no spawn point: ClientSpawn returns
\* before it rebuilds client->pers, whose answer is one of the level before,
\* and a later frame spawns the client (Respawn).
Wait(c) ==
  /\ Running /\ ~client[c].here /\ client[c].retained
  /\ client' = [client EXCEPT ![c].here = TRUE]
  /\ UNCHANGED <<vote, phase, exiting, changing, effects, cast, calls>>

\* Mutant: a vote goes on without its caller.
CallerMayLeave(c) ==
  /\ Running /\ client[c].here
  /\ client' = [RevertVote(vote, client, c) EXCEPT ![c].here = FALSE,
                                                  ![c].retained = FALSE]
  /\ UNCHANGED <<vote, phase, exiting, changing, effects, cast, calls>>

\* ClientDisconnect: who called the vote takes it along, unless it is being
\* executed.
Leave(c) ==
  /\ Running /\ client[c].here
  /\ client' = [RevertVote(vote, client, c) EXCEPT ![c].here = FALSE,
                                                  ![c].retained = FALSE]
  /\ vote' = IF vote.caller = c /\ vote.state \in {"ACTIVE", "PASSED"}
             THEN TransitionVoteState(vote, "FAILED") ELSE vote
  /\ UNCHANGED <<phase, exiting, changing, effects, cast, calls>>

\* A player who died comes back, or one who waits is spawned at last.
Respawn(c) ==
  /\ Running /\ phase # "intermission"
  /\ client[c].here /\ client[c].playing
  /\ client[c].retained => FrameRuns
  /\ client' = Spawn(client, c)
  /\ UNCHANGED <<vote, phase, exiting, changing, effects, cast, calls>>

\* ClientCommand refuses these commands during the scoreboard.
MayCommand(c) == Running /\ client[c].here /\ phase # "intermission"

AdminHere == Running /\ \E a \in Admins : client[a].here

\* SetTeam, at the client's request or the administrator's, who is heard
\* under the scoreboard too: who joins takes the answer back; then the client
\* spawns, unless a player finds no free spawn point.
SetTeam(c, playing) ==
  /\ MayCommand(c) \/ (AdminHere /\ client[c].here)
  /\ playing \/ client[c].playing
  /\ LET moved == [client EXCEPT ![c].playing = playing]
         taken == IF playing THEN RevertVote(vote, moved, c) ELSE moved
     IN \/ client' = Spawn(taken, c)
        \/ playing /\ client' = taken
  /\ UNCHANGED <<vote, phase, exiting, changing, effects, cast, calls>>

-----------------------------------------------------------------------------
(* Voting.                                                                  *)

\* The validators, as far as they look at something that is modelled: the
\* ready-up for a readyall, and two to shuffle.
Valid(command) ==
  /\ command = "readyall" => phase = "warmup"
  /\ command = "shuffle" =>
       Cardinality({c \in Present(client) : client[c].playing}) >= 2

WithinLimit(c) == VoteLimit > 0 => client[c].count < VoteLimit

\* Mutant: only the caller's answer is set.
KeepAnswers(cl, c) == [cl EXCEPT ![c].voted = 1]

\* The caller has answered yes, everybody else connected has not answered.
ResetAnswers(cl, c) ==
  [d \in Clients |-> IF cl[d].here
                     THEN [cl[d] EXCEPT !.voted = IF d = c THEN 1 ELSE 0]
                     ELSE cl[d]]

\* MM_CmdCallVote, MenuVote_Initiate and MM_VoteCommandStore.
CallVote(c, command) ==
  /\ MayCommand(c) /\ vote.state = "IDLE" /\ CanVote(client, c)
  /\ WithinLimit(c) /\ Valid(command)
  /\ MidgameVote \/ phase = "warmup"
  /\ vote' = TransitionVoteState(
               [NoVote EXCEPT !.command = command, !.caller = c], "ACTIVE")
  /\ client' = [ResetAnswers(client, c) EXCEPT
                  ![c].count = IF VoteLimit = 0 THEN 0 ELSE client[c].count + 1]
  /\ cast' = [d \in Clients |-> IF d = c THEN 1 ELSE 0]
  /\ calls' = IF VoteLimit = 0 THEN calls
              ELSE [calls EXCEPT ![c] = IF calls[c] > VoteLimit THEN calls[c]
                                        ELSE calls[c] + 1]
  /\ UNCHANGED <<phase, exiting, changing, effects>>

\* MM_CmdVote and the vote menu, which is open for those who could vote when
\* it was opened and closes when they change team.
CastVote(c, choice) ==
  /\ MayCommand(c) /\ CanVote(client, c)
  /\ vote.state = "ACTIVE" /\ client[c].voted = 0
  /\ client' = [client EXCEPT ![c].voted = choice]
  /\ cast' = [cast EXCEPT ![c] = choice]
  /\ UNCHANGED <<vote, phase, exiting, changing, effects, calls>>

\* MM_CmdForceVote, allowed during the scoreboard.
ForceYes ==
  /\ AdminHere /\ vote.state \in {"ACTIVE", "PASSED"}
  /\ vote' = TransitionVoteState(
               vote, IF vote.state = "ACTIVE" THEN "PASSED" ELSE "EXECUTING")
  /\ UNCHANGED <<client, phase, exiting, changing, effects, cast, calls>>

ForceNo ==
  /\ AdminHere /\ vote.state # "IDLE"
  /\ vote' = TransitionVoteState(vote, "FAILED")
  /\ UNCHANGED <<client, phase, exiting, changing, effects, cast, calls>>

\* MM_CmdNextMap.
NextMap ==
  /\ AdminHere /\ phase' = "intermission" /\ exiting' = TRUE
  /\ UNCHANGED <<vote, client, changing, effects, cast, calls>>

\* MM_CmdSetMap, MM_CmdMapRestart.
SetMap ==
  /\ AdminHere /\ changing' = TRUE
  /\ UNCHANGED <<vote, client, phase, exiting, effects, cast, calls>>

-----------------------------------------------------------------------------
(* The specification.                                                       *)

Init ==
  /\ vote = NoVote /\ effects = 0
  /\ phase = "warmup" /\ exiting = FALSE /\ changing = FALSE
  /\ client = [c \in Clients |->
                 [here |-> FALSE, playing |-> FALSE, retained |-> FALSE,
                  voted |-> 0, count |-> 0]]
  /\ cast = [c \in Clients |-> 0] /\ calls = [c \in Clients |-> 0]

Match == Countdown \/ StartMatch \/ EndMatch \/ ResetMatch \/ PressExit

Connection(c) == Join(c) \/ Wait(c) \/ Leave(c) \/ Respawn(c)

Command(c) ==
  \/ \E playing \in BOOLEAN : SetTeam(c, playing)
  \/ \E command \in Commands : CallVote(c, command)
  \/ \E choice \in {-1, 1} : CastVote(c, choice)

Administration == ForceYes \/ ForceNo \/ NextMap \/ SetMap

Next ==
  \/ Frame \/ ChangeLevel \/ Match \/ Administration
  \/ \E c \in Clients : Connection(c)
  \/ \E c \in Humans : Command(c)

Spec == Init /\ [][Next]_vars

\* The engine goes on calling G_RunFrame and executes its command buffer.
Fairness == WF_vars(Frame) /\ WF_vars(ChangeLevel)

FairSpec == Spec /\ Fairness
=============================================================================
