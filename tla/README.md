# MuffMode in TLA+

MuffMode is a multiplayer modification of the Quake II rerelease. The engine
runs the server; the game module under `src/src/sgame` decides who plays, when
a match starts, pauses and ends, and what happens to its result. This project
models those decisions in TLA+, checks them with TLC on small servers, and
proves the most important ones with TLAPS for every server. It does the same
for the one other program of the repository that changes somebody's data, the
updater under `src/updater`.

## The system

The updater is described under *Install and the code*. The game module is
single threaded. The engine calls it for every server frame
(`G_RunFrame`), every client command (`ClientCommand`), every client's input
(`ClientThink`) and every arrival and departure (`ClientConnect`,
`ClientBegin`, `ClientDisconnect`). Each call runs to its end, so a call is an
atomic step. What makes the code hard is not threads but

- **re-entrancy**: nearly every change of the roster ends in `CalculateRanks`,
  and its last line is `CheckDMExitRules`. So a disconnect, a respawn or a bot
  that is pulled into a team can end, reset or leave the match in the middle of
  the function that caused it;
- **deadlines**: a dozen timers on `level.time`, some of which survive the
  phase they were set in, some not, and all of which stop during a timeout;
- **lifetimes**: a level, a match, a round, a connection, a spawn and a client
  slot each own some of the flags, and several handlers have to put the right
  ones back;
- **interleaving** of the above: a countdown runs while players ready, leave,
  change team, and administrators start, reset, end and change maps;
- **files**: the profiles are shared with other servers, may be lost, spoilt or
  newer than this release, and a write may fail at any of its steps.

### Inventory

| Component | State it keeps | Operations | Talks to | What makes it correct |
|---|---|---|---|---|
| Match controller (`mm_match.cpp`) | `level.match_state` and its timer, cancel timer, automatic locks | warmup ticker, `Match_Start`, `Match_Reset` | everything below | no start without the players asked for; nothing left over from the previous phase |
| Frame and exit rules (`runtime.cpp`) | `match_time`, `intermission_queued`, `intermission_time`, `exit_time`, `intermission_exit` | `G_RunFrame`, `CheckDMExitRules`, `QueueIntermission`, `Match_End`, `BeginIntermission`, `ExitLevel` | controller, recorders | a match ends once; an ended match reaches its scoreboard; a scoreboard is seen and then left |
| Timeouts (`mm_match.cpp`) | `timeout_in_place`, `timeout_ent`, `timeout_resuming`, `pers.timeout_used` | timeout, timein, frame | frame loop, disconnect | ends; belongs to a match and to somebody present; once per player and match |
| Teams and locks (`mm_team.cpp`) | `sess.team`, `locked`, `automatic_match_locked` | join, forced join, lock, unlock | ranks, captains, bots | locks belong to their phase; an unlock is not undone; sides stay even |
| Ready-up (`mm_captain.cpp`) | `resp.ready` | ready, readyteam, readyall | controller | a countdown needs the consent of those who are there |
| Recorders (`mm_match_stats.cpp`, `mm_player_stats.cpp`) | collecting, finalized, result time; `s_match_open` | start, freeze, export, abort | controller, exit rules, level change | each match is settled exactly once, in both |
| Administration (`mm_admin.cpp`) | none | startmatch, endmatch, resetmatch, nextmap, setmap | controller | no command leaves the controller incoherent |
| Connections (`lifecycle.cpp`) | `pers`, `sess`, `resp` | connect, begin, spawn, respawn, disconnect | ranks | what belongs to a match survives a spawn |
| Callvote (`mm_vote.cpp`) | `level.vote_state`, `pers.voted`, `vote_count` | call, vote, tick, force, revert | controller, session, teams | executed once, with a majority of who is there; ends |
| Balance and shuffle (`mm_team.cpp`) | join times | `TeamBalance`, `TeamShuffle` | exit rules, re-entered by them | moves as many as needed, the last to join |
| Captains (`mm_captain.cpp`) | `level.captain` | appoint, vacate, lock | teams | a captain is on its team |
| Duel queue (`mm_duel.cpp`) | `duel_queued`, `duel_queue_order`, `next_duel_queue_order`, `final_duel_result` | join, promote, settle, loser to the back | teams, warmup ticker, exit rules, level change | first come, first served; a duel is settled once; two play |
| Rounds (`mm_match.cpp`, `mm_strike.cpp`, `mm_lms.cpp`) | `round_state`, `round_number`, `eliminated` | round ticker, elimination | exit rules | every round ends; Capture Strike's turns pair up |
| Freeze Tag (`mm_freezetag.cpp`) | frozen bodies | freeze, thaw | rounds, respawn | nobody plays frozen; a frozen team loses |
| Reservations (`mm_ghost.cpp`) | snapshots of dropped players, ghost records, handoffs to `ClientBegin` | capture, claim, restore, abort, expire | timeouts, connections, rounds, recorders | one identity, one place; no item doubled or lost; every reservation is resolved |
| Intermission stages (`mm_awards.cpp`, `mm_map_pick.cpp`) | module-side stages | claim exit, run, reset | exit rules, votes | exactly one of them owns the exit |
| Map pool and queue (`mm_map_pool.cpp`, `mm_maps.cpp`) | pool, rotation, MyMap queue | reload, add, pop | exit, votes | a queued map is played once |
| Gametype session (`mm_gt_session.cpp`, factories, rulesets) | requested, committed, live | submit, drain, reconcile | votes, frame | one transaction at a time, all or nothing |
| Profiles (`mm_client_profile.cpp`, `mm_player_stats.cpp`) | a document per identity; changed preferences and results of matches not yet written; the ledger of who is settled | load, change, settle, retry, drain at shutdown | connections, frame, level change, other servers | no result doubled or dropped; no choice lost; nothing of another server overwritten; what waits is written |
| Multi-arena, Horde | a controller per room; waves | — | ranks | not modelled |
| Updater (`InstallationManager.cs`) | the files of an installation, backup directories, the version marker | back up, copy, verify, roll back, write the receipt | the self-update that takes over | no edited config is ever lost; configs that belong together are replaced together |

The remaining components (combat, items, weapons, monsters, physics, bots'
thinking, HUD, menus, chat, map data) are listed in `PROJECT.json`
with the reason they are left out.

## Modules

| Module | Models |
|---|---|
| `MatchFlow` | the match controller: match state machine, exit rules, timeouts, locks, readiness, recorders, the client and administrator commands that change them |
| `MatchFlowProps` | what must hold of it |
| `MatchResult` | the abstract promise: the life cycle of a match's result |
| `MatchFlowProofs` | the theorems about its states |
| `MatchStepProofs` | the theorems about its steps, and that it implements `MatchResult` |
| `MCMatchFlow` | its instances for TLC |
| `Vote` | the callvote: its state machine, the clients' answers and quotas, what executing a command does to match and level |
| `VoteProps` | what must hold of it |
| `Ballot` | the abstract promise: what any vote owes those who take part |
| `VoteProofs` | the theorems |
| `MCVote` | its instances for TLC |
| `Ghost` | reconnect reservations and the life cycle of the clients around them |
| `GhostProps` | what must hold of them |
| `GhostFair` | the same with the server's clock, and what must eventually happen |
| `GhostEnds` | the invariant, and the lemmas about what ends, makes or moves a reservation |
| `GhostProofs` | that every step keeps it, and the theorems |
| `MCGhost`, `MCGhostFair` | their instances for TLC |
| `DuelQueue` | who plays a duel, who waits, and what becomes of the loser |
| `DuelQueueProps` | what must hold of it |
| `Line` | the abstract promise: a waiting line |
| `DuelQueueProofs` | the theorems |
| `MCDuelQueue` | its instances for TLC |
| `Profile` | the profiles, their two caches and what is written to the files |
| `ProfileProps` | what must hold of them |
| `ProfileProofs` | the theorems |
| `MCProfile` | their instance for TLC |
| `Install` | what the updater writes to an installation |
| `InstallProps` | what must hold of it, and its inductive invariant |
| `HostBundle` | the abstract promise: configs that belong together |
| `InstallProofs` | the theorems |
| `MCInstall` | its instance for TLC |

The components are checked apart, each with what it can see of the others.
`MatchFlow` and `Vote` meet in `level.match_state` and
in the end of a level, of which `Vote` keeps only what a vote can tell apart
(`phase`, `exiting`, `changing`); `MatchFlow` has the commands a passed vote
executes as administrator commands. `Ghost` and `DuelQueue` keep a coarse match
state of their own (`stage`, `phase`), with the transitions `MatchFlow` explains
in detail, at any time at which `MatchFlow` or an administrator may take them.
`Profile` keeps of a match what `MatchFlow` calls `open`, with a serial number, and
starts, ends and voids it at any time.

### MatchFlow and the code

A *world* `w = [lv, cl]` is `level` (the fields of `level_locals_t` the
controller owns) and the clients. Because functions call each other in the
middle of a step, each C++ function is an operator from a world to a world and
bears its name (`MatchStart` is `Match_Start`, `CheckDMExitRules` is itself);
an action composes them in the order of the code. `Spawn` and `Leave`, which
stand for the changes of the roster, end in `CheckDMExitRules` because
`CalculateRanks` does.

- *Time.* A deadline is the number of frames left (0: due, `Unset`: the code's
  `0_sec`), an age the number of frames passed, saturating where the code stops
  caring. `Elapse` is `level.time += FRAME_TIME_MS`. There is no bound on how
  long a server runs.
- *A frame* is one of `PausedFrame` (a timeout), `ExitFrame` (an exit is
  pending) and `GameFrame` (locks, ticker, exit rules). `FrameRuns` is the test
  by which `G_RunFrame` skips the frames of an empty server.
- *Scores* are reduced to what the exit rules see: `tied`, `led`, `decided`.
- *Recorders*: `open` is `s_match_open` of the ratings; `stats` is `idle`,
  `live`, `frozen` (result time fixed, waiting for the scoreboard) or `final`.
- *Levels*: `changing` holds while a `gamemap` command is in the engine's
  buffer; `ChangeLevel` is `SpawnEntities` rebuilding the level.
- *History*: `calledIn` remembers who called a timeout in this match, for one
  property; nothing reads it.

Decisions a reader may want to question:

- Inside `Match_Reset` players are respawned, and so the exit rules run in
  between. They can only queue or begin what `Match_Reset` overwrites, so
  `MatchReset` is their result.
- The bots pulled in by one frame are placed together. `Placements` is what
  placing them one after another can produce, and the exit rules, which run
  after each, are applied once, after all. A locked team refuses its bot
  (`Joining`), and a frame that brings nobody in runs no exit rules.
- `MayLock` lets any member of a team be its captain. The captaincy is a
  component of its own; this allows more than the code does.
- `g_match_lock` and `g_warmup_countdown` are polled by modification count; a
  new level has not seen the current count, so `lockStale` and `countStale`
  start TRUE.
- `ReachExit` may happen at any time, the code asks for ten seconds.
- A bot that joins asks for the team of `PickTeam` at once, a human starts as a
  spectator, as with `g_dm_force_join` off.

Not in this module: the five second delay between team switches, `maxplayers`,
`noplayerstime`, `g_teamplay_auto_balance`, votes (`Vote`), the awards reel
and the map pick (they delay the exit), reservations, the branches of the
gametypes with rounds, duel and arena, the fade, and overtime in duels.

### Vote and the code

- `vote` is `level.vote_state`: state, command, caller, the age since
  `start_time` (while ACTIVE) and the frames left until `execute_time` (while
  PASSED). Nothing reads these times in other states. The argument of a command
  is part of the choice of its outcome; the three counters are recomputed before
  every use and are the sets `Eligible` and `Voting`.
- `client[c]` has `here` (connected, as `active_clients` tests), `playing`
  (`ClientIsPlaying` or queued for a duel), `retained` (a player of the level
  before who has not spawned in this one) and the two fields of `pers` that
  belong to votes. `Spawn` is the memset of `InitClientPersistant`. `Wait` is the
  `ClientSpawn` of a retained player that finds no spawn point and returns before
  it (`lifecycle.cpp:892-924`); a later frame spawns him, which is `Respawn`.
- `Commands` groups the vote commands by what executing them does to what a
  vote can see: `setting` (every command that writes cvars, throws coins or
  balances teams), `readyall`, `restart`, `shuffle`, `nextmap`, and `map` (also
  the gametype, factory and ruleset votes that reload the level). `Outcomes`
  has every outcome of the handler at execution, which validates again. A vote
  whose command does nothing by then completes; one whose command reports
  failure ends as FAILED. A passed balance vote may respawn those it moves;
  `Respawn` and `SetTeam` allow that at any time.
- `CastVote` is both the console command and the vote menu, which apply the same
  tests; `CallVote` both the console command and the call-vote menu. Rejected
  calls may leave a staged `command` behind in IDLE, where nothing reads it.
- `SetTeam` reverts the answer before the spawn resets it; the two differ only
  when a player finds no free spawn point, which is the disjunct without `Spawn`.
- Only `ClearVote` in the level's initialisation ends a vote without an outcome.
- *History*: `effects` counts how often the command of this vote took effect,
  `cast` what the person in a slot last answered to it, `calls` how many votes
  were called since the last start or reset of the match. No guard reads them.

Not in this module: votes local to arena rooms (`MM_Arena_CastVote`), the
`level.restarted` test (the flag is never set), the vote menus as menus, and
clients still loading, who are simply not `here`.

### Ghost and the code

A player who drops, or is moved out for inactivity, leaves a snapshot of his
match state. The slot is kept for his social identity. He may claim it by
connecting (`ClientConnect`), confirms it with `ClientBegin`, waits out the
reinstatement delay and gets the state back, if a spawn point is free. At any
point the connection may drop again, the round, the match or the map may change,
or the time may run out.

The server is one record `w`, because the handlers call each other; each C++
function is an operator from a server to a server.

- `client[s]` is a slot: its connection (`conn`, `begun`, `spawned`, `limbo`,
  `inuse`), its generation `gen` (`spawn_count`), whether he plays and what he
  carries, and `ghost`, the index of his record. `rec[i]` is `level.ghosts[i]`
  with the slot it points to and whether it has a code; `snap[i]` is
  `auto_ghosts[i]`; `fall[s]` a deferred `ClientBegin`; `abort` the clients to be
  restarted before the next frame; `cursor` the round robin of the one restore
  per frame.
- `timeout` is the match timeout with its owner, and whether it is an automatic
  one. `part` is what the player statistics know of each identity (in, out,
  settled); `item` is 1 while the flag (or the Tech) is on the map.
- The five phases of a snapshot are those of `AutoGhostPhase`; its time runs only
  in the phases in which `MM_Ghost_RunFrame` counts it down.
- `Crowds` are the sets of slots that find every spawn point blocked; a frame
  chooses one.
- *Kind.* A carried item is a flag, which a dropped player loses at once unless
  the automatic timeout keeps it for him, or a Tech, which he keeps in the
  snapshot.
- `MatchSteps` start, end, reset the match, begin a round (with or without
  rebuilding the world), reach the intermission, and load a map.

Not in this module: the reassignment of teams by Red Rover, reserved duel
results, Freeze Tag's payload, ghost codes typed by hand, the skin's
synchronisation, reconciliation of profiles, markers of rejected connections,
bots (they get no reservation) and timeouts called by hand (`MatchFlow` has
them).

### DuelQueue and the code

- `conn[c]` is what the engine and `active_clients` know of a slot: `gone`,
  `loading` (retained over a map change, or connected and not yet begun) or `in`.
  `playing` and `queued` are `sess.team = TEAM_FREE` and `sess.duel_queued`;
  `order` and `nextOrder` are the numbers, with `MaxOrder` for `UINT64_MAX`.
- `phase` is the match state and the intermission clocks: `open` (all of warmup
  up to ready-up), `countdown`, `live`, `queued` (intermission queued), `over`
  (the scoreboard), `left` (`ExitLevel` has issued its `gamemap`; nothing else
  runs before it).
- `verdict`, `loser`, `loserIs` are `final_duel_result`. The identity of the loser
  is the slot and its generation; `loserIs` says whether the slot still has that
  generation. `SpawnEntities` clears the entities and restarts their generations,
  so that after a map load the answer may be either (`unknown`).
- The frame is taken apart where somebody else could notice: bots queue one after
  another, the head of the line is promoted, the ticker ticks (`inFrame` keeps
  commands out until then), and the exit rules are a step of their own, because
  they also run out of every `CalculateRanks`.
- Scores are not modelled: whoever can lose may, and a draw is always possible.
- *History*: `lost` are those who were skipped when numbers were given out anew,
  `credited` counts the wins given since the last start, reset or map.

Not in this module: reservations (`Ghost`), accounts (with one, the loser is found
by it in whatever slot he is), locks and player limits, `setteam` by an
administrator, the score view.

### Profile and the code

A profile is read when a client connects and again when he begins, changed by his
preferences and by the results of his matches. Neither is written at once: both
wait in the memory of the server, and a frame makes at most one attempt for each
kind.

- `doc[p]` is the file of an identity. `sess[p]` is the part of
  `client_session_t` that comes from it; a level change keeps it and reads the
  file again.
- `dirty`, `cached`, `prefWait` and `order` are the four parts of
  `pending_preference_state_t` that decide anything: which fields were changed, the
  complete configuration at the last change, the frames until a write may be tried,
  and the generation, of which only the order counts.
- `results[p]` is `s_pending_profile_settlements` of one player, oldest first,
  `robin` the round robin over the players, `resultWait` the back-off. `ledger` is
  `s_settled_players`.
- *A write* is one step, from reading the document to replacing it, because the
  code holds the lock of the file for as long. It ends as `done`; as `refused`, before
  anything is touched (no lock, unreadable, a newer schema); or as `unwritten`, after
  a bad document was put away.
- *A rating* is the number of rated results it includes, so that "an older rating"
  is "a smaller one". What Elo computes is not modelled.
- *A frame* is `StatsFrame` and then `ProfileFrame`, with `phase` between them.
  `G_RunFrame` skips the frames of a server nobody has begun on (`Occupied`); nothing
  depends on it but what can be promised of progress (`FairSpec`). A
  shutdown drains the two caches in the same order, and `Crash` may come anywhere.
- *Others*: another server may change one preference (`ForeignSave`); the file may
  be lost, spoilt, or written by a newer release (`Replaced`).
- *History*: `chosen` are the preferences that were accepted and that nobody else has
  overwritten since. `serial` goes on after a restart, where the code begins again at
  0, so that the results a document has counted can be told apart.

Not in this module: the import of older files, several gametypes, duels' forfeits,
reservations (which reconcile two sessions, see `Ghost`), the doubling of the
back-off, the longest delay of the debounce, and one player's results from two
servers at a time, of which either computes its rating from its own session.

### Install and the code

The part of `SyncReleaseToInstallAsync` that writes. Each step of the updater is
an action, in the order of the code: stage the self-update, capture the operator's
configs, back them up, back up the game module, copy the plan file by file (any
copy may fail), verify, on a failure roll the configs back one by one (any of
which may fail), write the version marker, verify it, hand over to the new
updater. `Crash` kills the updater anywhere; `Publish` makes a new release;
`Edit` and `Remove` are the operator's, never while an update runs.

A file holds `none`, `old` (anything that is not byte for byte what the package has,
thus also the receipt of an earlier release) or `new`; the marker may also hold the
`receipt` the updater writes last. Replacing one file is atomic, as the code's write,
flush, verify and rename is. A rollback that throws has written its config back or not
(`RollbackFails`), because the attributes are set after the rename. *History*: `owned`
are the configs of which the operator has a version, `kept` those whose version is in
some backup directory.

Abstracted: the checks before the first write either end the update or let it
begin; backups of the game module, the clean-up of obsolete map files and the
marker's text form change none of what the properties read. Not modelled: the
download and validation of the package, and what `Program.cs` does when the new
updater takes over.

## Runs

All passing runs together fire every action and every disjunct.

| Run | Instance | Asks |
|---|---|---|
| `match_roster` | teams, 2 humans, 1 bot, `minplayers` 2, ready-up, cvars changed live | Does a match ever begin without the roster it asks for, or on readiness that is not current? Does a countdown ever begin without the consent of those who play? Do automatic locks appear with their phase, go with it, and leave an unlocked team alone? |
| `match_results` | FFA, 2 humans (1 admin), 1 bot, timeouts, time limit, tie clock, map exit | Is every match settled once, in both recorders, however it ends? Does a timeout belong to a match and to somebody present? Does the controller implement `MatchResult`? |
| `match_progress` | FFA, 1 human, 1 bot, every deadline | With fairness: do timeouts, countdowns, queued intermissions and bots' scoreboards end, unless the server is left deserted? |
| `vote_ballots` | 3 humans, 1 bot, one command (`restart`), level changes | Is anything counted that was not answered to this vote by who is there? Does anything pass without a majority? |
| `vote_effects` | 2 humans (1 admin), all commands but `restart`, spectators vote | Does a vote take effect once if accepted and never if failed, whatever is forced, reset or left meanwhile? Does the code implement `Ballot`? With fairness: does every vote end? |
| `ghost_rejoin` | 2 slots, 2 identities, a flag, two reservations, one automatic timeout, world rebuilt or not | Is nobody in two places, no flag doubled or lost, nobody left unsettled, nobody spawned before `ClientBegin`, no kept slot given away, and is the timeout ended only by its owner? |
| `ghost_progress` | 1 slot, 1 identity, a Tech, spawn points blocked at will, placement retries, any number of drops | With fairness: is every reservation resolved unless its owner drops out of reinstatements for ever, and has an automatic timeout an owner for as long as it lasts? |
| `duel_line` | 2 humans, 1 bot, numbers up to 4 | Is the queue a fair `Line`? Is a duel credited once? With fairness: is a free slot filled? |
| `install_bundle` | five files: a config, the game module, the marker, another config, a text | Is no edited config ever lost? Is the receipt true? Do configs that belong together change together (`HostBundle`)? |
| `profile_caches` | 2 players, 2 preferences, room for one player's preferences and two results | Is every result counted at most once, and kept until it is? Is an accepted choice kept, whatever fails, and nothing of another server's overwritten? With fairness: is all written that can be, while the server is occupied? |
| `one_timeout` | violated | see Findings |
| `stale_rating` | violated | see Findings |

**Bounds.** Two clients of a kind are needed for anything to be a matter of
*who* (the caller of a timeout against another, one ready against two, a side
of two); a third of the other kind for what bots do. Frame counts are 1 or 2:
0 is "due", 1 is "running", and 2 is needed where one more frame makes a
difference (a countdown that can be cut in the middle, a floor that can be
missed by one). `NumbersAssumption` lists the parameters that must be positive
because the code's constants are. Clients are symmetric where no administrator
and no liveness property tells them apart. The only saturating counters are
`inter` (at `FloorFrames + 1`) and `clock` (at `TimeLimit`, at least 2), beyond
which no comparison in the code changes. `ForceBalance` is off in
`match_roster` (uneven sides need four clients), so that the half of
`StartNeedsRoster` about even sides is left to its proof.

For votes, three humans are the smallest electorate in which half, a majority
and half rounded up are three different numbers as clients come and go (1 of 1,
1 and 2 of 2, 2 of 3); one second of grace and thirty until the timeout become
one frame and two, which keeps their order. `calls` saturates one above
`VoteLimit`. `vote_ballots` has no administrator, so that its humans are
symmetric; `vote_effects` has no quota, because none of its properties is about
one. Between them the two runs execute every command.

For reservations, two slots and two identities are needed for a slot to be taken by the
wrong one and for a timeout to have the wrong owner; a third adds only another
bystander. Durations are 1 or 2 frames, in the order of the code's (the reinstatement
delay is not longer than the reservation, the automatic timeout not longer either:
`GhostAssumption`). In `ghost_rejoin` `MaxGen` bounds connections per slot; in both,
`MaxRound` and `MaxMatch` bound rounds and matches: three generations are a player, his
return and his second return. Liveness is checked with one slot, because the graph TLC
has to search for cycles is many times larger with two, and because reservations wait
for nobody but the frame: the round robin lets another restore go first by one frame
only. Nothing bounds how often a player drops and returns there: `Renumber` of
`GhostFair` lets the generations of a slot begin again at 1, since the code only ever
asks whether a generation is the present one. Without the exception that
`ReservationEnds` makes, TLC refutes it: a drop out of a reinstatement sets its clock
and its retries back (`CancelPendingRestore`), and the reservation's own time stands
still while it lasts, so an owner who drops out of every reinstatement keeps his
reservation for as long as he likes. The property names that step (`DropsAgain`) and
excuses nothing else. The rounds and matches of that run do run out; what frames do
after the last of them is checked from every state that can be reached before it.

For duels, three slots are one more than may play. One holds a bot, so that the
forced path queues as well as people. With numbers up to 4 they run out after the
fourth join, in every constellation of who is waiting, loading or gone.

For profiles, two players are the fewest that share the queue of results, its round
robin and the one place in the cache of preferences; the queue holds two results, so
that both limits are met. `MaxEvents` is 3: any three of matches begun, choices made,
attempts that fail, crashes and shutdowns, and doings of others, in any order, with
any number of connects, level changes and successful writes in between. Three are a
choice, a lost document and a failed write of it; or a match, a failed write of its
result, and a second match. The retry waits longer than the debounce, as in the code.

For the updater, the plan has a config on both sides of the game module and of the
marker, so that a failure can fall between any two kinds of file.

**Fairness.** `FairSpec` assumes that the engine goes on calling `G_RunFrame`, executes
its command buffer, and that a client that is loading a level gets there. No frame is
assumed on a deserted server: `G_RunFrame` (`runtime.cpp:3155-3163`) returns early while
nobody has spawned, there is no timeout and no reservation waits. `WF(Frame)` is weak,
and `Frame` is not enabled while frames are skipped; the properties that need frames say
so (`Deserted` in `MatchFlowProps`, which excuses a countdown or a queued intermission
only on a server that is left empty again and again). Nothing is assumed of players or
administrators. For votes, `FairSpec` assumes the same of `Frame` and `ChangeLevel`;
that players might leave between any two frames is why `VoteEnds` is stated for as long
as somebody has spawned. `GhostFair` gives frames a parity `odd` and asks for weak
fairness of its change: a frame that changes nothing is still a frame, and a frame that
happens is never "not yet the one that was due". Its frames have the code's guard
(`FrameRuns`); a reservation is itself a reason to run them (`HasActiveReservations`),
which is why `ReservationEnds` holds on a server that has emptied. It also asks for
`BeginIntermission`, which `MatchFlow` shows to follow from frames. For duels,
`WF_vars(Frame)`; `VacancyFills` speaks of a line whose head is in the game, so frames
run. For profiles, weak fairness of `Occupied /\ Frame`, and of `Unfinished`: a frame or
a shutdown that has begun goes on to its end. `Drained` says that all that can be
written is written again and again, or the server is left empty again and again and runs
no more frames: then what waits stays in memory until somebody joins or the server shuts
down. The disk is assumed to fail only `MaxEvents` times, which is what "once the disk
permits" means; a document of a newer schema is refused for ever, and `AllWritten`
excepts it and nobody else.

## Findings

Each of the first two is a run that TLC refutes.

1. `one_timeout`: "You have already used your timeout." does not survive a
   respawn. `ClientSpawn` rebuilds `client->pers` in deathmatch, `timeout_used`
   with it. `mm_ghost.cpp:1072` takes the trouble to keep these quotas monotonic
   across reconnects.
2. `stale_rating`: the comment at `mm_player_stats.cpp:1171` promises that a stale
   profile read cannot roll back a rating awaiting retry. The ledger that is kept for
   it has one entry per identity, which a later match overwrites even when it is void
   or does not count. From then on the profile that is read wins, and the next match is
   rated from a rating without the result that still waits.

The following were met on the way, stated as properties where a name is given,
and confirmed with TLC by adding the property to the configuration of the run in
brackets; they have no run of their own.

- `SwitchJoinsSmallerSide` (`match_roster` with `ForceBalance`): forced balance
  admits a switch to the side that is one ahead; the comment on that path says the
  opposite, and the exit rules answer the spread of two with a reset of the match.
- `EmptyIntermissionExits` (`match_progress`): the comment in the ticker promises
  that a queued intermission completes without players. It does with spectators;
  with nobody connected `G_RunFrame` returns before it gets there.
- `LimitPerMatch` (`vote_ballots` with `VoteLimit = 1`): `g_vote_limit` is
  documented as a limit per client and match. It is one per spawn, for the same
  reason as the first finding.
- `KeptWhileQueued` (`ghost_rejoin`): `mm_ghost.h:115` keeps reservations
  "authoritative" from the last frag to `Match_End`. Their owner's reconnect in
  those moments removes his (`ExpireStaleSnapshotsForSocialId`,
  `mm_ghost.cpp:2040`), because `SnapshotMatchesCurrentMatch` is false by then.
- `StagedHasNotBegun` (`ghost_rejoin`): the comment at `mm_ghost.cpp:1661` says
  that the engine has not called `ClientBegin` for a client who is staged for it. It
  has, when he began while an intermission was queued: his reservation is not current
  then, so he begins as anybody does and the claim stays. A reset of the match, or a
  second connection attempt of his account, aborts the claim and retires him.
- `FailureKeepsVersion` (`install_bundle`): the version marker is one of the files that
  are copied, and sorts before some of the configs. An update that fails after it and
  puts the old bundle back leaves the new version's marker behind, and the next start
  reads it as the installed version.
- `TwoSlots` (`duel_line`): "Duel always keeps exactly two active slots." A duelist who
  is retained over a map change and slow to load is not counted by
  `MM_Duel_OccupiedSlots`; two others take the slots, and when he begins nobody counts
  (`InitPlayerTeam` lets an initialised client keep his team).
- `CountedAnswersAreCurrent` without its exception (`vote_ballots`): a player who
  comes along to a new level and finds no spawn point keeps the answer he gave to a
  vote of the old one, because `ClientSpawn` returns before it rebuilds
  `client->pers`. If a vote was called before he began, the answer is counted in it,
  until he is spawned by force after three seconds or answers.
- Profiles, by reading: `docs/configuration-reference.md:121` says that a document that
  must be recreated gets the complete pending preferences. When it is a result that
  recreates it (`mm_client_profile.cpp:2508`), it gets the preferences of the moment the
  match was settled, and of the pending ones only the changed fields.
- Votes, by reading: the scoreboard waits for an open vote, but an exit by a key press
  does not (`lifecycle.cpp:2517`).
- Duel, by reading `DuelQueue`'s behaviours: a spectator who never queued and types
  `join` between a duelist's departure and the next frame is admitted at once, ahead
  of everybody who waits (`SetTeam` asks only whether a slot is free); `nextmap` by
  an administrator during warmup settles a duel that was never fought; and a
  verdict kept over a map change may match whoever has that slot in the same
  generation number, since these restart with the map.

## Proofs

`MatchFlowProofs` proves, for every set of clients and every value of the
constants allowed by the three assumptions of `MatchFlow`
(`ClientsAssumption`, `SwitchesAssumption`, `NumbersAssumption`):

- `Invariance`: `Spec => []IndInv`, and from it
- `TypeCorrectness`, `LocksHavePhase`, `ReadinessIsCurrent`,
  `TimeoutOwnership`, `RecordersStayTogether`, `QueuedIsOver`.

The inductive invariant is `Coherent` of the current world. None of the five
invariants is inductive alone. Two things have to be added. First, they need
each other: that a reset closes the recorders is only enough if a queued
intermission implies an ended match. Second, a fact none of them states: an
exit is only pending under a scoreboard (`exit => inter # Unset`), else
`ExitFrame` could leave a level whose match is still being recorded.

`Coherent` is stated of a *world* and not of the variables so that the proof can
follow a frame through the functions it calls: one lemma per function says that
a coherent world stays coherent, and, since the frame only runs unpaused and a
start or a reset ends a timeout, what becomes of the timeout (`Unpaused`,
`SameTimeout`). An action's lemma composes these. A function rewrites a few of
the twenty-two fields of a record; its lemma therefore shows that the new level
has its type, lists the fields, hides the record and concludes.

`VoteProofs` proves, from the three assumptions of `Vote`, for every electorate and
every duration: `TypeCorrect`, `CallerIsConnected`, `OnlyCurrentAnswersCount`,
`FailuresHaveNoEffect`, the action properties `MajorityPasses` and `HalfRejects`, and
`ImplementsBallot`, the refinement. The invariant strengthens two properties.
`CountedAnswersAreCurrent` speaks of those who can vote now; a client who cannot may
become a player in the next step, so the invariant speaks of all who are there, with the
property's exception for those who are still `retained`. `FailedHadNoEffect` speaks of
two states; that the others have no effect yet either is what makes a failure out of
ACTIVE, PASSED or EXECUTING harmless. `CheckVoteFacts` and `FrameFacts` list what one
frame can do to a vote; preservation, both halves of the count and the refinement read
it off. `CountDecides` is the arithmetic of the two roundings, `CountedWereGiven`
compares cardinalities by inclusion. What is proved of the types of `MatchFlow`, `Vote`
and `Ghost`, and `HalfRejects` (before its time is up, a frame turns a vote down only if
half of those who can vote have said no), is not repeated by a run.

`DuelQueueProofs` proves, for any slots, any bots among them and any `MaxOrder`
larger than the number of slots (`SlotsAssumption`, `NobodyAssumption`,
`OrderAssumption`): `TypeCorrect`, `VerdictOnce` and `ImplementsLine`, the
refinement of `Line`. The refinement mapping gives each waiting slot the set of
those ahead of it, read off the numbers. The invariant needs two facts the
properties do not state. Whoever has kept his place has a number between 1 and
`nextOrder`, and who is not queued has 0: else a new number might not be the
largest. And a credited win implies a verdict, except while the map is being left:
else a forgotten verdict could be given twice. Renumbering is the hard case:
`PlaceSmaller` shows that a slot's rank in the sorted line is strictly smaller than
that of everybody behind it, by comparing the two sets it counts; the joiner is
already marked as queued and sorts first with his 0, and this moves all the others
by one and changes none of their order.

`InstallProofs` proves, for any package, plan and set of configs
(`PlanAssumption`, `RolesAssumption`): `TypeCorrect`, `ConfigsAreKept`,
`ReceiptIsTrue` and `ImplementsHostBundle`. The invariant (`Inv` in
`InstallProps`) adds `Progress`, what the updater has achieved at each of its steps
and up to each index of its loops, and `BackupsCount`, that the copies of this
update keep the operator's current versions, which is true because nobody edits
under a running updater. That a config is overwritten only if a copy exists
(`HasBackups`) spans three loops: the backups are decided in one, the copies made in
the next, the rollback in the third. `StageLaw` restates the refinement mapping of
`HostBundle` as what each step may do to it.

`MatchStepProofs` proves what a step of the same controller may do: `UnlocksSurvive`,
`NoStartUnderScoreboard`, `StartsNeedRoster`, `CountdownsNeedConsent` and
`ImplementsMatchResult`, the refinement of `MatchResult`. A frame composes a dozen
functions, so none of these is followed through it alone. Instead each function is shown
to do one of three things to the level: to wind a match down (`Calm`: the result only
settles, no lock appears, no match begins), to begin a countdown (`Counts`), or to begin
a match (`Starts`). `Calm` composes, so an action is calm if its functions are. The
ticker is the hard case: it may pull bots in first, whose exit rules may reset the
match, and only then begin a countdown or a match. `Onward` says that what comes first
leaves the warmup where it was, or nothing else follows. The five theorems are read off
these relations. `StartsNeedRoster` has two hypotheses: that the server has a warmup
(`DoWarmup`) and that nobody is an administrator (`Admins = {}`). A server without
warmup starts as soon as there are enough players, even or not; an administrator's
`startmatch` asks for nobody. `match_roster` checks the property under the same two.
`CountdownsNeedConsent` is about readiness: where the server asks for it (a third
hypothesis, `DoReadyup`), no countdown begins but with the readiness of those who play
at that moment (`Agreed`).

The attempt to prove `UnlocksSurvive` failed at first, and rightly: `Placements` counted
a bot that a locked team refuses as placed, by which a frame could find the sides
uneven, reset the match and begin it again. The code cannot (the refusal leaves the
bot a spectator); `Joining` and `Placed` now say so.

`ProfileProofs` proves, for any players and values and any limits (`PlayerAssumption`,
`ValueAssumption`, `LimitAssumption`): `TypeCorrect`, `PlacesAreKept`,
`ResultsCountOnce`, `ChoicesSurvive`, `LastSettlementStays`, and the action properties
`ResultsAreKept` and `OthersAreKept`. The first lemmas are about lines in which
everybody has one place: taking somebody out, appending him, putting him last again.
Around them, `EveryoneInLine` makes the types inductive, also in the middle of a drain.
Two properties are not inductive. `CountedOnce` speaks of the serials in a document
and in the queue; that the next one is larger than both follows only from `Once`, by
which a match that is running for a player has not yet given him a result. And
`ChoiceKept` accepts a choice that is in the document; that a later write does not put
an older one back follows from `ChoiceWaits`: what waits to be saved is what was
chosen.

`GhostProofs` proves, for any slots and identities, any durations, limits and crowds
(`GhostAssumption`, `CrowdsAssumption`), with a flag or a Tech: `Inductive`,
`TypeCorrect`, `OnePlace`, `SpawnsAfterBegin`, `TimeoutHasOwner` and `Participants`
(`ParticipantKept`), and of every step `SlotKept` (`SlotNotStolen`) and
`TimeoutForOwner` (`OwnerResumes`). The lemmas are in `GhostEnds` and
`GhostProofs`. A handler is a composition of operators from a server to a server,
several of which walk the slots, so the invariant is stated of any server g. Its parts
need each other:

- `SnapOK`: a reservation has a slot; who is connected there is its identity, and a
  reservation in one of the bound phases is bound to the connection that is there now.
  Without it a disconnect could leave a claim whose slot goes to somebody else.
- `ClientOK`: nobody is in the level before `ClientBegin`; a placeholder's slot has a
  generation left; whoever is to be restarted waits in limbo.
- `FallOK`: a handoff belongs to the connection in its slot, and the reservation it came
  from is gone.
- `Apart`: no two connections, no connection and a reservation elsewhere, no two
  reservations of one identity. `OneIdentity` is read off this.
- `Owned`: the owner of a timeout waits. It is broken for a moment inside several
  handlers, which end the reservation and the timeout in two calls; hence `Settling`,
  the invariant without it.
- `Live`: during a match a reservation is of the match and has the record of its slot,
  and has the epochs of the round and of the world unless it is handed off. `Absent`: the
  owner of a timeout has not returned, unless to claim his state. It is what keeps a
  timeout from being inherited by a client who joins in the same slot.
- `Accounted`: during a match whoever takes part plays on a connection or has a
  reservation that is not settled (`Present`). `Rest`: whoever is connected and has a
  reservation does not play, so that a claim that fails settles the departure once and
  never takes the result of somebody who is back. `ParticipantKept` follows from
  `Accounted` and `Live`, and does not need the case of a client who is protected.

Most operators only end reservations. `Ends` says what that may do: connections stay
what they are, no reservation appears or changes hands (`Thins`), and a timeout with an
owner goes on or ends with his reservation (`Keeps`). It is a preorder and keeps
`Owned`, `Live`, `Absent`, `Accounted` and `Rest`, so that one lemma per operator
suffices and a composition costs nothing. `Accounts` is its part about participants:
none is lost as long as the reservations are of the match. What is no such end, a
capture, a claim, a restore or a spawn, is shown to keep `Rest` and to lose nobody
(`Carries`), and what begins or ends a match to keep both (`Remains`). A walk over the
slots is `Each`, a recursive function; `EachExists` shows once that it exists, and an
induction on the slots (`Climb`) carries a relation from one end of a walk to the other.
The operators that make a reservation or a connection, capture, claim, handoff and
restore, are compared field by field in the one slot they touch (`Local`, `ThinsLocal`).

The two action properties need no other invariant, but a second fact of every handler.
For `SlotNotStolen` it is that nobody connects (`NobodyNew`), except in `ClientConnect`;
there the expiries of stale reservations spare those of other identities
(`SparesOthers`), so a slot that was kept for somebody else is still kept when the slot
is chosen. For `OwnerResumes` it is `Resumes`, which `Ends` implies and which goes
through a composition as long as the steps after the last expiry leave the timeout and
its owner alone (`EndsThenResumes`). Two handlers need more. A capture ends nobody
else's timeout because the player who drops owns none (`Absent`). In a frame the
timeout's clock runs down between the reservations and the restore; `Beside` says that
it then still has time left and its owner. The steps of the match either change the
stage or require that no timeout runs (`Switches`).

Only model-checked:

- of `Ghost`, `ItemOnce`, which adds up the item over the world, the clients and the
  reservations: every operator moves it between two of them, so that each would need the
  whole sum in its lemma;
- of `Profile`, the limit of the queue of results, which is a sum over the players;
- liveness (`TimeoutEnds`, `CountdownResolves`, `EndReachesIntermission`,
  `BotScoreboardEnds`, `Drained`, `VoteEnds`, `VacancyFills`, `ReservationEnds` and the
  rest), which is out of the prover's reach.

## Not modelled, and what is next

Done are the core (`MatchFlow`), the vote (`Vote`), reservations (`Ghost`), the duel
queue (`DuelQueue`), the profiles (`Profile`) and the updater (`Install`). In the order
of what they would add:

1. `TeamBalance`: moving players is re-entered by the exit rules of its own moves;
   it needs an explicit call stack.
2. `Rounds` with Capture Strike's turns, last man standing and Freeze Tag, under
   the match state machine.
3. `Intermission`: scoreboard, awards reel and map pick sharing one exit.
4. `GametypeSession`: the queued transaction of gametype, factory and ruleset.
5. `Captains`, `MapQueue`.
6. The export of match statistics: `mm_match_stats.cpp` hands finished records to the
   only thread of the module, with a bounded queue and a synchronous fallback.

Rooms (`mm_arena.cpp`) run a controller per room that resembles the singleton one;
Horde is mostly the placement of monsters. Combat, items, weapons, physics,
monsters and bots' thinking are continuous simulation, of which a finite model can
say nothing exact; they are most of the repository's lines. HUD, menus, chat and
the client module present what others decide. `PROJECT.json` gives a reason for
every part.
