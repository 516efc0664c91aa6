------------------------------- MODULE Ghost -------------------------------
(***************************************************************************)
(* Reconnect reservations (muffmode/mm_ghost.cpp) and the client life      *)
(* cycle around them (client/lifecycle.cpp, SetTeam in mm_team.cpp): a     *)
(* player who drops, or is moved out for inactivity, leaves a snapshot of  *)
(* his match state behind; the same identity may claim it, wait out the    *)
(* reinstatement delay and get the state back, unless the reservation      *)
(* runs out or the round, the world or the match changes first.            *)
(*                                                                         *)
(* Client slots, ghost records and snapshots are numbered alike.  Every    *)
(* operation is an operator from one state of the server to the next, so   *)
(* that a handler which calls others is their composition.                 *)
(***************************************************************************)
EXTENDS Naturals, FiniteSets

CONSTANTS
  N,               \* client slots (and ghost records)
  Ids,             \* social identities
  None,
  Kind,            \* the match item a player may carry: "flag" or "tech"
  Rebuilds,        \* may a new round rebuild the world, may it not (Horde waves)
  MaxReservations, \* g_auto_ghost_max
  Rejoin,          \* g_auto_ghost_time, in frames
  Delay,           \* AUTO_GHOST_REINSTATE_DELAY, in frames
  Retry,           \* AUTO_GHOST_PLACEMENT_RETRY_TIME, in frames
  Pulse,           \* AUTO_GHOST_EXPIRE_PULSE_TIME, in frames
  AutoTimeout,     \* g_auto_ghost_timeout, in frames; 0 is off
  Resume,          \* g_dm_timeout_resume_countdown, in frames; 0 is at once
  Crowds,          \* which slots may find every spawn point blocked at once
  MaxGen, MaxRound, MaxMatch   \* bounds of a run

ASSUME GhostAssumption ==
  /\ N \in Nat \ {0} /\ None \notin Ids
  /\ Kind \in {"flag", "tech"} /\ Rebuilds \in (SUBSET BOOLEAN) \ {{}}
  /\ {MaxReservations, AutoTimeout, Resume, Retry, MaxRound, MaxMatch} \subseteq Nat
  /\ {Rejoin, Delay, Pulse, MaxGen} \subseteq Nat \ {0}
  /\ AutoTimeout <= Rejoin

VARIABLE w     \* the server

Slots == 1..N

ASSUME CrowdsAssumption == Crowds \subseteq SUBSET Slots /\ Crowds # {}

(* One slot, record or snapshot after the other. *)
Each(op(_, _), g) ==
  LET after[n \in 0..N] == IF n = 0 THEN g ELSE op(after[n - 1], n)
  IN after[N]

Stages == {"warmup", "playing", "queued", "intermission"}
Phases == {"Reserved", "Claimed", "Reinstating", "AwaitingBegin", "Expiring"}

(* A client slot: its occupant or the placeholder of one who dropped. *)
NoClient(gen) ==
  [id |-> None, conn |-> FALSE, begun |-> FALSE, spawned |-> FALSE, limbo |-> FALSE,
   inuse |-> FALSE, play |-> FALSE, inactive |-> FALSE, gen |-> gen, holds |-> FALSE,
   ghost |-> 0, holder |-> FALSE]

NoRecord == [ent |-> 0, code |-> FALSE]
NoSnap == [valid |-> FALSE]
NoFallback == [valid |-> FALSE]
NoTimeout == [left |-> 0, ent |-> 0, auto |-> FALSE, resuming |-> FALSE]

Init ==
  w = [client |-> [s \in Slots |-> NoClient(1)],
       rec |-> [i \in Slots |-> NoRecord], snap |-> [i \in Slots |-> NoSnap],
       fall |-> [s \in Slots |-> NoFallback], abort |-> {}, cursor |-> 1,
       timeout |-> NoTimeout, item |-> 1, part |-> [id \in Ids |-> "out"],
       stage |-> "warmup", match |-> 0, round |-> 0, world |-> 0]

-----------------------------------------------------------------------------
(* What a reservation is good for. *)

Open(g) == g.stage = "playing"               \* the statistics of the match are open

BelongsToMatch(g, i) == g.snap[i].valid /\ g.snap[i].match = g.match
BelongsToWorld(g, i) == BelongsToMatch(g, i) /\ g.snap[i].world = g.world

Current(g, i) ==
  /\ BelongsToWorld(g, i)
  /\ g.snap[i].round = g.round
  /\ g.snap[i].phase \notin {"AwaitingBegin", "Expiring"}
  /\ g.snap[i].remaining > 0 \/ g.snap[i].phase \in {"Claimed", "Reinstating"}
  /\ g.stage = "playing"

Owns(g, i, id) == g.snap[i].valid /\ id # None /\ g.snap[i].id = id

(* The snapshot an identity may come back to: there must be exactly one. *)
Find(g, id) ==
  LET found == {i \in Slots : Current(g, i) /\ Owns(g, i, id)}
  IN IF Cardinality(found) = 1 THEN CHOOSE i \in found : TRUE ELSE 0

OwnedGhost(g, s) ==
  LET i == g.client[s].ghost IN IF i # 0 /\ g.rec[i].ent = s THEN i ELSE 0

(* The slot a transaction of snapshot i is bound to, if that connection is *)
(* still the one that claimed it.                                          *)
Bound(g, i) ==
  LET s == g.snap[i].target IN
  /\ g.snap[i].gen = g.client[s].gen /\ g.rec[i].ent = s
  /\ g.client[s].conn /\ Owns(g, i, g.client[s].id)

RestoreTarget(g, i) ==
  IF /\ g.snap[i].valid /\ g.snap[i].phase \in {"Claimed", "Reinstating"}
     /\ Bound(g, i) /\ g.client[g.snap[i].target].inuse
  THEN g.snap[i].target ELSE 0

AwaitingTarget(g, i) ==
  IF /\ g.snap[i].valid /\ g.snap[i].phase = "AwaitingBegin" /\ Bound(g, i)
  THEN g.snap[i].target ELSE 0

(* RestoreTransactionIndexForTarget and AwaitingBeginIndexForTarget: unlike *)
(* the two above they do not ask whether the client is connected.           *)
IndexFor(g, s, phases) ==
  LET found == {i \in Slots : /\ g.snap[i].valid /\ g.snap[i].phase \in phases
                              /\ g.rec[i].ent = s /\ g.snap[i].target = s
                              /\ g.snap[i].gen = g.client[s].gen
                              /\ Owns(g, i, g.client[s].id)}
  IN IF found = {} THEN 0 ELSE CHOOSE i \in found : \A j \in found : i <= j

FallbackPending(g, s) ==
  g.fall[s].valid /\ g.fall[s].gen = g.client[s].gen /\ g.fall[s].id = g.client[s].id

(* MM_Ghost_IsPendingRestore *)
Protected(g, s) ==
  \/ IndexFor(g, s, {"Claimed", "Reinstating", "AwaitingBegin"}) # 0
  \/ FallbackPending(g, s)

(* MM_Ghost_ReservedClientState: the logical participant of a slot. *)
ReservedState(g, s) ==
  \/ LET i == OwnedGhost(g, s) IN
     /\ i # 0 /\ BelongsToMatch(g, i) /\ Owns(g, i, g.client[s].id)
     /\ CASE g.snap[i].phase = "Reserved" -> TRUE
          [] g.snap[i].phase \in {"Claimed", "Reinstating"} -> RestoreTarget(g, i) = s
          [] g.snap[i].phase = "AwaitingBegin" -> AwaitingTarget(g, i) = s
          [] OTHER -> FALSE
  \/ FallbackPending(g, s) /\ g.fall[s].match = g.match

\* Mutant: a reservation that does not apply any more exposes its slot.
StaleExposesSlot(g, s) == \E i \in Slots : Current(g, i) /\ g.rec[i].ent = s

ReservedSlot(g, s) == \E i \in Slots : g.snap[i].valid /\ g.rec[i].ent = s

CanOwnGhost(g, s) == g.stage = "playing" /\ g.client[s].play

Retained(g) == g.timeout.left > 0 /\ ~g.timeout.resuming

-----------------------------------------------------------------------------
(* The match item, the statistics and the timeout. *)

(* CTF_ResetTeamFlag puts the flag back whatever became of it; a Tech is   *)
(* dropped into the world next to any other.                               *)
ReturnItem(g) == [g EXCEPT !.item = IF Kind = "flag" THEN 1 ELSE IF @ < 2 THEN @ + 1 ELSE 2]

(* TossClientItems, CTF_DeadDropFlag, Tech_DeadDrop of a living client. *)
Toss(g, s) ==
  IF g.client[s].holds THEN [ReturnItem(g) EXCEPT !.client[s].holds = FALSE] ELSE g

Settle(g, id) ==
  IF id # None /\ Open(g) /\ g.part[id] = "in" THEN [g EXCEPT !.part[id] = "settled"] ELSE g

Enter(g, id) ==
  IF Open(g) /\ g.part[id] # "settled" THEN [g EXCEPT !.part[id] = "in"] ELSE g

\* Mutant: a departure is noted and not settled.
NotesDeparture(g, i) == IF g.snap[i].valid THEN [g EXCEPT !.snap[i].settled = TRUE] ELSE g

SettleSnap(g, i) ==
  IF ~g.snap[i].valid \/ g.snap[i].settled THEN g
  ELSE LET h == [g EXCEPT !.snap[i].settled = TRUE]
       IN IF BelongsToMatch(g, i) THEN Settle(h, g.snap[i].id) ELSE h

(* ReleaseExpiredMatchItems *)
Release(g, i) ==
  IF g.snap[i].valid /\ ~g.snap[i].released /\ g.snap[i].holds THEN ReturnItem(g) ELSE g

\* Mutant: the flag goes back and stays in the reservation.
DropsCopy(g, which) ==
  IF Kind = "flag" /\ \E i \in which : g.snap[i].valid /\ g.snap[i].holds
  THEN ReturnItem(g) ELSE g

(* DropSnapshotFlags, of the reservations of `which`. *)
DropFlags(g, which) ==
  LET held == {i \in which : g.snap[i].valid /\ g.snap[i].holds} IN
  IF Kind # "flag" \/ held = {} THEN g
  ELSE [ReturnItem(g) EXCEPT
          !.snap = [i \in Slots |-> IF i \in held THEN [@[i] EXCEPT !.holds = FALSE] ELSE @[i]],
          !.client = [s \in Slots |-> IF \E i \in held : g.rec[i].ent = s
                                      THEN [@[s] EXCEPT !.holds = FALSE] ELSE @[s]]]

(* The first call starts the resume countdown, the second ends it. *)
TimeoutEnd(g) ==
  IF g.timeout.resuming \/ Resume = 0
  THEN [(IF g.timeout.resuming THEN g ELSE DropFlags(g, {i \in Slots : Current(g, i)}))
          EXCEPT !.timeout = NoTimeout]
  ELSE [DropFlags(g, {i \in Slots : Current(g, i)}) EXCEPT
          !.timeout = [@ EXCEPT !.left = Resume, !.ent = 0, !.resuming = TRUE]]

\* Mutant: whoever returns resumes the match.
AnyoneResumes(g, s) == IF g.timeout.auto /\ Retained(g) THEN TimeoutEnd(g) ELSE g

ResumeFor(g, s) ==
  IF g.timeout.auto /\ Retained(g) /\ g.timeout.ent = s THEN TimeoutEnd(g) ELSE g

\* Mutant: a timeout keeps its owner when the reservation goes.
KeepsOwner(g, i, resume) == g

(* RevokeSnapshotTimeoutOwnership *)
Revoke(g, i, resume) ==
  IF g.timeout.ent = 0 \/ g.timeout.ent # g.rec[i].ent THEN g
  ELSE IF resume /\ g.timeout.auto /\ Retained(g) THEN TimeoutEnd(g)
       ELSE [g EXCEPT !.timeout.ent = 0]

-----------------------------------------------------------------------------
(* Taking reservations away. *)

(* ClearSnapshot, with RemovePlaceholder: a placeholder's slot is freed. *)
ClearSnap(g, i) ==
  LET s == g.rec[i].ent
      owned == s # 0 /\ g.client[s].ghost = i
      gone == owned /\ ~g.client[s].conn /\ (g.snap[i].valid \/ g.client[s].holder)
      h == [g EXCEPT !.snap[i] = NoSnap]
  IN IF gone THEN [h EXCEPT !.client[s] = NoClient(g.client[s].gen + 1)]
     ELSE IF owned THEN [h EXCEPT !.client[s].ghost = 0] ELSE h

ClearRecord(g, i) == [ClearSnap(g, i) EXCEPT !.rec[i] = NoRecord]

(* ClientBeginDeathmatch: the client enters the level, or waits in limbo   *)
(* when every spawn point is blocked.                                      *)
EnterLevel(g, s, blocked) ==
  [g EXCEPT !.client[s] = [@ EXCEPT !.inuse = TRUE, !.holder = FALSE, !.ghost = 0,
                                    !.spawned = s \notin blocked, !.limbo = s \in blocked]]

(* RestartPendingRestoreTarget: back to ordinary play without the saved    *)
(* combat state, on the saved team if the match is still the same.         *)
Restart(g, s, resume, member, blocked) ==
  LET h == EnterLevel([g EXCEPT !.client[s] = [@ EXCEPT !.holds = FALSE, !.play = member,
                                                        !.inactive = FALSE]], s, blocked)
      k == [h EXCEPT !.abort = IF s \in blocked THEN @ \cup {s} ELSE @ \ {s}]
  IN IF resume THEN ResumeFor(k, s) ELSE k

\* Mutant: the frame itself spawns a connecting client.
StageSpawns(g, s, resume) == Restart(g, s, resume, TRUE, {})

(* StageClaimedTargetForClientBegin: the placeholder is retired, and only  *)
(* the engine's ClientBegin may spawn the client.                          *)
Stage(g, s, resume) ==
  LET h == [g EXCEPT !.client[s] = [@ EXCEPT !.inuse = FALSE, !.holder = FALSE,
                                             !.spawned = FALSE, !.limbo = FALSE],
                     !.abort = @ \ {s}]
  IN IF resume THEN ResumeFor(h, s) ELSE h

Abort(g, i, release, resume, blocked) ==
  LET s == RestoreTarget(g, i)
      member == BelongsToMatch(g, i)
      freed == IF release THEN Release(g, i) ELSE g
  IN IF g.snap[i].phase = "Claimed" /\ s # 0
     THEN Stage([freed EXCEPT
                   !.snap[i] = [@ EXCEPT !.phase = "AwaitingBegin", !.elapsed = 0,
                                         !.reinstate = 0,
                                         !.released = g.snap[i].released \/ release],
                   !.rec[i].code = FALSE], s, resume)
     ELSE LET h == IF s = 0 THEN Revoke(SettleSnap(freed, i), i, resume) ELSE freed
              k == ClearRecord(h, i)
          IN IF s = 0 THEN k ELSE Restart(k, s, resume, member, blocked)

Expire(g, i, blocked) ==
  IF ~g.snap[i].valid THEN g
  ELSE IF g.snap[i].phase \in {"Claimed", "Reinstating"} THEN Abort(g, i, TRUE, TRUE, blocked)
  ELSE LET h == Revoke(SettleSnap(g, i), i, TRUE) IN ClearRecord(Release(h, i), i)

(* The world was rebuilt: its items are already back. *)
Discard(g, i, blocked) ==
  IF ~g.snap[i].valid THEN g
  ELSE IF g.snap[i].phase \in {"Claimed", "Reinstating"} THEN Abort(g, i, FALSE, TRUE, blocked)
  ELSE ClearRecord(Revoke(SettleSnap(g, i), i, FALSE), i)

ExpireOrDiscard(g, i, blocked) ==
  IF BelongsToWorld(g, i) THEN Expire(g, i, blocked) ELSE Discard(g, i, blocked)

(* A handoff whose connection has gone. *)
DropHandoff(g, i) == ClearRecord(SettleSnap(g, i), i)

(* PrepareAwaitingBeginFallback: the handoff leaves the snapshot and waits *)
(* for ClientBegin in the slot.                                            *)
MakeFallback(g, i) ==
  LET s == g.snap[i].target
      same == BelongsToMatch(g, i)
      h == IF same THEN g ELSE SettleSnap(g, i)
  IN [ClearRecord(h, i) EXCEPT
        !.fall[s] = [valid |-> TRUE, id |-> g.client[s].id, gen |-> g.client[s].gen,
                     match |-> g.match, fresh |-> FALSE],
        !.client[s] = [@ EXCEPT !.spawned = FALSE, !.limbo = FALSE, !.holds = FALSE,
                                !.ghost = 0, !.play = same, !.inactive = FALSE]]

ResolveHandoff(g, i) ==
  IF AwaitingTarget(g, i) # 0 THEN MakeFallback(g, i) ELSE DropHandoff(g, i)

(* ExpireStaleSnapshotsForSocialId *)
ExpireStale(g, id, blocked) ==
  LET one(h, i) ==
        IF Owns(h, i, id) /\ h.snap[i].phase # "AwaitingBegin" /\ ~Current(h, i)
        THEN ExpireOrDiscard(h, i, blocked) ELSE h
  IN Each(one, g)

(* ExpireSnapshotsForSocialId *)
ExpireOthers(g, id, except, blocked) ==
  LET one(h, i) == IF i # except /\ Owns(h, i, id) THEN ExpireOrDiscard(h, i, blocked) ELSE h
  IN Each(one, g)

ClearEntityGhost(g, s, blocked) ==
  LET i == OwnedGhost(g, s)
      h == IF i = 0 THEN g
           ELSE IF g.snap[i].valid /\ g.snap[i].phase \in {"Claimed", "Reinstating"}
           THEN ExpireOrDiscard(g, i, blocked)
           ELSE ClearRecord(IF g.snap[i].valid THEN Revoke(SettleSnap(g, i), i, TRUE) ELSE g, i)
  IN [h EXCEPT !.client[s].ghost = 0]

(* MM_Ghost_ClearClient *)
ClearGhost(g, s, blocked) ==
  IF Protected(g, s) THEN g
  ELSE LET i == OwnedGhost(g, s)
       IN ClearEntityGhost(IF i # 0 THEN SettleSnap(g, i) ELSE g, s, blocked)

-----------------------------------------------------------------------------
(* Making reservations. *)

(* AllocateGhostSlot *)
FreeRecord(g, s) ==
  LET unused == {i \in Slots : g.rec[i].ent = 0 /\ ~g.snap[i].valid}
      dead == {i \in Slots : /\ ~g.rec[i].code /\ ~g.snap[i].valid
                             /\ LET o == g.rec[i].ent
                                IN ~(o # 0 /\ g.client[o].ghost = i /\ g.client[o].conn)}
      least(S) == CHOOSE i \in S : \A j \in S : i <= j
  IN IF OwnedGhost(g, s) # 0 THEN OwnedGhost(g, s)
     ELSE IF unused # {} THEN least(unused)
     ELSE IF dead # {} THEN least(dead) ELSE 0

Assign(g, s, blocked) ==
  IF Protected(g, s) THEN g
  ELSE IF ~CanOwnGhost(g, s) THEN ClearEntityGhost(g, s, blocked)
  ELSE LET i == FreeRecord(g, s) IN
       IF i = 0 THEN [g EXCEPT !.client[s].ghost = 0]
       ELSE [ClearSnap(g, i) EXCEPT !.rec[i] = [ent |-> s, code |-> TRUE],
                                    !.client[s].ghost = i]

(* MM_Ghost_DoAssign *)
DoAssign(g, s, blocked) ==
  IF Protected(g, s) THEN g
  ELSE IF ~CanOwnGhost(g, s) THEN ClearEntityGhost(g, s, blocked)
  ELSE LET i == OwnedGhost(g, s)
           h == IF i # 0 THEN ClearRecord(g, i) ELSE g
       IN Assign([h EXCEPT !.client[s].ghost = 0], s, blocked)

\* ActiveSnapshotCount against g_auto_ghost_max
Full(g, own) == Cardinality({j \in Slots \ {own} : Current(g, j)}) >= MaxReservations

Snapshot(g, s) ==
  [valid |-> TRUE, id |-> g.client[s].id, match |-> g.match, round |-> g.round,
   world |-> g.world, remaining |-> Rejoin, phase |-> "Reserved", elapsed |-> 0,
   reinstate |-> 0, target |-> s, gen |-> 0, holds |-> g.client[s].holds,
   released |-> FALSE, settled |-> FALSE]

(* StartAutoGhostTimeout *)
StartTimeout(g, s) ==
  IF AutoTimeout = 0 \/ g.timeout.left > 0 THEN g
  ELSE [g EXCEPT !.timeout = [left |-> AutoTimeout, ent |-> s, auto |-> TRUE, resuming |-> FALSE]]

Captured(g)    == [g |-> g, ok |-> TRUE]
NotCaptured(g) == [g |-> g, ok |-> FALSE]

(* The reservation itself, in record i. *)
Reserve(g, s, i, timeout) ==
  LET m == [g EXCEPT !.snap[i] = Snapshot(g, s), !.rec[i] = [ent |-> s, code |-> TRUE],
                     !.client[s].ghost = i]
      n == IF timeout THEN StartTimeout(m, s) ELSE m
  IN IF timeout /\ Retained(n) THEN n ELSE DropFlags(n, {i})

CaptureInto(g, s, own, timeout, blocked) ==
  LET k == IF own = 0 THEN Assign(g, s, blocked) ELSE g
      i == OwnedGhost(k, s)
  IN IF Full(g, own) THEN NotCaptured(g)
     ELSE IF i = 0 THEN NotCaptured(k)
     ELSE Captured(Reserve(ExpireOthers(k, k.client[s].id, i, blocked), s, i, timeout))

(* CaptureActivePlayerSnapshot: a new state, and whether it was captured. *)
Capture(g, s, timeout, blocked) ==
  LET own == OwnedGhost(g, s) IN
  IF ~CanOwnGhost(g, s) THEN NotCaptured(ClearEntityGhost(g, s, blocked))
  ELSE CaptureInto(ExpireOthers(g, g.client[s].id, own, blocked), s, own, timeout, blocked)

(* CancelPendingRestore: the claimant dropped again, his reservation stays. *)
Cancel(g, i) ==
  [g EXCEPT !.snap[i] = [@ EXCEPT !.phase = "Reserved", !.elapsed = 0, !.reinstate = 0,
                                  !.gen = 0],
            !.rec[i].code = TRUE]

(* MM_Ghost_CaptureDisconnect *)
CaptureDisconnect(g, s, blocked) ==
  LET claimed == IndexFor(g, s, {"Claimed", "Reinstating"})
      awaiting == IndexFor(g, s, {"AwaitingBegin"})
      own == OwnedGhost(g, s)
  IN IF FallbackPending(g, s)
     THEN NotCaptured([(IF g.client[s].play THEN Settle(g, g.client[s].id) ELSE g)
                         EXCEPT !.fall[s] = NoFallback])
     ELSE IF awaiting # 0
     THEN NotCaptured([DropHandoff(g, awaiting) EXCEPT !.client[s].ghost = 0])
     ELSE IF claimed # 0 THEN Captured(Cancel(g, claimed))
     ELSE IF /\ own # 0 /\ g.snap[own].valid /\ g.snap[own].phase = "Reserved"
             /\ Current(g, own) /\ Owns(g, own, g.client[s].id)
     THEN Captured(g)
     ELSE Capture(g, s, TRUE, blocked)

(* BeginRestoreDelay of the snapshot an identity may come back to. *)
MayRestore(g, s) ==
  LET i == Find(g, g.client[s].id)
  IN i # 0 /\ g.rec[i].ent = s
       /\ (g.snap[i].phase = "Reinstating" => IndexFor(g, s, {"Reinstating"}) = i)

BeginRestore(g, s) ==
  LET i == Find(g, g.client[s].id)
      extend == g.timeout.auto /\ Retained(g) /\ g.timeout.ent = s /\ g.timeout.left < Delay
  IN IF g.snap[i].phase = "Reinstating" THEN g
     ELSE [g EXCEPT
             !.snap[i] = [@ EXCEPT !.phase = "Reinstating", !.elapsed = 0, !.reinstate = Delay,
                                   !.target = s, !.gen = g.client[s].gen],
             !.rec[i].code = FALSE,
             !.timeout.left = IF extend THEN Delay ELSE @,
             !.client[s] = [@ EXCEPT !.spawned = FALSE, !.limbo = FALSE]]
-----------------------------------------------------------------------------
(* The match. *)

(* MM_Ghost_ClearAll: nothing is settled and no item is returned, since    *)
(* the caller rebuilds the world and the statistics.                       *)
ClearAll(g, restart, blocked) ==
  LET handoff(h, i) ==
        LET s == IF h.snap[i].valid /\ h.snap[i].phase = "Claimed" THEN RestoreTarget(h, i) ELSE 0
            k == IF s = 0 THEN h
                 ELSE Stage([h EXCEPT !.snap[i] = [@ EXCEPT !.phase = "AwaitingBegin", !.elapsed = 0,
                                                       !.reinstate = 0],
                                      !.rec[i].code = FALSE], s, FALSE)
        IN IF restart /\ AwaitingTarget(k, i) # 0 THEN MakeFallback(k, i)
           ELSE IF restart THEN k ELSE h
      reinstating == IF restart
        THEN {s \in Slots : \E i \in Slots : /\ g.snap[i].valid /\ g.snap[i].phase = "Reinstating"
                                             /\ RestoreTarget(g, i) = s}
        ELSE {}
      staged == Each(handoff, g)
      cleared == Each(ClearSnap, staged)
      plain == [cleared EXCEPT
                  !.fall = IF restart THEN @ ELSE [s \in Slots |-> NoFallback],
                  !.abort = {s \in @ : /\ restart /\ cleared.client[s].conn
                                       /\ ~cleared.client[s].spawned \/ cleared.client[s].limbo},
                  !.timeout = IF restart /\ @.auto THEN NoTimeout ELSE @]
      back(h, s) == IF s \in reinstating THEN Restart(h, s, FALSE, TRUE, blocked) ELSE h
      all == Each(back, plain)
  IN [all EXCEPT !.rec = [i \in Slots |-> NoRecord], !.cursor = 1,
                 !.client = [s \in Slots |-> [@[s] EXCEPT !.ghost = 0]]]

(* ResetEntities: the items are back in the world and nobody carries one. *)
RebuildWorld(g) ==
  [g EXCEPT !.item = 1, !.client = [s \in Slots |-> [@[s] EXCEPT !.holds = FALSE]]]

Active(g, s) == g.client[s].inuse /\ g.client[s].conn

(* ResetPlayers(reset_ghost): records are given out anew. *)
Rerecord(g, s, blocked) == IF g.client[s].play THEN Assign(g, s, blocked) ELSE g

ResetGhosts(g, blocked) ==
  LET one(h, s) == IF Active(h, s) THEN Rerecord(ClearGhost(h, s, blocked), s, blocked) ELSE h
  IN Each(one, g)

(* NormalizeClientBeginFallbackForCurrentMatch *)
Normalize(g, s) ==
  IF ~FallbackPending(g, s) \/ g.fall[s].match = g.match THEN g
  ELSE [g EXCEPT !.fall[s] = [@ EXCEPT !.match = g.match, !.fresh = Open(g)]]

(* MM_Ghost_ResolveRoundTransition *)
ResolveRound(g, blocked) ==
  LET one(h, i) ==
        IF ~h.snap[i].valid \/ h.snap[i].round = h.round THEN h
        ELSE IF h.snap[i].phase = "AwaitingBegin" THEN ResolveHandoff(h, i)
        ELSE IF h.snap[i].phase \in {"Claimed", "Reinstating"}
        THEN LET k == Abort(h, i, BelongsToWorld(h, i), TRUE, blocked)
             IN IF k.snap[i].valid /\ k.snap[i].phase = "AwaitingBegin"
                THEN ResolveHandoff(k, i) ELSE k
        ELSE ExpireOrDiscard(h, i, blocked)
  IN Each(one, g)

(* The statistics and the first round of the new match. *)
OpenMatch(g) ==
  LET in == {g.client[s].id : s \in {t \in Slots : Active(g, t) /\ g.client[t].play}}
  IN [g EXCEPT !.match = @ + 1, !.round = @ + 1,
               !.part = [id \in Ids |-> IF id \in in THEN "in" ELSE "out"]]

Match_Start(blocked) ==
  /\ w.stage = "warmup" /\ w.match < MaxMatch /\ w.round < MaxRound
  /\ LET cleared == RebuildWorld(ClearAll([w EXCEPT !.stage = "playing"], TRUE, blocked))
     IN w' = Each(Normalize, OpenMatch(ResetGhosts(cleared, blocked)))

StartNewRound(blocked, rebuild) ==
  /\ w.stage = "playing" /\ w.timeout.left = 0 /\ w.round < MaxRound
  /\ LET a == [w EXCEPT !.round = @ + 1, !.world = IF rebuild THEN @ + 1 ELSE @]
         b == ResolveRound(a, blocked)
     IN w' = IF rebuild THEN RebuildWorld(b) ELSE b

QueueIntermission ==
  /\ w.stage = "playing" /\ w.timeout.left = 0
  /\ w' = [w EXCEPT !.stage = "queued"]

BeginIntermission ==
  /\ w.stage = "queued"
  /\ w' = [w EXCEPT !.stage = "intermission"]

Match_Reset(blocked) ==
  /\ w.stage # "warmup"
  /\ w' = RebuildWorld(ClearAll([w EXCEPT !.stage = "warmup"], TRUE, blocked))

(* SpawnEntities: the clients are kept and will get a new ClientBegin.  The *)
(* generations advance there too, when nothing refers to one any more.      *)
ChangeLevel ==
  /\ w.stage = "intermission"
  /\ LET a == ClearAll(w, FALSE, {})
     IN w' = [a EXCEPT !.stage = "warmup", !.item = 1, !.timeout = NoTimeout, !.abort = {},
                       !.client = [s \in Slots |->
                          IF @[s].conn
                          THEN [@[s] EXCEPT !.begun = FALSE, !.spawned = FALSE, !.limbo = FALSE,
                                            !.inuse = FALSE, !.holder = FALSE, !.holds = FALSE]
                          ELSE NoClient(@[s].gen)]]

-----------------------------------------------------------------------------
(* Frames. *)

(* ReleaseTimedOutInventory *)
ReleaseTimedOut(g, i) ==
  IF g.snap[i].released THEN g
  ELSE LET s == g.rec[i].ent
           h == [Release(g, i) EXCEPT !.snap[i].released = TRUE]
       IN IF g.client[s].holder THEN [h EXCEPT !.client[s].holds = FALSE] ELSE h

(* BeginSnapshotTimeoutExpiry *)
RunOut(g, i, blocked) ==
  IF g.snap[i].phase = "Claimed" THEN Abort(ReleaseTimedOut(g, i), i, FALSE, TRUE, blocked)
  ELSE IF g.snap[i].phase = "Reinstating" THEN Abort(g, i, TRUE, TRUE, blocked)
  ELSE LET h == [SettleSnap(ReleaseTimedOut(g, i), i) EXCEPT !.rec[i].code = FALSE]
       IN IF ~h.client[h.rec[i].ent].holder \/ Retained(h) THEN Expire(h, i, blocked)
          ELSE [h EXCEPT !.snap[i] = [@ EXCEPT !.phase = "Expiring", !.elapsed = 0,
                                               !.reinstate = 0, !.gen = 0]]

Countdown(g, i, blocked) ==
  IF g.snap[i].remaining = 0 THEN RunOut(g, i, blocked)
  ELSE LET h == [g EXCEPT !.snap[i].remaining = @ - 1]
       IN IF h.snap[i].remaining = 0 THEN RunOut(h, i, blocked) ELSE h

(* MM_Ghost_RunFrame, one reservation of a match in progress *)
RunSnap(g, i, blocked) ==
  LET phase == g.snap[i].phase IN
  IF ~g.snap[i].valid THEN g
  ELSE IF phase = "AwaitingBegin"
  THEN IF AwaitingTarget(g, i) = 0 THEN DropHandoff(g, i) ELSE g
  ELSE IF ~BelongsToWorld(g, i) \/ g.snap[i].round # g.round
  THEN IF phase \in {"Claimed", "Reinstating"}
       THEN Abort(g, i, BelongsToWorld(g, i), TRUE, blocked) ELSE ExpireOrDiscard(g, i, blocked)
  ELSE IF phase \in {"Claimed", "Reinstating"} /\ RestoreTarget(g, i) = 0
  THEN Abort(g, i, TRUE, TRUE, blocked)
  ELSE IF phase = "Reinstating"
  THEN IF g.snap[i].reinstate = 0 THEN g
       ELSE [g EXCEPT !.snap[i].elapsed = @ + 1, !.snap[i].reinstate = @ - 1]
  ELSE IF phase = "Expiring"
  THEN LET h == [g EXCEPT !.snap[i].elapsed = @ + 1]
       IN IF h.snap[i].elapsed >= Pulse THEN Expire(h, i, blocked) ELSE h
  ELSE Countdown(g, i, blocked)

(* ... and of a match that is not in progress any more *)
CleanSnap(g, i, blocked) ==
  IF ~g.snap[i].valid THEN g
  ELSE IF g.snap[i].phase = "AwaitingBegin" THEN ResolveHandoff(g, i)
  ELSE IF g.snap[i].phase \in {"Claimed", "Reinstating"}
  THEN Abort(g, i, BelongsToWorld(g, i), TRUE, blocked)
  ELSE ExpireOrDiscard(g, i, blocked)

RunFrame(g, blocked) ==
  LET run(h, i) == RunSnap(h, i, blocked)
      clean(h, i) == CleanSnap(h, i, blocked)
  IN CASE g.stage = "queued"  -> g
       [] g.stage = "playing" -> Each(run, g)
       [] OTHER               -> Each(clean, g)

TickTimeout(g) ==
  IF g.timeout.left = 0 THEN g
  ELSE LET h == [g EXCEPT !.timeout.left = @ - 1]
       IN IF h.timeout.left = 0 THEN TimeoutEnd(h) ELSE h

(* FreezePendingRestoreFrame: a protected client in the level stays frozen, *)
(* and one in limbo spawns once there is room.                              *)
RunClients(g, blocked) ==
  [g EXCEPT !.client = [s \in Slots |->
      IF ~Active(g, s) THEN @[s]
      ELSE IF @[s].limbo
      THEN IF s \in blocked THEN @[s] ELSE [@[s] EXCEPT !.limbo = FALSE, !.spawned = TRUE]
      ELSE IF Protected(g, s) THEN [@[s] EXCEPT !.spawned = FALSE] ELSE @[s]],
    !.abort = {s \in @ : g.client[s].limbo /\ s \in blocked}]

(* RestoreSnapshot: the exact state is given back. *)
Restore(g, i) ==
  LET s == g.rec[i].ent
      h == [ClearSnap([g EXCEPT !.client[s].ghost = i], i) EXCEPT
              !.client[s] = [@ EXCEPT !.play = TRUE, !.holds = g.snap[i].holds, !.spawned = TRUE,
                                      !.limbo = FALSE, !.inactive = FALSE, !.inuse = TRUE,
                                      !.holder = FALSE, !.ghost = i],
              !.rec[i].code = FALSE]
  IN ResumeFor(h, s)

\* Mutant: every retry of a restore starts its clock anew.
KeepsTrying(g, i, blocked) ==
  IF RestoreTarget(g, i) \notin blocked THEN Restore(g, i)
  ELSE [g EXCEPT !.snap[i] = [@ EXCEPT !.reinstate = 1, !.elapsed = 0]]

(* FinishPendingRestore *)
FinishRestore(g, i, blocked) ==
  LET s == RestoreTarget(g, i) IN
  IF s = 0 THEN Cancel(g, i)
  ELSE IF s \notin blocked THEN Restore(g, i)
  ELSE IF g.snap[i].elapsed >= Delay + Retry THEN Abort(g, i, TRUE, TRUE, blocked)
  ELSE [g EXCEPT !.snap[i].reinstate = 1]

(* RunOneDueRestoreCommit, from the cursor on round robin *)
Due(g) == {i \in Slots : /\ Current(g, i) /\ g.snap[i].phase = "Reinstating"
                         /\ g.snap[i].reinstate = 0}

CommitOne(g, blocked) ==
  IF g.stage # "playing" \/ Due(g) = {} THEN g
  ELSE LET turn(i) == (i + N - g.cursor) % N
           next == CHOOSE i \in Due(g) : \A j \in Due(g) : turn(i) <= turn(j)
       IN FinishRestore([g EXCEPT !.cursor = (next % N) + 1], next, blocked)

(* G_RunFrame: one game frame, then the one restore of the server frame. *)
Frame(blocked) ==
  LET a == RunFrame(w, blocked)
      b == IF a.timeout.left > 0 THEN TickTimeout(a)
           ELSE IF a.stage = "intermission" THEN a ELSE RunClients(a, blocked)
  IN w' = CommitOne(b, blocked)

-----------------------------------------------------------------------------
(* Clients. *)

Free(g) == {s \in Slots : ~g.client[s].conn /\ ~ReservedSlot(g, s)}

(* ClientChooseSlot *)
ChooseSlot(g, id) ==
  LET i == Find(g, id) IN
  IF i # 0 /\ ~g.client[g.rec[i].ent].conn THEN g.rec[i].ent
  ELSE IF Free(g) = {} THEN 0 ELSE CHOOSE s \in Free(g) : \A t \in Free(g) : s <= t

(* MM_Ghost_PrepareClientConnect *)
OwningSnap(g, s, id) ==
  LET found == {i \in Slots : /\ g.snap[i].valid /\ g.rec[i].ent = s /\ ~g.client[s].conn
                              /\ g.snap[i].phase = "Reserved" /\ Current(g, i) /\ Owns(g, i, id)}
  IN IF found = {} THEN 0 ELSE CHOOSE i \in found : \A j \in found : i >= j

\* Mutant: a second connection of an identity is let in.
MayClaimTwice(g, s, id) == ReservedSlot(g, s) => OwningSnap(g, s, id) # 0

MayClaim(g, s, id) ==
  /\ \A t \in Slots \ {s} : ~(g.client[t].conn /\ g.client[t].id = id)
  /\ \A i \in Slots : Owns(g, i, id) => g.rec[i].ent = s
  /\ ReservedSlot(g, s) => OwningSnap(g, s, id) # 0

ClientConnect(id, blocked) ==
  LET g == ExpireStale(w, id, blocked)
      s == ChooseSlot(g, id)
      i == OwningSnap(g, s, id)
      fresh == [NoClient(g.client[s].gen) EXCEPT !.id = id, !.conn = TRUE, !.spawned = TRUE]
  IN IF s = 0 THEN w' = g
     ELSE IF ~MayClaim(g, s, id) THEN w' = g
     ELSE IF i = 0 THEN w' = [g EXCEPT !.client[s] = fresh, !.abort = @ \ {s}]
     ELSE w' = [g EXCEPT
                  !.client[s] = [fresh EXCEPT !.spawned = FALSE, !.inuse = TRUE,
                                              !.holder = TRUE, !.ghost = i],
                  !.abort = @ \ {s},
                  !.snap[i] = [@ EXCEPT !.phase = "Claimed", !.elapsed = 0, !.reinstate = 0,
                                        !.target = s, !.gen = g.client[s].gen],
                  !.rec[i].code = FALSE]

(* CompleteClientBeginFallback *)
CompleteFallback(g, s) ==
  LET f == g.fall[s]
      h == [g EXCEPT !.fall[s] = NoFallback,
                     !.abort = IF g.client[s].spawned THEN @ ELSE @ \cup {s}]
  IN IF f.fresh /\ g.client[s].play THEN Enter(h, g.client[s].id) ELSE h

(* ClientBegin: delivered once for each connection and level. *)
ClientBegin(s, blocked) ==
  /\ w.client[s].conn /\ ~w.client[s].begun
  /\ LET i == IndexFor(w, s, {"AwaitingBegin"})
         fallback == FallbackPending(w, s) \/ i # 0
         a == IF FallbackPending(w, s) THEN Normalize(w, s)
              ELSE IF i # 0 THEN MakeFallback(w, i) ELSE w
         b == [a EXCEPT !.client[s].begun = TRUE, !.client[s].limbo = FALSE]
         c == EnterLevel(b, s, blocked)
     IN w' = IF fallback THEN CompleteFallback(c, s)
             ELSE IF MayRestore(b, s) THEN BeginRestore(b, s) ELSE c

(* The rest of a disconnection, once the capture has been tried. *)
Disconnected(cap, s, pending, blocked) ==
  IF cap.ok
  THEN [cap.g EXCEPT !.client[s] =
          [@ EXCEPT !.conn = FALSE, !.begun = FALSE, !.spawned = FALSE, !.limbo = FALSE,
                    !.inuse = TRUE, !.holder = TRUE,
                    !.gen = cap.g.client[s].gen + 1]]
  ELSE LET a == IF pending \/ ~w.client[s].play THEN cap.g ELSE Settle(cap.g, w.client[s].id)
       IN [ClearGhost(Toss(a, s), s, blocked) EXCEPT !.client[s] = NoClient(@.gen + 1)]

(* ClientDisconnect *)
ClientDisconnect(s, blocked) ==
  /\ w.client[s].conn /\ w.client[s].gen + 1 < MaxGen
  /\ LET retry == s \in w.abort
         a == [w EXCEPT !.abort = @ \ {s}]
     IN w' = Disconnected(IF retry THEN NotCaptured(a) ELSE CaptureDisconnect(a, s, blocked),
                          s, Protected(w, s) \/ ReservedState(w, s), blocked)

Settled(s) == w.client[s].begun /\ Active(w, s) /\ w.client[s].spawned /\ ~Protected(w, s)

(* SetTeam to a playing team *)
Join(s, blocked) ==
  /\ Settled(s) /\ ~w.client[s].play
  /\ w' = IF w.client[s].inactive /\ MayRestore(w, s) THEN BeginRestore(w, s)
          ELSE LET a == Enter(w, w.client[s].id)
                   b == [a EXCEPT !.client[s] = [@ EXCEPT !.play = TRUE, !.inactive = FALSE]]
               IN DoAssign(b, s, blocked)

(* SetTeam to the spectators *)
Spectate(s, blocked) ==
  /\ Settled(s) /\ w.client[s].play
  /\ LET a == Toss(Settle(w, w.client[s].id), s)
     IN w' = ClearGhost([a EXCEPT !.client[s] = [@ EXCEPT !.play = FALSE, !.inactive = FALSE]],
                        s, blocked)

(* SetTeam to the spectators for inactivity: MM_Ghost_CaptureInactive.  A *)
(* Tech is dropped, and the reservation does without it.                   *)
Inactive(cap, s) ==
  LET i == OwnedGhost(cap.g, s)
      a == IF ~cap.ok THEN Settle(cap.g, w.client[s].id)
           ELSE [cap.g EXCEPT !.snap[i].holds = IF Kind = "tech" THEN FALSE ELSE @]
  IN [Toss(a, s) EXCEPT !.client[s] = [@ EXCEPT !.play = FALSE, !.inactive = TRUE]]

Idle(s, blocked) ==
  /\ Settled(s) /\ w.client[s].play
  /\ w' = Inactive(Capture(w, s, FALSE, blocked), s)

(* Ordinary play: the item is picked up, or lost with a life. *)
PickUp(s) ==
  /\ Settled(s) /\ w.client[s].play /\ w.stage = "playing" /\ w.timeout.left = 0 /\ w.item > 0
  /\ w' = [w EXCEPT !.item = @ - 1, !.client[s].holds = TRUE]

Die(s) ==
  /\ Settled(s) /\ w.client[s].holds /\ w.stage = "playing" /\ w.timeout.left = 0
  /\ w' = Toss(w, s)

ClientSteps(blocked) ==
  \/ \E id \in Ids : ClientConnect(id, blocked)
  \/ \E s \in Slots : \/ ClientBegin(s, blocked) \/ ClientDisconnect(s, blocked)
                      \/ Join(s, blocked) \/ Spectate(s, blocked) \/ Idle(s, blocked)
                      \/ PickUp(s) \/ Die(s)

MatchSteps(blocked) ==
  \/ Match_Start(blocked) \/ QueueIntermission
  \/ \E rebuild \in Rebuilds : StartNewRound(blocked, rebuild)
  \/ BeginIntermission \/ Match_Reset(blocked) \/ ChangeLevel

Next == \E blocked \in Crowds :
          Frame(blocked) \/ ClientSteps(blocked) \/ MatchSteps(blocked)

Spec == Init /\ [][Next]_w
=============================================================================
