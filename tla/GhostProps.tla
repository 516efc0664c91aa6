----------------------------- MODULE GhostProps ----------------------------
(* What must hold of reconnect reservations, in terms of mm_ghost.cpp.     *)
EXTENDS Ghost

Client == [id : Ids \cup {None}, conn : BOOLEAN, begun : BOOLEAN, spawned : BOOLEAN,
           limbo : BOOLEAN, inuse : BOOLEAN, play : BOOLEAN, inactive : BOOLEAN,
           gen : 1..MaxGen, holds : BOOLEAN, ghost : {0} \cup Slots, holder : BOOLEAN]

Reservation ==
  [valid : {TRUE}, id : Ids, match : 0..MaxMatch, round : 0..MaxRound, world : 0..MaxRound,
   remaining : 0..Rejoin, phase : Phases, elapsed : Nat, reinstate : 0..Delay,
   target : Slots, gen : 0..MaxGen, holds : BOOLEAN, released : BOOLEAN, settled : BOOLEAN]

Handoff ==
  [valid : {TRUE}, id : Ids, gen : 1..MaxGen, match : 0..MaxMatch, fresh : BOOLEAN]

\* Every field stays in its type: the client slots, the records, snapshots
\* and handoffs of mm_ghost.cpp, and the counters of the match.
TypeOK ==
  /\ w.client \in [Slots -> Client]
  /\ w.rec \in [Slots -> [ent : {0} \cup Slots, code : BOOLEAN]]
  /\ w.snap \in [Slots -> {NoSnap} \cup Reservation]
  /\ w.fall \in [Slots -> {NoFallback} \cup Handoff]
  /\ w.abort \subseteq Slots /\ w.cursor \in Slots
  /\ w.timeout \in [left : Nat, ent : {0} \cup Slots, auto : BOOLEAN, resuming : BOOLEAN]
  /\ w.item \in 0..2 /\ w.part \in [Ids -> {"out", "in", "settled"}]
  /\ w.stage \in Stages /\ w.match \in 0..MaxMatch
  /\ w.round \in 0..MaxRound /\ w.world \in 0..MaxRound

\* The bodies of an identity: connections, and reservations in slots nobody
\* is connected to.
Bodies(id) ==
  {s \in Slots : \/ w.client[s].conn /\ w.client[s].id = id
                 \/ \E i \in Slots : /\ w.snap[i].valid /\ w.rec[i].ent = s
                                     /\ w.snap[i].id = id}

\* An identity is in one place: whatever drops, claims, expires or is staged,
\* a player never is in one slot while a reservation keeps him in another.
OneIdentity == \A id \in Ids : Cardinality(Bodies(id)) <= 1

\* A placeholder or a client waiting for his state shows a copy of what the
\* snapshot holds; the others carry what they show.
Carriers == {s \in Slots : w.client[s].holds /\ Active(w, s) /\ ~Protected(w, s)}

Keepers == {i \in Slots : w.snap[i].valid /\ w.snap[i].holds /\ ~w.snap[i].released}

\* A match item is neither lost with a reservation nor doubled by one: it is
\* in the world, with a living client or in one reservation.
ItemOnce == w.stage = "playing" => w.item + Cardinality(Carriers) + Cardinality(Keepers) = 1

\* While the statistics are open, whoever takes part in the match is still
\* somewhere: connected, reserved or handed off. A departure that nothing
\* will settle any more would lose the player's result.
ParticipantKept ==
  w.stage = "playing" =>
    \A id \in Ids : w.part[id] = "in" =>
      \/ \E s \in Slots : /\ w.client[s].conn /\ w.client[s].id = id
                          /\ w.client[s].play \/ Protected(w, s)
      \/ \E i \in Slots : /\ w.snap[i].valid /\ w.snap[i].id = id
                          /\ BelongsToMatch(w, i) /\ ~w.snap[i].settled

\* The owner of an automatic timeout is a reservation or the client who
\* claims it ("Raw client-slot pointers cannot remain an authority token
\* after the reservation that authenticated that lifetime is gone").
TimeoutOwned ==
  w.timeout.auto /\ w.timeout.ent # 0 =>
    \/ ReservedSlot(w, w.timeout.ent) \/ Protected(w, w.timeout.ent)

\* A connection that was rejected, or restarted by a frame, is never in the
\* level before the engine has called ClientBegin for it (changelog.md:15).
NeverSpawnsBeforeBegin ==
  \A s \in Slots : Active(w, s) /\ w.client[s].spawned => w.client[s].begun

\* A slot that keeps a reservation, stale or not, is only ever taken by the
\* identity it is kept for.
SlotNotStolen ==
  [][ \A s, i \in Slots :
        (/\ w.snap[i].valid /\ w.rec[i].ent = s
         /\ ~w.client[s].conn /\ w'.client[s].conn) =>
          w.snap[i].id = w'.client[s].id ]_w

Waiting(g, s) ==
  \E i \in Slots : /\ g.snap[i].valid /\ g.rec[i].ent = s
                    /\ g.snap[i].phase \in {"Reserved", "Claimed", "Reinstating"}

\* An automatic timeout ends before its time only because its owner's
\* reservation was resolved, by his return or by its end, or with the match:
\* nobody else's return resumes the game.
OwnerResumes ==
  [][ (/\ w.timeout.auto /\ Retained(w) /\ w.timeout.left > 1
       /\ ~Retained(w') /\ w'.stage = w.stage) =>
        w.timeout.ent # 0 /\ Waiting(w, w.timeout.ent) /\ ~Waiting(w', w.timeout.ent) ]_w

\* mm_ghost.h:115 says of the time between QueueIntermission and Match_End
\* "Keep reservations authoritative throughout that short handoff window."
KeptWhileQueued ==
  [][ w.stage = "queued" /\ w'.stage = "queued" =>
        \A i \in Slots : w.snap[i].valid => w'.snap[i].valid ]_w

\* mm_ghost.cpp:1661 says of a client staged for ClientBegin "ClientConnect
\* has completed, but the engine has not called ClientBegin."
StagedHasNotBegun ==
  \A s \in Slots :
    IndexFor(w, s, {"AwaitingBegin"}) # 0 \/ FallbackPending(w, s) => ~w.client[s].begun
=============================================================================
