------------------------------ MODULE GhostEnds -----------------------------
(***************************************************************************)
(* Proofs about reconnect reservations, for any slots, identities and      *)
(* durations.                                                              *)
(*                                                                         *)
(* A handler composes operators from one server to the next, so the        *)
(* invariant is stated of any server g, not of the variable w (Sound), and *)
(* there is a relation between servers for what ending reservations may do *)
(* (Ends), a preorder.  One lemma per operator says that it keeps a server *)
(* sound and what it ends; the lemma of a handler composes these, also     *)
(* through the folds over the slots.                                       *)
(***************************************************************************)
EXTENDS GhostProps, FiniteSetTheorems, WellFoundedInduction, TLAPS

-----------------------------------------------------------------------------
(* The invariant, of any server.                                            *)

\* A record of the table of ghosts.
Record == [ent : {0} \cup Slots, code : BOOLEAN]

\* The timeout.
Timeout == [left : Nat, ent : {0} \cup Slots, auto : BOOLEAN, resuming : BOOLEAN]

\* A snapshot,
Snap == {NoSnap} \cup Reservation

\* a handoff,
Fallback == {NoFallback} \cup Handoff

\* the statistics of a match
Part == [Ids -> {"out", "in", "settled"}]

\* and a server.
State ==
  [client : [Slots -> Client], rec : [Slots -> Record], snap : [Slots -> Snap],
   fall : [Slots -> Fallback], abort : SUBSET Slots, cursor : Slots,
   timeout : Timeout, item : 0..2, part : Part, stage : Stages,
   match : 0..MaxMatch, round : 0..MaxRound, world : 0..MaxRound]

\* Snapshot i is a reservation.
Valid(g, i) == g.snap[i].valid

\* The phases in which a reservation is bound to a connection.
Pending == {"Claimed", "Reinstating", "AwaitingBegin"}

\* A reservation has a slot; who is connected there is its identity; if it
\* is bound to a connection, to the one that is there now.
SnapOK(g, i) ==
  Valid(g, i) =>
    LET s == g.rec[i].ent
        c == g.client[s]
        x == g.snap[i]
    IN /\ s # 0 /\ c.ghost \in {0, i}
       /\ c.conn => c.id = x.id /\ x.phase # "Expiring"
       /\ ~c.conn => c.holder /\ x.phase \notin Pending
       /\ c.conn /\ x.phase = "Reserved" => c.begun /\ c.ghost = i /\ ~c.holder
       /\ x.phase \in Pending => x.target = s /\ x.gen = c.gen /\ s \notin g.abort
       /\ x.phase \in {"Claimed", "Reinstating"} => c.inuse
       /\ x.phase = "Reinstating" => c.begun

\* Nobody is in the level before ClientBegin; a slot that is kept free has
\* not used up its generations, and the record it owns a reservation.
ClientOK(g, s) ==
  LET c == g.client[s] IN
  /\ c.conn => c.id # None
  /\ c.begun => c.conn
  /\ c.limbo => c.begun
  /\ c.spawned /\ c.inuse /\ c.conn => c.begun
  /\ c.conn /\ (c.spawned \/ c.limbo) => ~c.holder
  /\ ~c.conn /\ c.holder => c.gen < MaxGen
  /\ ~c.conn /\ c.ghost # 0 /\ g.rec[c.ghost].ent = s => Valid(g, c.ghost)
  /\ s \in g.abort => c.conn /\ c.limbo /\ ~c.spawned

\* A handoff belongs to the connection in its slot, and replaces whatever
\* was bound to it.
FallOK(g, s) ==
  g.fall[s].valid =>
    /\ g.client[s].conn /\ g.fall[s].gen = g.client[s].gen /\ g.fall[s].id = g.client[s].id
    /\ s \notin g.abort
    /\ \A i \in Slots : Valid(g, i) /\ g.rec[i].ent = s => g.snap[i].phase \notin Pending

\* No two connections, no connection and a reservation elsewhere, and no two
\* reservations are of one identity; no two reservations are in one slot.
Apart(g) ==
  /\ \A s, t \in Slots :
       g.client[s].conn /\ g.client[t].conn /\ g.client[s].id = g.client[t].id => s = t
  /\ \A s, i \in Slots :
       g.client[s].conn /\ Valid(g, i) /\ g.snap[i].id = g.client[s].id => g.rec[i].ent = s
  /\ \A i, j \in Slots :
       Valid(g, i) /\ Valid(g, j) /\ (g.snap[i].id = g.snap[j].id \/ g.rec[i].ent = g.rec[j].ent)
         => i = j

\* The invariant without the timeout: also in the middle of a handler.
Settling(g) ==
  /\ g \in State
  /\ \A i \in Slots : SnapOK(g, i)
  /\ \A s \in Slots : ClientOK(g, s) /\ FallOK(g, s)
  /\ Apart(g)
  /\ g.world <= g.round

\* The owner of a timeout waits.
Owned(g) ==
  LET t == g.timeout IN
  t.ent # 0 => t.auto /\ ~t.resuming /\ t.left > 0 /\ Waiting(g, t.ent)

\* The invariant between the operators of a handler.
Sound(g) == Settling(g) /\ Owned(g)

\* During a match a reservation is of the match and has the record of its slot,
\* and unless it is handed off it is of the round and of the world.
Live(g) ==
  g.stage = "playing" => \A i \in Slots : Valid(g, i) =>
    /\ g.client[g.rec[i].ent].ghost = i
    /\ g.snap[i].match = g.match
    /\ g.snap[i].phase # "AwaitingBegin" =>
         /\ g.snap[i].round = g.round
         /\ g.snap[i].world = g.world

\* The owner of a timeout has not come back, unless to claim his state.
Absent(g) ==
  g.timeout.ent # 0 => \A i \in Slots :
    Valid(g, i) /\ g.rec[i].ent = g.timeout.ent /\ g.snap[i].phase = "Reserved" =>
      ~g.client[g.timeout.ent].conn

\* Who takes part has a reservation that nobody has settled, or is connected and
\* plays.
Reserves(g, id) == \E i \in Slots : Valid(g, i) /\ g.snap[i].id = id /\ ~g.snap[i].settled
Plays(g, id) ==
  \E s \in Slots : g.client[s].conn /\ g.client[s].id = id /\ g.client[s].play

Present(g, id) == g.part[id] = "in" => Plays(g, id) \/ Reserves(g, id)

\* So it is during a match.
Accounted(g) == g.stage = "playing" => \A id \in Ids : Present(g, id)

\* Whoever is connected and has a reservation does not play.
Rest(g) ==
  g.stage = "playing" => \A s, i \in Slots :
    Valid(g, i) /\ g.rec[i].ent = s /\ g.client[s].conn => ~g.client[s].play

\* The invariant between the steps.
IInv == Sound(w) /\ Live(w) /\ Absent(w) /\ Accounted(w) /\ Rest(w)

-----------------------------------------------------------------------------
(* What ending reservations does.                                           *)

\* Connections stay what they are, and no reservation appears or changes
\* hands.
Thins(g, h) ==
  /\ \A s \in Slots :
       /\ h.client[s].conn = g.client[s].conn
       /\ g.client[s].conn =>
            /\ h.client[s].id = g.client[s].id /\ h.client[s].gen = g.client[s].gen
            /\ h.client[s].begun = g.client[s].begun
  /\ \A i \in Slots : Valid(h, i) =>
       /\ Valid(g, i)
       /\ h.snap[i].id = g.snap[i].id /\ h.rec[i].ent = g.rec[i].ent
       /\ h.snap[i].match = g.snap[i].match /\ h.snap[i].round = g.snap[i].round
       /\ h.snap[i].world = g.snap[i].world
       /\ h.client[h.rec[i].ent].ghost = g.client[g.rec[i].ent].ghost
       /\ h.client[h.rec[i].ent].play => g.client[g.rec[i].ent].play
       /\ \/ h.snap[i].phase = g.snap[i].phase
          \/ h.snap[i].phase = "AwaitingBegin" /\ g.snap[i].phase = "Claimed"
          \/ h.snap[i].phase = "Expiring" /\ g.snap[i].phase = "Reserved"
  /\ h.stage = g.stage /\ h.match = g.match /\ h.round = g.round /\ h.world = g.world

\* A timeout that has an owner goes on, or ends with his reservation.
Keeps(g, h) ==
  \/ /\ h.timeout = g.timeout
     /\ g.timeout.ent # 0 /\ Waiting(g, g.timeout.ent) => Waiting(h, g.timeout.ent)
  \/ /\ g.timeout.ent # 0 /\ h.timeout.ent = 0
     /\ Waiting(g, g.timeout.ent) /\ ~Waiting(h, g.timeout.ent)

\* The match is on, and every reservation is of it.
Matched(g) == g.stage = "playing" /\ \A i \in Slots : Valid(g, i) => g.snap[i].match = g.match

\* No participant is lost.
Accounts(g, h) == Matched(g) => \A id \in Ids : Present(g, id) => Present(h, id)

\* What ends reservations, and with the last of his owner the timeout; his
\* result is settled.
Ends(g, h) == Thins(g, h) /\ Keeps(g, h) /\ Accounts(g, h)

\* Nobody takes part who has not before.
NoneEnters(g, h) == \A id \in Ids : h.part[id] = "in" => g.part[id] = "in"

\* It is enough to look at who plays and at the reservations,
LEMMA PresentMoves ==
  ASSUME NEW g, NEW h,
         \A id \in Ids : h.part[id] = "in" => g.part[id] = "in" \/ Plays(g, id),
         \A s \in Slots : Matched(g) /\ g.client[s].conn /\ g.client[s].play =>
           Present(h, g.client[s].id),
         \A i \in Slots : Matched(g) /\ Valid(g, i) /\ ~g.snap[i].settled =>
           Present(h, g.snap[i].id)
  PROVE  Accounts(g, h)
<1> SUFFICES ASSUME Matched(g), NEW id \in Ids, Present(g, id) PROVE Present(h, id)
  BY DEF Accounts
<1>1. CASE Plays(g, id)
  BY <1>1 DEF Plays
<1>2. CASE Reserves(g, id)
  BY <1>2 DEF Reserves
<1> QED BY <1>1, <1>2 DEF Present

\* and nobody where nobody moves.
LEMMA SameAccounts ==
  ASSUME NEW g, NEW h, h.part = g.part, h.client = g.client, h.snap = g.snap
  PROVE  Accounts(g, h)
BY DEF Accounts, Present, Plays, Reserves, Valid

\* Reservations of the match are still of it.
LEMMA ThinsMatched ==
  ASSUME NEW g, NEW h, Thins(g, h), Matched(g)
  PROVE  Matched(h)
BY DEF Thins, Matched

\* One after the other, steps that lose nobody do.
LEMMA AccountsTransitive ==
  ASSUME NEW g, NEW h, NEW k, Thins(g, h), Accounts(g, h), Accounts(h, k)
  PROVE  Accounts(g, k)
BY ThinsMatched DEF Accounts

\* Whoever waits has waited.
LEMMA ThinsWaiting ==
  ASSUME NEW g, NEW h, Thins(g, h), NEW s, Waiting(h, s)
  PROVE  Waiting(g, s)
<1>1. PICK i \in Slots : /\ h.snap[i].valid /\ h.rec[i].ent = s
                         /\ h.snap[i].phase \in {"Reserved", "Claimed", "Reinstating"}
  BY DEF Waiting
<1>2. QED BY <1>1 DEF Waiting, Thins, Valid

\* One after the other, steps that thin out the reservations do.
LEMMA ThinsTransitive ==
  ASSUME NEW g, NEW h, NEW k, Thins(g, h), Thins(h, k)
  PROVE  Thins(g, k)
BY DEF Thins

\* One after the other, steps that end reservations do, and the timeout goes on
\* or ends with its owner once.
LEMMA EndsTransitive ==
  ASSUME NEW g, NEW h, NEW k, Ends(g, h), Ends(h, k)
  PROVE  Ends(g, k)
<1>1. Thins(g, k)
  BY ThinsTransitive DEF Ends
<1>2. \A s : Waiting(h, s) => Waiting(g, s)
  BY ThinsWaiting DEF Ends
<1>3. \A s : Waiting(k, s) => Waiting(h, s)
  BY ThinsWaiting DEF Ends
<1>4. Keeps(g, k)
  BY <1>2, <1>3 DEF Ends, Keeps
<1>5. Accounts(g, k)
  BY AccountsTransitive DEF Ends
<1> QED BY <1>1, <1>4, <1>5 DEF Ends

\* What ending reservations keeps.
LEMMA EndsKeep ==
  ASSUME NEW g \in State, NEW h, Ends(g, h)
  PROVE  /\ Owned(g) => Owned(h)
         /\ Live(g) => Live(h)
         /\ Absent(g) /\ Owned(g) => Absent(h)
         /\ Live(g) /\ Accounted(g) => Accounted(h)
         /\ Rest(g) => Rest(h)
<1>1. Owned(g) => Owned(h)
  BY DEF Ends, Keeps, Owned
<1>2. Live(g) => Live(h)
  <2> SUFFICES ASSUME Live(g), h.stage = "playing", NEW i \in Slots, Valid(h, i)
      PROVE  /\ h.client[h.rec[i].ent].ghost = i
             /\ h.snap[i].match = h.match
             /\ h.snap[i].phase # "AwaitingBegin" =>
                 /\ h.snap[i].round = h.round
                 /\ h.snap[i].world = h.world
    BY DEF Live
  <2>1. g.rec[i].ent = h.rec[i].ent /\ Valid(g, i) /\ g.stage = "playing"
    BY DEF Ends, Thins
  <2>2. /\ g.client[g.rec[i].ent].ghost = i /\ g.snap[i].match = g.match
        /\ g.snap[i].phase # "AwaitingBegin" =>
             g.snap[i].round = g.round /\ g.snap[i].world = g.world
    BY <2>1 DEF Live
  <2> QED BY <2>2 DEF Ends, Thins
<1>3. Absent(g) /\ Owned(g) => Absent(h)
  <2> SUFFICES ASSUME Absent(g), h.timeout.ent # 0, NEW i \in Slots, Valid(h, i),
                      h.rec[i].ent = h.timeout.ent, h.snap[i].phase = "Reserved"
      PROVE  ~h.client[h.timeout.ent].conn
    BY DEF Absent
  <2>1. h.timeout = g.timeout
    BY DEF Ends, Keeps
  <2>2. /\ Valid(g, i) /\ g.rec[i].ent = g.timeout.ent /\ g.snap[i].phase = "Reserved"
    BY <2>1 DEF Ends, Thins
  <2>3. ~g.client[g.timeout.ent].conn
    BY <2>1, <2>2 DEF Absent
  <2>4. g.timeout.ent \in Slots
    BY <2>1 DEF State, Timeout
  <2> QED BY <2>1, <2>3, <2>4 DEF Ends, Thins
<1>4. Live(g) /\ Accounted(g) => Accounted(h)
  <2> SUFFICES ASSUME Live(g), Accounted(g), h.stage = "playing", NEW id \in Ids
      PROVE  Present(h, id)
    BY DEF Accounted
  <2>1. g.stage = "playing"
    BY DEF Ends, Thins
  <2>2. Matched(g) /\ Present(g, id)
    BY <2>1 DEF Live, Accounted, Matched
  <2> QED BY <2>2 DEF Ends, Accounts
<1>5. Rest(g) => Rest(h)
  <2> SUFFICES ASSUME Rest(g), h.stage = "playing", NEW s \in Slots, NEW i \in Slots,
                      Valid(h, i), h.rec[i].ent = s, h.client[s].conn, h.client[s].play
      PROVE  FALSE
    BY DEF Rest
  <2>1. /\ Valid(g, i) /\ g.rec[i].ent = s /\ g.stage = "playing"
        /\ g.client[s].play /\ g.client[s].conn
    BY DEF Ends, Thins
  <2> QED BY <2>1 DEF Rest
<1> QED BY <1>1, <1>2, <1>3, <1>4, <1>5

-----------------------------------------------------------------------------
(* Types.                                                                   *)

\* The types of the parts of a server,
LEMMA StateFields ==
  ASSUME NEW g \in State
  PROVE  /\ g.client \in [Slots -> Client] /\ g.rec \in [Slots -> Record]
         /\ g.snap \in [Slots -> Snap] /\ g.fall \in [Slots -> Fallback]
         /\ g.abort \subseteq Slots /\ g.cursor \in Slots /\ g.timeout \in Timeout
         /\ g.item \in 0..2 /\ g.part \in Part /\ g.stage \in Stages
         /\ g.match \in 0..MaxMatch /\ g.round \in 0..MaxRound /\ g.world \in 0..MaxRound
BY DEF State

\* of a client slot,
LEMMA ClientFields ==
  ASSUME NEW c \in Client
  PROVE  /\ c.id \in Ids \cup {None} /\ c.gen \in 1..MaxGen /\ c.ghost \in {0} \cup Slots
         /\ c.conn \in BOOLEAN /\ c.begun \in BOOLEAN /\ c.spawned \in BOOLEAN
         /\ c.limbo \in BOOLEAN /\ c.inuse \in BOOLEAN /\ c.play \in BOOLEAN
         /\ c.inactive \in BOOLEAN /\ c.holds \in BOOLEAN /\ c.holder \in BOOLEAN
BY DEF Client

\* A snapshot is empty or a reservation.
LEMMA SnapFields ==
  ASSUME NEW x \in Snap
  PROVE  /\ x.valid \in BOOLEAN
         /\ ~x.valid => x = NoSnap
         /\ x.valid => x \in Reservation
<1>1. NoSnap.valid = FALSE
  BY DEF NoSnap
<1>2. \A y \in Reservation : y.valid = TRUE
  BY DEF Reservation
<1> QED BY <1>1, <1>2 DEF Snap

\* of a reservation
LEMMA ReservationFields ==
  ASSUME NEW x \in Reservation
  PROVE  /\ x.valid /\ x.id \in Ids /\ x.match \in 0..MaxMatch /\ x.round \in 0..MaxRound
         /\ x.world \in 0..MaxRound /\ x.remaining \in 0..Rejoin /\ x.phase \in Phases
         /\ x.elapsed \in Nat /\ x.reinstate \in 0..Delay /\ x.target \in Slots
         /\ x.gen \in 0..MaxGen /\ x.holds \in BOOLEAN /\ x.released \in BOOLEAN
         /\ x.settled \in BOOLEAN
BY DEF Reservation

\* and of a handoff, which is empty or of a client.
LEMMA FallFields ==
  ASSUME NEW x \in Fallback
  PROVE  /\ x.valid \in BOOLEAN
         /\ ~x.valid => x = NoFallback
         /\ x.valid => x \in Handoff /\ x.id \in Ids /\ x.gen \in 1..MaxGen
                         /\ x.match \in 0..MaxMatch /\ x.fresh \in BOOLEAN
<1>1. NoFallback.valid = FALSE
  BY DEF NoFallback
<1>2. \A y \in Handoff : /\ y.valid = TRUE /\ y.id \in Ids /\ y.gen \in 1..MaxGen
                          /\ y.match \in 0..MaxMatch /\ y.fresh \in BOOLEAN
  BY DEF Handoff
<1> QED BY <1>1, <1>2 DEF Fallback

-----------------------------------------------------------------------------
(* Servers that are the same as far as the invariant goes.                  *)

\* The client d is c but for the match item, and may stop playing,
SameClient(c, d) ==
  /\ d.id = c.id /\ d.gen = c.gen /\ d.ghost = c.ghost
  /\ d.conn = c.conn /\ d.begun = c.begun /\ d.spawned = c.spawned
  /\ d.limbo = c.limbo /\ d.inuse = c.inuse /\ d.holder = c.holder
  /\ d.play => c.play

\* the snapshot y is x but for its clocks and for what it holds, and may be
\* settled,
SameSnap(x, y) ==
  /\ y.valid = x.valid
  /\ x.valid =>
       /\ x.settled => y.settled
       /\ y.id = x.id /\ y.phase = x.phase /\ y.target = x.target /\ y.gen = x.gen
       /\ y.match = x.match /\ y.round = x.round /\ y.world = x.world

\* the server h is g but for these, the items and the statistics,
Resembles(g, h) ==
  /\ \A s \in Slots : SameClient(g.client[s], h.client[s])
  /\ \A i \in Slots : h.rec[i].ent = g.rec[i].ent /\ SameSnap(g.snap[i], h.snap[i])
  /\ h.fall = g.fall /\ h.abort = g.abort /\ h.timeout = g.timeout
  /\ h.stage = g.stage /\ h.match = g.match /\ h.round = g.round /\ h.world = g.world

\* and loses nobody.
Alike(g, h) == Resembles(g, h) /\ Accounts(g, h)

\* The same clients wait,
LEMMA AlikeWaiting ==
  ASSUME NEW g \in State, NEW h, Alike(g, h), NEW s
  PROVE  Waiting(h, s) <=> Waiting(g, s)
BY DEF Alike, Resembles, SameSnap, Waiting

\* the relation is transitive,
LEMMA AlikeTransitive ==
  ASSUME NEW g, NEW h, NEW k, Alike(g, h), Alike(h, k)
  PROVE  Alike(g, k)
<1>1. Accounts(g, k)
  <2>1. Matched(g) => Matched(h)
    BY DEF Alike, Resembles, SameSnap, Matched, Valid
  <2> QED BY <2>1 DEF Alike, Resembles, Accounts
<1> QED BY <1>1 DEF Alike, Resembles, SameClient, SameSnap

\* reservations are of the match,
LEMMA AlikeMatched ==
  ASSUME NEW g, NEW h, Alike(g, h)
  PROVE  Matched(h) <=> Matched(g)
BY DEF Alike, Resembles, SameSnap, Matched, Valid

\* nothing is ended,
LEMMA ResemblesThins ==
  ASSUME NEW g \in State, \A i \in Slots : SnapOK(g, i), NEW h \in State, Resembles(g, h)
  PROVE  Thins(g, h)
<1>1. \A i \in Slots : g.rec[i].ent \in {0} \cup Slots
  BY DEF State, Record
<1>2. ASSUME NEW i \in Slots, Valid(h, i)
      PROVE  /\ Valid(g, i)
             /\ h.snap[i].id = g.snap[i].id /\ h.rec[i].ent = g.rec[i].ent
             /\ h.snap[i].match = g.snap[i].match /\ h.snap[i].round = g.snap[i].round
             /\ h.snap[i].world = g.snap[i].world
             /\ h.client[h.rec[i].ent].ghost = g.client[g.rec[i].ent].ghost
             /\ h.client[h.rec[i].ent].play => g.client[g.rec[i].ent].play
             /\ h.snap[i].phase = g.snap[i].phase
  <2>1. Valid(g, i) /\ h.rec[i].ent = g.rec[i].ent
    BY <1>2 DEF Resembles, SameSnap, Valid
  <2>2. g.rec[i].ent \in Slots
    BY <1>1, <2>1 DEF SnapOK
  <2> QED BY <2>1, <2>2 DEF Resembles, SameSnap, SameClient, Valid
<1> QED BY <1>2 DEF Thins, Resembles, SameClient

\* the invariant is kept
LEMMA ResemblesSettling ==
  ASSUME NEW g, Settling(g), NEW h \in State, Resembles(g, h)
  PROVE  Settling(h)
<1>0. g \in State
  BY DEF Settling
<1>1. \A i \in Slots : g.rec[i].ent \in {0} \cup Slots
  BY <1>0 DEF State, Record
<1>2. \A i \in Slots : Valid(h, i) = Valid(g, i) /\ h.rec[i].ent = g.rec[i].ent
  BY DEF Resembles, SameSnap, Valid
<1>3. ASSUME NEW i \in Slots PROVE SnapOK(h, i)
  <2> SUFFICES ASSUME Valid(h, i) PROVE SnapOK(h, i)
    BY DEF SnapOK
  <2>1. SnapOK(g, i) /\ Valid(g, i) /\ g.rec[i].ent \in Slots
    BY <1>1, <1>2 DEF Settling, SnapOK
  <2>2. SameClient(g.client[g.rec[i].ent], h.client[h.rec[i].ent])
    BY <1>2, <2>1 DEF Resembles
  <2>3. SameSnap(g.snap[i], h.snap[i]) /\ h.abort = g.abort /\ g.snap[i].valid
    BY <2>1 DEF Resembles, Valid
  <2> QED BY <1>2, <2>1, <2>2, <2>3 DEF SnapOK, SameClient, SameSnap
<1>4. ASSUME NEW s \in Slots PROVE ClientOK(h, s)
  <2>1. ClientOK(g, s) /\ SameClient(g.client[s], h.client[s]) /\ h.abort = g.abort
    BY DEF Settling, Resembles
  <2>2. g.client[s].ghost \in {0} \cup Slots
    BY <1>0 DEF State, Client
  <2> QED BY <1>2, <2>1, <2>2 DEF ClientOK, SameClient
<1>5. ASSUME NEW s \in Slots PROVE FallOK(h, s)
  <2>1. FallOK(g, s) /\ SameClient(g.client[s], h.client[s]) /\ h.abort = g.abort
        /\ h.fall = g.fall
    BY DEF Settling, Resembles
  <2>2. \A i \in Slots : Valid(h, i) => h.snap[i].phase = g.snap[i].phase
    BY DEF Resembles, SameSnap, Valid
  <2> QED BY <1>2, <2>1, <2>2 DEF FallOK, SameClient
<1>6. Apart(h)
  <2>1. Apart(g)
    BY DEF Settling
  <2>2. \A i \in Slots : Valid(h, i) => h.snap[i].id = g.snap[i].id
    BY DEF Resembles, SameSnap, Valid
  <2>3. \A s \in Slots : h.client[s].conn = g.client[s].conn /\ h.client[s].id = g.client[s].id
    BY DEF Resembles, SameClient
  <2> QED BY <1>2, <2>1, <2>2, <2>3 DEF Apart
<1>7. h.world <= h.round
  BY DEF Settling, Resembles
<1> QED BY <1>3, <1>4, <1>5, <1>6, <1>7 DEF Settling

\* What the invariant does not speak of may change.
LEMMA AlikeSound ==
  ASSUME NEW g, Settling(g), NEW h \in State, Alike(g, h)
  PROVE  Settling(h) /\ Ends(g, h) /\ (Sound(g) => Sound(h))
<1>1. Settling(h) /\ Thins(g, h)
  BY ResemblesSettling, ResemblesThins DEF Alike, Settling
<1>2. Keeps(g, h)
  BY AlikeWaiting DEF Keeps, Alike, Resembles, Settling
<1>3. Ends(g, h)
  BY <1>1, <1>2 DEF Ends, Alike, Resembles
<1> QED BY <1>1, <1>3, EndsKeep DEF Sound, Settling

\* and a server is like itself.
LEMMA AlikeReflexive ==
  ASSUME NEW g
  PROVE  Alike(g, g)
BY SameAccounts DEF Alike, Resembles, SameClient, SameSnap

-----------------------------------------------------------------------------
(* Items, statistics.                                                       *)

\* The match item is not the invariant's,
LEMMA ReturnItemAlike ==
  ASSUME NEW g \in State
  PROVE  LET h == ReturnItem(g) IN
         /\ h \in State /\ Alike(g, h)
         /\ h.client = g.client /\ h.snap = g.snap /\ h.rec = g.rec /\ h.part = g.part
<1> DEFINE n == IF Kind = "flag" THEN 1 ELSE IF g.item < 2 THEN g.item + 1 ELSE 2
           h == [g EXCEPT !.item = n]
<1>1. n \in 0..2
  BY StateFields
<1> HIDE DEF n
<1>2. h \in State /\ h.part = g.part /\ h.client = g.client /\ h.snap = g.snap /\ h.rec = g.rec
  BY <1>1 DEF State
<1>3. Accounts(g, h)
  BY <1>2, SameAccounts
<1>4. Alike(g, h)
  BY <1>3 DEF State, Alike, Resembles, SameClient, SameSnap
<1> QED BY <1>2, <1>4 DEF ReturnItem, n

\* nor are the statistics of a match,
LEMMA PartAlike ==
  ASSUME NEW g \in State, NEW p \in Part,
         \A id \in Ids : p[id] = "in" => g.part[id] = "in" \/ Plays(g, id)
  PROVE  [g EXCEPT !.part = p] \in State /\ Alike(g, [g EXCEPT !.part = p])
<1> DEFINE h == [g EXCEPT !.part = p]
<1>1. h \in State /\ h.part = p /\ h.client = g.client /\ h.snap = g.snap
  BY DEF State
<1>2. Accounts(g, h)
  BY <1>1 DEF Accounts, Present, Plays, Reserves, Valid
<1>3. Alike(g, h)
  BY <1>2 DEF State, Alike, Resembles, SameClient, SameSnap
<1> QED BY <1>1, <1>3

\* a result that is settled,
LEMMA SettleAlike ==
  ASSUME NEW g \in State, NEW id
  PROVE  LET h == Settle(g, id) IN
         /\ h \in State /\ Alike(g, h)
         /\ h.client = g.client /\ h.snap = g.snap /\ h.rec = g.rec /\ NoneEnters(g, h)
         /\ Matched(g) /\ id \in Ids => h.part[id] # "in"
<1> DEFINE p == [g.part EXCEPT ![id] = "settled"]
<1>1. p \in Part /\ \A x \in Ids : p[x] = "in" => g.part[x] = "in"
  BY StateFields DEF Part
<1>2. id \in Ids => p[id] = "settled" /\ id # None
  BY StateFields, GhostAssumption DEF Part
<1> HIDE DEF p
<1>3. [g EXCEPT !.part = p] \in State /\ Alike(g, [g EXCEPT !.part = p])
  BY <1>1, PartAlike
<1>4. Settle(g, id) = IF id # None /\ Open(g) /\ g.part[id] = "in" THEN [g EXCEPT !.part = p] ELSE g
  BY DEF Settle, p
<1>5. /\ [g EXCEPT !.part = p].client = g.client /\ [g EXCEPT !.part = p].snap = g.snap
      /\ [g EXCEPT !.part = p].rec = g.rec /\ [g EXCEPT !.part = p].part = p
  BY DEF State
<1> QED BY <1>1, <1>2, <1>3, <1>4, <1>5, AlikeReflexive DEF Matched, Open, NoneEnters

\* a participant who enters and plays,
LEMMA EnterAlike ==
  ASSUME NEW g \in State, NEW id, Plays(g, id)
  PROVE  Enter(g, id) \in State /\ Alike(g, Enter(g, id))
<1> DEFINE p == [g.part EXCEPT ![id] = "in"]
<1>1. p \in Part /\ \A x \in Ids : p[x] = "in" => g.part[x] = "in" \/ x = id
  BY StateFields DEF Part
<1> HIDE DEF p
<1>2. [g EXCEPT !.part = p] \in State /\ Alike(g, [g EXCEPT !.part = p])
  BY <1>1, PartAlike
<1> QED BY <1>2, AlikeReflexive DEF Enter, p

\* A snapshot may change in what the invariant does not speak of, and be settled
\* when its identity is.
LEMMA SnapAlike ==
  ASSUME NEW g \in State, NEW i \in Slots, NEW x \in Snap, SameSnap(g.snap[i], x),
         Matched(g) /\ Valid(g, i) /\ x.settled =>
           g.snap[i].settled \/ g.part[g.snap[i].id] # "in"
  PROVE  /\ [g EXCEPT !.snap[i] = x] \in State
         /\ Alike(g, [g EXCEPT !.snap[i] = x])
<1>1. /\ g.snap \in [Slots -> Snap]
      /\ [g.snap EXCEPT ![i] = x] \in [Slots -> Snap]
  BY StateFields
<1>2. \A j \in Slots : SameSnap(g.snap[j], [g.snap EXCEPT ![i] = x][j])
  BY <1>1 DEF SameSnap
<1> DEFINE h == [g EXCEPT !.snap[i] = x]
<1>3. /\ h \in State /\ h.part = g.part /\ h.client = g.client
      /\ h.snap[i] = x /\ \A j \in Slots \ {i} : h.snap[j] = g.snap[j]
  BY <1>1 DEF State
<1>4. Accounts(g, h)
  <2> HIDE DEF h
  <2>1. ASSUME NEW s \in Slots, g.client[s].conn, g.client[s].play
        PROVE  Present(h, g.client[s].id)
    BY <1>3, <2>1 DEF Present, Plays
  <2>2. ASSUME NEW j \in Slots, Matched(g), Valid(g, j), ~g.snap[j].settled
        PROVE  Present(h, g.snap[j].id)
    <3>1. Valid(h, j) /\ h.snap[j].id = g.snap[j].id
      BY <1>3, <2>2 DEF Valid, SameSnap
    <3>2. h.snap[j].settled => h.part[g.snap[j].id] # "in"
      BY <1>3, <2>2
    <3> QED BY <3>1, <3>2 DEF Present, Reserves
  <2> QED BY <1>3, <2>1, <2>2, PresentMoves
<1> HIDE DEF SameSnap
<1> QED BY <1>1, <1>2, <1>3, <1>4 DEF State, Alike, Resembles, SameClient

\* So may a client, who goes on playing or need not.
LEMMA ClientAlike ==
  ASSUME NEW g \in State, NEW s \in Slots, NEW c \in Client, SameClient(g.client[s], c),
         Matched(g) /\ g.client[s].conn /\ g.client[s].play /\ ~c.play =>
           g.part[g.client[s].id] # "in" \/ Reserves(g, g.client[s].id)
  PROVE  /\ [g EXCEPT !.client[s] = c] \in State
         /\ Alike(g, [g EXCEPT !.client[s] = c])
<1>1. /\ g.client \in [Slots -> Client]
      /\ [g.client EXCEPT ![s] = c] \in [Slots -> Client]
  BY StateFields
<1>2. \A t \in Slots : SameClient(g.client[t], [g.client EXCEPT ![s] = c][t])
  BY <1>1 DEF SameClient
<1> DEFINE h == [g EXCEPT !.client[s] = c]
<1>3. /\ h \in State /\ h.part = g.part /\ h.snap = g.snap
      /\ h.client[s] = c /\ \A t \in Slots \ {s} : h.client[t] = g.client[t]
  BY <1>1 DEF State
<1>4. Accounts(g, h)
  <2> HIDE DEF h
  <2>1. ASSUME NEW t \in Slots, Matched(g), g.client[t].conn, g.client[t].play
        PROVE  Present(h, g.client[t].id)
    <3>1. CASE h.client[t].play
      BY <1>3, <2>1, <3>1 DEF Present, Plays, SameClient
    <3>2. CASE ~h.client[t].play
      BY <1>3, <2>1, <3>2 DEF Present, Reserves, Valid
    <3> QED BY <3>1, <3>2
  <2>2. ASSUME NEW j \in Slots, Valid(g, j), ~g.snap[j].settled
        PROVE  Present(h, g.snap[j].id)
    BY <1>3, <2>2 DEF Present, Reserves, Valid
  <2> QED BY <1>3, <2>1, <2>2, PresentMoves
<1> QED BY <1>1, <1>2, <1>3, <1>4 DEF State, Alike, Resembles, SameSnap

\* Settling the departure of a reservation,
LEMMA SettleSnapAlike ==
  ASSUME NEW g \in State, NEW i \in Slots
  PROVE  LET h == SettleSnap(g, i) IN
         /\ h \in State /\ Alike(g, h)
         /\ h.client = g.client /\ h.rec = g.rec /\ NoneEnters(g, h)
         /\ Valid(g, i) => h.snap[i].settled
<1>1. CASE ~g.snap[i].valid \/ g.snap[i].settled
  BY <1>1, AlikeReflexive DEF SettleSnap, Valid, NoneEnters
<1>2. CASE ~(~g.snap[i].valid \/ g.snap[i].settled)
  <2> DEFINE x == [g.snap[i] EXCEPT !.settled = TRUE]
             k == IF BelongsToMatch(g, i) THEN Settle(g, g.snap[i].id) ELSE g
             h == [k EXCEPT !.snap[i] = x]
  <2>1. g.snap[i] \in Reservation
    BY <1>2, StateFields, SnapFields
  <2>2. x \in Snap /\ SameSnap(g.snap[i], x) /\ x.settled
    BY <2>1 DEF Snap, Reservation, SameSnap
  <2>3. g.snap[i].id \in Ids
    BY <2>1, ReservationFields
  <2> HIDE DEF x
  <2>4. /\ k \in State /\ Alike(g, k) /\ k.client = g.client /\ k.snap = g.snap /\ k.rec = g.rec
        /\ NoneEnters(g, k)
        /\ BelongsToMatch(g, i) /\ Matched(g) => k.part[g.snap[i].id] # "in"
    BY <2>3, SettleAlike, AlikeReflexive DEF NoneEnters
  <2>5. SettleSnap(g, i) = h
    <3> DEFINE id == g.snap[i].id
               p == [g.part EXCEPT ![id] = "settled"]
               y == [g.snap EXCEPT ![i] = x]
               does == BelongsToMatch(g, i) /\ id # None /\ Open(g) /\ g.part[id] = "in"
    <3>1. CASE does
      <4>1. k = [g EXCEPT !.part = p]
        BY <3>1 DEF Settle
      <4>2. SettleSnap(g, i) = [[g EXCEPT !.snap = y] EXCEPT !.part = p]
        BY <1>2, <3>1 DEF SettleSnap, Settle, x, Open
      <4>3. h = [[g EXCEPT !.part = p] EXCEPT !.snap = y]
        BY <4>1
      <4> HIDE DEF p, y
      <4> QED BY <4>2, <4>3 DEF State
    <3>2. CASE ~does
      <4> DEFINE q == [g EXCEPT !.snap[i] = x]
      <4>1. k = g
        BY <3>2 DEF Settle
      <4>2. q.stage = g.stage /\ q.part = g.part
        BY DEF State
      <4>3. SettleSnap(g, i) = IF BelongsToMatch(g, i) THEN Settle(q, id) ELSE q
        BY <1>2 DEF SettleSnap, x
      <4> HIDE DEF q
      <4>4. SettleSnap(g, i) = q
        BY <3>2, <4>2, <4>3 DEF Settle, Open
      <4> QED BY <4>1, <4>4 DEF q
    <3> QED BY <3>1, <3>2
  <2> HIDE DEF k
  <2>6. Matched(k) => Matched(g) /\ (Valid(g, i) => BelongsToMatch(g, i))
    BY <2>4 DEF Alike, Resembles, Matched, Valid, BelongsToMatch
  <2>7. h \in State /\ Alike(k, h)
    BY <2>2, <2>4, <2>6, SnapAlike DEF Valid
  <2>8. Alike(g, h) /\ h.client = g.client /\ h.rec = g.rec /\ h.snap[i] = x /\ h.part = k.part
    BY <2>4, <2>7, AlikeTransitive, StateFields DEF State
  <2> HIDE DEF h
  <2> QED BY <2>2, <2>4, <2>5, <2>7, <2>8 DEF NoneEnters
<1> QED BY <1>1, <1>2

\* releasing the item it keeps
LEMMA ReleaseAlike ==
  ASSUME NEW g \in State, NEW i \in Slots
  PROVE  Release(g, i) \in State /\ Alike(g, Release(g, i)) /\ Release(g, i).part = g.part
BY ReturnItemAlike, AlikeReflexive DEF Release

\* and tossing the item of a client are not the invariant's.
LEMMA TossAlike ==
  ASSUME NEW g \in State, NEW s \in Slots
  PROVE  LET h == Toss(g, s) IN
         /\ h \in State /\ Alike(g, h)
         /\ h.snap = g.snap /\ h.rec = g.rec /\ h.part = g.part
<1> DEFINE h == ReturnItem(g)
           c == [h.client[s] EXCEPT !.holds = FALSE]
<1>1. h \in State /\ Alike(g, h) /\ h.snap = g.snap /\ h.rec = g.rec /\ h.part = g.part
  BY ReturnItemAlike
<1> HIDE DEF h
<1>2. h.client[s] \in Client
  BY <1>1, StateFields
<1>3. c \in Client /\ SameClient(h.client[s], c) /\ c.play = h.client[s].play
  BY <1>2 DEF Client, SameClient
<1>4. Toss(g, s) = IF g.client[s].holds THEN [h EXCEPT !.client[s] = c] ELSE g
  BY DEF Toss, h
<1> HIDE DEF c
<1>5. [h EXCEPT !.client[s] = c] \in State /\ Alike(h, [h EXCEPT !.client[s] = c])
  BY <1>1, <1>3, ClientAlike
<1>6. /\ [h EXCEPT !.client[s] = c].snap = h.snap
      /\ [h EXCEPT !.client[s] = c].rec = h.rec
      /\ [h EXCEPT !.client[s] = c].part = h.part
  BY <1>1 DEF State
<1> QED BY <1>1, <1>4, <1>5, <1>6, AlikeTransitive, AlikeReflexive

\* Holding nothing is a change of clients and snapshots.
LEMMA DropFlagsAlike ==
  ASSUME NEW g \in State, NEW which
  PROVE  LET h == DropFlags(g, which) IN
         /\ h \in State /\ Alike(g, h) /\ h.part = g.part
         /\ \A i \in Slots : Valid(g, i) => h.snap[i].settled = g.snap[i].settled
<1> DEFINE held == {i \in which : g.snap[i].valid /\ g.snap[i].holds}
           h == ReturnItem(g)
           sn == [i \in Slots |-> IF i \in held THEN [h.snap[i] EXCEPT !.holds = FALSE]
                                               ELSE h.snap[i]]
           cl == [s \in Slots |-> IF \E i \in held : g.rec[i].ent = s
                                  THEN [h.client[s] EXCEPT !.holds = FALSE] ELSE h.client[s]]
           k == [h EXCEPT !.snap = sn, !.client = cl]
<1>1. h \in State /\ Alike(g, h) /\ h.snap = g.snap /\ h.part = g.part
  BY ReturnItemAlike
<1>2. DropFlags(g, which) = IF Kind # "flag" \/ held = {} THEN g ELSE k
  BY DEF DropFlags
<1>3. \A i \in Slots : i \in held => g.snap[i].valid /\ h.snap[i].valid
  BY <1>1 DEF Alike, Resembles, SameSnap
<1> HIDE DEF h, held
<1>4. ASSUME NEW i \in Slots
      PROVE  /\ sn[i] \in Snap /\ SameSnap(h.snap[i], sn[i])
             /\ h.snap[i].valid => sn[i].settled = h.snap[i].settled
  <2>1. h.snap[i] \in Snap
    BY <1>1, StateFields
  <2>2. CASE i \in held
    <3>1. h.snap[i] \in Reservation
      BY <1>3, <2>1, <2>2, SnapFields
    <3>2. sn[i] = [h.snap[i] EXCEPT !.holds = FALSE]
      BY <2>2
    <3> QED BY <3>1, <3>2 DEF Snap, Reservation, SameSnap
  <2>3. CASE i \notin held
    BY <2>1, <2>3 DEF SameSnap
  <2> QED BY <2>2, <2>3
<1>5. ASSUME NEW s \in Slots
      PROVE  cl[s] \in Client /\ SameClient(h.client[s], cl[s]) /\ cl[s].play = h.client[s].play
  <2>1. h.client[s] \in Client
    BY <1>1, StateFields
  <2>2. cl[s] = h.client[s] \/ cl[s] = [h.client[s] EXCEPT !.holds = FALSE]
    OBVIOUS
  <2> HIDE DEF cl
  <2> QED BY <2>1, <2>2 DEF Client, SameClient
<1>6. sn \in [Slots -> Snap] /\ cl \in [Slots -> Client]
  BY <1>4, <1>5
<1> HIDE DEF sn, cl
<1>7. k \in State /\ k.part = h.part /\ k.snap = sn /\ k.client = cl
  BY <1>1, <1>6 DEF State
<1>8. Accounts(h, k)
  <2> HIDE DEF k
  <2>1. ASSUME NEW s \in Slots, h.client[s].conn, h.client[s].play
        PROVE  Present(k, h.client[s].id)
    BY <1>5, <1>7, <2>1 DEF Present, Plays, SameClient
  <2>2. ASSUME NEW i \in Slots, Valid(h, i), ~h.snap[i].settled
        PROVE  Present(k, h.snap[i].id)
    BY <1>4, <1>7, <2>2 DEF Present, Reserves, SameSnap, Valid
  <2> QED BY <1>7, <2>1, <2>2, PresentMoves
<1>9. Alike(h, k)
  BY <1>1, <1>4, <1>5, <1>6, <1>8 DEF State, Alike, Resembles
<1>10. \A i \in Slots : Valid(g, i) => k.snap[i].settled = g.snap[i].settled
  BY <1>1, <1>4, <1>7 DEF Valid
<1> QED BY <1>1, <1>2, <1>7, <1>9, <1>10, AlikeTransitive, AlikeReflexive

-----------------------------------------------------------------------------
(* The timeout.                                                             *)

\* The same but for the timeout.
Same(g, h) ==
  /\ Accounts(g, h) /\ NoneEnters(g, h)
  /\ \A s \in Slots : SameClient(g.client[s], h.client[s])
  /\ \A i \in Slots : h.rec[i].ent = g.rec[i].ent /\ SameSnap(g.snap[i], h.snap[i])
  /\ h.fall = g.fall /\ h.abort = g.abort
  /\ h.stage = g.stage /\ h.match = g.match /\ h.round = g.round /\ h.world = g.world

\* A change of the timeout alone.
LEMMA TimeoutPut ==
  ASSUME NEW g, Settling(g), NEW h \in State, NEW t \in Timeout,
         Alike([g EXCEPT !.timeout = t], h), NoneEnters(g, h)
  PROVE  /\ Settling(h) /\ Thins(g, h) /\ Same(g, h) /\ h.timeout = t
         /\ \A s : Waiting(h, s) <=> Waiting(g, s)
<1> DEFINE k == [g EXCEPT !.timeout = t]
<1>1. g \in State /\ k \in State
  BY DEF Settling, State
<1>2. /\ k.client = g.client /\ k.snap = g.snap /\ k.rec = g.rec /\ k.fall = g.fall
      /\ k.abort = g.abort /\ k.stage = g.stage /\ k.match = g.match /\ k.round = g.round
      /\ k.world = g.world /\ k.timeout = t /\ k.part = g.part
  BY <1>1 DEF State
<1> HIDE DEF k
<1>3. Settling(k)
  <2>1. \A i \in Slots : SnapOK(k, i)
    BY <1>1, <1>2 DEF Settling, SnapOK, Valid
  <2>2. \A s \in Slots : ClientOK(k, s) /\ FallOK(k, s)
    <3>1. \A s \in Slots : ClientOK(k, s)
      BY <1>1, <1>2 DEF Settling, ClientOK, Valid
    <3>2. \A s \in Slots : FallOK(k, s)
      BY <1>1, <1>2 DEF Settling, FallOK, Valid
    <3> QED BY <3>1, <3>2
  <2>3. Apart(k) /\ k.world <= k.round
    BY <1>1, <1>2 DEF Settling, Apart, Valid
  <2> QED BY <1>1, <2>1, <2>2, <2>3 DEF Settling
<1>4. Thins(g, k) /\ \A s : Waiting(k, s) <=> Waiting(g, s)
  BY <1>2 DEF Thins, Valid, Waiting
<1>5. Alike(k, h)
  BY DEF k
<1>6. Settling(h) /\ Thins(k, h) /\ \A s : Waiting(h, s) <=> Waiting(k, s)
  BY <1>1, <1>3, <1>5, AlikeSound, AlikeWaiting DEF Ends
<1>7. h.timeout = t
  BY <1>2, <1>5 DEF Alike, Resembles
<1>8. Same(g, h)
  <2>1. Accounts(g, k) /\ Thins(g, k)
    BY <1>2, <1>4, SameAccounts
  <2>2. Accounts(g, h)
    BY <1>5, <2>1, AccountsTransitive DEF Alike, Resembles
  <2> QED BY <1>2, <1>5, <2>2 DEF Alike, Resembles, Same
<1> QED BY <1>4, <1>6, <1>7, <1>8, ThinsTransitive

\* Ending a timeout takes it from its owner.
LEMMA TimeoutEndFacts ==
  ASSUME NEW g, Settling(g)
  PROVE  LET h == TimeoutEnd(g) IN
         /\ Settling(h) /\ Thins(g, h) /\ Same(g, h) /\ h.timeout.ent = 0
         /\ \A s : Waiting(h, s) <=> Waiting(g, s)
<1> DEFINE k == IF g.timeout.resuming THEN g ELSE DropFlags(g, {i \in Slots : Current(g, i)})
           t == IF g.timeout.resuming \/ Resume = 0 THEN NoTimeout
                ELSE [g.timeout EXCEPT !.left = Resume, !.ent = 0, !.resuming = TRUE]
           h == [k EXCEPT !.timeout = t]
<1>1. g \in State /\ k \in State /\ Alike(g, k) /\ k.part = g.part
  BY DropFlagsAlike, AlikeReflexive DEF Settling
<1>2. g.timeout \in Timeout /\ Resume \in Nat
  BY <1>1, StateFields, GhostAssumption
<1>3. t \in Timeout /\ t.ent = 0
  BY <1>2 DEF Timeout, NoTimeout
<1>4. TimeoutEnd(g) = h
  <2>1. k.timeout = g.timeout
    BY <1>1 DEF Alike, Resembles
  <2>2. CASE g.timeout.resuming \/ Resume = 0
    BY <2>2 DEF TimeoutEnd
  <2>3. CASE ~(g.timeout.resuming \/ Resume = 0)
    BY <2>1, <2>3 DEF TimeoutEnd
  <2> QED BY <2>2, <2>3
<1> HIDE DEF k, t
<1>5. h \in State /\ Alike([g EXCEPT !.timeout = t], h) /\ NoneEnters(g, h)
  <2>1. h \in State /\ [g EXCEPT !.timeout = t] \in State
    BY <1>1, <1>3 DEF State
  <2> DEFINE q == [g EXCEPT !.timeout = t]
  <2>2. /\ h.client = k.client /\ h.snap = k.snap /\ h.part = k.part
        /\ q.client = g.client /\ q.snap = g.snap /\ q.part = g.part /\ q.stage = g.stage
        /\ q.match = g.match
    BY <1>1 DEF State
  <2>3. Accounts(q, h)
    BY <1>1, <2>2 DEF Alike, Resembles, Accounts, Matched, Present, Plays, Reserves, Valid
  <2>4. NoneEnters(g, h)
    BY <1>1, <2>2 DEF NoneEnters
  <2> QED BY <1>1, <2>1, <2>3, <2>4 DEF State, Alike, Resembles
<1> QED BY <1>3, <1>4, <1>5, TimeoutPut

-----------------------------------------------------------------------------
(* Changes of one slot and one reservation.                                 *)

\* The servers differ at most in slot s and in reservation i, and no other
\* reservation is of that slot.
Near(g, h, s, i) ==
  /\ \A t \in Slots \ {s} : /\ h.client[t] = g.client[t] /\ h.fall[t] = g.fall[t]
                            /\ t \in h.abort <=> t \in g.abort
  /\ \A j \in Slots \ {i} : /\ h.snap[j] = g.snap[j] /\ h.rec[j].ent = g.rec[j].ent
                            /\ Valid(g, j) => g.rec[j].ent # s

\* What the rest keeps, only the slot and the reservation have to be looked at.
LEMMA Local ==
  ASSUME NEW g, Settling(g), NEW h \in State, NEW s, NEW i, Near(g, h, s, i),
         s \in Slots => ClientOK(h, s) /\ FallOK(h, s),
         i \in Slots => SnapOK(h, i) /\ (Valid(h, i) => h.rec[i].ent = s),
         \A t \in Slots \ {s} : i \in Slots /\ g.client[t].ghost = i => h.rec[i].ent # t,
         Apart(h), h.world <= h.round
  PROVE  Settling(h)
<1>0. g \in State /\ \A j \in Slots : SnapOK(g, j)
  BY DEF Settling
<1>1. ASSUME NEW j \in Slots PROVE SnapOK(h, j)
  <2>1. CASE j = i
    BY <2>1
  <2>2. CASE j # i
    <3> SUFFICES ASSUME Valid(h, j) PROVE SnapOK(h, j)
      BY DEF SnapOK
    <3>1. h.snap[j] = g.snap[j] /\ h.rec[j].ent = g.rec[j].ent
      BY <2>2 DEF Near
    <3>2. Valid(g, j) /\ SnapOK(g, j)
      BY <1>0, <3>1 DEF Valid
    <3>3. g.rec[j].ent \in Slots \ {s}
      <4>1. g.rec[j].ent \in {0} \cup Slots
        BY <1>0, StateFields DEF Record
      <4> QED BY <2>2, <3>2, <4>1 DEF Near, SnapOK
    <3>4. LET t == g.rec[j].ent IN h.client[t] = g.client[t] /\ (t \in h.abort <=> t \in g.abort)
      BY <3>3 DEF Near
    <3> QED BY <3>1, <3>2, <3>4 DEF SnapOK
  <2> QED BY <2>1, <2>2
<1>2. ASSUME NEW t \in Slots PROVE ClientOK(h, t)
  <2>1. CASE t = s
    BY <2>1
  <2>2. CASE t # s
    <3>1. h.client[t] = g.client[t] /\ (t \in h.abort <=> t \in g.abort) /\ ClientOK(g, t)
      BY <2>2 DEF Near, Settling
    <3>2. g.client[t].ghost \in {0} \cup Slots
      BY <1>0, StateFields, ClientFields
    <3>3. ASSUME ~h.client[t].conn, h.client[t].ghost # 0, h.rec[h.client[t].ghost].ent = t
          PROVE  Valid(h, h.client[t].ghost)
      <4> DEFINE j == h.client[t].ghost
      <4>1. j \in Slots /\ j = g.client[t].ghost
        BY <3>1, <3>2, <3>3
      <4>2. j # i
        BY <2>2, <3>3, <4>1
      <4>3. g.rec[j].ent = t /\ h.snap[j] = g.snap[j]
        BY <3>3, <4>1, <4>2 DEF Near
      <4>4. Valid(g, j)
        BY <3>1, <3>3, <4>1, <4>3 DEF ClientOK
      <4> QED BY <4>3, <4>4 DEF Valid
    <3> QED BY <3>1, <3>3 DEF ClientOK
  <2> QED BY <2>1, <2>2
<1>3. ASSUME NEW t \in Slots PROVE FallOK(h, t)
  <2>1. CASE t = s
    BY <2>1
  <2>2. CASE t # s
    <3>1. /\ h.client[t] = g.client[t] /\ (t \in h.abort <=> t \in g.abort)
          /\ h.fall[t] = g.fall[t] /\ FallOK(g, t)
      BY <2>2 DEF Near, Settling
    <3>2. ASSUME NEW j \in Slots, Valid(h, j), h.rec[j].ent = t
          PROVE  Valid(g, j) /\ g.rec[j].ent = t /\ h.snap[j] = g.snap[j]
      <4>1. j # i
        BY <2>2, <3>2
      <4> QED BY <3>2, <4>1 DEF Near, Valid
    <3> QED BY <3>1, <3>2 DEF FallOK
  <2> QED BY <2>1, <2>2
<1> QED BY <1>1, <1>2, <1>3 DEF Settling

\* The slot keeps its connection, and the reservation its owner.
ThinsAt(g, h, s, i) ==
  /\ s \in Slots =>
       /\ h.client[s].conn = g.client[s].conn
       /\ g.client[s].conn =>
            /\ h.client[s].id = g.client[s].id /\ h.client[s].gen = g.client[s].gen
            /\ h.client[s].begun = g.client[s].begun
  /\ i \in Slots /\ Valid(h, i) =>
       /\ Valid(g, i) /\ h.rec[i].ent = g.rec[i].ent
       /\ h.snap[i].id = g.snap[i].id /\ h.snap[i].match = g.snap[i].match
       /\ h.snap[i].round = g.snap[i].round /\ h.snap[i].world = g.snap[i].world
       /\ h.client[h.rec[i].ent].ghost = g.client[g.rec[i].ent].ghost
       /\ h.client[h.rec[i].ent].play => g.client[g.rec[i].ent].play
       /\ \/ h.snap[i].phase = g.snap[i].phase
          \/ h.snap[i].phase = "AwaitingBegin" /\ g.snap[i].phase = "Claimed"
          \/ h.snap[i].phase = "Expiring" /\ g.snap[i].phase = "Reserved"
  /\ h.stage = g.stage /\ h.match = g.match /\ h.round = g.round /\ h.world = g.world

\* A change that ends a reservation or none.
LEMMA ThinsLocal ==
  ASSUME NEW g, Settling(g), NEW h \in State, NEW s, NEW i, Near(g, h, s, i),
         ThinsAt(g, h, s, i)
  PROVE  Thins(g, h) /\ Apart(h)
<1> USE DEF ThinsAt
<1>0. g \in State /\ \A j \in Slots : SnapOK(g, j)
  BY DEF Settling
<1>1. ASSUME NEW t \in Slots
      PROVE  /\ h.client[t].conn = g.client[t].conn
             /\ g.client[t].conn =>
                  /\ h.client[t].id = g.client[t].id /\ h.client[t].gen = g.client[t].gen
                  /\ h.client[t].begun = g.client[t].begun
  <2>1. CASE t = s
    BY <2>1
  <2>2. CASE t # s
    BY <2>2 DEF Near
  <2> QED BY <2>1, <2>2
<1>2. ASSUME NEW j \in Slots, Valid(h, j)
      PROVE  /\ Valid(g, j) /\ h.rec[j].ent = g.rec[j].ent
             /\ h.snap[j].id = g.snap[j].id /\ h.snap[j].match = g.snap[j].match
             /\ h.snap[j].round = g.snap[j].round /\ h.snap[j].world = g.snap[j].world
             /\ h.client[h.rec[j].ent].ghost = g.client[g.rec[j].ent].ghost
             /\ h.client[h.rec[j].ent].play => g.client[g.rec[j].ent].play
             /\ \/ h.snap[j].phase = g.snap[j].phase
                \/ h.snap[j].phase = "AwaitingBegin" /\ g.snap[j].phase = "Claimed"
                \/ h.snap[j].phase = "Expiring" /\ g.snap[j].phase = "Reserved"
  <2>1. CASE j = i
    BY <1>2, <2>1
  <2>2. CASE j # i
    <3>1. h.snap[j] = g.snap[j] /\ h.rec[j].ent = g.rec[j].ent /\ Valid(g, j)
      BY <1>2, <2>2 DEF Near, Valid
    <3>2. g.rec[j].ent \in Slots \ {s}
      <4>1. g.rec[j].ent \in {0} \cup Slots /\ SnapOK(g, j)
        BY <1>0, StateFields DEF Record
      <4> QED BY <2>2, <3>1, <4>1 DEF Near, SnapOK
    <3>3. h.client[g.rec[j].ent] = g.client[g.rec[j].ent]
      BY <3>2 DEF Near
    <3> QED BY <3>1, <3>3
  <2> QED BY <2>1, <2>2
<1>3. Thins(g, h)
  BY <1>1, <1>2 DEF Thins
<1>4. Apart(h)
  <2>1. Apart(g)
    BY DEF Settling
  <2> QED BY <1>1, <1>2, <2>1 DEF Apart
<1> QED BY <1>3, <1>4

\* Who waits elsewhere still does.
LEMMA NearWaiting ==
  ASSUME NEW g, NEW h, NEW s, NEW i, Near(g, h, s, i),
         i \in Slots /\ Valid(g, i) => g.rec[i].ent = s,
         i \in Slots /\ Valid(h, i) => h.rec[i].ent = s
  PROVE  \A t : t # s => (Waiting(h, t) <=> Waiting(g, t))
<1> SUFFICES ASSUME NEW t, t # s PROVE Waiting(h, t) <=> Waiting(g, t)
  OBVIOUS
<1>1. \A j \in Slots : h.snap[j].valid /\ h.rec[j].ent = t
        => h.snap[j] = g.snap[j] /\ h.rec[j].ent = g.rec[j].ent
  BY DEF Near, Valid
<1>2. \A j \in Slots : g.snap[j].valid /\ g.rec[j].ent = t
        => h.snap[j] = g.snap[j] /\ h.rec[j].ent = g.rec[j].ent
  BY DEF Near, Valid
<1> QED BY <1>1, <1>2 DEF Waiting

\* The timeout of a slot ends with its reservation.
LEMMA EndsAt ==
  ASSUME NEW g, Owned(g), NEW h, Thins(g, h), NEW s, ~Waiting(h, s),
         \A t : t # s /\ Waiting(g, t) => Waiting(h, t),
         IF g.timeout.ent = s /\ s # 0 THEN h.timeout.ent = 0 ELSE h.timeout = g.timeout,
         Accounts(g, h)
  PROVE  Ends(g, h)
<1>1. Keeps(g, h)
  BY DEF Keeps, Owned
<1> QED BY <1>1 DEF Ends

-----------------------------------------------------------------------------
(* A reservation goes.                                                      *)

\* Where a reservation is.
LEMMA Places ==
  ASSUME NEW g, Settling(g), NEW i \in Slots, Valid(g, i)
  PROVE  /\ g.rec[i].ent \in Slots /\ g.snap[i] \in Reservation
         /\ SnapOK(g, i) /\ ClientOK(g, g.rec[i].ent) /\ FallOK(g, g.rec[i].ent)
         /\ g.client[g.rec[i].ent] \in Client
         /\ \A j \in Slots \ {i} : Valid(g, j) => g.rec[j].ent # g.rec[i].ent
<1>1. g \in State /\ SnapOK(g, i) /\ Apart(g)
  BY DEF Settling
<1>2. g.rec[i].ent \in {0} \cup Slots /\ g.snap[i] \in Snap
  BY <1>1, StateFields DEF Record
<1>3. g.rec[i].ent \in Slots
  BY <1>1, <1>2 DEF SnapOK
<1>4. g.snap[i] \in Reservation
  BY <1>2, SnapFields DEF Valid
<1>5. ClientOK(g, g.rec[i].ent) /\ FallOK(g, g.rec[i].ent) /\ g.client[g.rec[i].ent] \in Client
  BY <1>1, <1>3, StateFields DEF Settling
<1>6. \A j \in Slots \ {i} : Valid(g, j) => g.rec[j].ent # g.rec[i].ent
  BY <1>1 DEF Apart
<1> QED BY <1>1, <1>3, <1>4, <1>5, <1>6

\* A slot that is given up is free.
LEMMA NoClientFields ==
  ASSUME NEW n \in 1..MaxGen
  PROVE  /\ NoClient(n) \in Client
         /\ NoClient(n).id = None /\ NoClient(n).conn = FALSE /\ NoClient(n).begun = FALSE
         /\ NoClient(n).spawned = FALSE /\ NoClient(n).limbo = FALSE
         /\ NoClient(n).inuse = FALSE /\ NoClient(n).play = FALSE
         /\ NoClient(n).inactive = FALSE /\ NoClient(n).holds = FALSE
         /\ NoClient(n).gen = n /\ NoClient(n).ghost = 0 /\ NoClient(n).holder = FALSE
BY DEF NoClient, Client

\* What ending snapshot i makes of its slot.
Vacated(g, i) ==
  LET s == g.rec[i].ent
      c == g.client[s]
  IN IF c.ghost # i THEN c
     ELSE IF ~c.conn /\ (g.snap[i].valid \/ c.holder) THEN NoClient(c.gen + 1)
     ELSE [c EXCEPT !.ghost = 0]

\* The client d that is left of the owner c of snapshot i.
Leaves(c, d, i) ==
  /\ d.conn = c.conn /\ d.ghost # i
  /\ c.ghost # i => d = c
  /\ c.ghost = i => d.ghost = 0
  /\ c.conn => /\ d.id = c.id /\ d.gen = c.gen /\ d.begun = c.begun
               /\ d.spawned = c.spawned /\ d.limbo = c.limbo /\ d.inuse = c.inuse
               /\ d.holder = c.holder /\ d.play = c.play /\ d.holds = c.holds
  /\ ~c.conn /\ c.ghost = i =>
       /\ d.begun = FALSE /\ d.spawned = FALSE /\ d.limbo = FALSE /\ d.holder = FALSE

\* So much is left of it.
LEMMA VacatedFields ==
  ASSUME NEW g, Settling(g), NEW i \in Slots, g.rec[i].ent # 0
  PROVE  LET s == g.rec[i].ent IN
         s \in Slots /\ Vacated(g, i) \in Client /\ Leaves(g.client[s], Vacated(g, i), i)
<1> DEFINE s == g.rec[i].ent
           c == g.client[s]
           d == Vacated(g, i)
<1>1. g \in State /\ s \in Slots
  BY StateFields DEF Settling, Record
<1>2. c \in Client /\ ClientOK(g, s)
  BY <1>1, StateFields DEF Settling
<1>3. CASE c.ghost # i
  BY <1>1, <1>2, <1>3 DEF Vacated, Leaves
<1>4. CASE c.ghost = i /\ c.conn
  <2>1. d = [c EXCEPT !.ghost = 0]
    BY <1>4 DEF Vacated
  <2>2. i # 0
    BY GhostAssumption DEF Slots
  <2>3. c.conn = TRUE
    BY <1>2, <1>4, ClientFields
  <2> HIDE DEF d, c
  <2>4. /\ d \in Client /\ d.conn = c.conn /\ d.ghost = 0
        /\ d.id = c.id /\ d.gen = c.gen /\ d.begun = c.begun
        /\ d.spawned = c.spawned /\ d.limbo = c.limbo /\ d.inuse = c.inuse
        /\ d.holder = c.holder /\ d.play = c.play /\ d.holds = c.holds
    BY <1>2, <2>1 DEF Client
  <2> QED BY <1>1, <1>4, <2>2, <2>3, <2>4 DEF Leaves, c, d
<1>5. CASE c.ghost = i /\ ~c.conn
  <2>1. i # 0 /\ i \in Slots
    BY GhostAssumption DEF Slots
  <2>2. Valid(g, i)
    BY <1>2, <1>5, <2>1 DEF ClientOK
  <2>3. c.holder = TRUE /\ c.gen < MaxGen
    BY <1>2, <1>5, <2>2, Places DEF SnapOK, ClientOK
  <2>4. c.gen \in 1..MaxGen
    BY <1>2, ClientFields
  <2>5. c.gen + 1 \in 1..MaxGen
    BY <2>3, <2>4, GhostAssumption
  <2>6. d = NoClient(c.gen + 1)
    BY <1>5, <2>3 DEF Vacated
  <2>7. c.conn = FALSE
    BY <1>2, <1>5, ClientFields
  <2> HIDE DEF d, c
  <2>8. d \in Client /\ d.conn = FALSE /\ d.ghost = 0 /\ d.begun = FALSE
        /\ d.spawned = FALSE /\ d.limbo = FALSE /\ d.holder = FALSE
    BY <2>5, <2>6, NoClientFields
  <2> QED BY <1>1, <1>5, <2>1, <2>7, <2>8 DEF Leaves, c, d
<1> QED BY <1>3, <1>4, <1>5, <1>2

\* ClearSnap touches the snapshot and the client in its slot.
LEMMA ClearSnapIs ==
  ASSUME NEW g, Settling(g), NEW i \in Slots
  PROVE  LET s == g.rec[i].ent
             h == ClearSnap(g, i)
         IN /\ h = [g EXCEPT !.snap = [g.snap EXCEPT ![i] = NoSnap],
                             !.client = IF s = 0 THEN g.client
                                        ELSE [g.client EXCEPT ![s] = Vacated(g, i)]]
            /\ h \in State
<1> DEFINE s == g.rec[i].ent
           h == ClearSnap(g, i)
           k == [g EXCEPT !.snap = [g.snap EXCEPT ![i] = NoSnap],
                          !.client = IF s = 0 THEN g.client
                                     ELSE [g.client EXCEPT ![s] = Vacated(g, i)]]
<1>1. g \in State /\ s \in {0} \cup Slots
  BY StateFields DEF Settling, Record
<1>2. g.client \in [Slots -> Client] /\ g.snap \in [Slots -> Snap]
  BY <1>1, StateFields
<1>3. h = k
  <2>1. CASE s = 0
    BY <1>1, <2>1 DEF ClearSnap, State
  <2>2. CASE s # 0 /\ g.client[s].ghost # i
    <3>1. [g.client EXCEPT ![s] = Vacated(g, i)] = g.client
      BY <1>1, <1>2, <2>2 DEF Vacated
    <3>2. k = [g EXCEPT !.snap = [g.snap EXCEPT ![i] = NoSnap], !.client = g.client]
      BY <2>2, <3>1
    <3>3. k = [g EXCEPT !.snap = [g.snap EXCEPT ![i] = NoSnap]]
      BY <1>1, <3>2 DEF State
    <3> QED BY <2>2, <3>3 DEF ClearSnap
  <2>3. CASE s # 0 /\ g.client[s].ghost = i
    BY <1>1, <2>3 DEF ClearSnap, Vacated
  <2> QED BY <2>1, <2>2, <2>3
<1>4. k \in State
  <2>1. [g.snap EXCEPT ![i] = NoSnap] \in [Slots -> Snap]
    BY <1>2 DEF Snap
  <2>2. (IF s = 0 THEN g.client ELSE [g.client EXCEPT ![s] = Vacated(g, i)]) \in [Slots -> Client]
    BY <1>1, <1>2, VacatedFields
  <2> QED BY <1>1, <2>1, <2>2 DEF State
<1> QED BY <1>3, <1>4

\* Ending a snapshot leaves everything else alone.
LEMMA ClearSnapFrame ==
  ASSUME NEW g, Settling(g), NEW i \in Slots
  PROVE  LET s == g.rec[i].ent
             h == ClearSnap(g, i)
         IN /\ h \in State
            /\ h.rec = g.rec /\ h.fall = g.fall /\ h.abort = g.abort /\ h.cursor = g.cursor
            /\ h.timeout = g.timeout /\ h.item = g.item /\ h.part = g.part
            /\ h.stage = g.stage /\ h.match = g.match /\ h.round = g.round
            /\ h.world = g.world
            /\ ~Valid(h, i) /\ \A j \in Slots \ {i} : h.snap[j] = g.snap[j]
            /\ \A t \in Slots \ {s} : h.client[t] = g.client[t]
            /\ s # 0 => h.client[s] = Vacated(g, i)
<1> DEFINE s == g.rec[i].ent
           h == ClearSnap(g, i)
           sn == [g.snap EXCEPT ![i] = NoSnap]
           cl == IF s = 0 THEN g.client ELSE [g.client EXCEPT ![s] = Vacated(g, i)]
<1>1. h = [g EXCEPT !.snap = sn, !.client = cl] /\ h \in State
  BY ClearSnapIs
<1>2. g \in State
  BY DEF Settling
<1>3. g.snap \in [Slots -> Snap] /\ g.client \in [Slots -> Client] /\ s \in {0} \cup Slots
  BY <1>2, StateFields DEF Record
<1>4. sn[i] = NoSnap /\ \A j \in Slots \ {i} : sn[j] = g.snap[j]
  BY <1>3
<1>5. /\ \A t \in Slots \ {s} : cl[t] = g.client[t]
      /\ s # 0 => cl[s] = Vacated(g, i)
  BY <1>3
<1> HIDE DEF sn, cl, h
<1>6. /\ h.rec = g.rec /\ h.fall = g.fall /\ h.abort = g.abort /\ h.cursor = g.cursor
      /\ h.timeout = g.timeout /\ h.item = g.item /\ h.part = g.part
      /\ h.stage = g.stage /\ h.match = g.match /\ h.round = g.round
      /\ h.world = g.world /\ h.snap = sn /\ h.client = cl
  BY <1>1, <1>2 DEF State
<1>7. ~NoSnap.valid
  BY DEF NoSnap
<1>8. h \in State
  BY <1>1
<1> QED BY <1>4, <1>5, <1>6, <1>7, <1>8 DEF h, Valid

\* Only the snapshot goes, and a placeholder's slot.
LEMMA ClearSnapFacts ==
  ASSUME NEW g, Settling(g), NEW i \in Slots
  PROVE  Settling(ClearSnap(g, i)) /\ Thins(g, ClearSnap(g, i))
<1> DEFINE s == g.rec[i].ent
           h == ClearSnap(g, i)
<1>0. g \in State /\ s \in {0} \cup Slots
  BY StateFields DEF Settling, Record
<1>1. /\ h \in State
      /\ h.rec = g.rec /\ h.fall = g.fall /\ h.abort = g.abort
      /\ h.stage = g.stage /\ h.match = g.match /\ h.round = g.round /\ h.world = g.world
      /\ ~Valid(h, i) /\ \A j \in Slots \ {i} : h.snap[j] = g.snap[j]
      /\ \A t \in Slots \ {s} : h.client[t] = g.client[t]
      /\ s # 0 => h.client[s] = Vacated(g, i)
  BY ClearSnapFrame
<1> HIDE DEF h
<1>2. h.world <= h.round
  BY <1>1 DEF Settling
<1>3. SnapOK(h, i)
  BY <1>1 DEF SnapOK
<1>4. CASE s # 0 /\ g.client[s].ghost = i
  <2>1. /\ s \in Slots /\ h.client[s].conn = g.client[s].conn /\ h.client[s].ghost = 0
        /\ g.client[s].conn =>
             /\ h.client[s].id = g.client[s].id /\ h.client[s].gen = g.client[s].gen
             /\ h.client[s].begun = g.client[s].begun
             /\ h.client[s].spawned = g.client[s].spawned
             /\ h.client[s].limbo = g.client[s].limbo /\ h.client[s].inuse = g.client[s].inuse
             /\ h.client[s].holder = g.client[s].holder
        /\ ~g.client[s].conn =>
             /\ h.client[s].begun = FALSE /\ h.client[s].spawned = FALSE
             /\ h.client[s].limbo = FALSE /\ h.client[s].holder = FALSE
    <3>1. h.client[s] = Vacated(g, i)
      BY <1>1, <1>4
    <3>2. s \in Slots /\ Leaves(g.client[s], h.client[s], i)
      BY <1>4, <3>1, VacatedFields
    <3> QED BY <1>4, <3>2 DEF Leaves
  <2>2. \A j \in Slots \ {i} : Valid(g, j) => g.rec[j].ent # s
    BY <1>4, GhostAssumption DEF Settling, SnapOK, Slots
  <2>3. Near(g, h, s, i)
    BY <1>1, <2>2 DEF Near
  <2>4. ClientOK(g, s) /\ FallOK(g, s)
    BY <2>1 DEF Settling
  <2>5. ClientOK(h, s)
    BY <1>1, <2>1, <2>4 DEF ClientOK
  <2>6. \A j \in Slots : Valid(h, j) => h.rec[j].ent # s
    BY <1>1, <2>2 DEF Valid
  <2>7. FallOK(h, s)
    BY <1>1, <2>1, <2>4, <2>6 DEF FallOK
  <2>8. Thins(g, h) /\ Apart(h)
    <3>1. ThinsAt(g, h, s, i)
      BY <1>1, <2>1 DEF ThinsAt
    <3> QED BY <1>1, <2>3, <3>1, ThinsLocal
  <2>9. Settling(h)
    BY <1>1, <1>2, <1>3, <2>3, <2>5, <2>7, <2>8, Local
  <2> QED BY <2>8, <2>9 DEF h
<1>5. CASE s = 0 \/ g.client[s].ghost # i
  <2>0. 0 \notin Slots
    BY DEF Slots
  <2>1. \A t \in Slots : h.client[t] = g.client[t]
    <3>1. s # 0 => Vacated(g, i) = g.client[s]
      BY ZenonT(40), <1>5, VacatedFields DEF Leaves
    <3> QED BY <1>1, <2>0, <3>1
  <2>2. \A j \in Slots : Valid(g, j) => g.rec[j].ent # 0
    BY DEF Settling, SnapOK
  <2>3. Near(g, h, 0, i) /\ 0 \notin Slots
    BY <1>1, <2>1, <2>2 DEF Near, Slots
  <2>4. Thins(g, h) /\ Apart(h)
    <3>1. ThinsAt(g, h, 0, i)
      BY <1>1, <2>3 DEF ThinsAt
    <3> QED BY <1>1, <2>3, <3>1, ThinsLocal
  <2>5. \A t \in Slots \ {0} : g.client[t].ghost = i => h.rec[i].ent # t
    BY <1>1, <1>5
  <2>6. Settling(h)
    BY <1>1, <1>2, <1>3, <2>3, <2>4, <2>5, Local
  <2> QED BY <2>4, <2>6 DEF h
<1> QED BY <1>0, <1>4, <1>5

\* An empty record may be given to anybody, or to nobody.
LEMMA RecPut ==
  ASSUME NEW g, Settling(g), NEW i \in Slots, ~Valid(g, i), NEW r \in Record,
         r.ent = 0 \/ r.ent = g.rec[i].ent
  PROVE  LET h == [g EXCEPT !.rec[i] = r]
         IN /\ Settling(h) /\ Thins(g, h)
            /\ h.client = g.client /\ h.snap = g.snap /\ h.fall = g.fall /\ h.abort = g.abort
            /\ h.timeout = g.timeout /\ h.item = g.item /\ h.part = g.part /\ h.stage = g.stage
            /\ h.match = g.match /\ h.round = g.round /\ h.world = g.world
            /\ h.rec[i] = r /\ \A j \in Slots \ {i} : h.rec[j] = g.rec[j]
            /\ h.cursor = g.cursor
<1> DEFINE re == [g.rec EXCEPT ![i] = r]
           h == [g EXCEPT !.rec = re]
<1>1. g \in State /\ g.rec \in [Slots -> Record]
  BY StateFields DEF Settling
<1>2. re \in [Slots -> Record] /\ re[i] = r /\ \A j \in Slots \ {i} : re[j] = g.rec[j]
  BY <1>1
<1> HIDE DEF re
<1>3. /\ h \in State
      /\ h.client = g.client /\ h.snap = g.snap /\ h.fall = g.fall /\ h.abort = g.abort
      /\ h.timeout = g.timeout /\ h.item = g.item /\ h.part = g.part /\ h.stage = g.stage
      /\ h.match = g.match /\ h.round = g.round /\ h.world = g.world /\ h.rec = re
      /\ h.cursor = g.cursor
  BY <1>1, <1>2 DEF State
<1> HIDE DEF h
<1>4. ~Valid(h, i)
  BY <1>3 DEF Valid
<1>5. \A j \in Slots : Valid(h, j) => Valid(g, j) /\ h.rec[j] = g.rec[j]
  BY <1>2, <1>3, <1>4 DEF Valid
<1>6. ASSUME NEW j \in Slots PROVE SnapOK(h, j)
  BY <1>3, <1>5 DEF Settling, SnapOK
<1>7. ASSUME NEW t \in Slots PROVE ClientOK(h, t)
  <2>1. g.client[t].ghost \in {0} \cup Slots /\ ClientOK(g, t)
    BY <1>1, StateFields, ClientFields DEF Settling
  <2>2. ASSUME NEW j \in Slots, h.rec[j].ent = t PROVE g.rec[j].ent = t
    BY SMTT(20), <1>2, <1>3, <2>2, GhostAssumption DEF Slots
  <2>3. \A j \in Slots : Valid(h, j) = Valid(g, j)
    BY <1>3 DEF Valid
  <2>4. h.client[t] = g.client[t] /\ h.abort = g.abort
    BY <1>3
  <2> QED BY <2>1, <2>2, <2>3, <2>4 DEF ClientOK
<1>8. ASSUME NEW t \in Slots PROVE FallOK(h, t)
  BY <1>3, <1>5 DEF Settling, FallOK
<1>9. Thins(g, h)
  BY <1>3, <1>5 DEF Thins
<1>10. Apart(h)
  BY <1>3, <1>5 DEF Settling, Apart
<1>11. Settling(h)
  BY <1>3, <1>6, <1>7, <1>8, <1>10 DEF Settling
<1> QED BY <1>2, <1>3, <1>9, <1>11 DEF h, re

-----------------------------------------------------------------------------
(* A reservation goes, and its owner's timeout.                             *)

\* The server h has no reservation i and nothing else changed but its slot.
Cleared(g, h, i) ==
  /\ h.fall = g.fall /\ h.abort = g.abort /\ h.timeout = g.timeout /\ h.item = g.item
  /\ h.part = g.part /\ h.stage = g.stage /\ h.match = g.match /\ h.round = g.round
  /\ h.world = g.world
  /\ ~Valid(h, i) /\ h.rec[i].ent = 0
  /\ \A j \in Slots \ {i} : h.snap[j] = g.snap[j] /\ h.rec[j] = g.rec[j]
  /\ \A t \in Slots \ {g.rec[i].ent} : h.client[t] = g.client[t]
  /\ g.rec[i].ent # 0 => Leaves(g.client[g.rec[i].ent], h.client[g.rec[i].ent], i)

\* A reservation ends with its record.
LEMMA ClearRecordFacts ==
  ASSUME NEW g, Settling(g), NEW i \in Slots
  PROVE  LET h == ClearRecord(g, i) IN Settling(h) /\ Thins(g, h) /\ Cleared(g, h, i)
<1> DEFINE k == ClearSnap(g, i)
           h == ClearRecord(g, i)
<1>1. Settling(k) /\ Thins(g, k)
  BY ClearSnapFacts
<1>2. /\ k.rec = g.rec /\ k.fall = g.fall /\ k.abort = g.abort /\ k.cursor = g.cursor
      /\ k.timeout = g.timeout /\ k.item = g.item /\ k.part = g.part
      /\ k.stage = g.stage /\ k.match = g.match /\ k.round = g.round
      /\ k.world = g.world
      /\ ~Valid(k, i) /\ \A j \in Slots \ {i} : k.snap[j] = g.snap[j]
      /\ \A t \in Slots \ {g.rec[i].ent} : k.client[t] = g.client[t]
      /\ g.rec[i].ent # 0 => k.client[g.rec[i].ent] = Vacated(g, i)
  BY ClearSnapFrame
<1>3. NoRecord \in Record /\ NoRecord.ent = 0
  BY DEF NoRecord, Record
<1>4. h = [k EXCEPT !.rec[i] = NoRecord]
  BY DEF ClearRecord
<1> HIDE DEF k, h
<1>5. /\ Settling(h) /\ Thins(k, h)
      /\ h.client = k.client /\ h.snap = k.snap /\ h.fall = k.fall /\ h.abort = k.abort
      /\ h.timeout = k.timeout /\ h.item = k.item /\ h.part = k.part /\ h.stage = k.stage
      /\ h.match = k.match /\ h.round = k.round /\ h.world = k.world
      /\ h.rec[i] = NoRecord /\ \A j \in Slots \ {i} : h.rec[j] = k.rec[j]
  BY <1>1, <1>2, <1>3, <1>4, RecPut
<1>6. g.rec[i].ent # 0 => Leaves(g.client[g.rec[i].ent], Vacated(g, i), i)
  BY VacatedFields
<1>7. Cleared(g, h, i)
  BY <1>2, <1>3, <1>5, <1>6 DEF Cleared, Valid
<1>8. Thins(g, h)
  BY <1>1, <1>5, ThinsTransitive
<1> QED BY <1>5, <1>7, <1>8 DEF h

\* Only the slot of the reservation stops waiting.
LEMMA ClearedWaiting ==
  ASSUME NEW g, Settling(g), NEW i \in Slots, Valid(g, i), NEW h, Cleared(g, h, i)
  PROVE  /\ ~Waiting(h, g.rec[i].ent)
         /\ \A t : t # g.rec[i].ent => (Waiting(h, t) <=> Waiting(g, t))
<1> DEFINE s == g.rec[i].ent
<1>1. s \in Slots /\ \A j \in Slots \ {i} : Valid(g, j) => g.rec[j].ent # s
  BY Places
<1>2. Near(g, h, s, i)
  BY <1>1 DEF Near, Cleared
<1>3. \A t : t # s => (Waiting(h, t) <=> Waiting(g, t))
  BY <1>2, NearWaiting DEF Cleared
<1>4. ~Waiting(h, s)
  BY <1>1 DEF Waiting, Cleared, Valid
<1> QED BY <1>3, <1>4

\* Only a result that is not settled yet could be lost with it.
LEMMA ClearedAccounts ==
  ASSUME NEW g, Settling(g), NEW i \in Slots, NEW h, Cleared(g, h, i),
         Matched(g) /\ Valid(g, i) /\ ~g.snap[i].settled => Present(h, g.snap[i].id)
  PROVE  Accounts(g, h)
<1>1. ASSUME NEW s \in Slots, g.client[s].conn, g.client[s].play
      PROVE  Present(h, g.client[s].id)
  <2>1. h.client[s].conn = g.client[s].conn /\ h.client[s].id = g.client[s].id
        /\ h.client[s].play = g.client[s].play
    <3>1. CASE s # g.rec[i].ent
      BY <3>1 DEF Cleared
    <3>2. CASE s = g.rec[i].ent
      <4>1. s # 0
        BY DEF Slots
      <4>2. Leaves(g.client[s], h.client[s], i)
        BY <3>2, <4>1 DEF Cleared
      <4> QED BY <1>1, <4>2 DEF Leaves
    <3> QED BY <3>1, <3>2
  <2> QED BY <1>1, <2>1 DEF Present, Plays
<1>2. ASSUME NEW j \in Slots, Matched(g), Valid(g, j), ~g.snap[j].settled
      PROVE  Present(h, g.snap[j].id)
  <2>1. CASE j = i
    BY <1>2, <2>1
  <2>2. CASE j # i
    <3>1. h.snap[j] = g.snap[j]
      BY <2>2 DEF Cleared
    <3> QED BY <1>2, <3>1 DEF Present, Reserves, Valid
  <2> QED BY <2>1, <2>2
<1>3. h.part = g.part
  BY DEF Cleared
<1> QED BY <1>1, <1>2, <1>3, PresentMoves

\* The timeout of slot s ends, whatever else is the same.
Released(g, h, s) ==
  /\ Settling(h) /\ Thins(g, h) /\ Same(g, h)
  /\ \A t : Waiting(h, t) <=> Waiting(g, t)
  /\ IF g.timeout.ent = s /\ s # 0 THEN h.timeout.ent = 0 ELSE h.timeout = g.timeout

\* Nothing is ended where nothing is done.
LEMMA SameReflexive ==
  ASSUME NEW g, Settling(g)
  PROVE  Same(g, g) /\ Thins(g, g)
<1>1. Same(g, g)
  BY SameAccounts DEF Same, SameClient, SameSnap, NoneEnters
<1>2. Thins(g, g)
  BY DEF Thins
<1> QED BY <1>1, <1>2

\* RevokeSnapshotTimeoutOwnership leaves no timeout to the slot of record i.
LEMMA RevokeFacts ==
  ASSUME NEW g, Settling(g), NEW i \in Slots, NEW resume
  PROVE  Released(g, Revoke(g, i, resume), g.rec[i].ent)
<1> DEFINE h == Revoke(g, i, resume)
           s == g.rec[i].ent
<1>1. CASE g.timeout.ent = 0 \/ g.timeout.ent # s
  <2>1. h = g
    BY <1>1 DEF Revoke
  <2>2. ~(g.timeout.ent = s /\ s # 0)
    BY <1>1
  <2> HIDE DEF h
  <2>3. Released(g, g, s)
    BY <2>2, SameReflexive DEF Released
  <2> QED BY <2>1, <2>3 DEF h
<1>2. CASE /\ ~(g.timeout.ent = 0 \/ g.timeout.ent # s)
           /\ resume /\ g.timeout.auto /\ Retained(g)
  <2>1. h = TimeoutEnd(g)
    BY <1>2 DEF Revoke
  <2> HIDE DEF h
  <2>2. /\ Settling(h) /\ Thins(g, h) /\ Same(g, h) /\ h.timeout.ent = 0
        /\ \A t : Waiting(h, t) <=> Waiting(g, t)
    BY <2>1, TimeoutEndFacts
  <2>3. g.timeout.ent = s /\ s # 0
    BY <1>2
  <2>4. Released(g, h, s)
    BY <2>2, <2>3 DEF Released
  <2> QED BY <2>4 DEF h
<1>3. CASE /\ ~(g.timeout.ent = 0 \/ g.timeout.ent # s)
           /\ ~(resume /\ g.timeout.auto /\ Retained(g))
  <2> DEFINE t == [g.timeout EXCEPT !.ent = 0]
  <2>1. h = [g EXCEPT !.timeout = t]
    BY <1>3 DEF Revoke
  <2>2. g \in State /\ g.timeout \in Timeout
    BY StateFields DEF Settling
  <2>3. t \in Timeout /\ t.ent = 0
    BY <2>2 DEF Timeout
  <2> HIDE DEF t, h
  <2>4. h \in State /\ Alike([g EXCEPT !.timeout = t], h) /\ NoneEnters(g, h)
    BY <2>1, <2>2, <2>3, AlikeReflexive DEF State, NoneEnters
  <2>5. /\ Settling(h) /\ Thins(g, h) /\ Same(g, h) /\ h.timeout = t
        /\ \A u : Waiting(h, u) <=> Waiting(g, u)
    BY <2>3, <2>4, TimeoutPut
  <2>6. g.timeout.ent = s /\ s # 0
    BY <1>3
  <2>7. Released(g, h, s)
    BY <2>3, <2>5, <2>6 DEF Released
  <2> QED BY <2>7 DEF h
<1> QED BY <1>1, <1>2, <1>3

\* Neither does ResumeTimeoutForReconnectOwner.
LEMMA ResumeForFacts ==
  ASSUME NEW g, Settling(g), NEW s \in Slots,
         g.timeout.ent = s => g.timeout.auto /\ ~g.timeout.resuming /\ g.timeout.left > 0
  PROVE  Released(g, ResumeFor(g, s), s)
<1> DEFINE h == ResumeFor(g, s)
<1>0. s # 0
  BY DEF Slots
<1>1. CASE g.timeout.ent = s
  <2>1. h = TimeoutEnd(g)
    BY <1>1 DEF ResumeFor, Retained
  <2> HIDE DEF h
  <2>2. /\ Settling(h) /\ Thins(g, h) /\ Same(g, h) /\ h.timeout.ent = 0
        /\ \A t : Waiting(h, t) <=> Waiting(g, t)
    BY <2>1, TimeoutEndFacts
  <2>4. Released(g, h, s)
    BY <1>0, <1>1, <2>2 DEF Released
  <2> QED BY <2>4 DEF h
<1>2. CASE g.timeout.ent # s
  <2>1. h = g
    BY <1>2 DEF ResumeFor
  <2> HIDE DEF h
  <2>3. Released(g, g, s)
    BY <1>2, SameReflexive DEF Released
  <2> QED BY <2>1, <2>3 DEF h
<1> QED BY <1>1, <1>2

-----------------------------------------------------------------------------
(* A reservation that is bound to a connection.                             *)

\* The slot of a pending reservation is the one its transaction is bound to.
LEMMA TargetIs ==
  ASSUME NEW g, Settling(g), NEW i \in Slots, Valid(g, i)
  PROVE  /\ g.snap[i].phase \in {"Claimed", "Reinstating"} =>
              RestoreTarget(g, i) = g.rec[i].ent
         /\ g.snap[i].phase = "AwaitingBegin" => AwaitingTarget(g, i) = g.rec[i].ent
         /\ g.snap[i].phase \in Pending => Bound(g, i) /\ g.snap[i].target = g.rec[i].ent
<1> DEFINE s == g.rec[i].ent
<1>1. s \in Slots /\ SnapOK(g, i) /\ g.snap[i] \in Reservation
  BY Places
<1>2. g.snap[i].id \in Ids /\ None \notin Ids
  BY <1>1, ReservationFields, GhostAssumption
<1>3. CASE g.snap[i].phase \in Pending
  <2>1. /\ g.snap[i].target = s /\ g.snap[i].gen = g.client[s].gen
        /\ g.client[s].conn /\ g.client[s].id = g.snap[i].id
        /\ g.snap[i].phase \in {"Claimed", "Reinstating"} => g.client[s].inuse
    BY <1>1, <1>3 DEF SnapOK
  <2>2. g.client[s].id # None
    BY <1>2, <2>1
  <2>3. Owns(g, i, g.client[s].id)
    BY <2>1, <2>2 DEF Owns, Valid
  <2>4. Bound(g, i)
    BY <2>1, <2>3 DEF Bound
  <2> QED BY <2>1, <2>4 DEF RestoreTarget, AwaitingTarget, Valid
<1> QED BY <1>3 DEF Pending

\* The participants, the play of slot s and whether claim i is settled are as
\* they were.
PlaysOn(g, h, s, i) ==
  /\ h.part = g.part /\ h.client[s].play = g.client[s].play
  /\ h.snap[i].settled = g.snap[i].settled

\* The claim i of slot s waits for ClientBegin.
Staged(g, h, s, i) ==
  /\ \A t \in Slots \ {s} : h.client[t] = g.client[t]
  /\ \A j \in Slots \ {i} : h.snap[j] = g.snap[j] /\ h.rec[j] = g.rec[j]
  /\ h.fall = g.fall /\ h.abort = g.abort \ {s} /\ h.rec[i].ent = s
  /\ h.snap[i].valid /\ h.snap[i].id = g.snap[i].id /\ h.snap[i].target = g.snap[i].target
  /\ h.snap[i].gen = g.snap[i].gen /\ h.snap[i].match = g.snap[i].match
  /\ h.snap[i].round = g.snap[i].round /\ h.snap[i].world = g.snap[i].world
  /\ h.snap[i].phase = "AwaitingBegin"
  /\ h.client[s].id = g.client[s].id /\ h.client[s].gen = g.client[s].gen
  /\ h.client[s].conn = g.client[s].conn /\ h.client[s].begun = g.client[s].begun
  /\ h.client[s].ghost = g.client[s].ghost /\ h.client[s].inuse = FALSE
  /\ h.client[s].spawned = FALSE /\ h.client[s].limbo = FALSE
  /\ h.stage = g.stage /\ h.match = g.match /\ h.round = g.round /\ h.world = g.world
  /\ h.timeout = g.timeout

\* Slot s waits no longer, and the others as before.
StopsWaiting(g, h, s) ==
  /\ Settling(h) /\ Thins(g, h) /\ Accounts(g, h) /\ h.timeout = g.timeout
  /\ ~Waiting(h, s) /\ \A t : t # s => (Waiting(h, t) <=> Waiting(g, t))

\* StageClaimedTargetForClientBegin keeps a server sound.
LEMMA StageFacts ==
  ASSUME NEW g, Settling(g), NEW i \in Slots, Valid(g, i), g.snap[i].phase = "Claimed",
         NEW h \in State, Staged(g, h, g.rec[i].ent, i), PlaysOn(g, h, g.rec[i].ent, i)
  PROVE  StopsWaiting(g, h, g.rec[i].ent)
<1> DEFINE s == g.rec[i].ent
<1>12. Accounts(g, h)
  <2>1. ASSUME NEW t \in Slots, g.client[t].conn, g.client[t].play
        PROVE  Present(h, g.client[t].id)
    <3>1. h.client[t].conn /\ h.client[t].play /\ h.client[t].id = g.client[t].id
      BY <2>1 DEF Staged, PlaysOn
    <3> QED BY <3>1 DEF Present, Plays
  <2>2. ASSUME NEW j \in Slots, Valid(g, j), ~g.snap[j].settled
        PROVE  Present(h, g.snap[j].id)
    <3>1. Valid(h, j) /\ h.snap[j].id = g.snap[j].id /\ ~h.snap[j].settled
      BY <2>2 DEF Staged, PlaysOn, Valid
    <3> QED BY <3>1 DEF Present, Reserves
  <2>3. h.part = g.part
    BY DEF PlaysOn
  <2> QED BY <2>1, <2>2, <2>3, PresentMoves
<1> USE DEF Staged
<1>1. /\ s \in Slots /\ SnapOK(g, i) /\ ClientOK(g, s) /\ FallOK(g, s)
      /\ \A j \in Slots \ {i} : Valid(g, j) => g.rec[j].ent # s
  BY Places
<1>2. Near(g, h, s, i)
  BY <1>1 DEF Near
<1>3. g.client[s].conn /\ s \notin h.abort /\ ~g.fall[s].valid
  BY <1>1 DEF SnapOK, FallOK, Pending
<1>4. SnapOK(h, i) /\ Valid(h, i)
  <2>1. h.snap[i].valid /\ h.rec[i].ent = s /\ h.snap[i].phase = "AwaitingBegin"
    OBVIOUS
  <2>2. /\ g.client[s].ghost \in {0, i} /\ g.client[s].id = g.snap[i].id
        /\ g.snap[i].target = s /\ g.snap[i].gen = g.client[s].gen
    BY <1>1, <1>3 DEF SnapOK, Pending
  <2>3. /\ s # 0 /\ h.client[s].ghost \in {0, i} /\ h.client[s].conn
        /\ h.client[s].id = h.snap[i].id /\ h.snap[i].target = s
        /\ h.snap[i].gen = h.client[s].gen
    BY <1>1, <1>3, <2>2 DEF Slots
  <2> HIDE DEF s, Staged
  <2> QED BY <1>3, <2>1, <2>3 DEF SnapOK, Valid
<1>5. ClientOK(h, s)
  BY <1>1, <1>3 DEF ClientOK
<1>6. FallOK(h, s)
  BY <1>3 DEF FallOK
<1>7. Thins(g, h) /\ Apart(h)
  <2>1. ThinsAt(g, h, s, i)
    BY <1>4 DEF ThinsAt, PlaysOn
  <2> QED BY <1>2, <2>1, ThinsLocal
<1>8. h.world <= h.round
  BY DEF Settling
<1>9. Settling(h)
  BY <1>2, <1>4, <1>5, <1>6, <1>7, <1>8, Local
<1>10. \A t : t # s => (Waiting(h, t) <=> Waiting(g, t))
  BY <1>2, NearWaiting
<1>11. ~Waiting(h, s)
  <2>1. \A j \in Slots \ {i} : h.snap[j].valid => h.rec[j].ent # s
    BY <1>1 DEF Valid
  <2> QED BY <2>1 DEF Waiting
<1> QED BY <1>7, <1>9, <1>10, <1>11, <1>12 DEF StopsWaiting

\* Slot s has entered the level, or waits in limbo to do so.
Entered(g, h, s, blocked) ==
  /\ \A t \in Slots \ {s} : h.client[t] = g.client[t] /\ (t \in h.abort <=> t \in g.abort)
  /\ h.fall = g.fall /\ h.snap = g.snap /\ \A j \in Slots : h.rec[j].ent = g.rec[j].ent
  /\ h.client[s].id = g.client[s].id /\ h.client[s].gen = g.client[s].gen
  /\ h.client[s].conn = g.client[s].conn /\ h.client[s].begun = g.client[s].begun
  /\ h.client[s].inuse = TRUE /\ h.client[s].ghost = 0 /\ h.client[s].holder = FALSE
  /\ h.client[s].spawned = (s \notin blocked) /\ h.client[s].limbo = (s \in blocked)
  /\ s \in h.abort => /\ s \in blocked /\ ~g.fall[s].valid
                      /\ \A j \in Slots : Valid(g, j) /\ g.rec[j].ent = s
                           => g.snap[j].phase \notin Pending
  /\ h.stage = g.stage /\ h.match = g.match /\ h.round = g.round /\ h.world = g.world

\* ClientBeginDeathmatch of a client the engine has begun.
LEMMA EnterFacts ==
  ASSUME NEW g, Settling(g), NEW s \in Slots, g.client[s].begun, NEW blocked, NEW h \in State,
         Entered(g, h, s, blocked),
         \A j \in Slots : Valid(g, j) /\ g.rec[j].ent = s => g.snap[j].phase # "Reserved"
  PROVE  /\ Settling(h)
         /\ (\A j \in Slots : Valid(g, j) => g.rec[j].ent # s) => Thins(g, h)
<1> USE DEF Entered
<1>1. ClientOK(g, s) /\ FallOK(g, s) /\ g.client[s].conn
  BY DEF Settling, ClientOK
<1>2. \A j \in Slots : Valid(h, j) <=> Valid(g, j)
  BY DEF Valid
<1>3. ClientOK(h, s)
  BY <1>1 DEF ClientOK
<1>4. FallOK(h, s)
  BY <1>1, <1>2 DEF FallOK
<1>5. h.world <= h.round
  BY DEF Settling
<1>6. Apart(h)
  <2>1. Apart(g)
    BY DEF Settling
  <2>2. \A t \in Slots : h.client[t].conn = g.client[t].conn /\ h.client[t].id = g.client[t].id
    OBVIOUS
  <2> QED BY <1>2, <2>1, <2>2 DEF Apart
<1>7. CASE \A j \in Slots : Valid(g, j) => g.rec[j].ent # s
  <2>1. Near(g, h, s, 0) /\ 0 \notin Slots
    BY <1>7 DEF Near, Slots
  <2>2. Settling(h)
    BY <1>3, <1>4, <1>5, <1>6, <2>1, Local
  <2>3. Thins(g, h)
    <3>1. ThinsAt(g, h, s, 0)
      BY <1>1, <2>1 DEF ThinsAt
    <3> QED BY <2>1, <3>1, ThinsLocal
  <2> QED BY <2>2, <2>3
<1>8. CASE ~\A j \in Slots : Valid(g, j) => g.rec[j].ent # s
  <2>1. PICK i \in Slots : Valid(g, i) /\ g.rec[i].ent = s
    BY <1>8
  <2>2. SnapOK(g, i) /\ \A j \in Slots \ {i} : Valid(g, j) => g.rec[j].ent # s
    BY <2>1, Places
  <2>3. Near(g, h, s, i)
    BY <2>2 DEF Near
  <2>5. h.rec[i].ent = s /\ h.snap[i] = g.snap[i] /\ s # 0
    BY <2>1 DEF Slots
  <2>4. SnapOK(h, i)
    <3>1. h.client[s].conn /\ h.client[s].begun
      BY <1>1
    <3>2. g.snap[i].phase \in Pending => s \notin h.abort
      BY <2>1
    <3>3. /\ g.snap[i].phase \notin {"Expiring", "Reserved"} /\ g.client[s].id = g.snap[i].id
          /\ g.snap[i].phase \in Pending =>
               g.snap[i].target = s /\ g.snap[i].gen = g.client[s].gen
      BY <1>1, <2>1, <2>2 DEF SnapOK
    <3>4. /\ h.client[s].inuse = TRUE /\ h.client[s].ghost = 0
          /\ h.client[s].gen = g.client[s].gen /\ h.client[s].id = g.client[s].id
      OBVIOUS
    <3> QED BY <2>5, <3>1, <3>2, <3>3, <3>4 DEF SnapOK
  <2>6. Settling(h)
    BY <1>3, <1>4, <1>5, <1>6, <2>3, <2>4, <2>5, Local
  <2> QED BY <1>8, <2>6
<1> QED BY <1>7, <1>8

\* Slot s plays, and nothing else has changed.
Restarted(g, h, s) ==
  /\ Settling(h) /\ Thins(g, h) /\ \A t : Waiting(h, t) <=> Waiting(g, t)
  /\ h.timeout = g.timeout /\ h.snap = g.snap /\ h.rec = g.rec /\ h.fall = g.fall
  /\ h.part = g.part /\ h.client[s].ghost = 0 /\ \A t \in Slots \ {s} : h.client[t] = g.client[t]

\* It plays if it is a member of the match.
RestartedAs(g, h, s, member) == Restarted(g, h, s) /\ h.client[s].play = member

\* RestartPendingRestoreTarget without a timeout to resume: the client plays.
LEMMA RestartFacts ==
  ASSUME NEW g, Settling(g), NEW s \in Slots, g.client[s].begun, ~g.fall[s].valid,
         \A j \in Slots : Valid(g, j) => g.rec[j].ent # s, NEW member \in BOOLEAN, NEW blocked
  PROVE  RestartedAs(g, Restart(g, s, FALSE, member, blocked), s, member)
<1> DEFINE c == [g.client[s] EXCEPT !.holds = FALSE, !.play = member, !.inactive = FALSE]
           d == [c EXCEPT !.inuse = TRUE, !.holder = FALSE, !.ghost = 0,
                          !.spawned = s \notin blocked, !.limbo = s \in blocked]
           A == IF s \in blocked THEN g.abort \cup {s} ELSE g.abort \ {s}
           h == Restart(g, s, FALSE, member, blocked)
           k == [g EXCEPT !.client = [g.client EXCEPT ![s] = d], !.abort = A]
<1>1. g \in State /\ g.client \in [Slots -> Client] /\ g.abort \subseteq Slots
  BY StateFields DEF Settling
<1>2. d \in Client
  <2>1. g.client[s] \in Client
    BY <1>1
  <2>2. c \in Client
    BY <2>1 DEF Client
  <2> HIDE DEF c
  <2>3. (s \notin blocked) \in BOOLEAN /\ (s \in blocked) \in BOOLEAN
    OBVIOUS
  <2> QED BY <2>2, <2>3 DEF Client
<1>3. /\ d.id = g.client[s].id /\ d.gen = g.client[s].gen /\ d.conn = g.client[s].conn
      /\ d.begun = g.client[s].begun /\ d.inuse = TRUE /\ d.ghost = 0 /\ d.holder = FALSE
      /\ d.spawned = (s \notin blocked) /\ d.limbo = (s \in blocked) /\ d.play = member
  BY ZenonT(40), <1>1 DEF Client
<1>4. A \subseteq Slots /\ (s \in A => s \in blocked)
      /\ \A t \in Slots \ {s} : t \in A <=> t \in g.abort
  BY <1>1
<1>5. h = k
  <2>1. [[g EXCEPT !.client[s] = c].client EXCEPT ![s] = d] = [g.client EXCEPT ![s] = d]
    BY <1>1 DEF State
  <2>2. EnterLevel([g EXCEPT !.client[s] = c], s, blocked)
          = [g EXCEPT !.client = [g.client EXCEPT ![s] = d]]
    BY <1>1, <2>1 DEF EnterLevel, State
  <2>3. [g EXCEPT !.client = [g.client EXCEPT ![s] = d]].abort = g.abort
    BY <1>1 DEF State
  <2> QED BY <2>2, <2>3 DEF Restart
<1> HIDE DEF c, d, A, h
<1>6. k \in State
  BY <1>1, <1>2, <1>4 DEF State
<1>7. /\ k.snap = g.snap /\ k.rec = g.rec /\ k.fall = g.fall /\ k.abort = A
      /\ k.stage = g.stage /\ k.match = g.match /\ k.round = g.round /\ k.world = g.world
      /\ k.timeout = g.timeout /\ k.part = g.part /\ k.client[s] = d
      /\ \A t \in Slots \ {s} : k.client[t] = g.client[t]
  BY <1>1 DEF State
<1> HIDE DEF k
<1>8. Settling(k) /\ Thins(g, k)
  <2>1. Entered(g, k, s, blocked)
    BY <1>3, <1>4, <1>7 DEF Entered
  <2> QED BY <1>6, <2>1, EnterFacts
<1>9. \A t : Waiting(k, t) <=> Waiting(g, t)
  BY <1>7 DEF Waiting
<1>10. k.client[s].ghost = 0 /\ k.client[s].play = member
  BY <1>3, <1>7
<1> QED BY <1>5, <1>7, <1>8, <1>9, <1>10 DEF h, Restarted, RestartedAs

\* The reservations other than i stay.
Spares(g, h, i) == \A j \in Slots \ {i} : Valid(g, j) => Valid(h, j)

\* What ending reservation i does.
Ending(g, h, i) ==
  /\ Settling(h) /\ Ends(g, h) /\ Spares(g, h, i)
  /\ Valid(h, i) => h.snap[i].phase = "AwaitingBegin"

\* The reservation of slot s was ended by the way g, k, and its timeout after that.
LEMMA EndingAt ==
  ASSUME NEW g, Owned(g), NEW k, Thins(g, k), Accounts(g, k), NEW s \in Slots,
         NEW i \in Slots, k.timeout = g.timeout,
         ~Waiting(k, s), \A t : t # s /\ Waiting(g, t) => Waiting(k, t),
         NEW h, Released(k, h, s), Spares(g, k, i),
         Valid(k, i) => k.snap[i].phase = "AwaitingBegin"
  PROVE  Ending(g, h, i)
<1>1. Settling(h) /\ Thins(k, h) /\ Same(k, h) /\ \A t : Waiting(h, t) <=> Waiting(k, t)
  BY DEF Released
<1>2. Thins(g, h)
  BY <1>1, ThinsTransitive
<1>3. IF g.timeout.ent = s /\ s # 0 THEN h.timeout.ent = 0 ELSE h.timeout = g.timeout
  BY DEF Released
<1>7. Accounts(g, h)
  BY <1>1, AccountsTransitive DEF Same
<1>4. Ends(g, h)
  BY <1>1, <1>2, <1>3, <1>7, EndsAt
<1>5. Valid(h, i) => h.snap[i].phase = "AwaitingBegin"
  BY <1>1 DEF Same, SameSnap, Valid
<1>6. Spares(g, h, i)
  BY <1>1 DEF Same, SameSnap, Spares, Valid
<1> QED BY <1>1, <1>4, <1>5, <1>6 DEF Ending

\* The claim x was the claim y.
Awaits(y, x) ==
  /\ x.phase = "AwaitingBegin" /\ x.id = y.id /\ x.target = y.target /\ x.gen = y.gen
  /\ x.match = y.match /\ x.round = y.round /\ x.world = y.world /\ x.settled = y.settled

\* Record i shows the claim x.
Marked(g, i, x) == [g EXCEPT !.snap[i] = x, !.rec[i].code = FALSE]

\* The claim of slot s is staged; its reservation stays until ClientBegin.
LEMMA StageIs ==
  ASSUME NEW g, Settling(g), NEW i \in Slots, Valid(g, i), g.snap[i].phase = "Claimed",
         NEW x \in Reservation, Awaits(g.snap[i], x), NEW h,
         h = Stage(Marked(g, i, x), g.rec[i].ent, FALSE)
  PROVE  StopsWaiting(g, h, g.rec[i].ent) /\ Staged(g, h, g.rec[i].ent, i)
<1> DEFINE s == g.rec[i].ent
           r == [g.rec[i] EXCEPT !.code = FALSE]
           c == [g.client[s] EXCEPT !.inuse = FALSE, !.holder = FALSE, !.spawned = FALSE,
                                    !.limbo = FALSE]
           sn == [g.snap EXCEPT ![i] = x]
           re == [g.rec EXCEPT ![i] = r]
           cl == [g.client EXCEPT ![s] = c]
           k == [g EXCEPT !.snap = sn, !.rec = re, !.client = cl, !.abort = g.abort \ {s}]
<1>1. g \in State /\ s \in Slots /\ g.snap[i] \in Reservation
  BY Places DEF Settling
<1>2. /\ g.client \in [Slots -> Client] /\ g.rec \in [Slots -> Record]
      /\ g.snap \in [Slots -> Snap] /\ g.abort \subseteq Slots
  BY <1>1, StateFields
<1>3. c \in Client /\ r \in Record /\ x \in Snap
  <2>1. g.client[s] \in Client /\ g.rec[i] \in Record
    BY <1>1, <1>2
  <2> QED BY <2>1 DEF Client, Record, Snap
<1>4. /\ c.id = g.client[s].id /\ c.gen = g.client[s].gen /\ c.conn = g.client[s].conn
      /\ c.begun = g.client[s].begun /\ c.ghost = g.client[s].ghost /\ c.inuse = FALSE
      /\ c.spawned = FALSE /\ c.limbo = FALSE /\ c.play = g.client[s].play
  BY <1>1, <1>2 DEF Client
<1>5. r.ent = s
  BY <1>2 DEF Record
<1>6. /\ x.valid /\ x.id = g.snap[i].id /\ x.target = g.snap[i].target
      /\ x.gen = g.snap[i].gen /\ x.match = g.snap[i].match /\ x.round = g.snap[i].round
      /\ x.world = g.snap[i].world /\ x.phase = "AwaitingBegin"
      /\ x.settled = g.snap[i].settled
  BY ReservationFields DEF Awaits
<1>7. h = k
  BY <1>1 DEF Stage, Marked, State
<1> HIDE DEF c, r
<1>8. /\ sn \in [Slots -> Snap] /\ sn[i] = x /\ \A j \in Slots \ {i} : sn[j] = g.snap[j]
      /\ re \in [Slots -> Record] /\ re[i] = r /\ \A j \in Slots \ {i} : re[j] = g.rec[j]
      /\ cl \in [Slots -> Client] /\ cl[s] = c /\ \A t \in Slots \ {s} : cl[t] = g.client[t]
  BY <1>1, <1>2, <1>3
<1> HIDE DEF sn, re, cl
<1>9. k \in State
  BY <1>1, <1>2, <1>8 DEF State
<1>10. /\ k.snap = sn /\ k.rec = re /\ k.client = cl /\ k.abort = g.abort \ {s}
       /\ k.fall = g.fall /\ k.timeout = g.timeout /\ k.part = g.part
       /\ k.stage = g.stage /\ k.match = g.match /\ k.round = g.round /\ k.world = g.world
  BY <1>1 DEF State
<1> HIDE DEF k
<1>11. Staged(g, k, s, i)
  BY <1>4, <1>5, <1>6, <1>8, <1>10 DEF Staged
<1>13. PlaysOn(g, k, s, i)
  BY <1>4, <1>6, <1>8, <1>10 DEF PlaysOn
<1>12. StopsWaiting(g, k, s)
  BY <1>9, <1>11, <1>13, StageFacts
<1> QED BY <1>7, <1>11, <1>12

\* AbortPendingRestore ends a claim: it is staged for ClientBegin, or the
\* client goes on without his state.
LEMMA AbortFacts ==
  ASSUME NEW g, Sound(g), NEW i \in Slots, Valid(g, i),
         g.snap[i].phase \in {"Claimed", "Reinstating"}, NEW release \in BOOLEAN, NEW blocked
  PROVE  Ending(g, Abort(g, i, release, TRUE, blocked), i)
<1> DEFINE s == g.rec[i].ent
           f == IF release THEN Release(g, i) ELSE g
           h == Abort(g, i, release, TRUE, blocked)
           member == BelongsToMatch(g, i)
<1>1. Settling(g) /\ Owned(g) /\ g \in State
  BY DEF Sound, Settling
<1>2. RestoreTarget(g, i) = s /\ s \in Slots /\ s # 0
  BY <1>1, TargetIs, Places DEF Slots
<1>3. f \in State /\ Alike(g, f)
  BY <1>1, ReleaseAlike, AlikeReflexive
<1>4. /\ Settling(f) /\ Thins(g, f) /\ Accounts(g, f)
      /\ \A t : Waiting(f, t) <=> Waiting(g, t)
  BY <1>1, <1>3, AlikeSound, AlikeWaiting DEF Ends
<1>5. /\ f.timeout = g.timeout /\ f.rec[i].ent = s /\ Valid(f, i)
      /\ f.snap[i].phase = g.snap[i].phase
  BY <1>3 DEF Alike, Resembles, SameSnap, Valid
<1> HIDE DEF f
<1>6. f.snap[i] \in Reservation /\ SnapOK(f, i) /\ FallOK(f, s)
      /\ \A j \in Slots \ {i} : Valid(f, j) => f.rec[j].ent # s
  BY <1>4, <1>5, Places
<1>7. g.timeout.ent = s => g.timeout.auto /\ ~g.timeout.resuming /\ g.timeout.left > 0
  BY <1>1, <1>2 DEF Owned
<1>8. CASE g.snap[i].phase = "Claimed"
  <2> DEFINE x == [f.snap[i] EXCEPT !.phase = "AwaitingBegin", !.elapsed = 0, !.reinstate = 0,
                                    !.released = g.snap[i].released \/ release]
             k == Stage(Marked(f, i, x), s, FALSE)
  <2>1. x \in Reservation
    <3>1. (g.snap[i].released \/ release) \in BOOLEAN /\ 0 \in 0..Delay /\ 0 \in Nat
      BY GhostAssumption
    <3> QED BY <1>6, <3>1 DEF Reservation, Phases
  <2>2. Awaits(f.snap[i], x) /\ x.phase = "AwaitingBegin"
    BY <1>6 DEF Reservation, Awaits
  <2>3. h = ResumeFor(k, s)
    BY <1>2, <1>8 DEF Abort, Stage, Marked, f
  <2> HIDE DEF x, h
  <2>0. StopsWaiting(f, k, s) /\ k.snap[i].phase = "AwaitingBegin" /\ Spares(f, k, i)
    <3>1. k = Stage(Marked(f, i, x), f.rec[i].ent, FALSE)
      BY <1>5
    <3> HIDE DEF k
    <3>2. StopsWaiting(f, k, f.rec[i].ent) /\ k.snap[i].phase = "AwaitingBegin"
          /\ Spares(f, k, i)
      <4>1. Settling(f) /\ Valid(f, i) /\ f.snap[i].phase = "Claimed" /\ Awaits(f.snap[i], x)
        BY <1>4, <1>5, <1>8, <2>2
      <4>2. StopsWaiting(f, k, f.rec[i].ent)
        BY <2>1, <3>1, <4>1, StageIs
      <4>3. Staged(f, k, f.rec[i].ent, i)
        BY <2>1, <3>1, <4>1, StageIs
      <4> QED BY <4>2, <4>3 DEF Staged, Spares, Valid
    <3> QED BY <1>5, <3>2
  <2> HIDE DEF k
  <2>4. /\ Settling(k) /\ Thins(f, k) /\ Accounts(f, k) /\ ~Waiting(k, s)
        /\ \A t : t # s => (Waiting(k, t) <=> Waiting(f, t))
        /\ k.timeout = f.timeout /\ k.snap[i].phase = "AwaitingBegin"
    BY <2>0 DEF StopsWaiting
  <2>5. Released(k, ResumeFor(k, s), s)
    BY <1>2, <1>5, <1>7, <2>4, ResumeForFacts
  <2>6. Thins(g, k)
    BY <1>4, <2>4, ThinsTransitive
  <2>7. \A t : t # s /\ Waiting(g, t) => Waiting(k, t)
    BY <1>4, <2>4
  <2>8. Spares(g, k, i)
    BY <1>3, <2>0 DEF Alike, Resembles, SameSnap, Spares, Valid
  <2>10. Accounts(g, k)
    BY <1>4, <2>4, AccountsTransitive
  <2>9. Ending(g, h, i)
    BY <1>1, <1>2, <1>5, <2>2, <2>3, <2>4, <2>5, <2>6, <2>7, <2>8, <2>10, EndingAt
  <2> QED BY <2>9 DEF h
<1>9. CASE g.snap[i].phase = "Reinstating"
  <2> DEFINE k == ClearRecord(f, i)
             m == Restart(k, s, FALSE, member, blocked)
  <2>1. h = ResumeFor(m, s)
    BY <1>2, <1>9 DEF Abort, Restart, f
  <2> HIDE DEF h
  <2>2. Settling(k) /\ Thins(f, k) /\ Cleared(f, k, i)
    BY <1>4, ClearRecordFacts
  <2>3. ~Waiting(k, s) /\ \A t : t # s => (Waiting(k, t) <=> Waiting(f, t))
    BY <1>4, <1>5, <2>2, ClearedWaiting
  <2> HIDE DEF k
  <2>4. f.client[s].begun /\ f.client[s].conn /\ ~f.fall[s].valid
    BY <1>5, <1>6, <1>9, <1>2 DEF SnapOK, FallOK, Pending
  <2>5. k.client[s].begun /\ ~k.fall[s].valid
    BY <1>2, <1>5, <2>2, <2>4 DEF Cleared, Leaves
  <2>6. \A j \in Slots : Valid(k, j) => k.rec[j].ent # s
    BY <1>6, <2>2 DEF Cleared, Valid
  <2>7. member \in BOOLEAN
    BY DEF BelongsToMatch
  <2>19. Matched(f) => member
    <3>1. Matched(f) => Matched(g)
      BY <1>3 DEF Alike, Resembles, SameSnap, Matched, Valid
    <3> QED BY <3>1 DEF BelongsToMatch, Matched, Valid
  <2> HIDE DEF member
  <2>20. RestartedAs(k, m, s, member)
    BY <1>2, <2>2, <2>5, <2>6, <2>7, RestartFacts
  <2> HIDE DEF m
  <2>0. Restarted(k, m, s) /\ m.client[s].play = member
    BY <2>20 DEF RestartedAs
  <2>8. /\ Settling(m) /\ Thins(k, m) /\ \A t : Waiting(m, t) <=> Waiting(k, t)
        /\ m.timeout = k.timeout /\ m.snap = k.snap
    BY <2>0 DEF Restarted
  <2>9. m.timeout = g.timeout /\ ~Valid(m, i)
    BY <1>5, <2>2, <2>8 DEF Cleared, Valid
  <2>10. Released(m, ResumeFor(m, s), s)
    BY <1>2, <1>7, <2>8, <2>9, ResumeForFacts
  <2>11. Thins(g, m)
    BY <1>4, <2>2, <2>8, ThinsTransitive
  <2>12. ~Waiting(m, s) /\ \A t : t # s /\ Waiting(g, t) => Waiting(m, t)
    BY <1>4, <2>3, <2>8
  <2>13. Spares(g, m, i)
    BY <1>3, <2>2, <2>8 DEF Alike, Resembles, SameSnap, Cleared, Spares, Valid
  <2>15. m.part = f.part /\ \A j \in Slots \ {i} : m.snap[j] = f.snap[j]
    BY <2>0, <2>2 DEF Restarted, Cleared
  <2>16. /\ m.client[s].conn /\ m.client[s].id = f.client[s].id
         /\ f.client[s].id = f.snap[i].id
         /\ \A t \in Slots \ {s} : m.client[t] = f.client[t]
    <3>1. f.client[s].id = f.snap[i].id
      BY <1>5, <1>6, <2>4 DEF SnapOK
    <3>2. Thins(f, m)
      BY <2>2, <2>8, ThinsTransitive
    <3>3. m.client[s].conn /\ m.client[s].id = f.client[s].id
      BY <1>2, <2>4, <3>2 DEF Thins
    <3>4. \A t \in Slots \ {s} : m.client[t] = f.client[t]
      BY <1>5, <2>0, <2>2 DEF Restarted, Cleared
    <3> QED BY <3>1, <3>3, <3>4
  <2>17. Accounts(f, m)
    <3>1. ASSUME Matched(f) PROVE Plays(m, f.client[s].id)
      BY <1>2, <2>0, <2>19, <2>16, <3>1 DEF Plays
    <3>2. ASSUME NEW t \in Slots, Matched(f), f.client[t].conn, f.client[t].play
          PROVE  Present(m, f.client[t].id)
      <4>1. CASE t = s
        BY <3>1, <3>2, <4>1 DEF Present
      <4>2. CASE t # s
        BY <2>16, <3>2, <4>2 DEF Present, Plays
      <4> QED BY <4>1, <4>2
    <3>3. ASSUME NEW j \in Slots, Matched(f), Valid(f, j), ~f.snap[j].settled
          PROVE  Present(m, f.snap[j].id)
      <4>1. CASE j = i
        BY <2>16, <3>1, <3>3, <4>1 DEF Present
      <4>2. CASE j # i
        BY <2>15, <3>3, <4>2 DEF Present, Reserves, Valid
      <4> QED BY <4>1, <4>2
    <3> QED BY <2>15, <3>2, <3>3, PresentMoves
  <2>18. Accounts(g, m)
    BY <1>4, <2>17, AccountsTransitive
  <2>14. Ending(g, h, i)
    BY <1>1, <1>2, <2>1, <2>9, <2>10, <2>11, <2>12, <2>13, <2>18, EndingAt
  <2> QED BY <2>14 DEF h
<1> QED BY <1>8, <1>9

-----------------------------------------------------------------------------
(* A reservation is ended.                                                  *)

\* Settling a departure before, and returning an item after, change nothing.
LEMMA ReleasedAlike ==
  ASSUME NEW g, Settling(g), NEW f \in State, Alike(g, f), NoneEnters(g, f),
         NEW s, NEW m, Released(f, m, s),
         NEW n \in State, Alike(m, n), NoneEnters(m, n)
  PROVE  Released(g, n, s)
<1>1. Settling(m) /\ g \in State /\ m \in State
  BY DEF Released, Settling
<1>2. Settling(n) /\ Thins(g, f) /\ Thins(m, n)
  BY <1>1, AlikeSound DEF Ends
<1>3. Thins(f, m) /\ Same(f, m)
  BY DEF Released
<1>4. Thins(g, n)
  BY <1>2, <1>3, ThinsTransitive
<1>8. Accounts(g, n)
  <2>1. Accounts(g, m)
    BY <1>2, <1>3, AccountsTransitive DEF Same, Alike, Resembles
  <2>2. Thins(g, m)
    BY <1>2, <1>3, ThinsTransitive
  <2> QED BY <2>1, <2>2, AccountsTransitive DEF Alike, Resembles
<1>5. Same(g, n)
  <2>1. NoneEnters(g, n)
    BY <1>3 DEF Same, NoneEnters
  <2> QED BY <1>3, <1>8, <2>1 DEF Same, Alike, Resembles, SameClient, SameSnap
<1>6. \A t : Waiting(n, t) <=> Waiting(g, t)
  BY <1>1, AlikeWaiting DEF Released
<1>7. f.timeout = g.timeout /\ n.timeout = m.timeout
  BY DEF Alike, Resembles
<1> QED BY <1>2, <1>4, <1>5, <1>6, <1>7 DEF Released

\* Reservation i has ended.
Gone(g, h, i) == Ending(g, h, i) /\ ~Valid(h, i)

\* A reservation that is settled and whose timeout is revoked goes with its record.
LEMMA RevokedEnding ==
  ASSUME NEW g, Sound(g), NEW i \in Slots, Valid(g, i), NEW n, Released(g, n, g.rec[i].ent),
         n.snap[i].settled
  PROVE  Gone(g, ClearRecord(n, i), i)
<1> DEFINE s == g.rec[i].ent
           h == ClearRecord(n, i)
<1>1. /\ Settling(n) /\ Thins(g, n) /\ Same(g, n)
      /\ \A t : Waiting(n, t) <=> Waiting(g, t)
      /\ IF g.timeout.ent = s /\ s # 0 THEN n.timeout.ent = 0 ELSE n.timeout = g.timeout
  BY DEF Released
<1>2. n.rec[i].ent = s /\ Valid(n, i)
  BY <1>1 DEF Same, SameSnap, Valid
<1>3. Settling(h) /\ Thins(n, h) /\ Cleared(n, h, i)
  BY <1>1, ClearRecordFacts
<1>4. ~Waiting(h, s) /\ \A t : t # s => (Waiting(h, t) <=> Waiting(n, t))
  BY <1>1, <1>2, <1>3, ClearedWaiting
<1> HIDE DEF h
<1>5. h.timeout = n.timeout /\ ~Valid(h, i)
  BY <1>3 DEF Cleared
<1>6. Thins(g, h)
  BY <1>1, <1>3, ThinsTransitive
<1>7. IF g.timeout.ent = s /\ s # 0 THEN h.timeout.ent = 0 ELSE h.timeout = g.timeout
  BY <1>1, <1>5
<1>11. Accounts(g, h)
  BY <1>1, <1>3, ClearedAccounts, AccountsTransitive DEF Same
<1>8. Ends(g, h)
  BY <1>1, <1>4, <1>6, <1>7, <1>11, EndsAt DEF Sound
<1>9. Spares(g, h, i)
  BY <1>1, <1>3 DEF Same, SameSnap, Cleared, Spares, Valid
<1>10. Gone(g, h, i)
  BY <1>3, <1>5, <1>8, <1>9 DEF Ending, Gone
<1> QED BY <1>10 DEF h

\* Ended, settled or not, its item returned or not.
LEMMA RevokeEnding ==
  ASSUME NEW g, Sound(g), NEW i \in Slots, Valid(g, i), NEW resume
  PROVE  /\ Gone(g, ClearRecord(Revoke(SettleSnap(g, i), i, resume), i), i)
         /\ Gone(g, ClearRecord(Release(Revoke(SettleSnap(g, i), i, resume), i), i), i)
<1> DEFINE f == SettleSnap(g, i)
           m == Revoke(f, i, resume)
           n == Release(m, i)
<1>1. Settling(g) /\ g \in State
  BY DEF Sound, Settling
<1>2. f \in State /\ Alike(g, f) /\ f.snap[i].settled /\ NoneEnters(g, f)
  BY <1>1, SettleSnapAlike
<1>3. Settling(f) /\ f.rec[i].ent = g.rec[i].ent /\ Valid(f, i)
  BY <1>1, <1>2, AlikeSound DEF Alike, Resembles, SameSnap, Valid
<1> HIDE DEF f
<1>4. Released(f, m, g.rec[i].ent)
  BY <1>3, RevokeFacts
<1> HIDE DEF m
<1>5. m \in State
  BY <1>4 DEF Released, Settling
<1>6. n \in State /\ Alike(m, n) /\ NoneEnters(m, n) /\ NoneEnters(m, m)
  BY <1>5, ReleaseAlike DEF NoneEnters
<1> HIDE DEF n
<1>7. Released(g, m, g.rec[i].ent)
  BY <1>1, <1>2, <1>4, <1>5, <1>6, AlikeReflexive, ReleasedAlike
<1>8. Released(g, n, g.rec[i].ent)
  BY <1>1, <1>2, <1>4, <1>6, ReleasedAlike
<1>10. m.snap[i].settled /\ n.snap[i].settled
  BY <1>2, <1>3, <1>4, <1>6 DEF Released, Same, Alike, Resembles, SameSnap, Valid
<1>9. Gone(g, ClearRecord(m, i), i) /\ Gone(g, ClearRecord(n, i), i)
  BY <1>7, <1>8, <1>10, RevokedEnding
<1> QED BY <1>9 DEF m, n, f

\* ExpireSnapshot and DiscardSnapshotAfterWorldRebuild end any reservation.
LEMMA ExpireFacts ==
  ASSUME NEW g, Sound(g), NEW i \in Slots, Valid(g, i), NEW blocked
  PROVE  /\ Ending(g, Expire(g, i, blocked), i)
         /\ Ending(g, Discard(g, i, blocked), i)
         /\ Ending(g, ExpireOrDiscard(g, i, blocked), i)
         /\ g.snap[i].phase \notin {"Claimed", "Reinstating"} =>
              ~Valid(ExpireOrDiscard(g, i, blocked), i)
<1>1. CASE g.snap[i].phase \in {"Claimed", "Reinstating"}
  <2>1. Expire(g, i, blocked) = Abort(g, i, TRUE, TRUE, blocked)
    BY <1>1 DEF Expire, Valid
  <2>2. Discard(g, i, blocked) = Abort(g, i, FALSE, TRUE, blocked)
    BY <1>1 DEF Discard, Valid
  <2>3. Ending(g, Abort(g, i, TRUE, TRUE, blocked), i)
    BY <1>1, AbortFacts
  <2>4. Ending(g, Abort(g, i, FALSE, TRUE, blocked), i)
    BY <1>1, AbortFacts
  <2> QED BY <1>1, <2>1, <2>2, <2>3, <2>4 DEF ExpireOrDiscard
<1>2. CASE g.snap[i].phase \notin {"Claimed", "Reinstating"}
  <2> DEFINE e == ClearRecord(Release(Revoke(SettleSnap(g, i), i, TRUE), i), i)
             d == ClearRecord(Revoke(SettleSnap(g, i), i, FALSE), i)
  <2>1. Expire(g, i, blocked) = e /\ Discard(g, i, blocked) = d
    BY <1>2 DEF Expire, Discard, Valid
  <2>2. Gone(g, e, i) /\ Gone(g, d, i)
    BY RevokeEnding
  <2> HIDE DEF e, d
  <2> QED BY <2>1, <2>2 DEF ExpireOrDiscard, Gone
<1> QED BY <1>1, <1>2

\* Reservation i has ended, and nobody has waited for it.
Faded(g, h, i) ==
  /\ Settling(h) /\ Thins(g, h) /\ Spares(g, h, i) /\ ~Valid(h, i)
  /\ h.timeout = g.timeout /\ \A t : Waiting(h, t) <=> Waiting(g, t)

\* A handoff has nobody waiting: its timeout is another's.
LEMMA HandoffEnding ==
  ASSUME NEW g, Settling(g), NEW i \in Slots, Valid(g, i), g.snap[i].phase = "AwaitingBegin",
         NEW f \in State, Alike(g, f)
  PROVE  LET h == ClearRecord(f, i) IN
         /\ Faded(g, h, i) /\ Cleared(f, h, i)
         /\ f.snap[i].settled => Gone(g, h, i)
<1> DEFINE s == g.rec[i].ent
           h == ClearRecord(f, i)
<1>1. Settling(g) /\ g \in State /\ \A j \in Slots \ {i} : Valid(g, j) => g.rec[j].ent # s
  BY Places DEF Settling
<1>2. Settling(f) /\ Thins(g, f) /\ \A t : Waiting(f, t) <=> Waiting(g, t)
  BY <1>1, AlikeSound, AlikeWaiting DEF Ends
<1>3. f.timeout = g.timeout /\ f.rec[i].ent = s /\ Valid(f, i)
  BY DEF Alike, Resembles, SameSnap, Valid
<1>4. Settling(h) /\ Thins(f, h) /\ Cleared(f, h, i)
  BY <1>2, ClearRecordFacts
<1>5. ~Waiting(h, s) /\ \A t : t # s => (Waiting(h, t) <=> Waiting(f, t))
  BY <1>2, <1>3, <1>4, ClearedWaiting
<1>6. ~Waiting(g, s)
  BY <1>1 DEF Waiting, Valid
<1> HIDE DEF h
<1>7. h.timeout = g.timeout /\ ~Valid(h, i)
  BY <1>3, <1>4 DEF Cleared
<1>8. \A t : Waiting(h, t) <=> Waiting(g, t)
  BY <1>2, <1>5, <1>6
<1>9. Thins(g, h)
  BY <1>2, <1>4, ThinsTransitive
<1>11. Spares(g, h, i)
  BY <1>4 DEF Alike, Resembles, SameSnap, Cleared, Spares, Valid
<1>10. Faded(g, h, i)
  BY <1>4, <1>7, <1>8, <1>9, <1>11 DEF Faded
<1>12. ASSUME f.snap[i].settled PROVE Gone(g, h, i)
  <2>1. Accounts(g, h)
    BY <1>2, <1>4, <1>12, ClearedAccounts, AccountsTransitive DEF Alike, Resembles
  <2> QED BY <1>4, <1>7, <1>8, <1>9, <1>11, <2>1 DEF Gone, Ending, Ends, Keeps
<1> QED BY <1>4, <1>10, <1>12 DEF h

\* The handoff of slot s is in the slot, and its client waits outside.
HandedOff(g, h, s, match) ==
  /\ \A t \in Slots \ {s} : h.client[t] = g.client[t] /\ h.fall[t] = g.fall[t]
  /\ h.snap = g.snap /\ h.rec = g.rec /\ h.abort = g.abort /\ h.timeout = g.timeout
  /\ h.stage = g.stage /\ h.match = g.match /\ h.round = g.round /\ h.world = g.world
  /\ h.part = g.part
  /\ h.client[s].id = g.client[s].id /\ h.client[s].gen = g.client[s].gen
  /\ h.client[s].conn = g.client[s].conn /\ h.client[s].begun = g.client[s].begun
  /\ h.client[s].ghost = 0 /\ h.client[s].spawned = FALSE /\ h.client[s].limbo = FALSE
  /\ h.fall[s] = [valid |-> TRUE, id |-> g.client[s].id, gen |-> g.client[s].gen,
                  match |-> match, fresh |-> FALSE]

\* PrepareAwaitingBeginFallback keeps a server sound.
LEMMA HandOffFacts ==
  ASSUME NEW g, Settling(g), NEW s \in Slots, g.client[s].conn, s \notin g.abort,
         \A j \in Slots : Valid(g, j) => g.rec[j].ent # s,
         NEW match, NEW h \in State, HandedOff(g, h, s, match)
  PROVE  Settling(h) /\ Thins(g, h) /\ \A t : Waiting(h, t) <=> Waiting(g, t)
<1>1. ClientOK(g, s) /\ g.client[s].conn
  BY DEF Settling
<1>2. Near(g, h, s, 0) /\ 0 \notin Slots
  BY DEF Near, HandedOff, Slots
<1>3. ThinsAt(g, h, s, 0)
  BY <1>2 DEF ThinsAt, HandedOff
<1>4. Thins(g, h) /\ Apart(h)
  BY <1>2, <1>3, ThinsLocal
<1>5. ClientOK(h, s)
  BY <1>1 DEF ClientOK, HandedOff
<1>6. FallOK(h, s)
  <2>1. /\ h.client[s].conn /\ h.fall[s].gen = h.client[s].gen
        /\ h.fall[s].id = h.client[s].id /\ s \notin h.abort
    BY <1>1 DEF HandedOff
  <2>2. \A j \in Slots : Valid(h, j) => h.rec[j].ent # s
    BY DEF HandedOff, Valid
  <2> QED BY <2>1, <2>2 DEF FallOK
<1>7. h.world <= h.round
  BY DEF HandedOff, Settling
<1>8. Settling(h)
  BY <1>2, <1>4, <1>5, <1>6, <1>7, Local
<1>9. \A t : Waiting(h, t) <=> Waiting(g, t)
  BY DEF HandedOff, Waiting
<1> QED BY <1>4, <1>8, <1>9

\* MakeFallback ends the reservation and keeps the handoff.
LEMMA MakeFallbackFacts ==
  ASSUME NEW g, Settling(g), NEW i \in Slots, Valid(g, i), g.snap[i].phase = "AwaitingBegin"
  PROVE  LET h == MakeFallback(g, i)
             s == g.rec[i].ent
         IN /\ Gone(g, h, i)
            /\ h.fall[s].valid /\ h.client[s].ghost = 0 /\ h.timeout = g.timeout
            /\ \A t \in Slots \ {s} : h.client[t] = g.client[t] /\ h.fall[t] = g.fall[t]
<1> DEFINE s == g.rec[i].ent
           f == IF BelongsToMatch(g, i) THEN g ELSE SettleSnap(g, i)
           k == ClearRecord(f, i)
           x == [valid |-> TRUE, id |-> g.client[s].id, gen |-> g.client[s].gen,
                 match |-> g.match, fresh |-> FALSE]
           c == [k.client[s] EXCEPT !.spawned = FALSE, !.limbo = FALSE, !.holds = FALSE,
                                    !.ghost = 0, !.play = BelongsToMatch(g, i),
                                    !.inactive = FALSE]
           h == [k EXCEPT !.fall = [k.fall EXCEPT ![s] = x],
                          !.client = [k.client EXCEPT ![s] = c]]
<1>1. Settling(g) /\ g \in State /\ s \in Slots /\ g.client[s] \in Client /\ ClientOK(g, s)
      /\ SnapOK(g, i) /\ \A j \in Slots \ {i} : Valid(g, j) => g.rec[j].ent # s
  BY Places DEF Sound, Settling
<1>2. g.client[s].conn /\ s \notin g.abort /\ g.snap[i].target = s
  BY <1>1 DEF SnapOK, Pending
<1>3. MakeFallback(g, i) = h
  BY <1>2 DEF MakeFallback
<1>4. f \in State /\ Alike(g, f)
  BY <1>1, SettleSnapAlike, AlikeReflexive
<1> HIDE DEF f
<1>5. Faded(g, k, i) /\ Cleared(f, k, i)
  BY <1>4, HandoffEnding
<1> HIDE DEF k
<1>6. Settling(k) /\ k \in State /\ Thins(g, k)
  BY <1>5 DEF Faded, Settling
<1>7. /\ k.client[s].conn /\ s \notin k.abort /\ k.client[s].id = g.client[s].id
      /\ k.client[s].gen = g.client[s].gen
  BY <1>1, <1>2, <1>4, <1>5, <1>6 DEF Thins, Cleared, Alike, Resembles
<1>8. \A j \in Slots : Valid(k, j) => k.rec[j].ent # s
  BY <1>1, <1>5, <1>6 DEF Faded, Thins
<1>9. x \in Fallback
  <2>1. g.client[s].id \in Ids /\ g.client[s].gen \in 1..MaxGen /\ g.match \in 0..MaxMatch
    BY <1>1, <1>2, ClientFields, StateFields DEF ClientOK
  <2> QED BY <2>1 DEF Fallback, Handoff
<1>10. k.client[s] \in Client /\ k.client \in [Slots -> Client] /\ k.fall \in [Slots -> Fallback]
  BY <1>1, <1>6, StateFields
<1>11. c \in Client
  <2>1. BelongsToMatch(g, i) \in BOOLEAN
    BY DEF BelongsToMatch
  <2> QED BY <1>10, <2>1 DEF Client
<1>12. /\ c.id = k.client[s].id /\ c.gen = k.client[s].gen /\ c.conn = k.client[s].conn
       /\ c.begun = k.client[s].begun /\ c.ghost = 0 /\ c.spawned = FALSE /\ c.limbo = FALSE
       /\ c.play = BelongsToMatch(g, i)
  BY <1>10 DEF Client
<1> HIDE DEF c, x
<1>13. h \in State
  BY <1>6, <1>9, <1>10, <1>11 DEF State
<1>14. HandedOff(k, h, s, g.match) /\ h.client[s] = c
  <2>1. /\ h.snap = k.snap /\ h.rec = k.rec /\ h.abort = k.abort /\ h.timeout = k.timeout
        /\ h.stage = k.stage /\ h.match = k.match /\ h.round = k.round /\ h.world = k.world
        /\ h.part = k.part /\ h.client[s] = c /\ h.fall[s] = x
        /\ \A t \in Slots \ {s} : h.client[t] = k.client[t] /\ h.fall[t] = k.fall[t]
    BY <1>1, <1>6, <1>10 DEF State
  <2>2. x = [valid |-> TRUE, id |-> k.client[s].id, gen |-> k.client[s].gen,
             match |-> g.match, fresh |-> FALSE]
    BY <1>7 DEF x
  <2> HIDE DEF h
  <2> QED BY <1>12, <2>1, <2>2 DEF HandedOff
<1> HIDE DEF h
<1>15. Settling(h) /\ Thins(k, h) /\ \A t : Waiting(h, t) <=> Waiting(k, t)
  BY <1>1, <1>6, <1>7, <1>8, <1>13, <1>14, HandOffFacts
<1>16. h.timeout = g.timeout /\ ~Valid(h, i)
  BY <1>5, <1>14 DEF HandedOff, Faded, Valid
<1>17. Thins(g, h)
  BY <1>6, <1>15, ThinsTransitive
<1>22. Accounts(g, h)
  <2> SUFFICES ASSUME Matched(g) PROVE Accounts(g, h)
    BY DEF Accounts
  <2>1. BelongsToMatch(g, i) /\ f = g
    BY DEF Matched, BelongsToMatch, Valid, f
  <2>2. /\ h.part = g.part /\ \A j \in Slots \ {i} : h.snap[j] = g.snap[j]
        /\ \A t \in Slots \ {s} : h.client[t] = g.client[t]
    BY <1>5, <1>14, <2>1 DEF Cleared, HandedOff
  <2>3. Plays(h, g.client[s].id) /\ g.client[s].id = g.snap[i].id
    BY <1>1, <1>2, <1>7, <1>12, <1>14, <2>1 DEF Plays, SnapOK
  <2>4. ASSUME NEW t \in Slots, g.client[t].conn, g.client[t].play
        PROVE  Present(h, g.client[t].id)
    BY <2>2, <2>3, <2>4 DEF Present, Plays
  <2>5. ASSUME NEW j \in Slots, Valid(g, j), ~g.snap[j].settled
        PROVE  Present(h, g.snap[j].id)
    BY <2>2, <2>3, <2>5 DEF Present, Reserves, Valid
  <2> QED BY <2>2, <2>4, <2>5, PresentMoves
<1>18. Ends(g, h)
  BY <1>5, <1>15, <1>16, <1>17, <1>22 DEF Ends, Keeps, Faded
<1>19. Gone(g, h, i)
  <2>1. Spares(g, h, i)
    BY <1>5, <1>14 DEF HandedOff, Faded, Spares, Valid
  <2> QED BY <1>15, <1>16, <2>1, <1>18 DEF Gone, Ending
<1>20. h.fall[s].valid /\ h.client[s].ghost = 0
  BY <1>14 DEF HandedOff
<1>21. ASSUME NEW t \in Slots \ {s}
       PROVE  h.client[t] = g.client[t] /\ h.fall[t] = g.fall[t]
  <2>1. f.rec[i].ent = s /\ f.fall = g.fall /\ f.client = g.client
    <3>1. SettleSnap(g, i).client = g.client
      BY <1>1 DEF SettleSnap, Settle, State
    <3>2. f.client = g.client
      BY <3>1 DEF f
    <3> QED BY <1>4, <3>2 DEF Alike, Resembles
  <2> QED BY <1>5, <1>14, <1>21, <2>1 DEF Cleared, HandedOff
<1> QED BY <1>3, <1>16, <1>19, <1>20, <1>21

\* ResolveHandoff and DropHandoff end a handoff.
LEMMA ResolveFacts ==
  ASSUME NEW g, Sound(g), NEW i \in Slots, Valid(g, i), g.snap[i].phase = "AwaitingBegin"
  PROVE  Gone(g, ResolveHandoff(g, i), i) /\ Gone(g, DropHandoff(g, i), i)
<1>1. Settling(g) /\ g \in State
  BY DEF Sound, Settling
<1>2. SettleSnap(g, i) \in State /\ Alike(g, SettleSnap(g, i)) /\ SettleSnap(g, i).snap[i].settled
  BY <1>1, SettleSnapAlike
<1>3. Gone(g, DropHandoff(g, i), i)
  BY <1>1, <1>2, HandoffEnding DEF DropHandoff
<1>4. Gone(g, MakeFallback(g, i), i)
  BY <1>1, MakeFallbackFacts
<1> QED BY <1>3, <1>4 DEF ResolveHandoff

-----------------------------------------------------------------------------
(* One slot after the other.                                                *)

\* What holds before the first slot and carries from each to the next holds
\* after the last.
LEMMA Climb ==
  ASSUME NEW B, 0 \in B, \A n \in Slots : n - 1 \in B => n \in B
  PROVE  N \in B
<1> DEFINE S == {n \in 0..N : n \notin B}
<1>1. N \in Nat
  BY GhostAssumption
<1>2. SUFFICES ASSUME N \notin B PROVE FALSE
  OBVIOUS
<1>3. N \in S /\ S \subseteq Nat
  BY <1>1, <1>2
<1> DEFINE R == OpToRel(<, Nat)
<1> HIDE DEF S, R
<1>4. PICK m \in S : \A n \in S : <<n, m>> \notin R
  BY <1>3, NatLessThanWellFounded, WFMin DEF R
<1>5. m \in 0..N /\ m \notin B
  BY <1>4 DEF S
<1>6. m # 0
  BY <1>5
<1>7. m \in 1..N /\ m - 1 \in 0..N /\ m - 1 \in Nat /\ m \in Nat /\ m - 1 < m
  BY <1>1, <1>5, <1>6
<1>8. m - 1 \notin S
  <2>1. <<m - 1, m>> \in R
    BY <1>7 DEF OpToRel, R
  <2> QED BY <1>4, <2>1
<1>9. m - 1 \in B
  BY <1>7, <1>8 DEF S
<1> QED BY <1>5, <1>7, <1>9 DEF Slots

\* The servers f after each slot when F says what becomes of b at a slot.
Follows(f, b, F) == f = [n \in 0..N |-> IF n = 0 THEN b ELSE F[f[n - 1]][n]]

\* They exist, as values of X.
LEMMA EachExists ==
  ASSUME NEW X, NEW b \in X, NEW F \in [X -> [Slots -> X]]
  PROVE  \E f \in [0..N -> X] : Follows(f, b, F)
<1> DEFINE Upto(m) ==
             \E f \in [0..m -> X] : f = [n \in 0..m |-> IF n = 0 THEN b ELSE F[f[n - 1]][n]]
           B == {m \in 0..N : Upto(m)}
<1>0. N \in Nat
  BY GhostAssumption
<1>1. 0 \in B
  <2> DEFINE f == [n \in 0..0 |-> b]
  <2>1. f \in [0..0 -> X]
    OBVIOUS
  <2>2. f = [n \in 0..0 |-> IF n = 0 THEN b ELSE F[f[n - 1]][n]]
    OBVIOUS
  <2>3. Upto(0)
    BY <2>1, <2>2
  <2> QED BY <1>0, <2>3
<1>2. ASSUME NEW m \in Slots, m - 1 \in B PROVE m \in B
  <2>1. m \in 1..N /\ m \in Nat /\ m - 1 \in 0..N
    BY <1>0 DEF Slots
  <2>2. PICK e \in [0..(m - 1) -> X] :
          e = [n \in 0..(m - 1) |-> IF n = 0 THEN b ELSE F[e[n - 1]][n]]
    BY <1>2
  <2> DEFINE v == F[e[m - 1]][m]
             f == [n \in 0..m |-> IF n = m THEN v ELSE e[n]]
  <2>3. e[m - 1] \in X /\ v \in X
    <3>1. m - 1 \in 0..(m - 1)
      BY <2>1
    <3>2. e[m - 1] \in X
      BY <2>2, <3>1
    <3>3. F[e[m - 1]] \in [Slots -> X]
      BY <3>2
    <3> QED BY <3>2, <3>3
  <2> HIDE DEF v
  <2>4. f \in [0..m -> X]
    BY <2>1, <2>2, <2>3
  <2>5. ASSUME NEW n \in 0..m PROVE f[n] = IF n = 0 THEN b ELSE F[f[n - 1]][n]
    <3>1. CASE n = m
      <4>1. f[n - 1] = e[m - 1] /\ f[n] = v
        BY <2>1, <3>1
      <4> QED BY <2>1, <3>1, <4>1 DEF v
    <3>2. CASE n # m
      <4>1. n \in 0..(m - 1) /\ f[n] = e[n]
        BY <2>1, <3>2
      <4>2. n # 0 => n - 1 \in 0..m /\ n - 1 # m /\ f[n - 1] = e[n - 1]
        BY <2>1, <4>1
      <4>3. e[n] = IF n = 0 THEN b ELSE F[e[n - 1]][n]
        BY <2>2, <4>1
      <4> QED BY <4>1, <4>2, <4>3
    <3> QED BY <3>1, <3>2
  <2> HIDE DEF f
  <2>6. f = [n \in 0..m |-> IF n = 0 THEN b ELSE F[f[n - 1]][n]]
    BY <2>4, <2>5
  <2>7. Upto(m)
    BY <2>4, <2>6
  <2>8. m \in 0..N
    BY <1>0, <2>1
  <2> HIDE DEF Upto
  <2> QED BY <2>7, <2>8
<1> HIDE DEF B
<1>3. N \in B
  BY <1>1, <1>2, Climb
<1> QED BY <1>3 DEF B, Follows

\* Nothing is ended where nothing is done.
LEMMA EndsReflexive ==
  ASSUME NEW g, Settling(g)
  PROVE  Ends(g, g)
<1>1. Thins(g, g)
  BY SameReflexive
<1> QED BY <1>1, SameAccounts DEF Ends, Keeps

\* What ends reservations leaves a sound server sound.
LEMMA EndingSound ==
  ASSUME NEW g, Sound(g), NEW h, Settling(h), Ends(g, h)
  PROVE  Sound(h)
BY EndsKeep DEF Sound, Settling

\* The reservations of the other identities stay.
SparesOthers(g, h, id) == \A j \in Slots : Valid(g, j) /\ g.snap[j].id # id => Valid(h, j)

\* ExpireStaleSnapshotsForSocialId only ends reservations of the identity.
LEMMA ExpireStaleFacts ==
  ASSUME NEW g, Sound(g), NEW id, NEW blocked
  PROVE  LET h == ExpireStale(g, id, blocked) IN
         Sound(h) /\ Ends(g, h) /\ SparesOthers(g, h, id)
<1> DEFINE X == {h \in State : Sound(h) /\ Ends(g, h) /\ SparesOthers(g, h, id)}
           one(h, i) == IF Owns(h, i, id) /\ h.snap[i].phase # "AwaitingBegin" /\ ~Current(h, i)
                        THEN ExpireOrDiscard(h, i, blocked) ELSE h
           F == [h \in X |-> [i \in Slots |-> one(h, i)]]
           Is(f) == f = [n \in 0..N |-> IF n = 0 THEN g ELSE one(f[n - 1], n)]
           after == CHOOSE f : Is(f)
           B == {n \in 0..N : after[n] \in X}
<1>0. N \in Nat
  BY GhostAssumption
<1>1. g \in X
  BY EndsReflexive DEF Sound, Settling, SparesOthers
<1>2. ASSUME NEW h \in X, NEW i \in Slots PROVE one(h, i) \in X
  <2>1. CASE Owns(h, i, id) /\ h.snap[i].phase # "AwaitingBegin" /\ ~Current(h, i)
    <3>1. Sound(h) /\ Valid(h, i) /\ Ends(g, h)
      BY <2>1 DEF Owns, Valid
    <3>2. Ending(h, ExpireOrDiscard(h, i, blocked), i)
      BY <3>1, ExpireFacts
    <3>3. Sound(ExpireOrDiscard(h, i, blocked)) /\ ExpireOrDiscard(h, i, blocked) \in State
      BY <3>1, <3>2, EndingSound DEF Ending, Settling
    <3>4. Ends(g, ExpireOrDiscard(h, i, blocked))
      BY <3>1, <3>2, EndsTransitive DEF Ending
    <3>5. SparesOthers(g, ExpireOrDiscard(h, i, blocked), id)
      <4>1. g.snap[i].id = id
        BY <2>1, <3>1 DEF Owns, Ends, Thins
      <4>2. SparesOthers(g, h, id)
        OBVIOUS
      <4> QED BY <3>2, <4>1, <4>2 DEF Ending, Spares, SparesOthers
    <3> QED BY <2>1, <3>3, <3>4, <3>5
  <2> QED BY <2>1
<1> HIDE DEF X
<1>3. F \in [X -> [Slots -> X]]
  BY <1>2
<1>3f. \A h \in X, i \in Slots : F[h][i] = one(h, i)
  OBVIOUS
<1> HIDE DEF F
<1>4. PICK f \in [0..N -> X] : Follows(f, g, F)
  BY <1>1, <1>3, EachExists
<1>5. Is(f)
  <2>1. ASSUME NEW n \in 0..N, n # 0 PROVE F[f[n - 1]][n] = one(f[n - 1], n)
    <3>1. n \in Slots /\ n - 1 \in 0..N
      BY <1>0, <2>1 DEF Slots
    <3>2. f[n - 1] \in X
      BY <1>4, <3>1
    <3> QED BY <1>3f, <3>1, <3>2
  <2> HIDE DEF one
  <2> QED BY <1>4, <2>1 DEF Follows
<1>6. Is(after)
  BY <1>5
<1>7. ExpireStale(g, id, blocked) = after[N]
  BY DEF ExpireStale, Each
<1> HIDE DEF after, one
<1>8. 0 \in B
  BY <1>0, <1>1, <1>6
<1>9. ASSUME NEW n \in Slots, n - 1 \in B PROVE n \in B
  <2>1. n \in 0..N /\ n # 0
    BY <1>0 DEF Slots
  <2>2. after[n] = one(after[n - 1], n)
    BY <1>6, <2>1
  <2>3. after[n - 1] \in X
    BY <1>9
  <2> QED BY <1>2, <2>1, <2>2, <2>3
<1> HIDE DEF B
<1>10. N \in B
  BY <1>8, <1>9, Climb
<1> QED BY <1>7, <1>10 DEF B, X

\* ExpireSnapshotsForSocialId has nothing to do for an identity whose only
\* reservation is the excepted one.
LEMMA ExpireOthersIdle ==
  ASSUME NEW g, NEW id, NEW except, \A i \in Slots \ {except} : ~Owns(g, i, id), NEW blocked
  PROVE  ExpireOthers(g, id, except, blocked) = g
<1> DEFINE X == {g}
           one(h, i) == IF i # except /\ Owns(h, i, id) THEN ExpireOrDiscard(h, i, blocked) ELSE h
           Is(f) == f = [n \in 0..N |-> IF n = 0 THEN g ELSE one(f[n - 1], n)]
           after == CHOOSE f : Is(f)
           B == {n \in 0..N : after[n] = g}
           f == [n \in 0..N |-> g]
<1>0. N \in Nat
  BY GhostAssumption
<1>1. \A i \in Slots : one(g, i) = g
  OBVIOUS
<1>2. Is(f)
  <2>1. ASSUME NEW n \in 0..N, n # 0 PROVE one(f[n - 1], n) = g
    <3>1. n \in Slots /\ n - 1 \in 0..N
      BY <1>0, <2>1 DEF Slots
    <3> HIDE DEF one
    <3> QED BY <1>1, <3>1
  <2> HIDE DEF one
  <2> QED BY <2>1
<1>3. Is(after)
  BY <1>2
<1>4. ExpireOthers(g, id, except, blocked) = after[N]
  BY DEF ExpireOthers, Each
<1> HIDE DEF after, one
<1>5. 0 \in B
  BY <1>0, <1>3
<1>6. ASSUME NEW n \in Slots, n - 1 \in B PROVE n \in B
  <2>1. n \in 0..N /\ n # 0
    BY <1>0 DEF Slots
  <2>2. after[n] = one(after[n - 1], n)
    BY <1>3, <2>1
  <2> QED BY <1>1, <1>6, <2>1, <2>2
<1> HIDE DEF B
<1>7. N \in B
  BY <1>5, <1>6, Climb
<1> QED BY <1>4, <1>7 DEF B

-----------------------------------------------------------------------------
(* A slot's own record is cleared.                                          *)

\* A client that no reservation takes for its own may lose its record.
LEMMA UnlinkFacts ==
  ASSUME NEW g, Settling(g), NEW s \in Slots,
         \A j \in Slots : Valid(g, j) /\ g.rec[j].ent = s => g.client[s].ghost # j
  PROVE  LET h == [g EXCEPT !.client[s].ghost = 0] IN
         /\ Settling(h) /\ Ends(g, h) /\ h.client[s].ghost = 0 /\ h.part = g.part
         /\ SameClient([g.client[s] EXCEPT !.ghost = 0], h.client[s])
<1> DEFINE c == [g.client[s] EXCEPT !.ghost = 0]
           h == [g EXCEPT !.client = [g.client EXCEPT ![s] = c]]
<1>1. g \in State /\ g.client[s] \in Client /\ g.client \in [Slots -> Client]
      /\ ClientOK(g, s) /\ FallOK(g, s)
  BY StateFields DEF Settling
<1>2. c \in Client /\ c.ghost = 0
  BY <1>1 DEF Client
<1>3. /\ c.id = g.client[s].id /\ c.conn = g.client[s].conn /\ c.begun = g.client[s].begun
      /\ c.spawned = g.client[s].spawned /\ c.limbo = g.client[s].limbo
      /\ c.inuse = g.client[s].inuse /\ c.gen = g.client[s].gen
      /\ c.holder = g.client[s].holder /\ c.play = g.client[s].play
  BY <1>1 DEF Client
<1> HIDE DEF c
<1>4. h \in State
  BY <1>1, <1>2 DEF State
<1>5. /\ h.rec = g.rec /\ h.snap = g.snap /\ h.fall = g.fall /\ h.abort = g.abort
      /\ h.timeout = g.timeout /\ h.stage = g.stage /\ h.match = g.match
      /\ h.round = g.round /\ h.world = g.world /\ h.part = g.part
      /\ h.client[s] = c /\ \A t \in Slots \ {s} : h.client[t] = g.client[t]
  BY <1>1 DEF State
<1>6. h = [g EXCEPT !.client[s].ghost = 0]
  BY DEF c
<1> HIDE DEF h
<1>7. SameClient(c, h.client[s])
  BY <1>5 DEF SameClient
<1>8. CASE \A j \in Slots : Valid(g, j) => g.rec[j].ent # s
  <2>1. Near(g, h, s, 0) /\ 0 \notin Slots
    BY <1>5, <1>8 DEF Near, Slots
  <2>2. ThinsAt(g, h, s, 0)
    BY <1>3, <1>5, <2>1 DEF ThinsAt
  <2>3. Thins(g, h) /\ Apart(h)
    BY <1>4, <2>1, <2>2, ThinsLocal
  <2>4. ClientOK(h, s)
    BY <1>1, <1>2, <1>3, <1>5 DEF ClientOK
  <2>5. FallOK(h, s)
    BY <1>1, <1>3, <1>5 DEF FallOK, Valid
  <2>6. h.world <= h.round
    BY <1>5 DEF Settling
  <2>7. Settling(h)
    BY <1>4, <2>1, <2>3, <2>4, <2>5, <2>6, Local
  <2>8. Keeps(g, h)
    BY <1>5 DEF Keeps, Waiting
  <2>9. Accounts(g, h)
    <3>1. ASSUME NEW t \in Slots, g.client[t].conn, g.client[t].play
          PROVE  Present(h, g.client[t].id)
      BY <1>3, <1>5, <3>1 DEF Present, Plays
    <3>2. ASSUME NEW j \in Slots, Valid(g, j), ~g.snap[j].settled
          PROVE  Present(h, g.snap[j].id)
      BY <1>5, <3>2 DEF Present, Reserves, Valid
    <3> QED BY <1>5, <3>1, <3>2, PresentMoves
  <2> QED BY <1>2, <1>5, <1>6, <1>7, <2>3, <2>7, <2>8, <2>9 DEF Ends, c
<1>9. CASE ~\A j \in Slots : Valid(g, j) => g.rec[j].ent # s
  <2>1. g.client[s].ghost = 0
    BY <1>9 DEF Settling, SnapOK
  <2>2. SameClient(g.client[s], c)
    BY <1>2, <1>3, <2>1 DEF SameClient
  <2>3. Alike(g, [g EXCEPT !.client[s] = c])
    BY <1>1, <1>2, <1>3, <2>2, ClientAlike
  <2>4. Alike(g, h)
    BY <2>3 DEF h
  <2> QED BY <1>2, <1>4, <1>5, <1>6, <1>7, <2>4, AlikeSound DEF c
<1> QED BY <1>8, <1>9

\* No reservation of slot s is bound to a connection.
Unbound(g, s) ==
  \A j \in Slots : Valid(g, j) /\ g.rec[j].ent = s => g.snap[j].phase \notin Pending

\* A slot that is not protected has no such reservation, nor a handoff.
LEMMA UnprotectedFacts ==
  ASSUME NEW g, Settling(g), NEW s \in Slots, ~Protected(g, s)
  PROVE  Unbound(g, s) /\ ~g.fall[s].valid
<1>1. ~g.fall[s].valid
  <2>1. FallOK(g, s)
    BY DEF Settling
  <2> QED BY <2>1 DEF FallOK, Protected, FallbackPending
<1>2. ASSUME NEW j \in Slots, Valid(g, j), g.rec[j].ent = s, g.snap[j].phase \in Pending
      PROVE  FALSE
  <2> DEFINE found == {i \in Slots : /\ g.snap[i].valid /\ g.snap[i].phase \in Pending
                                     /\ g.rec[i].ent = s /\ g.snap[i].target = s
                                     /\ g.snap[i].gen = g.client[s].gen
                                     /\ Owns(g, i, g.client[s].id)}
  <2>1. j \in found
    <3>1. SnapOK(g, j) /\ ClientOK(g, s)
      BY DEF Settling
    <3> QED BY <1>2, <3>1 DEF SnapOK, ClientOK, Owns, Valid
  <2>2. \A i \in found : \A k \in Slots \ {i} : Valid(g, k) => g.rec[k].ent # s
    BY Places DEF Valid
  <2>3. \A i \in found : i = j
    BY <1>2, <2>2
  <2>4. IndexFor(g, s, Pending) \in found
    <3>1. found # {} /\ \E i \in found : \A k \in found : i <= k
      <4>1. j <= j
        BY DEF Slots
      <4> QED BY <2>1, <2>3, <4>1
    <3>2. IndexFor(g, s, Pending) = CHOOSE i \in found : \A k \in found : i <= k
      BY <3>1 DEF IndexFor
    <3> HIDE DEF found
    <3> QED BY <3>1, <3>2
  <2>5. IndexFor(g, s, Pending) # 0
    BY <2>4 DEF Slots
  <2> QED BY <2>5 DEF Protected, Pending
<1> QED BY <1>1, <1>2 DEF Unbound

\* The client c goes on as d, without a record.
GoesOn(c, d) ==
  /\ d.ghost = 0
  /\ c.conn => /\ d.conn /\ d.id = c.id /\ d.gen = c.gen /\ d.begun = c.begun
               /\ d.spawned = c.spawned /\ d.limbo = c.limbo /\ d.inuse = c.inuse
               /\ d.holder = c.holder /\ (d.play => c.play)

\* Slot s has lost its record, and the reservation that record had.
Cleaned(g, h, s) ==
  /\ Settling(h) /\ Ends(g, h) /\ h.fall = g.fall /\ h.abort = g.abort
  /\ GoesOn(g.client[s], h.client[s]) /\ NoneEnters(g, h)

\* The record a slot owns is its own.
LEMMA OwnedGhostIs ==
  ASSUME NEW g \in State, NEW s \in Slots, OwnedGhost(g, s) # 0
  PROVE  LET i == OwnedGhost(g, s) IN
         i \in Slots /\ g.client[s].ghost = i /\ g.rec[i].ent = s
<1>1. g.client[s].ghost \in {0} \cup Slots
  BY StateFields, ClientFields
<1> QED BY <1>1 DEF OwnedGhost

\* A record without a reservation is given up.
LEMMA EmptyRecordFacts ==
  ASSUME NEW g, Settling(g), NEW s \in Slots, NEW i \in Slots, g.client[s].ghost = i,
         g.rec[i].ent = s, ~Valid(g, i)
  PROVE  Cleaned(g, ClearRecord(g, i), s) /\ ClearRecord(g, i).timeout = g.timeout
<1> DEFINE h == ClearRecord(g, i)
<1>1. Settling(h) /\ Thins(g, h) /\ Cleared(g, h, i)
  BY ClearRecordFacts
<1> HIDE DEF h
<1>2. h.timeout = g.timeout /\ h.fall = g.fall /\ h.abort = g.abort
  BY <1>1 DEF Cleared
<1>3. ASSUME NEW t, Waiting(g, t) PROVE Waiting(h, t)
  <2>1. PICK j \in Slots : /\ g.snap[j].valid /\ g.rec[j].ent = t
                           /\ g.snap[j].phase \in {"Reserved", "Claimed", "Reinstating"}
    BY <1>3 DEF Waiting
  <2>2. j # i
    BY <2>1 DEF Valid
  <2> QED BY <1>1, <2>1, <2>2 DEF Cleared, Waiting
<1>7. Accounts(g, h)
  BY <1>1, ClearedAccounts
<1>4. Ends(g, h)
  BY <1>1, <1>2, <1>3, <1>7 DEF Ends, Keeps
<1>5. Leaves(g.client[s], h.client[s], i)
  BY <1>1 DEF Cleared, Slots
<1>6. GoesOn(g.client[s], h.client[s])
  <2>1. g.client[s].conn \in BOOLEAN
    BY StateFields, ClientFields DEF Settling
  <2> QED BY <1>5, <2>1 DEF GoesOn, Leaves
<1>8. NoneEnters(g, h)
  BY <1>1 DEF Cleared, NoneEnters
<1> QED BY <1>1, <1>2, <1>4, <1>6, <1>8 DEF Cleaned, h

\* So is one with a reservation, whose timeout ends before.
LEMMA FullRecordFacts ==
  ASSUME NEW g, Sound(g), NEW s \in Slots, NEW i \in Slots, g.client[s].ghost = i,
         g.rec[i].ent = s, Valid(g, i)
  PROVE  Cleaned(g, ClearRecord(Revoke(SettleSnap(g, i), i, TRUE), i), s)
<1> DEFINE f == SettleSnap(g, i)
           n == Revoke(f, i, TRUE)
           h == ClearRecord(n, i)
<1>1. Settling(g) /\ g \in State
  BY DEF Sound, Settling
<1>2. f \in State /\ Alike(g, f) /\ Settling(f) /\ NoneEnters(g, f)
  BY <1>1, SettleSnapAlike, AlikeSound
<1>3. Gone(g, h, i)
  BY RevokeEnding
<1> HIDE DEF f
<1>4. Released(f, n, f.rec[i].ent)
  BY <1>2, RevokeFacts
<1> HIDE DEF n
<1>5. Settling(n) /\ Same(f, n)
  BY <1>4 DEF Released
<1>6. Cleared(n, h, i)
  BY <1>5, ClearRecordFacts
<1> HIDE DEF h
<1>7. n.fall = g.fall /\ n.abort = g.abort /\ n.rec[i].ent = s
  BY <1>2, <1>5 DEF Same, Alike, Resembles
<1>8. SameClient(g.client[s], n.client[s])
  BY <1>2, <1>5 DEF Same, Alike, Resembles, SameClient
<1>9. Leaves(n.client[s], h.client[s], i)
  BY <1>6, <1>7 DEF Cleared, Slots
<1>10. GoesOn(g.client[s], h.client[s])
  <2>1. g.client[s].conn \in BOOLEAN
    BY <1>1, StateFields, ClientFields
  <2> QED BY <1>8, <1>9, <2>1 DEF GoesOn, Leaves, SameClient
<1>11. h.fall = g.fall /\ h.abort = g.abort
  BY <1>6, <1>7 DEF Cleared
<1>13. NoneEnters(g, h)
  BY <1>2, <1>5, <1>6 DEF Same, Cleared, NoneEnters
<1>12. Cleaned(g, h, s)
  BY <1>3, <1>10, <1>11, <1>13 DEF Cleaned, Gone, Ending
<1> QED BY <1>12 DEF h, n, f

\* ClearEntityGhost takes a slot's record and reservation.
LEMMA ClearEntityFacts ==
  ASSUME NEW g, Sound(g), NEW s \in Slots, Unbound(g, s), NEW blocked
  PROVE  Cleaned(g, ClearEntityGhost(g, s, blocked), s)
<1> DEFINE i == OwnedGhost(g, s)
           k == IF i = 0 THEN g
                ELSE ClearRecord(IF g.snap[i].valid THEN Revoke(SettleSnap(g, i), i, TRUE) ELSE g, i)
           h == [k EXCEPT !.client[s].ghost = 0]
<1>1. Settling(g) /\ g \in State
  BY DEF Sound, Settling
<1>2. i # 0 => i \in Slots /\ g.client[s].ghost = i /\ g.rec[i].ent = s
  BY <1>1, OwnedGhostIs
<1>3. ClearEntityGhost(g, s, blocked) = h
  <2>1. i # 0 => ~(g.snap[i].valid /\ g.snap[i].phase \in {"Claimed", "Reinstating"})
    BY <1>2 DEF Unbound, Valid, Pending
  <2> HIDE DEF i
  <2>2. ClearEntityGhost(g, s, blocked) =
          [(IF i = 0 THEN g
            ELSE IF g.snap[i].valid /\ g.snap[i].phase \in {"Claimed", "Reinstating"}
            THEN ExpireOrDiscard(g, i, blocked)
            ELSE ClearRecord(IF g.snap[i].valid THEN Revoke(SettleSnap(g, i), i, TRUE) ELSE g, i))
           EXCEPT !.client[s].ghost = 0]
    BY DEF ClearEntityGhost, i
  <2> QED BY <2>1, <2>2
<1>4. CASE i = 0
  <2>1. \A j \in Slots : Valid(g, j) /\ g.rec[j].ent = s => g.client[s].ghost # j
    <3>1. 0 \notin Slots
      BY DEF Slots
    <3>2. g.client[s].ghost = 0 \/ g.rec[g.client[s].ghost].ent # s
      BY <1>4 DEF OwnedGhost
    <3> QED BY <3>1, <3>2
  <2>2. k = g
    BY <1>4
  <2> HIDE DEF k, i
  <2>3. /\ Settling(h) /\ Ends(g, h) /\ h.client[s].ghost = 0 /\ h.part = g.part
        /\ SameClient([g.client[s] EXCEPT !.ghost = 0], h.client[s])
    BY <1>1, <2>1, <2>2, UnlinkFacts
  <2>4. h.fall = g.fall /\ h.abort = g.abort
    BY <1>1, <2>2 DEF State
  <2> HIDE DEF h
  <2>5. GoesOn(g.client[s], h.client[s])
    <3>1. g.client[s] \in Client
      BY <1>1, StateFields
    <3> QED BY <2>3, <3>1 DEF GoesOn, SameClient, Client
  <2> QED BY <1>3, <2>3, <2>4, <2>5 DEF Cleaned, NoneEnters
<1>5. CASE i # 0
  <2>1. Cleaned(g, k, s)
    <3>1. CASE Valid(g, i)
      <4>1. k = ClearRecord(Revoke(SettleSnap(g, i), i, TRUE), i)
        BY <1>5, <3>1 DEF Valid
      <4> QED BY <1>2, <1>5, <3>1, <4>1, FullRecordFacts
    <3>2. CASE ~Valid(g, i)
      <4>1. k = ClearRecord(g, i)
        BY <1>5, <3>2 DEF Valid
      <4> QED BY <1>1, <1>2, <1>5, <3>2, <4>1, EmptyRecordFacts
    <3> QED BY <3>1, <3>2
  <2> HIDE DEF k, i
  <2>2. Settling(k) /\ k.client[s].ghost = 0 /\ k \in State
    BY <2>1 DEF Cleaned, GoesOn, Settling
  <2>3. 0 \notin Slots
    BY DEF Slots
  <2>4. /\ Settling(h) /\ Ends(k, h) /\ h.client[s].ghost = 0 /\ h.part = k.part
        /\ SameClient([k.client[s] EXCEPT !.ghost = 0], h.client[s])
    BY <2>2, <2>3, UnlinkFacts
  <2>5. h.fall = k.fall /\ h.abort = k.abort
    BY <2>2 DEF State
  <2> HIDE DEF h
  <2>6. Ends(g, h)
    BY <2>1, <2>4, EndsTransitive DEF Cleaned
  <2>7. GoesOn(g.client[s], h.client[s])
    <3>1. k.client[s] \in Client
      BY <2>2, StateFields
    <3>2. GoesOn(k.client[s], h.client[s])
      BY <2>4, <3>1 DEF GoesOn, SameClient, Client
    <3> QED BY <2>1, <3>2 DEF GoesOn, Cleaned
  <2> QED BY <1>3, <2>1, <2>4, <2>5, <2>6, <2>7 DEF Cleaned, NoneEnters
<1> QED BY <1>4, <1>5

\* MM_Ghost_ClearClient leaves a protected slot alone, and clears any other.
LEMMA ClearGhostFacts ==
  ASSUME NEW g, Sound(g), NEW s \in Slots, ~Protected(g, s), NEW blocked
  PROVE  Cleaned(g, ClearGhost(g, s, blocked), s)
<1> DEFINE i == OwnedGhost(g, s)
           f == IF i # 0 THEN SettleSnap(g, i) ELSE g
<1>1. Settling(g) /\ g \in State
  BY DEF Sound, Settling
<1>2. f \in State /\ Alike(g, f) /\ NoneEnters(g, f)
  BY <1>1, OwnedGhostIs, SettleSnapAlike, AlikeReflexive DEF NoneEnters
<1>3. ClearGhost(g, s, blocked) = ClearEntityGhost(f, s, blocked)
  BY DEF ClearGhost
<1> HIDE DEF f
<1>4. Sound(f) /\ Ends(g, f)
  BY <1>1, <1>2, AlikeSound
<1>5. Unbound(f, s)
  <2>1. Unbound(g, s)
    BY <1>1, UnprotectedFacts
  <2> QED BY <1>2, <2>1 DEF Unbound, Alike, Resembles, SameSnap, Valid
<1>6. Cleaned(f, ClearEntityGhost(f, s, blocked), s)
  BY <1>4, <1>5, ClearEntityFacts
<1>7. GoesOn(g.client[s], ClearEntityGhost(f, s, blocked).client[s])
  BY <1>2, <1>6 DEF Cleaned, Alike, Resembles, SameClient, GoesOn
<1>8. Ends(g, ClearEntityGhost(f, s, blocked))
  BY <1>4, <1>6, EndsTransitive DEF Cleaned
<1>9. NoneEnters(g, ClearEntityGhost(f, s, blocked))
  BY <1>2, <1>6 DEF Cleaned, NoneEnters
<1> QED BY <1>2, <1>3, <1>6, <1>7, <1>8, <1>9 DEF Cleaned, Alike, Resembles

-----------------------------------------------------------------------------
(* A slot gets a record.                                                    *)

\* A set of slots or records has a least one.
LEMMA LeastExists ==
  ASSUME NEW S \in SUBSET Slots, S # {}
  PROVE  \E i \in S : \A j \in S : i <= j
<1> DEFINE R == OpToRel(<, Nat)
<1> HIDE DEF R
<1>1. S \subseteq Nat
  BY DEF Slots
<1>2. PICK m \in S : \A n \in S : <<n, m>> \notin R
  BY <1>1, NatLessThanWellFounded, WFMin DEF R
<1>3. ASSUME NEW j \in S PROVE m <= j
  <2>1. j \in Nat /\ m \in Nat
    BY <1>1
  <2>2. j < m => <<j, m>> \in R
    BY <2>1 DEF R, OpToRel
  <2> QED BY <1>2, <2>1, <2>2
<1> QED BY <1>3

\* Record i is of no use to anybody.
Unused(g, i) == ~Valid(g, i) /\ (g.rec[i].ent # 0 => g.client[g.rec[i].ent].ghost # i)

\* AllocateGhostSlot gives a slot without a record one nobody uses, if any.
LEMMA FreeRecordFacts ==
  ASSUME NEW g, Settling(g), NEW s \in Slots, OwnedGhost(g, s) = 0, FreeRecord(g, s) # 0
  PROVE  FreeRecord(g, s) \in Slots /\ Unused(g, FreeRecord(g, s))
<1> DEFINE unused == {i \in Slots : g.rec[i].ent = 0 /\ ~g.snap[i].valid}
           dead == {i \in Slots : /\ ~g.rec[i].code /\ ~g.snap[i].valid
                                  /\ LET o == g.rec[i].ent
                                     IN ~(o # 0 /\ g.client[o].ghost = i /\ g.client[o].conn)}
<1>1. FreeRecord(g, s) \in unused \/ FreeRecord(g, s) \in dead
  <2>1. CASE unused # {}
    <3>1. \E i \in unused : \A j \in unused : i <= j
      BY <2>1, LeastExists
    <3>2. FreeRecord(g, s) = CHOOSE i \in unused : \A j \in unused : i <= j
      BY <2>1 DEF FreeRecord
    <3> HIDE DEF unused
    <3> QED BY <3>1, <3>2
  <2>2. CASE unused = {} /\ dead # {}
    <3>1. \E i \in dead : \A j \in dead : i <= j
      BY <2>2, LeastExists
    <3>2. FreeRecord(g, s) = CHOOSE i \in dead : \A j \in dead : i <= j
      BY <2>2 DEF FreeRecord
    <3> HIDE DEF dead
    <3> QED BY <3>1, <3>2
  <2>3. CASE unused = {} /\ dead = {}
    BY <2>3 DEF FreeRecord
  <2> QED BY <2>1, <2>2, <2>3
<1>2. ASSUME NEW i \in dead PROVE Unused(g, i)
  <2>1. i \in Slots /\ ~Valid(g, i)
    BY DEF Valid
  <2>2. g.rec[i].ent \in {0} \cup Slots
    BY <2>1, StateFields DEF Settling, Record
  <2>3. ASSUME g.rec[i].ent # 0, g.client[g.rec[i].ent].ghost = i PROVE FALSE
    <3>1. ClientOK(g, g.rec[i].ent)
      BY <2>2, <2>3 DEF Settling
    <3>2. ~g.client[g.rec[i].ent].conn
      BY <2>3
    <3> QED BY <2>1, <2>3, <3>1, <3>2 DEF ClientOK, Slots
  <2> QED BY <2>1, <2>3 DEF Unused
<1>3. ASSUME NEW i \in unused PROVE Unused(g, i)
  BY DEF Unused, Valid
<1> QED BY <1>1, <1>2, <1>3

\* The client c goes on as d, with record i.
GoesOnWith(c, d, i) ==
  /\ d.ghost = i /\ d.conn = c.conn /\ d.id = c.id /\ d.gen = c.gen /\ d.begun = c.begun
  /\ d.spawned = c.spawned /\ d.limbo = c.limbo /\ d.inuse = c.inuse /\ d.holder = c.holder
  /\ d.play => c.play

\* Slot s has record i, which has no reservation; the rest is as before.
Linked(g, h, s, i) ==
  /\ GoesOnWith(g.client[s], h.client[s], i) /\ h.rec[i].ent = s
  /\ h.client[s].play = g.client[s].play
  /\ ~Valid(g, i) /\ ~Valid(h, i) /\ h.part = g.part
  /\ \A t \in Slots \ {s} : h.client[t] = g.client[t]
  /\ \A j \in Slots \ {i} : h.snap[j] = g.snap[j] /\ h.rec[j].ent = g.rec[j].ent
  /\ h.fall = g.fall /\ h.abort = g.abort /\ h.timeout = g.timeout
  /\ h.stage = g.stage /\ h.match = g.match /\ h.round = g.round /\ h.world = g.world

\* A record that nobody uses may be given to a client without a reservation.
LEMMA LinkFacts ==
  ASSUME NEW g, Settling(g), NEW s \in Slots, g.client[s].conn,
         \A j \in Slots : Valid(g, j) => g.rec[j].ent # s,
         NEW i \in Slots, NEW h \in State, Linked(g, h, s, i)
  PROVE  Settling(h) /\ Ends(g, h)
<1> USE DEF Linked, GoesOnWith
<1>1. ClientOK(g, s) /\ FallOK(g, s)
  BY DEF Settling
<1>2. Near(g, h, s, i)
  BY DEF Near
<1>3. ThinsAt(g, h, s, i)
  BY <1>1 DEF ThinsAt
<1>4. Thins(g, h) /\ Apart(h)
  BY <1>2, <1>3, ThinsLocal
<1>5. ClientOK(h, s)
  BY <1>1 DEF ClientOK
<1>6. \A j \in Slots : Valid(h, j) <=> Valid(g, j)
  BY DEF Valid
<1>7. FallOK(h, s)
  <2>1. \A j \in Slots : Valid(h, j) => h.rec[j].ent # s
    BY <1>6
  <2> QED BY <1>1, <2>1 DEF FallOK
<1>8. SnapOK(h, i)
  BY DEF SnapOK
<1>9. h.world <= h.round
  BY DEF Settling
<1>10. Settling(h)
  BY <1>2, <1>4, <1>5, <1>7, <1>8, <1>9, Local
<1>11. \A t : Waiting(g, t) => Waiting(h, t)
  <2> SUFFICES ASSUME NEW t, Waiting(g, t) PROVE Waiting(h, t)
    OBVIOUS
  <2>1. PICK j \in Slots : /\ g.snap[j].valid /\ g.rec[j].ent = t
                           /\ g.snap[j].phase \in {"Reserved", "Claimed", "Reinstating"}
    BY DEF Waiting
  <2>2. j # i
    BY <2>1 DEF Valid
  <2> QED BY <2>1, <2>2 DEF Waiting
<1>12. Accounts(g, h)
  <2>1. ASSUME NEW t \in Slots, g.client[t].conn, g.client[t].play
        PROVE  Present(h, g.client[t].id)
    <3>1. h.client[t].conn /\ h.client[t].play /\ h.client[t].id = g.client[t].id
      BY <2>1
    <3> QED BY <3>1 DEF Present, Plays
  <2>2. ASSUME NEW j \in Slots, Valid(g, j), ~g.snap[j].settled
        PROVE  Present(h, g.snap[j].id)
    <3>1. h.snap[j] = g.snap[j]
      BY <2>2
    <3> QED BY <2>2, <3>1 DEF Present, Reserves, Valid
  <2>3. h.part = g.part
    OBVIOUS
  <2> QED BY <2>1, <2>2, <2>3, PresentMoves
<1> QED BY <1>4, <1>10, <1>11, <1>12 DEF Ends, Keeps

\* What giving slot s a record, or none, leaves as it was.
Assigned(g, h, s) ==
  /\ Settling(h) /\ Ends(g, h) /\ h.fall = g.fall /\ h.abort = g.abort
  /\ GoesOnWith(g.client[s], h.client[s], h.client[s].ghost)

\* A client without a reservation gets the record i nobody uses.
LEMMA AssignIs ==
  ASSUME NEW g, Settling(g), NEW s \in Slots, g.client[s].conn,
         \A j \in Slots : Valid(g, j) => g.rec[j].ent # s,
         NEW i \in Slots, Unused(g, i)
  PROVE  LET h == [ClearSnap(g, i) EXCEPT !.rec[i] = [ent |-> s, code |-> TRUE],
                                          !.client[s].ghost = i]
         IN Assigned(g, h, s) /\ Linked(g, h, s, i)
<1> DEFINE k == ClearSnap(g, i)
           o == g.rec[i].ent
           r == [ent |-> s, code |-> TRUE]
           c == [k.client[s] EXCEPT !.ghost = i]
           h == [k EXCEPT !.rec = [k.rec EXCEPT ![i] = r],
                          !.client = [k.client EXCEPT ![s] = c]]
<1>1. /\ k \in State
      /\ k.rec = g.rec /\ k.fall = g.fall /\ k.abort = g.abort
      /\ k.timeout = g.timeout /\ k.stage = g.stage /\ k.match = g.match /\ k.round = g.round
      /\ k.world = g.world /\ k.part = g.part
      /\ ~Valid(k, i) /\ \A j \in Slots \ {i} : k.snap[j] = g.snap[j]
      /\ \A t \in Slots \ {o} : k.client[t] = g.client[t]
      /\ o # 0 => k.client[o] = Vacated(g, i)
  BY ClearSnapFrame
<1> HIDE DEF k
<1>2. o # 0 => k.client[o] = g.client[o]
  BY <1>1 DEF Unused, Vacated
<1>3. \A t \in Slots : k.client[t] = g.client[t]
  BY <1>1, <1>2 DEF Slots
<1>4. r \in Record
  BY DEF Record
<1>5. k.client \in [Slots -> Client] /\ k.rec \in [Slots -> Record] /\ k.client[s] \in Client
  BY <1>1, StateFields
<1>6. c \in Client /\ GoesOnWith(k.client[s], c, i) /\ c.play = k.client[s].play
  BY <1>5 DEF Client, GoesOnWith
<1> HIDE DEF c
<1>7. h \in State
  BY <1>1, <1>4, <1>5, <1>6 DEF State
<1>8. /\ h.snap = k.snap /\ h.part = k.part /\ h.fall = k.fall /\ h.abort = k.abort
      /\ h.timeout = k.timeout /\ h.stage = k.stage /\ h.match = k.match /\ h.round = k.round /\ h.world = k.world
      /\ h.rec[i] = r /\ \A j \in Slots \ {i} : h.rec[j] = k.rec[j]
      /\ h.client[s] = c /\ \A t \in Slots \ {s} : h.client[t] = k.client[t]
  BY <1>1, <1>5 DEF State
<1>9. h = [ClearSnap(g, i) EXCEPT !.rec[i] = [ent |-> s, code |-> TRUE], !.client[s].ghost = i]
  BY DEF k, c
<1> HIDE DEF h
<1>10. Linked(g, h, s, i)
  <2>1. ~Valid(g, i) /\ ~Valid(h, i)
    BY <1>1, <1>8 DEF Unused, Valid
  <2>2. GoesOnWith(g.client[s], h.client[s], i) /\ h.client[s].play = g.client[s].play
    BY <1>3, <1>6, <1>8
  <2> QED BY <1>1, <1>3, <1>8, <2>1, <2>2 DEF Linked
<1>11. Settling(h) /\ Ends(g, h)
  BY <1>7, <1>10, LinkFacts
<1>12. Assigned(g, h, s)
  BY <1>10, <1>11 DEF Assigned, Linked, GoesOnWith
<1> QED BY <1>9, <1>10, <1>12

=============================================================================
