----------------------------- MODULE GhostProofs -----------------------------
(***************************************************************************)
(* What every step of the reconnect reservations keeps, from the lemmas    *)
(* of GhostEnds about ending one: reservations are made, claimed and       *)
(* restored, and the match starts, changes its round and ends.             *)
(***************************************************************************)
EXTENDS GhostEnds

-----------------------------------------------------------------------------
(* Records.                                                                 *)

\* The invariant, of any server.
Good(g) == Sound(g) /\ Live(g) /\ Absent(g)

\* The parts of the invariant.
LEMMA GoodFields ==
  ASSUME NEW g, Good(g)
  PROVE  Sound(g) /\ Settling(g) /\ g \in State /\ Owned(g) /\ Live(g) /\ Absent(g)
BY DEF Good, Sound, Settling

\* Ending reservations keeps it.
LEMMA EndsGood ==
  ASSUME NEW g, Good(g), NEW h, Settling(h), Ends(g, h)
  PROVE  Good(h)
BY GoodFields, EndsKeep DEF Good, Sound

\* Between servers of one match, steps that lose nobody lose nobody together.
LEMMA GoodAccounts ==
  ASSUME NEW g, NEW h, Good(h), h.stage = g.stage, NEW k, Accounts(g, h), Accounts(h, k)
  PROVE  Accounts(g, k)
<1>1. Matched(g) => Matched(h)
  BY GoodFields DEF Matched, Live
<1> QED BY <1>1 DEF Accounts

\* So does what the invariant does not speak of.
LEMMA AlikeGood ==
  ASSUME NEW g, Good(g), NEW h \in State, Alike(g, h)
  PROVE  Good(h)
BY GoodFields, AlikeSound, EndsGood

\* Nobody is lost whose result is open, while those who have a reservation do not
\* play.
Carries(g, h) == h.stage = g.stage /\ (Rest(g) => Rest(h) /\ Accounts(g, h))

\* Ending reservations loses nobody,
LEMMA EndsCarries ==
  ASSUME NEW g, Good(g), NEW h, Ends(g, h)
  PROVE  Carries(g, h)
BY GoodFields, EndsKeep DEF Carries, Ends, Thins

\* nor does what the invariant does not speak of,
LEMMA AlikeCarries ==
  ASSUME NEW g, Good(g), NEW h \in State, Alike(g, h)
  PROVE  Carries(g, h)
BY GoodFields, AlikeSound, EndsCarries

\* nor do two steps of one match that lose nobody.
LEMMA CarriesTransitive ==
  ASSUME NEW g, NEW h, Good(h), NEW k, Carries(g, h), Carries(h, k)
  PROVE  Carries(g, k)
BY GoodAccounts DEF Carries

\* Who plays goes on, nobody else does, and reservations stay where they are with
\* the results they have.
Stays(g, h) ==
  /\ NoneEnters(g, h) /\ h.stage = g.stage
  /\ \A s \in Slots :
       /\ h.client[s].conn /\ h.client[s].play => g.client[s].conn /\ g.client[s].play
       /\ g.client[s].conn /\ g.client[s].play =>
            h.client[s].conn /\ h.client[s].play /\ h.client[s].id = g.client[s].id
  /\ \A i \in Slots :
       /\ Valid(h, i) => Valid(g, i) /\ h.rec[i].ent = g.rec[i].ent
       /\ Valid(g, i) /\ ~g.snap[i].settled =>
            Valid(h, i) /\ h.snap[i].id = g.snap[i].id /\ ~h.snap[i].settled

\* So nobody is lost.
LEMMA StaysCarries ==
  ASSUME NEW g, NEW h, Stays(g, h)
  PROVE  Carries(g, h)
<1>1. Rest(g) => Rest(h)
  BY DEF Stays, Rest
<1>2. Accounts(g, h)
  <2>1. \A s \in Slots : g.client[s].conn /\ g.client[s].play => Present(h, g.client[s].id)
    BY DEF Stays, Present, Plays
  <2>2. \A i \in Slots : Valid(g, i) /\ ~g.snap[i].settled => Present(h, g.snap[i].id)
    BY DEF Stays, Present, Reserves
  <2>3. \A id \in Ids : h.part[id] = "in" => g.part[id] = "in"
    BY DEF Stays, NoneEnters
  <2> QED BY <2>1, <2>2, <2>3, PresentMoves
<1> QED BY <1>1, <1>2 DEF Carries, Stays

\* Nobody connects.
NobodyNew(g, h) == \A s \in Slots : h.client[s].conn => g.client[s].conn

\* An automatic timeout that is retained stays so unless its owner waits no
\* longer.
Resumes(g, h) ==
  g.timeout.auto /\ Retained(g) =>
    \/ Retained(h)
    \/ g.timeout.ent # 0 /\ Waiting(g, g.timeout.ent) /\ ~Waiting(h, g.timeout.ent)

\* Both.
Passed(g, h) == NobodyNew(g, h) /\ Resumes(g, h)

\* Ending reservations does no more,
LEMMA EndsPassed ==
  ASSUME NEW g, NEW h, Ends(g, h)
  PROVE  Passed(g, h)
<1>1. \A s \in Slots : h.client[s].conn = g.client[s].conn
  BY DEF Ends, Thins
<1> QED BY <1>1 DEF Ends, Keeps, Passed, NobodyNew, Resumes, Retained

\* nor does what follows it and leaves the timeout and its owner alone.
LEMMA EndsThenResumes ==
  ASSUME NEW g, NEW k, Ends(g, k), NEW h, Retained(k) => Retained(h),
         g.timeout.ent # 0 /\ Waiting(h, g.timeout.ent) => Waiting(k, g.timeout.ent)
  PROVE  Resumes(g, h)
BY DEF Ends, Keeps, Resumes, Retained

\* What the invariant does not speak of may change before it,
LEMMA AlikePassed ==
  ASSUME NEW g \in State, NEW k \in State, NEW h \in State, Alike(g, k), Passed(k, h)
  PROVE  Passed(g, h)
<1>1. \A s \in Slots : k.client[s].conn = g.client[s].conn
  BY DEF Alike, Resembles, SameClient
<1>2. k.timeout = g.timeout /\ \A t : Waiting(k, t) <=> Waiting(g, t)
  BY AlikeWaiting DEF Alike, Resembles
<1> QED BY <1>1, <1>2 DEF Passed, NobodyNew, Resumes, Retained

\* and after it.
LEMMA PassedAlike ==
  ASSUME NEW g, NEW k \in State, NEW h \in State, Passed(g, k), Alike(k, h)
  PROVE  Passed(g, h)
<1>1. \A s \in Slots : h.client[s].conn = k.client[s].conn
  BY DEF Alike, Resembles, SameClient
<1>2. h.timeout = k.timeout /\ \A t : Waiting(h, t) <=> Waiting(k, t)
  BY AlikeWaiting DEF Alike, Resembles
<1> QED BY <1>1, <1>2 DEF Passed, NobodyNew, Resumes, Retained

\* During a match a client without a record has no reservation.
LEMMA NoRecordNoReservation ==
  ASSUME NEW g, Settling(g), Live(g), g.stage = "playing", NEW s \in Slots,
         OwnedGhost(g, s) = 0
  PROVE  \A j \in Slots : Valid(g, j) => g.rec[j].ent # s
<1> SUFFICES ASSUME NEW j \in Slots, Valid(g, j), g.rec[j].ent = s PROVE FALSE
  OBVIOUS
<1>1. g.client[s].ghost = j /\ j # 0
  BY DEF Live, Slots
<1> QED BY <1>1 DEF OwnedGhost

\* The owner of a timeout is not a client who plays.
LEMMA NotOwner ==
  ASSUME NEW g, Good(g), NEW s \in Slots, g.client[s].conn, Unbound(g, s)
  PROVE  g.timeout.ent # s
<1> SUFFICES ASSUME g.timeout.ent = s PROVE FALSE
  OBVIOUS
<1>1. g.timeout.ent # 0
  BY DEF Slots
<1>2. Waiting(g, s)
  BY <1>1, GoodFields DEF Owned
<1>3. PICK j \in Slots : /\ Valid(g, j) /\ g.rec[j].ent = s
                         /\ g.snap[j].phase \in {"Reserved", "Claimed", "Reinstating"}
  BY <1>2 DEF Waiting, Valid
<1>4. g.snap[j].phase = "Reserved"
  BY <1>3 DEF Unbound, Pending
<1> QED BY <1>1, <1>3, <1>4, GoodFields DEF Absent

\* A cleared client has no record.
LEMMA CleanedAssigned ==
  ASSUME NEW g, NEW s \in Slots, g.client[s].conn, NEW h, Cleaned(g, h, s), Settling(g)
  PROVE  Assigned(g, h, s) /\ OwnedGhost(h, s) = 0 /\ h.client[s].conn
<1>1. g.client[s].conn \in BOOLEAN /\ h.client[s].conn \in BOOLEAN
  BY StateFields, ClientFields DEF Settling, Cleaned
<1> QED BY <1>1 DEF Cleaned, GoesOn, Assigned, GoesOnWith, OwnedGhost

\* A client may lose a record that is not his.
LEMMA UnlinkAssigned ==
  ASSUME NEW g, Settling(g), NEW s \in Slots, OwnedGhost(g, s) = 0
  PROVE  LET h == [g EXCEPT !.client[s].ghost = 0] IN
         Assigned(g, h, s) /\ h.client[s].ghost = 0
<1> DEFINE h == [g EXCEPT !.client[s].ghost = 0]
<1>1. \A j \in Slots : Valid(g, j) /\ g.rec[j].ent = s => g.client[s].ghost # j
  BY DEF OwnedGhost, Slots
<1>2. /\ Settling(h) /\ Ends(g, h) /\ h.client[s].ghost = 0
      /\ SameClient([g.client[s] EXCEPT !.ghost = 0], h.client[s])
  BY <1>1, UnlinkFacts
<1>3. g \in State /\ g.client[s] \in Client
  BY StateFields DEF Settling
<1>4. h.fall = g.fall /\ h.abort = g.abort
  BY <1>3 DEF State
<1> HIDE DEF h
<1>5. GoesOnWith(g.client[s], h.client[s], h.client[s].ghost)
  BY <1>2, <1>3 DEF GoesOnWith, SameClient, Client
<1> QED BY <1>2, <1>4, <1>5 DEF Assigned, h

\* MM_Ghost_Assign gives a slot without a record one, or none.
LEMMA AssignFacts ==
  ASSUME NEW g, Good(g), NEW s \in Slots, g.client[s].conn,
         Protected(g, s) \/ OwnedGhost(g, s) = 0, NEW blocked
  PROVE  /\ Assigned(g, Assign(g, s, blocked), s)
         /\ ~Protected(g, s) /\ CanOwnGhost(g, s) =>
              \/ OwnedGhost(Assign(g, s, blocked), s) = 0
              \/ /\ Linked(g, Assign(g, s, blocked), s, OwnedGhost(Assign(g, s, blocked), s))
                 /\ OwnedGhost(Assign(g, s, blocked), s) \in Slots
<1>1. Sound(g) /\ Settling(g) /\ g \in State /\ Live(g)
  BY GoodFields
<1>2. CASE Protected(g, s)
  <2>1. Assign(g, s, blocked) = g
    BY <1>2 DEF Assign
  <2>2. Assigned(g, g, s)
    BY <1>1, EndsReflexive DEF Assigned, GoesOnWith
  <2> QED BY <1>2, <2>1, <2>2
<1>3. CASE ~Protected(g, s) /\ ~CanOwnGhost(g, s)
  <2>1. Cleaned(g, ClearEntityGhost(g, s, blocked), s)
    BY <1>1, <1>3, UnprotectedFacts, ClearEntityFacts
  <2>2. Assign(g, s, blocked) = ClearEntityGhost(g, s, blocked)
    BY <1>3 DEF Assign
  <2> QED BY <1>1, <1>3, <2>1, <2>2, CleanedAssigned
<1>4. CASE ~Protected(g, s) /\ CanOwnGhost(g, s) /\ FreeRecord(g, s) = 0
  <2>1. Assign(g, s, blocked) = [g EXCEPT !.client[s].ghost = 0]
    BY <1>4 DEF Assign
  <2>2. Assigned(g, Assign(g, s, blocked), s) /\ Assign(g, s, blocked).client[s].ghost = 0
    BY <1>1, <1>4, <2>1, UnlinkAssigned
  <2> QED BY <2>2 DEF OwnedGhost
<1>5. CASE ~Protected(g, s) /\ CanOwnGhost(g, s) /\ FreeRecord(g, s) # 0
  <2> DEFINE i == FreeRecord(g, s)
             h == [ClearSnap(g, i) EXCEPT !.rec[i] = [ent |-> s, code |-> TRUE],
                                          !.client[s].ghost = i]
  <2>1. i \in Slots /\ Unused(g, i)
    BY <1>1, <1>5, FreeRecordFacts
  <2>2. \A j \in Slots : Valid(g, j) => g.rec[j].ent # s
    BY <1>1, <1>5, NoRecordNoReservation DEF CanOwnGhost
  <2>3. Assign(g, s, blocked) = h
    BY <1>5 DEF Assign
  <2> HIDE DEF i
  <2>4. Assigned(g, h, s) /\ Linked(g, h, s, i)
    BY <1>1, <2>1, <2>2, AssignIs
  <2> HIDE DEF h
  <2>5. OwnedGhost(h, s) = i
    BY <2>1, <2>4 DEF Linked, GoesOnWith, OwnedGhost, Slots
  <2> QED BY <2>1, <2>3, <2>4, <2>5
<1> QED BY <1>2, <1>3, <1>4, <1>5

\* Two assignments of a slot are one.
LEMMA AssignedTransitive ==
  ASSUME NEW g, NEW h, NEW k, NEW s \in Slots, Assigned(g, h, s), Assigned(h, k, s)
  PROVE  Assigned(g, k, s)
BY EndsTransitive DEF Assigned, GoesOnWith

\* MM_Ghost_DoAssign gives a client a record without a reservation; no
\* timeout is his.
LEMMA DoAssignFacts ==
  ASSUME NEW g, Good(g), NEW s \in Slots, g.client[s].conn, NEW blocked
  PROVE  LET h == DoAssign(g, s, blocked) IN
         /\ Assigned(g, h, s)
         /\ ~Protected(g, s) /\ CanOwnGhost(g, s) =>
              \A j \in Slots : Valid(h, j) => h.rec[j].ent # s
<1>1. Sound(g) /\ Settling(g) /\ g \in State /\ Live(g)
  BY GoodFields
<1>2. CASE Protected(g, s)
  <2>1. DoAssign(g, s, blocked) = g
    BY <1>2 DEF DoAssign
  <2>2. Assigned(g, g, s)
    BY <1>1, EndsReflexive DEF Assigned, GoesOnWith
  <2> QED BY <1>2, <2>1, <2>2
<1>3. CASE ~Protected(g, s) /\ ~CanOwnGhost(g, s)
  <2>1. Cleaned(g, ClearEntityGhost(g, s, blocked), s)
    BY <1>1, <1>3, UnprotectedFacts, ClearEntityFacts
  <2>2. DoAssign(g, s, blocked) = ClearEntityGhost(g, s, blocked)
    BY <1>3 DEF DoAssign
  <2> QED BY <1>1, <1>3, <2>1, <2>2, CleanedAssigned
<1>4. CASE ~Protected(g, s) /\ CanOwnGhost(g, s)
  <2> DEFINE i == OwnedGhost(g, s)
             h == IF i # 0 THEN ClearRecord(g, i) ELSE g
             k == [h EXCEPT !.client[s].ghost = 0]
  <2>1. DoAssign(g, s, blocked) = Assign(k, s, blocked)
    BY <1>4 DEF DoAssign
  <2>2. Assigned(g, h, s) /\ OwnedGhost(h, s) = 0
    <3>1. CASE i = 0
      <4>1. Assigned(g, g, s)
        BY <1>1, EndsReflexive DEF Assigned, GoesOnWith
      <4> QED BY <3>1, <4>1
    <3>2. CASE i # 0
      <4>1. i \in Slots /\ g.client[s].ghost = i /\ g.rec[i].ent = s
        BY <1>1, <3>2, OwnedGhostIs
      <4> HIDE DEF i
      <4>2. Cleaned(g, ClearRecord(g, i), s)
        <5>1. CASE ~Valid(g, i)
          BY <1>1, <4>1, <5>1, EmptyRecordFacts
        <5>2. CASE Valid(g, i)
          <6> DEFINE m == ClearRecord(g, i)
          <6>1. Settling(m) /\ Thins(g, m) /\ Cleared(g, m, i)
            BY <1>1, <4>1, ClearRecordFacts
          <6> HIDE DEF m
          <6>2. \A t : t # s => (Waiting(m, t) <=> Waiting(g, t))
            BY <1>1, <4>1, <5>2, <6>1, ClearedWaiting
          <6>3. g.timeout.ent # s
            BY <1>1, <1>4, UnprotectedFacts, NotOwner
          <6>4. m.timeout = g.timeout /\ m.fall = g.fall /\ m.abort = g.abort
            BY <6>1 DEF Cleared
          <6>6. Leaves(g.client[s], m.client[s], i)
            BY <4>1, <6>1 DEF Cleared, Slots
          <6>8. Present(m, g.snap[i].id)
            <7>1. g.client[s].id = g.snap[i].id
              BY <1>1, <4>1, <5>2 DEF Settling, SnapOK
            <7>2. m.client[s].conn /\ m.client[s].play /\ m.client[s].id = g.snap[i].id
              BY <1>4, <6>6, <7>1 DEF Leaves, CanOwnGhost
            <7> QED BY <7>2 DEF Present, Plays
          <6>9. Accounts(g, m)
            BY <1>1, <4>1, <6>1, <6>8, ClearedAccounts
          <6>5. Ends(g, m)
            BY <6>1, <6>2, <6>3, <6>4, <6>9 DEF Ends, Keeps
          <6>7. GoesOn(g.client[s], m.client[s])
            BY <4>1, <6>6 DEF GoesOn, Leaves
          <6>10. NoneEnters(g, m)
            BY <6>1 DEF Cleared, NoneEnters
          <6> QED BY <6>1, <6>4, <6>5, <6>7, <6>10 DEF Cleaned, m
        <5> QED BY <5>1, <5>2
      <4> QED BY <1>1, <3>2, <4>2, CleanedAssigned
    <3> QED BY <3>1, <3>2
  <2> HIDE DEF h
  <2>3. Settling(h)
    BY <2>2 DEF Assigned
  <2>4. Assigned(h, k, s) /\ k.client[s].ghost = 0
    BY <2>2, <2>3, UnlinkAssigned
  <2> HIDE DEF k
  <2>5. Assigned(g, k, s)
    BY <2>2, <2>4, AssignedTransitive
  <2>6. Good(k) /\ k.client[s].conn /\ OwnedGhost(k, s) = 0
    <3>1. Good(k)
      BY <2>5, EndsGood DEF Assigned
    <3>2. k.client[s].conn
      BY <2>5 DEF Assigned, GoesOnWith
    <3> QED BY <2>4, <3>1, <3>2 DEF OwnedGhost
  <2>7. Assigned(k, Assign(k, s, blocked), s)
    BY <2>6, AssignFacts
  <2> DEFINE r == Assign(k, s, blocked)
  <2>8. \A j \in Slots : Valid(r, j) => r.rec[j].ent # s
    <3>1. k.stage = "playing" /\ Settling(k) /\ Live(k)
      BY <1>4, <2>5, <2>6, GoodFields DEF Assigned, Ends, Thins, CanOwnGhost
    <3>2. \A j \in Slots : Valid(k, j) => k.rec[j].ent # s
      BY <2>6, <3>1, NoRecordNoReservation
    <3> QED BY <2>7, <3>2 DEF Assigned, Ends, Thins
  <2> HIDE DEF r
  <2>9. Assigned(g, r, s)
    BY <2>5, <2>7, AssignedTransitive DEF r
  <2> QED BY <2>1, <2>8, <2>9 DEF r
<1> QED BY <1>2, <1>3, <1>4

-----------------------------------------------------------------------------
(* A slot and its reservation change.                                       *)

\* The servers differ at most in slot s and in reservation i, which is or was
\* of that slot, as far as the invariant goes.
Like(g, h, s, i) ==
  /\ \A t \in Slots \ {s} : /\ SameClient(g.client[t], h.client[t]) /\ h.fall[t] = g.fall[t]
                            /\ t \in h.abort <=> t \in g.abort
  /\ \A j \in Slots \ {i} : /\ SameSnap(g.snap[j], h.snap[j]) /\ h.rec[j].ent = g.rec[j].ent
                            /\ Valid(g, j) => g.rec[j].ent # s
  /\ i \in Slots /\ Valid(g, i) => g.rec[i].ent = s
  /\ i \in Slots /\ Valid(h, i) => h.rec[i].ent = s
  /\ h.stage = g.stage /\ h.match = g.match /\ h.round = g.round /\ h.world = g.world

\* Only the slot and the reservation have to be looked at.
LEMMA LikeLocal ==
  ASSUME NEW g, Settling(g), NEW h \in State, NEW s, NEW i, Like(g, h, s, i),
         s \in Slots => ClientOK(h, s) /\ FallOK(h, s),
         i \in Slots => SnapOK(h, i),
         \A t \in Slots \ {s} : i \in Slots /\ g.client[t].ghost = i => h.rec[i].ent # t,
         Apart(h)
  PROVE  Settling(h)
<1> DEFINE C == [t \in Slots |-> IF t = s THEN h.client[t] ELSE g.client[t]]
           S == [j \in Slots |-> IF j = i THEN h.snap[j] ELSE g.snap[j]]
           k == [h EXCEPT !.client = C, !.snap = S]
<1>1. g \in State
  BY DEF Settling
<1>2. C \in [Slots -> Client] /\ S \in [Slots -> Snap]
  BY <1>1, StateFields
<1>3. /\ \A t \in Slots : C[t] = IF t = s THEN h.client[t] ELSE g.client[t]
      /\ \A j \in Slots : S[j] = IF j = i THEN h.snap[j] ELSE g.snap[j]
  OBVIOUS
<1> HIDE DEF C, S
<1>4. k \in State
  BY <1>2 DEF State
<1>5. /\ k.client = C /\ k.snap = S /\ k.rec = h.rec /\ k.fall = h.fall /\ k.abort = h.abort
      /\ k.timeout = h.timeout /\ k.stage = h.stage /\ k.match = h.match
      /\ k.round = h.round /\ k.world = h.world
  BY DEF State
<1> HIDE DEF k
<1>6. \A t \in Slots : SameClient(k.client[t], h.client[t])
  BY <1>3, <1>5 DEF Like, SameClient
<1>7. \A j \in Slots : SameSnap(k.snap[j], h.snap[j])
  BY <1>3, <1>5 DEF Like, SameSnap
<1>8. Resembles(k, h)
  BY <1>5, <1>6, <1>7 DEF Resembles
<1>9. Near(g, k, s, i)
  BY <1>3, <1>5 DEF Near, Like
<1>10. \A j \in Slots : Valid(k, j) <=> Valid(h, j)
  BY <1>7 DEF Valid, SameSnap
<1>11. s \in Slots => ClientOK(k, s) /\ FallOK(k, s)
  <2> SUFFICES ASSUME s \in Slots PROVE ClientOK(k, s) /\ FallOK(k, s)
    OBVIOUS
  <2>1. k.client[s] = h.client[s] /\ h.client[s].ghost \in {0} \cup Slots
    BY <1>3, <1>5, StateFields, ClientFields
  <2>2. ClientOK(k, s)
    BY <1>5, <1>10, <2>1 DEF ClientOK
  <2>3. FallOK(k, s)
    BY <1>5, <1>7, <1>10, <2>1 DEF FallOK, SameSnap, Valid
  <2> QED BY <2>2, <2>3
<1>12. i \in Slots => SnapOK(k, i) /\ (Valid(k, i) => k.rec[i].ent = s)
  <2> SUFFICES ASSUME i \in Slots, Valid(k, i) PROVE SnapOK(k, i) /\ k.rec[i].ent = s
    BY DEF SnapOK
  <2>1. Valid(h, i) /\ h.rec[i].ent = s /\ k.rec[i].ent = s /\ k.snap[i] = h.snap[i]
    BY <1>3, <1>5, <1>10 DEF Like
  <2>2. s \in Slots
    <3>1. h.rec[i].ent \in {0} \cup Slots
      BY StateFields DEF Record
    <3> QED BY <2>1, <3>1 DEF SnapOK
  <2>3. k.client[s] = h.client[s] /\ k.abort = h.abort
    BY <1>3, <1>5, <2>2
  <2> QED BY <2>1, <2>3 DEF SnapOK
<1>13. Apart(k)
  <2>1. \A t \in Slots : k.client[t].conn = h.client[t].conn /\ k.client[t].id = h.client[t].id
    BY <1>6 DEF SameClient
  <2>2. \A j \in Slots : Valid(k, j) => k.snap[j].id = h.snap[j].id
    BY <1>7 DEF SameSnap, Valid
  <2> QED BY <1>5, <1>10, <2>1, <2>2 DEF Apart
<1>14. k.world <= k.round
  BY <1>5 DEF Like, Settling
<1>15. Settling(k)
  BY <1>4, <1>5, <1>9, <1>11, <1>12, <1>13, <1>14, Local
<1> QED BY <1>8, <1>15, ResemblesSettling

\* Who waits elsewhere still does.
LEMMA LikeWaiting ==
  ASSUME NEW g, NEW h, NEW s, NEW i, Like(g, h, s, i)
  PROVE  \A t : t # s => (Waiting(h, t) <=> Waiting(g, t))
<1> SUFFICES ASSUME NEW t, t # s PROVE Waiting(h, t) <=> Waiting(g, t)
  OBVIOUS
<1>1. \A j \in Slots : h.snap[j].valid /\ h.rec[j].ent = t
        => g.snap[j].valid /\ h.snap[j].phase = g.snap[j].phase /\ h.rec[j].ent = g.rec[j].ent
  BY DEF Like, Valid, SameSnap
<1>2. \A j \in Slots : g.snap[j].valid /\ g.rec[j].ent = t
        => h.snap[j].valid /\ h.snap[j].phase = g.snap[j].phase /\ h.rec[j].ent = g.rec[j].ent
  BY DEF Like, Valid, SameSnap
<1> QED BY <1>1, <1>2 DEF Waiting

\* Reservation i of slot s has what a match and a timeout ask of it.
Fits(h, s, i) ==
  i \in Slots /\ Valid(h, i) =>
    /\ h.stage = "playing" =>
         /\ h.client[s].ghost = i
         /\ h.snap[i].match = h.match
         /\ h.snap[i].phase # "AwaitingBegin" =>
              /\ h.snap[i].round = h.round
              /\ h.snap[i].world = h.world
    /\ h.timeout.ent = s /\ h.snap[i].phase = "Reserved" => ~h.client[s].conn

\* The timeout is as before, or has slot s for its owner.
Times(g, h, s) ==
  /\ h.timeout = g.timeout \/ h.timeout.ent = s
  /\ h.timeout.ent = s /\ s # 0 =>
       /\ h.timeout.auto /\ ~h.timeout.resuming /\ h.timeout.left > 0
       /\ Waiting(h, s)

\* The invariant is kept where only a slot and its reservation change.
LEMMA GoodLocal ==
  ASSUME NEW g, Good(g), NEW h, Settling(h), NEW s, NEW i, Like(g, h, s, i),
         Fits(h, s, i), Times(g, h, s)
  PROVE  Good(h)
<1>1. Settling(g) /\ Owned(g) /\ Live(g) /\ Absent(g) /\ g \in State /\ h \in State
  BY GoodFields DEF Settling
<1>2. Owned(h)
  <2> SUFFICES ASSUME h.timeout.ent # 0 PROVE /\ h.timeout.auto /\ ~h.timeout.resuming
                                              /\ h.timeout.left > 0
                                              /\ Waiting(h, h.timeout.ent)
    BY DEF Owned
  <2>1. CASE h.timeout.ent = s
    BY <2>1 DEF Times
  <2>2. CASE h.timeout.ent # s
    <3>1. h.timeout = g.timeout
      BY <2>2 DEF Times
    <3>2. Waiting(g, h.timeout.ent)
      BY <1>1, <3>1 DEF Owned
    <3> QED BY <1>1, <2>2, <3>1, <3>2, LikeWaiting DEF Owned
  <2> QED BY <2>1, <2>2
<1>3. ASSUME NEW j \in Slots \ {i}, Valid(h, j)
      PROVE  /\ Valid(g, j) /\ h.rec[j].ent = g.rec[j].ent /\ g.rec[j].ent \in Slots \ {s}
             /\ h.snap[j].phase = g.snap[j].phase /\ h.snap[j].match = g.snap[j].match
             /\ h.snap[j].round = g.snap[j].round /\ h.snap[j].world = g.snap[j].world
             /\ SameClient(g.client[g.rec[j].ent], h.client[g.rec[j].ent])
  <2>1. Valid(g, j) /\ h.rec[j].ent = g.rec[j].ent /\ SameSnap(g.snap[j], h.snap[j])
    BY <1>3 DEF Like, SameSnap, Valid
  <2>2. g.rec[j].ent \in Slots \ {s}
    <3>1. g.rec[j].ent \in Slots
      BY <1>1, <2>1, Places
    <3> QED BY <2>1, <3>1 DEF Like
  <2> QED BY <2>1, <2>2 DEF Like, SameSnap, Valid
<1>4. Live(h)
  <2> SUFFICES ASSUME h.stage = "playing", NEW j \in Slots, Valid(h, j)
      PROVE  /\ h.client[h.rec[j].ent].ghost = j
             /\ h.snap[j].match = h.match
             /\ h.snap[j].phase # "AwaitingBegin" =>
                  /\ h.snap[j].round = h.round
                  /\ h.snap[j].world = h.world
    BY DEF Live
  <2>1. CASE j = i
    BY <2>1 DEF Fits, Like
  <2>2. CASE j # i
    <3>1. g.stage = "playing" /\ g.match = h.match /\ g.round = h.round /\ g.world = h.world
      BY DEF Like
    <3> QED BY SMTT(20), <1>1, <1>3, <2>2, <3>1 DEF Live, SameClient
  <2> QED BY <2>1, <2>2
<1>5. Absent(h)
  <2> SUFFICES ASSUME h.timeout.ent # 0, NEW j \in Slots, Valid(h, j),
                      h.rec[j].ent = h.timeout.ent, h.snap[j].phase = "Reserved"
      PROVE  ~h.client[h.timeout.ent].conn
    BY DEF Absent
  <2>1. CASE j = i
    BY <2>1 DEF Fits, Like
  <2>2. CASE j # i
    <3>1. h.timeout = g.timeout
      BY <1>3, <2>2 DEF Times
    <3> QED BY SMTT(20), <1>1, <1>3, <2>2, <3>1 DEF Absent, SameClient
  <2> QED BY <2>1, <2>2
<1> QED BY <1>2, <1>4, <1>5 DEF Good, Sound

-----------------------------------------------------------------------------
(* A client leaves.                                                         *)

\* A slot with nothing pending is not protected.
LEMMA UnboundUnprotected ==
  ASSUME NEW g, NEW s, Unbound(g, s), ~g.fall[s].valid
  PROVE  ~Protected(g, s)
<1> DEFINE found == {i \in Slots : /\ g.snap[i].valid /\ g.snap[i].phase \in Pending
                                   /\ g.rec[i].ent = s /\ g.snap[i].target = s
                                   /\ g.snap[i].gen = g.client[s].gen
                                   /\ Owns(g, i, g.client[s].id)}
<1>1. found = {}
  BY DEF Unbound, Valid
<1>2. IndexFor(g, s, Pending) = 0
  BY <1>1 DEF IndexFor
<1> QED BY <1>2 DEF Protected, FallbackPending, Pending

\* Who leaves nothing behind gives up the slot.
LEMMA LeaveFacts ==
  ASSUME NEW g, Good(g), NEW s \in Slots, \A j \in Slots : Valid(g, j) => g.rec[j].ent # s,
         ~g.fall[s].valid, s \notin g.abort, NEW n \in 1..MaxGen
  PROVE  Good([g EXCEPT !.client[s] = NoClient(n)])
<1> DEFINE c == NoClient(n)
           h == [g EXCEPT !.client = [g.client EXCEPT ![s] = c]]
<1>1. g \in State /\ Settling(g) /\ g.client \in [Slots -> Client] /\ Owned(g)
  BY GoodFields, StateFields
<1>2. /\ c \in Client /\ c.conn = FALSE /\ c.begun = FALSE /\ c.spawned = FALSE
      /\ c.limbo = FALSE /\ c.ghost = 0 /\ c.holder = FALSE
  BY NoClientFields
<1> HIDE DEF c
<1>3. h \in State
  BY <1>1, <1>2 DEF State
<1>4. /\ h.rec = g.rec /\ h.snap = g.snap /\ h.fall = g.fall /\ h.abort = g.abort
      /\ h.timeout = g.timeout /\ h.stage = g.stage /\ h.match = g.match
      /\ h.round = g.round /\ h.world = g.world
      /\ h.client[s] = c /\ \A t \in Slots \ {s} : h.client[t] = g.client[t]
  BY <1>1 DEF State
<1>5. h = [g EXCEPT !.client[s] = NoClient(n)]
  BY DEF c
<1> HIDE DEF h
<1>6. Like(g, h, s, 0) /\ 0 \notin Slots
  BY <1>4 DEF Like, SameClient, SameSnap, Slots, Valid
<1>7. ClientOK(h, s) /\ FallOK(h, s)
  BY <1>2, <1>4 DEF ClientOK, FallOK
<1>8. Apart(h)
  <2>1. Apart(g)
    BY <1>1 DEF Settling
  <2>2. \A t \in Slots : h.client[t].conn => h.client[t] = g.client[t]
    BY <1>2, <1>4
  <2> QED BY <1>4, <2>1, <2>2 DEF Apart, Valid
<1>9. Settling(h)
  BY <1>1, <1>3, <1>6, <1>7, <1>8, LikeLocal
<1>10. Times(g, h, s)
  <2>1. ~Waiting(g, s)
    BY DEF Waiting, Valid
  <2>2. g.timeout.ent # s \/ s = 0
    BY <1>1, <2>1 DEF Owned
  <2> QED BY <1>4, <2>2 DEF Times
<1>11. Fits(h, s, 0)
  BY <1>6 DEF Fits
<1> QED BY <1>5, <1>6, <1>9, <1>10, <1>11, GoodLocal

\* The client of slot s has left reservation i behind.
Departed(g, h, s, i) ==
  /\ Like(g, h, s, i)
  /\ i \in Slots /\ Valid(h, i) /\ h.rec[i].ent = s
  /\ h.snap[i].id = g.client[s].id /\ h.snap[i].phase = "Reserved"
  /\ g.stage = "playing" => h.snap[i].match = g.match /\ h.snap[i].round = g.round
                              /\ h.snap[i].world = g.world /\ h.client[s].ghost = i
  /\ h.client[s].ghost \in {0, i}
  /\ h.client[s].conn = FALSE /\ h.client[s].begun = FALSE /\ h.client[s].spawned = FALSE
  /\ h.client[s].limbo = FALSE /\ h.client[s].holder = TRUE /\ h.client[s].gen < MaxGen
  /\ s \notin h.abort /\ ~h.fall[s].valid
  /\ \/ h.timeout = g.timeout
     \/ /\ h.timeout.ent = s /\ h.timeout.auto /\ ~h.timeout.resuming
        /\ h.timeout.left > 0

\* His reservation keeps the slot for him.
LEMMA DepartFacts ==
  ASSUME NEW g, Good(g), NEW s \in Slots, g.client[s].conn, NEW i, NEW h \in State,
         Departed(g, h, s, i)
  PROVE  Good(h)
<1> USE DEF Departed
<1>1. g \in State /\ Settling(g) /\ Owned(g)
  BY GoodFields
<1>2. ClientOK(h, s)
  BY DEF ClientOK
<1>3. FallOK(h, s)
  BY DEF FallOK
<1>4. SnapOK(h, i)
  BY DEF SnapOK, Pending, Slots
<1>5. Apart(h)
  <2>1. Apart(g)
    BY <1>1 DEF Settling
  <2>2. ASSUME NEW t \in Slots, h.client[t].conn
        PROVE  /\ t # s /\ g.client[t].conn /\ h.client[t].id = g.client[t].id
               /\ h.client[t].id # h.snap[i].id
    <3>1. t # s
      BY <2>2
    <3>2. SameClient(g.client[t], h.client[t])
      BY <3>1 DEF Like
    <3> QED BY <2>1, <2>2, <3>1, <3>2 DEF Apart, SameClient
  <2>3. ASSUME NEW j \in Slots \ {i}, Valid(h, j)
        PROVE  /\ Valid(g, j) /\ h.rec[j].ent = g.rec[j].ent /\ h.rec[j].ent # s
               /\ h.snap[j].id = g.snap[j].id /\ h.snap[j].id # h.snap[i].id
    <3>1. /\ Valid(g, j) /\ h.rec[j].ent = g.rec[j].ent /\ h.rec[j].ent # s
          /\ h.snap[j].id = g.snap[j].id
      BY <2>3 DEF Like, SameSnap, Valid
    <3> QED BY <2>1, <3>1 DEF Apart
  <2>4. \A t, u \in Slots :
          h.client[t].conn /\ h.client[u].conn /\ h.client[t].id = h.client[u].id => t = u
    BY <2>1, <2>2 DEF Apart
  <2>5. \A t, j \in Slots :
          h.client[t].conn /\ Valid(h, j) /\ h.snap[j].id = h.client[t].id => h.rec[j].ent = t
    <3> SUFFICES ASSUME NEW t \in Slots, NEW j \in Slots, h.client[t].conn, Valid(h, j),
                        h.snap[j].id = h.client[t].id
        PROVE  h.rec[j].ent = t
      OBVIOUS
    <3>1. j # i
      BY <2>2
    <3> QED BY <2>1, <2>2, <2>3, <3>1 DEF Apart
  <2>6. \A j, k \in Slots :
          Valid(h, j) /\ Valid(h, k) /\ (h.snap[j].id = h.snap[k].id \/ h.rec[j].ent = h.rec[k].ent)
            => j = k
    <3> SUFFICES ASSUME NEW j \in Slots, NEW k \in Slots, Valid(h, j), Valid(h, k),
                        h.snap[j].id = h.snap[k].id \/ h.rec[j].ent = h.rec[k].ent
        PROVE  j = k
      OBVIOUS
    <3>1. CASE j = i \/ k = i
      BY <2>3, <3>1
    <3>2. CASE j # i /\ k # i
      BY <2>1, <2>3, <3>2 DEF Apart
    <3> QED BY <3>1, <3>2
  <2> QED BY <2>4, <2>5, <2>6 DEF Apart
<1>6. Settling(h)
  BY <1>1, <1>2, <1>3, <1>4, <1>5, LikeLocal
<1>7. Waiting(h, s)
  BY DEF Waiting, Valid
<1>8. Times(g, h, s)
  BY <1>1, <1>7 DEF Times, Owned
<1>9. Fits(h, s, i)
  <2>1. h.stage = g.stage /\ h.match = g.match /\ h.round = g.round /\ h.world = g.world
    BY DEF Like
  <2> QED BY <2>1 DEF Fits
<1> QED BY <1>6, <1>8, <1>9, GoodLocal

-----------------------------------------------------------------------------
(* A reservation is made.                                                   *)

\* Slot s has made reservation i, and started a timeout if it may.
Kept(g, h, s, i, may) ==
  /\ h \in State /\ Like(g, h, s, i) /\ GoesOnWith(g.client[s], h.client[s], i)
  /\ Valid(h, i) /\ h.rec[i].ent = s
  /\ h.snap[i].id = g.client[s].id /\ h.snap[i].phase = "Reserved"
  /\ h.snap[i].match = g.match /\ h.snap[i].round = g.round /\ h.snap[i].world = g.world
  /\ h.fall = g.fall /\ h.abort = g.abort
  /\ h.snap[i].settled = FALSE /\ Accounts(g, h)
  /\ \/ h.timeout = g.timeout
     \/ /\ may /\ h.timeout.ent = s /\ h.timeout.auto /\ ~h.timeout.resuming
        /\ h.timeout.left > 0

\* What the invariant does not speak of may change after that.
LEMMA KeptAlike ==
  ASSUME NEW g, NEW h, NEW s \in Slots, NEW i \in Slots, NEW may, Kept(g, h, s, i, may),
         NEW k \in State, Alike(h, k), k.snap[i].settled = h.snap[i].settled
  PROVE  Kept(g, k, s, i, may)
<1>0. Accounts(g, k)
  <2>1. ASSUME Matched(g), NEW j \in Slots, Valid(h, j) PROVE h.snap[j].match = h.match
    <3>1. h.match = g.match
      BY DEF Kept, Like
    <3>2. CASE j = i
      BY <3>1, <3>2 DEF Kept
    <3>3. CASE j # i
      <4>1. SameSnap(g.snap[j], h.snap[j])
        BY <3>3 DEF Kept, Like
      <4> QED BY <2>1, <3>1, <4>1 DEF SameSnap, Matched, Valid
    <3> QED BY <3>2, <3>3
  <2>2. Matched(g) => Matched(h)
    BY <2>1 DEF Kept, Like, Matched
  <2> QED BY <2>2 DEF Kept, Alike, Accounts
<1> USE DEF Kept
<1>1. Like(g, k, s, i)
  <2>1. \A t \in Slots : SameClient(h.client[t], k.client[t]) /\ k.fall[t] = h.fall[t]
    BY DEF Alike, Resembles
  <2>2. \A j \in Slots : SameSnap(h.snap[j], k.snap[j]) /\ k.rec[j].ent = h.rec[j].ent
    BY DEF Alike, Resembles
  <2>3. \A t \in Slots \ {s} : SameClient(g.client[t], k.client[t])
    BY <2>1 DEF Like, SameClient
  <2>4. \A j \in Slots \ {i} : SameSnap(g.snap[j], k.snap[j])
    BY <2>2 DEF Like, SameSnap
  <2>5. Valid(k, i) => Valid(h, i)
    BY <2>2 DEF SameSnap, Valid
  <2>6. /\ k.stage = g.stage /\ k.match = g.match /\ k.round = g.round /\ k.world = g.world
        /\ k.abort = h.abort
    BY DEF Like, Alike, Resembles
  <2> HIDE DEF Kept
  <2>7. Like(g, h, s, i)
    BY DEF Kept
  <2> QED BY <2>1, <2>2, <2>3, <2>4, <2>5, <2>6, <2>7 DEF Like
<1>2. GoesOnWith(g.client[s], k.client[s], i)
  <2>1. SameClient(h.client[s], k.client[s])
    BY DEF Alike, Resembles
  <2> QED BY <2>1 DEF GoesOnWith, SameClient
<1>3. /\ Valid(k, i) /\ k.rec[i].ent = s
      /\ k.snap[i].id = g.client[s].id /\ k.snap[i].phase = "Reserved"
      /\ k.snap[i].match = g.match /\ k.snap[i].round = g.round /\ k.snap[i].world = g.world
  BY DEF Alike, Resembles, SameSnap, Valid
<1>4. k.fall = h.fall /\ k.abort = h.abort /\ k.timeout = h.timeout
  BY DEF Alike, Resembles
<1>5. k.snap[i].settled = FALSE
  OBVIOUS
<1> QED BY <1>0, <1>1, <1>2, <1>3, <1>4, <1>5

\* The snapshot of a client is a reservation of his.
LEMMA SnapshotIs ==
  ASSUME NEW g, Settling(g), NEW s \in Slots, g.client[s].conn
  PROVE  /\ Snapshot(g, s) \in Reservation /\ Snapshot(g, s) \in Snap
         /\ Snapshot(g, s).valid = TRUE /\ Snapshot(g, s).id = g.client[s].id
         /\ Snapshot(g, s).phase = "Reserved" /\ Snapshot(g, s).match = g.match
         /\ Snapshot(g, s).round = g.round /\ Snapshot(g, s).world = g.world
         /\ Snapshot(g, s).settled = FALSE
<1>1. g \in State /\ ClientOK(g, s)
  BY DEF Settling
<1>2. g.client[s].id \in Ids /\ g.client[s].holds \in BOOLEAN
  BY <1>1, StateFields, ClientFields DEF ClientOK
<1>3. g.match \in 0..MaxMatch /\ g.round \in 0..MaxRound /\ g.world \in 0..MaxRound
  BY <1>1, StateFields
<1>4. Rejoin \in 0..Rejoin /\ 0 \in 0..Delay /\ 0 \in 0..MaxGen /\ 0 \in Nat
  BY GhostAssumption
<1>5. Snapshot(g, s) \in Reservation
  BY <1>2, <1>3, <1>4 DEF Snapshot, Reservation, Phases
<1>6. /\ Snapshot(g, s).valid = TRUE /\ Snapshot(g, s).id = g.client[s].id
      /\ Snapshot(g, s).phase = "Reserved" /\ Snapshot(g, s).match = g.match
      /\ Snapshot(g, s).round = g.round /\ Snapshot(g, s).world = g.world
      /\ Snapshot(g, s).settled = FALSE
  BY DEF Snapshot
<1> QED BY <1>5, <1>6 DEF Snap

\* The reservation takes the record of its slot.
LEMMA ReserveFacts ==
  ASSUME NEW g, Settling(g), NEW s \in Slots, g.client[s].conn, NEW i \in Slots,
         \A j \in Slots : Valid(g, j) => (g.rec[j].ent = s <=> j = i),
         NEW timeout \in BOOLEAN
  PROVE  Kept(g, Reserve(g, s, i, timeout), s, i, timeout)
<1> DEFINE x == Snapshot(g, s)
           r == [ent |-> s, code |-> TRUE]
           c == [g.client[s] EXCEPT !.ghost = i]
           m == [g EXCEPT !.snap = [g.snap EXCEPT ![i] = x], !.rec = [g.rec EXCEPT ![i] = r],
                          !.client = [g.client EXCEPT ![s] = c]]
           t == [left |-> AutoTimeout, ent |-> s, auto |-> TRUE, resuming |-> FALSE]
           n == IF timeout THEN StartTimeout(m, s) ELSE m
<1>1. g \in State /\ ClientOK(g, s)
  BY DEF Settling
<1>2. /\ g.client \in [Slots -> Client] /\ g.snap \in [Slots -> Snap]
      /\ g.rec \in [Slots -> Record] /\ g.client[s] \in Client
  BY <1>1, StateFields
<1>3. /\ x \in Snap /\ x.valid = TRUE /\ x.id = g.client[s].id /\ x.phase = "Reserved"
      /\ x.match = g.match /\ x.round = g.round /\ x.world = g.world /\ x.settled = FALSE
  BY SnapshotIs
<1>4. c \in Client /\ GoesOnWith(g.client[s], c, i) /\ c.play = g.client[s].play
  BY <1>2 DEF Client, GoesOnWith
<1>5. r \in Record /\ r.ent = s
  BY DEF Record
<1>6. t \in Timeout /\ t.ent = s /\ t.auto = TRUE /\ t.resuming = FALSE /\ t.left = AutoTimeout
  BY GhostAssumption DEF Timeout
<1>7. Reserve(g, s, i, timeout) = IF timeout /\ Retained(n) THEN n ELSE DropFlags(n, {i})
  BY DEF Reserve
<1>8. \/ StartTimeout(m, s) = m
      \/ AutoTimeout # 0 /\ StartTimeout(m, s) = [m EXCEPT !.timeout = t]
  <2> HIDE DEF m
  <2> QED BY DEF StartTimeout
<1> HIDE DEF x, c, r, t
<1>9. m \in State
  BY <1>1, <1>2, <1>3, <1>4, <1>5 DEF State
<1>10. /\ m.snap[i] = x /\ \A j \in Slots \ {i} : m.snap[j] = g.snap[j]
       /\ m.rec[i] = r /\ \A j \in Slots \ {i} : m.rec[j] = g.rec[j]
       /\ m.client[s] = c /\ \A u \in Slots \ {s} : m.client[u] = g.client[u]
       /\ m.fall = g.fall /\ m.abort = g.abort /\ m.timeout = g.timeout
       /\ m.stage = g.stage /\ m.match = g.match /\ m.round = g.round /\ m.world = g.world
       /\ m.part = g.part
  BY <1>1, <1>2 DEF State
<1> HIDE DEF m
<1>11. /\ n \in State
       /\ n.part = m.part /\ n.snap = m.snap /\ n.rec = m.rec /\ n.client = m.client /\ n.fall = m.fall
       /\ n.abort = m.abort /\ n.stage = m.stage /\ n.match = m.match
       /\ n.round = m.round /\ n.world = m.world
       /\ n.timeout = m.timeout \/ (timeout /\ AutoTimeout # 0 /\ n.timeout = t)
  <2>1. [m EXCEPT !.timeout = t] \in State
    BY <1>6, <1>9 DEF State
  <2>2. CASE n = m
    BY <1>9, <2>2
  <2>3. CASE timeout /\ AutoTimeout # 0 /\ n = [m EXCEPT !.timeout = t]
    <3> HIDE DEF n
    <3> QED BY <1>9, <2>1, <2>3 DEF State
  <2> QED BY <1>8, <2>2, <2>3
<1> HIDE DEF n
<1>12. Kept(g, n, s, i, timeout)
  <2>1. Like(g, n, s, i)
    <3>1. /\ \A u \in Slots \ {s} : /\ n.client[u] = g.client[u] /\ n.fall[u] = g.fall[u]
                                    /\ u \in n.abort <=> u \in g.abort
          /\ \A j \in Slots \ {i} : n.snap[j] = g.snap[j] /\ n.rec[j].ent = g.rec[j].ent
          /\ n.rec[i].ent = s /\ n.stage = g.stage /\ n.match = g.match
          /\ n.round = g.round /\ n.world = g.world
      BY <1>5, <1>10, <1>11
    <3> QED BY <3>1 DEF Like, SameClient, SameSnap
  <2>2. AutoTimeout # 0 => AutoTimeout > 0
    BY GhostAssumption
  <2>3. \/ n.timeout = g.timeout
        \/ /\ timeout /\ n.timeout.ent = s /\ n.timeout.auto /\ ~n.timeout.resuming
           /\ n.timeout.left > 0
    BY <1>6, <1>10, <1>11, <2>2
  <2>4. Valid(n, i) /\ n.snap[i] = x /\ n.rec[i].ent = s /\ n.client[s] = c
    BY <1>3, <1>5, <1>10, <1>11 DEF Valid
  <2>5. Accounts(g, n)
    <3>1. ASSUME NEW u \in Slots, g.client[u].conn, g.client[u].play
          PROVE  Present(n, g.client[u].id)
      <4>1. /\ n.client[u].conn = g.client[u].conn /\ n.client[u].play = g.client[u].play
            /\ n.client[u].id = g.client[u].id
        <5>1. u = s => n.client[u] = c
          BY <1>10, <1>11
        <5>2. u # s => n.client[u] = g.client[u]
          BY <1>10, <1>11
        <5> QED BY <1>4, <5>1, <5>2 DEF GoesOnWith
      <4> QED BY <3>1, <4>1 DEF Present, Plays
    <3>2. ASSUME NEW j \in Slots, Valid(g, j), ~g.snap[j].settled
          PROVE  Present(n, g.snap[j].id)
      <4>1. CASE j = i
        <5>1. g.snap[i].id = g.client[s].id
          BY <3>2, <4>1 DEF Settling, SnapOK
        <5> QED BY <1>3, <2>4, <4>1, <5>1 DEF Present, Reserves
      <4>2. CASE j # i
        BY <1>10, <1>11, <3>2, <4>2 DEF Present, Reserves, Valid
      <4> QED BY <4>1, <4>2
    <3>3. n.part = g.part
      BY <1>10, <1>11
    <3> QED BY <3>1, <3>2, <3>3, PresentMoves
  <2> QED BY <1>3, <1>4, <1>10, <1>11, <2>1, <2>3, <2>4, <2>5 DEF Kept
<1>13. /\ DropFlags(n, {i}) \in State /\ Alike(n, DropFlags(n, {i}))
       /\ DropFlags(n, {i}).snap[i].settled = n.snap[i].settled
  BY <1>11, <1>12, DropFlagsAlike DEF Kept
<1>14. Kept(g, DropFlags(n, {i}), s, i, timeout)
  BY <1>12, <1>13, KeptAlike
<1> QED BY <1>7, <1>12, <1>14

\* During a match the record a client owns has his only reservation.
LEMMA OnlyOwn ==
  ASSUME NEW g, Good(g), g.stage = "playing", NEW s \in Slots, g.client[s].conn
  PROVE  /\ \A j \in Slots : Valid(g, j) /\ g.rec[j].ent = s => j = OwnedGhost(g, s)
         /\ \A j \in Slots \ {OwnedGhost(g, s)} : ~Owns(g, j, g.client[s].id)
<1>1. ASSUME NEW j \in Slots, Valid(g, j), g.rec[j].ent = s PROVE j = OwnedGhost(g, s)
  BY <1>1, GoodFields DEF Live, OwnedGhost, Slots
<1>2. ASSUME NEW j \in Slots, Owns(g, j, g.client[s].id) PROVE j = OwnedGhost(g, s)
  <2>1. Valid(g, j) /\ g.snap[j].id = g.client[s].id
    BY <1>2 DEF Owns, Valid
  <2>2. g.rec[j].ent = s
    BY <2>1, GoodFields DEF Settling, Apart
  <2> QED BY <1>1, <2>1, <2>2
<1> QED BY <1>1, <1>2

\* The client of slot s is captured, or has at most lost his record.
Captures(g, cap, s, may) ==
  \/ /\ cap.ok
     /\ \E k, i : Assigned(g, k, s) /\ k.stage = "playing" /\ i \in Slots
                    /\ Kept(k, cap.g, s, i, may)
  \/ ~cap.ok /\ Assigned(g, cap.g, s)

\* Both captures of a client keep at most one reservation of his.
LEMMA CaptureIntoFacts ==
  ASSUME NEW g, Good(g), NEW s \in Slots, g.client[s].conn, ~Protected(g, s),
         CanOwnGhost(g, s), NEW may \in BOOLEAN, NEW blocked
  PROVE  Captures(g, CaptureInto(g, s, OwnedGhost(g, s), may, blocked), s, may)
<1> DEFINE own == OwnedGhost(g, s)
           k == IF own = 0 THEN Assign(g, s, blocked) ELSE g
           i == OwnedGhost(k, s)
           cap == CaptureInto(g, s, own, may, blocked)
<1>1. Settling(g) /\ g.stage = "playing"
  BY GoodFields DEF CanOwnGhost
<1>2. Assigned(g, g, s)
  BY <1>1, EndsReflexive DEF Assigned, GoesOnWith
<1>3. Assigned(g, k, s)
  <2>1. own = 0 => Assigned(g, Assign(g, s, blocked), s)
    BY AssignFacts
  <2> QED BY <1>2, <2>1
<1>4. cap = IF Full(g, own) THEN NotCaptured(g)
            ELSE IF i = 0 THEN NotCaptured(k)
            ELSE Captured(Reserve(ExpireOthers(k, k.client[s].id, i, blocked), s, i, may))
  BY DEF CaptureInto
<1> HIDE DEF k, own, cap
<1>5. CASE Full(g, own)
  BY <1>2, <1>4, <1>5 DEF NotCaptured, Captures, cap, own
<1>6. CASE ~Full(g, own) /\ i = 0
  BY <1>3, <1>4, <1>6 DEF NotCaptured, Captures, cap, own
<1>7. CASE ~Full(g, own) /\ i # 0
  <2>1. Good(k) /\ k \in State /\ Settling(k)
    BY <1>3, EndsGood, GoodFields DEF Assigned
  <2>2. k.stage = "playing" /\ k.client[s].conn
    BY <1>1, <1>3 DEF Assigned, Ends, Thins, GoesOnWith
  <2>3. i \in Slots /\ k.rec[i].ent = s
    BY <1>7, <2>1, OwnedGhostIs
  <2>4. /\ \A j \in Slots : Valid(k, j) => (k.rec[j].ent = s <=> j = i)
        /\ \A j \in Slots \ {i} : ~Owns(k, j, k.client[s].id)
    BY <2>1, <2>2, <2>3, OnlyOwn
  <2>5. ExpireOthers(k, k.client[s].id, i, blocked) = k
    BY <2>4, ExpireOthersIdle
  <2> HIDE DEF i
  <2>6. Kept(k, Reserve(k, s, i, may), s, i, may)
    BY <2>1, <2>2, <2>3, <2>4, ReserveFacts
  <2>7. cap = Captured(Reserve(k, s, i, may))
    BY <1>4, <1>7, <2>5
  <2> QED BY <1>3, <2>2, <2>3, <2>6, <2>7 DEF Captured, Captures, cap, own
<1> QED BY <1>5, <1>6, <1>7 DEF cap, own

\* CaptureActivePlayerSnapshot makes the one reservation of the client, or none.
LEMMA CaptureFacts ==
  ASSUME NEW g, Good(g), NEW s \in Slots, g.client[s].conn, ~Protected(g, s),
         NEW may \in BOOLEAN, NEW blocked
  PROVE  Captures(g, Capture(g, s, may, blocked), s, may)
<1>1. Settling(g) /\ Sound(g)
  BY GoodFields
<1>2. CASE ~CanOwnGhost(g, s)
  <2>1. Capture(g, s, may, blocked) = NotCaptured(ClearEntityGhost(g, s, blocked))
    BY <1>2 DEF Capture
  <2>2. Cleaned(g, ClearEntityGhost(g, s, blocked), s)
    BY <1>1, UnprotectedFacts, ClearEntityFacts
  <2>3. Assigned(g, ClearEntityGhost(g, s, blocked), s)
    BY <1>1, <2>2, CleanedAssigned
  <2> QED BY <2>1, <2>3 DEF NotCaptured, Captures
<1>3. CASE CanOwnGhost(g, s)
  <2>1. g.stage = "playing"
    BY <1>3 DEF CanOwnGhost
  <2>2. ExpireOthers(g, g.client[s].id, OwnedGhost(g, s), blocked) = g
    BY <2>1, OnlyOwn, ExpireOthersIdle
  <2>3. Capture(g, s, may, blocked) = CaptureInto(g, s, OwnedGhost(g, s), may, blocked)
    BY <1>3, <2>2 DEF Capture
  <2> QED BY <1>3, <2>3, CaptureIntoFacts
<1> QED BY <1>2, <1>3

\* A client who has begun may leave a reservation in his own slot, unless he
\* is the owner of a timeout.
LEMMA KeptGood ==
  ASSUME NEW g, Good(g), NEW s \in Slots, g.client[s].conn, g.client[s].begun,
         ~g.client[s].holder, g.timeout.ent # s, NEW i \in Slots, NEW h, Kept(g, h, s, i, FALSE)
  PROVE  Good(h)
<1> USE DEF Kept
<1>1. g \in State /\ Settling(g) /\ Owned(g) /\ ClientOK(g, s) /\ FallOK(g, s) /\ Apart(g)
  BY GoodFields DEF Settling
<1>2. /\ h.client[s].ghost = i /\ h.client[s].conn /\ h.client[s].begun
      /\ h.client[s].id = g.client[s].id /\ h.client[s].gen = g.client[s].gen
      /\ h.client[s].limbo = g.client[s].limbo /\ h.client[s].spawned = g.client[s].spawned
      /\ h.client[s].holder = g.client[s].holder
  BY DEF GoesOnWith
<1>3. ClientOK(h, s)
  BY <1>1, <1>2 DEF ClientOK
<1>4. FallOK(h, s)
  <2>1. \A j \in Slots : Valid(h, j) /\ h.rec[j].ent = s => h.snap[j].phase = "Reserved"
    BY DEF Like, SameSnap, Valid
  <2> QED BY <1>1, <1>2, <2>1 DEF FallOK, Pending
<1>5. SnapOK(h, i)
  BY <1>2 DEF SnapOK, Pending, Slots
<1>6. Apart(h)
  <2>1. ASSUME NEW t \in Slots
        PROVE  h.client[t].conn = g.client[t].conn /\ h.client[t].id = g.client[t].id
    BY ZenonT(40) DEF Like, SameClient, GoesOnWith
  <2>2. ASSUME NEW j \in Slots \ {i}, Valid(h, j)
        PROVE  /\ Valid(g, j) /\ h.rec[j].ent = g.rec[j].ent /\ h.rec[j].ent # s
               /\ h.snap[j].id = g.snap[j].id /\ h.snap[j].id # h.snap[i].id
    <3>1. /\ Valid(g, j) /\ h.rec[j].ent = g.rec[j].ent /\ h.rec[j].ent # s
          /\ h.snap[j].id = g.snap[j].id
      BY <2>2 DEF Like, SameSnap, Valid
    <3> QED BY <1>1, <3>1 DEF Apart
  <2>4. \A t, u \in Slots :
          h.client[t].conn /\ h.client[u].conn /\ h.client[t].id = h.client[u].id => t = u
    BY <1>1, <2>1 DEF Apart
  <2>5. \A t, j \in Slots :
          h.client[t].conn /\ Valid(h, j) /\ h.snap[j].id = h.client[t].id => h.rec[j].ent = t
    <3> SUFFICES ASSUME NEW t \in Slots, NEW j \in Slots, h.client[t].conn, Valid(h, j),
                        h.snap[j].id = h.client[t].id
        PROVE  h.rec[j].ent = t
      OBVIOUS
    <3>1. CASE j = i
      BY <1>1, <2>1, <3>1 DEF Apart
    <3>2. CASE j # i
      BY <1>1, <2>1, <2>2, <3>2 DEF Apart
    <3> QED BY <3>1, <3>2
  <2>6. \A j, k \in Slots :
          Valid(h, j) /\ Valid(h, k) /\ (h.snap[j].id = h.snap[k].id \/ h.rec[j].ent = h.rec[k].ent)
            => j = k
    <3> SUFFICES ASSUME NEW j \in Slots, NEW k \in Slots, Valid(h, j), Valid(h, k),
                        h.snap[j].id = h.snap[k].id \/ h.rec[j].ent = h.rec[k].ent
        PROVE  j = k
      OBVIOUS
    <3>1. CASE j = i \/ k = i
      BY <2>2, <3>1
    <3>2. CASE j # i /\ k # i
      BY <1>1, <2>2, <3>2 DEF Apart
    <3> QED BY <3>1, <3>2
  <2> HIDE DEF Kept
  <2> QED BY <2>4, <2>5, <2>6 DEF Apart
<1>7. Settling(h)
  BY <1>1, <1>3, <1>4, <1>5, <1>6, LikeLocal
<1>8. Times(g, h, s)
  BY <1>1 DEF Times
<1>9. Fits(h, s, i)
  <2>1. h.stage = g.stage /\ h.match = g.match /\ h.round = g.round /\ h.world = g.world
    BY DEF Like
  <2> QED BY <1>2, <2>1 DEF Fits
<1> QED BY <1>7, <1>8, <1>9, GoodLocal

\* Nothing becomes pending while reservations end.
LEMMA UnboundEnds ==
  ASSUME NEW g, NEW s, Unbound(g, s), NEW h, Ends(g, h)
  PROVE  Unbound(h, s)
BY DEF Unbound, Ends, Thins, Pending

\* Reservation i keeps the result of an identity.
KeepsFor(g, i, id) == i \in Slots /\ Valid(g, i) /\ g.snap[i].id = id /\ ~g.snap[i].settled

\* The client of slot s need not play on.
MayStop(g, s) ==
  Matched(g) /\ g.client[s].conn =>
    g.part[g.client[s].id] # "in" \/ Reserves(g, g.client[s].id)

\* Whose result is settled need not,
LEMMA SettledMayStop ==
  ASSUME NEW g \in State, NEW s, NEW id, g.client[s].conn => g.client[s].id = id /\ id \in Ids
  PROVE  LET h == Settle(g, id) IN
         /\ h \in State /\ Alike(g, h) /\ MayStop(h, s)
         /\ h.client = g.client /\ h.snap = g.snap /\ h.rec = g.rec
<1> DEFINE h == Settle(g, id)
<1>1. /\ h \in State /\ Alike(g, h)
      /\ h.client = g.client /\ h.snap = g.snap /\ h.rec = g.rec
      /\ Matched(g) /\ id \in Ids => h.part[id] # "in"
  BY SettleAlike
<1> HIDE DEF h
<1>2. Matched(h) => Matched(g)
  BY <1>1, AlikeMatched
<1>3. MayStop(h, s)
  BY <1>1, <1>2 DEF MayStop
<1> QED BY <1>1, <1>3 DEF h

\* nor whoever has a reservation, with an item or without;
LEMMA KeepsMayStop ==
  ASSUME NEW g \in State, NEW s, NEW id, g.client[s].conn => g.client[s].id = id,
         NEW i, KeepsFor(g, i, id), NEW b \in BOOLEAN
  PROVE  LET h == [g EXCEPT !.snap[i].holds = b] IN
         h \in State /\ Alike(g, h) /\ MayStop(h, s)
<1> DEFINE x == [g.snap[i] EXCEPT !.holds = b]
           h == [g EXCEPT !.snap[i] = x]
<1>1. i \in Slots /\ g.snap[i].valid /\ g.snap[i] \in Snap
  BY StateFields DEF KeepsFor, Valid
<1>2. g.snap[i] \in Reservation
  BY <1>1, SnapFields
<1>3. /\ x \in Reservation /\ SameSnap(g.snap[i], x) /\ x.settled = g.snap[i].settled
      /\ x.valid = g.snap[i].valid
  BY <1>2 DEF Reservation, SameSnap
<1>4. x \in Snap
  BY <1>3 DEF Snap
<1>5. [g EXCEPT !.snap[i].holds = b] = h
  OBVIOUS
<1> HIDE DEF x
<1>6. h \in State /\ Alike(g, h)
  BY <1>1, <1>3, <1>4, SnapAlike
<1>7. h.snap[i] = x /\ h.client = g.client
  BY <1>1 DEF State
<1> HIDE DEF h
<1>8. Reserves(h, id)
  BY <1>1, <1>3, <1>7 DEF Reserves, KeepsFor, Valid, SameSnap
<1>9. MayStop(h, s)
  BY <1>7, <1>8 DEF MayStop
<1> QED BY <1>5, <1>6, <1>9

\* and his item makes no difference.
LEMMA TossMayStop ==
  ASSUME NEW g \in State, NEW s \in Slots, MayStop(g, s)
  PROVE  MayStop(Toss(g, s), s)
<1> DEFINE h == Toss(g, s)
<1>1. Alike(g, h) /\ h.snap = g.snap /\ h.part = g.part
  BY TossAlike
<1> HIDE DEF h
<1>2. h.client[s].conn = g.client[s].conn /\ h.client[s].id = g.client[s].id
  BY <1>1 DEF Alike, Resembles, SameClient
<1>3. Matched(h) => Matched(g)
  BY <1>1, AlikeMatched
<1>4. MayStop(h, s)
  BY <1>1, <1>2, <1>3 DEF MayStop, Reserves, Valid
<1> QED BY <1>4 DEF h

\* Who leaves his team, and need not play on, is no loss.
LEMMA StopAlike ==
  ASSUME NEW g \in State, NEW s \in Slots, MayStop(g, s), NEW b \in BOOLEAN
  PROVE  LET h == [g EXCEPT !.client[s] = [@ EXCEPT !.play = FALSE, !.inactive = b]]
         IN h \in State /\ Alike(g, h)
<1> DEFINE c == [g.client[s] EXCEPT !.play = FALSE, !.inactive = b]
<1>1. g.client[s] \in Client
  BY StateFields
<1>2. c \in Client /\ SameClient(g.client[s], c)
  BY <1>1 DEF Client, SameClient
<1> HIDE DEF c
<1>3. [g EXCEPT !.client[s] = c] \in State /\ Alike(g, [g EXCEPT !.client[s] = c])
  BY <1>2, ClientAlike DEF MayStop
<1> QED BY <1>3 DEF c

\* MM_Ghost_CaptureInactive: what it does to the item and the team is not
\* the invariant's, and loses nobody.
LEMMA InactiveAlike ==
  ASSUME NEW cap, cap.g \in State, NEW s \in Slots,
         cap.g.client[s].conn => cap.g.client[s].id = w.client[s].id /\ w.client[s].id \in Ids,
         cap.ok => KeepsFor(cap.g, OwnedGhost(cap.g, s), w.client[s].id)
  PROVE  /\ Inactive(cap, s) \in State /\ Alike(cap.g, Inactive(cap, s))
         /\ Inactive(cap, s).client[s].play = FALSE
<1> DEFINE i == OwnedGhost(cap.g, s)
           b == IF Kind = "tech" THEN FALSE ELSE cap.g.snap[i].holds
           a == IF ~cap.ok THEN Settle(cap.g, w.client[s].id)
                ELSE [cap.g EXCEPT !.snap[i].holds = b]
<1>1. Inactive(cap, s) =
        [Toss(a, s) EXCEPT !.client[s] = [@ EXCEPT !.play = FALSE, !.inactive = TRUE]]
  BY DEF Inactive
<1>2. a \in State /\ Alike(cap.g, a) /\ MayStop(a, s)
  <2>1. CASE ~cap.ok
    BY <2>1, SettledMayStop
  <2>2. CASE cap.ok
    <3>1. KeepsFor(cap.g, i, w.client[s].id)
      BY <2>2
    <3>2. cap.g.snap[i] \in Reservation
      BY <3>1, StateFields, SnapFields DEF KeepsFor, Valid
    <3>3. b \in BOOLEAN
      BY <3>2, ReservationFields
    <3> HIDE DEF b, i
    <3> QED BY <2>2, <3>1, <3>3, KeepsMayStop
  <2> QED BY <2>1, <2>2
<1> HIDE DEF a
<1>3. Toss(a, s) \in State /\ Alike(a, Toss(a, s)) /\ MayStop(Toss(a, s), s)
  BY <1>2, TossAlike, TossMayStop
<1>4. Inactive(cap, s) \in State /\ Alike(Toss(a, s), Inactive(cap, s))
  BY <1>1, <1>3, StopAlike
<1>5. Inactive(cap, s).client[s].play = FALSE
  BY <1>1, <1>3, StateFields DEF State, Client
<1> QED BY <1>2, <1>3, <1>4, <1>5, AlikeTransitive

\* A client who makes a reservation ends no timeout: he owns none.
LEMMA KeptPassed ==
  ASSUME NEW g, Good(g), NEW s \in Slots, g.client[s].conn, Unbound(g, s),
         NEW k, Assigned(g, k, s), NEW i \in Slots, NEW h, NEW may, Kept(k, h, s, i, may)
  PROVE  Passed(g, h)
<1>1. Ends(g, k)
  BY DEF Assigned
<1>2. NobodyNew(g, h)
  <2>1. \A t \in Slots : k.client[t].conn = g.client[t].conn
    BY <1>1 DEF Ends, Thins
  <2>2. \A t \in Slots : h.client[t].conn = k.client[t].conn
    BY DEF Kept, Like, SameClient, GoesOnWith
  <2> QED BY <2>1, <2>2 DEF NobodyNew
<1>3. Retained(k) => Retained(h)
  BY DEF Kept, Retained
<1>4. Waiting(h, g.timeout.ent) => Waiting(k, g.timeout.ent)
  BY NotOwner, LikeWaiting DEF Kept
<1> QED BY <1>1, <1>2, <1>3, <1>4, EndsThenResumes DEF Passed

\* Going inactive keeps the invariant, and ends no timeout but with its owner.
LEMMA IdleGood ==
  ASSUME Good(w), NEW s \in Slots, NEW blocked, Idle(s, blocked)
  PROVE  Good(w') /\ Passed(w, w') /\ Carries(w, w')
<1> DEFINE cap == Capture(w, s, FALSE, blocked)
<1>1. w \in State /\ Settling(w)
  BY GoodFields
<1>2. /\ w.client[s].conn /\ w.client[s].begun /\ ~Protected(w, s) /\ w' = Inactive(cap, s)
      /\ ~w.client[s].holder
  <2>1. ClientOK(w, s)
    BY <1>1 DEF Settling
  <2> QED BY <2>1 DEF Idle, Settled, Active, ClientOK
<1>3. Captures(w, cap, s, FALSE)
  BY <1>2, CaptureFacts
<1> HIDE DEF cap
<1>4. Unbound(w, s)
  BY <1>1, <1>2, UnprotectedFacts
<1>7. w.client[s].id \in Ids
  BY <1>1, <1>2, StateFields, ClientFields DEF Settling, ClientOK
<1>5. CASE cap.ok
  <2>1. PICK k, i : /\ Assigned(w, k, s) /\ i \in Slots
                    /\ Kept(k, cap.g, s, i, FALSE)
    BY <1>3, <1>5 DEF Captures
  <2>2. Good(k) /\ k.client[s].conn /\ k.client[s].begun /\ Unbound(k, s) /\ ~k.client[s].holder
    BY <1>2, <1>4, <2>1, EndsGood, UnboundEnds DEF Assigned, GoesOnWith
  <2>3. Good(cap.g)
    BY <2>1, <2>2, NotOwner, KeptGood
  <2>4. OwnedGhost(cap.g, s) = i /\ cap.g.client[s].id = w.client[s].id
        /\ KeepsFor(cap.g, i, w.client[s].id)
    BY <1>2, <2>1 DEF Assigned, Kept, GoesOnWith, OwnedGhost, KeepsFor, Slots
  <2>5. /\ Inactive(cap, s) \in State /\ Alike(cap.g, Inactive(cap, s))
        /\ Inactive(cap, s).client[s].play = FALSE
    BY <1>7, <2>1, <2>3, <2>4, InactiveAlike, GoodFields
  <2>6. Passed(w, cap.g)
    BY <1>2, <1>4, <2>1, KeptPassed
  <2>7. cap.g \in State
    BY <2>3, GoodFields
  <2>8. Accounts(w, w')
    <3>1. Thins(w, k) /\ Accounts(w, k) /\ Accounts(k, cap.g)
      BY <2>1 DEF Assigned, Ends, Kept
    <3>2. Accounts(w, cap.g) /\ cap.g.stage = w.stage
      BY <2>1, <3>1, AccountsTransitive DEF Kept, Like, Thins
    <3>3. Accounts(cap.g, w')
      BY <1>2, <2>5 DEF Alike
    <3> QED BY <2>3, <3>2, <3>3, GoodAccounts
  <2>9. Rest(k) => Rest(w')
    <3> SUFFICES ASSUME Rest(k), w'.stage = "playing", NEW t \in Slots, NEW j \in Slots,
                        Valid(w', j), w'.rec[j].ent = t, w'.client[t].conn, w'.client[t].play
        PROVE  FALSE
      BY DEF Rest
    <3>1. t # s
      BY <1>2, <2>5
    <3>2. /\ Valid(cap.g, j) /\ cap.g.rec[j].ent = t /\ cap.g.client[t].conn
          /\ cap.g.client[t].play /\ cap.g.stage = "playing"
      BY <1>2, <2>5 DEF Alike, Resembles, SameClient, SameSnap, Valid
    <3>3. j # i
      BY <2>1, <3>1, <3>2 DEF Kept
    <3>4. /\ Valid(k, j) /\ k.rec[j].ent = t /\ k.client[t].conn
          /\ k.client[t].play /\ k.stage = "playing"
      BY <2>1, <3>1, <3>2, <3>3 DEF Kept, Like, SameClient, SameSnap, Valid
    <3> QED BY <3>4 DEF Rest
  <2>10. Carries(w, w')
    <3>1. Carries(w, k)
      BY <2>1, EndsCarries DEF Assigned
    <3>2. w'.stage = k.stage
      BY <2>1, <1>2, <2>5 DEF Kept, Like, Alike, Resembles
    <3> QED BY <2>8, <2>9, <3>1, <3>2 DEF Carries
  <2> QED BY <1>2, <2>3, <2>5, <2>6, <2>7, <2>10, AlikeGood, PassedAlike
<1>6. CASE ~cap.ok
  <2>1. Assigned(w, cap.g, s)
    BY <1>3, <1>6 DEF Captures
  <2>2. Good(cap.g)
    BY <2>1, EndsGood DEF Assigned
  <2>5. cap.g.client[s].id = w.client[s].id
    BY <2>1 DEF Assigned, GoesOnWith
  <2>3. Inactive(cap, s) \in State /\ Alike(cap.g, Inactive(cap, s))
    BY <1>6, <1>7, <2>2, <2>5, InactiveAlike, GoodFields
  <2>4. Passed(w, cap.g) /\ cap.g \in State
    BY <2>1, <2>2, EndsPassed, GoodFields DEF Assigned
  <2>6. Carries(w, w')
    <3>1. Carries(w, cap.g)
      BY <2>1, EndsCarries DEF Assigned
    <3>2. Carries(cap.g, w')
      BY <1>2, <2>2, <2>3, AlikeCarries
    <3>3. cap.g.stage = w.stage
      BY <2>1 DEF Assigned, Ends, Thins
    <3> QED BY <2>2, <3>1, <3>2, <3>3, CarriesTransitive
  <2> QED BY <1>2, <2>2, <2>3, <2>4, <2>6, AlikeGood, PassedAlike
<1> QED BY <1>5, <1>6

-----------------------------------------------------------------------------
(* Disconnections.                                                          *)

\* The transaction of a slot is found if it has one.
LEMMA IndexForFacts ==
  ASSUME NEW g, Settling(g), NEW s \in Slots, g.client[s].conn, NEW phases \in SUBSET Pending
  PROVE  /\ IndexFor(g, s, phases) # 0 =>
              LET i == IndexFor(g, s, phases) IN
              i \in Slots /\ Valid(g, i) /\ g.rec[i].ent = s /\ g.snap[i].phase \in phases
         /\ IndexFor(g, s, phases) = 0 =>
              \A j \in Slots : Valid(g, j) /\ g.rec[j].ent = s => g.snap[j].phase \notin phases
<1> DEFINE found == {i \in Slots : /\ g.snap[i].valid /\ g.snap[i].phase \in phases
                                   /\ g.rec[i].ent = s /\ g.snap[i].target = s
                                   /\ g.snap[i].gen = g.client[s].gen
                                   /\ Owns(g, i, g.client[s].id)}
           n == IndexFor(g, s, phases)
<1>1. n = IF found = {} THEN 0 ELSE CHOOSE i \in found : \A j \in found : i <= j
  BY DEF IndexFor
<1>2. found # {} => n \in found
  <2> SUFFICES ASSUME found # {} PROVE n \in found
    OBVIOUS
  <2>1. found \in SUBSET Slots
    OBVIOUS
  <2>2. n = CHOOSE i \in found : \A j \in found : i <= j
    BY <1>1
  <2> HIDE DEF found, n
  <2>3. \E i \in found : \A j \in found : i <= j
    BY <2>1, LeastExists
  <2> QED BY <2>2, <2>3
<1>3. n # 0 => n \in found
  BY <1>1, <1>2
<1>4. ASSUME NEW j \in Slots, Valid(g, j), g.rec[j].ent = s, g.snap[j].phase \in phases
      PROVE  n # 0
  <2>1. SnapOK(g, j) /\ ClientOK(g, s)
    BY DEF Settling
  <2>2. j \in found
    BY <1>4, <2>1 DEF SnapOK, ClientOK, Owns, Valid
  <2>3. n \in Slots
    <3>1. n \in found
      BY <1>2, <2>2
    <3> HIDE DEF n
    <3> QED BY <3>1
  <2> HIDE DEF n
  <2> QED BY <2>3 DEF Slots
<1> HIDE DEF n
<1>5. n # 0 => n \in Slots /\ Valid(g, n) /\ g.rec[n].ent = s /\ g.snap[n].phase \in phases
  BY <1>3 DEF Valid
<1> QED BY <1>4, <1>5 DEF n

\* The handoff of a connected slot is pending.
LEMMA FallbackIs ==
  ASSUME NEW g, Settling(g), NEW s \in Slots
  PROVE  g.fall[s].valid <=> FallbackPending(g, s)
<1>1. FallOK(g, s)
  BY DEF Settling
<1>2. g.fall[s].valid \in BOOLEAN
  BY StateFields, FallFields DEF Settling
<1> QED BY <1>1, <1>2 DEF FallOK, FallbackPending

\* A handoff may be forgotten.
LEMMA ForgetGood ==
  ASSUME NEW g, Good(g), NEW s \in Slots
  PROVE  LET h == [g EXCEPT !.fall[s] = NoFallback] IN
         Good(h) /\ ~h.fall[s].valid /\ h.client = g.client /\ h.abort = g.abort
           /\ h.rec = g.rec /\ h.snap = g.snap /\ h.part = g.part /\ Ends(g, h)
<1> DEFINE h == [g EXCEPT !.fall = [g.fall EXCEPT ![s] = NoFallback]]
<1>1. g \in State /\ Settling(g) /\ g.fall \in [Slots -> Fallback]
  BY GoodFields, StateFields
<1>2. NoFallback \in Fallback /\ NoFallback.valid = FALSE
  BY DEF Fallback, NoFallback
<1>3. h \in State
  BY <1>1, <1>2 DEF State
<1>4. /\ h.rec = g.rec /\ h.snap = g.snap /\ h.client = g.client /\ h.abort = g.abort
      /\ h.timeout = g.timeout /\ h.stage = g.stage /\ h.match = g.match
      /\ h.round = g.round /\ h.world = g.world /\ h.part = g.part
      /\ h.fall[s] = NoFallback /\ \A t \in Slots \ {s} : h.fall[t] = g.fall[t]
  BY <1>1 DEF State
<1> HIDE DEF h
<1>5. Settling(h)
  <2>1. \A i \in Slots : SnapOK(h, i)
    BY <1>1, <1>4 DEF Settling, SnapOK, Valid
  <2>2. \A t \in Slots : ClientOK(h, t)
    BY <1>1, <1>4 DEF Settling, ClientOK, Valid
  <2>3. \A t \in Slots : FallOK(h, t)
    <3> SUFFICES ASSUME NEW t \in Slots PROVE FallOK(h, t)
      OBVIOUS
    <3>1. CASE t = s
      BY <1>2, <1>4, <3>1 DEF FallOK
    <3>2. CASE t # s
      <4>1. FallOK(g, t) /\ h.fall[t] = g.fall[t]
        BY <1>1, <1>4, <3>2 DEF Settling
      <4> QED BY <1>4, <4>1 DEF FallOK, Valid
    <3> QED BY <3>1, <3>2
  <2>4. Apart(h) /\ h.world <= h.round
    BY <1>1, <1>4 DEF Settling, Apart, Valid
  <2> QED BY <1>3, <2>1, <2>2, <2>3, <2>4 DEF Settling
<1>6. Ends(g, h)
  <2>1. Accounts(g, h)
    BY <1>4, SameAccounts
  <2> QED BY <1>4, <2>1 DEF Ends, Thins, Keeps, Valid, Waiting
<1>7. Good(h)
  BY <1>5, <1>6, EndsGood
<1> QED BY <1>2, <1>4, <1>6, <1>7 DEF h

\* So may a stuck spawn.
LEMMA UnstuckGood ==
  ASSUME NEW g, Good(g), NEW A \in SUBSET g.abort
  PROVE  LET h == [g EXCEPT !.abort = A] IN
         Good(h) /\ h.abort = A /\ h.client = g.client /\ h.fall = g.fall
           /\ h.rec = g.rec /\ h.snap = g.snap /\ h.timeout = g.timeout
           /\ h.part = g.part /\ h.stage = g.stage /\ Ends(g, h)
<1> DEFINE h == [g EXCEPT !.abort = A]
<1>1. g \in State /\ Settling(g) /\ g.abort \subseteq Slots
  BY GoodFields, StateFields
<1>2. h \in State
  BY <1>1 DEF State
<1>3. /\ h.rec = g.rec /\ h.snap = g.snap /\ h.client = g.client /\ h.fall = g.fall
      /\ h.timeout = g.timeout /\ h.stage = g.stage /\ h.match = g.match
      /\ h.round = g.round /\ h.world = g.world /\ h.abort = A /\ h.part = g.part
  BY <1>1 DEF State
<1> HIDE DEF h
<1>4. Settling(h)
  <2>1. \A i \in Slots : SnapOK(h, i)
    BY <1>1, <1>3 DEF Settling, SnapOK, Valid
  <2>2. \A t \in Slots : ClientOK(h, t)
    BY <1>1, <1>3 DEF Settling, ClientOK, Valid
  <2>3. \A t \in Slots : FallOK(h, t)
    BY <1>1, <1>3 DEF Settling, FallOK, Valid
  <2>4. Apart(h) /\ h.world <= h.round
    BY <1>1, <1>3 DEF Settling, Apart, Valid
  <2> QED BY <1>2, <2>1, <2>2, <2>3, <2>4 DEF Settling
<1>5. Ends(g, h)
  <2>1. Accounts(g, h)
    BY <1>3, SameAccounts
  <2> QED BY <1>3, <2>1 DEF Ends, Thins, Keeps, Valid, Waiting
<1>6. Good(h)
  BY <1>4, <1>5, EndsGood
<1> QED BY <1>3, <1>5, <1>6 DEF h

\* The client of slot s is about to leave reservation i behind.
Departing(g, n, s, i) ==
  /\ n \in State /\ Like(g, n, s, i)
  /\ i \in Slots /\ Valid(n, i) /\ n.rec[i].ent = s
  /\ n.snap[i].id = g.client[s].id /\ n.snap[i].phase = "Reserved"
  /\ g.stage = "playing" => n.snap[i].match = g.match /\ n.snap[i].round = g.round
                              /\ n.snap[i].world = g.world /\ n.client[s].ghost = i
  /\ n.client[s].ghost \in {0, i} /\ n.client[s].gen = g.client[s].gen
  /\ s \notin n.abort /\ ~n.fall[s].valid
  /\ \/ n.timeout = g.timeout
     \/ /\ n.timeout.ent = s /\ n.timeout.auto /\ ~n.timeout.resuming
        /\ n.timeout.left > 0

\* Whoever is connected in another slot and has a reservation does not play.
RestsBut(g, s) ==
  g.stage = "playing" => \A t \in Slots \ {s}, i \in Slots :
    Valid(g, i) /\ g.rec[i].ent = t /\ g.client[t].conn => ~g.client[t].play

\* His result, if he plays, is left in reservation i, and nobody else's is lost.
Drops(g, n, s, i) ==
  /\ n \in State /\ i \in Slots /\ Valid(n, i) /\ n.snap[i].id = n.client[s].id
  /\ n.stage = g.stage
  /\ Rest(g) => /\ RestsBut(n, s) /\ Accounts(g, n)
                /\ n.stage = "playing" /\ n.client[s].play => ~n.snap[i].settled

\* The client of slot s has gone.
LeftSlot(n, h, s) ==
  /\ h.part = n.part /\ h.snap = n.snap /\ h.rec = n.rec /\ h.stage = n.stage
  /\ ~h.client[s].conn /\ \A t \in Slots \ {s} : h.client[t] = n.client[t]

\* So he may go.
LEMMA DropsCarries ==
  ASSUME NEW g, NEW n, NEW s \in Slots, NEW i, Drops(g, n, s, i), NEW h, LeftSlot(n, h, s)
  PROVE  Carries(g, h)
<1> SUFFICES ASSUME Rest(g) PROVE Rest(h) /\ Accounts(g, h)
  BY DEF Carries, Drops, LeftSlot
<1>1. RestsBut(n, s) /\ Accounts(g, n)
      /\ (n.stage = "playing" /\ n.client[s].play => ~n.snap[i].settled)
  BY DEF Drops
<1>0. /\ h.part = n.part /\ h.snap = n.snap /\ h.rec = n.rec /\ h.stage = n.stage
      /\ ~h.client[s].conn /\ \A t \in Slots \ {s} : h.client[t] = n.client[t]
  BY DEF LeftSlot
<1>2. Rest(h)
  <2> SUFFICES ASSUME h.stage = "playing", NEW t \in Slots, NEW j \in Slots,
                      Valid(h, j), h.rec[j].ent = t, h.client[t].conn, h.client[t].play
      PROVE  FALSE
    BY DEF Rest
  <2>1. t # s
    BY <1>0
  <2>2. Valid(n, j) /\ h.client[t] = n.client[t]
    BY <1>0, <2>1 DEF Valid
  <2> QED BY <1>0, <1>1, <2>1, <2>2 DEF RestsBut
<1>3. Accounts(g, h)
  <2> SUFFICES ASSUME Matched(g), NEW id \in Ids, Present(g, id), h.part[id] = "in"
      PROVE  Plays(h, id) \/ Reserves(h, id)
    BY DEF Accounts, Present
  <2>1. Plays(n, id) \/ Reserves(n, id)
    BY <1>0, <1>1 DEF Accounts, Present
  <2>2. CASE Reserves(n, id)
    BY <1>0, <2>2 DEF Reserves, Valid
  <2>3. CASE Plays(n, id)
    <3>1. PICK t \in Slots : n.client[t].conn /\ n.client[t].id = id /\ n.client[t].play
      BY <2>3 DEF Plays
    <3>2. CASE t = s
      <4>1. n.stage = "playing"
        BY DEF Drops, Matched
      <4>2. Valid(h, i) /\ h.snap[i].id = id /\ ~h.snap[i].settled /\ i \in Slots
        BY <1>0, <1>1, <3>1, <3>2, <4>1 DEF Drops, Valid
      <4> QED BY <4>2 DEF Reserves
    <3>3. CASE t # s
      BY <1>0, <3>1, <3>3 DEF Plays
    <3> QED BY <3>2, <3>3
  <2> QED BY <2>1, <2>2, <2>3
<1> QED BY <1>2, <1>3

\* The result of the client of slot s is not open.
Quits(g, s) == Matched(g) /\ g.client[s].conn => g.part[g.client[s].id] # "in"

\* The client of slot s is about to leave nothing behind; a handoff is settled.
Leaving(g, n, s) ==
  /\ Good(n) /\ Ends(g, n) /\ n.client[s].conn /\ n.client[s].gen = g.client[s].gen
  /\ Unbound(n, s) /\ ~n.fall[s].valid /\ s \notin n.abort
  /\ n.client[s].id = g.client[s].id
  /\ n.client[s].play => g.client[s].play
  /\ FallbackPending(g, s) /\ g.client[s].play => Quits(n, s)

\* A capture on leaving has one of the two results.
Parts(g, cap, s) ==
  \/ /\ cap.ok /\ Passed(g, cap.g)
     /\ \E k, i : /\ Good(k) /\ k.client[s].conn /\ k.client[s].gen = g.client[s].gen
                  /\ Departing(k, cap.g, s, i) /\ Drops(g, cap.g, s, i)
  \/ ~cap.ok /\ Leaving(g, cap.g, s)

\* The second disconnection of a claimant leaves his reservation to him.
LEMMA CancelFacts ==
  ASSUME NEW g, Good(g), NEW s \in Slots, g.client[s].conn, s \notin g.abort, ~g.fall[s].valid,
         NEW i \in Slots, Valid(g, i), g.rec[i].ent = s,
         g.snap[i].phase \in {"Claimed", "Reinstating"}
  PROVE  Departing(g, Cancel(g, i), s, i) /\ Drops(g, Cancel(g, i), s, i)
<1> DEFINE x == [g.snap[i] EXCEPT !.phase = "Reserved", !.elapsed = 0, !.reinstate = 0, !.gen = 0]
           r == [g.rec[i] EXCEPT !.code = TRUE]
           n == [g EXCEPT !.snap = [g.snap EXCEPT ![i] = x], !.rec = [g.rec EXCEPT ![i] = r]]
<1>1. g \in State /\ Settling(g) /\ Live(g) /\ SnapOK(g, i)
  BY GoodFields DEF Settling
<1>2. /\ g.snap \in [Slots -> Snap] /\ g.rec \in [Slots -> Record] /\ g.rec[i] \in Record
      /\ g.snap[i] \in Reservation
  BY <1>1, StateFields, Places
<1>3. /\ x \in Reservation /\ x.valid /\ x.phase = "Reserved" /\ x.id = g.snap[i].id
      /\ x.match = g.snap[i].match /\ x.round = g.snap[i].round /\ x.world = g.snap[i].world
      /\ x.settled = g.snap[i].settled
  <2>1. 0 \in 0..Delay /\ 0 \in 0..MaxGen /\ 0 \in Nat
    BY GhostAssumption
  <2>2. "Reserved" \in Phases
    BY DEF Phases
  <2>3. x \in Reservation
    BY <1>2, <2>1, <2>2 DEF Reservation
  <2>4. /\ x.valid = g.snap[i].valid /\ x.phase = "Reserved" /\ x.id = g.snap[i].id
        /\ x.match = g.snap[i].match /\ x.round = g.snap[i].round /\ x.world = g.snap[i].world
        /\ x.settled = g.snap[i].settled
    BY <1>2 DEF Reservation
  <2> QED BY <2>3, <2>4 DEF Valid
<1>4. x \in Snap
  BY <1>3 DEF Snap
<1>5. r \in Record /\ r.ent = s
  BY <1>2 DEF Record
<1>6. Cancel(g, i) = n
  BY DEF Cancel
<1> HIDE DEF x, r
<1>7. n \in State
  BY <1>1, <1>2, <1>4, <1>5 DEF State
<1>8. /\ n.client = g.client /\ n.fall = g.fall /\ n.abort = g.abort /\ n.timeout = g.timeout
      /\ n.stage = g.stage /\ n.match = g.match /\ n.round = g.round /\ n.world = g.world
      /\ n.part = g.part
      /\ n.snap[i] = x /\ \A j \in Slots \ {i} : n.snap[j] = g.snap[j]
      /\ n.rec[i] = r /\ \A j \in Slots \ {i} : n.rec[j] = g.rec[j]
  BY <1>1, <1>2 DEF State
<1> HIDE DEF n
<1>9. \A j \in Slots \ {i} : Valid(g, j) => g.rec[j].ent # s
  BY <1>1, Places
<1>10. Like(g, n, s, i)
  BY <1>5, <1>8, <1>9 DEF Like, SameClient, SameSnap
<1>11. g.snap[i].id = g.client[s].id /\ g.client[s].ghost \in {0, i}
  BY <1>1 DEF SnapOK
<1>12. g.stage = "playing" => /\ g.snap[i].match = g.match /\ g.snap[i].round = g.round
                              /\ g.snap[i].world = g.world /\ g.client[s].ghost = i
  BY <1>1 DEF Live
<1>13. Departing(g, n, s, i)
  BY <1>3, <1>5, <1>7, <1>8, <1>10, <1>11, <1>12 DEF Departing, Valid
<1>14. \A j \in Slots :
         /\ (Valid(n, j) <=> Valid(g, j)) /\ n.rec[j].ent = g.rec[j].ent
         /\ n.snap[j].id = g.snap[j].id
         /\ n.snap[j].settled = g.snap[j].settled
  BY <1>3, <1>5, <1>8 DEF Valid
<1>15. Accounts(g, n)
  BY <1>8, <1>14 DEF Accounts, Present, Plays, Reserves
<1>16. Rest(g) => RestsBut(n, s)
  BY <1>8, <1>14 DEF Rest, RestsBut
<1>17. Rest(g) /\ n.stage = "playing" => ~n.client[s].play
  BY <1>8 DEF Rest
<1>18. Drops(g, n, s, i)
  BY <1>3, <1>7, <1>8, <1>11, <1>15, <1>16, <1>17 DEF Drops, Valid
<1> QED BY <1>6, <1>13, <1>18

\* A reservation made on leaving has the result of the client.
LEMMA KeptDrops ==
  ASSUME NEW g \in State, NEW s \in Slots, NEW k, Assigned(g, k, s), NEW i \in Slots,
         NEW n, NEW may, Kept(k, n, s, i, may)
  PROVE  Drops(g, n, s, i)
<1>1. Thins(g, k) /\ Accounts(g, k) /\ k.stage = g.stage
  BY DEF Assigned, Ends, Thins
<1>2. /\ n \in State /\ Valid(n, i) /\ n.snap[i].id = n.client[s].id /\ n.stage = g.stage
      /\ ~n.snap[i].settled /\ Accounts(k, n) /\ n.rec[i].ent = s
  BY <1>1 DEF Kept, Like, GoesOnWith
<1>3. Accounts(g, n)
  BY <1>1, <1>2, AccountsTransitive
<1>4. ASSUME Rest(g) PROVE RestsBut(n, s)
  <2>1. Rest(k)
    BY <1>4, EndsKeep DEF Assigned
  <2> SUFFICES ASSUME n.stage = "playing", NEW t \in Slots \ {s}, NEW j \in Slots,
                      Valid(n, j), n.rec[j].ent = t, n.client[t].conn, n.client[t].play
      PROVE  FALSE
    BY DEF RestsBut
  <2>2. j # i
    BY <1>2
  <2>3. /\ Valid(k, j) /\ k.rec[j].ent = t /\ k.client[t].conn /\ k.client[t].play
        /\ k.stage = "playing"
    BY <2>2 DEF Kept, Like, SameClient, SameSnap, Valid
  <2> QED BY <2>1, <2>3 DEF Rest
<1> QED BY <1>2, <1>3, <1>4 DEF Drops

\* Whose result is settled may go,
LEMMA SettledQuits ==
  ASSUME NEW g \in State, NEW s, NEW id, g.client[s].conn => g.client[s].id = id /\ id \in Ids
  PROVE  LET h == Settle(g, id) IN
         h \in State /\ Alike(g, h) /\ Quits(h, s) /\ h.client = g.client
<1> DEFINE h == Settle(g, id)
<1>1. /\ h \in State /\ Alike(g, h) /\ h.client = g.client
      /\ Matched(g) /\ id \in Ids => h.part[id] # "in"
  BY SettleAlike
<1> HIDE DEF h
<1>2. Matched(h) => Matched(g)
  BY <1>1, AlikeMatched
<1>3. Quits(h, s)
  BY <1>1, <1>2 DEF Quits
<1> QED BY <1>1, <1>3 DEF h

\* with or without his item.
LEMMA TossQuits ==
  ASSUME NEW g \in State, NEW s \in Slots, Quits(g, s)
  PROVE  Quits(Toss(g, s), s)
<1> DEFINE h == Toss(g, s)
<1>1. Alike(g, h) /\ h.part = g.part
  BY TossAlike
<1> HIDE DEF h
<1>2. h.client[s].conn = g.client[s].conn /\ h.client[s].id = g.client[s].id
  BY <1>1 DEF Alike, Resembles, SameClient
<1>3. Matched(h) => Matched(g)
  BY <1>1, AlikeMatched
<1>4. Quits(h, s)
  BY <1>1, <1>2, <1>3 DEF Quits
<1> QED BY <1>4 DEF h

\* A protected client without a handoff, or one who is spoken for by a reservation,
\* does not play.
LEMMA PendsRests ==
  ASSUME NEW g, Settling(g), NEW s \in Slots, g.client[s].conn, Rest(g), g.stage = "playing",
         ~FallbackPending(g, s), Protected(g, s) \/ ReservedState(g, s)
  PROVE  ~g.client[s].play
<1>1. CASE Protected(g, s)
  <2>1. IndexFor(g, s, {"Claimed", "Reinstating", "AwaitingBegin"}) # 0
    BY <1>1 DEF Protected
  <2>2. {"Claimed", "Reinstating", "AwaitingBegin"} \in SUBSET Pending
    BY DEF Pending
  <2>3. \E i \in Slots : Valid(g, i) /\ g.rec[i].ent = s
    BY <2>1, <2>2, IndexForFacts
  <2> QED BY <2>3 DEF Rest
<1>2. CASE ReservedState(g, s)
  <2> DEFINE i == OwnedGhost(g, s)
  <2>1. i # 0 /\ BelongsToMatch(g, i)
    BY <1>2 DEF ReservedState
  <2>2. i \in Slots /\ g.rec[i].ent = s
    BY <2>1, OwnedGhostIs DEF Settling
  <2> HIDE DEF i
  <2> QED BY <2>1, <2>2 DEF Rest, BelongsToMatch, Valid
<1> QED BY <1>1, <1>2

\* MM_Ghost_CaptureDisconnect keeps a reservation, or nothing.
LEMMA CaptureDisconnectFacts ==
  ASSUME NEW g, Good(g), NEW s \in Slots, g.client[s].conn, s \notin g.abort, NEW blocked
  PROVE  Parts(g, CaptureDisconnect(g, s, blocked), s)
<1> DEFINE claimed == IndexFor(g, s, {"Claimed", "Reinstating"})
           awaiting == IndexFor(g, s, {"AwaitingBegin"})
           own == OwnedGhost(g, s)
           cap == CaptureDisconnect(g, s, blocked)
<1>1. Settling(g) /\ g \in State /\ Sound(g) /\ FallOK(g, s) /\ Live(g)
  BY GoodFields DEF Settling
<1>2. /\ claimed # 0 => /\ claimed \in Slots /\ Valid(g, claimed) /\ g.rec[claimed].ent = s
                        /\ g.snap[claimed].phase \in {"Claimed", "Reinstating"}
      /\ claimed = 0 => \A j \in Slots : Valid(g, j) /\ g.rec[j].ent = s
                          => g.snap[j].phase \notin {"Claimed", "Reinstating"}
  <2>1. {"Claimed", "Reinstating"} \in SUBSET Pending
    BY DEF Pending
  <2> QED BY <1>1, <2>1, IndexForFacts
<1>3. /\ awaiting # 0 => /\ awaiting \in Slots /\ Valid(g, awaiting) /\ g.rec[awaiting].ent = s
                         /\ g.snap[awaiting].phase \in {"AwaitingBegin"}
      /\ awaiting = 0 => \A j \in Slots : Valid(g, j) /\ g.rec[j].ent = s
                           => g.snap[j].phase \notin {"AwaitingBegin"}
  <2>1. {"AwaitingBegin"} \in SUBSET Pending
    BY DEF Pending
  <2> QED BY <1>1, <2>1, IndexForFacts
<1>4. g.fall[s].valid <=> FallbackPending(g, s)
  BY <1>1, FallbackIs
<1> HIDE DEF claimed, awaiting
<1>5. CASE FallbackPending(g, s)
  <2> DEFINE f == IF g.client[s].play THEN Settle(g, g.client[s].id) ELSE g
             h == [f EXCEPT !.fall[s] = NoFallback]
  <2>1. cap = NotCaptured(h)
    BY <1>5 DEF CaptureDisconnect
  <2>2. f \in State /\ Alike(g, f) /\ (g.client[s].play => Quits(f, s)) /\ f.client = g.client
    <3>1. g.client[s].id \in Ids
      BY <1>1, StateFields, ClientFields DEF Settling, ClientOK
    <3> QED BY <1>1, <3>1, SettledQuits, AlikeReflexive
  <2>3. Good(f)
    BY <2>2, AlikeGood
  <2> HIDE DEF f
  <2>4. /\ Good(h) /\ ~h.fall[s].valid /\ h.client = f.client /\ h.abort = f.abort
        /\ h.rec = f.rec /\ h.snap = f.snap /\ h.part = f.part /\ Ends(f, h)
    BY <2>3, ForgetGood
  <2> HIDE DEF h
  <2>5. SameClient(g.client[s], h.client[s]) /\ s \notin h.abort
    BY <2>2, <2>4 DEF Alike, Resembles
  <2>6. Unbound(h, s)
    <3>1. Unbound(g, s)
      BY <1>1, <1>4, <1>5 DEF FallOK, Unbound
    <3> QED BY <2>2, <2>4, <3>1 DEF Unbound, Alike, Resembles, SameSnap, Valid
  <2>7. Ends(g, h)
    BY <1>1, <2>2, <2>4, AlikeSound, EndsTransitive
  <2>9. g.client[s].play => Quits(h, s)
    <3>3. Live(f) /\ h.stage = f.stage
      BY <2>3, <2>4, GoodFields DEF Ends, Thins
    <3>1. Matched(h) => Matched(f)
      BY <3>3 DEF Matched, Live
    <3> QED BY <2>2, <2>4, <3>1 DEF Quits
  <2>8. Leaving(g, h, s)
    BY <2>4, <2>5, <2>6, <2>7, <2>9 DEF Leaving, SameClient
  <2> QED BY <2>1, <2>8 DEF Parts, NotCaptured
<1>6. CASE ~FallbackPending(g, s) /\ awaiting # 0
  <2> DEFINE f == SettleSnap(g, awaiting)
             d == ClearRecord(f, awaiting)
             h == [d EXCEPT !.client[s].ghost = 0]
  <2>1. cap = NotCaptured(h)
    BY <1>6 DEF CaptureDisconnect, DropHandoff, awaiting
  <2>2. f \in State /\ Alike(g, f) /\ f.snap[awaiting].settled
    BY <1>1, <1>3, <1>6, SettleSnapAlike
  <2> HIDE DEF f
  <2>3. Gone(g, d, awaiting) /\ Cleared(f, d, awaiting)
    BY <1>1, <1>3, <1>6, <2>2, HandoffEnding
  <2> HIDE DEF d
  <2>4. Settling(d) /\ Ends(g, d) /\ d \in State
    BY <2>3 DEF Gone, Ending, Settling
  <2>5. \A j \in Slots : Valid(d, j) => d.rec[j].ent # s
    <3> SUFFICES ASSUME NEW j \in Slots, Valid(d, j), d.rec[j].ent = s PROVE FALSE
      OBVIOUS
    <3>1. Valid(g, j) /\ g.rec[j].ent = s
      BY <2>4 DEF Ends, Thins
    <3>2. j = awaiting
      BY <1>1, <1>3, <1>6, <3>1 DEF Settling, Apart
    <3> QED BY <2>3, <3>2 DEF Gone
  <2>6. /\ Settling(h) /\ Ends(d, h)
        /\ SameClient([d.client[s] EXCEPT !.ghost = 0], h.client[s])
    BY <2>4, <2>5, UnlinkFacts
  <2>7. h.fall = d.fall /\ h.abort = d.abort
    BY <2>4 DEF State
  <2> HIDE DEF h
  <2>8. Good(h) /\ Ends(g, h)
    BY <2>4, <2>6, EndsTransitive, EndsGood
  <2>9. h.client[s].conn /\ h.client[s].gen = g.client[s].gen
    BY <2>8 DEF Ends, Thins
  <2>10. s \notin h.abort /\ ~h.fall[s].valid
    BY <1>4, <1>6, <2>2, <2>3, <2>7 DEF Cleared, Alike, Resembles
  <2>11. Unbound(h, s)
    <3>1. Unbound(d, s)
      BY <2>5 DEF Unbound
    <3> QED BY <2>6, <3>1, UnboundEnds
  <2>13. h.client[s].id = g.client[s].id /\ (h.client[s].play => g.client[s].play)
    <3>1. h.client[s].id = g.client[s].id
      BY <2>8 DEF Ends, Thins
    <3>2. h.client[s].play => d.client[s].play
      <4>1. d.client[s] \in Client
        BY <2>4, StateFields
      <4> QED BY <2>6, <4>1 DEF SameClient, Client
    <3>3. SameClient(g.client[s], f.client[s])
      BY <2>2 DEF Alike, Resembles
    <3>4. f.rec[awaiting].ent = s /\ s # 0
      BY <1>3, <1>6, <2>2 DEF Alike, Resembles, Slots
    <3>5. Leaves(f.client[s], d.client[s], awaiting)
      BY <2>3, <3>4 DEF Cleared
    <3>6. d.client[s].play => f.client[s].play
      BY <3>3, <3>5 DEF Leaves, SameClient
    <3> QED BY <3>1, <3>2, <3>3, <3>6 DEF SameClient
  <2>12. Leaving(g, h, s)
    BY <1>6, <2>8, <2>9, <2>10, <2>11, <2>13 DEF Leaving
  <2> QED BY <2>1, <2>12 DEF Parts, NotCaptured
<1>7. CASE ~FallbackPending(g, s) /\ awaiting = 0 /\ claimed # 0
  <2>1. cap = Captured(Cancel(g, claimed))
    BY <1>7 DEF CaptureDisconnect, awaiting, claimed
  <2>2. Departing(g, Cancel(g, claimed), s, claimed) /\ Drops(g, Cancel(g, claimed), s, claimed)
    BY <1>2, <1>4, <1>7, CancelFacts
  <2>3. Passed(g, Cancel(g, claimed))
    <3>1. /\ Cancel(g, claimed).client = g.client /\ Cancel(g, claimed).timeout = g.timeout
      BY <1>1 DEF Cancel, State
    <3> QED BY <3>1 DEF Passed, NobodyNew, Resumes, Retained
  <2> QED BY <2>1, <2>2, <2>3 DEF Parts, Captured
<1>8. CASE ~FallbackPending(g, s) /\ awaiting = 0 /\ claimed = 0
  <2>1. Unbound(g, s)
    BY <1>2, <1>3, <1>8 DEF Unbound, Pending
  <2>2. CASE /\ own # 0 /\ g.snap[own].valid /\ g.snap[own].phase = "Reserved"
             /\ Current(g, own) /\ Owns(g, own, g.client[s].id)
    <3>1. cap = Captured(g)
      BY <1>8, <2>2 DEF CaptureDisconnect, awaiting, claimed
    <3>2. own \in Slots /\ g.client[s].ghost = own /\ g.rec[own].ent = s
      BY <1>1, <2>2, OwnedGhostIs
    <3> HIDE DEF own
    <3>3. \A j \in Slots \ {own} : Valid(g, j) => g.rec[j].ent # s
      BY <1>1, <2>2, <3>2, Places DEF Valid
    <3>4. Like(g, g, s, own)
      BY <3>2, <3>3 DEF Like, SameClient, SameSnap
    <3>5. g.stage = "playing" => /\ g.snap[own].match = g.match /\ g.snap[own].round = g.round
                                 /\ g.snap[own].world = g.world
      BY <1>1, <2>2, <3>2 DEF Live, Valid
    <3>6. Departing(g, g, s, own)
      BY <1>1, <1>4, <1>8, <2>2, <3>2, <3>4, <3>5 DEF Departing, Owns, Valid
    <3>7. Passed(g, g)
      BY DEF Passed, NobodyNew, Resumes
    <3>8. Drops(g, g, s, own)
      <4>1. Rest(g) => RestsBut(g, s) /\ (g.stage = "playing" => ~g.client[s].play)
        BY <2>2, <3>2 DEF Rest, RestsBut, Valid
      <4> QED BY <1>1, <2>2, <3>2, <4>1, SameAccounts DEF Drops, Owns, Valid
    <3> QED BY <3>1, <3>6, <3>7, <3>8 DEF Parts, Captured
  <2>3. CASE ~(/\ own # 0 /\ g.snap[own].valid /\ g.snap[own].phase = "Reserved"
               /\ Current(g, own) /\ Owns(g, own, g.client[s].id))
    <3>1. cap = Capture(g, s, TRUE, blocked)
      BY <1>8, <2>3 DEF CaptureDisconnect, awaiting, claimed
    <3>2. ~Protected(g, s)
      BY <1>4, <1>8, <2>1, UnboundUnprotected
    <3>3. Captures(g, cap, s, TRUE)
      BY <3>1, <3>2, CaptureFacts
    <3> HIDE DEF cap
    <3>4. CASE cap.ok
      <4>1. PICK k, i : /\ Assigned(g, k, s) /\ k.stage = "playing" /\ i \in Slots
                        /\ Kept(k, cap.g, s, i, TRUE)
        BY <3>3, <3>4 DEF Captures
      <4>2. Good(k) /\ k.client[s].conn /\ k.client[s].gen = g.client[s].gen
        BY <4>1, EndsGood DEF Assigned, GoesOnWith
      <4>3. s \notin k.abort /\ ~k.fall[s].valid
        BY <1>4, <1>8, <4>1 DEF Assigned
      <4>4. Departing(k, cap.g, s, i)
        BY <4>1, <4>3 DEF Departing, Kept, GoesOnWith
      <4>5. Passed(g, cap.g)
        BY <2>1, <4>1, KeptPassed
      <4>6. Drops(g, cap.g, s, i)
        BY <1>1, <4>1, KeptDrops
      <4> QED BY <3>4, <4>2, <4>4, <4>5, <4>6 DEF Parts, cap
    <3>5. CASE ~cap.ok
      <4>1. Assigned(g, cap.g, s)
        BY <3>3, <3>5 DEF Captures
      <4>2. Good(cap.g) /\ Unbound(cap.g, s)
        BY <2>1, <4>1, EndsGood, UnboundEnds DEF Assigned
      <4>3. Leaving(g, cap.g, s)
        BY <1>4, <1>8, <4>1, <4>2 DEF Leaving, Assigned, GoesOnWith
      <4> QED BY <3>5, <4>3 DEF Parts, cap
    <3> QED BY <3>4, <3>5
  <2> QED BY <2>2, <2>3
<1> QED BY <1>5, <1>6, <1>7, <1>8

\* A cleared client has no reservation left.
LEMMA CleanedSlot ==
  ASSUME NEW g, Settling(g), NEW s \in Slots, g.client[s].conn, Unbound(g, s),
         NEW h, Cleaned(g, h, s)
  PROVE  \A j \in Slots : Valid(h, j) => h.rec[j].ent # s
<1> SUFFICES ASSUME NEW j \in Slots, Valid(h, j), h.rec[j].ent = s PROVE FALSE
  OBVIOUS
<1>1. SnapOK(h, j) /\ h.client[s].conn /\ h.client[s].ghost = 0
  BY DEF Cleaned, GoesOn, Settling
<1>2. h.snap[j].phase = "Reserved"
  <2>1. Unbound(h, s)
    BY UnboundEnds DEF Cleaned
  <2>2. h.snap[j] \in Reservation
    BY Places DEF Cleaned
  <2>3. h.snap[j].phase \in Phases
    BY <2>2, ReservationFields
  <2> QED BY <1>1, <2>1, <2>3 DEF Unbound, SnapOK, Pending, Phases
<1> QED BY <1>1, <1>2 DEF SnapOK, Slots

\* Leaving a reservation behind keeps the invariant.
LEMMA DepartingGood ==
  ASSUME NEW k, Good(k), NEW s \in Slots, k.client[s].conn, k.client[s].gen + 1 < MaxGen,
         NEW n, NEW i, Departing(k, n, s, i)
  PROVE  Good([n EXCEPT !.client[s] =
                 [@ EXCEPT !.conn = FALSE, !.begun = FALSE, !.spawned = FALSE, !.limbo = FALSE,
                           !.inuse = TRUE, !.holder = TRUE, !.gen = n.client[s].gen + 1]])
<1> DEFINE c == [n.client[s] EXCEPT !.conn = FALSE, !.begun = FALSE, !.spawned = FALSE,
                                    !.limbo = FALSE, !.inuse = TRUE, !.holder = TRUE,
                                    !.gen = n.client[s].gen + 1]
           h == [n EXCEPT !.client = [n.client EXCEPT ![s] = c]]
<1>1. n \in State /\ n.client \in [Slots -> Client] /\ n.client[s] \in Client
  BY StateFields DEF Departing
<1>2. n.client[s].gen \in 1..MaxGen /\ n.client[s].gen = k.client[s].gen /\ MaxGen \in Nat
  BY <1>1, ClientFields, GhostAssumption DEF Departing
<1>3. n.client[s].gen + 1 \in 1..MaxGen /\ n.client[s].gen + 1 < MaxGen
  BY <1>2
<1>4. /\ c \in Client /\ c.conn = FALSE /\ c.begun = FALSE /\ c.spawned = FALSE
      /\ c.limbo = FALSE /\ c.holder = TRUE /\ c.gen = n.client[s].gen + 1
      /\ c.ghost = n.client[s].ghost
  BY <1>1, <1>3 DEF Client
<1> HIDE DEF c
<1>5. h \in State
  BY <1>1, <1>4 DEF State
<1>6. /\ h.rec = n.rec /\ h.snap = n.snap /\ h.fall = n.fall /\ h.abort = n.abort
      /\ h.timeout = n.timeout /\ h.stage = n.stage /\ h.match = n.match
      /\ h.round = n.round /\ h.world = n.world
      /\ h.client[s] = c /\ \A t \in Slots \ {s} : h.client[t] = n.client[t]
  BY <1>1 DEF State
<1>7. h = [n EXCEPT !.client[s] =
             [@ EXCEPT !.conn = FALSE, !.begun = FALSE, !.spawned = FALSE, !.limbo = FALSE,
                       !.inuse = TRUE, !.holder = TRUE, !.gen = n.client[s].gen + 1]]
  BY DEF c
<1> HIDE DEF h
<1>8. Like(k, h, s, i)
  BY <1>6 DEF Departing, Like, Valid
<1>9. Departed(k, h, s, i)
  BY <1>3, <1>4, <1>6, <1>8 DEF Departing, Departed, Valid
<1> QED BY <1>5, <1>7, <1>9, DepartFacts

\* So does leaving nothing, which ends no timeout but with its owner.
LEMMA LeavingGood ==
  ASSUME NEW g \in State, NEW n, NEW s \in Slots, Leaving(g, n, s), g.client[s].gen + 1 < MaxGen,
         NEW b \in State, Alike(n, b), Rest(g) /\ b.client[s].play => Quits(b, s), NEW blocked
  PROVE  LET h == [ClearGhost(b, s, blocked) EXCEPT !.client[s] = NoClient(@.gen + 1)]
         IN Good(h) /\ Passed(g, h) /\ Carries(g, h)
<1> DEFINE c == ClearGhost(b, s, blocked)
           m == c.client[s].gen + 1
<1>1. Good(n) /\ Good(b) /\ n \in State
  BY AlikeGood, GoodFields DEF Leaving
<1>2. /\ b.client[s].conn /\ b.client[s].gen = g.client[s].gen /\ Unbound(b, s)
      /\ ~b.fall[s].valid /\ s \notin b.abort
  BY DEF Leaving, Alike, Resembles, SameClient, SameSnap, Unbound, Valid
<1>3. Cleaned(b, c, s)
  BY <1>1, <1>2, UnboundUnprotected, ClearGhostFacts, GoodFields
<1> HIDE DEF c
<1>4. Good(c) /\ c.client[s].gen = g.client[s].gen /\ ~c.fall[s].valid /\ s \notin c.abort
  BY <1>1, <1>2, <1>3, EndsGood DEF Cleaned, GoesOn
<1>5. \A j \in Slots : Valid(c, j) => c.rec[j].ent # s
  BY <1>1, <1>2, <1>3, CleanedSlot, GoodFields
<1>6. m \in 1..MaxGen
  <2>1. c.client[s].gen \in 1..MaxGen
    BY <1>4, GoodFields, StateFields, ClientFields
  <2> QED BY <1>4, <2>1, GhostAssumption
<1> HIDE DEF m
<1> DEFINE h == [c EXCEPT !.client[s] = NoClient(m)]
<1>7. Good(h)
  BY <1>4, <1>5, <1>6, LeaveFacts
<1>8. Ends(g, c)
  BY <1>1, <1>3, AlikeSound, EndsTransitive, GoodFields DEF Leaving, Cleaned
<1>9. Passed(g, h)
  <2>1. /\ h.client[s] = NoClient(m) /\ \A t \in Slots \ {s} : h.client[t] = c.client[t]
        /\ h.snap = c.snap /\ h.rec = c.rec /\ h.timeout = c.timeout
    BY <1>4, GoodFields DEF State
  <2> HIDE DEF h
  <2>2. NoClient(m).conn = FALSE
    BY <1>6, NoClientFields
  <2>3. NobodyNew(g, h)
    BY <1>8, <2>1, <2>2 DEF NobodyNew, Ends, Thins
  <2>4. Resumes(g, h)
    BY <1>8, <2>1, EndsThenResumes DEF Waiting, Retained
  <2> QED BY <2>3, <2>4 DEF Passed
<1>10. Carries(g, h)
  <2>1. /\ h.client[s] = NoClient(m) /\ \A t \in Slots \ {s} : h.client[t] = c.client[t]
        /\ h.snap = c.snap /\ h.rec = c.rec /\ h.part = c.part /\ h.stage = c.stage
    BY <1>4, GoodFields DEF State
  <2> HIDE DEF h
  <2>2. h.client[s].conn = FALSE
    BY <1>6, <2>1, NoClientFields
  <2>0. h.stage = g.stage
    BY <1>8, <2>1 DEF Ends, Thins
  <2> SUFFICES ASSUME Rest(g) PROVE Rest(h) /\ Accounts(g, h)
    BY <2>0 DEF Carries
  <2>3. Rest(c) /\ Accounts(g, c) /\ c.stage = b.stage
    BY <1>3, <1>8, EndsKeep DEF Ends, Thins, Cleaned
  <2>4. Rest(h)
    <3> SUFFICES ASSUME h.stage = "playing", NEW t \in Slots, NEW j \in Slots,
                        Valid(h, j), h.rec[j].ent = t, h.client[t].conn, h.client[t].play
        PROVE  FALSE
      BY DEF Rest
    <3>1. t # s
      BY <2>2
    <3> QED BY <2>1, <2>3, <3>1 DEF Rest, Valid
  <2>5. ASSUME c.stage = "playing", c.client[s].play PROVE c.part[c.client[s].id] # "in"
    <3>1. b.client[s].play /\ c.client[s].id = b.client[s].id
      BY <1>2, <1>3, <2>5 DEF Cleaned, GoesOn
    <3>2. Matched(b)
      BY ZenonT(40), <1>1, <2>3, <2>5, GoodFields DEF Matched, Live
    <3>3. b.part[b.client[s].id] # "in" /\ b.client[s].id \in Ids
      <4>1. b.client[s].id \in Ids
        BY <1>1, <1>2, GoodFields, StateFields, ClientFields DEF Settling, ClientOK
      <4> QED BY <1>2, <3>1, <3>2, <4>1 DEF Quits
    <3> QED BY <1>3, <3>1, <3>3 DEF Cleaned, NoneEnters
  <2>6. Accounts(g, h)
    <3> SUFFICES ASSUME Matched(g), NEW id \in Ids, Present(g, id), h.part[id] = "in"
        PROVE  Plays(h, id) \/ Reserves(h, id)
      BY DEF Accounts, Present
    <3>1. Plays(c, id) \/ Reserves(c, id)
      BY <2>1, <2>3 DEF Accounts, Present
    <3>2. CASE Reserves(c, id)
      BY <2>1, <3>2 DEF Reserves, Valid
    <3>3. CASE Plays(c, id)
      <4>1. PICK t \in Slots : c.client[t].conn /\ c.client[t].id = id /\ c.client[t].play
        BY <3>3 DEF Plays
      <4>2. c.stage = "playing"
        BY <1>8 DEF Matched, Ends, Thins
      <4>3. t # s
        BY <2>1, <2>5, <4>1, <4>2
      <4> QED BY <2>1, <4>1, <4>3 DEF Plays
    <3> QED BY <3>1, <3>2, <3>3
  <2> QED BY <2>4, <2>6
<1> QED BY <1>7, <1>9, <1>10 DEF c, m, h

\* ClientDisconnect keeps the invariant, and ends no timeout but with its
\* owner.
LEMMA DisconnectGood ==
  ASSUME Good(w), NEW s \in Slots, NEW blocked, ClientDisconnect(s, blocked)
  PROVE  Good(w') /\ Passed(w, w') /\ Carries(w, w')
<1> DEFINE a == [w EXCEPT !.abort = w.abort \ {s}]
           cap == IF s \in w.abort THEN NotCaptured(a) ELSE CaptureDisconnect(a, s, blocked)
           pending == Protected(w, s) \/ ReservedState(w, s)
           b == IF pending \/ ~w.client[s].play THEN cap.g ELSE Settle(cap.g, w.client[s].id)
<1>1. w \in State /\ Settling(w)
  BY GoodFields
<1>2. w.client[s].conn /\ w.client[s].gen + 1 < MaxGen
  BY DEF ClientDisconnect
<1>3. w' = Disconnected(cap, s, pending, blocked)
  BY DEF ClientDisconnect
<1>4. w' = IF cap.ok
           THEN [cap.g EXCEPT !.client[s] =
                   [@ EXCEPT !.conn = FALSE, !.begun = FALSE, !.spawned = FALSE, !.limbo = FALSE,
                             !.inuse = TRUE, !.holder = TRUE, !.gen = cap.g.client[s].gen + 1]]
           ELSE [ClearGhost(Toss(b, s), s, blocked) EXCEPT !.client[s] = NoClient(@.gen + 1)]
  BY <1>3 DEF Disconnected
<1>5. /\ Good(a) /\ a.abort = w.abort \ {s} /\ a.client = w.client /\ a.fall = w.fall
      /\ a.rec = w.rec /\ a.snap = w.snap /\ a.timeout = w.timeout
      /\ a.part = w.part /\ a.stage = w.stage /\ Ends(w, a)
  <2>1. w.abort \ {s} \in SUBSET w.abort
    OBVIOUS
  <2> QED BY <2>1, UnstuckGood
<1>10. pending => Protected(w, s) \/ ReservedState(w, s)
  OBVIOUS
<1> HIDE DEF a, pending
<1>11. ASSUME Carries(a, w') PROVE Carries(w, w')
  BY <1>5, <1>11, EndsCarries, CarriesTransitive
<1>9. ASSUME NEW h, Passed(a, h) PROVE Passed(w, h)
  BY <1>5, <1>9 DEF Passed, NobodyNew, Resumes, Retained, Waiting
<1>6. Parts(a, cap, s)
  <2>1. CASE s \in w.abort
    <3>1. cap = NotCaptured(a)
      BY <2>1
    <3>2. Unbound(a, s) /\ ~a.fall[s].valid
      <4>1. FallOK(w, s) /\ \A j \in Slots : SnapOK(w, j)
        BY <1>1 DEF Settling
      <4>2. ~w.fall[s].valid
        BY <2>1, <4>1 DEF FallOK
      <4>3. Unbound(w, s)
        BY <2>1, <4>1 DEF SnapOK, Unbound, Pending
      <4> QED BY <1>5, <4>2, <4>3 DEF Unbound, Valid
    <3>3. Leaving(a, a, s)
      <4>1. ~FallbackPending(a, s)
        BY <3>2 DEF FallbackPending
      <4> QED BY <1>2, <1>5, <3>2, <4>1, EndsReflexive, GoodFields DEF Leaving
    <3> QED BY <3>1, <3>3 DEF Parts, NotCaptured
  <2>2. CASE s \notin w.abort
    <3>1. Parts(a, CaptureDisconnect(a, s, blocked), s)
      BY <1>2, <1>5, CaptureDisconnectFacts
    <3> QED BY <2>2, <3>1
  <2> QED BY <2>1, <2>2
<1> HIDE DEF cap
<1>7. CASE cap.ok
  <2>1. PICK k, i : /\ Good(k) /\ k.client[s].conn /\ k.client[s].gen = a.client[s].gen
                    /\ Departing(k, cap.g, s, i) /\ Drops(a, cap.g, s, i)
    BY <1>6, <1>7 DEF Parts
  <2>2. Good(w')
    BY <1>2, <1>4, <1>5, <1>7, <2>1, DepartingGood
  <2>3. cap.g \in State /\ Passed(a, cap.g)
    BY <1>6, <1>7, <2>1 DEF Parts, Departing
  <2>4. /\ w'.client[s].conn = FALSE /\ \A t \in Slots \ {s} : w'.client[t] = cap.g.client[t]
        /\ w'.snap = cap.g.snap /\ w'.rec = cap.g.rec /\ w'.timeout = cap.g.timeout
        /\ w'.part = cap.g.part /\ w'.stage = cap.g.stage
    BY <1>4, <1>7, <2>3, StateFields DEF State, Client
  <2>5. Passed(a, w')
    BY <2>3, <2>4 DEF Passed, NobodyNew, Resumes, Retained, Waiting
  <2>6. Carries(a, w')
    <3>1. LeftSlot(cap.g, w', s)
      BY <2>4 DEF LeftSlot
    <3> QED BY <2>1, <3>1, DropsCarries
  <2> QED BY <1>9, <1>11, <2>2, <2>5, <2>6
<1>8. CASE ~cap.ok
  <2>1. Leaving(a, cap.g, s) /\ cap.g \in State
    BY <1>6, <1>8, GoodFields DEF Parts, Leaving
  <2>5. w.client[s].id \in Ids /\ cap.g.client[s].id = w.client[s].id
    BY <1>1, <1>2, <1>5, <2>1, StateFields, ClientFields DEF Settling, ClientOK, Leaving
  <2>2. b \in State /\ Alike(cap.g, b)
    BY <2>1, SettleAlike, AlikeReflexive
  <2>6. Rest(a) /\ b.client[s].play => Quits(b, s)
    <3> SUFFICES ASSUME Rest(a), b.client[s].play PROVE Quits(b, s)
      OBVIOUS
    <3>1. CASE ~(pending \/ ~w.client[s].play)
      <4>1. b = Settle(cap.g, w.client[s].id)
        BY <3>1
      <4> HIDE DEF b
      <4> QED BY <2>1, <2>5, <4>1, SettledQuits
    <3>2. CASE pending \/ ~w.client[s].play
      <4>1. b = cap.g
        BY <3>2
      <4> HIDE DEF b
      <4>2. w.client[s].play
        BY <1>5, <2>1, <4>1 DEF Leaving
      <4>3. CASE FallbackPending(w, s)
        <5>1. FallbackPending(a, s)
          BY <1>5, <4>3 DEF FallbackPending
        <5> QED BY <1>5, <2>1, <4>1, <4>2, <5>1 DEF Leaving
      <4>4. CASE ~FallbackPending(w, s)
        <5>1. Rest(w)
          BY <1>5 DEF Rest, Valid
        <5>2. w.stage # "playing"
          BY <1>1, <1>2, <1>10, <3>2, <4>2, <4>4, <5>1, PendsRests
        <5>3. b.stage # "playing"
          BY <1>5, <2>1, <4>1, <5>2 DEF Leaving, Ends, Thins
        <5> QED BY <5>3 DEF Quits, Matched
      <4> QED BY <4>3, <4>4
    <3> QED BY <3>1, <3>2
  <2> HIDE DEF b
  <2>3. Toss(b, s) \in State /\ Alike(cap.g, Toss(b, s))
    BY <2>2, TossAlike, AlikeTransitive
  <2>7. Rest(a) /\ Toss(b, s).client[s].play => Quits(Toss(b, s), s)
    <3>1. SameClient(b.client[s], Toss(b, s).client[s])
      BY <2>2, TossAlike DEF Alike, Resembles
    <3> QED BY <2>2, <2>6, <3>1, TossQuits DEF SameClient
  <2>8. a \in State
    BY <1>5, GoodFields
  <2>4. Good(w') /\ Passed(a, w') /\ Carries(a, w')
    BY <1>2, <1>4, <1>5, <1>8, <2>1, <2>3, <2>7, <2>8, LeavingGood
  <2> QED BY <1>9, <1>11, <2>4
<1> QED BY <1>7, <1>8

-----------------------------------------------------------------------------
(* Connections.                                                             *)

\* ClientChooseSlot picks a slot nobody is connected to, if any.
LEMMA ChooseSlotFacts ==
  ASSUME NEW g, Settling(g), NEW id, ChooseSlot(g, id) # 0
  PROVE  ChooseSlot(g, id) \in Slots /\ ~g.client[ChooseSlot(g, id)].conn
<1> DEFINE i == Find(g, id)
           found == {j \in Slots : Current(g, j) /\ Owns(g, j, id)}
<1>1. CASE i # 0 /\ ~g.client[g.rec[i].ent].conn
  <2>1. i \in found
    BY <1>1 DEF Find
  <2>2. i \in Slots /\ Valid(g, i)
    BY <2>1 DEF Owns, Valid
  <2>3. g.rec[i].ent \in Slots
    BY <2>2, Places
  <2> QED BY <1>1, <2>3 DEF ChooseSlot
<1>2. CASE ~(i # 0 /\ ~g.client[g.rec[i].ent].conn)
  <2>1. Free(g) # {} /\ ChooseSlot(g, id) = CHOOSE s \in Free(g) : \A t \in Free(g) : s <= t
    BY <1>2 DEF ChooseSlot
  <2>2. Free(g) \in SUBSET Slots
    BY DEF Free
  <2>3. ChooseSlot(g, id) \in Free(g)
    BY <2>1, <2>2, LeastExists
  <2> QED BY <2>3 DEF Free
<1> QED BY <1>1, <1>2

\* The reservation a connection claims is the only one of its slot.
LEMMA OwningSnapFacts ==
  ASSUME NEW g, Settling(g), NEW s \in Slots, NEW id, OwningSnap(g, s, id) # 0
  PROVE  LET i == OwningSnap(g, s, id) IN
         /\ i \in Slots /\ Valid(g, i) /\ g.rec[i].ent = s /\ g.snap[i].id = id
         /\ g.snap[i].phase = "Reserved"
<1> DEFINE found == {i \in Slots : /\ g.snap[i].valid /\ g.rec[i].ent = s /\ ~g.client[s].conn
                                   /\ g.snap[i].phase = "Reserved" /\ Current(g, i)
                                   /\ Owns(g, i, id)}
<1>1. found # {} /\ OwningSnap(g, s, id) = CHOOSE i \in found : \A j \in found : i >= j
  BY DEF OwningSnap
<1>2. PICK i \in found : TRUE
  BY <1>1
<1>3. \A j \in found : j = i
  BY DEF Settling, Apart, Valid
<1>4. i \in Nat
  BY DEF Slots
<1>5. \A j \in found : i >= j
  BY <1>3, <1>4
<1>6. OwningSnap(g, s, id) \in found
  BY <1>1, <1>5
<1> QED BY <1>6 DEF Owns, Valid

\* The client c has connected and not begun.
Fresh(c, id, gen) ==
  /\ c \in Client /\ c.id = id /\ c.conn = TRUE /\ c.begun = FALSE /\ c.limbo = FALSE
  /\ c.gen = gen /\ c.play = FALSE

\* So has ClientConnect's, without a reservation and with one.
Guest(n, id) == [NoClient(n) EXCEPT !.id = id, !.conn = TRUE, !.spawned = TRUE]
\* A new connection that claims reservation i.
Claimant(n, id, i) ==
  [Guest(n, id) EXCEPT !.spawned = FALSE, !.inuse = TRUE, !.holder = TRUE, !.ghost = i]

\* A new connection is fresh, whether it claims a reservation or not.
LEMMA FreshIs ==
  ASSUME NEW n \in 1..MaxGen, NEW id \in Ids, NEW i \in Slots
  PROVE  LET c == Guest(n, id)
             d == Claimant(n, id, i)
         IN /\ Fresh(c, id, n) /\ c.inuse = FALSE /\ c.holder = FALSE
            /\ Fresh(d, id, n) /\ d.inuse = TRUE /\ d.spawned = FALSE /\ d.ghost = i
<1>1. NoClient(n) \in Client /\ id \in Ids \cup {None} /\ i \in {0} \cup Slots
  BY NoClientFields
<1> QED BY <1>1 DEF Fresh, Client, NoClient, Guest, Claimant

\* The connection of slot s is of an identity that is nowhere else.
Newcomer(g, s, id) ==
  /\ ~g.client[s].conn /\ id # None
  /\ \A t \in Slots \ {s} : ~(g.client[t].conn /\ g.client[t].id = id)
  /\ \A i \in Slots : Valid(g, i) /\ g.snap[i].id = id => g.rec[i].ent = s

\* A new identity connects to a slot without a reservation.
LEMMA ConnectFresh ==
  ASSUME NEW g, Good(g), NEW s \in Slots, NEW id, Newcomer(g, s, id),
         \A j \in Slots : Valid(g, j) => g.rec[j].ent # s,
         NEW c, Fresh(c, id, g.client[s].gen), c.inuse = FALSE, ~c.holder
  PROVE  LET h == [g EXCEPT !.client[s] = c, !.abort = @ \ {s}] IN Good(h) /\ Carries(g, h)
<1> DEFINE h == [g EXCEPT !.client = [g.client EXCEPT ![s] = c], !.abort = g.abort \ {s}]
<1>1. g \in State /\ Settling(g) /\ g.client \in [Slots -> Client] /\ Owned(g)
      /\ g.abort \subseteq Slots
  BY GoodFields, StateFields
<1>3. h \in State
  BY <1>1 DEF State, Fresh
<1>4. /\ h.rec = g.rec /\ h.snap = g.snap /\ h.fall = g.fall /\ h.abort = g.abort \ {s}
      /\ h.timeout = g.timeout /\ h.stage = g.stage /\ h.match = g.match
      /\ h.round = g.round /\ h.world = g.world /\ h.part = g.part
      /\ h.client[s] = c /\ \A t \in Slots \ {s} : h.client[t] = g.client[t]
  BY <1>1 DEF State
<1>5. h = [g EXCEPT !.client[s] = c, !.abort = @ \ {s}]
  OBVIOUS
<1> HIDE DEF h
<1>6. Like(g, h, s, 0) /\ 0 \notin Slots
  BY <1>4 DEF Like, SameClient, SameSnap, Slots, Valid
<1>7. ClientOK(h, s) /\ FallOK(h, s)
  <2>1. ~g.fall[s].valid
    BY <1>1 DEF Settling, FallOK, Newcomer
  <2> QED BY <1>4, <2>1 DEF ClientOK, FallOK, Newcomer, Fresh
<1>8. Apart(h)
  <2>1. Apart(g)
    BY <1>1 DEF Settling
  <2> QED BY <1>4, <2>1 DEF Apart, Valid, Newcomer, Fresh
<1>9. Settling(h)
  BY <1>1, <1>3, <1>6, <1>7, <1>8, LikeLocal
<1>10. Times(g, h, s)
  <2>1. ~Waiting(g, s)
    BY DEF Waiting, Valid
  <2>2. g.timeout.ent # s \/ s = 0
    BY <1>1, <2>1 DEF Owned
  <2> QED BY <1>4, <2>2 DEF Times
<1>11. Fits(h, s, 0)
  BY <1>6 DEF Fits
<1>12. Good(h)
  BY <1>6, <1>9, <1>10, <1>11, GoodLocal
<1>13. Stays(g, h)
  BY <1>4 DEF Stays, NoneEnters, Valid, Newcomer, Fresh
<1> QED BY <1>5, <1>12, <1>13, StaysCarries

\* Snapshot i is claimed for slot s.
Claims(x, y, s, gen) ==
  /\ y \in Reservation /\ y.valid /\ y.id = x.id /\ y.phase = "Claimed" /\ y.target = s
  /\ y.gen = gen /\ y.match = x.match /\ y.round = x.round /\ y.world = x.world
  /\ y.settled = x.settled

\* The identity of a reservation connects to its slot, and claims it.
LEMMA ConnectClaim ==
  ASSUME NEW g, Good(g), NEW s \in Slots, NEW id, Newcomer(g, s, id),
         NEW i \in Slots, Valid(g, i), g.rec[i].ent = s, g.snap[i].id = id,
         g.snap[i].phase = "Reserved",
         NEW c, Fresh(c, id, g.client[s].gen), c.inuse, ~c.spawned, c.ghost = i,
         NEW y, Claims(g.snap[i], y, s, g.client[s].gen), NEW r \in Record, r.ent = s
  PROVE  LET h == [g EXCEPT !.client[s] = c, !.abort = g.abort \ {s}, !.snap[i] = y,
                            !.rec[i] = r]
         IN Good(h) /\ Carries(g, h)
<1> DEFINE h == [g EXCEPT !.client = [g.client EXCEPT ![s] = c], !.abort = g.abort \ {s},
                          !.snap = [g.snap EXCEPT ![i] = y], !.rec = [g.rec EXCEPT ![i] = r]]
<1>1. g \in State /\ Settling(g) /\ g.client \in [Slots -> Client] /\ Owned(g) /\ Live(g)
      /\ g.snap \in [Slots -> Snap] /\ g.rec \in [Slots -> Record] /\ g.abort \subseteq Slots
  BY GoodFields, StateFields
<1>2. y \in Snap /\ c \in Client
  BY DEF Claims, Snap, Fresh
<1>3. h \in State
  BY <1>1, <1>2 DEF State
<1>4. /\ h.fall = g.fall /\ h.abort = g.abort \ {s}
      /\ h.timeout = g.timeout /\ h.stage = g.stage /\ h.match = g.match
      /\ h.round = g.round /\ h.world = g.world /\ h.part = g.part
      /\ h.client[s] = c /\ \A t \in Slots \ {s} : h.client[t] = g.client[t]
      /\ h.snap[i] = y /\ \A j \in Slots \ {i} : h.snap[j] = g.snap[j]
      /\ h.rec[i] = r /\ \A j \in Slots \ {i} : h.rec[j] = g.rec[j]
  BY <1>1 DEF State
<1>12. h = [g EXCEPT !.client[s] = c, !.abort = g.abort \ {s}, !.snap[i] = y, !.rec[i] = r]
  OBVIOUS
<1> HIDE DEF h
<1>5. \A j \in Slots \ {i} : Valid(g, j) => g.rec[j].ent # s
  BY <1>1, Places
<1>6. Like(g, h, s, i)
  BY <1>4, <1>5 DEF Like, SameClient, SameSnap
<1>7. ClientOK(h, s) /\ FallOK(h, s) /\ SnapOK(h, i)
  <2>1. ~g.fall[s].valid
    BY <1>1 DEF Settling, FallOK, Newcomer
  <2>2. ClientOK(h, s) /\ FallOK(h, s)
    BY <1>4, <2>1 DEF ClientOK, FallOK, Newcomer, Fresh
  <2>3. SnapOK(h, i)
    BY <1>4 DEF SnapOK, Fresh, Claims, Slots, Pending
  <2> QED BY <2>2, <2>3
<1>8. Apart(h)
  <2>1. Apart(g)
    BY <1>1 DEF Settling
  <2>2. \A j \in Slots : /\ Valid(h, j) <=> Valid(g, j)
                         /\ Valid(g, j) => h.snap[j].id = g.snap[j].id /\ h.rec[j].ent = g.rec[j].ent
    BY <1>4 DEF Claims, Valid
  <2> QED BY <1>4, <2>1, <2>2 DEF Apart, Newcomer, Fresh
<1>9. Settling(h)
  <2>1. \A t \in Slots \ {s} : h.rec[i].ent # t
    BY <1>4
  <2> QED BY <1>1, <1>3, <1>6, <1>7, <1>8, <2>1, LikeLocal
<1>10. Times(g, h, s)
  <2>1. Waiting(h, s)
    BY <1>4 DEF Waiting, Claims
  <2> QED BY <1>1, <1>4, <2>1 DEF Times, Owned
<1>11. Fits(h, s, i)
  BY <1>1, <1>4 DEF Fits, Live, Claims, Valid
<1>13. Good(h)
  BY <1>6, <1>9, <1>10, <1>11, GoodLocal
<1>14. \A j \in Slots :
         /\ (Valid(h, j) <=> Valid(g, j)) /\ h.rec[j].ent = g.rec[j].ent
         /\ h.snap[j].id = g.snap[j].id
         /\ h.snap[j].settled = g.snap[j].settled
  BY <1>4 DEF Claims, Valid
<1>15. Stays(g, h)
  BY <1>4, <1>14 DEF Stays, NoneEnters, Newcomer, Fresh
<1> QED BY <1>12, <1>13, <1>15, StaysCarries

\* The claim of ClientConnect keeps the invariant.
LEMMA ClaimGood ==
  ASSUME NEW g, Good(g), NEW id \in Ids, NEW s \in Slots, Newcomer(g, s, id),
         NEW i \in Slots, i = OwningSnap(g, s, id)
  PROVE  LET fresh == [NoClient(g.client[s].gen) EXCEPT !.id = id, !.conn = TRUE, !.spawned = TRUE]
             h == [g EXCEPT
                     !.client[s] = [fresh EXCEPT !.spawned = FALSE, !.inuse = TRUE,
                                                 !.holder = TRUE, !.ghost = i],
                     !.abort = @ \ {s},
                     !.snap[i] = [@ EXCEPT !.phase = "Claimed", !.elapsed = 0, !.reinstate = 0,
                                           !.target = s, !.gen = g.client[s].gen],
                     !.rec[i].code = FALSE]
         IN Good(h) /\ Carries(g, h)
<1> DEFINE c == Claimant(g.client[s].gen, id, i)
           y == [g.snap[i] EXCEPT !.phase = "Claimed", !.elapsed = 0, !.reinstate = 0,
                                  !.target = s, !.gen = g.client[s].gen]
           r == [g.rec[i] EXCEPT !.code = FALSE]
<1>1. g \in State /\ Settling(g)
  BY GoodFields
<1>2. 0 \notin Slots
  BY DEF Slots
<1>3. Valid(g, i) /\ g.rec[i].ent = s /\ g.snap[i].id = id /\ g.snap[i].phase = "Reserved"
  BY <1>1, <1>2, OwningSnapFacts
<1>4. g.client[s].gen \in 1..MaxGen /\ g.snap[i] \in Reservation /\ g.rec[i] \in Record
  BY <1>1, <1>3, StateFields, ClientFields, Places
<1>5. Fresh(c, id, g.client[s].gen) /\ c.inuse = TRUE /\ c.spawned = FALSE /\ c.ghost = i
  BY <1>4, FreshIs
<1>6. Claims(g.snap[i], y, s, g.client[s].gen)
  <2>1. 0 \in 0..Delay /\ 0 \in Nat /\ g.client[s].gen \in 0..MaxGen
    BY <1>4, GhostAssumption
  <2>2. "Claimed" \in Phases
    BY DEF Phases
  <2>3. y \in Reservation
    BY <1>4, <2>1, <2>2 DEF Reservation
  <2>4. /\ y.valid = g.snap[i].valid /\ y.id = g.snap[i].id /\ y.phase = "Claimed"
        /\ y.target = s /\ y.gen = g.client[s].gen /\ y.match = g.snap[i].match
        /\ y.round = g.snap[i].round /\ y.world = g.snap[i].world
        /\ y.settled = g.snap[i].settled
    BY <1>4 DEF Reservation
  <2> QED BY <1>3, <2>3, <2>4 DEF Claims, Valid
<1>7. r \in Record /\ r.ent = s
  BY <1>3, <1>4 DEF Record
<1> HIDE DEF c, y, r
<1>8. LET h == [g EXCEPT !.client[s] = c, !.abort = g.abort \ {s}, !.snap[i] = y,
                         !.rec[i] = r]
      IN Good(h) /\ Carries(g, h)
  BY ZenonT(40), <1>3, <1>5, <1>6, <1>7, ConnectClaim
<1> QED BY <1>8 DEF c, y, r, Claimant, Guest

\* Who connects to the slot of a reservation is the one it is kept for.
Spared(g, h) ==
  \A s, i \in Slots :
    Valid(g, i) /\ g.rec[i].ent = s /\ ~g.client[s].conn /\ h.client[s].conn =>
      g.snap[i].id = h.client[s].id

\* ClientConnect keeps the invariant, takes no slot from another identity and
\* ends no timeout but with its owner.
LEMMA ConnectGood ==
  ASSUME Good(w), NEW id \in Ids, NEW blocked, ClientConnect(id, blocked)
  PROVE  Good(w') /\ Spared(w, w') /\ Resumes(w, w') /\ Carries(w, w')
<1> DEFINE g == ExpireStale(w, id, blocked)
           s == ChooseSlot(g, id)
           i == OwningSnap(g, s, id)
           fresh == [NoClient(g.client[s].gen) EXCEPT !.id = id, !.conn = TRUE, !.spawned = TRUE]
           free == [g EXCEPT !.client[s] = fresh, !.abort = @ \ {s}]
           claimed == [g EXCEPT
                  !.client[s] = [fresh EXCEPT !.spawned = FALSE, !.inuse = TRUE,
                                              !.holder = TRUE, !.ghost = i],
                  !.abort = @ \ {s},
                  !.snap[i] = [@ EXCEPT !.phase = "Claimed", !.elapsed = 0, !.reinstate = 0,
                                        !.target = s, !.gen = g.client[s].gen],
                  !.rec[i].code = FALSE]
<1>1. Good(g) /\ Ends(w, g) /\ SparesOthers(w, g, id)
  <2>1. Sound(g) /\ Ends(w, g) /\ SparesOthers(w, g, id)
    BY ExpireStaleFacts DEF Good
  <2> QED BY <2>1, EndsGood DEF Sound
<1>2. \/ w' = g
      \/ s # 0 /\ MayClaim(g, s, id) /\ i = 0 /\ w' = free
      \/ s # 0 /\ MayClaim(g, s, id) /\ i # 0 /\ w' = claimed
  BY DEF ClientConnect
<1> HIDE DEF g
<1>3. g \in State /\ Settling(g)
  BY <1>1, GoodFields
<1>4. ASSUME s # 0, MayClaim(g, s, id)
      PROVE  s \in Slots /\ Newcomer(g, s, id)
  <2>1. s \in Slots /\ ~g.client[s].conn
    BY <1>3, <1>4, ChooseSlotFacts
  <2>2. id # None
    BY GhostAssumption
  <2> HIDE DEF s
  <2>3. Newcomer(g, s, id)
    BY <1>4, <2>1, <2>2 DEF Newcomer, MayClaim, Owns, Valid
  <2> QED BY <2>1, <2>3
<1>8. ASSUME NEW t \in Slots, \A r \in Slots \ {t} : w'.client[r].conn = g.client[r].conn,
             w'.client[t].id = id,
             \A j \in Slots : Valid(g, j) /\ g.rec[j].ent = t => g.snap[j].id = id
      PROVE  Spared(w, w')
  <2> SUFFICES ASSUME NEW r \in Slots, NEW j \in Slots, Valid(w, j), w.rec[j].ent = r,
                      ~w.client[r].conn, w'.client[r].conn
               PROVE  w.snap[j].id = w'.client[r].id
    BY DEF Spared
  <2>1. r = t
    BY <1>1, <1>8 DEF Ends, Thins
  <2>2. Valid(g, j) => g.rec[j].ent = t /\ g.snap[j].id = w.snap[j].id
    BY <1>1, <2>1 DEF Ends, Thins
  <2> QED BY <1>1, <1>8, <2>1, <2>2 DEF SparesOthers
<1>9. ASSUME Carries(g, w') PROVE Carries(w, w')
  <2>1. Carries(w, g) /\ g.stage = w.stage
    BY <1>1, EndsCarries DEF Ends, Thins
  <2> QED BY <1>1, <1>9, <2>1, CarriesTransitive
<1>5. CASE w' = g
  <2>1. Passed(w, g) /\ Spared(w, g)
    BY <1>1, EndsPassed DEF Ends, Thins, Spared
  <2> QED BY <1>1, <1>5, <2>1, EndsCarries DEF Passed
<1>6. CASE s # 0 /\ MayClaim(g, s, id) /\ i = 0 /\ w' = free
  <2>1. s \in Slots /\ Newcomer(g, s, id)
    BY <1>4, <1>6
  <2>2. \A j \in Slots : Valid(g, j) => g.rec[j].ent # s
    BY <1>6 DEF MayClaim, ReservedSlot, Valid
  <2> HIDE DEF s
  <2>3. g.client[s].gen \in 1..MaxGen
    BY <1>3, <2>1, StateFields, ClientFields
  <2>4. Fresh(fresh, id, g.client[s].gen) /\ fresh.inuse = FALSE /\ fresh.holder = FALSE
    BY <2>1, <2>3, FreshIs DEF Guest
  <2> HIDE DEF fresh
  <2>5. Good(w') /\ Carries(g, w')
    BY <1>1, <1>6, <2>1, <2>2, <2>4, ConnectFresh
  <2>6. /\ w'.client[s] = fresh /\ \A r \in Slots \ {s} : w'.client[r] = g.client[r]
        /\ w'.snap = g.snap /\ w'.rec = g.rec /\ w'.timeout = g.timeout
    BY <1>3, <1>6, <2>1 DEF State
  <2>7. Spared(w, w')
    BY <1>8, <2>1, <2>2, <2>4, <2>6 DEF Fresh
  <2>8. Resumes(w, w')
    BY <1>1, <2>6, EndsThenResumes DEF Waiting, Retained
  <2> QED BY <1>9, <2>5, <2>7, <2>8
<1>7. CASE s # 0 /\ MayClaim(g, s, id) /\ i # 0 /\ w' = claimed
  <2>1. s \in Slots /\ Newcomer(g, s, id)
    BY <1>4, <1>7
  <2> HIDE DEF s
  <2>2. i \in Slots
    BY <1>3, <1>7, <2>1, OwningSnapFacts
  <2>3. Good(w') /\ Carries(g, w')
    BY <1>1, <1>7, <2>1, <2>2, ClaimGood
  <2>4. Valid(g, i) /\ g.rec[i].ent = s /\ g.snap[i].id = id /\ g.snap[i].phase = "Reserved"
    BY <1>3, <1>7, <2>1, OwningSnapFacts
  <2> HIDE DEF i
  <2>5. /\ w'.client[s].id = id /\ \A r \in Slots \ {s} : w'.client[r] = g.client[r]
        /\ \A j \in Slots \ {i} : w'.snap[j] = g.snap[j]
        /\ \A j \in Slots : w'.rec[j].ent = g.rec[j].ent
        /\ w'.timeout = g.timeout
    BY <1>3, <1>7, <2>1, <2>2 DEF State, Record, NoClient
  <2>6. Spared(w, w')
    <3>1. \A j \in Slots : Valid(g, j) /\ g.rec[j].ent = s => g.snap[j].id = id
      BY <1>3, <2>2, <2>4 DEF Settling, Apart
    <3> QED BY <1>8, <2>1, <2>5, <3>1
  <2>7. ASSUME NEW t, Waiting(w', t) PROVE Waiting(g, t)
    BY <2>4, <2>5, <2>7 DEF Waiting, Valid
  <2>8. Resumes(w, w')
    BY <1>1, <2>5, <2>7, EndsThenResumes DEF Retained
  <2> QED BY <1>9, <2>3, <2>6, <2>8
<1> QED BY <1>2, <1>5, <1>6, <1>7

-----------------------------------------------------------------------------
(* ClientBegin, and the delay before a state is given back.                 *)

\* Nothing but slot s changes, and its connection stays.
Turned(g, h, s) ==
  /\ \A t \in Slots \ {s} : /\ h.client[t] = g.client[t] /\ h.fall[t] = g.fall[t]
                            /\ t \in h.abort <=> t \in g.abort
  /\ h.snap = g.snap /\ \A j \in Slots : h.rec[j].ent = g.rec[j].ent
  /\ h.timeout = g.timeout
  /\ h.stage = g.stage /\ h.match = g.match /\ h.round = g.round /\ h.world = g.world
  /\ h.client[s].conn = g.client[s].conn /\ h.client[s].id = g.client[s].id

\* Only the slot and its reservation have to be looked at.
LEMMA SlotGood ==
  ASSUME NEW g, Good(g), NEW s \in Slots, NEW h \in State, Turned(g, h, s),
         ClientOK(h, s), FallOK(h, s),
         \A i \in Slots : Valid(g, i) /\ g.rec[i].ent = s =>
           SnapOK(h, i) /\ (g.stage = "playing" => h.client[s].ghost = i)
  PROVE  Good(h)
<1>1. g \in State /\ Settling(g) /\ Owned(g) /\ Live(g) /\ Absent(g) /\ Apart(g)
  BY GoodFields DEF Settling
<1>2. PICK i : /\ i \in Slots => Valid(g, i) /\ g.rec[i].ent = s
               /\ \A j \in Slots \ {i} : Valid(g, j) => g.rec[j].ent # s
  <2>1. CASE \E i \in Slots : Valid(g, i) /\ g.rec[i].ent = s
    <3>1. PICK i \in Slots : Valid(g, i) /\ g.rec[i].ent = s
      BY <2>1
    <3>2. \A j \in Slots \ {i} : Valid(g, j) => g.rec[j].ent # s
      BY <1>1, <3>1 DEF Apart
    <3> QED BY <3>1, <3>2
  <2>2. CASE ~\E i \in Slots : Valid(g, i) /\ g.rec[i].ent = s
    <3>1. 0 \notin Slots
      BY DEF Slots
    <3> QED BY <2>2, <3>1
  <2> QED BY <2>1, <2>2
<1>3. \A j \in Slots : Valid(h, j) <=> Valid(g, j)
  BY DEF Turned, Valid
<1>4. Like(g, h, s, i)
  BY <1>2, <1>3 DEF Like, Turned, SameClient, SameSnap
<1>5. Apart(h)
  <2>1. \A t \in Slots : /\ h.client[t].conn = g.client[t].conn
                         /\ h.client[t].id = g.client[t].id
    BY DEF Turned
  <2>2. h.snap = g.snap /\ \A j \in Slots : h.rec[j].ent = g.rec[j].ent
    BY DEF Turned
  <2> QED BY <1>1, <1>3, <2>1, <2>2 DEF Apart
<1>6. Settling(h)
  <2>1. i \in Slots => SnapOK(h, i) /\ h.rec[i].ent = s
    BY <1>2 DEF Turned
  <2> QED BY <1>1, <1>4, <1>5, <2>1, LikeLocal
<1>7. Fits(h, s, i)
  <2>1. i \in Slots /\ g.stage = "playing" => h.client[s].ghost = i
    BY <1>2
  <2>2. s # 0
    BY DEF Slots
  <2> QED BY <1>1, <1>2, <2>1, <2>2 DEF Fits, Turned, Live, Absent, Valid
<1>8. Times(g, h, s)
  <2>1. Waiting(h, s) <=> Waiting(g, s)
    BY DEF Waiting, Turned
  <2>2. h.timeout = g.timeout
    BY DEF Turned
  <2> QED BY <1>1, <2>1, <2>2 DEF Times, Owned
<1> QED BY <1>4, <1>6, <1>7, <1>8, GoodLocal

\* NormalizeClientBeginFallbackForCurrentMatch keeps the invariant.
LEMMA NormalizeGood ==
  ASSUME NEW g, Good(g), NEW s \in Slots
  PROVE  LET h == Normalize(g, s) IN
         /\ Good(h) /\ h.client = g.client /\ h.fall[s].valid = g.fall[s].valid
         /\ Stays(g, h)
<1> DEFINE x == [g.fall[s] EXCEPT !.match = g.match, !.fresh = Open(g)]
           h == [g EXCEPT !.fall = [g.fall EXCEPT ![s] = x]]
<1>1. g \in State /\ Settling(g) /\ FallOK(g, s) /\ ClientOK(g, s)
      /\ \A i \in Slots : SnapOK(g, i)
  BY GoodFields DEF Settling
<1>2. CASE ~FallbackPending(g, s) \/ g.fall[s].match = g.match
  BY <1>2 DEF Normalize, Stays, NoneEnters
<1>3. CASE ~(~FallbackPending(g, s) \/ g.fall[s].match = g.match)
  <2>1. Normalize(g, s) = h /\ g.fall[s].valid
    BY <1>3 DEF Normalize, FallbackPending
  <2>2. g.fall \in [Slots -> Fallback] /\ g.fall[s] \in Handoff /\ g.match \in 0..MaxMatch
    BY <1>1, <2>1, StateFields, FallFields
  <2>3. x \in Handoff /\ x.valid = g.fall[s].valid /\ x.id = g.fall[s].id /\ x.gen = g.fall[s].gen
    <3>1. Open(g) \in BOOLEAN
      BY DEF Open
    <3> HIDE DEF Open
    <3> QED BY <2>2, <3>1 DEF Handoff
  <2> HIDE DEF x
  <2>4. h \in State
    BY <1>1, <2>2, <2>3 DEF State, Fallback
  <2>5. /\ h.client = g.client /\ h.snap = g.snap /\ h.rec = g.rec /\ h.abort = g.abort
        /\ h.timeout = g.timeout /\ h.stage = g.stage /\ h.match = g.match
        /\ h.round = g.round /\ h.world = g.world /\ h.part = g.part
        /\ h.fall[s] = x /\ \A t \in Slots \ {s} : h.fall[t] = g.fall[t]
    BY <1>1, <2>2 DEF State
  <2> HIDE DEF h
  <2>6. Turned(g, h, s)
    BY <2>5 DEF Turned
  <2>7. ClientOK(h, s) /\ FallOK(h, s) /\ \A i \in Slots : SnapOK(h, i)
    <3>1. ClientOK(h, s)
      BY <1>1, <2>5 DEF ClientOK, Valid
    <3>2. FallOK(h, s)
      BY <1>1, <2>3, <2>5 DEF FallOK, Valid
    <3>3. \A i \in Slots : SnapOK(h, i)
      BY <1>1, <2>5 DEF SnapOK, Valid
    <3> QED BY <3>1, <3>2, <3>3
  <2>8. \A i \in Slots : Valid(g, i) /\ g.rec[i].ent = s /\ g.stage = "playing" =>
          h.client[s].ghost = i
    BY <2>5, GoodFields DEF Live
  <2>9. Good(h)
    BY <2>4, <2>6, <2>7, <2>8, SlotGood
  <2>10. Stays(g, h)
    BY <2>5 DEF Stays, NoneEnters, Valid
  <2> QED BY <2>1, <2>3, <2>5, <2>9, <2>10
<1> QED BY <1>2, <1>3

\* Slot s has begun.
Begun(g, s) == [g EXCEPT !.client[s].begun = TRUE, !.client[s].limbo = FALSE]

\* A client who begins has no reservation that waits for him to leave.
LEMMA BegunGood ==
  ASSUME NEW g, Good(g), NEW s \in Slots, g.client[s].conn, ~g.client[s].begun
  PROVE  LET h == Begun(g, s) IN
         /\ Good(h) /\ h.client[s].conn /\ h.client[s].begun /\ s \notin h.abort
         /\ h.fall = g.fall /\ h.snap = g.snap /\ h.rec = g.rec /\ Stays(g, h)
         /\ \A j \in Slots : Valid(h, j) /\ h.rec[j].ent = s => h.snap[j].phase # "Reserved"
<1> DEFINE c == [[g.client[s] EXCEPT !.begun = TRUE] EXCEPT !.limbo = FALSE]
           h == [g EXCEPT !.client = [g.client EXCEPT ![s] = c]]
<1>1. g \in State /\ Settling(g) /\ FallOK(g, s) /\ ClientOK(g, s)
      /\ (\A i \in Slots : SnapOK(g, i)) /\ Live(g)
  BY GoodFields DEF Settling
<1>2. g.client \in [Slots -> Client] /\ g.client[s] \in Client
  BY <1>1, StateFields
<1>3. /\ c \in Client /\ c.begun = TRUE /\ c.limbo = FALSE /\ c.conn = g.client[s].conn
      /\ c.id = g.client[s].id /\ c.gen = g.client[s].gen /\ c.ghost = g.client[s].ghost
      /\ c.spawned = g.client[s].spawned /\ c.inuse = g.client[s].inuse
      /\ c.holder = g.client[s].holder /\ c.play = g.client[s].play
  BY <1>2 DEF Client
<1>4. Begun(g, s) = h
  BY <1>1, <1>2 DEF Begun, State
<1> HIDE DEF c
<1>5. h \in State
  BY <1>1, <1>2, <1>3 DEF State
<1>6. /\ h.fall = g.fall /\ h.snap = g.snap /\ h.rec = g.rec /\ h.abort = g.abort
      /\ h.timeout = g.timeout /\ h.stage = g.stage /\ h.match = g.match
      /\ h.round = g.round /\ h.world = g.world /\ h.part = g.part
      /\ h.client[s] = c /\ \A t \in Slots \ {s} : h.client[t] = g.client[t]
  BY <1>1, <1>2 DEF State
<1> HIDE DEF h
<1>7. Turned(g, h, s)
  BY <1>3, <1>6 DEF Turned
<1>8. s \notin g.abort
  BY <1>1 DEF ClientOK
<1>9. ClientOK(h, s) /\ FallOK(h, s)
  BY <1>1, <1>3, <1>6, <1>8 DEF ClientOK, FallOK, Valid
<1>10. ASSUME NEW i \in Slots, Valid(g, i), g.rec[i].ent = s
       PROVE  /\ SnapOK(h, i) /\ (g.stage = "playing" => h.client[s].ghost = i)
              /\ g.snap[i].phase # "Reserved"
  <2>1. SnapOK(g, i)
    BY <1>1
  <2>4. g.snap[i].phase # "Reserved"
    BY <1>10, <2>1 DEF SnapOK
  <2>2. SnapOK(h, i)
    <3>1. /\ h.snap[i] = g.snap[i] /\ h.rec[i].ent = s /\ h.client[s] = c /\ c.conn = TRUE
          /\ c.begun = TRUE /\ h.abort = g.abort /\ g.client[s].conn = TRUE
      BY <1>1, <1>3, <1>6, <1>10, <2>1 DEF ClientOK, Client
    <3>2. /\ s # 0 /\ c.ghost \in {0, i} /\ c.id = g.snap[i].id /\ g.snap[i].phase # "Expiring"
          /\ g.snap[i].phase \in Pending => g.snap[i].target = s /\ g.snap[i].gen = c.gen
                                           /\ s \notin g.abort
          /\ g.snap[i].phase \in {"Claimed", "Reinstating"} => c.inuse
      BY <1>3, <1>10, <2>1 DEF SnapOK
    <3> QED BY <2>4, <3>1, <3>2 DEF SnapOK
  <2>3. g.stage = "playing" => h.client[s].ghost = i
    BY <1>1, <1>3, <1>6, <1>10 DEF Live
  <2> QED BY <2>2, <2>3, <2>4
<1>11. Good(h)
  BY <1>5, <1>7, <1>9, <1>10, SlotGood
<1>12. Stays(g, h)
  BY <1>3, <1>6 DEF Stays, NoneEnters, Valid
<1> QED BY ZenonT(40), <1>3, <1>4, <1>6, <1>8, <1>10, <1>11, <1>12 DEF Valid

\* What ClientBeginDeathmatch makes of a client.
LEMMA EnterLevelIs ==
  ASSUME NEW g \in State, NEW s \in Slots, NEW blocked
  PROVE  LET h == EnterLevel(g, s, blocked) IN
         /\ h \in State /\ \A t \in Slots \ {s} : h.client[t] = g.client[t]
         /\ h.fall = g.fall /\ h.snap = g.snap /\ h.rec = g.rec /\ h.abort = g.abort
         /\ h.timeout = g.timeout /\ h.stage = g.stage /\ h.match = g.match
         /\ h.round = g.round /\ h.world = g.world /\ Stays(g, h)
         /\ h.client[s].id = g.client[s].id /\ h.client[s].gen = g.client[s].gen
         /\ h.client[s].conn = g.client[s].conn /\ h.client[s].begun = g.client[s].begun
         /\ h.client[s].inuse = TRUE /\ h.client[s].ghost = 0 /\ h.client[s].holder = FALSE
         /\ h.client[s].spawned = (s \notin blocked) /\ h.client[s].limbo = (s \in blocked)
<1> DEFINE c == [g.client[s] EXCEPT !.inuse = TRUE, !.holder = FALSE, !.ghost = 0,
                                    !.spawned = s \notin blocked, !.limbo = s \in blocked]
           h == [g EXCEPT !.client = [g.client EXCEPT ![s] = c]]
<1>1. g.client \in [Slots -> Client] /\ g.client[s] \in Client
  BY StateFields
<1>2. /\ c \in Client /\ c.begun = g.client[s].begun /\ c.conn = g.client[s].conn
      /\ c.id = g.client[s].id /\ c.gen = g.client[s].gen /\ c.inuse = TRUE /\ c.ghost = 0
      /\ c.play = g.client[s].play
      /\ c.holder = FALSE /\ c.spawned = (s \notin blocked) /\ c.limbo = (s \in blocked)
  <2>1. (s \notin blocked) \in BOOLEAN /\ (s \in blocked) \in BOOLEAN
    OBVIOUS
  <2> QED BY <1>1, <2>1 DEF Client
<1>3. EnterLevel(g, s, blocked) = h
  BY DEF EnterLevel
<1> HIDE DEF c
<1>4. h \in State
  BY <1>1, <1>2 DEF State
<1>5. /\ h.fall = g.fall /\ h.snap = g.snap /\ h.rec = g.rec /\ h.abort = g.abort
      /\ h.timeout = g.timeout /\ h.stage = g.stage /\ h.match = g.match
      /\ h.round = g.round /\ h.world = g.world /\ h.part = g.part
      /\ h.client[s] = c /\ \A t \in Slots \ {s} : h.client[t] = g.client[t]
  BY <1>1 DEF State
<1> HIDE DEF h
<1>6. Stays(g, h)
  BY <1>2, <1>5 DEF Stays, NoneEnters, Valid
<1> QED BY <1>2, <1>3, <1>4, <1>5, <1>6

\* A client who enters the level loses a claim, unless the match is on.
LEMMA EnterGood ==
  ASSUME NEW g, Good(g), NEW s \in Slots, g.client[s].begun, ~g.fall[s].valid, s \notin g.abort,
         \A j \in Slots : Valid(g, j) /\ g.rec[j].ent = s =>
           g.snap[j].phase # "Reserved" /\ g.stage # "playing",
         NEW blocked
  PROVE  Good(EnterLevel(g, s, blocked)) /\ Carries(g, EnterLevel(g, s, blocked))
<1> DEFINE h == EnterLevel(g, s, blocked)
<1>1. g \in State /\ Settling(g) /\ (\A i \in Slots : SnapOK(g, i)) /\ ClientOK(g, s)
  BY GoodFields DEF Settling
<1>2. /\ h \in State /\ \A t \in Slots \ {s} : h.client[t] = g.client[t]
      /\ h.fall = g.fall /\ h.snap = g.snap /\ h.rec = g.rec /\ h.abort = g.abort
      /\ h.timeout = g.timeout /\ h.stage = g.stage /\ h.match = g.match
      /\ h.round = g.round /\ h.world = g.world /\ Stays(g, h)
      /\ h.client[s].id = g.client[s].id /\ h.client[s].gen = g.client[s].gen
      /\ h.client[s].conn = g.client[s].conn /\ h.client[s].begun = g.client[s].begun
      /\ h.client[s].inuse = TRUE /\ h.client[s].ghost = 0 /\ h.client[s].holder = FALSE
      /\ h.client[s].spawned = (s \notin blocked) /\ h.client[s].limbo = (s \in blocked)
  BY <1>1, EnterLevelIs
<1> HIDE DEF h
<1>3. Entered(g, h, s, blocked)
  BY <1>2 DEF Entered
<1>4. Settling(h)
  BY <1>1, <1>2, <1>3, EnterFacts
<1>5. Turned(g, h, s)
  BY <1>2 DEF Turned
<1>6. Good(h)
  BY <1>4, <1>5, SlotGood DEF Settling
<1> QED BY <1>2, <1>6, StaysCarries DEF h

\* CompleteClientBeginFallback uses the handoff up.
LEMMA CompleteGood ==
  ASSUME NEW g, Good(g), NEW s \in Slots, g.client[s].begun, g.fall[s].valid,
         \A j \in Slots : Valid(g, j) /\ g.rec[j].ent = s => g.snap[j].phase # "Reserved",
         NEW blocked
  PROVE  LET h == CompleteFallback(EnterLevel(g, s, blocked), s)
         IN Good(h) /\ Carries(g, h)
<1> DEFINE k == EnterLevel(g, s, blocked)
           A == IF k.client[s].spawned THEN k.abort ELSE k.abort \cup {s}
           h == [k EXCEPT !.fall = [k.fall EXCEPT ![s] = NoFallback], !.abort = A]
<1>1. g \in State /\ Settling(g) /\ (\A i \in Slots : SnapOK(g, i)) /\ ClientOK(g, s)
      /\ FallOK(g, s)
  BY GoodFields DEF Settling
<1>2. /\ k \in State /\ \A t \in Slots \ {s} : k.client[t] = g.client[t]
      /\ k.fall = g.fall /\ k.snap = g.snap /\ k.rec = g.rec /\ k.abort = g.abort
      /\ k.timeout = g.timeout /\ k.stage = g.stage /\ k.match = g.match
      /\ k.round = g.round /\ k.world = g.world /\ Stays(g, k)
      /\ k.client[s].id = g.client[s].id /\ k.client[s].gen = g.client[s].gen
      /\ k.client[s].conn = g.client[s].conn /\ k.client[s].begun = g.client[s].begun
      /\ k.client[s].inuse = TRUE /\ k.client[s].ghost = 0 /\ k.client[s].holder = FALSE
      /\ k.client[s].spawned = (s \notin blocked) /\ k.client[s].limbo = (s \in blocked)
  BY <1>1, EnterLevelIs
<1>3. \/ CompleteFallback(k, s) = h
      \/ k.client[s].play /\ CompleteFallback(k, s) = Enter(h, k.client[s].id)
  BY DEF CompleteFallback
<1>4. \A j \in Slots : Valid(g, j) => g.rec[j].ent # s
  <2>1. SUFFICES ASSUME NEW j \in Slots, Valid(g, j), g.rec[j].ent = s PROVE FALSE
    OBVIOUS
  <2>2. g.snap[j].phase \in Phases
    BY <1>1, <2>1, Places, ReservationFields
  <2>3. g.snap[j].phase \notin Pending /\ g.snap[j].phase # "Expiring"
    BY <1>1, <2>1 DEF FallOK, SnapOK
  <2> QED BY <2>1, <2>2, <2>3 DEF Phases, Pending
<1> HIDE DEF k
<1>5. k.abort \subseteq Slots /\ k.fall \in [Slots -> Fallback]
  BY <1>2, StateFields
<1>6. A \subseteq Slots /\ (s \in A <=> s \in blocked)
      /\ \A t \in Slots \ {s} : t \in A <=> t \in g.abort
  <2>1. s \notin g.abort
    BY <1>1 DEF FallOK
  <2> QED BY <1>2, <1>5, <2>1
<1> HIDE DEF A
<1>7. h \in State
  BY <1>2, <1>5, <1>6 DEF State, Fallback
<1>8. /\ h.client = k.client /\ h.snap = k.snap /\ h.rec = k.rec /\ h.abort = A
      /\ h.timeout = k.timeout /\ h.stage = k.stage /\ h.match = k.match
      /\ h.round = k.round /\ h.world = k.world /\ h.part = k.part
      /\ h.fall[s] = NoFallback /\ \A t \in Slots \ {s} : h.fall[t] = k.fall[t]
  BY <1>2, <1>5 DEF State
<1> HIDE DEF h
<1>9. Turned(g, h, s)
  BY <1>2, <1>6, <1>8 DEF Turned
<1>10. ClientOK(h, s)
  BY ZenonT(40), <1>1, <1>2, <1>6, <1>8 DEF ClientOK
<1>11. FallOK(h, s)
  BY <1>8 DEF FallOK, NoFallback
<1>12. Good(h)
  BY <1>4, <1>7, <1>9, <1>10, <1>11, SlotGood
<1>14. k.client[s].play => Plays(h, k.client[s].id)
  BY <1>1, <1>2, <1>8 DEF ClientOK, Plays
<1>15. Stays(g, h)
  BY <1>2, <1>8 DEF Stays, NoneEnters, Valid
<1>16. Carries(g, h) /\ h.stage = g.stage
  BY <1>15, StaysCarries DEF Stays
<1>13. Good(CompleteFallback(k, s)) /\ Carries(g, CompleteFallback(k, s))
  BY <1>3, <1>7, <1>12, <1>14, <1>16, EnterAlike, AlikeGood, AlikeCarries, CarriesTransitive
<1> QED BY <1>13 DEF k

\* The snapshot an identity may come back to is his.
LEMMA FindFacts ==
  ASSUME NEW g, NEW id, Find(g, id) # 0
  PROVE  Find(g, id) \in Slots /\ Current(g, Find(g, id)) /\ Owns(g, Find(g, id), id)
<1> DEFINE found == {i \in Slots : Current(g, i) /\ Owns(g, i, id)}
<1>1. Cardinality(found) = 1 /\ Find(g, id) = CHOOSE i \in found : TRUE
  BY DEF Find
<1>2. found # {}
  BY <1>1, FS_EmptySet
<1>3. Find(g, id) \in found
  BY <1>1, <1>2
<1> QED BY <1>3

\* And it is found, as an identity has one at most.
LEMMA FindIs ==
  ASSUME NEW g, Settling(g), NEW i \in Slots, Current(g, i), NEW id, Owns(g, i, id)
  PROVE  Find(g, id) = i
<1> DEFINE found == {j \in Slots : Current(g, j) /\ Owns(g, j, id)}
<1>1. found = {i}
  <2>1. \A j \in found : j = i
    BY DEF Settling, Apart, Owns, Valid
  <2> QED BY <2>1
<1>2. Cardinality(found) = 1
  BY <1>1, FS_Singleton
<1>3. Find(g, id) = CHOOSE j \in found : TRUE
  BY <1>2 DEF Find
<1> QED BY <1>1, <1>3

\* The reservation y of slot s will be given back to the connection gen.
Reinstates(x, y, s, gen) ==
  /\ y \in Reservation /\ y.valid /\ y.id = x.id /\ y.phase = "Reinstating" /\ y.target = s
  /\ y.gen = gen /\ y.match = x.match /\ y.round = x.round /\ y.world = x.world
  /\ y.settled = x.settled

\* The client d of slot s is c outside the level.
Waits(c, d) ==
  /\ d \in Client /\ d.spawned = FALSE /\ d.limbo = FALSE /\ d.play = c.play
  /\ d.id = c.id /\ d.gen = c.gen /\ d.ghost = c.ghost /\ d.conn = c.conn
  /\ d.begun = c.begun /\ d.inuse = c.inuse /\ d.holder = c.holder

\* Slot s, its reservation i and the timeout are replaced.
Put(g, s, i, y, r, t, c) == [g EXCEPT !.snap[i] = y, !.rec[i] = r, !.timeout = t, !.client[s] = c]

\* A client in the level begins to wait for his reservation i.
LEMMA ReinstateGood ==
  ASSUME NEW g, Good(g), NEW s \in Slots, g.client[s].begun, g.client[s].inuse,
         ~g.fall[s].valid, s \notin g.abort,
         NEW i \in Slots, Valid(g, i), g.rec[i].ent = s, g.snap[i].phase # "AwaitingBegin",
         NEW y, Reinstates(g.snap[i], y, s, g.client[s].gen), NEW r \in Record, r.ent = s,
         NEW c, Waits(g.client[s], c), NEW t \in Timeout,
         t.ent = g.timeout.ent, t.auto = g.timeout.auto, t.resuming = g.timeout.resuming,
         t = g.timeout \/ (t.ent = s /\ t.left > 0)
  PROVE  Good(Put(g, s, i, y, r, t, c)) /\ Carries(g, Put(g, s, i, y, r, t, c))
<1> DEFINE h == [g EXCEPT !.client = [g.client EXCEPT ![s] = c],
                          !.snap = [g.snap EXCEPT ![i] = y], !.rec = [g.rec EXCEPT ![i] = r],
                          !.timeout = t]
<1>1. g \in State /\ Settling(g) /\ g.client \in [Slots -> Client] /\ Owned(g) /\ Live(g)
      /\ g.snap \in [Slots -> Snap] /\ g.rec \in [Slots -> Record] /\ g.abort \subseteq Slots
      /\ SnapOK(g, i) /\ ClientOK(g, s)
  BY GoodFields, StateFields DEF Settling
<1>2. y \in Snap /\ c \in Client
  BY DEF Reinstates, Snap, Waits
<1>3. h \in State
  BY <1>1, <1>2 DEF State
<1>4. /\ h.fall = g.fall /\ h.abort = g.abort
      /\ h.timeout = t /\ h.stage = g.stage /\ h.match = g.match
      /\ h.round = g.round /\ h.world = g.world /\ h.part = g.part
      /\ h.client[s] = c /\ \A u \in Slots \ {s} : h.client[u] = g.client[u]
      /\ h.snap[i] = y /\ \A j \in Slots \ {i} : h.snap[j] = g.snap[j]
      /\ h.rec[i] = r /\ \A j \in Slots \ {i} : h.rec[j] = g.rec[j]
  BY <1>1 DEF State
<1>12. h = Put(g, s, i, y, r, t, c)
  BY <1>1 DEF State, Put
<1> HIDE DEF h
<1>5. \A j \in Slots \ {i} : Valid(g, j) => g.rec[j].ent # s
  BY <1>1, Places
<1>6. Like(g, h, s, i)
  BY <1>4, <1>5 DEF Like, SameClient, SameSnap
<1>0. s # 0 /\ g.client[s].conn
  BY <1>1 DEF Slots, ClientOK
<1>7. ClientOK(h, s) /\ FallOK(h, s) /\ SnapOK(h, i)
  <2>2. ClientOK(h, s) /\ FallOK(h, s)
    BY <1>0, <1>1, <1>4 DEF ClientOK, FallOK, Waits
  <2>3. SnapOK(h, i)
    <3>1. h.rec[i].ent = s /\ h.client[s] = c /\ h.snap[i] = y /\ h.abort = g.abort
      BY <1>4
    <3>2. g.client[s].ghost \in {0, i} /\ g.client[s].id = g.snap[i].id
      BY <1>0, <1>1 DEF SnapOK
    <3>3. /\ c.ghost \in {0, i} /\ c.id = y.id /\ c.conn /\ c.begun /\ c.inuse
          /\ y.phase = "Reinstating" /\ y.target = s /\ y.gen = c.gen
      BY <1>0, <3>2 DEF Waits, Reinstates
    <3> QED BY <1>0, <3>1, <3>3 DEF SnapOK
  <2> QED BY <2>2, <2>3
<1>8. Apart(h)
  <2>1. Apart(g)
    BY <1>1 DEF Settling
  <2>2. \A j \in Slots : /\ Valid(h, j) <=> Valid(g, j)
                         /\ Valid(g, j) => h.snap[j].id = g.snap[j].id /\ h.rec[j].ent = g.rec[j].ent
    BY <1>4 DEF Reinstates, Valid
  <2>3. \A u \in Slots : /\ h.client[u].conn = g.client[u].conn
                         /\ h.client[u].id = g.client[u].id
    BY <1>4 DEF Waits
  <2> QED BY <2>1, <2>2, <2>3 DEF Apart
<1>9. Settling(h)
  <2>1. \A u \in Slots \ {s} : h.rec[i].ent # u
    BY <1>4
  <2> QED BY <1>1, <1>3, <1>6, <1>7, <1>8, <2>1, LikeLocal
<1>10. Times(g, h, s)
  <2>1. Waiting(h, s)
    BY <1>4 DEF Waiting, Reinstates
  <2> QED BY <1>1, <1>4, <2>1 DEF Times, Owned
<1>11. Fits(h, s, i)
  BY <1>1, <1>4 DEF Fits, Live, Reinstates, Waits, Valid
<1>13. Good(h)
  BY <1>6, <1>9, <1>10, <1>11, GoodLocal
<1>14. \A j \in Slots :
         /\ (Valid(h, j) <=> Valid(g, j)) /\ h.rec[j].ent = g.rec[j].ent
         /\ h.snap[j].id = g.snap[j].id
         /\ h.snap[j].settled = g.snap[j].settled
  BY <1>4 DEF Reinstates, Valid
<1>15. Stays(g, h)
  BY <1>4, <1>14 DEF Stays, NoneEnters, Waits
<1> QED BY <1>12, <1>13, <1>15, StaysCarries

\* BeginRestoreDelay keeps the invariant.
LEMMA BeginRestoreGood ==
  ASSUME NEW g, Good(g), NEW s \in Slots, g.client[s].begun, ~g.fall[s].valid, s \notin g.abort,
         MayRestore(g, s),
         g.snap[Find(g, g.client[s].id)].phase = "Claimed" \/ g.client[s].inuse
  PROVE  Good(BeginRestore(g, s)) /\ Carries(g, BeginRestore(g, s))
<1> DEFINE i == Find(g, g.client[s].id)
           extend == g.timeout.auto /\ Retained(g) /\ g.timeout.ent = s /\ g.timeout.left < Delay
           y == [g.snap[i] EXCEPT !.phase = "Reinstating", !.elapsed = 0, !.reinstate = Delay,
                                  !.target = s, !.gen = g.client[s].gen]
           r == [g.rec[i] EXCEPT !.code = FALSE]
           t == [g.timeout EXCEPT !.left = IF extend THEN Delay ELSE g.timeout.left]
           c == [g.client[s] EXCEPT !.spawned = FALSE, !.limbo = FALSE]
<1>1. g \in State /\ Settling(g) /\ g.client \in [Slots -> Client] /\ g.snap \in [Slots -> Snap]
      /\ g.rec \in [Slots -> Record] /\ g.timeout \in Timeout
  BY GoodFields, StateFields
<1>2. i \in Slots /\ Current(g, i) /\ Owns(g, i, g.client[s].id) /\ g.rec[i].ent = s
  BY FindFacts DEF MayRestore
<1>3. CASE g.snap[i].phase = "Reinstating"
  <2>1. BeginRestore(g, s) = g
    BY <1>3 DEF BeginRestore
  <2> QED BY <1>1, <2>1, EndsReflexive, EndsCarries
<1>4. CASE g.snap[i].phase # "Reinstating"
  <2>1. BeginRestore(g, s) = Put(g, s, i, y, r, t, c)
    BY <1>1, <1>4 DEF BeginRestore, State, Put
  <2> HIDE DEF i
  <2>2. Valid(g, i) /\ g.snap[i].phase # "AwaitingBegin"
    BY <1>2 DEF Current, Owns, Valid
  <2>3. g.snap[i] \in Reservation /\ g.rec[i] \in Record /\ g.client[s] \in Client
        /\ g.client[s].gen \in 1..MaxGen /\ SnapOK(g, i)
    BY <1>1, <1>2, <2>2, Places, ClientFields
  <2>4. g.client[s].inuse
    BY <1>2, <2>2, <2>3 DEF SnapOK, i
  <2>5. Reinstates(g.snap[i], y, s, g.client[s].gen)
    <3>1. 0 \in Nat /\ g.client[s].gen \in 0..MaxGen /\ Delay \in 0..Delay
      BY <2>3, GhostAssumption
    <3>2. "Reinstating" \in Phases
      BY DEF Phases
    <3>3. y \in Reservation
      BY <2>3, <3>1, <3>2 DEF Reservation
    <3>4. /\ y.valid = g.snap[i].valid /\ y.id = g.snap[i].id /\ y.phase = "Reinstating"
          /\ y.target = s /\ y.gen = g.client[s].gen /\ y.match = g.snap[i].match
          /\ y.round = g.snap[i].round /\ y.world = g.snap[i].world
          /\ y.settled = g.snap[i].settled
      BY <2>3 DEF Reservation
    <3> QED BY <2>2, <3>3, <3>4 DEF Reinstates, Valid
  <2>6. r \in Record /\ r.ent = s
    BY <1>2, <2>3 DEF Record
  <2>7. Waits(g.client[s], c)
    BY <2>3 DEF Waits, Client
  <2>8. /\ t \in Timeout /\ t.ent = g.timeout.ent /\ t.auto = g.timeout.auto
        /\ t.resuming = g.timeout.resuming
        /\ t = g.timeout \/ (t.ent = s /\ t.left > 0)
    <3>1. Delay \in Nat /\ Delay > 0
      BY GhostAssumption
    <3>2. g.timeout.ent = s \/ t = g.timeout
      BY <1>1 DEF Timeout
    <3>3. t.left = IF extend THEN Delay ELSE g.timeout.left
      BY <1>1 DEF Timeout
    <3>4. t = g.timeout \/ extend
      BY <1>1 DEF Timeout
    <3>5. t \in Timeout /\ t.ent = g.timeout.ent /\ t.auto = g.timeout.auto
          /\ t.resuming = g.timeout.resuming
      BY <1>1, <3>1 DEF Timeout
    <3> HIDE DEF t
    <3> QED BY <3>1, <3>3, <3>4, <3>5
  <2> HIDE DEF y, r, t, c
  <2> QED BY <1>2, <2>1, <2>2, <2>4, <2>5, <2>6, <2>7, <2>8, ReinstateGood
<1> QED BY <1>3, <1>4

\* A client may have his state back while the match is on.
LEMMA ClaimantMayRestore ==
  ASSUME NEW g, Good(g), g.stage = "playing", NEW s \in Slots, g.client[s].conn,
         NEW i \in Slots, Valid(g, i), g.rec[i].ent = s, g.snap[i].phase = "Claimed"
  PROVE  MayRestore(g, s)
<1>1. Settling(g) /\ Live(g) /\ SnapOK(g, i) /\ ClientOK(g, s)
  BY GoodFields DEF Settling
<1>2. Current(g, i)
  BY <1>1 DEF Live, Current, BelongsToWorld, BelongsToMatch, Valid
<1>3. Owns(g, i, g.client[s].id)
  BY <1>1 DEF SnapOK, ClientOK, Owns, Valid
<1>4. Find(g, g.client[s].id) = i
  BY <1>1, <1>2, <1>3, FindIs
<1>5. i # 0
  BY DEF Slots
<1> QED BY <1>4, <1>5 DEF MayRestore

\* The same clients are connected, and a timeout goes on.
Continues(g, h) ==
  /\ \A t \in Slots : h.client[t].conn = g.client[t].conn
  /\ Retained(g) => Retained(h)

\* What does that ends no timeout.
LEMMA ContinuesPassed ==
  ASSUME NEW g, NEW h, Continues(g, h)
  PROVE  Passed(g, h)
BY DEF Continues, Passed, NobodyNew, Resumes

\* Normalising, beginning, entering and completing a handoff do.
LEMMA BeginContinues ==
  ASSUME NEW g \in State, NEW s \in Slots, NEW blocked
  PROVE  /\ Continues(g, Normalize(g, s)) /\ Continues(g, Begun(g, s))
         /\ Continues(g, EnterLevel(g, s, blocked)) /\ Continues(g, CompleteFallback(g, s))
<1>1. Continues(g, Normalize(g, s))
  BY DEF Continues, Normalize, State, Retained
<1>2. Continues(g, Begun(g, s))
  BY StateFields DEF Continues, Begun, State, Retained, Client
<1>3. Continues(g, EnterLevel(g, s, blocked))
  <2> DEFINE h == EnterLevel(g, s, blocked)
  <2>1. /\ \A t \in Slots \ {s} : h.client[t] = g.client[t]
        /\ h.client[s].conn = g.client[s].conn /\ h.timeout = g.timeout
    BY StateFields DEF EnterLevel, State, Client
  <2> HIDE DEF h
  <2>2. Continues(g, h)
    BY <2>1 DEF Continues, Retained
  <2> QED BY <2>2 DEF h
<1>4. Continues(g, CompleteFallback(g, s))
  BY DEF Continues, CompleteFallback, Enter, State, Retained
<1> QED BY <1>1, <1>2, <1>3, <1>4

\* So does BeginRestoreDelay, which may give the timeout more time.
LEMMA BeginRestoreContinues ==
  ASSUME NEW g \in State, NEW s \in Slots
  PROVE  Continues(g, BeginRestore(g, s))
<1> DEFINE i == Find(g, g.client[s].id)
           extend == g.timeout.auto /\ Retained(g) /\ g.timeout.ent = s /\ g.timeout.left < Delay
           t == [g.timeout EXCEPT !.left = IF extend THEN Delay ELSE g.timeout.left]
           c == [g.client[s] EXCEPT !.spawned = FALSE, !.limbo = FALSE]
           h == BeginRestore(g, s)
<1>1. g.timeout \in Timeout /\ g.client \in [Slots -> Client]
  BY StateFields
<1>2. CASE g.snap[i].phase = "Reinstating"
  BY <1>2 DEF BeginRestore, Continues
<1>3. CASE g.snap[i].phase # "Reinstating"
  <2>1. h.timeout = t /\ h.client = [g.client EXCEPT ![s] = c]
    BY <1>3 DEF BeginRestore, State
  <2>2. Retained(g) => t.left > 0 /\ ~t.resuming
    BY <1>1, GhostAssumption DEF Timeout, Retained
  <2>3. c.conn = g.client[s].conn
    BY <1>1 DEF Client
  <2> HIDE DEF h, t, c
  <2>4. \A r \in Slots : h.client[r].conn = g.client[r].conn
    BY <1>1, <2>1, <2>3
  <2>5. Retained(g) => Retained(h)
    BY <2>1, <2>2 DEF Retained
  <2> QED BY <2>4, <2>5 DEF Continues, h
<1> QED BY <1>2, <1>3

\* ClientBegin keeps the invariant, and ends no timeout.
LEMMA BeginGood ==
  ASSUME Good(w), NEW s \in Slots, NEW blocked, ClientBegin(s, blocked)
  PROVE  Good(w') /\ Passed(w, w') /\ Carries(w, w')
<1> DEFINE i == IndexFor(w, s, {"AwaitingBegin"})
           fallback == FallbackPending(w, s) \/ i # 0
           a == IF FallbackPending(w, s) THEN Normalize(w, s)
                ELSE IF i # 0 THEN MakeFallback(w, i) ELSE w
           b == Begun(a, s)
           c == EnterLevel(b, s, blocked)
<1>1. w.client[s].conn /\ ~w.client[s].begun
  BY DEF ClientBegin
<1>2. w' = IF fallback THEN CompleteFallback(c, s)
           ELSE IF MayRestore(b, s) THEN BeginRestore(b, s) ELSE c
  BY DEF ClientBegin, Begun
<1>3. w \in State /\ Settling(w) /\ Sound(w)
  BY GoodFields
<1>4. /\ i # 0 => i \in Slots /\ Valid(w, i) /\ w.rec[i].ent = s
                  /\ w.snap[i].phase = "AwaitingBegin"
      /\ i = 0 => \A j \in Slots : Valid(w, j) /\ w.rec[j].ent = s =>
                    w.snap[j].phase # "AwaitingBegin"
  <2>1. {"AwaitingBegin"} \in SUBSET Pending
    BY DEF Pending
  <2> QED BY <1>1, <1>3, <2>1, IndexForFacts
<1> HIDE DEF i
<1>5. /\ Good(a) /\ a.client[s].conn /\ ~a.client[s].begun /\ Continues(w, a)
      /\ fallback => a.fall[s].valid
      /\ ~fallback => a = w /\ ~w.fall[s].valid
      /\ Carries(w, a) /\ a.stage = w.stage
  <2>1. CASE FallbackPending(w, s)
    <3>1. a = Normalize(w, s)
      BY <2>1
    <3>2. Good(a) /\ a.client = w.client /\ a.fall[s].valid /\ Stays(w, a)
      BY <2>1, <3>1, NormalizeGood DEF FallbackPending
    <3>4. Carries(w, a) /\ a.stage = w.stage
      BY <3>2, StaysCarries DEF Stays
    <3>3. Continues(w, a)
      BY <1>3, <3>1, BeginContinues
    <3> QED BY <1>1, <2>1, <3>2, <3>3, <3>4
  <2>2. CASE ~FallbackPending(w, s) /\ i # 0
    <3>1. a = MakeFallback(w, i)
      BY <2>2
    <3>2. Gone(w, a, i) /\ a.fall[s].valid /\ a.timeout = w.timeout
      BY <1>3, <1>4, <2>2, <3>1, MakeFallbackFacts
    <3> HIDE DEF a
    <3>3. Good(a) /\ Carries(w, a) /\ a.stage = w.stage
      BY <3>2, EndsGood, EndsCarries DEF Gone, Ending, Ends, Thins
    <3>4. a.client[s].conn /\ ~a.client[s].begun
      BY <1>1, <3>2 DEF Gone, Ending, Ends, Thins
    <3>5. Continues(w, a)
      BY <3>2 DEF Gone, Ending, Ends, Thins, Continues, Retained
    <3> QED BY <2>2, <3>2, <3>3, <3>4, <3>5
  <2>3. CASE ~FallbackPending(w, s) /\ i = 0
    <3>1. ~w.fall[s].valid
      BY <1>3, <2>3, FallbackIs
    <3>2. Continues(w, w) /\ Carries(w, w)
      BY <1>3, EndsReflexive, EndsCarries DEF Continues
    <3> QED BY <1>1, <2>3, <3>1, <3>2
  <2> QED BY <2>1, <2>2, <2>3
<1> HIDE DEF a
<1>6. /\ Good(b) /\ b.client[s].conn /\ b.client[s].begun /\ s \notin b.abort
      /\ b.fall = a.fall /\ b.snap = a.snap /\ b.rec = a.rec /\ Stays(a, b)
      /\ \A j \in Slots : Valid(b, j) /\ b.rec[j].ent = s => b.snap[j].phase # "Reserved"
  BY <1>5, BegunGood
<1>9. Continues(w, b) /\ b \in State
  <2>1. Continues(a, b)
    BY <1>5, BeginContinues, GoodFields
  <2> QED BY <1>5, <1>6, <2>1, GoodFields DEF Continues
<1> HIDE DEF b
<1>12. ASSUME Carries(b, w') PROVE Carries(w, w')
  <2>1. Carries(a, b) /\ b.stage = a.stage
    BY <1>6, StaysCarries DEF Stays
  <2>2. Carries(a, w')
    BY <1>6, <1>12, <2>1, CarriesTransitive
  <2> QED BY <1>5, <2>2, CarriesTransitive
<1>10. Continues(w, c) /\ c \in State
  <2>1. Continues(b, c) /\ c \in State
    BY <1>9, BeginContinues, EnterLevelIs
  <2> QED BY <1>9, <2>1 DEF Continues
<1>11. Passed(w, w')
  <2>1. Continues(c, CompleteFallback(c, s)) /\ Continues(b, BeginRestore(b, s))
    BY <1>9, <1>10, BeginContinues, BeginRestoreContinues
  <2> HIDE DEF c
  <2>2. Continues(w, w')
    BY <1>2, <1>9, <1>10, <2>1 DEF Continues
  <2> QED BY <2>2, ContinuesPassed
<1>7. CASE fallback
  <2>1. Good(CompleteFallback(c, s)) /\ Carries(b, CompleteFallback(c, s))
    BY <1>5, <1>6, <1>7, CompleteGood
  <2> QED BY <1>2, <1>7, <1>11, <1>12, <2>1
<1>8. CASE ~fallback
  <2>1. ~b.fall[s].valid /\ b.snap = w.snap /\ b.rec = w.rec /\ i = 0 /\ Settling(b)
    BY <1>5, <1>6, <1>8, GoodFields
  <2>2. ASSUME NEW j \in Slots, Valid(b, j), b.rec[j].ent = s
        PROVE  b.snap[j].phase = "Claimed"
    <3>1. SnapOK(w, j) /\ SnapOK(b, j) /\ Valid(w, j)
      BY <1>3, <2>1, <2>2 DEF Settling, Valid
    <3>2. b.snap[j].phase \notin {"Reinstating", "Expiring", "Reserved", "AwaitingBegin"}
      BY <1>1, <1>4, <1>6, <2>1, <2>2, <3>1 DEF SnapOK
    <3>3. b.snap[j].phase \in Phases
      BY <2>1, <2>2, Places, ReservationFields
    <3> QED BY <3>2, <3>3 DEF Phases
  <2>3. CASE MayRestore(b, s)
    <3>1. LET j == Find(b, b.client[s].id) IN j \in Slots /\ Valid(b, j) /\ b.rec[j].ent = s
      BY <2>3, FindFacts DEF MayRestore, Owns, Valid
    <3>2. b.snap[Find(b, b.client[s].id)].phase = "Claimed"
      BY <2>2, <3>1
    <3>3. Good(BeginRestore(b, s)) /\ Carries(b, BeginRestore(b, s))
      BY <1>6, <2>1, <2>3, <3>2, BeginRestoreGood
    <3> QED BY <1>2, <1>8, <1>11, <1>12, <2>3, <3>3
  <2>4. CASE ~MayRestore(b, s)
    <3>1. \A j \in Slots : Valid(b, j) /\ b.rec[j].ent = s =>
            b.snap[j].phase # "Reserved" /\ b.stage # "playing"
      BY <1>6, <2>2, <2>4, ClaimantMayRestore
    <3>2. Good(c) /\ Carries(b, c)
      BY <1>6, <2>1, <3>1, EnterGood
    <3> QED BY <1>2, <1>8, <1>11, <1>12, <2>4, <3>2
  <2> QED BY <2>3, <2>4
<1> QED BY <1>7, <1>8

-----------------------------------------------------------------------------
(* Teams and play.                                                          *)

\* A client with nothing pending that plays is connected.
LEMMA SettledIs ==
  ASSUME Good(w), NEW s \in Slots, Settled(s)
  PROVE  /\ w.client[s].conn /\ w.client[s].begun /\ w.client[s].inuse /\ ~Protected(w, s)
         /\ Unbound(w, s) /\ ~w.fall[s].valid /\ s \notin w.abort
<1>1. Settling(w) /\ ClientOK(w, s)
  BY GoodFields DEF Settling
<1>2. /\ w.client[s].conn /\ w.client[s].begun /\ w.client[s].inuse /\ ~Protected(w, s)
      /\ w.client[s].spawned
  BY DEF Settled, Active
<1>3. Unbound(w, s) /\ ~w.fall[s].valid
  BY <1>1, <1>2, UnprotectedFacts
<1>4. s \notin w.abort
  BY <1>1, <1>2 DEF ClientOK
<1> QED BY <1>2, <1>3, <1>4

\* A client enters the statistics and the match.
Enrols(g, h, s) ==
  /\ h \in State /\ Turned(g, h, s) /\ h.fall[s] = g.fall[s] /\ h.abort = g.abort
  /\ \A id \in Ids : h.part[id] = "in" => g.part[id] = "in" \/ id = g.client[s].id
  /\ h.client[s].play = TRUE /\ h.client[s].begun = g.client[s].begun
  /\ h.client[s].gen = g.client[s].gen /\ h.client[s].ghost = g.client[s].ghost
  /\ h.client[s].spawned = g.client[s].spawned /\ h.client[s].limbo = g.client[s].limbo
  /\ h.client[s].inuse = g.client[s].inuse /\ h.client[s].holder = g.client[s].holder

\* He keeps the invariant,
LEMMA EnrolsGood ==
  ASSUME NEW g, Good(g), NEW s \in Slots, NEW h, Enrols(g, h, s)
  PROVE  Good(h)
<1>1. /\ ClientOK(g, s) /\ FallOK(g, s) /\ \A i \in Slots : SnapOK(g, i)
      /\ Live(g) /\ g \in State
  BY GoodFields DEF Settling
<1>5. /\ h.snap = g.snap /\ \A j \in Slots : h.rec[j].ent = g.rec[j].ent
      /\ h.abort = g.abort /\ h.fall[s] = g.fall[s] /\ h.stage = g.stage
  BY DEF Enrols, Turned
<1>6. LET c == g.client[s]
          d == h.client[s]
      IN /\ d.conn = c.conn /\ d.id = c.id /\ d.begun = c.begun /\ d.gen = c.gen
         /\ d.ghost = c.ghost /\ d.spawned = c.spawned /\ d.limbo = c.limbo
         /\ d.inuse = c.inuse /\ d.holder = c.holder
  BY DEF Enrols, Turned
<1>7. ClientOK(g, s) /\ FallOK(g, s) /\ g.client[s].ghost \in {0} \cup Slots
  BY <1>1, StateFields, ClientFields
<1>2. ClientOK(h, s)
  <2>1. ~h.client[s].conn /\ h.client[s].ghost # 0 /\ h.rec[h.client[s].ghost].ent = s
          => Valid(h, h.client[s].ghost)
    BY <1>5, <1>6, <1>7 DEF ClientOK, Valid
  <2> QED BY <1>5, <1>6, <1>7, <2>1 DEF ClientOK
<1>3. FallOK(h, s)
  BY <1>5, <1>6, <1>7 DEF FallOK, Valid
<1>4. ASSUME NEW i \in Slots, Valid(g, i), g.rec[i].ent = s
      PROVE  SnapOK(h, i) /\ (g.stage = "playing" => h.client[s].ghost = i)
  <2>1. SnapOK(g, i) /\ (g.stage = "playing" => g.client[s].ghost = i)
    BY <1>1, <1>4 DEF Live
  <2>2. SnapOK(h, i)
    BY <1>4, <1>5, <1>6, <2>1 DEF SnapOK, Valid
  <2> QED BY <1>6, <2>1, <2>2
<1> QED BY <1>2, <1>3, <1>4, SlotGood DEF Enrols

\* and nobody is lost.
LEMMA EnrolsAccounts ==
  ASSUME NEW g, NEW s \in Slots, g.client[s].conn, NEW h, Enrols(g, h, s)
  PROVE  Accounts(g, h) /\ (Rest(g) => RestsBut(h, s))
<1>1. /\ \A t \in Slots : h.client[t].conn = g.client[t].conn /\ h.client[t].id = g.client[t].id
      /\ \A t \in Slots : g.client[t].play => h.client[t].play
      /\ h.snap = g.snap
  BY DEF Enrols, Turned
<1>2. ASSUME NEW id \in Ids, Present(g, id)
      PROVE  Present(h, id)
  <2>1. CASE g.part[id] = "in"
    BY <1>1, <1>2, <2>1 DEF Present, Plays, Reserves, Valid
  <2>2. CASE g.part[id] # "in"
    <3>1. Plays(h, g.client[s].id)
      BY <1>1 DEF Plays, Enrols
    <3> QED BY <2>2, <3>1 DEF Present, Enrols
  <2> QED BY <2>1, <2>2
<1>3. Rest(g) => RestsBut(h, s)
  BY DEF Rest, RestsBut, Enrols, Turned, Valid
<1> QED BY <1>2, <1>3 DEF Accounts

\* SetTeam enters the statistics of a client who comes to play.
LEMMA EnrolsIs ==
  ASSUME NEW g \in State, NEW s \in Slots
  PROVE  LET a == Enter(g, g.client[s].id)
         IN Enrols(g, [a EXCEPT !.client[s] = [@ EXCEPT !.play = TRUE, !.inactive = FALSE]], s)
<1> DEFINE a == Enter(g, g.client[s].id)
           p == a.part
           c == [g.client[s] EXCEPT !.play = TRUE, !.inactive = FALSE]
           h == [a EXCEPT !.client = [a.client EXCEPT ![s] = c]]
<1>1. g.client \in [Slots -> Client] /\ g.client[s] \in Client
  BY StateFields
<1>2. /\ a \in State /\ a.client = g.client
      /\ \A id \in Ids : a.part[id] = "in" => g.part[id] = "in" \/ id = g.client[s].id
      /\ a.rec = g.rec /\ a.snap = g.snap /\ a.fall = g.fall /\ a.abort = g.abort
      /\ a.timeout = g.timeout /\ a.stage = g.stage /\ a.match = g.match
      /\ a.round = g.round /\ a.world = g.world
  <2> DEFINE q == [g.part EXCEPT ![g.client[s].id] = "in"]
  <2>1. q \in Part /\ \A id \in Ids : q[id] = "in" => g.part[id] = "in" \/ id = g.client[s].id
    BY StateFields DEF Part
  <2>2. a = g \/ a = [g EXCEPT !.part = q]
    BY DEF Enter
  <2> HIDE DEF a, q
  <2> QED BY <2>1, <2>2 DEF State
<1> HIDE DEF a
<1>3. /\ c \in Client /\ c.play = TRUE /\ c.begun = g.client[s].begun
      /\ c.gen = g.client[s].gen /\ c.ghost = g.client[s].ghost
      /\ c.spawned = g.client[s].spawned /\ c.limbo = g.client[s].limbo
      /\ c.inuse = g.client[s].inuse /\ c.holder = g.client[s].holder
      /\ c.conn = g.client[s].conn /\ c.id = g.client[s].id
  BY <1>1 DEF Client
<1>4. h = [a EXCEPT !.client[s] = [@ EXCEPT !.play = TRUE, !.inactive = FALSE]]
  BY <1>2
<1> HIDE DEF c
<1>5. /\ h \in State /\ h.rec = g.rec /\ h.snap = g.snap /\ h.fall = g.fall
      /\ h.abort = g.abort /\ h.timeout = g.timeout /\ h.stage = g.stage
      /\ h.match = g.match /\ h.round = g.round /\ h.world = g.world /\ h.part = a.part
      /\ h.client[s] = c /\ \A t \in Slots \ {s} : h.client[t] = g.client[t]
  BY <1>1, <1>2, <1>3 DEF State
<1> HIDE DEF h
<1>6. Enrols(g, h, s)
  BY <1>2, <1>3, <1>5 DEF Enrols, Turned
<1> QED BY <1>4, <1>6 DEF a

\* Joining a team, or coming back to it, keeps the invariant and the timeout.
LEMMA JoinGood ==
  ASSUME Good(w), NEW s \in Slots, NEW blocked, Join(s, blocked)
  PROVE  Good(w') /\ Passed(w, w') /\ Carries(w, w')
<1> DEFINE a == Enter(w, w.client[s].id)
           b == [a EXCEPT !.client[s] = [@ EXCEPT !.play = TRUE, !.inactive = FALSE]]
<1>1. /\ w.client[s].conn /\ w.client[s].begun /\ w.client[s].inuse /\ ~Protected(w, s)
      /\ Unbound(w, s) /\ ~w.fall[s].valid /\ s \notin w.abort
  BY SettledIs DEF Join
<1>2. \/ w' = BeginRestore(w, s) /\ MayRestore(w, s)
      \/ w' = DoAssign(b, s, blocked)
  BY DEF Join
<1>3. CASE w' = BeginRestore(w, s) /\ MayRestore(w, s)
  BY <1>1, <1>3, BeginRestoreGood, BeginRestoreContinues, ContinuesPassed, GoodFields
<1>4. CASE w' = DoAssign(b, s, blocked)
  <2>1. Enrols(w, b, s)
    BY EnrolsIs, GoodFields
  <2> HIDE DEF b
  <2>2. Good(b) /\ b.client[s].conn /\ b.client[s].play /\ b.stage = w.stage
    BY <1>1, <2>1, EnrolsGood DEF Enrols, Turned
  <2>3. ~Protected(b, s)
    <3>1. Unbound(b, s) /\ ~b.fall[s].valid
      BY <1>1, <2>1 DEF Enrols, Turned, Unbound, Valid
    <3> QED BY <3>1, UnboundUnprotected
  <2>4. /\ Assigned(b, w', s)
        /\ b.stage = "playing" => \A j \in Slots : Valid(w', j) => w'.rec[j].ent # s
    BY <1>4, <2>2, <2>3, DoAssignFacts DEF CanOwnGhost
  <2>5. Good(w') /\ Ends(b, w')
    BY <2>2, <2>4, EndsGood DEF Assigned
  <2>6. Passed(w, w')
    <3>1. Passed(b, w')
      BY <2>5, EndsPassed
    <3>2. /\ \A t \in Slots : b.client[t].conn = w.client[t].conn
          /\ b.timeout = w.timeout /\ \A t : Waiting(b, t) <=> Waiting(w, t)
      BY <2>1 DEF Enrols, Turned, Waiting
    <3> QED BY <3>1, <3>2 DEF Passed, NobodyNew, Resumes, Retained
  <2>7. Carries(w, w')
    <3>0. w'.stage = w.stage
      BY <2>2, <2>5 DEF Ends, Thins
    <3> SUFFICES ASSUME Rest(w) PROVE Rest(w') /\ Accounts(w, w')
      BY <3>0 DEF Carries
    <3>1. Accounts(w, b) /\ RestsBut(b, s)
      BY <1>1, <2>1, EnrolsAccounts
    <3>2. Accounts(w, w')
      BY <2>2, <2>5, <3>1, GoodAccounts DEF Ends
    <3>3. Rest(w')
      <4> SUFFICES ASSUME w'.stage = "playing", NEW t \in Slots, NEW j \in Slots,
                          Valid(w', j), w'.rec[j].ent = t, w'.client[t].conn, w'.client[t].play
          PROVE  FALSE
        BY DEF Rest
      <4>1. /\ Valid(b, j) /\ b.rec[j].ent = t /\ b.stage = "playing"
            /\ b.client[t].play /\ b.client[t].conn
        BY <2>5 DEF Ends, Thins
      <4>2. t # s
        BY <2>4, <4>1
      <4> QED BY <3>1, <4>1, <4>2 DEF RestsBut
    <3> QED BY <3>2, <3>3
  <2> QED BY <2>5, <2>6, <2>7
<1> QED BY <1>2, <1>3, <1>4

\* What is not pending is so for every server that is alike.
LEMMA UnboundAlike ==
  ASSUME NEW g, Good(g), NEW h \in State, Alike(g, h), NEW s, Unbound(g, s), ~g.fall[s].valid
  PROVE  Unbound(h, s) /\ ~h.fall[s].valid
<1>1. Ends(g, h)
  BY AlikeSound, GoodFields
<1>2. h.fall = g.fall
  BY DEF Alike, Resembles
<1> QED BY <1>1, <1>2, UnboundEnds

\* Going to the spectators keeps the invariant, and ends no timeout but with
\* its owner.
LEMMA SpectateGood ==
  ASSUME Good(w), NEW s \in Slots, NEW blocked, Spectate(s, blocked)
  PROVE  Good(w') /\ Passed(w, w') /\ Carries(w, w')
<1> DEFINE f == Settle(w, w.client[s].id)
           a == Toss(f, s)
           b == [a EXCEPT !.client[s] = [@ EXCEPT !.play = FALSE, !.inactive = FALSE]]
<1>1. Unbound(w, s) /\ ~w.fall[s].valid
  BY SettledIs DEF Spectate
<1>2. w' = ClearGhost(b, s, blocked)
  BY DEF Spectate
<1>3. f \in State /\ Alike(w, f) /\ MayStop(f, s)
  <2>1. w \in State /\ ClientOK(w, s)
    BY GoodFields DEF Settling
  <2>2. w.client[s].conn => w.client[s].id \in Ids
    BY <2>1, StateFields, ClientFields DEF ClientOK
  <2> QED BY <2>1, <2>2, SettledMayStop
<1> HIDE DEF f
<1>4. a \in State /\ Alike(f, a) /\ MayStop(a, s)
  BY <1>3, TossAlike, TossMayStop
<1> HIDE DEF a
<1>7. b \in State /\ Alike(a, b)
  BY <1>4, StopAlike
<1> HIDE DEF b
<1>8. Alike(w, b)
  BY <1>3, <1>4, <1>7, AlikeTransitive
<1>9. Good(b) /\ Sound(b)
  BY <1>7, <1>8, AlikeGood, GoodFields
<1>10. ~Protected(b, s)
  BY <1>1, <1>7, <1>8, UnboundAlike, UnboundUnprotected
<1>11. Cleaned(b, ClearGhost(b, s, blocked), s)
  BY <1>9, <1>10, ClearGhostFacts
<1>12. Good(w') /\ Ends(b, w')
  BY <1>2, <1>9, <1>11, EndsGood DEF Cleaned
<1>13. Passed(w, w')
  BY <1>7, <1>8, <1>12, EndsPassed, AlikePassed, GoodFields
<1>14. Carries(w, w')
  <2>1. Carries(w, b) /\ Carries(b, w') /\ b.stage = w.stage
    BY <1>7, <1>8, <1>9, <1>12, AlikeCarries, EndsCarries DEF Alike, Resembles
  <2> QED BY <1>9, <2>1, CarriesTransitive
<1> QED BY <1>12, <1>13, <1>14

\* So does taking the item, and losing it.
LEMMA PickUpGood ==
  ASSUME Good(w), NEW s \in Slots, PickUp(s)
  PROVE  Good(w') /\ Passed(w, w') /\ Carries(w, w')
<1> DEFINE c == [w.client[s] EXCEPT !.holds = TRUE]
           h == [w EXCEPT !.item = w.item - 1]
<1>1. w \in State /\ w.item \in 0..2 /\ w.item > 0
  BY GoodFields, StateFields DEF PickUp
<1>2. w' = [h EXCEPT !.client[s] = c]
  BY <1>1 DEF PickUp, State
<1>3. h \in State
  <2>1. w.item - 1 \in 0..2
    BY <1>1
  <2> QED BY <1>1, <2>1 DEF State
<1>4. /\ h.client = w.client /\ h.rec = w.rec /\ h.snap = w.snap /\ h.fall = w.fall
      /\ h.abort = w.abort /\ h.timeout = w.timeout /\ h.stage = w.stage /\ h.match = w.match
      /\ h.round = w.round /\ h.world = w.world /\ h.part = w.part
  BY <1>1 DEF State
<1> HIDE DEF h
<1>5. Alike(w, h)
  BY <1>4, SameAccounts DEF Alike, Resembles, SameClient, SameSnap
<1>6. c \in Client /\ SameClient(h.client[s], c) /\ c.play = h.client[s].play
  <2>1. w.client[s] \in Client
    BY <1>1, StateFields
  <2> QED BY <1>4, <2>1 DEF Client, SameClient
<1> HIDE DEF c
<1>7. Good(w') /\ Carries(w, w')
  <2>1. w' \in State /\ Alike(h, w')
    BY <1>2, <1>3, <1>6, ClientAlike
  <2>2. Alike(w, w')
    BY <1>5, <2>1, AlikeTransitive
  <2> QED BY <2>1, <2>2, AlikeGood, AlikeCarries
<1>8. Continues(w, w')
  <2>1. /\ w'.client[s] = c /\ \A t \in Slots \ {s} : w'.client[t] = w.client[t]
        /\ w'.timeout = w.timeout
    BY <1>2, <1>3, <1>4 DEF State
  <2> QED BY <1>4, <1>6, <2>1 DEF Continues, SameClient, Retained
<1> QED BY <1>7, <1>8, ContinuesPassed

\* A death keeps the invariant.
LEMMA DieGood ==
  ASSUME Good(w), NEW s \in Slots, Die(s)
  PROVE  Good(w') /\ Passed(w, w') /\ Carries(w, w')
BY GoodFields, TossAlike, AlikeGood, AlikeSound, AlikeCarries, EndsPassed DEF Die

\* Where nobody connects, nobody takes a slot.
LEMMA NobodyNewSpared ==
  ASSUME NEW g, NEW h, NobodyNew(g, h)
  PROVE  Spared(g, h)
BY DEF NobodyNew, Spared

\* Every step of a client keeps the invariant, takes no slot from another and
\* ends no timeout but with its owner.
LEMMA ClientStepsGood ==
  ASSUME Good(w), NEW blocked, ClientSteps(blocked)
  PROVE  Good(w') /\ Spared(w, w') /\ Resumes(w, w') /\ Carries(w, w')
BY ConnectGood, BeginGood, DisconnectGood, JoinGood, SpectateGood, IdleGood, PickUpGood, DieGood,
   NobodyNewSpared
   DEF ClientSteps, Passed

-----------------------------------------------------------------------------
(* Frames.                                                                  *)

\* ReleaseTimedOutInventory is not the invariant's.
LEMMA ReleaseTimedOutAlike ==
  ASSUME NEW g, Settling(g), NEW i \in Slots, Valid(g, i)
  PROVE  ReleaseTimedOut(g, i) \in State /\ Alike(g, ReleaseTimedOut(g, i))
<1> DEFINE s == g.rec[i].ent
           f == Release(g, i)
           x == [f.snap[i] EXCEPT !.released = TRUE]
           h == [f EXCEPT !.snap[i] = x]
           c == [h.client[s] EXCEPT !.holds = FALSE]
           k == [h EXCEPT !.client[s] = c]
<1>1. g \in State /\ s \in Slots
  BY Places DEF Settling
<1>2. f \in State /\ Alike(g, f)
  BY <1>1, ReleaseAlike
<1>3. CASE g.snap[i].released
  BY <1>1, <1>3, AlikeReflexive DEF ReleaseTimedOut
<1>4. CASE ~g.snap[i].released
  <2>1. ReleaseTimedOut(g, i) = IF g.client[s].holder THEN k ELSE h
    BY <1>4 DEF ReleaseTimedOut
  <2> HIDE DEF f, s
  <2>2. f.snap[i] \in Snap /\ f.snap[i].valid
    BY <1>2, StateFields DEF Alike, Resembles, SameSnap, Valid
  <2>3. x \in Snap /\ SameSnap(f.snap[i], x) /\ (x.settled => f.snap[i].settled)
    <3>1. f.snap[i] \in Reservation
      BY <2>2, SnapFields
    <3>2. x \in Reservation /\ SameSnap(f.snap[i], x) /\ (x.settled => f.snap[i].settled)
      BY <3>1 DEF Reservation, SameSnap
    <3> QED BY <3>2 DEF Snap
  <2> HIDE DEF x
  <2>4. h \in State /\ Alike(f, h)
    BY <1>2, <2>3, SnapAlike
  <2> HIDE DEF h
  <2>5. c \in Client /\ SameClient(h.client[s], c) /\ c.play = h.client[s].play
    <3>1. h.client[s] \in Client
      BY <1>1, <2>4, StateFields
    <3> QED BY <3>1 DEF Client, SameClient
  <2> HIDE DEF c
  <2>6. k \in State /\ Alike(h, k)
    BY <1>1, <2>4, <2>5, ClientAlike
  <2> HIDE DEF k
  <2>7. Alike(g, h) /\ Alike(g, k)
    BY <1>2, <2>4, <2>6, AlikeTransitive
  <2> QED BY <2>1, <2>4, <2>6, <2>7
<1> QED BY <1>3, <1>4

\* What ends reservations after what the invariant does not speak of.
LEMMA AlikeThenEnds ==
  ASSUME NEW g, Sound(g), NEW h \in State, Alike(g, h)
  PROVE  /\ Sound(h) /\ Settling(h) /\ Ends(g, h)
         /\ \A k : Ends(h, k) => Ends(g, k)
<1>1. Settling(g)
  BY DEF Sound
<1>2. Settling(h) /\ Ends(g, h) /\ Sound(h)
  BY <1>1, AlikeSound
<1> QED BY <1>2, EndsTransitive

\* A reservation whose time ran out waits for its placeholder to fade, when
\* no timeout is its.
LEMMA FadeFacts ==
  ASSUME NEW g, Sound(g), NEW i \in Slots, Valid(g, i), g.snap[i].phase = "Reserved",
         g.client[g.rec[i].ent].holder, ~Retained(g)
  PROVE  LET h == [g EXCEPT !.snap[i] = [@ EXCEPT !.phase = "Expiring", !.elapsed = 0,
                                                  !.reinstate = 0, !.gen = 0]]
         IN Settling(h) /\ Ends(g, h)
<1> DEFINE s == g.rec[i].ent
           x == [g.snap[i] EXCEPT !.phase = "Expiring", !.elapsed = 0, !.reinstate = 0, !.gen = 0]
           h == [g EXCEPT !.snap = [g.snap EXCEPT ![i] = x]]
<1>1. /\ g \in State /\ Settling(g) /\ Owned(g)
      /\ s \in Slots /\ g.snap[i] \in Reservation /\ SnapOK(g, i)
      /\ ClientOK(g, s) /\ FallOK(g, s) /\ g.snap \in [Slots -> Snap]
      /\ \A j \in Slots \ {i} : Valid(g, j) => g.rec[j].ent # s
  BY Places, StateFields DEF Sound, Settling
<1>2. /\ x \in Reservation /\ x.valid /\ x.phase = "Expiring" /\ x.id = g.snap[i].id
      /\ x.settled = g.snap[i].settled
      /\ x.match = g.snap[i].match /\ x.round = g.snap[i].round /\ x.world = g.snap[i].world
  <2>1. 0 \in 0..Delay /\ 0 \in 0..MaxGen /\ 0 \in Nat
    BY GhostAssumption
  <2>2. "Expiring" \in Phases
    BY DEF Phases
  <2>3. x \in Reservation
    BY <1>1, <2>1, <2>2 DEF Reservation
  <2>4. /\ x.valid = g.snap[i].valid /\ x.phase = "Expiring" /\ x.id = g.snap[i].id
        /\ x.settled = g.snap[i].settled
        /\ x.match = g.snap[i].match /\ x.round = g.snap[i].round /\ x.world = g.snap[i].world
    BY <1>1 DEF Reservation
  <2> QED BY <2>3, <2>4 DEF Valid
<1> HIDE DEF x
<1>3. h \in State
  BY <1>1, <1>2 DEF State, Snap
<1>4. /\ h.client = g.client /\ h.fall = g.fall /\ h.abort = g.abort /\ h.timeout = g.timeout
      /\ h.stage = g.stage /\ h.match = g.match /\ h.round = g.round /\ h.world = g.world
      /\ h.snap[i] = x /\ \A j \in Slots \ {i} : h.snap[j] = g.snap[j]
      /\ h.rec = g.rec /\ h.part = g.part
  BY <1>1 DEF State
<1>5. h = [g EXCEPT !.snap[i] = [@ EXCEPT !.phase = "Expiring", !.elapsed = 0,
                                          !.reinstate = 0, !.gen = 0]]
  BY DEF x
<1> HIDE DEF h
<1>6. ~g.client[s].conn /\ s # 0 /\ g.client[s].ghost \in {0, i} /\ g.client[s].holder
  BY <1>1 DEF SnapOK, Slots
<1>7. Near(g, h, s, i)
  BY <1>1, <1>4 DEF Near
<1>8. ThinsAt(g, h, s, i)
  BY <1>2, <1>4, <1>1 DEF ThinsAt, Valid
<1>9. Thins(g, h) /\ Apart(h)
  BY <1>1, <1>3, <1>7, <1>8, ThinsLocal
<1>10. Settling(h)
  <2>1. ClientOK(h, s)
    <3>1. \A j \in Slots : Valid(h, j) <=> Valid(g, j)
      BY <1>2, <1>4 DEF Valid
    <3>2. g.client[s].ghost # 0 => g.client[s].ghost \in Slots
      BY <1>6
    <3> QED BY <1>1, <1>4, <1>6, <3>1, <3>2 DEF ClientOK
  <2>2. FallOK(h, s)
    BY <1>1, <1>4, <1>6 DEF FallOK
  <2>3. SnapOK(h, i)
    BY <1>2, <1>4, <1>6 DEF SnapOK, Pending
  <2>4. h.world <= h.round
    BY <1>1, <1>4 DEF Settling
  <2>5. \A t \in Slots \ {s} : h.rec[i].ent # t
    BY <1>4
  <2>6. Valid(h, i) => h.rec[i].ent = s
    BY <1>4
  <2> QED BY <1>1, <1>3, <1>7, <1>9, <2>1, <2>2, <2>3, <2>4, <2>5, <2>6, Local
<1>11. Ends(g, h)
  <2>1. ~Waiting(h, s)
    BY <1>1, <1>2, <1>4 DEF Waiting, Valid
  <2>2. \A t : t # s /\ Waiting(g, t) => Waiting(h, t)
    BY <1>1, <1>4, <1>7, NearWaiting
  <2>3. g.timeout.ent # s
    BY <1>1, <1>6 DEF Owned, Retained
  <2>4. \A j \in Slots : /\ Valid(h, j) <=> Valid(g, j)
                         /\ h.snap[j].id = g.snap[j].id /\ h.snap[j].settled = g.snap[j].settled
    BY <1>1, <1>2, <1>4 DEF Valid
  <2>5. Accounts(g, h)
    BY <1>4, <2>4 DEF Accounts, Present, Plays, Reserves
  <2> QED BY <1>1, <1>4, <1>9, <2>1, <2>2, <2>3, <2>5, EndsAt
<1> QED BY <1>5, <1>10, <1>11

\* What an operator that only ends reservations leaves.
Fades(g, h) == Settling(h) /\ Ends(g, h)

\* What fades a server fades one that is like it,
LEMMA AlikeFades ==
  ASSUME NEW g, Sound(g), NEW h, NEW k, h \in State, Alike(g, h), Fades(h, k)
  PROVE  Fades(g, k)
BY AlikeThenEnds DEF Fades

\* BeginSnapshotTimeoutExpiry only ends the reservation.
LEMMA RunOutFacts ==
  ASSUME NEW g, Sound(g), NEW i \in Slots, Valid(g, i),
         g.snap[i].phase \in {"Reserved", "Claimed", "Reinstating"}, NEW blocked
  PROVE  Fades(g, RunOut(g, i, blocked))
<1> DEFINE f == ReleaseTimedOut(g, i)
           e == SettleSnap(f, i)
           h == [e EXCEPT !.rec[i].code = FALSE]
           k == [h EXCEPT !.snap[i] = [@ EXCEPT !.phase = "Expiring", !.elapsed = 0,
                                                !.reinstate = 0, !.gen = 0]]
<1>1. g \in State /\ Settling(g) /\ g.rec[i].ent \in Slots
  BY Places DEF Sound, Settling
<1>2. f \in State /\ Alike(g, f)
  BY <1>1, ReleaseTimedOutAlike
<1>3. CASE g.snap[i].phase = "Claimed"
  <2>1. RunOut(g, i, blocked) = Abort(f, i, FALSE, TRUE, blocked)
    BY <1>3 DEF RunOut
  <2> HIDE DEF f
  <2>2. Sound(f) /\ Valid(f, i) /\ f.snap[i].phase = "Claimed"
    BY <1>2, <1>3, AlikeThenEnds DEF Alike, Resembles, SameSnap, Valid
  <2>3. Fades(f, Abort(f, i, FALSE, TRUE, blocked))
    BY <2>2, AbortFacts DEF Fades, Ending
  <2> QED BY <1>2, <2>1, <2>3, AlikeFades
<1>4. CASE g.snap[i].phase = "Reinstating"
  <2>1. RunOut(g, i, blocked) = Abort(g, i, TRUE, TRUE, blocked)
    BY <1>4 DEF RunOut
  <2> QED BY <1>4, <2>1, AbortFacts DEF Fades, Ending
<1>5. CASE g.snap[i].phase = "Reserved"
  <2>1. RunOut(g, i, blocked) =
          IF ~h.client[h.rec[i].ent].holder \/ Retained(h) THEN Expire(h, i, blocked) ELSE k
    BY <1>5 DEF RunOut
  <2> HIDE DEF f
  <2>2. e \in State /\ Alike(f, e)
    BY <1>2, SettleSnapAlike
  <2> HIDE DEF e
  <2>3. h \in State /\ Alike(e, h)
    <3> DEFINE r == [e.rec[i] EXCEPT !.code = FALSE]
    <3>1. e.rec \in [Slots -> Record] /\ e.rec[i] \in Record
      BY <2>2, StateFields
    <3>2. r \in Record /\ r.ent = e.rec[i].ent
      BY <3>1 DEF Record
    <3>3. h = [e EXCEPT !.rec = [e.rec EXCEPT ![i] = r]]
      OBVIOUS
    <3> HIDE DEF r
    <3>4. h \in State
      BY <2>2, <3>1, <3>2, <3>3 DEF State
    <3>5. /\ h.client = e.client /\ h.snap = e.snap /\ h.fall = e.fall /\ h.abort = e.abort
          /\ h.timeout = e.timeout /\ h.stage = e.stage /\ h.match = e.match
          /\ h.round = e.round /\ h.world = e.world /\ h.part = e.part
          /\ h.rec[i] = r /\ \A j \in Slots \ {i} : h.rec[j] = e.rec[j]
      BY <2>2, <3>1, <3>3 DEF State
    <3> HIDE DEF h
    <3>6. Alike(e, h)
      BY <3>2, <3>5, SameAccounts DEF Alike, Resembles, SameClient, SameSnap
    <3> QED BY <3>4, <3>6
  <2> HIDE DEF h
  <2>4. Alike(g, h)
    BY <1>2, <2>2, <2>3, AlikeTransitive
  <2>5. Sound(h) /\ Valid(h, i) /\ h.snap[i].phase = "Reserved"
    BY <1>5, <2>3, <2>4, AlikeThenEnds DEF Alike, Resembles, SameSnap, Valid
  <2>6. CASE ~h.client[h.rec[i].ent].holder \/ Retained(h)
    <3>1. Fades(h, Expire(h, i, blocked))
      BY <2>5, ExpireFacts DEF Fades, Ending
    <3> QED BY <2>1, <2>3, <2>4, <2>6, <3>1, AlikeFades
  <2>7. CASE ~(~h.client[h.rec[i].ent].holder \/ Retained(h))
    <3>1. Fades(h, k)
      BY <2>5, <2>7, FadeFacts DEF Fades
    <3> QED BY <2>1, <2>3, <2>4, <2>7, <3>1, AlikeFades
  <2> QED BY <2>6, <2>7
<1> QED BY <1>3, <1>4, <1>5

\* A clock of reservation i goes on.
LEMMA TickSnapAlike ==
  ASSUME NEW g \in State, NEW i \in Slots, Valid(g, i), NEW x \in Reservation,
         x.phase = g.snap[i].phase, x.id = g.snap[i].id, x.target = g.snap[i].target,
         x.gen = g.snap[i].gen, x.match = g.snap[i].match, x.round = g.snap[i].round,
         x.world = g.snap[i].world, x.settled = g.snap[i].settled
  PROVE  [g EXCEPT !.snap[i] = x] \in State /\ Alike(g, [g EXCEPT !.snap[i] = x])
<1>1. x \in Snap /\ SameSnap(g.snap[i], x)
  BY ReservationFields DEF Snap, SameSnap, Valid
<1> QED BY <1>1, SnapAlike

\* The time left runs.
LEMMA CountdownFacts ==
  ASSUME NEW g, Sound(g), NEW i \in Slots, Valid(g, i),
         g.snap[i].phase \in {"Reserved", "Claimed"}, NEW blocked
  PROVE  Fades(g, Countdown(g, i, blocked))
<1> DEFINE x == [g.snap[i] EXCEPT !.remaining = g.snap[i].remaining - 1]
           h == [g EXCEPT !.snap[i] = x]
<1>1. g \in State /\ Settling(g) /\ g.snap \in [Slots -> Snap] /\ g.snap[i] \in Reservation
  BY Places, StateFields DEF Sound, Settling
<1>2. CASE g.snap[i].remaining = 0
  BY <1>2, RunOutFacts DEF Countdown
<1>3. CASE g.snap[i].remaining # 0
  <2>1. Countdown(g, i, blocked) = IF h.snap[i].remaining = 0 THEN RunOut(h, i, blocked) ELSE h
    <3>1. [g EXCEPT !.snap[i].remaining = @ - 1] = h
      OBVIOUS
    <3> QED BY <1>3, <3>1 DEF Countdown
  <2>2. /\ x \in Reservation /\ x.phase = g.snap[i].phase /\ x.id = g.snap[i].id
        /\ x.target = g.snap[i].target /\ x.gen = g.snap[i].gen /\ x.match = g.snap[i].match
        /\ x.round = g.snap[i].round /\ x.world = g.snap[i].world
        /\ x.settled = g.snap[i].settled
    <3>1. g.snap[i].remaining - 1 \in 0..Rejoin
      BY <1>1, <1>3, GhostAssumption, ReservationFields
    <3> QED BY <1>1, <3>1 DEF Reservation
  <2> HIDE DEF x
  <2>3. h \in State /\ Alike(g, h)
    BY <1>1, <2>2, TickSnapAlike
  <2> HIDE DEF h
  <2>4. Sound(h) /\ Valid(h, i) /\ h.snap[i].phase \in {"Reserved", "Claimed"} /\ Fades(g, h)
    BY <2>3, AlikeThenEnds DEF Alike, Resembles, SameSnap, Valid, Fades
  <2>5. Fades(h, RunOut(h, i, blocked))
    BY <2>4, RunOutFacts
  <2> QED BY <2>1, <2>3, <2>4, <2>5, AlikeFades
<1> QED BY <1>2, <1>3

\* and doing nothing does.
LEMMA FadesReflexive ==
  ASSUME NEW g, Sound(g)
  PROVE  Fades(g, g)
BY EndsReflexive DEF Fades, Sound

\* MM_Ghost_RunFrame only ends a reservation, or runs its clocks.
LEMMA RunSnapFacts ==
  ASSUME NEW g, Sound(g), NEW i \in Slots, NEW blocked
  PROVE  Fades(g, RunSnap(g, i, blocked))
<1> DEFINE phase == g.snap[i].phase
           h == RunSnap(g, i, blocked)
<1>1. CASE ~Valid(g, i)
  BY <1>1, FadesReflexive DEF RunSnap, Valid
<1>2. ASSUME Valid(g, i), phase = "AwaitingBegin"
      PROVE  Fades(g, h)
  <2>1. h = IF AwaitingTarget(g, i) = 0 THEN DropHandoff(g, i) ELSE g
    BY <1>2 DEF RunSnap, Valid
  <2>2. Fades(g, DropHandoff(g, i))
    BY <1>2, ResolveFacts DEF Gone, Ending, Fades
  <2> QED BY <2>1, <2>2, FadesReflexive
<1>3. ASSUME Valid(g, i), phase # "AwaitingBegin",
             ~BelongsToWorld(g, i) \/ g.snap[i].round # g.round
      PROVE  Fades(g, h)
  <2>1. h = IF phase \in {"Claimed", "Reinstating"}
            THEN Abort(g, i, BelongsToWorld(g, i), TRUE, blocked)
            ELSE ExpireOrDiscard(g, i, blocked)
    BY <1>3 DEF RunSnap, Valid
  <2>2. BelongsToWorld(g, i) \in BOOLEAN
    BY DEF BelongsToWorld
  <2>3. phase \in {"Claimed", "Reinstating"} =>
          Ending(g, Abort(g, i, BelongsToWorld(g, i), TRUE, blocked), i)
    BY <1>3, <2>2, AbortFacts
  <2>4. Ending(g, ExpireOrDiscard(g, i, blocked), i)
    BY <1>3, ExpireFacts
  <2> QED BY <2>1, <2>3, <2>4 DEF Ending, Fades
<1>4. ASSUME Valid(g, i), phase # "AwaitingBegin",
             ~(~BelongsToWorld(g, i) \/ g.snap[i].round # g.round),
             phase \in {"Claimed", "Reinstating"}, RestoreTarget(g, i) = 0
      PROVE  Fades(g, h)
  <2>1. h = Abort(g, i, TRUE, TRUE, blocked)
    BY <1>4 DEF RunSnap, Valid
  <2> QED BY <1>4, <2>1, AbortFacts DEF Ending, Fades
<1>5. ASSUME Valid(g, i), ~(~BelongsToWorld(g, i) \/ g.snap[i].round # g.round),
             phase = "Reinstating", RestoreTarget(g, i) # 0
      PROVE  Fades(g, h)
  <2> DEFINE x == [[g.snap[i] EXCEPT !.elapsed = g.snap[i].elapsed + 1]
                     EXCEPT !.reinstate = g.snap[i].reinstate - 1]
             k == [g EXCEPT !.snap[i] = x]
  <2>1. g \in State /\ g.snap \in [Slots -> Snap] /\ g.snap[i] \in Reservation
    BY <1>5, Places, StateFields DEF Sound, Settling
  <2>2. h = IF g.snap[i].reinstate = 0 THEN g
            ELSE [g EXCEPT !.snap[i].elapsed = @ + 1, !.snap[i].reinstate = @ - 1]
    BY <1>5 DEF RunSnap, Valid
  <2>3. CASE g.snap[i].reinstate = 0
    BY <2>2, <2>3, FadesReflexive
  <2>4. CASE g.snap[i].reinstate # 0
    <3>1. h = k
      <4>1. [g EXCEPT !.snap[i].elapsed = @ + 1, !.snap[i].reinstate = @ - 1] = k
        BY <2>1 DEF State, Reservation
      <4> QED BY <2>2, <2>4, <4>1
    <3>2. /\ x \in Reservation /\ x.phase = phase /\ x.id = g.snap[i].id
          /\ x.target = g.snap[i].target /\ x.gen = g.snap[i].gen /\ x.match = g.snap[i].match
          /\ x.round = g.snap[i].round /\ x.world = g.snap[i].world
        /\ x.settled = g.snap[i].settled
      <4>1. g.snap[i].reinstate - 1 \in 0..Delay /\ g.snap[i].elapsed + 1 \in Nat
        BY <2>1, <2>4, GhostAssumption, ReservationFields
      <4> QED BY <2>1, <4>1 DEF Reservation
    <3> HIDE DEF x
    <3>3. k \in State /\ Alike(g, k)
      BY <1>5, <2>1, <3>2, TickSnapAlike
    <3> QED BY <3>1, <3>3, AlikeThenEnds DEF Fades
  <2> QED BY <2>3, <2>4
<1>6. ASSUME Valid(g, i), ~(~BelongsToWorld(g, i) \/ g.snap[i].round # g.round),
             phase = "Expiring"
      PROVE  Fades(g, h)
  <2> DEFINE x == [g.snap[i] EXCEPT !.elapsed = g.snap[i].elapsed + 1]
             k == [g EXCEPT !.snap[i] = x]
  <2>1. g \in State /\ g.snap \in [Slots -> Snap] /\ g.snap[i] \in Reservation
    BY <1>6, Places, StateFields DEF Sound, Settling
  <2>2. h = IF k.snap[i].elapsed >= Pulse THEN Expire(k, i, blocked) ELSE k
    <3>1. [g EXCEPT !.snap[i].elapsed = @ + 1] = k
      OBVIOUS
    <3> QED BY <1>6, <3>1 DEF RunSnap, Valid
  <2>3. /\ x \in Reservation /\ x.phase = phase /\ x.id = g.snap[i].id
        /\ x.target = g.snap[i].target /\ x.gen = g.snap[i].gen /\ x.match = g.snap[i].match
        /\ x.round = g.snap[i].round /\ x.world = g.snap[i].world
        /\ x.settled = g.snap[i].settled
    <3>1. g.snap[i].elapsed + 1 \in Nat
      BY <2>1, ReservationFields
    <3> QED BY <2>1, <3>1 DEF Reservation
  <2> HIDE DEF x
  <2>4. k \in State /\ Alike(g, k)
    BY <1>6, <2>1, <2>3, TickSnapAlike
  <2> HIDE DEF k
  <2>5. Sound(k) /\ Valid(k, i) /\ Fades(g, k)
    BY <1>6, <2>4, AlikeThenEnds DEF Alike, Resembles, SameSnap, Valid, Fades
  <2>6. Fades(k, Expire(k, i, blocked))
    BY <2>5, ExpireFacts DEF Ending, Fades
  <2> QED BY <2>2, <2>4, <2>5, <2>6, AlikeFades
<1>7. ASSUME Valid(g, i), ~(~BelongsToWorld(g, i) \/ g.snap[i].round # g.round),
             ~(phase \in {"Claimed", "Reinstating"} /\ RestoreTarget(g, i) = 0),
             phase \in {"Reserved", "Claimed"}
      PROVE  Fades(g, h)
  <2>1. h = Countdown(g, i, blocked)
    BY <1>7 DEF RunSnap, Valid
  <2> QED BY <1>7, <2>1, CountdownFacts
<1>8. Valid(g, i) => phase \in Phases
  BY Places, ReservationFields DEF Sound
<1> HIDE DEF h
<1> QED BY <1>1, <1>2, <1>3, <1>4, <1>5, <1>6, <1>7, <1>8 DEF Phases, h

\* Neither does the cleaning of a match that is over more than that.
LEMMA CleanSnapFacts ==
  ASSUME NEW g, Sound(g), NEW i \in Slots, NEW blocked
  PROVE  Fades(g, CleanSnap(g, i, blocked))
<1> DEFINE phase == g.snap[i].phase
           h == CleanSnap(g, i, blocked)
<1>1. h = IF ~Valid(g, i) THEN g
          ELSE IF phase = "AwaitingBegin" THEN ResolveHandoff(g, i)
          ELSE IF phase \in {"Claimed", "Reinstating"}
          THEN Abort(g, i, BelongsToWorld(g, i), TRUE, blocked) ELSE ExpireOrDiscard(g, i, blocked)
  BY DEF CleanSnap, Valid
<1> HIDE DEF h
<1>2. Fades(g, g)
  BY FadesReflexive
<1>3. Valid(g, i) /\ phase = "AwaitingBegin" => Fades(g, ResolveHandoff(g, i))
  BY ResolveFacts DEF Gone, Ending, Fades
<1>4. Valid(g, i) /\ phase \in {"Claimed", "Reinstating"} =>
        Fades(g, Abort(g, i, BelongsToWorld(g, i), TRUE, blocked))
  <2>1. BelongsToWorld(g, i) \in BOOLEAN
    BY DEF BelongsToWorld
  <2> QED BY <2>1, AbortFacts DEF Ending, Fades
<1>5. Valid(g, i) => Fades(g, ExpireOrDiscard(g, i, blocked))
  BY ExpireFacts DEF Ending, Fades
<1> QED BY <1>1, <1>2, <1>3, <1>4, <1>5 DEF h

-----------------------------------------------------------------------------
(* A frame of the game.                                                     *)

\* MM_Ghost_RunFrame of a match that is on, and of one that is not.
RunAll(g, blocked) == LET run(h, i) == RunSnap(h, i, blocked) IN Each(run, g)
\* MM_Ghost_RunFrame outside a match.
CleanAll(g, blocked) == LET clean(h, i) == CleanSnap(h, i, blocked) IN Each(clean, g)

\* Both only end reservations.
LEMMA RunAllFacts ==
  ASSUME NEW g, Sound(g), NEW blocked
  PROVE  Fades(g, RunAll(g, blocked))
<1> DEFINE X == {h \in State : Sound(h) /\ Ends(g, h)}
           one(h, i) == RunSnap(h, i, blocked)
           F == [h \in X |-> [i \in Slots |-> one(h, i)]]
           Is(f) == f = [n \in 0..N |-> IF n = 0 THEN g ELSE one(f[n - 1], n)]
           after == CHOOSE f : Is(f)
           B == {n \in 0..N : after[n] \in X}
<1>0. N \in Nat
  BY GhostAssumption
<1>1. g \in X
  BY EndsReflexive DEF Sound, Settling
<1>2. ASSUME NEW h \in X, NEW i \in Slots PROVE one(h, i) \in X
  <2>1. Sound(h) /\ Ends(g, h)
    OBVIOUS
  <2>2. Fades(h, one(h, i))
    BY <2>1, RunSnapFacts
  <2>3. Sound(one(h, i)) /\ one(h, i) \in State
    BY <2>1, <2>2, EndingSound DEF Fades, Settling
  <2>4. Ends(g, one(h, i))
    BY <2>1, <2>2, EndsTransitive DEF Fades
  <2> QED BY <2>3, <2>4
<1> HIDE DEF X
<1>3. F \in [X -> [Slots -> X]]
  BY <1>2
<1>3f. \A h \in X, i \in Slots : F[h][i] = one(h, i)
  OBVIOUS
<1> HIDE DEF F
<1>4. PICK f \in [0..N -> X] : Follows(f, g, F)
  BY <1>1, <1>3, EachExists
<1>5. Is(f)
  <2>1. ASSUME NEW n \in 0..N, n # 0 PROVE F[f[n - 1]][n] = one(f[n - 1], n)
    <3>1. n \in Slots /\ n - 1 \in 0..N
      BY <1>0, <2>1 DEF Slots
    <3>2. f[n - 1] \in X
      BY <1>4, <3>1
    <3> QED BY <1>3f, <3>1, <3>2
  <2> HIDE DEF one
  <2> QED BY <1>4, <2>1 DEF Follows
<1>6. Is(after)
  BY <1>5
<1>7. RunAll(g, blocked) = after[N]
  BY DEF RunAll, Each
<1> HIDE DEF after, one
<1>8. 0 \in B
  BY <1>0, <1>1, <1>6
<1>9. ASSUME NEW n \in Slots, n - 1 \in B PROVE n \in B
  <2>1. n \in 0..N /\ n # 0
    BY <1>0 DEF Slots
  <2>2. after[n] = one(after[n - 1], n)
    BY <1>6, <2>1
  <2>3. after[n - 1] \in X
    BY <1>9
  <2> QED BY <1>2, <2>1, <2>2, <2>3
<1> HIDE DEF B
<1>10. N \in B
  BY <1>8, <1>9, Climb
<1> QED BY <1>7, <1>10 DEF B, X, Fades, Sound

\* Outside a match every reservation fades.
LEMMA CleanAllFacts ==
  ASSUME NEW g, Sound(g), NEW blocked
  PROVE  Fades(g, CleanAll(g, blocked))
<1> DEFINE X == {h \in State : Sound(h) /\ Ends(g, h)}
           one(h, i) == CleanSnap(h, i, blocked)
           F == [h \in X |-> [i \in Slots |-> one(h, i)]]
           Is(f) == f = [n \in 0..N |-> IF n = 0 THEN g ELSE one(f[n - 1], n)]
           after == CHOOSE f : Is(f)
           B == {n \in 0..N : after[n] \in X}
<1>0. N \in Nat
  BY GhostAssumption
<1>1. g \in X
  BY EndsReflexive DEF Sound, Settling
<1>2. ASSUME NEW h \in X, NEW i \in Slots PROVE one(h, i) \in X
  <2>1. Sound(h) /\ Ends(g, h)
    OBVIOUS
  <2>2. Fades(h, one(h, i))
    BY <2>1, CleanSnapFacts
  <2>3. Sound(one(h, i)) /\ one(h, i) \in State
    BY <2>1, <2>2, EndingSound DEF Fades, Settling
  <2>4. Ends(g, one(h, i))
    BY <2>1, <2>2, EndsTransitive DEF Fades
  <2> QED BY <2>3, <2>4
<1> HIDE DEF X
<1>3. F \in [X -> [Slots -> X]]
  BY <1>2
<1>3f. \A h \in X, i \in Slots : F[h][i] = one(h, i)
  OBVIOUS
<1> HIDE DEF F
<1>4. PICK f \in [0..N -> X] : Follows(f, g, F)
  BY <1>1, <1>3, EachExists
<1>5. Is(f)
  <2>1. ASSUME NEW n \in 0..N, n # 0 PROVE F[f[n - 1]][n] = one(f[n - 1], n)
    <3>1. n \in Slots /\ n - 1 \in 0..N
      BY <1>0, <2>1 DEF Slots
    <3>2. f[n - 1] \in X
      BY <1>4, <3>1
    <3> QED BY <1>3f, <3>1, <3>2
  <2> HIDE DEF one
  <2> QED BY <1>4, <2>1 DEF Follows
<1>6. Is(after)
  BY <1>5
<1>7. CleanAll(g, blocked) = after[N]
  BY DEF CleanAll, Each
<1> HIDE DEF after, one
<1>8. 0 \in B
  BY <1>0, <1>1, <1>6
<1>9. ASSUME NEW n \in Slots, n - 1 \in B PROVE n \in B
  <2>1. n \in 0..N /\ n # 0
    BY <1>0 DEF Slots
  <2>2. after[n] = one(after[n - 1], n)
    BY <1>6, <2>1
  <2>3. after[n - 1] \in X
    BY <1>9
  <2> QED BY <1>2, <2>1, <2>2, <2>3
<1> HIDE DEF B
<1>10. N \in B
  BY <1>8, <1>9, Climb
<1> QED BY <1>7, <1>10 DEF B, X, Fades, Sound

\* The frame only ends reservations.
LEMMA RunFrameGood ==
  ASSUME NEW g, Good(g), NEW blocked
  PROVE  Good(RunFrame(g, blocked)) /\ Ends(g, RunFrame(g, blocked))
<1>1. RunFrame(g, blocked) \in {g, RunAll(g, blocked), CleanAll(g, blocked)}
  <2>1. RunFrame(g, blocked) =
          CASE g.stage = "queued"  -> g
            [] g.stage = "playing" -> RunAll(g, blocked)
            [] OTHER               -> CleanAll(g, blocked)
    BY DEF RunFrame, RunAll, CleanAll
  <2> QED BY <2>1
<1>2. Fades(g, RunAll(g, blocked)) /\ Fades(g, CleanAll(g, blocked))
  BY RunAllFacts, CleanAllFacts, GoodFields
<1>3. Ends(g, g)
  BY EndsReflexive, GoodFields
<1> QED BY <1>1, <1>2, <1>3, EndsGood DEF Fades

\* Only the timeout changes, and its owner has it for longer, or not at all.
LEMMA TimedGood ==
  ASSUME NEW g, Good(g), NEW h, Settling(h), Same(g, h),
         \/ h.timeout.ent = 0
         \/ /\ h.timeout.ent = g.timeout.ent /\ h.timeout.auto = g.timeout.auto
            /\ h.timeout.resuming = g.timeout.resuming /\ h.timeout.left > 0
  PROVE  Good(h)
<1>1. g \in State /\ Settling(g) /\ Owned(g) /\ Live(g) /\ Absent(g)
  BY GoodFields
<1>2. \A i \in Slots : Valid(h, i) => g.rec[i].ent \in Slots
  BY <1>1, Places DEF Same, SameSnap, Valid
<1>3. Owned(h)
  <2>1. \A t : Waiting(g, t) => Waiting(h, t)
    BY DEF Waiting, Same, SameSnap
  <2> QED BY <1>1, <2>1 DEF Owned
<1>4. Live(h)
  BY <1>1, <1>2 DEF Live, Same, SameSnap, SameClient, Valid
<1>5. Absent(h)
  BY <1>1, <1>2 DEF Absent, Same, SameSnap, SameClient, Valid
<1> QED BY <1>3, <1>4, <1>5 DEF Good, Sound

\* The same clients are connected and wait, and a timeout goes on that had
\* time left.
Beside(g, h) ==
  /\ \A s \in Slots : h.client[s].conn = g.client[s].conn
  /\ \A t : Waiting(h, t) <=> Waiting(g, t)
  /\ Retained(g) /\ g.timeout.left > 1 =>
       Retained(h) /\ h.timeout.ent = g.timeout.ent /\ h.timeout.auto = g.timeout.auto

\* What changes the timeout alone keeps who is there and who waits.
LEMMA SameBeside ==
  ASSUME NEW g, NEW h, Same(g, h)
  PROVE  /\ \A s \in Slots : h.client[s].conn = g.client[s].conn
         /\ \A t : Waiting(h, t) <=> Waiting(g, t)
BY DEF Same, SameClient, SameSnap, Waiting

\* and loses nobody.
LEMMA SameCarries ==
  ASSUME NEW g, Settling(g), NEW h, Same(g, h)
  PROVE  Carries(g, h)
<1>1. \A i \in Slots : Valid(h, i) => Valid(g, i) /\ g.rec[i].ent \in Slots
  BY Places DEF Same, SameSnap, Valid
<1>2. Rest(g) => Rest(h)
  BY <1>1 DEF Rest, Same, SameClient
<1> QED BY <1>2 DEF Carries, Same

\* One after the other, two changes of the timeout are one.
LEMMA SameTransitive ==
  ASSUME NEW g, NEW h, NEW k, Same(g, h), Same(h, k)
  PROVE  Same(g, k)
<1>1. Matched(g) => Matched(h)
  BY DEF Same, SameSnap, Matched, Valid
<1>2. Accounts(g, k) /\ NoneEnters(g, k)
  BY <1>1 DEF Same, Accounts, NoneEnters
<1>3. /\ \A s \in Slots : SameClient(g.client[s], k.client[s])
      /\ \A i \in Slots : k.rec[i].ent = g.rec[i].ent /\ SameSnap(g.snap[i], k.snap[i])
  BY DEF Same, SameClient, SameSnap
<1> QED BY <1>2, <1>3 DEF Same

\* TimeoutThink keeps the invariant.
LEMMA TickGood ==
  ASSUME NEW g, Good(g)
  PROVE  /\ Good(TickTimeout(g)) /\ Beside(g, TickTimeout(g))
         /\ Carries(g, TickTimeout(g))
<1> DEFINE t == [g.timeout EXCEPT !.left = g.timeout.left - 1]
           h == [g EXCEPT !.timeout = t]
<1>1. g \in State /\ Settling(g) /\ Owned(g) /\ g.timeout \in Timeout
  BY GoodFields, StateFields
<1>2. CASE g.timeout.left = 0
  BY <1>1, <1>2, SameReflexive, SameCarries DEF TickTimeout, Beside, Retained
<1>3. CASE g.timeout.left # 0
  <2>1. TickTimeout(g) = IF h.timeout.left = 0 THEN TimeoutEnd(h) ELSE h
    <3>1. [g EXCEPT !.timeout.left = @ - 1] = h
      OBVIOUS
    <3> QED BY <1>3, <3>1 DEF TickTimeout
  <2>2. /\ t \in Timeout /\ t.ent = g.timeout.ent /\ t.auto = g.timeout.auto
        /\ t.resuming = g.timeout.resuming
    <3>1. g.timeout.left - 1 \in Nat
      BY <1>1, <1>3 DEF Timeout
    <3> QED BY <1>1, <3>1 DEF Timeout
  <2>7. t.left = g.timeout.left - 1
    BY <1>1 DEF Timeout
  <2> HIDE DEF t
  <2>3. h \in State
    BY <1>1, <2>2 DEF State
  <2>4. Settling(h) /\ Same(g, h) /\ h.timeout = t
    <3>1. Alike(h, h)
      BY AlikeReflexive
    <3>2. NoneEnters(g, h)
      BY <1>1 DEF NoneEnters, State
    <3> QED BY <1>1, <2>2, <2>3, <3>1, <3>2, TimeoutPut
  <2> HIDE DEF h
  <2>5. CASE h.timeout.left # 0
    <3>1. h.timeout.left > 0
      BY <2>2, <2>4, <2>5 DEF Timeout
    <3>2. Good(h)
      BY <2>2, <2>4, <3>1, TimedGood
    <3>3. Beside(g, h)
      BY <2>2, <2>4, <3>1, SameBeside DEF Beside, Retained
    <3>4. Carries(g, h)
      BY <1>1, <2>4, SameCarries
    <3> QED BY <2>1, <2>5, <3>2, <3>3, <3>4
  <2>6. CASE h.timeout.left = 0
    <3>0. ~(g.timeout.left > 1)
      BY <1>1, <2>4, <2>6, <2>7 DEF Timeout
    <3> DEFINE k == TimeoutEnd(h)
    <3>1. Settling(k) /\ Same(h, k) /\ k.timeout.ent = 0
      BY <2>4, TimeoutEndFacts
    <3> HIDE DEF k
    <3>2. Same(g, k)
      BY <2>4, <3>1, SameTransitive
    <3>3. Good(k)
      BY <3>1, <3>2, TimedGood
    <3>4. Beside(g, k)
      BY <3>0, <3>2, SameBeside DEF Beside
    <3>5. Carries(g, k)
      BY <1>1, <3>2, SameCarries
    <3> QED BY <2>1, <2>6, <3>3, <3>4, <3>5 DEF k
  <2> QED BY <2>5, <2>6
<1> QED BY <1>2, <1>3

\* The client d is c after its frame.
Runs(c, d) ==
  /\ d \in Client
  /\ d.id = c.id /\ d.gen = c.gen /\ d.ghost = c.ghost /\ d.conn = c.conn
  /\ d.begun = c.begun /\ d.inuse = c.inuse /\ d.holder = c.holder /\ d.play = c.play
  /\ d.spawned => c.spawned \/ c.limbo
  /\ d.limbo => c.limbo

\* The frames of the clients keep the invariant.
LEMMA RunsGood ==
  ASSUME NEW g, Good(g), NEW h \in State, \A s \in Slots : Runs(g.client[s], h.client[s]),
         h.snap = g.snap, h.rec = g.rec, h.fall = g.fall, h.timeout = g.timeout,
         h.stage = g.stage, h.match = g.match, h.round = g.round, h.world = g.world,
         \A s \in h.abort : s \in g.abort /\ h.client[s] = g.client[s]
  PROVE  Good(h)
<1>1. /\ g \in State /\ Settling(g) /\ Owned(g) /\ Live(g) /\ Absent(g) /\ Apart(g)
      /\ \A i \in Slots : SnapOK(g, i)
      /\ \A s \in Slots : ClientOK(g, s) /\ FallOK(g, s)
  BY GoodFields DEF Settling
<1>2. \A i \in Slots : /\ Valid(h, i) <=> Valid(g, i)
                       /\ Valid(g, i) => g.rec[i].ent \in Slots
  BY <1>1, Places DEF Valid
<1>3. \A i \in Slots : SnapOK(h, i)
  <2>1. SUFFICES ASSUME NEW i \in Slots, Valid(h, i) PROVE SnapOK(h, i)
    BY DEF SnapOK
  <2>2. SnapOK(g, i) /\ Valid(g, i) /\ g.rec[i].ent \in Slots
    BY <1>1, <1>2, <2>1
  <2> DEFINE s == g.rec[i].ent
             c == g.client[s]
             d == h.client[s]
             x == g.snap[i]
  <2>3. /\ d.id = c.id /\ d.gen = c.gen /\ d.ghost = c.ghost /\ d.conn = c.conn
        /\ d.begun = c.begun /\ d.inuse = c.inuse /\ d.holder = c.holder
    BY <2>2 DEF Runs
  <2>4. /\ h.snap[i] = x /\ h.rec[i].ent = s
        /\ s \in h.abort => s \in g.abort
    OBVIOUS
  <2>5. /\ s # 0 /\ c.ghost \in {0, i}
        /\ c.conn => c.id = x.id /\ x.phase # "Expiring"
        /\ ~c.conn => c.holder /\ x.phase \notin Pending
        /\ c.conn /\ x.phase = "Reserved" => c.begun /\ c.ghost = i /\ ~c.holder
        /\ x.phase \in Pending => x.target = s /\ x.gen = c.gen /\ s \notin g.abort
        /\ x.phase \in {"Claimed", "Reinstating"} => c.inuse
        /\ x.phase = "Reinstating" => c.begun
    BY <2>2 DEF SnapOK
  <2> HIDE DEF s, c, d, x
  <2>6. SnapOK(h, i) <=>
          (/\ s # 0 /\ d.ghost \in {0, i}
           /\ d.conn => d.id = x.id /\ x.phase # "Expiring"
           /\ ~d.conn => d.holder /\ x.phase \notin Pending
           /\ d.conn /\ x.phase = "Reserved" => d.begun /\ d.ghost = i /\ ~d.holder
           /\ x.phase \in Pending => x.target = s /\ x.gen = d.gen /\ s \notin h.abort
           /\ x.phase \in {"Claimed", "Reinstating"} => d.inuse
           /\ x.phase = "Reinstating" => d.begun)
    BY <2>1, <2>4 DEF SnapOK, s, d, x
  <2> QED BY <2>3, <2>4, <2>5, <2>6
<1>4. \A s \in Slots : ClientOK(h, s)
  <2>1. SUFFICES ASSUME NEW s \in Slots PROVE ClientOK(h, s)
    OBVIOUS
  <2>2. ClientOK(g, s) /\ Runs(g.client[s], h.client[s])
    BY <1>1
  <2>3. h.client[s].ghost # 0 => h.client[s].ghost \in Slots
    BY ClientFields DEF Runs
  <2> QED BY <1>2, <2>2, <2>3 DEF ClientOK, Runs
<1>5. \A s \in Slots : FallOK(h, s)
  BY <1>1, <1>2 DEF FallOK, Runs
<1>6. Apart(h)
  BY <1>1, <1>2 DEF Apart, Runs
<1>7. Settling(h)
  BY <1>1, <1>3, <1>4, <1>5, <1>6 DEF Settling
<1>8. Owned(h)
  BY <1>1 DEF Owned, Waiting
<1>9. Live(h) /\ Absent(h)
  BY <1>1, <1>2 DEF Live, Absent, Runs
<1> QED BY <1>7, <1>8, <1>9 DEF Good, Sound

\* The clients' part of a frame keeps the invariant.
LEMMA RunClientsGood ==
  ASSUME NEW g, Good(g), NEW blocked
  PROVE  /\ Good(RunClients(g, blocked)) /\ Beside(g, RunClients(g, blocked))
         /\ Carries(g, RunClients(g, blocked))
<1> DEFINE d(s) == IF ~Active(g, s) THEN g.client[s]
                   ELSE IF g.client[s].limbo
                   THEN IF s \in blocked THEN g.client[s]
                        ELSE [g.client[s] EXCEPT !.limbo = FALSE, !.spawned = TRUE]
                   ELSE IF Protected(g, s) THEN [g.client[s] EXCEPT !.spawned = FALSE]
                   ELSE g.client[s]
           A == {s \in g.abort : g.client[s].limbo /\ s \in blocked}
           h == [g EXCEPT !.client = [s \in Slots |-> d(s)], !.abort = A]
<1>1. /\ g \in State /\ Settling(g) /\ g.client \in [Slots -> Client] /\ g.abort \subseteq Slots
  BY GoodFields, StateFields
<1>2. RunClients(g, blocked) = h
  BY <1>1 DEF RunClients, State
<1>3. \A s \in Slots : Runs(g.client[s], d(s))
  <2>1. ASSUME NEW c \in Client PROVE Runs(c, c)
    BY <2>1 DEF Runs
  <2>2. ASSUME NEW c \in Client PROVE Runs(c, [c EXCEPT !.spawned = FALSE])
    BY <2>2 DEF Runs, Client
  <2>3. ASSUME NEW c \in Client, c.limbo
        PROVE  Runs(c, [c EXCEPT !.limbo = FALSE, !.spawned = TRUE])
    BY <2>3 DEF Runs, Client
  <2>4. ASSUME NEW s \in Slots PROVE Runs(g.client[s], d(s))
    <3>1. g.client[s] \in Client
      BY <1>1
    <3> QED BY <2>1, <2>2, <2>3, <3>1
  <2> QED BY <2>4
<1>4. A \subseteq g.abort /\ \A s \in A : d(s) = g.client[s]
  OBVIOUS
<1> HIDE DEF d, A
<1>5. h \in State
  BY <1>1, <1>3, <1>4 DEF State, Runs
<1>6. /\ h.snap = g.snap /\ h.rec = g.rec /\ h.fall = g.fall /\ h.timeout = g.timeout
      /\ h.stage = g.stage /\ h.match = g.match /\ h.round = g.round /\ h.world = g.world
      /\ h.part = g.part /\ h.abort = A /\ \A s \in Slots : h.client[s] = d(s)
  BY <1>1 DEF State
<1> HIDE DEF h
<1>7. Good(h)
  BY <1>1, <1>3, <1>4, <1>5, <1>6, RunsGood
<1>8. Beside(g, h)
  BY <1>3, <1>6 DEF Beside, Runs, Waiting, Retained
<1>9. Stays(g, h)
  BY <1>3, <1>6 DEF Stays, NoneEnters, Runs, Valid
<1> QED BY <1>2, <1>6, <1>7, <1>8, <1>9, StaysCarries

-----------------------------------------------------------------------------
(* A state is given back.                                                   *)

\* The owner of reservation i plays again, and his reservation is over.
GivenBack(g, h, i) ==
  LET s == g.rec[i].ent IN
  /\ \A t \in Slots \ {s} : h.client[t] = g.client[t]
  /\ h.fall = g.fall /\ h.abort = g.abort /\ h.timeout = g.timeout
  /\ h.stage = g.stage /\ h.match = g.match /\ h.round = g.round /\ h.world = g.world
  /\ ~Valid(h, i) /\ \A j \in Slots \ {i} : h.snap[j] = g.snap[j]
  /\ \A j \in Slots : h.rec[j].ent = g.rec[j].ent
  /\ h.client[s].id = g.client[s].id /\ h.client[s].gen = g.client[s].gen
  /\ h.client[s].conn = g.client[s].conn /\ h.client[s].begun = g.client[s].begun
  /\ h.client[s].limbo = FALSE /\ h.client[s].holder = FALSE

\* A reservation that is reinstating may be given back at any time.
LEMMA GivenBackFacts ==
  ASSUME NEW g, Settling(g), NEW i \in Slots, Valid(g, i), g.snap[i].phase = "Reinstating",
         NEW h \in State, GivenBack(g, h, i)
  PROVE  LET s == g.rec[i].ent IN
         /\ s \in Slots /\ Settling(h) /\ Thins(g, h)
         /\ ~Waiting(h, s) /\ \A t : t # s => (Waiting(h, t) <=> Waiting(g, t))
<1> DEFINE s == g.rec[i].ent
<1>1. /\ s \in Slots /\ SnapOK(g, i) /\ ClientOK(g, s) /\ FallOK(g, s)
      /\ \A j \in Slots \ {i} : Valid(g, j) => g.rec[j].ent # s
  BY Places
<1>2. /\ \A t \in Slots \ {s} : h.client[t] = g.client[t]
      /\ h.fall = g.fall /\ h.abort = g.abort
      /\ h.stage = g.stage /\ h.match = g.match /\ h.round = g.round /\ h.world = g.world
      /\ ~Valid(h, i) /\ \A j \in Slots \ {i} : h.snap[j] = g.snap[j]
      /\ \A j \in Slots : h.rec[j].ent = g.rec[j].ent
      /\ h.client[s].id = g.client[s].id /\ h.client[s].gen = g.client[s].gen
      /\ h.client[s].conn = g.client[s].conn /\ h.client[s].begun = g.client[s].begun
      /\ h.client[s].limbo = FALSE /\ h.client[s].holder = FALSE
  BY DEF GivenBack
<1>3. g.client[s].conn /\ g.client[s].begun /\ s \notin g.abort /\ ~g.fall[s].valid
  BY <1>1 DEF SnapOK, FallOK, Pending
<1>4. g.world <= g.round
  BY DEF Settling
<1> HIDE DEF s
<1>5. Near(g, h, s, i)
  BY <1>1, <1>2 DEF Near
<1>6. ThinsAt(g, h, s, i)
  BY <1>2 DEF ThinsAt
<1>7. Thins(g, h) /\ Apart(h)
  BY <1>5, <1>6, ThinsLocal
<1>8. ClientOK(h, s) /\ FallOK(h, s)
  BY <1>1, <1>2, <1>3 DEF ClientOK, FallOK
<1>9. SnapOK(h, i)
  BY <1>2 DEF SnapOK
<1>10. Settling(h)
  <2>1. \A t \in Slots \ {s} : i \in Slots /\ g.client[t].ghost = i => h.rec[i].ent # t
    BY <1>2 DEF s
  <2>2. h.world <= h.round
    BY <1>2, <1>4
  <2> QED BY <1>2, <1>5, <1>7, <1>8, <1>9, <2>1, <2>2, Local
<1>11. \A t : t # s => (Waiting(h, t) <=> Waiting(g, t))
  <2>1. g.rec[i].ent = s
    BY DEF s
  <2> QED BY <1>2, <1>5, <2>1, NearWaiting
<1>12. ~Waiting(h, s)
  BY <1>1, <1>2 DEF Waiting, Valid
<1> QED BY <1>1, <1>7, <1>10, <1>11, <1>12 DEF s

\* The client c plays on with record i.
PlaysAgain(c, holds, i) ==
  [c EXCEPT !.play = TRUE, !.holds = holds, !.spawned = TRUE, !.limbo = FALSE,
            !.inactive = FALSE, !.inuse = TRUE, !.holder = FALSE, !.ghost = i]

\* Who plays on is the same connection.
LEMMA PlaysFields ==
  ASSUME NEW c \in Client, NEW holds \in BOOLEAN, NEW i \in Slots
  PROVE  LET d == PlaysAgain(c, holds, i) IN
         /\ d \in Client /\ d.id = c.id /\ d.gen = c.gen /\ d.conn = c.conn
         /\ d.begun = c.begun /\ d.limbo = FALSE /\ d.holder = FALSE
         /\ d.play = TRUE
<1>1. i \in {0} \cup Slots
  OBVIOUS
<1> QED BY <1>1 DEF PlaysAgain, Client

\* RestoreSnapshot gives the state back, and with it the timeout.
LEMMA RestoreGood ==
  ASSUME NEW g, Good(g), NEW i \in Slots, Valid(g, i), g.snap[i].phase = "Reinstating"
  PROVE  Good(Restore(g, i)) /\ Ends(g, Restore(g, i))
<1> DEFINE s == g.rec[i].ent
           c == [g.client[s] EXCEPT !.ghost = i]
           m == [g EXCEPT !.client[s] = c]
           k == ClearSnap(m, i)
           d == PlaysAgain(k.client[s], g.snap[i].holds, i)
           r == [k.rec[i] EXCEPT !.code = FALSE]
           h == [k EXCEPT !.client[s] = d, !.rec[i] = r]
<1>1. /\ g \in State /\ Settling(g) /\ Owned(g) /\ g.client \in [Slots -> Client]
      /\ g.rec \in [Slots -> Record]
  BY GoodFields, StateFields
<1>2. /\ s \in Slots /\ s # 0 /\ SnapOK(g, i) /\ ClientOK(g, s) /\ FallOK(g, s)
      /\ g.client[s] \in Client /\ g.snap[i].holds \in BOOLEAN
      /\ \A j \in Slots \ {i} : Valid(g, j) => g.rec[j].ent # s
  BY <1>1, Places, ReservationFields DEF Slots
<1>3. Restore(g, i) = ResumeFor(h, s)
  <2>1. [g EXCEPT !.client[s].ghost = i] = m
    OBVIOUS
  <2> QED BY <2>1 DEF Restore, PlaysAgain
<1>4. /\ c \in Client /\ c.ghost = i
      /\ c.id = g.client[s].id /\ c.gen = g.client[s].gen /\ c.conn = g.client[s].conn
      /\ c.begun = g.client[s].begun /\ c.spawned = g.client[s].spawned
      /\ c.limbo = g.client[s].limbo /\ c.inuse = g.client[s].inuse
      /\ c.holder = g.client[s].holder
  <2>1. i \in {0} \cup Slots
    OBVIOUS
  <2> QED BY <1>2, <2>1 DEF Client
<1>5. g.client[s].conn /\ g.client[s].begun /\ s \notin g.abort /\ ~g.fall[s].valid
  BY <1>2 DEF SnapOK, FallOK, Pending
<1> HIDE DEF s, c
<1>6. /\ m \in State /\ m.client[s] = c /\ \A t \in Slots \ {s} : m.client[t] = g.client[t]
      /\ m.snap = g.snap /\ m.rec = g.rec /\ m.fall = g.fall /\ m.abort = g.abort
      /\ m.timeout = g.timeout /\ m.stage = g.stage /\ m.match = g.match
      /\ m.round = g.round /\ m.world = g.world /\ m.part = g.part
  BY <1>1, <1>2, <1>4 DEF State
<1> HIDE DEF m
<1>7. Settling(m)
  <2>1. Turned(g, m, s)
    BY <1>4, <1>6 DEF Turned
  <2>2. ClientOK(m, s) /\ FallOK(m, s)
    BY <1>2, <1>4, <1>5, <1>6 DEF ClientOK, FallOK
  <2>3. SnapOK(m, i)
    <3>1. m.snap[i] = g.snap[i] /\ m.rec[i].ent = s /\ g.rec[i].ent = s
      BY <1>6 DEF s
    <3>2. /\ g.client[s].id = g.snap[i].id /\ g.snap[i].target = s
          /\ g.snap[i].gen = g.client[s].gen /\ g.client[s].inuse
      BY <1>2, <1>5, <3>1 DEF SnapOK, Pending
    <3>3. /\ m.snap[i].phase = "Reinstating" /\ m.snap[i].id = m.client[s].id
          /\ m.snap[i].target = s /\ m.snap[i].gen = m.client[s].gen /\ m.client[s].inuse
          /\ m.client[s].conn /\ m.client[s].begun /\ m.client[s].ghost = i
          /\ s \notin m.abort
      BY ZenonT(40), <1>4, <1>5, <1>6, <3>1, <3>2
    <3> QED BY <1>2, <3>1, <3>3 DEF SnapOK
  <2>4. ASSUME NEW j \in Slots, Valid(g, j), g.rec[j].ent = s
        PROVE  SnapOK(m, j) /\ (g.stage = "playing" => m.client[s].ghost = j)
    BY <1>2, <1>4, <1>6, <2>3, <2>4
  <2>5. Good(m)
    BY <1>2, <1>6, <2>1, <2>2, <2>4, SlotGood
  <2> QED BY <2>5, GoodFields
<1>8. /\ k \in State /\ k.rec = g.rec /\ k.fall = g.fall /\ k.abort = g.abort
      /\ k.timeout = g.timeout /\ k.stage = g.stage /\ k.match = g.match
      /\ k.round = g.round /\ k.world = g.world /\ k.part = g.part
      /\ ~Valid(k, i) /\ \A j \in Slots \ {i} : k.snap[j] = g.snap[j]
      /\ \A t \in Slots \ {s} : k.client[t] = g.client[t]
      /\ k.client[s] = Vacated(m, i)
  <2>1. m.rec[i].ent = s
    BY <1>6 DEF s
  <2> QED BY <1>2, <1>6, <1>7, <2>1, ClearSnapFrame
<1>9. /\ k.client[s] \in Client /\ k.client[s].conn = g.client[s].conn
      /\ k.client[s].id = g.client[s].id /\ k.client[s].gen = g.client[s].gen
      /\ k.client[s].begun = g.client[s].begun
  <2>1. m.rec[i].ent = s
    BY <1>6 DEF s
  <2>2. Vacated(m, i) \in Client /\ Leaves(m.client[s], Vacated(m, i), i)
    BY <1>2, <1>7, <2>1, VacatedFields
  <2> QED BY ZenonT(40), <1>4, <1>5, <1>6, <1>8, <2>2 DEF Leaves
<1> HIDE DEF k
<1>10. /\ d \in Client /\ d.id = g.client[s].id /\ d.gen = g.client[s].gen
       /\ d.conn = g.client[s].conn /\ d.begun = g.client[s].begun
       /\ d.limbo = FALSE /\ d.holder = FALSE /\ d.play = TRUE
  BY ZenonT(40), <1>2, <1>9, PlaysFields
<1>11. r \in Record /\ r.ent = g.rec[i].ent
  BY <1>1, <1>8 DEF Record
<1> HIDE DEF d, r
<1>12. /\ h \in State /\ GivenBack(g, h, i)
       /\ h.part = g.part /\ h.client[s].play = TRUE
  <2>1. h \in State
    BY <1>2, <1>8, <1>10, <1>11 DEF State
  <2>2. /\ h.client[s] = d /\ \A t \in Slots \ {s} : h.client[t] = k.client[t]
        /\ h.rec[i] = r /\ \A j \in Slots \ {i} : h.rec[j] = k.rec[j]
        /\ h.snap = k.snap /\ h.fall = k.fall /\ h.abort = k.abort
        /\ h.timeout = k.timeout /\ h.stage = k.stage /\ h.match = k.match
        /\ h.round = k.round /\ h.world = k.world /\ h.part = k.part
    BY <1>2, <1>8 DEF State
  <2> HIDE DEF h
  <2> QED BY <1>8, <1>10, <1>11, <2>1, <2>2 DEF GivenBack, Valid, s
<1> HIDE DEF h
<1>13. /\ Settling(h) /\ Thins(g, h) /\ ~Waiting(h, s) /\ h.timeout = g.timeout
       /\ \A t : t # s => (Waiting(h, t) <=> Waiting(g, t))
  BY ZenonT(40), <1>1, <1>12, GivenBackFacts DEF s, GivenBack
<1>14. Released(h, ResumeFor(h, s), s)
  <2>1. h.timeout.ent = s => h.timeout.auto /\ ~h.timeout.resuming /\ h.timeout.left > 0
    BY <1>1, <1>2, <1>13 DEF Owned
  <2> QED BY <1>2, <1>13, <2>1, ResumeForFacts
<1>15. Spares(g, h, i)
  BY <1>12 DEF GivenBack, Spares, Valid
<1>17. Accounts(g, h)
  <2>1. /\ \A t \in Slots \ {s} : h.client[t] = g.client[t]
        /\ \A j \in Slots \ {i} : h.snap[j] = g.snap[j]
        /\ h.client[s].conn /\ h.client[s].play /\ h.client[s].id = g.client[s].id
    BY <1>5, <1>12 DEF GivenBack, s
  <2>2. g.client[s].id = g.snap[i].id
    BY <1>2, <1>5 DEF SnapOK, s
  <2>3. \A t \in Slots : g.client[t].conn /\ g.client[t].play => Present(h, g.client[t].id)
    BY <1>2, <2>1 DEF Present, Plays
  <2>4. \A j \in Slots : Valid(g, j) /\ ~g.snap[j].settled => Present(h, g.snap[j].id)
    BY <1>2, <2>1, <2>2 DEF Present, Plays, Reserves, Valid
  <2> QED BY <1>12, <2>3, <2>4, PresentMoves
<1>16. Ending(g, ResumeFor(h, s), i)
  BY <1>17, <1>1, <1>2, <1>12, <1>13, <1>14, <1>15, EndingAt DEF GivenBack
<1> QED BY <1>3, <1>16, EndsGood DEF Ending

\* FinishPendingRestore keeps the invariant.
LEMMA FinishGood ==
  ASSUME NEW g, Good(g), NEW i \in Slots, Valid(g, i), g.snap[i].phase = "Reinstating",
         NEW blocked
  PROVE  Good(FinishRestore(g, i, blocked)) /\ Ends(g, FinishRestore(g, i, blocked))
<1> DEFINE s == g.rec[i].ent
           x == [g.snap[i] EXCEPT !.reinstate = 1]
           h == [g EXCEPT !.snap[i] = x]
<1>1. g \in State /\ Settling(g) /\ Sound(g)
  BY GoodFields
<1>2. RestoreTarget(g, i) = s /\ s # 0 /\ g.snap[i] \in Reservation
  <2>1. 0 \notin Slots
    BY DEF Slots
  <2> QED BY <1>1, <2>1, TargetIs, Places
<1>3. FinishRestore(g, i, blocked) \in {Restore(g, i), Abort(g, i, TRUE, TRUE, blocked), h}
  <2>1. [g EXCEPT !.snap[i].reinstate = 1] = h
    OBVIOUS
  <2> QED BY <1>2, <2>1 DEF FinishRestore
<1>4. Good(Restore(g, i)) /\ Ends(g, Restore(g, i))
  BY RestoreGood
<1>5. Good(Abort(g, i, TRUE, TRUE, blocked)) /\ Ends(g, Abort(g, i, TRUE, TRUE, blocked))
  <2>1. Ending(g, Abort(g, i, TRUE, TRUE, blocked), i)
    BY <1>1, AbortFacts
  <2> QED BY <2>1, EndsGood DEF Ending
<1>6. Good(h) /\ Ends(g, h)
  <2>1. 1 \in 0..Delay
    BY GhostAssumption
  <2>2. /\ x \in Reservation /\ x.phase = g.snap[i].phase /\ x.id = g.snap[i].id
        /\ x.target = g.snap[i].target /\ x.gen = g.snap[i].gen
        /\ x.match = g.snap[i].match /\ x.round = g.snap[i].round
        /\ x.world = g.snap[i].world /\ x.settled = g.snap[i].settled
    BY <1>2, <2>1 DEF Reservation
  <2> HIDE DEF x
  <2>3. h \in State /\ Alike(g, h)
    BY <1>1, <2>2, TickSnapAlike
  <2> HIDE DEF h
  <2> QED BY <1>1, <2>3, AlikeGood, AlikeSound
<1> HIDE DEF h
<1> QED BY <1>3, <1>4, <1>5, <1>6

\* Of the numbers of some slots one is the least.
LEMMA FirstExists ==
  ASSUME NEW f \in [Slots -> Nat], NEW S \in SUBSET Slots, S # {}
  PROVE  \E i \in S : \A j \in S : f[i] <= f[j]
<1> DEFINE T == {f[i] : i \in S}
<1>1. T # {} /\ T \subseteq Nat
  OBVIOUS
<1>2. PICK m \in T : \A n \in T : ~(<<n, m>> \in OpToRel(<, Nat))
  BY <1>1, NatLessThanWellFounded, WFMin
<1>3. PICK i \in S : m = f[i]
  BY <1>2
<1>4. ASSUME NEW j \in S PROVE f[i] <= f[j]
  <2>1. f[i] \in Nat /\ f[j] \in Nat /\ f[j] \in T
    BY <1>3
  <2>2. ~(f[j] < f[i])
    BY <1>2, <1>3, <2>1 DEF OpToRel
  <2> QED BY <2>1, <2>2
<1> QED BY <1>4

\* RunOneDueRestoreCommit finishes one reservation, whose turn it is.
LEMMA CommitGood ==
  ASSUME NEW g, Good(g), NEW blocked
  PROVE  Good(CommitOne(g, blocked)) /\ Ends(g, CommitOne(g, blocked))
<1>1. g \in State /\ g.cursor \in Slots /\ Settling(g)
  BY GoodFields, StateFields
<1>2. CASE g.stage # "playing" \/ Due(g) = {}
  BY <1>1, <1>2, EndsReflexive DEF CommitOne
<1>3. CASE ~(g.stage # "playing" \/ Due(g) = {})
  <2> DEFINE turn(i) == (i + N - g.cursor) % N
             f == [i \in Slots |-> turn(i)]
             next == CHOOSE i \in Due(g) : \A j \in Due(g) : turn(i) <= turn(j)
             m == (next % N) + 1
             h == [g EXCEPT !.cursor = m]
  <2>1. CommitOne(g, blocked) = FinishRestore(h, next, blocked)
    BY <1>3 DEF CommitOne
  <2>2. N \in Nat \ {0}
    BY GhostAssumption
  <2>3. \A i \in Slots : turn(i) \in Nat
    <3>1. ASSUME NEW i \in Slots PROVE turn(i) \in Nat
      <4>1. i + N - g.cursor \in Int
        BY <1>1, <2>2 DEF Slots
      <4> QED BY <2>2, <4>1
    <3> QED BY <3>1
  <2>4. f \in [Slots -> Nat] /\ \A i \in Slots : f[i] = turn(i)
    BY <2>3
  <2> HIDE DEF turn, f
  <2>5. Due(g) \subseteq Slots /\ Due(g) # {}
    BY <1>3 DEF Due
  <2>6. \E i \in Due(g) : \A j \in Due(g) : f[i] <= f[j]
    BY <2>4, <2>5, FirstExists
  <2>7. next \in Due(g)
    <3>1. \E i \in Due(g) : \A j \in Due(g) : turn(i) <= turn(j)
      BY <2>4, <2>5, <2>6
    <3> QED BY <3>1
  <2> HIDE DEF next
  <2>8. next \in Slots /\ Valid(g, next) /\ g.snap[next].phase = "Reinstating"
    BY <2>7 DEF Due, Current, BelongsToWorld, BelongsToMatch, Valid
  <2>9. m \in Slots
    <3>1. next \in Nat
      BY <2>8 DEF Slots
    <3>2. next % N \in 0..(N - 1)
      BY <2>2, <3>1
    <3> QED BY <2>2, <3>2 DEF Slots
  <2> HIDE DEF m
  <2>10. h \in State /\ h.snap = g.snap /\ Alike(g, h)
    <3>1. /\ h \in State /\ h.snap = g.snap /\ h.client = g.client /\ h.part = g.part
          /\ h.rec = g.rec /\ h.fall = g.fall /\ h.abort = g.abort /\ h.timeout = g.timeout
          /\ h.stage = g.stage /\ h.match = g.match /\ h.round = g.round /\ h.world = g.world
      BY <1>1, <2>9 DEF State
    <3> HIDE DEF h
    <3> QED BY <3>1, SameAccounts DEF Alike, Resembles, SameClient, SameSnap
  <2> HIDE DEF h
  <2>11. Good(h) /\ Ends(g, h)
    BY <1>1, <2>10, AlikeGood, AlikeSound
  <2> DEFINE k == FinishRestore(h, next, blocked)
  <2>12. Good(k) /\ Ends(h, k)
    BY <2>8, <2>10, <2>11, FinishGood DEF Valid
  <2> HIDE DEF k
  <2>13. Ends(g, k)
    BY <2>11, <2>12, EndsTransitive
  <2> QED BY <2>1, <2>12, <2>13 DEF k
<1> QED BY <1>2, <1>3

\* A server frame keeps the invariant, and ends no timeout that has time left
\* but with its owner.
LEMMA FrameGood ==
  ASSUME Good(w), NEW blocked, Frame(blocked)
  PROVE  Good(w') /\ NobodyNew(w, w') /\ (w.timeout.left > 1 => Passed(w, w'))
         /\ Carries(w, w')
<1> DEFINE a == RunFrame(w, blocked)
           b == IF a.timeout.left > 0 THEN TickTimeout(a)
                ELSE IF a.stage = "intermission" THEN a ELSE RunClients(a, blocked)
<1>1. w' = CommitOne(b, blocked)
  BY DEF Frame
<1>2. Good(a) /\ Ends(w, a)
  BY RunFrameGood
<1>3. b \in {a, TickTimeout(a), RunClients(a, blocked)}
  OBVIOUS
<1> HIDE DEF a, b
<1>4. Good(b) /\ Beside(a, b) /\ Carries(a, b)
  <2>1. Beside(a, a)
    BY DEF Beside
  <2>2. Carries(a, a)
    BY SameAccounts DEF Carries
  <2> QED BY <1>2, <1>3, <2>1, <2>2, TickGood, RunClientsGood
<1>5. Good(w') /\ Ends(b, w')
  BY <1>1, <1>4, CommitGood
<1>8. Carries(w, w')
  <2>1. Carries(w, a) /\ Carries(b, w')
    BY <1>2, <1>4, <1>5, EndsCarries
  <2>2. Carries(w, b)
    BY <1>2, <1>4, <2>1, CarriesTransitive
  <2> QED BY <1>4, <2>1, <2>2, CarriesTransitive
<1>6. NobodyNew(w, w')
  BY <1>2, <1>4, <1>5 DEF NobodyNew, Ends, Thins, Beside
<1>7. ASSUME w.timeout.left > 1, w.timeout.auto, Retained(w), ~Retained(w')
      PROVE  LET o == w.timeout.ent IN o # 0 /\ Waiting(w, o) /\ ~Waiting(w', o)
  <2> DEFINE o == w.timeout.ent
  <2>1. Waiting(b, o) <=> Waiting(a, o)
    BY <1>4 DEF Beside
  <2>2. (Waiting(a, o) => Waiting(w, o)) /\ (Waiting(w', o) => Waiting(b, o))
    BY <1>2, <1>5, ThinsWaiting DEF Ends
  <2>3. CASE a.timeout = w.timeout
    <3>1. Retained(b) /\ b.timeout.ent = o /\ b.timeout.auto
      BY <1>4, <1>7, <2>3 DEF Beside, Retained
    <3>2. Passed(b, w')
      BY <1>5, EndsPassed
    <3> QED BY <1>7, <2>1, <2>2, <3>1, <3>2 DEF Passed, Resumes
  <2>4. CASE o # 0 /\ Waiting(w, o) /\ ~Waiting(a, o)
    BY <2>1, <2>2, <2>4
  <2> QED BY <1>2, <2>3, <2>4 DEF Ends, Keeps
<1> QED BY <1>5, <1>6, <1>7, <1>8 DEF Passed, Resumes

-----------------------------------------------------------------------------
(* The stages and rounds of the match.                                      *)

\* Another stage, match or round is all that is new.
Elsewhen(g, h) ==
  /\ h.client = g.client /\ h.rec = g.rec /\ h.snap = g.snap /\ h.fall = g.fall
  /\ h.abort = g.abort /\ h.timeout = g.timeout

\* The stage, the match and the round may change while no reservation belongs
\* to them.
LEMMA ElsewhenFacts ==
  ASSUME NEW g, Good(g), NEW h \in State, Elsewhen(g, h), h.world <= h.round
  PROVE  /\ Sound(h) /\ Absent(h)
         /\ h.stage # "playing" \/ (\A i \in Slots : ~Valid(h, i)) => Good(h)
<1>1. /\ g \in State /\ Settling(g) /\ Owned(g) /\ Absent(g)
      /\ \A i \in Slots : SnapOK(g, i)
      /\ \A s \in Slots : ClientOK(g, s) /\ FallOK(g, s)
      /\ Apart(g)
  BY GoodFields DEF Settling
<1>2. /\ h.client = g.client /\ h.rec = g.rec /\ h.snap = g.snap /\ h.fall = g.fall
      /\ h.abort = g.abort /\ h.timeout = g.timeout
  BY DEF Elsewhen
<1>3. \A i \in Slots : SnapOK(h, i)
  BY <1>1, <1>2 DEF SnapOK, Valid
<1>4. \A s \in Slots : ClientOK(h, s) /\ FallOK(h, s)
  BY <1>1, <1>2 DEF ClientOK, FallOK, Valid
<1>5. Apart(h)
  BY <1>1, <1>2 DEF Apart, Valid
<1>6. Settling(h)
  BY <1>3, <1>4, <1>5 DEF Settling
<1>7. Owned(h) /\ Absent(h)
  BY <1>1, <1>2 DEF Owned, Absent, Waiting, Valid
<1>8. h.stage # "playing" \/ (\A i \in Slots : ~Valid(h, i)) => Live(h)
  BY DEF Live
<1> QED BY <1>6, <1>7, <1>8 DEF Good, Sound

\* Whoever takes part is still accounted for.
Remains(g, h) == Accounted(g) /\ Rest(g) => Accounted(h) /\ Rest(h)

\* So it is where nobody is lost,
LEMMA CarriesRemains ==
  ASSUME NEW g, Good(g), NEW h, Carries(g, h)
  PROVE  Remains(g, h)
<1>1. ASSUME g.stage = "playing" PROVE Matched(g)
  BY <1>1, GoodFields DEF Matched, Live
<1> QED BY <1>1 DEF Remains, Carries, Accounts, Accounted

\* and outside a match.
LEMMA OverRemains ==
  ASSUME NEW g, NEW h, h.stage # "playing"
  PROVE  Remains(g, h)
BY DEF Remains, Accounted, Rest

\* Nobody connects, and a timeout with time left sees another stage.
Switches(g, h) == NobodyNew(g, h) /\ (g.timeout.left > 1 => h.stage # g.stage)

\* QueueIntermission and BeginIntermission keep the invariant.
LEMMA IntermissionGood ==
  ASSUME Good(w), QueueIntermission \/ BeginIntermission
  PROVE  Good(w') /\ Switches(w, w') /\ Remains(w, w')
<1>1. w \in State /\ w.world <= w.round
  BY GoodFields DEF Settling
<1>2. PICK st \in Stages \ {"playing"} :
        w' = [w EXCEPT !.stage = st] /\ (w.timeout.left = 0 \/ st # w.stage)
  BY DEF QueueIntermission, BeginIntermission, Stages
<1>3. /\ w' \in State /\ Elsewhen(w, w') /\ w'.world <= w'.round /\ w'.stage # "playing"
      /\ w'.stage = st
  <2> DEFINE h == [w EXCEPT !.stage = st]
  <2>1. /\ h \in State /\ Elsewhen(w, h) /\ h.world <= h.round /\ h.stage # "playing"
        /\ h.stage = st
    BY <1>1, <1>2 DEF State, Elsewhen
  <2> QED BY <1>2, <2>1
<1>4. Switches(w, w')
  BY <1>2, <1>3 DEF Switches, NobodyNew, Elsewhen
<1> QED BY <1>3, <1>4, ElsewhenFacts, OverRemains

\* ResetEntities is not the invariant's.
LEMMA RebuildAlike ==
  ASSUME NEW g \in State
  PROVE  RebuildWorld(g) \in State /\ Alike(g, RebuildWorld(g))
<1> DEFINE d(s) == [g.client[s] EXCEPT !.holds = FALSE]
           f == [s \in Slots |-> d(s)]
           h == [g EXCEPT !.item = 1, !.client = f]
<1>1. RebuildWorld(g) = h
  BY DEF RebuildWorld, State
<1>2. ASSUME NEW s \in Slots
      PROVE  d(s) \in Client /\ SameClient(g.client[s], d(s)) /\ d(s).play = g.client[s].play
  <2>1. g.client[s] \in Client
    BY StateFields
  <2> QED BY <2>1 DEF Client, SameClient
<1> HIDE DEF d
<1>2a. f \in [Slots -> Client] /\ \A s \in Slots : f[s] = d(s)
  BY <1>2
<1>2b. 1 \in 0..2
  OBVIOUS
<1> HIDE DEF f
<1>3. h \in State
  BY <1>2a, <1>2b DEF State
<1>4. /\ h.rec = g.rec /\ h.snap = g.snap /\ h.fall = g.fall /\ h.abort = g.abort
      /\ h.timeout = g.timeout /\ h.stage = g.stage /\ h.match = g.match
      /\ h.round = g.round /\ h.world = g.world /\ h.part = g.part
      /\ \A s \in Slots : h.client[s] = d(s)
  BY <1>2a DEF State
<1> HIDE DEF h
<1>5. Accounts(g, h)
  <2>1. \A s \in Slots : /\ h.client[s].conn = g.client[s].conn
                         /\ h.client[s].id = g.client[s].id /\ h.client[s].play = g.client[s].play
    BY <1>2, <1>4 DEF SameClient
  <2>2. \A id : (Plays(g, id) => Plays(h, id)) /\ (Reserves(g, id) => Reserves(h, id))
    BY <1>4, <2>1 DEF Plays, Reserves, Valid
  <2> QED BY <1>4, <2>2 DEF Accounts, Present
<1> QED BY <1>1, <1>2, <1>3, <1>4, <1>5 DEF Alike, Resembles, SameSnap

\* Reservation i belongs to the round, or its client is on his way back.
OfRound(h, i) == Valid(h, i) => h.snap[i].phase = "AwaitingBegin" \/ h.snap[i].round = h.round

\* What is of the round stays of the round.
LEMMA ThinsOfRound ==
  ASSUME NEW g, NEW h, Thins(g, h), NEW i \in Slots, OfRound(g, i)
  PROVE  OfRound(h, i)
<1> QED BY DEF OfRound, Thins

\* One reservation in the transition to a new round.
Transit(h, i, blocked) ==
  IF ~h.snap[i].valid \/ h.snap[i].round = h.round THEN h
  ELSE IF h.snap[i].phase = "AwaitingBegin" THEN ResolveHandoff(h, i)
  ELSE IF h.snap[i].phase \in {"Claimed", "Reinstating"}
  THEN LET k == Abort(h, i, BelongsToWorld(h, i), TRUE, blocked)
       IN IF k.snap[i].valid /\ k.snap[i].phase = "AwaitingBegin"
          THEN ResolveHandoff(k, i) ELSE k
  ELSE ExpireOrDiscard(h, i, blocked)

\* It ends unless it is of the round.
LEMMA TransitFacts ==
  ASSUME NEW g, Sound(g), NEW i \in Slots, NEW blocked
  PROVE  Fades(g, Transit(g, i, blocked)) /\ OfRound(Transit(g, i, blocked), i)
<1>1. CASE ~g.snap[i].valid \/ g.snap[i].round = g.round
  BY <1>1, FadesReflexive DEF Transit, OfRound, Valid
<1>2. CASE g.snap[i].valid /\ g.snap[i].round # g.round
  <2>1. Valid(g, i)
    BY <1>2 DEF Valid
  <2>2. CASE g.snap[i].phase = "AwaitingBegin"
    <3>1. Gone(g, ResolveHandoff(g, i), i)
      BY <2>1, <2>2, ResolveFacts
    <3> QED BY <1>2, <2>2, <3>1 DEF Transit, Gone, Ending, Fades, OfRound
  <2>3. CASE g.snap[i].phase \in {"Claimed", "Reinstating"}
    <3> DEFINE k == Abort(g, i, BelongsToWorld(g, i), TRUE, blocked)
    <3>1. Ending(g, k, i)
      <4>1. BelongsToWorld(g, i) \in BOOLEAN
        BY DEF BelongsToWorld, BelongsToMatch
      <4> QED BY <2>1, <2>3, <4>1, AbortFacts
    <3>2. Transit(g, i, blocked) = IF k.snap[i].valid /\ k.snap[i].phase = "AwaitingBegin"
                                   THEN ResolveHandoff(k, i) ELSE k
      BY <1>2, <2>3 DEF Transit
    <3> HIDE DEF k
    <3>3. Settling(k) /\ Ends(g, k) /\ Sound(k)
      BY <3>1, EndingSound DEF Ending
    <3>4. CASE k.snap[i].valid /\ k.snap[i].phase = "AwaitingBegin"
      <4>1. Gone(k, ResolveHandoff(k, i), i)
        BY <3>3, <3>4, ResolveFacts DEF Valid
      <4>2. Settling(ResolveHandoff(k, i)) /\ Ends(k, ResolveHandoff(k, i))
            /\ ~Valid(ResolveHandoff(k, i), i)
        BY <4>1 DEF Gone, Ending
      <4>3. Ends(g, ResolveHandoff(k, i))
        BY <3>3, <4>2, EndsTransitive
      <4> QED BY <3>2, <3>4, <4>2, <4>3 DEF Fades, OfRound
    <3>5. CASE ~(k.snap[i].valid /\ k.snap[i].phase = "AwaitingBegin")
      <4>1. ~Valid(k, i)
        BY <3>1, <3>5 DEF Ending, Valid
      <4> QED BY <3>2, <3>3, <3>5, <4>1 DEF Fades, OfRound
    <3> QED BY <3>4, <3>5
  <2>4. CASE g.snap[i].phase \notin {"AwaitingBegin", "Claimed", "Reinstating"}
    <3>1. Ending(g, ExpireOrDiscard(g, i, blocked), i)
          /\ ~Valid(ExpireOrDiscard(g, i, blocked), i)
      BY <2>1, <2>4, ExpireFacts
    <3> QED BY <1>2, <2>4, <3>1 DEF Transit, Ending, Fades, OfRound
  <2> QED BY <2>2, <2>3, <2>4
<1> QED BY <1>1, <1>2

\* MM_Ghost_ResolveRoundTransition leaves no reservation of an earlier round.
LEMMA ResolveRoundFacts ==
  ASSUME NEW g, Sound(g), NEW blocked
  PROVE  LET h == ResolveRound(g, blocked)
         IN Fades(g, h) /\ \A i \in Slots : OfRound(h, i)
<1> DEFINE X == {h \in State : Sound(h) /\ Ends(g, h)}
           one(h, i) == Transit(h, i, blocked)
           F == [h \in X |-> [i \in Slots |-> one(h, i)]]
           Is(f) == f = [n \in 0..N |-> IF n = 0 THEN g ELSE one(f[n - 1], n)]
           after == CHOOSE f : Is(f)
           B == {n \in 0..N : after[n] \in X /\ \A i \in 1..n : OfRound(after[n], i)}
<1>0. N \in Nat
  BY GhostAssumption
<1>1. g \in X
  BY EndsReflexive DEF Sound, Settling
<1>2. ASSUME NEW h \in X, NEW i \in Slots PROVE one(h, i) \in X
  <2>1. Sound(h) /\ Ends(g, h)
    OBVIOUS
  <2>2. Fades(h, one(h, i))
    BY <2>1, TransitFacts
  <2>3. Sound(one(h, i)) /\ one(h, i) \in State
    BY <2>1, <2>2, EndingSound DEF Fades, Settling
  <2>4. Ends(g, one(h, i))
    BY <2>1, <2>2, EndsTransitive DEF Fades
  <2> QED BY <2>3, <2>4
<1> HIDE DEF X
<1>3. F \in [X -> [Slots -> X]]
  BY <1>2
<1>3f. \A h \in X, i \in Slots : F[h][i] = one(h, i)
  OBVIOUS
<1> HIDE DEF F
<1>4. PICK f \in [0..N -> X] : Follows(f, g, F)
  BY <1>1, <1>3, EachExists
<1>5. Is(f)
  <2>1. ASSUME NEW n \in 0..N, n # 0 PROVE F[f[n - 1]][n] = one(f[n - 1], n)
    <3>1. n \in Slots /\ n - 1 \in 0..N
      BY <1>0, <2>1 DEF Slots
    <3>2. f[n - 1] \in X
      BY <1>4, <3>1
    <3> QED BY <1>3f, <3>1, <3>2
  <2> HIDE DEF one
  <2> QED BY <1>4, <2>1 DEF Follows
<1>6. Is(after)
  BY <1>5
<1>7. ResolveRound(g, blocked) = after[N]
  BY DEF ResolveRound, Transit, Each
<1> HIDE DEF after, one
<1>8. 0 \in B
  BY <1>0, <1>1, <1>6
<1>9. ASSUME NEW n \in Slots, n - 1 \in B PROVE n \in B
  <2>1. n \in 0..N /\ n # 0
    BY <1>0 DEF Slots
  <2>2. after[n] = one(after[n - 1], n)
    BY <1>6, <2>1
  <2>3. after[n - 1] \in X
    BY <1>9
  <2>4. after[n - 1] \in X /\ Sound(after[n - 1])
        /\ \A i \in 1..(n - 1) : OfRound(after[n - 1], i)
    BY <1>9 DEF X
  <2>5. Fades(after[n - 1], after[n]) /\ OfRound(after[n], n)
    BY <2>2, <2>4, TransitFacts DEF one
  <2>6. \A i \in 1..(n - 1) : OfRound(after[n], i)
    <3>1. 1..(n - 1) \subseteq Slots
      BY <1>0, <1>9 DEF Slots
    <3> QED BY <2>4, <2>5, <3>1, ThinsOfRound DEF Fades, Ends
  <2>7. \A i \in 1..n : i = n \/ i \in 1..(n - 1)
    BY <2>1
  <2>8. after[n] \in X
    BY <1>2, <2>1, <2>2, <2>3
  <2> QED BY <2>1, <2>5, <2>6, <2>7, <2>8
<1> HIDE DEF B
<1>10. N \in B
  BY <1>8, <1>9, Climb
<1> QED BY <1>0, <1>7, <1>10 DEF B, X, Fades, Sound, Slots

\* A new round, which may rebuild the world, keeps the invariant.
LEMMA StartNewRoundGood ==
  ASSUME Good(w), NEW blocked, NEW rebuild \in BOOLEAN, StartNewRound(blocked, rebuild)
  PROVE  Good(w') /\ Switches(w, w') /\ Carries(w, w')
<1> DEFINE a == [w EXCEPT !.round = w.round + 1,
                          !.world = IF rebuild THEN w.world + 1 ELSE w.world]
           b == ResolveRound(a, blocked)
<1>1. /\ w \in State /\ Settling(w) /\ Owned(w) /\ Live(w)
      /\ w.round \in 0..MaxRound /\ w.world \in 0..MaxRound /\ w.world <= w.round
  BY GoodFields, StateFields DEF Settling
<1>2. /\ w.stage = "playing" /\ w.timeout.left = 0 /\ w.round < MaxRound
      /\ w' = IF rebuild THEN RebuildWorld(b) ELSE b
  <2>1. a = [w EXCEPT !.round = @ + 1, !.world = IF rebuild THEN @ + 1 ELSE @]
    BY <1>1 DEF State
  <2> HIDE DEF a
  <2> QED BY <2>1 DEF StartNewRound
<1>3. w.timeout.ent = 0
  BY <1>1, <1>2 DEF Owned
<1>4. MaxRound \in Nat
  BY GhostAssumption
<1>5. /\ w.round + 1 \in 0..MaxRound /\ w.world + 1 \in 0..MaxRound
      /\ w.world + 1 <= w.round + 1 /\ w.world <= w.round + 1 /\ w.round # w.round + 1
  BY <1>1, <1>2, <1>4
<1>6. /\ a \in State /\ Elsewhen(w, a) /\ a.world <= a.round /\ a.round = w.round + 1
      /\ a.stage = "playing" /\ a.part = w.part /\ a.match = w.match
  <2>1. a \in State
    BY <1>1, <1>5 DEF State
  <2>2. /\ a.round = w.round + 1 /\ a.world \in {w.world, w.world + 1}
        /\ a.client = w.client /\ a.rec = w.rec /\ a.snap = w.snap /\ a.fall = w.fall
        /\ a.abort = w.abort /\ a.timeout = w.timeout /\ a.stage = w.stage
        /\ a.part = w.part /\ a.match = w.match
    BY <1>1 DEF State
  <2> HIDE DEF a
  <2> QED BY <1>2, <1>5, <2>1, <2>2 DEF Elsewhen
<1> HIDE DEF a
<1>7. Sound(a) /\ Fades(a, b) /\ \A i \in Slots : OfRound(b, i)
  BY <1>6, ElsewhenFacts, ResolveRoundFacts
<1> HIDE DEF b
<1>8. Settling(b) /\ Ends(a, b) /\ Thins(a, b) /\ Sound(b) /\ b \in State
  BY <1>7, EndingSound DEF Fades, Ends, Settling
<1>9. ASSUME NEW i \in Slots, Valid(b, i)
      PROVE  /\ b.snap[i].phase = "AwaitingBegin" /\ b.client[b.rec[i].ent].ghost = i
             /\ b.snap[i].match = b.match
  <2>1. Valid(a, i) /\ b.snap[i].round = a.snap[i].round /\ b.round = a.round
    BY <1>8, <1>9 DEF Thins
  <2>2. Valid(w, i) /\ a.snap[i] = w.snap[i] /\ a.rec[i] = w.rec[i] /\ a.client = w.client
        /\ b.snap[i].match = a.snap[i].match /\ b.match = a.match
    BY <1>6, <1>8, <1>9, <2>1 DEF Elsewhen, Valid, Thins
  <2>3. /\ w.snap[i].match = w.match
        /\ w.client[w.rec[i].ent].ghost = i
        /\ w.snap[i].phase # "AwaitingBegin" => w.snap[i].round = w.round
    BY <1>1, <1>2, <2>2 DEF Live
  <2>4. /\ b.client[b.rec[i].ent].ghost = a.client[a.rec[i].ent].ghost
        /\ a.snap[i].phase = "AwaitingBegin" => b.snap[i].phase = "AwaitingBegin"
    BY <1>8, <1>9 DEF Thins
  <2>5. b.snap[i].phase = "AwaitingBegin" \/ b.snap[i].round = b.round
    BY <1>7, <1>9 DEF OfRound
  <2> QED BY <1>5, <1>6, <2>1, <2>2, <2>3, <2>4, <2>5
<1>10. Live(b)
  BY <1>9 DEF Live
<1>11. b.timeout.ent = 0
  BY <1>3, <1>6, <1>8 DEF Ends, Keeps, Elsewhen
<1>12. Good(b)
  BY <1>8, <1>10, <1>11 DEF Good, Absent
<1>13. Good(RebuildWorld(b)) /\ Alike(b, RebuildWorld(b))
  BY <1>8, <1>12, RebuildAlike, AlikeGood
<1>14. NobodyNew(w, b) /\ NobodyNew(w, RebuildWorld(b))
  BY <1>6, <1>8, <1>13 DEF NobodyNew, Elsewhen, Thins, Alike, Resembles, SameClient
<1>15. Carries(w, b)
  <2>1. Accounts(w, a) /\ (Rest(w) => Rest(a))
    BY <1>2, <1>6, SameAccounts DEF Elsewhen, Rest, Valid
  <2>2. Matched(w) => Matched(a)
    BY <1>2, <1>6 DEF Elsewhen, Matched, Valid
  <2>3. Accounts(w, b)
    BY <1>8, <2>1, <2>2 DEF Accounts, Ends
  <2>4. Rest(a) => Rest(b)
    BY <1>6, <1>8, EndsKeep
  <2>5. b.stage = w.stage
    BY <1>2, <1>6, <1>8 DEF Thins
  <2> QED BY <2>1, <2>3, <2>4, <2>5 DEF Carries
<1>16. Carries(w, RebuildWorld(b))
  <2>1. Carries(b, RebuildWorld(b))
    BY <1>12, <1>13, AlikeCarries, GoodFields
  <2> QED BY <1>12, <1>15, <2>1, CarriesTransitive
<1> QED BY <1>2, <1>12, <1>13, <1>14, <1>15, <1>16 DEF Switches

-----------------------------------------------------------------------------
(* MM_Ghost_ClearAll: every reservation goes, and who was on his way back   *)
(* goes on without it.                                                      *)

\* The clients whose state was about to be given back.
Reinstating(g) ==
  {s \in Slots : \E i \in Slots : /\ g.snap[i].valid /\ g.snap[i].phase = "Reinstating"
                                /\ RestoreTarget(g, i) = s}

\* They have begun, and their slot has no handoff and nothing else to claim.
LEMMA ReinstatingFacts ==
  ASSUME NEW g, Settling(g), NEW s \in Reinstating(g)
  PROVE  /\ s \in Slots /\ g.client[s].conn /\ g.client[s].begun /\ ~g.fall[s].valid
         /\ \A j \in Slots : Valid(g, j) /\ g.rec[j].ent = s => g.snap[j].phase = "Reinstating"
<1>1. PICK i \in Slots : /\ Valid(g, i) /\ g.snap[i].phase = "Reinstating"
                         /\ RestoreTarget(g, i) = s
  BY DEF Reinstating, Valid
<1>2. g.rec[i].ent = s
  BY <1>1, TargetIs
<1>3. s \in Slots /\ SnapOK(g, i) /\ FallOK(g, s)
      /\ \A j \in Slots \ {i} : Valid(g, j) => g.rec[j].ent # s
  BY <1>1, <1>2, Places
<1>4. g.client[s].conn /\ g.client[s].begun
  BY <1>1, <1>2, <1>3 DEF SnapOK, Pending
<1>5. ~g.fall[s].valid
  BY <1>1, <1>2, <1>3 DEF FallOK, Pending
<1> QED BY <1>1, <1>3, <1>4, <1>5

\* One claim or handoff before the reservations are cleared.
Staging(h, i, restart) ==
  LET s == IF h.snap[i].valid /\ h.snap[i].phase = "Claimed" THEN RestoreTarget(h, i) ELSE 0
      k == IF s = 0 THEN h
           ELSE Stage([h EXCEPT !.snap[i] = [@ EXCEPT !.phase = "AwaitingBegin", !.elapsed = 0,
                                                 !.reinstate = 0],
                                !.rec[i].code = FALSE], s, FALSE)
  IN IF restart /\ AwaitingTarget(k, i) # 0 THEN MakeFallback(k, i)
     ELSE IF restart THEN k ELSE h

\* The server k is h with at most the claim or handoff i made a fallback.
Passes(h, k, i) ==
  /\ Settling(k) /\ Thins(h, k) /\ k.timeout = h.timeout
  /\ \A t \in Slots : k.fall[t] = h.fall[t] \/
       (Valid(h, i) /\ h.rec[i].ent = t /\ h.snap[i].phase \in {"Claimed", "AwaitingBegin"})

\* A handoff becomes a fallback.
LEMMA HandoffPasses ==
  ASSUME NEW h, Settling(h), NEW i \in Slots, Valid(h, i), h.snap[i].phase = "AwaitingBegin"
  PROVE  Passes(h, MakeFallback(h, i), i)
<1> DEFINE k == MakeFallback(h, i)
<1>1. /\ Gone(h, k, i) /\ k.timeout = h.timeout
      /\ \A t \in Slots \ {h.rec[i].ent} : k.fall[t] = h.fall[t]
  BY MakeFallbackFacts
<1> HIDE DEF k
<1>2. Settling(k) /\ Thins(h, k)
  BY <1>1 DEF Gone, Ending, Ends
<1> QED BY <1>1, <1>2 DEF Passes, k

\* The first half of MM_Ghost_ClearAll, for one reservation.
LEMMA StagingFacts ==
  ASSUME NEW h, Settling(h), NEW i \in Slots, NEW restart \in BOOLEAN
  PROVE  Passes(h, Staging(h, i, restart), i)
<1>1. h \in State /\ Passes(h, h, i)
  BY SameReflexive DEF Passes, Settling
<1>2. CASE ~restart
  BY <1>1, <1>2 DEF Staging
<1>3. CASE restart /\ ~(Valid(h, i) /\ h.snap[i].phase \in {"Claimed", "AwaitingBegin"})
  <2>1. AwaitingTarget(h, i) = 0
    BY <1>3 DEF AwaitingTarget, Valid
  <2> QED BY <1>1, <1>3, <2>1 DEF Staging, Valid
<1>4. CASE restart /\ Valid(h, i) /\ h.snap[i].phase = "AwaitingBegin"
  <2>1. AwaitingTarget(h, i) # 0
    <3>1. 0 \notin Slots
      BY DEF Slots
    <3> QED BY <1>4, <3>1, TargetIs, Places
  <2>2. Staging(h, i, restart) = MakeFallback(h, i)
    BY <1>4, <2>1 DEF Staging
  <2> QED BY <1>4, <2>2, HandoffPasses
<1>5. CASE restart /\ Valid(h, i) /\ h.snap[i].phase = "Claimed"
  <2> DEFINE s == h.rec[i].ent
             x == [h.snap[i] EXCEPT !.phase = "AwaitingBegin", !.elapsed = 0, !.reinstate = 0]
             m == Stage(Marked(h, i, x), s, FALSE)
  <2>1. s \in Slots /\ s # 0 /\ h.snap[i] \in Reservation /\ RestoreTarget(h, i) = s
    <3>1. 0 \notin Slots
      BY DEF Slots
    <3> QED BY <1>5, <3>1, TargetIs, Places
  <2>2. x \in Reservation /\ Awaits(h.snap[i], x)
    <3>1. 0 \in 0..Delay /\ 0 \in Nat /\ "AwaitingBegin" \in Phases
      BY GhostAssumption DEF Phases
    <3> QED BY <2>1, <3>1 DEF Reservation, Awaits
  <2>3. Marked(h, i, x) = [h EXCEPT !.snap[i] = x, !.rec[i].code = FALSE]
    BY DEF Marked
  <2>4. Staging(h, i, restart) = IF AwaitingTarget(m, i) # 0 THEN MakeFallback(m, i) ELSE m
    BY <1>5, <2>1, <2>3 DEF Staging, Valid
  <2> HIDE DEF x
  <2>5. StopsWaiting(h, m, s) /\ Staged(h, m, s, i)
    BY <1>5, <2>2, StageIs
  <2> HIDE DEF m
  <2>6. /\ Settling(m) /\ Thins(h, m) /\ m.timeout = h.timeout /\ m.fall = h.fall
        /\ m.rec[i].ent = s /\ Valid(m, i) /\ m.snap[i].phase = "AwaitingBegin"
    BY <2>5 DEF StopsWaiting, Staged, Valid
  <2>7. AwaitingTarget(m, i) # 0
    BY <2>1, <2>6, TargetIs
  <2>8. Passes(m, MakeFallback(m, i), i)
    BY <2>6, HandoffPasses
  <2> DEFINE k == MakeFallback(m, i)
  <2> HIDE DEF k
  <2>9. Settling(k) /\ Thins(m, k) /\ k.timeout = m.timeout
        /\ \A t \in Slots : k.fall[t] = m.fall[t] \/ t = s
    BY <2>6, <2>8 DEF Passes, k
  <2>10. Thins(h, k)
    BY <2>6, <2>9, ThinsTransitive
  <2>11. Passes(h, k, i)
    BY <1>5, <2>6, <2>9, <2>10 DEF Passes
  <2> QED BY <2>4, <2>7, <2>11 DEF k
<1> QED BY <1>2, <1>3, <1>4, <1>5

\* All claims and handoffs.
StagedAll(g, restart) == LET handoff(h, i) == Staging(h, i, restart) IN Each(handoff, g)

\* They take nothing from those whose state was about to be given back.
LEMMA StagedAllFacts ==
  ASSUME NEW g, Settling(g), NEW restart \in BOOLEAN
  PROVE  LET h == StagedAll(g, restart) IN
         /\ Settling(h) /\ Thins(g, h) /\ h.timeout = g.timeout
         /\ \A s \in Reinstating(g) : ~h.fall[s].valid
<1> DEFINE X == {h \in State : /\ Settling(h) /\ Thins(g, h) /\ h.timeout = g.timeout
                             /\ \A s \in Reinstating(g) : ~h.fall[s].valid}
           one(h, i) == Staging(h, i, restart)
           F == [h \in X |-> [i \in Slots |-> one(h, i)]]
           Is(f) == f = [n \in 0..N |-> IF n = 0 THEN g ELSE one(f[n - 1], n)]
           after == CHOOSE f : Is(f)
           B == {n \in 0..N : after[n] \in X}
<1>0. N \in Nat
  BY GhostAssumption
<1>1. g \in X
  BY SameReflexive, ReinstatingFacts DEF Settling
<1>2. ASSUME NEW h \in X, NEW i \in Slots PROVE one(h, i) \in X
  <2>1. /\ Settling(h) /\ Thins(g, h) /\ h.timeout = g.timeout
        /\ \A s \in Reinstating(g) : ~h.fall[s].valid
    OBVIOUS
  <2>2. Passes(h, one(h, i), i)
    BY <2>1, StagingFacts
  <2> HIDE DEF one
  <2>3. Settling(one(h, i)) /\ Thins(h, one(h, i)) /\ one(h, i).timeout = g.timeout
        /\ one(h, i) \in State
    BY <2>1, <2>2 DEF Passes, Settling
  <2>4. Thins(g, one(h, i))
    BY <2>1, <2>3, ThinsTransitive
  <2>5. ASSUME NEW s \in Reinstating(g) PROVE ~one(h, i).fall[s].valid
    <3>1. s \in Slots /\ ~h.fall[s].valid
          /\ \A j \in Slots : Valid(g, j) /\ g.rec[j].ent = s => g.snap[j].phase = "Reinstating"
      BY <2>1, <2>5, ReinstatingFacts
    <3>2. ~(Valid(h, i) /\ h.rec[i].ent = s /\ h.snap[i].phase \in {"Claimed", "AwaitingBegin"})
      BY <2>1, <3>1 DEF Thins
    <3> QED BY <2>2, <3>1, <3>2 DEF Passes
  <2> QED BY <2>3, <2>4, <2>5
<1> HIDE DEF X
<1>3. F \in [X -> [Slots -> X]]
  BY <1>2
<1>3f. \A h \in X, i \in Slots : F[h][i] = one(h, i)
  OBVIOUS
<1> HIDE DEF F
<1>4. PICK f \in [0..N -> X] : Follows(f, g, F)
  BY <1>1, <1>3, EachExists
<1>5. Is(f)
  <2>1. ASSUME NEW n \in 0..N, n # 0 PROVE F[f[n - 1]][n] = one(f[n - 1], n)
    <3>1. n \in Slots /\ n - 1 \in 0..N
      BY <1>0, <2>1 DEF Slots
    <3>2. f[n - 1] \in X
      BY <1>4, <3>1
    <3> QED BY <1>3f, <3>1, <3>2
  <2> HIDE DEF one
  <2> QED BY <1>4, <2>1 DEF Follows
<1>6. Is(after)
  BY <1>5
<1>7. StagedAll(g, restart) = after[N]
  BY DEF StagedAll, Each
<1> HIDE DEF after, one
<1>8. 0 \in B
  BY <1>0, <1>1, <1>6
<1>9. ASSUME NEW n \in Slots, n - 1 \in B PROVE n \in B
  <2>1. n \in 0..N /\ n # 0
    BY <1>0 DEF Slots
  <2>2. after[n] = one(after[n - 1], n)
    BY <1>6, <2>1
  <2>3. after[n - 1] \in X
    BY <1>9
  <2> QED BY <1>2, <2>1, <2>2, <2>3
<1> HIDE DEF B
<1>10. N \in B
  BY <1>8, <1>9, Climb
<1> QED BY <1>7, <1>10 DEF B, X

\* All snapshots cleared.
ClearedSnaps(g) == Each(ClearSnap, g)

\* They leave no reservation, and nothing else changes hands.
LEMMA ClearedSnapsFacts ==
  ASSUME NEW g, Settling(g)
  PROVE  LET h == ClearedSnaps(g) IN
         /\ Settling(h) /\ Thins(g, h) /\ h.timeout = g.timeout /\ h.fall = g.fall
         /\ \A i \in Slots : ~Valid(h, i)
<1> DEFINE X == {h \in State : /\ Settling(h) /\ Thins(g, h) /\ h.timeout = g.timeout
                             /\ h.fall = g.fall}
           one(h, i) == ClearSnap(h, i)
           F == [h \in X |-> [i \in Slots |-> one(h, i)]]
           Is(f) == f = [n \in 0..N |-> IF n = 0 THEN g ELSE one(f[n - 1], n)]
           after == CHOOSE f : Is(f)
           B == {n \in 0..N : after[n] \in X /\ \A i \in 1..n : ~Valid(after[n], i)}
<1>0. N \in Nat
  BY GhostAssumption
<1>1. g \in X
  BY SameReflexive DEF Settling
<1>2. ASSUME NEW h \in X, NEW i \in Slots PROVE one(h, i) \in X
  <2>1. Settling(h) /\ Thins(g, h) /\ h.timeout = g.timeout /\ h.fall = g.fall
    OBVIOUS
  <2>2. /\ Settling(one(h, i)) /\ Thins(h, one(h, i)) /\ one(h, i) \in State
        /\ one(h, i).timeout = h.timeout /\ one(h, i).fall = h.fall
    BY <2>1, ClearSnapFacts, ClearSnapFrame
  <2> HIDE DEF one
  <2>3. Thins(g, one(h, i))
    BY <2>1, <2>2, ThinsTransitive
  <2> QED BY <2>1, <2>2, <2>3
<1> HIDE DEF X
<1>3. F \in [X -> [Slots -> X]]
  BY <1>2
<1>3f. \A h \in X, i \in Slots : F[h][i] = one(h, i)
  OBVIOUS
<1> HIDE DEF F
<1>4. PICK f \in [0..N -> X] : Follows(f, g, F)
  BY <1>1, <1>3, EachExists
<1>5. Is(f)
  <2>1. ASSUME NEW n \in 0..N, n # 0 PROVE F[f[n - 1]][n] = one(f[n - 1], n)
    <3>1. n \in Slots /\ n - 1 \in 0..N
      BY <1>0, <2>1 DEF Slots
    <3>2. f[n - 1] \in X
      BY <1>4, <3>1
    <3> QED BY <1>3f, <3>1, <3>2
  <2> HIDE DEF one
  <2> QED BY <1>4, <2>1 DEF Follows
<1>6. Is(after)
  BY <1>5
<1>7. ClearedSnaps(g) = after[N]
  BY DEF ClearedSnaps, Each
<1> HIDE DEF after, one
<1>8. 0 \in B
  BY <1>0, <1>1, <1>6
<1>9. ASSUME NEW n \in Slots, n - 1 \in B PROVE n \in B
  <2>1. n \in 0..N /\ n # 0
    BY <1>0 DEF Slots
  <2>2. after[n] = one(after[n - 1], n)
    BY <1>6, <2>1
  <2>3. after[n - 1] \in X
    BY <1>9
  <2>4. after[n - 1] \in X /\ Settling(after[n - 1])
        /\ \A i \in 1..(n - 1) : ~Valid(after[n - 1], i)
    BY <1>9 DEF X
  <2>5. Thins(after[n - 1], after[n]) /\ ~Valid(after[n], n)
    BY <2>2, <2>4, ClearSnapFacts, ClearSnapFrame DEF one
  <2>6. \A i \in 1..(n - 1) : ~Valid(after[n], i)
    <3>1. 1..(n - 1) \subseteq Slots
      BY <1>0, <1>9 DEF Slots
    <3> QED BY <2>4, <2>5, <3>1 DEF Thins
  <2>7. \A i \in 1..n : i = n \/ i \in 1..(n - 1)
    BY <2>1
  <2>8. after[n] \in X
    BY <1>2, <2>1, <2>2, <2>3
  <2> QED BY <2>1, <2>5, <2>6, <2>7, <2>8
<1> HIDE DEF B
<1>10. N \in B
  BY <1>8, <1>9, Climb
<1> QED BY <1>0, <1>7, <1>10 DEF B, X, Slots

\* Handoffs and timeouts that do not outlive the match go too.
Plain(c, restart) ==
  [c EXCEPT
     !.fall = IF restart THEN @ ELSE [s \in Slots |-> NoFallback],
     !.abort = {s \in @ : /\ restart /\ c.client[s].conn
                          /\ ~c.client[s].spawned \/ c.client[s].limbo},
     !.timeout = IF restart /\ @.auto THEN NoTimeout ELSE @]

\* Nothing but handoffs, abort marks and the timeout of the match goes.
LEMMA PlainFacts ==
  ASSUME NEW c, Settling(c), \A i \in Slots : ~Valid(c, i), NEW restart \in BOOLEAN
  PROVE  LET p == Plain(c, restart) IN
         /\ Settling(p) /\ Thins(c, p) /\ (restart => p.fall = c.fall)
         /\ p.timeout = IF restart /\ c.timeout.auto THEN NoTimeout ELSE c.timeout
<1> DEFINE F == IF restart THEN c.fall ELSE [s \in Slots |-> NoFallback]
           A == {s \in c.abort : /\ restart /\ c.client[s].conn
                                 /\ ~c.client[s].spawned \/ c.client[s].limbo}
           t == IF restart /\ c.timeout.auto THEN NoTimeout ELSE c.timeout
           p == [c EXCEPT !.fall = F, !.abort = A, !.timeout = t]
<1>1. /\ c \in State /\ c.timeout \in Timeout /\ c.fall \in [Slots -> Fallback]
      /\ c.abort \subseteq Slots /\ Apart(c) /\ c.world <= c.round
      /\ \A s \in Slots : ClientOK(c, s) /\ FallOK(c, s)
  BY StateFields DEF Settling
<1>2. Plain(c, restart) = p
  BY <1>1 DEF Plain, State
<1>3. F \in [Slots -> Fallback] /\ \A s \in Slots : F[s] = c.fall[s] \/ ~F[s].valid
  <2>1. NoFallback \in Fallback /\ ~NoFallback.valid
    BY DEF Fallback, NoFallback
  <2> QED BY <1>1, <2>1
<1>4. A \subseteq c.abort
  OBVIOUS
<1>5. t \in Timeout
  <2>1. NoTimeout \in Timeout
    BY DEF NoTimeout, Timeout
  <2> QED BY <1>1, <2>1
<1>6. restart => F = c.fall
  OBVIOUS
<1> HIDE DEF F, A, t
<1>7. /\ p \in State /\ p.fall = F /\ p.abort = A /\ p.timeout = t /\ p.client = c.client
      /\ p.snap = c.snap /\ p.rec = c.rec /\ p.stage = c.stage /\ p.match = c.match
      /\ p.round = c.round /\ p.world = c.world
  BY <1>1, <1>3, <1>4, <1>5 DEF State
<1> HIDE DEF p
<1>8. \A i \in Slots : ~Valid(p, i)
  BY <1>7 DEF Valid
<1>9. \A s \in Slots : ClientOK(p, s) /\ FallOK(p, s)
  BY <1>1, <1>3, <1>4, <1>7, <1>8 DEF ClientOK, FallOK, Valid
<1>10. Apart(p)
  BY <1>1, <1>7, <1>8 DEF Apart
<1>11. Settling(p)
  BY <1>1, <1>7, <1>8, <1>9, <1>10 DEF Settling, SnapOK
<1>12. Thins(c, p)
  BY <1>7, <1>8 DEF Thins
<1> QED BY <1>2, <1>6, <1>7, <1>11, <1>12 DEF t

\* Those whose state was about to be given back go on without it.
BackAll(g, R, blocked) ==
  LET back(h, s) == IF s \in R THEN Restart(h, s, FALSE, TRUE, blocked) ELSE h IN Each(back, g)

\* They enter the level, and nothing is reserved for them.
LEMMA BackAllFacts ==
  ASSUME NEW g, Settling(g), \A i \in Slots : ~Valid(g, i), NEW R,
         \A s \in R : g.client[s].conn /\ g.client[s].begun /\ ~g.fall[s].valid, NEW blocked
  PROVE  LET h == BackAll(g, R, blocked) IN
         Settling(h) /\ Thins(g, h) /\ h.timeout = g.timeout
<1> DEFINE X == {h \in State : /\ Settling(h) /\ Thins(g, h) /\ h.timeout = g.timeout
                             /\ h.fall = g.fall}
           one(h, i) == IF i \in R THEN Restart(h, i, FALSE, TRUE, blocked) ELSE h
           F == [h \in X |-> [i \in Slots |-> one(h, i)]]
           Is(f) == f = [n \in 0..N |-> IF n = 0 THEN g ELSE one(f[n - 1], n)]
           after == CHOOSE f : Is(f)
           B == {n \in 0..N : after[n] \in X}
<1>0. N \in Nat
  BY GhostAssumption
<1>1. g \in X
  BY SameReflexive DEF Settling
<1>2. ASSUME NEW h \in X, NEW i \in Slots PROVE one(h, i) \in X
  <2>1. Settling(h) /\ Thins(g, h) /\ h.timeout = g.timeout /\ h.fall = g.fall
    OBVIOUS
  <2>2. CASE i \notin R
    BY <2>2
  <2>3. CASE i \in R
    <3> DEFINE k == Restart(h, i, FALSE, TRUE, blocked)
    <3>1. h.client[i].begun /\ ~h.fall[i].valid
      BY <2>1, <2>3 DEF Thins
    <3>2. \A j \in Slots : ~Valid(h, j)
      BY <2>1 DEF Thins
    <3>3. RestartedAs(h, k, i, TRUE)
      BY <2>1, <3>1, <3>2, RestartFacts
    <3> HIDE DEF k
    <3>4. Settling(k) /\ Thins(h, k) /\ k.timeout = h.timeout /\ k.fall = h.fall /\ k \in State
      BY <3>3 DEF RestartedAs, Restarted, Settling
    <3>5. Thins(g, k)
      BY <2>1, <3>4, ThinsTransitive
    <3>6. k \in X
      BY <2>1, <3>4, <3>5
    <3> QED BY <2>3, <3>6 DEF k
  <2> QED BY <2>2, <2>3
<1> HIDE DEF X
<1>3. F \in [X -> [Slots -> X]]
  BY <1>2
<1>3f. \A h \in X, i \in Slots : F[h][i] = one(h, i)
  OBVIOUS
<1> HIDE DEF F
<1>4. PICK f \in [0..N -> X] : Follows(f, g, F)
  BY <1>1, <1>3, EachExists
<1>5. Is(f)
  <2>1. ASSUME NEW n \in 0..N, n # 0 PROVE F[f[n - 1]][n] = one(f[n - 1], n)
    <3>1. n \in Slots /\ n - 1 \in 0..N
      BY <1>0, <2>1 DEF Slots
    <3>2. f[n - 1] \in X
      BY <1>4, <3>1
    <3> QED BY <1>3f, <3>1, <3>2
  <2> HIDE DEF one
  <2> QED BY <1>4, <2>1 DEF Follows
<1>6. Is(after)
  BY <1>5
<1>7. BackAll(g, R, blocked) = after[N]
  BY DEF BackAll, Each
<1> HIDE DEF after, one
<1>8. 0 \in B
  BY <1>0, <1>1, <1>6
<1>9. ASSUME NEW n \in Slots, n - 1 \in B PROVE n \in B
  <2>1. n \in 0..N /\ n # 0
    BY <1>0 DEF Slots
  <2>2. after[n] = one(after[n - 1], n)
    BY <1>6, <2>1
  <2>3. after[n - 1] \in X
    BY <1>9
  <2> QED BY <1>2, <2>1, <2>2, <2>3
<1> HIDE DEF B
<1>10. N \in B
  BY <1>8, <1>9, Climb
<1> QED BY <1>7, <1>10 DEF B, X

\* No record is left.
Emptied(a) ==
  [a EXCEPT !.rec = [i \in Slots |-> NoRecord], !.cursor = 1,
            !.client = [s \in Slots |-> [@[s] EXCEPT !.ghost = 0]]]

\* Without reservations the records may be emptied.
LEMMA EmptiedFacts ==
  ASSUME NEW g, Settling(g), \A i \in Slots : ~Valid(g, i)
  PROVE  LET h == Emptied(g) IN
         Settling(h) /\ Thins(g, h) /\ h.timeout = g.timeout
<1> DEFINE R == [i \in Slots |-> NoRecord]
           d(s) == [g.client[s] EXCEPT !.ghost = 0]
           C == [s \in Slots |-> d(s)]
           h == [g EXCEPT !.rec = R, !.cursor = 1, !.client = C]
<1>1. /\ g \in State /\ g.client \in [Slots -> Client] /\ Apart(g) /\ g.world <= g.round
      /\ \A s \in Slots : ClientOK(g, s) /\ FallOK(g, s)
  BY StateFields DEF Settling
<1>2. Emptied(g) = h
  BY <1>1 DEF Emptied, State
<1>3. R \in [Slots -> Record]
  BY DEF Record, NoRecord
<1>4. ASSUME NEW s \in Slots
      PROVE  /\ d(s) \in Client /\ d(s).ghost = 0 /\ d(s).id = g.client[s].id
             /\ d(s).gen = g.client[s].gen /\ d(s).conn = g.client[s].conn
             /\ d(s).begun = g.client[s].begun /\ d(s).spawned = g.client[s].spawned
             /\ d(s).limbo = g.client[s].limbo /\ d(s).inuse = g.client[s].inuse
             /\ d(s).holder = g.client[s].holder
  <2>1. g.client[s] \in Client
    BY <1>1
  <2> QED BY <2>1 DEF Client
<1>5. 1 \in Slots
  BY GhostAssumption DEF Slots
<1> HIDE DEF d
<1>6. C \in [Slots -> Client] /\ \A s \in Slots : C[s] = d(s)
  BY <1>4
<1> HIDE DEF R, C
<1>7. /\ h \in State /\ h.client = C /\ h.fall = g.fall /\ h.abort = g.abort
      /\ h.timeout = g.timeout /\ h.snap = g.snap /\ h.stage = g.stage
      /\ h.match = g.match /\ h.round = g.round /\ h.world = g.world
  BY <1>1, <1>3, <1>5, <1>6 DEF State
<1> HIDE DEF h
<1>8. \A i \in Slots : ~Valid(h, i)
  BY <1>7 DEF Valid
<1>9. ASSUME NEW s \in Slots PROVE ClientOK(h, s) /\ FallOK(h, s)
  <2>1. h.client[s] = d(s) /\ ClientOK(g, s) /\ FallOK(g, s)
    BY <1>1, <1>6, <1>7
  <2> QED BY <1>4, <1>7, <1>8, <2>1 DEF ClientOK, FallOK
<1>10. Apart(h)
  <2>1. \A s \in Slots : h.client[s].conn = g.client[s].conn /\ h.client[s].id = g.client[s].id
    BY <1>4, <1>6, <1>7
  <2> QED BY <1>1, <1>8, <2>1 DEF Apart
<1>11. Settling(h)
  BY <1>1, <1>7, <1>8, <1>9, <1>10 DEF Settling, SnapOK
<1>12. Thins(g, h)
  BY <1>4, <1>6, <1>7, <1>8 DEF Thins
<1> QED BY <1>2, <1>7, <1>11, <1>12

\* MM_Ghost_ClearAll leaves no reservation, nor a timeout for one.
LEMMA ClearAllFacts ==
  ASSUME NEW g, Settling(g), NEW restart \in BOOLEAN, NEW blocked
  PROVE  LET h == ClearAll(g, restart, blocked) IN
         /\ Settling(h) /\ Thins(g, h) /\ \A i \in Slots : ~Valid(h, i)
         /\ h.timeout = IF restart /\ g.timeout.auto THEN NoTimeout ELSE g.timeout
<1> DEFINE R == IF restart THEN Reinstating(g) ELSE {}
           a == StagedAll(g, restart)
           b == ClearedSnaps(a)
           c == Plain(b, restart)
           d == BackAll(c, R, blocked)
<1>1. ClearAll(g, restart, blocked) = Emptied(d)
  BY DEF ClearAll, StagedAll, Staging, ClearedSnaps, Plain, BackAll, Emptied, Reinstating
<1>2. /\ Settling(a) /\ Thins(g, a) /\ a.timeout = g.timeout
      /\ \A s \in Reinstating(g) : ~a.fall[s].valid
  BY StagedAllFacts
<1> HIDE DEF a
<1>3. /\ Settling(b) /\ Thins(a, b) /\ b.timeout = a.timeout /\ b.fall = a.fall
      /\ \A i \in Slots : ~Valid(b, i)
  BY <1>2, ClearedSnapsFacts
<1> HIDE DEF b
<1>4. /\ Settling(c) /\ Thins(b, c) /\ (restart => c.fall = b.fall)
      /\ c.timeout = IF restart /\ b.timeout.auto THEN NoTimeout ELSE b.timeout
  BY <1>3, PlainFacts
<1> HIDE DEF c
<1>5. Thins(g, c)
  BY <1>2, <1>3, <1>4, ThinsTransitive
<1>6. \A i \in Slots : ~Valid(c, i)
  BY <1>3, <1>4 DEF Thins
<1>7. ASSUME NEW s \in R PROVE c.client[s].conn /\ c.client[s].begun /\ ~c.fall[s].valid
  <2>1. restart /\ s \in Reinstating(g)
    BY <1>7
  <2>2. s \in Slots /\ g.client[s].conn /\ g.client[s].begun
    BY <2>1, ReinstatingFacts
  <2> QED BY <1>2, <1>3, <1>4, <1>5, <2>1, <2>2 DEF Thins
<1> HIDE DEF R
<1>8. Settling(d) /\ Thins(c, d) /\ d.timeout = c.timeout
  BY <1>4, <1>6, <1>7, BackAllFacts
<1> HIDE DEF d
<1>9. Thins(g, d) /\ \A i \in Slots : ~Valid(d, i)
  <2>1. Thins(g, d)
    BY <1>5, <1>8, ThinsTransitive
  <2>2. \A i \in Slots : ~Valid(d, i)
    BY <1>6, <1>8 DEF Thins
  <2> QED BY <2>1, <2>2
<1>10. Settling(Emptied(d)) /\ Thins(d, Emptied(d)) /\ Emptied(d).timeout = d.timeout
  BY <1>8, <1>9, EmptiedFacts
<1>11. Thins(g, Emptied(d)) /\ \A i \in Slots : ~Valid(Emptied(d), i)
  <2>1. Thins(g, Emptied(d))
    BY <1>9, <1>10, ThinsTransitive
  <2>2. \A i \in Slots : ~Valid(Emptied(d), i)
    BY <1>9, <1>10 DEF Thins
  <2> QED BY <2>1, <2>2
<1> QED BY <1>1, <1>2, <1>3, <1>4, <1>8, <1>10, <1>11

-----------------------------------------------------------------------------
(* The match starts, is reset and gives way to the next level.              *)

\* Without reservations and without an owner of the timeout there is little
\* to keep.
LEMMA BareGood ==
  ASSUME NEW g, Settling(g), \A i \in Slots : ~Valid(g, i), g.timeout.ent = 0
  PROVE  Good(g)
<1> QED BY DEF Good, Sound, Owned, Live, Absent

\* MM_Ghost_ClearAll keeps the invariant where it may go on.
LEMMA ClearAllGood ==
  ASSUME NEW g, Sound(g), NEW blocked
  PROVE  LET h == ClearAll(g, TRUE, blocked)
         IN Good(h) /\ \A i \in Slots : ~Valid(h, i)
<1> DEFINE h == ClearAll(g, TRUE, blocked)
<1>1. Settling(g) /\ Owned(g)
  BY DEF Sound
<1>2. /\ Settling(h) /\ \A i \in Slots : ~Valid(h, i)
      /\ h.timeout = IF g.timeout.auto THEN NoTimeout ELSE g.timeout
  BY <1>1, ClearAllFacts
<1> HIDE DEF h
<1>3. h.timeout.ent = 0
  BY <1>1, <1>2 DEF Owned, NoTimeout
<1> QED BY <1>2, <1>3, BareGood DEF h

\* A match that starts or ends clears every reservation.
LEMMA RestageGood ==
  ASSUME Good(w), NEW st \in Stages, NEW blocked
  PROVE  LET h == RebuildWorld(ClearAll([w EXCEPT !.stage = st], TRUE, blocked))
         IN /\ Good(h) /\ \A i \in Slots : ~Valid(h, i)
            /\ h.match = w.match /\ h.round = w.round
            /\ h.stage = st /\ NobodyNew(w, h)
<1> DEFINE m == [w EXCEPT !.stage = st]
           c == ClearAll(m, TRUE, blocked)
           h == RebuildWorld(c)
<1>1. w \in State /\ w.world <= w.round
  BY GoodFields DEF Settling
<1>2. /\ m \in State /\ Elsewhen(w, m) /\ m.world <= m.round
      /\ m.match = w.match /\ m.round = w.round /\ m.stage = st
  BY <1>1 DEF State, Elsewhen
<1> HIDE DEF m
<1>3. Sound(m)
  BY <1>2, ElsewhenFacts
<1>4. Good(c) /\ \A i \in Slots : ~Valid(c, i)
  BY <1>3, ClearAllGood
<1>4a. Thins(m, c)
  BY <1>3, ClearAllFacts DEF Sound
<1> HIDE DEF c
<1>5. h \in State /\ Alike(c, h)
  BY <1>4, GoodFields, RebuildAlike
<1> HIDE DEF h
<1>6. Good(h) /\ \A i \in Slots : ~Valid(h, i)
  BY <1>4, <1>5, AlikeGood DEF Alike, Resembles, SameSnap, Valid
<1>7. h.match = w.match /\ h.round = w.round /\ h.stage = st
  BY <1>2, <1>4a, <1>5 DEF Alike, Resembles, Thins
<1>8. NobodyNew(w, h)
  BY <1>2, <1>4a, <1>5 DEF NobodyNew, Elsewhen, Thins, Alike, Resembles, SameClient
<1> QED BY <1>6, <1>7, <1>8 DEF h, c, m

\* Match_Reset keeps the invariant.
LEMMA ResetGood ==
  ASSUME Good(w), NEW blocked, Match_Reset(blocked)
  PROVE  Good(w') /\ Switches(w, w') /\ Remains(w, w')
<1>1. "warmup" \in Stages
  BY DEF Stages
<1> QED BY <1>1, RestageGood, OverRemains DEF Match_Reset, Switches

\* The client d starts the next level as c ended the last.
Moves(c, d) ==
  /\ d \in Client /\ d.begun = FALSE /\ d.spawned = FALSE /\ d.limbo = FALSE
  /\ d.holder = FALSE /\ d.conn = c.conn
  /\ c.conn => d.id = c.id /\ d.gen = c.gen
  /\ ~c.conn => d.ghost = 0

\* SpawnEntities makes every client one who has yet to begin.
LEMMA MovesIs ==
  ASSUME NEW c \in Client
  PROVE  Moves(c, IF c.conn
                  THEN [c EXCEPT !.begun = FALSE, !.spawned = FALSE, !.limbo = FALSE,
                                 !.inuse = FALSE, !.holder = FALSE, !.holds = FALSE]
                  ELSE NoClient(c.gen))
<1>1. CASE c.conn
  BY <1>1 DEF Moves, Client
<1>2. CASE ~c.conn
  <2>1. c.gen \in 1..MaxGen /\ c.conn = FALSE
    BY <1>2, ClientFields
  <2> QED BY <1>2, <2>1, NoClientFields DEF Moves
<1> QED BY <1>1, <1>2

\* SpawnEntities keeps the invariant.
LEMMA ChangeLevelGood ==
  ASSUME Good(w), ChangeLevel
  PROVE  Good(w') /\ Switches(w, w') /\ Remains(w, w')
<1> DEFINE a == ClearAll(w, FALSE, {})
           d(s) == IF a.client[s].conn
                   THEN [a.client[s] EXCEPT !.begun = FALSE, !.spawned = FALSE, !.limbo = FALSE,
                                            !.inuse = FALSE, !.holder = FALSE, !.holds = FALSE]
                   ELSE NoClient(a.client[s].gen)
           C == [s \in Slots |-> d(s)]
           h == [a EXCEPT !.stage = "warmup", !.item = 1, !.timeout = NoTimeout, !.abort = {},
                          !.client = C]
<1>1. Settling(w)
  BY GoodFields
<1>2. Settling(a) /\ Thins(w, a) /\ \A i \in Slots : ~Valid(a, i)
  BY <1>1, ClearAllFacts
<1>3. /\ a \in State /\ a.client \in [Slots -> Client] /\ Apart(a) /\ a.world <= a.round
      /\ \A s \in Slots : ClientOK(a, s) /\ FallOK(a, s)
  BY <1>2, StateFields DEF Settling
<1>4. w' = h
  BY <1>3 DEF ChangeLevel, State
<1>5. ASSUME NEW s \in Slots PROVE Moves(a.client[s], d(s))
  <2>1. a.client[s] \in Client
    BY <1>3
  <2> QED BY <2>1, MovesIs
<1>6. C \in [Slots -> Client] /\ \A s \in Slots : C[s] = d(s)
  BY <1>5 DEF Moves
<1>7. NoTimeout \in Timeout /\ NoTimeout.ent = 0 /\ 1 \in 0..2 /\ "warmup" \in Stages
  BY DEF NoTimeout, Timeout, Stages
<1>8. \A s \in Slots : Moves(a.client[s], C[s])
  BY <1>5, <1>6
<1> HIDE DEF a, d, C
<1>9. /\ h \in State /\ h.client = C /\ h.timeout = NoTimeout /\ h.abort = {}
      /\ h.snap = a.snap /\ h.rec = a.rec /\ h.fall = a.fall
      /\ h.round = a.round /\ h.world = a.world /\ h.stage = "warmup"
  BY <1>3, <1>6, <1>7 DEF State
<1> HIDE DEF h
<1>10. \A i \in Slots : ~Valid(h, i)
  BY <1>2, <1>9 DEF Valid
<1>11. \A s \in Slots : ClientOK(h, s)
  BY <1>3, <1>8, <1>9 DEF ClientOK, Moves
<1>12. \A s \in Slots : FallOK(h, s)
  BY <1>3, <1>8, <1>9, <1>10 DEF FallOK, Moves
<1>13. Apart(h)
  <2>1. \A s \in Slots : /\ h.client[s].conn = a.client[s].conn
                         /\ h.client[s].conn => h.client[s].id = a.client[s].id
    BY <1>8, <1>9 DEF Moves
  <2> QED BY <1>3, <1>10, <2>1 DEF Apart
<1>14. Settling(h)
  BY <1>3, <1>9, <1>10, <1>11, <1>12, <1>13 DEF Settling, SnapOK
<1>15. Switches(w, h)
  BY <1>2, <1>8, <1>9 DEF Switches, NobodyNew, Thins, Moves, ChangeLevel
<1> QED BY <1>4, <1>7, <1>9, <1>10, <1>14, <1>15, BareGood, OverRemains

\* ResetPlayers gives a client a record anew.
LEMMA RerecordFacts ==
  ASSUME NEW g, Good(g), NEW s \in Slots, g.client[s].conn, NEW blocked
  PROVE  LET h == Rerecord(ClearGhost(g, s, blocked), s, blocked)
         IN Good(h) /\ Thins(g, h)
<1> DEFINE k == ClearGhost(g, s, blocked)
           h == Rerecord(k, s, blocked)
<1>1. Settling(g) /\ Sound(g)
  BY GoodFields
<1>2. /\ Good(k) /\ Thins(g, k) /\ k.client[s].conn
      /\ Protected(k, s) \/ OwnedGhost(k, s) = 0
  <2>1. CASE Protected(g, s)
    <3>1. k = g
      BY <2>1 DEF ClearGhost
    <3> QED BY <1>1, <2>1, <3>1, SameReflexive
  <2>2. CASE ~Protected(g, s)
    <3>1. Cleaned(g, k, s)
      BY <1>1, <2>2, ClearGhostFacts
    <3> HIDE DEF k
    <3>2. OwnedGhost(k, s) = 0 /\ k.client[s].conn
      BY <1>1, <3>1, CleanedAssigned
    <3>3. Settling(k) /\ Ends(g, k)
      BY <3>1 DEF Cleaned
    <3>4. Good(k) /\ Thins(g, k)
      BY <3>3, EndsGood DEF Ends
    <3> QED BY <3>2, <3>4
  <2> QED BY <2>1, <2>2
<1> HIDE DEF k
<1>3. CASE k.client[s].play
  <2> DEFINE m == Assign(k, s, blocked)
  <2>1. h = m
    BY <1>3 DEF Rerecord
  <2>2. Assigned(k, m, s)
    BY <1>2, AssignFacts
  <2> HIDE DEF h, m
  <2>3. Settling(m) /\ Ends(k, m) /\ Thins(k, m)
    BY <2>2 DEF Assigned, Ends
  <2>4. Good(m) /\ Thins(g, m)
    BY <1>2, <2>3, EndsGood, ThinsTransitive
  <2> QED BY <2>1, <2>4 DEF h, k
<1>4. CASE ~k.client[s].play
  BY <1>2, <1>4 DEF Rerecord, k
<1> QED BY <1>3, <1>4

\* ResetPlayers keeps the invariant.
LEMMA ResetGhostsFacts ==
  ASSUME NEW g, Good(g), NEW blocked
  PROVE  LET h == ResetGhosts(g, blocked) IN Good(h) /\ Thins(g, h)
<1> DEFINE X == {h \in State : Good(h) /\ Thins(g, h)}
           one(h, i) == IF Active(h, i) THEN Rerecord(ClearGhost(h, i, blocked), i, blocked) ELSE h
           F == [h \in X |-> [i \in Slots |-> one(h, i)]]
           Is(f) == f = [n \in 0..N |-> IF n = 0 THEN g ELSE one(f[n - 1], n)]
           after == CHOOSE f : Is(f)
           B == {n \in 0..N : after[n] \in X}
<1>0. N \in Nat
  BY GhostAssumption
<1>1. g \in X
  BY SameReflexive, GoodFields
<1>2. ASSUME NEW h \in X, NEW i \in Slots PROVE one(h, i) \in X
  <2>1. Good(h) /\ Thins(g, h)
    OBVIOUS
  <2>2. CASE ~Active(h, i)
    BY <2>2
  <2>3. CASE Active(h, i)
    <3> DEFINE k == Rerecord(ClearGhost(h, i, blocked), i, blocked)
    <3>1. Good(k) /\ Thins(h, k)
      BY <2>1, <2>3, RerecordFacts DEF Active
    <3> HIDE DEF k
    <3>2. Thins(g, k) /\ k \in State
      BY <2>1, <3>1, ThinsTransitive, GoodFields
    <3>3. k \in X
      BY <3>1, <3>2
    <3> QED BY <2>3, <3>3 DEF k
  <2> QED BY <2>2, <2>3
<1> HIDE DEF X
<1>3. F \in [X -> [Slots -> X]]
  BY <1>2
<1>3f. \A h \in X, i \in Slots : F[h][i] = one(h, i)
  OBVIOUS
<1> HIDE DEF F
<1>4. PICK f \in [0..N -> X] : Follows(f, g, F)
  BY <1>1, <1>3, EachExists
<1>5. Is(f)
  <2>1. ASSUME NEW n \in 0..N, n # 0 PROVE F[f[n - 1]][n] = one(f[n - 1], n)
    <3>1. n \in Slots /\ n - 1 \in 0..N
      BY <1>0, <2>1 DEF Slots
    <3>2. f[n - 1] \in X
      BY <1>4, <3>1
    <3> QED BY <1>3f, <3>1, <3>2
  <2> HIDE DEF one
  <2> QED BY <1>4, <2>1 DEF Follows
<1>6. Is(after)
  BY <1>5
<1>7. ResetGhosts(g, blocked) = after[N]
  BY DEF ResetGhosts, Each
<1> HIDE DEF after, one
<1>8. 0 \in B
  BY <1>0, <1>1, <1>6
<1>9. ASSUME NEW n \in Slots, n - 1 \in B PROVE n \in B
  <2>1. n \in 0..N /\ n # 0
    BY <1>0 DEF Slots
  <2>2. after[n] = one(after[n - 1], n)
    BY <1>6, <2>1
  <2>3. after[n - 1] \in X
    BY <1>9
  <2> QED BY <1>2, <2>1, <2>2, <2>3
<1> HIDE DEF B
<1>10. N \in B
  BY <1>8, <1>9, Climb
<1> QED BY <1>7, <1>10 DEF B, X

\* The handoffs of all slots are for the new match.
NormalizeAll(g) == Each(Normalize, g)

\* Clients, reservations and statistics are the same.
Beholds(g, h) == h.client = g.client /\ h.snap = g.snap /\ h.part = g.part

\* Normalising the handoffs keeps the invariant.
LEMMA NormalizeAllGood ==
  ASSUME NEW g, Good(g)
  PROVE  LET h == NormalizeAll(g)
         IN Good(h) /\ Beholds(g, h) /\ h.stage = g.stage
<1> DEFINE X == {h \in State : Good(h) /\ Beholds(g, h) /\ h.stage = g.stage}
           one(h, i) == Normalize(h, i)
           F == [h \in X |-> [i \in Slots |-> one(h, i)]]
           Is(f) == f = [n \in 0..N |-> IF n = 0 THEN g ELSE one(f[n - 1], n)]
           after == CHOOSE f : Is(f)
           B == {n \in 0..N : after[n] \in X}
<1>0. N \in Nat
  BY GhostAssumption
<1>1. g \in X
  BY GoodFields DEF Beholds
<1>2. ASSUME NEW h \in X, NEW i \in Slots PROVE one(h, i) \in X
  <2>1. Good(one(h, i)) /\ one(h, i).client = h.client
    BY NormalizeGood
  <2>2. one(h, i).stage = h.stage /\ one(h, i).snap = h.snap /\ one(h, i).part = h.part
    BY DEF Normalize, State
  <2> HIDE DEF one
  <2> QED BY <2>1, <2>2, GoodFields DEF Beholds
<1> HIDE DEF X
<1>3. F \in [X -> [Slots -> X]]
  BY <1>2
<1>3f. \A h \in X, i \in Slots : F[h][i] = one(h, i)
  OBVIOUS
<1> HIDE DEF F
<1>4. PICK f \in [0..N -> X] : Follows(f, g, F)
  BY <1>1, <1>3, EachExists
<1>5. Is(f)
  <2>1. ASSUME NEW n \in 0..N, n # 0 PROVE F[f[n - 1]][n] = one(f[n - 1], n)
    <3>1. n \in Slots /\ n - 1 \in 0..N
      BY <1>0, <2>1 DEF Slots
    <3>2. f[n - 1] \in X
      BY <1>4, <3>1
    <3> QED BY <1>3f, <3>1, <3>2
  <2> HIDE DEF one
  <2> QED BY <1>4, <2>1 DEF Follows
<1>6. Is(after)
  BY <1>5
<1>7. NormalizeAll(g) = after[N]
  BY DEF NormalizeAll, Each
<1> HIDE DEF after, one
<1>8. 0 \in B
  BY <1>0, <1>1, <1>6
<1>9. ASSUME NEW n \in Slots, n - 1 \in B PROVE n \in B
  <2>1. n \in 0..N /\ n # 0
    BY <1>0 DEF Slots
  <2>2. after[n] = one(after[n - 1], n)
    BY <1>6, <2>1
  <2>3. after[n - 1] \in X
    BY <1>9
  <2> QED BY <1>2, <2>1, <2>2, <2>3
<1> HIDE DEF B
<1>10. N \in B
  BY <1>8, <1>9, Climb
<1> QED BY <1>7, <1>10 DEF B, X

\* The new match has its own epochs.
LEMMA OpenMatchGood ==
  ASSUME NEW g, Good(g), \A i \in Slots : ~Valid(g, i), g.match < MaxMatch, g.round < MaxRound
  PROVE  LET h == OpenMatch(g)
         IN /\ Good(h) /\ h.client = g.client /\ h.stage = g.stage
            /\ h.snap = g.snap /\ \A id \in Ids : Present(h, id)
<1> DEFINE in == {g.client[s].id : s \in {t \in Slots : Active(g, t) /\ g.client[t].play}}
           p == [id \in Ids |-> IF id \in in THEN "in" ELSE "out"]
           h == [g EXCEPT !.match = g.match + 1, !.round = g.round + 1, !.part = p]
<1>1. /\ g \in State /\ g.match \in 0..MaxMatch /\ g.round \in 0..MaxRound
      /\ g.world \in 0..MaxRound /\ g.world <= g.round
  BY GoodFields, StateFields DEF Settling
<1>2. OpenMatch(g) = h
  BY DEF OpenMatch
<1>3. p \in Part
  BY DEF Part
<1>4. MaxMatch \in Nat /\ MaxRound \in Nat
  BY GhostAssumption
<1>5. /\ g.match + 1 \in 0..MaxMatch /\ g.round + 1 \in 0..MaxRound
      /\ g.world <= g.round + 1
  BY <1>1, <1>4
<1>7. ASSUME NEW id \in Ids, p[id] = "in" PROVE Plays(g, id)
  BY <1>7 DEF Plays, Active
<1> HIDE DEF p
<1>6. /\ h \in State /\ Elsewhen(g, h) /\ h.snap = g.snap /\ h.world <= h.round
      /\ h.client = g.client /\ h.stage = g.stage /\ h.part = p
  BY <1>1, <1>3, <1>5 DEF State, Elsewhen
<1> HIDE DEF h
<1>8. \A id \in Ids : Present(h, id)
  BY <1>6, <1>7 DEF Present, Plays
<1>9. Good(h)
  BY <1>6, ElsewhenFacts DEF Valid
<1> QED BY <1>2, <1>6, <1>8, <1>9

\* Match_Start keeps the invariant.
LEMMA StartGood ==
  ASSUME Good(w), NEW blocked, Match_Start(blocked)
  PROVE  Good(w') /\ Switches(w, w') /\ Remains(w, w')
<1> DEFINE c == RebuildWorld(ClearAll([w EXCEPT !.stage = "playing"], TRUE, blocked))
           r == ResetGhosts(c, blocked)
           o == OpenMatch(r)
<1>1. w' = NormalizeAll(o)
  BY DEF Match_Start, NormalizeAll
<1>2. w.match < MaxMatch /\ w.round < MaxRound /\ w.stage = "warmup"
  BY DEF Match_Start
<1>3. /\ Good(c) /\ \A i \in Slots : ~Valid(c, i)
      /\ c.match = w.match /\ c.round = w.round
      /\ c.stage = "playing" /\ NobodyNew(w, c)
  <2>1. "playing" \in Stages
    BY DEF Stages
  <2> QED BY <2>1, RestageGood
<1> HIDE DEF c
<1>5. Good(r) /\ Thins(c, r)
  BY <1>3, ResetGhostsFacts
<1> HIDE DEF r
<1>6. /\ \A i \in Slots : ~Valid(r, i)
      /\ r.match = w.match /\ r.round = w.round
  BY <1>3, <1>5 DEF Thins
<1>7. /\ Good(o) /\ o.client = r.client /\ o.stage = r.stage
      /\ o.snap = r.snap /\ \A id \in Ids : Present(o, id)
  BY <1>2, <1>5, <1>6, OpenMatchGood
<1> HIDE DEF o
<1>8. /\ Good(w') /\ w'.client = o.client /\ w'.stage = o.stage
      /\ w'.snap = o.snap /\ w'.part = o.part
  BY <1>1, <1>7, NormalizeAllGood DEF Beholds
<1>9. NobodyNew(w, w') /\ w'.stage = "playing"
  BY <1>3, <1>5, <1>7, <1>8 DEF NobodyNew, Thins
<1>10. Accounted(w') /\ Rest(w')
  <2>1. \A i \in Slots : ~Valid(w', i)
    BY <1>6, <1>7, <1>8 DEF Valid
  <2>2. \A id \in Ids : Present(w', id)
    BY <1>7, <1>8 DEF Present, Plays, Reserves, Valid
  <2> QED BY <2>1, <2>2 DEF Accounted, Rest
<1> QED BY <1>2, <1>8, <1>9, <1>10 DEF Switches, Remains

-----------------------------------------------------------------------------
(* The whole specification.                                                 *)

\* A server that has just started keeps nothing.
LEMMA InitGood ==
  ASSUME Init
  PROVE  Good(w) /\ Accounted(w) /\ Rest(w)
<1>1. 1 \in Slots /\ 0 \notin Slots
  BY GhostAssumption DEF Slots
<1>2. 1 \in 1..MaxGen /\ 0 \in 0..MaxMatch /\ 0 \in 0..MaxRound /\ 1 \in 0..2
  BY GhostAssumption
<1>3. /\ NoClient(1) \in Client /\ NoClient(1).conn = FALSE /\ NoClient(1).begun = FALSE
      /\ NoClient(1).limbo = FALSE /\ NoClient(1).holder = FALSE /\ NoClient(1).ghost = 0
  BY <1>2, NoClientFields
<1>4. /\ NoSnap.valid = FALSE /\ NoSnap \in Snap /\ NoFallback.valid = FALSE
      /\ NoFallback \in Fallback /\ NoRecord \in Record
  BY DEF NoSnap, Snap, NoFallback, Fallback, NoRecord, Record
<1>5. NoTimeout \in Timeout /\ NoTimeout.ent = 0
  BY DEF NoTimeout, Timeout
<1>6. "warmup" \in Stages /\ [id \in Ids |-> "out"] \in Part
  BY DEF Stages, Part
<1>7. /\ w.client = [s \in Slots |-> NoClient(1)] /\ w.rec = [i \in Slots |-> NoRecord]
      /\ w.snap = [i \in Slots |-> NoSnap] /\ w.fall = [s \in Slots |-> NoFallback]
      /\ w.abort = {} /\ w.timeout = NoTimeout /\ w.world = 0 /\ w.round = 0
  BY DEF Init
<1>8. w \in State
  BY <1>1, <1>2, <1>3, <1>4, <1>5, <1>6 DEF Init, State
<1>9. \A i \in Slots : ~Valid(w, i)
  BY <1>4, <1>7 DEF Valid
<1>10. \A s \in Slots : ClientOK(w, s) /\ FallOK(w, s)
  BY <1>3, <1>4, <1>7 DEF ClientOK, FallOK
<1>11. \A i \in Slots : SnapOK(w, i)
  BY <1>9 DEF SnapOK
<1>12. Apart(w)
  BY <1>3, <1>7, <1>9 DEF Apart
<1>13. Settling(w)
  BY <1>7, <1>8, <1>10, <1>11, <1>12 DEF Settling
<1>14. Accounted(w) /\ Rest(w)
  BY DEF Init, Accounted, Rest
<1> QED BY <1>5, <1>7, <1>9, <1>13, <1>14, BareGood

\* A step of the match keeps the invariant; nobody connects, and a timeout
\* with time left sees another stage.
LEMMA MatchStepsGood ==
  ASSUME Good(w), NEW blocked, MatchSteps(blocked)
  PROVE  Good(w') /\ Switches(w, w') /\ Remains(w, w')
<1>1. Rebuilds \subseteq BOOLEAN
  BY GhostAssumption
<1>2. CASE Match_Start(blocked)
  BY <1>2, StartGood
<1>3. CASE QueueIntermission \/ BeginIntermission
  BY <1>3, IntermissionGood
<1>4. CASE \E rebuild \in Rebuilds : StartNewRound(blocked, rebuild)
  BY <1>1, <1>4, StartNewRoundGood, CarriesRemains
<1>5. CASE Match_Reset(blocked)
  BY <1>5, ResetGood
<1>6. CASE ChangeLevel
  BY <1>6, ChangeLevelGood
<1> QED BY <1>2, <1>3, <1>4, <1>5, <1>6 DEF MatchSteps

\* Every step keeps the invariant.
LEMMA NextGood ==
  ASSUME Good(w), [Next]_w
  PROVE  Good(w') /\ Remains(w, w')
<1>1. CASE UNCHANGED w
  BY <1>1 DEF Remains, Accounted, Rest, Present, Plays, Reserves, Valid
<1>2. ASSUME NEW blocked, Frame(blocked)
      PROVE  Good(w') /\ Remains(w, w')
  BY <1>2, FrameGood, CarriesRemains
<1>3. ASSUME NEW blocked, ClientSteps(blocked)
      PROVE  Good(w') /\ Remains(w, w')
  BY <1>3, ClientStepsGood, CarriesRemains
<1>4. ASSUME NEW blocked, MatchSteps(blocked)
      PROVE  Good(w') /\ Remains(w, w')
  BY <1>4, MatchStepsGood
<1> QED BY <1>1, <1>2, <1>3, <1>4 DEF Next

\* The inductive invariant: what the reservations, the client slots, the
\* handoffs and the timeout of mm_ghost.cpp have to do with each other.
THEOREM Inductive == Spec => []IInv
<1>1. Init => IInv
  BY InitGood DEF IInv, Good
<1>2. IInv /\ [Next]_w => IInv'
  <2> SUFFICES ASSUME IInv, [Next]_w PROVE IInv'
    OBVIOUS
  <2>1. Good(w) /\ Accounted(w) /\ Rest(w)
    BY DEF IInv, Good
  <2>2. Good(w') /\ Accounted(w') /\ Rest(w')
    BY <2>1, NextGood DEF Remains
  <2> QED BY <2>2 DEF IInv, Good, Sound, Settling, Owned, Live, Absent, Accounted, Rest
<1> QED BY <1>1, <1>2, PTL DEF Spec

\* Every field of the client slots, records, snapshots and handoffs stays in
\* its type (the tables of mm_ghost.cpp and gclient_t).
THEOREM TypeCorrect == Spec => []TypeOK
<1>1. IInv => TypeOK
  <2> SUFFICES ASSUME IInv PROVE TypeOK
    OBVIOUS
  <2>1. w \in State
    BY DEF IInv, Sound, Settling
  <2> QED BY <2>1, StateFields DEF TypeOK, Record, Snap, Fallback, Timeout, Part
<1> QED BY <1>1, Inductive, PTL

\* The same identity is never in two slots, as a connection or a reservation.
LEMMA BodiesAgree ==
  ASSUME Apart(w), NEW id \in Ids, NEW s \in Bodies(id), NEW t \in Bodies(id)
  PROVE  s = t
BY DEF Bodies, Apart, Valid

\* An identity is in one place: ClientConnect, the claim of a reservation and
\* its end never leave a player in one slot and a reservation of his in
\* another.
THEOREM OnePlace == Spec => []OneIdentity
<1>1. IInv => OneIdentity
  <2> SUFFICES ASSUME IInv, NEW id \in Ids PROVE Cardinality(Bodies(id)) <= 1
    BY DEF OneIdentity
  <2>1. Apart(w)
    BY DEF IInv, Sound, Settling
  <2>2. \A s, t \in Bodies(id) : s = t
    BY <2>1, BodiesAgree
  <2>3. CASE Bodies(id) = {}
    BY <2>3, FS_EmptySet
  <2>4. CASE Bodies(id) # {}
    <3>1. PICK s \in Bodies(id) : TRUE
      BY <2>4
    <3>2. Bodies(id) = {s}
      BY <2>2, <3>1
    <3>3. Cardinality({s}) = 1
      BY FS_Singleton
    <3> QED BY <3>2, <3>3
  <2> QED BY <2>3, <2>4
<1> QED BY <1>1, Inductive, PTL

\* Nobody is in the level before the engine has called ClientBegin for him,
\* whatever a frame does to his claim.
THEOREM SpawnsAfterBegin == Spec => []NeverSpawnsBeforeBegin
<1>1. IInv => NeverSpawnsBeforeBegin
  BY DEF IInv, Sound, Settling, ClientOK, NeverSpawnsBeforeBegin, Active
<1> QED BY <1>1, Inductive, PTL

\* The owner of an automatic timeout is the slot of a reservation: the
\* pointer does not outlive what gave it its authority.
THEOREM TimeoutHasOwner == Spec => []TimeoutOwned
<1>1. IInv => TimeoutOwned
  BY DEF IInv, Sound, Owned, Waiting, TimeoutOwned, ReservedSlot
<1> QED BY <1>1, Inductive, PTL

\* Nobody whose result is open is forgotten: whatever drops, claims, expires,
\* restarts or ends a round, who takes part plays on a connection, waits for a
\* state to be given back, or has a reservation of this match that will settle
\* his departure.
THEOREM Participants == Spec => []ParticipantKept
<1>1. IInv => ParticipantKept
  <2> SUFFICES ASSUME IInv, w.stage = "playing", NEW id \in Ids, w.part[id] = "in"
      PROVE  \/ \E s \in Slots : /\ w.client[s].conn /\ w.client[s].id = id
                                 /\ w.client[s].play \/ Protected(w, s)
             \/ \E i \in Slots : /\ w.snap[i].valid /\ w.snap[i].id = id
                                 /\ BelongsToMatch(w, i) /\ ~w.snap[i].settled
    BY DEF ParticipantKept
  <2>1. Plays(w, id) \/ Reserves(w, id)
    BY DEF IInv, Accounted, Present
  <2>2. CASE Plays(w, id)
    BY <2>2 DEF Plays
  <2>3. CASE Reserves(w, id)
    <3>1. PICK i \in Slots : Valid(w, i) /\ w.snap[i].id = id /\ ~w.snap[i].settled
      BY <2>3 DEF Reserves
    <3>2. BelongsToMatch(w, i)
      BY <3>1 DEF IInv, Live, BelongsToMatch, Valid
    <3> QED BY <3>1, <3>2 DEF Valid
  <2> QED BY <2>1, <2>2, <2>3
<1> QED BY <1>1, Inductive, PTL

\* A slot kept for an identity is only taken by it: ClientChooseSlot and
\* MM_Ghost_PrepareClientConnect refuse everybody else, even when the
\* reservation is stale, and the expiries of the call itself free no slot but
\* that of the identity that connects.
THEOREM SlotKept == Spec => SlotNotStolen
<1>1. IInv /\ [Next]_w => Spared(w, w') \/ UNCHANGED w
  <2> SUFFICES ASSUME IInv, Next PROVE Spared(w, w')
    OBVIOUS
  <2>1. Good(w)
    BY DEF IInv, Good
  <2>2. ASSUME NEW blocked, Frame(blocked) PROVE Spared(w, w')
    BY <2>1, <2>2, FrameGood, NobodyNewSpared
  <2>3. ASSUME NEW blocked, ClientSteps(blocked) PROVE Spared(w, w')
    BY <2>1, <2>3, ClientStepsGood
  <2>4. ASSUME NEW blocked, MatchSteps(blocked) PROVE Spared(w, w')
    BY <2>1, <2>4, MatchStepsGood, NobodyNewSpared DEF Switches
  <2> QED BY <2>2, <2>3, <2>4 DEF Next
<1>2. IInv /\ [Next]_w => [\A s, i \in Slots :
                            (/\ w.snap[i].valid /\ w.rec[i].ent = s
                             /\ ~w.client[s].conn /\ w'.client[s].conn) =>
                              w.snap[i].id = w'.client[s].id]_w
  BY <1>1 DEF Spared, Valid
<1> QED BY <1>2, Inductive, PTL DEF Spec, SlotNotStolen

\* Only what becomes of its owner ends an automatic timeout early: a restore,
\* an expiry or a departure of anybody else leaves it as it is.
THEOREM TimeoutForOwner == Spec => OwnerResumes
<1>1. ASSUME IInv, Next, w.timeout.left > 1
      PROVE  Resumes(w, w') \/ w'.stage # w.stage
  <2>1. Good(w)
    BY <1>1 DEF IInv, Good
  <2>2. ASSUME NEW blocked, Frame(blocked) PROVE Resumes(w, w')
    BY <1>1, <2>1, <2>2, FrameGood DEF Passed
  <2>3. ASSUME NEW blocked, ClientSteps(blocked) PROVE Resumes(w, w')
    BY <2>1, <2>3, ClientStepsGood
  <2>4. ASSUME NEW blocked, MatchSteps(blocked) PROVE w'.stage # w.stage
    BY <1>1, <2>1, <2>4, MatchStepsGood DEF Switches
  <2> QED BY <1>1, <2>2, <2>3, <2>4 DEF Next
<1>2. IInv /\ [Next]_w =>
        [(/\ w.timeout.auto /\ Retained(w) /\ w.timeout.left > 1
          /\ ~Retained(w') /\ w'.stage = w.stage) =>
           w.timeout.ent # 0 /\ Waiting(w, w.timeout.ent) /\ ~Waiting(w', w.timeout.ent)]_w
  BY <1>1 DEF Resumes
<1> QED BY <1>2, Inductive, PTL DEF Spec, OwnerResumes

=============================================================================
