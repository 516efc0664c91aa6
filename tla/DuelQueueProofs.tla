-------------------------- MODULE DuelQueueProofs --------------------------
(***************************************************************************)
(* Proofs about the duel queue.  Every action moves the sessions in one of *)
(* four ways (not at all, one enters, one queues, one sits down) and the   *)
(* verdict in its own; the invariant is proved for each half, and the line *)
(* from the sessions alone.                                                *)
(***************************************************************************)
EXTENDS DuelQueueProps, FiniteSetTheorems, TLAPS

\* OrderBefore, of any numbering o.
Bef(o, a, b) ==
  IF o[a] # o[b] THEN o[a] = 0 \/ (o[b] # 0 /\ o[a] < o[b]) ELSE a < b

(***************************************************************************)
(* The inductive invariant.                                                *)
(***************************************************************************)
\* Nobody both waits and plays; who does not wait has no number, and who has
\* kept his place has one that was given out.
Sessions ==
  /\ playing \subseteq Slots /\ queued \subseteq Slots /\ lost \subseteq queued
  /\ order \in [Slots -> 0..MaxOrder] /\ nextOrder \in 0..MaxOrder
  /\ queued \intersect playing = {}
  /\ \A c \in Slots \ queued : order[c] = 0
  /\ \A c \in queued \ lost : order[c] \in 1..nextOrder

\* A win has been given only if there is a verdict, or the map is being left.
Verdicts ==
  /\ phase \in Phases
  /\ verdict \in {"none", "void", "draw", "won"}
  /\ loser \in Slots \union {Nobody} /\ loserIs \in {"same", "other", "unknown"}
  /\ credited \in {0, 1}
  /\ verdict = "none" /\ phase # "left" => credited = 0

Clients == conn \in [Slots -> {"gone", "loading", "in"}] /\ inFrame \in BOOLEAN

IInv == Sessions /\ Verdicts /\ Clients

\* The invariant has what the runs check.
LEMMA IInvFacts == IInv => TypeOK /\ OneVerdict
  BY DEF IInv, Sessions, Verdicts, Clients, TypeOK, OneVerdict

\* It holds at the start.
LEMMA InitInv == Init => IInv
<1> SUFFICES ASSUME Init PROVE IInv
  OBVIOUS
<1>1. MaxOrder \in Nat
  BY OrderAssumption
<1>2. 0 \in 0..MaxOrder
  BY <1>1
<1>3. Sessions
  BY <1>2 DEF Init, Sessions
<1>4. Verdicts /\ Clients
  BY DEF Init, Verdicts, Clients, Phases
<1> QED BY <1>3, <1>4 DEF IInv

(***************************************************************************)
(* The order of the line.                                                  *)
(***************************************************************************)
\* Two different slots have an order, and only one.
LEMMA BefTotal ==
  ASSUME NEW o \in [Slots -> Nat], NEW a \in Slots, NEW b \in Slots
  PROVE  /\ ~(Bef(o, a, b) /\ Bef(o, b, a))
         /\ a # b => Bef(o, a, b) \/ Bef(o, b, a)
<1>1. o[a] \in Nat /\ o[b] \in Nat /\ a \in Nat /\ b \in Nat
  BY SlotsAssumption
<1> QED BY <1>1 DEF Bef

\* The order is transitive.
LEMMA BefTransitive ==
  ASSUME NEW o \in [Slots -> Nat], NEW a \in Slots, NEW b \in Slots, NEW c \in Slots,
         Bef(o, a, b), Bef(o, b, c)
  PROVE  Bef(o, a, c)
<1>1. o[a] \in Nat /\ o[b] \in Nat /\ o[c] \in Nat /\ a \in Nat /\ b \in Nat /\ c \in Nat
  BY SlotsAssumption
<1> QED BY <1>1 DEF Bef

\* The number a slot is given when the numbers are given out anew.
Place(I, d) == 1 + Cardinality({e \in I : Bef(order, e, d)})

\* It lies in the line.
LEMMA PlaceBounds ==
  ASSUME Sessions, NEW I \in SUBSET Slots, NEW d \in I
  PROVE  Place(I, d) \in 1..Cardinality(I) /\ Cardinality(I) \in 0..(MaxOrder - 1)
<1> DEFINE before == {e \in I : Bef(order, e, d)}
<1>1. IsFiniteSet(I) /\ Cardinality(I) <= Cardinality(Slots)
  BY SlotsAssumption, FS_Subset
<1>2. order \in [Slots -> Nat]
  BY OrderAssumption DEF Sessions
<1>3. d \notin before
  BY <1>2, BefTotal
<1>4. before \subseteq I \ {d}
  BY <1>3
<1>5. IsFiniteSet(before) /\ Cardinality(before) <= Cardinality(I) /\ before # I
  BY <1>1, <1>3, FS_Subset
<1>6. Cardinality(before) # Cardinality(I)
  BY <1>1, <1>5, FS_Subset
<1>7. /\ Cardinality(before) \in Nat /\ Cardinality(I) \in Nat /\ Cardinality(Slots) \in Nat
      /\ Cardinality(Slots) < MaxOrder /\ MaxOrder \in Nat
  BY <1>1, <1>5, SlotsAssumption, OrderAssumption, FS_CardinalityType
<1>8. Place(I, d) = 1 + Cardinality(before)
  BY DEF Place
<1> HIDE DEF before
<1> QED BY <1>1, <1>5, <1>6, <1>7, <1>8

\* Who is before another gets the smaller number.
LEMMA PlaceSmaller ==
  ASSUME Sessions, NEW I \in SUBSET Slots, NEW d \in I, NEW f \in I, Bef(order, d, f)
  PROVE  Place(I, d) < Place(I, f)
<1> DEFINE A == {e \in I : Bef(order, e, d)}
           B == {e \in I : Bef(order, e, f)}
<1>1. IsFiniteSet(I)
  BY SlotsAssumption, FS_Subset
<1>2. order \in [Slots -> Nat]
  BY OrderAssumption DEF Sessions
<1>3. A \subseteq B
  <2> SUFFICES ASSUME NEW e \in A PROVE e \in B
    OBVIOUS
  <2>1. e \in I /\ Bef(order, e, d) /\ e \in Slots /\ d \in Slots /\ f \in Slots
    OBVIOUS
  <2>2. Bef(order, e, f)
    BY <2>1, <1>2, BefTransitive
  <2> QED BY <2>1, <2>2
<1>4. d \in B /\ d \notin A
  BY <1>2, BefTotal
<1>5. IsFiniteSet(B) /\ IsFiniteSet(A)
  BY <1>1, FS_Subset
<1>6. Place(I, d) = 1 + Cardinality(A) /\ Place(I, f) = 1 + Cardinality(B)
  BY DEF Place
<1> HIDE DEF A, B
<1>7. A # B /\ Cardinality(A) <= Cardinality(B) /\ Cardinality(A) # Cardinality(B)
  BY <1>3, <1>4, <1>5, FS_Subset
<1>8. Cardinality(A) \in Nat /\ Cardinality(B) \in Nat
  BY <1>5, FS_CardinalityType
<1> QED BY <1>6, <1>7, <1>8

(***************************************************************************)
(* The sessions.                                                           *)
(***************************************************************************)
\* c is the last of the line, and those in "gone" have lost their places.
Joins(c, gone) ==
  /\ Waiting' = (Waiting \ gone) \union {c}
  /\ \A d \in Waiting \ gone : Bef(order', d, c)
  /\ \A d, e \in Waiting \ gone : Bef(order', d, e) <=> Bef(order, d, e)

\* A new number is larger than all those given.
LEMMA NextNumberFacts ==
  ASSUME Sessions, NEW c \in Slots, c \notin queued, NEW highest \in 0..MaxOrder,
         nextOrder <= highest, \A d \in InLine : order[d] <= highest,
         playing' = playing \ {c}, queued' = queued \union {c}, NextNumber(c, highest)
  PROVE  Sessions' /\ Joins(c, {})
<1>1. MaxOrder \in Nat /\ highest + 1 \in 1..MaxOrder /\ highest + 1 > nextOrder
  BY OrderAssumption DEF NextNumber, Sessions
<1>2. order \in [Slots -> 0..MaxOrder] /\ nextOrder \in 0..MaxOrder
  BY DEF Sessions
<1>3. /\ nextOrder' = highest + 1 /\ lost' = lost /\ order' \in [Slots -> 0..MaxOrder]
      /\ order'[c] = highest + 1 /\ \A d \in Slots \ {c} : order'[d] = order[d]
  BY <1>1, <1>2 DEF NextNumber
<1>4. \A d \in queued \ lost : d \in Slots /\ d # c /\ order[d] \in 1..nextOrder
  BY DEF Sessions
<1>5. \A d \in queued' \ lost' : order'[d] \in 1..nextOrder'
  BY <1>1, <1>2, <1>3, <1>4
<1>6. Sessions'
  BY <1>1, <1>3, <1>5 DEF Sessions
<1>7. Waiting' = Waiting \union {c}
  BY <1>3 DEF Waiting, Sessions
<1>8. \A d \in Waiting : Bef(order', d, c)
  BY <1>1, <1>2, <1>3, <1>4 DEF Bef, Waiting
<1>9. \A d, e \in Waiting : Bef(order', d, e) <=> Bef(order, d, e)
  BY <1>3, <1>4 DEF Bef, Waiting
<1> QED BY <1>6, <1>7, <1>8, <1>9 DEF Joins

\* Numbers given out anew keep the order of those who get one.
LEMMA NewNumbersFacts ==
  ASSUME Sessions, NEW c \in Slots, c \notin queued,
         playing' = playing \ {c}, queued' = queued \union {c}, NewNumbers(c)
  PROVE  Sessions' /\ Joins(c, Waiting \ Here)
<1> DEFINE I == InLine \union {c}
           last == Cardinality(I) + 1
<1>1. I \in SUBSET Slots /\ InLine \subseteq I /\ c \in I /\ c \notin InLine
  BY DEF InLine, Sessions
<1>2. \A d \in I : Place(I, d) \in 1..Cardinality(I) /\ Cardinality(I) \in 0..(MaxOrder - 1)
  BY <1>1, PlaceBounds
<1>3. /\ MaxOrder \in Nat /\ Cardinality(I) \in Nat /\ last \in 1..MaxOrder
      /\ \A d \in I : Place(I, d) \in 1..last /\ Place(I, d) < last
  <2> HIDE DEF I
  <2>1. MaxOrder \in Nat /\ Cardinality(I) \in 0..(MaxOrder - 1)
    BY <1>1, <1>2, OrderAssumption
  <2>2. last = Cardinality(I) + 1
    OBVIOUS
  <2> HIDE DEF last
  <2> QED BY <1>2, <2>1, <2>2
<1>4. \A d : Rank(c, d) = Place(I, d)
  BY DEF Rank, Place, OrderBefore, Bef
<1>5. order' = [d \in Slots |-> IF d = c THEN last
                                ELSE IF d \in InLine THEN Place(I, d) ELSE order[d]]
  BY <1>4 DEF NewNumbers
<1>6. nextOrder' = last /\ lost' = lost \union (queued \ Here)
  BY DEF NewNumbers
<1>7. /\ order \in [Slots -> 0..MaxOrder] /\ queued \subseteq Slots /\ lost \subseteq queued
      /\ \A d \in Slots \ queued : order[d] = 0
  BY DEF Sessions
<1> HIDE DEF I, last
<1>8. /\ order'[c] = last
      /\ \A d \in InLine : order'[d] = Place(I, d) /\ d # c /\ d \in Slots
      /\ \A d \in Slots \ I : order'[d] = order[d]
  BY <1>1, <1>5 DEF I
<1>9. order' \in [Slots -> 0..MaxOrder]
  <2>1. \A d \in Slots : order'[d] \in 0..MaxOrder
    <3> SUFFICES ASSUME NEW d \in Slots PROVE order'[d] \in 0..MaxOrder
      OBVIOUS
    <3>1. CASE d = c
      BY <3>1, <1>3, <1>8
    <3>2. CASE d \in InLine
      BY <3>2, <1>1, <1>3, <1>8
    <3>3. CASE d \notin I
      BY <3>3, <1>7, <1>8
    <3> QED BY <3>1, <3>2, <3>3 DEF I
  <2> QED BY <2>1, <1>5
<1>10. Waiting' = (Waiting \intersect Here) \union {c}
  BY <1>6, <1>7 DEF Waiting
<1>11. Waiting \intersect Here \subseteq InLine
  BY DEF Waiting, InLine
<1>12. \A d \in Waiting' : order'[d] \in 1..nextOrder'
  BY <1>1, <1>3, <1>6, <1>8, <1>10, <1>11
<1>13. \A d \in Slots \ queued' : order'[d] = 0
  BY <1>7, <1>8 DEF I, InLine
<1>14. Sessions'
  <2>1. playing' \subseteq Slots /\ queued' \subseteq Slots /\ queued' \intersect playing' = {}
    BY DEF Sessions
  <2>2. lost' \subseteq queued'
    BY <1>6, <1>7
  <2>3. nextOrder' \in 0..MaxOrder
    BY <1>3, <1>6
  <2>4. \A d \in queued' \ lost' : order'[d] \in 1..nextOrder'
    BY <1>12 DEF Waiting
  <2> QED BY <2>1, <2>2, <2>3, <2>4, <1>9, <1>13 DEF Sessions
<1>15. \A d \in InLine : Bef(order', d, c)
  BY <1>1, <1>3, <1>8 DEF Bef
<1>16. \A d, e \in InLine : Bef(order', d, e) <=> Bef(order, d, e)
  <2> SUFFICES ASSUME NEW d \in InLine, NEW e \in InLine
               PROVE  Bef(order', d, e) <=> Bef(order, d, e)
    OBVIOUS
  <2>1. d \in I /\ e \in I /\ d \in Slots /\ e \in Slots
    BY <1>1
  <2>2. Place(I, d) \in Nat \ {0} /\ Place(I, e) \in Nat \ {0}
    BY <2>1, <1>3
  <2>3. Bef(order, d, e) => Place(I, d) < Place(I, e)
    BY <2>1, <1>1, PlaceSmaller
  <2>4. Bef(order, e, d) => Place(I, e) < Place(I, d)
    BY <2>1, <1>1, PlaceSmaller
  <2>5. order \in [Slots -> Nat]
    BY <1>7, <1>3
  <2>6. ~(Bef(order, d, e) /\ Bef(order, e, d)) /\ (d # e => Bef(order, d, e) \/ Bef(order, e, d))
    BY <2>1, <2>5, BefTotal
  <2>7. Place(I, d) < Place(I, e) => Bef(order', d, e) /\ ~Bef(order', e, d)
    BY <2>2, <1>8 DEF Bef
  <2>8. Place(I, e) < Place(I, d) => Bef(order', e, d) /\ ~Bef(order', d, e)
    BY <2>2, <1>8 DEF Bef
  <2>9. d = e => ~Bef(order', d, e)
    <3>1. d \in Nat
      BY <2>1, SlotsAssumption
    <3> QED BY <3>1 DEF Bef
  <2> QED BY <2>3, <2>4, <2>6, <2>7, <2>8, <2>9
<1>17. Waiting \ (Waiting \ Here) = Waiting \intersect Here
  OBVIOUS
<1> QED BY <1>10, <1>11, <1>14, <1>15, <1>16, <1>17 DEF Joins

\* A spectator or a loser queues.
LEMMA EnqueueFacts ==
  ASSUME Sessions, NEW c \in Slots, c \notin queued, Enqueue(c)
  PROVE  Sessions' /\ \E gone \in {{}, Waiting \ Here} : Joins(c, gone)
<1>1. PICK highest \in {nextOrder} \union {order[d] : d \in InLine} :
        /\ nextOrder <= highest /\ \A d \in InLine : order[d] <= highest
        /\ \/ NextNumber(c, highest)
           \/ highest = MaxOrder /\ NewNumbers(c)
  BY DEF Enqueue, AllocateQueueOrder
<1>2. highest \in 0..MaxOrder
  BY DEF Sessions, InLine
<1>3. playing' = playing \ {c} /\ queued' = queued \union {c}
  BY DEF Enqueue
<1>4. CASE NextNumber(c, highest)
  BY <1>1, <1>2, <1>3, <1>4, NextNumberFacts
<1>5. CASE NewNumbers(c)
  BY <1>3, <1>5, NewNumbersFacts
<1> QED BY <1>1, <1>4, <1>5

\* Somebody gives up his place, if he has one, to play or to watch.
LEMMA DequeueFacts ==
  ASSUME Sessions, NEW c \in Slots, Dequeue(c),
         playing' \in {playing \union {c}, playing \ {c}}
  PROVE  /\ Sessions' /\ Waiting' = Waiting \ {c}
         /\ \A d, e \in Waiting \ {c} : Bef(order', d, e) <=> Bef(order, d, e)
<1>1. /\ queued' = queued \ {c} /\ lost' = lost \ {c} /\ nextOrder' = nextOrder
      /\ order' = [order EXCEPT ![c] = 0]
  BY DEF Dequeue
<1>2. order \in [Slots -> 0..MaxOrder] /\ 0 \in 0..MaxOrder
  BY OrderAssumption DEF Sessions
<1>3. /\ order' \in [Slots -> 0..MaxOrder] /\ order'[c] = 0
      /\ \A d \in Slots \ {c} : order'[d] = order[d]
  BY <1>1, <1>2
<1>4. Sessions'
  BY <1>1, <1>3 DEF Sessions
<1>5. Waiting' = Waiting \ {c} /\ Waiting \subseteq Slots
  BY <1>1 DEF Waiting, Sessions
<1>6. \A d, e \in Waiting \ {c} : Bef(order', d, e) <=> Bef(order, d, e)
  BY <1>3, <1>5 DEF Bef
<1> QED BY <1>4, <1>5, <1>6
\* Somebody who neither waits nor plays asks to play.
LEMMA RequestPlayFacts ==
  ASSUME Sessions, NEW c \in Slots, c \notin playing \union queued, RequestPlay(c)
  PROVE  Sessions'
<1>1. CASE Enqueue(c)
  BY <1>1, EnqueueFacts
<1>2. CASE Enter(c)
  BY <1>2, DequeueFacts DEF Enter
<1> QED BY <1>1, <1>2 DEF RequestPlay

(***************************************************************************)
(* The verdict.                                                            *)
(***************************************************************************)
\* A verdict is given once.
LEMMA CommitFacts ==
  ASSUME Verdicts, phase # "left", phase' \in Phases,
         NEW v \in {"void", "draw", "won"}, NEW c \in Slots \union {Nobody},
         NEW is \in {"same", "other"}, Commit(v, c, is)
  PROVE  Verdicts'
<1>1. CASE verdict # "none" /\ UNCHANGED result
  BY <1>1 DEF Verdicts, result
<1>2. CASE verdict = "none" /\ Freeze(v, c, is)
  <2>1. credited = 0
    BY <1>2 DEF Verdicts
  <2>2. credited' \in {0, 1}
    BY <2>1, <1>2 DEF Freeze
  <2> QED BY <1>2, <2>2 DEF Verdicts, Freeze
<1> QED BY <1>1, <1>2 DEF Commit

\* The end of a match.
LEMMA MatchEndFacts ==
  ASSUME Verdicts, phase # "left", phase' \in Phases, MatchEndAdjustScores
  PROVE  Verdicts'
<1>1. CASE Commit("void", Nobody, "same")
  BY <1>1, CommitFacts
<1>2. CASE Commit("draw", Nobody, "same")
  BY <1>2, CommitFacts
<1>3. CASE \E c \in Duelists : Commit("won", c, "same")
  <2>1. PICK c \in Duelists : Commit("won", c, "same")
    BY <1>3
  <2>2. c \in Slots
    BY <2>1 DEF Duelists, Here
  <2> QED BY <2>1, <2>2, CommitFacts
<1> QED BY <1>1, <1>2, <1>3 DEF MatchEndAdjustScores

\* The start of a match, and its reset.
LEMMA ResetFacts ==
  ASSUME Verdicts, ResetFinalResult, phase' \in Phases, credited' = 0
  PROVE  Verdicts'
  BY DEF Verdicts, ResetFinalResult

(***************************************************************************)
(* The actions.                                                            *)
(***************************************************************************)
LEMMA ClientInv ==
  ASSUME IInv, NEW c \in Slots, Client(c)
  PROVE  IInv'
<1> USE DEF IInv
<1>1. CASE Connect(c)
  <2>1. Clients'
    BY <1>1 DEF Connect, Between, Clients
  <2>2. Sessions' /\ Verdicts'
    BY <1>1 DEF Connect, Sessions, Verdicts, sessions, result
  <2> QED BY <2>1, <2>2
<1>2. CASE Begin(c)
  <2>1. Clients' /\ Verdicts'
    BY <1>2 DEF Begin, Between, Clients, Verdicts, result
  <2>2. CASE UNCHANGED sessions
    BY <2>1, <2>2 DEF Sessions, sessions
  <2>3. CASE c \notin playing \union queued /\ RequestPlay(c)
    BY <2>1, <2>3, RequestPlayFacts
  <2> QED BY <1>2, <2>2, <2>3 DEF Begin
<1>3. CASE Disconnect(c)
  <2>1. Clients'
    BY <1>3 DEF Disconnect, Between, Clients
  <2>2. Sessions'
    BY <1>3, DequeueFacts DEF Disconnect, Sit
  <2>3. phase # "left"
    BY <1>3 DEF Disconnect, Between
  <2>4. CASE Forfeits(c) /\ Commit("won", c, "other") /\ phase' = "queued"
    <3>1. Verdicts'
      BY <2>3, <2>4, CommitFacts DEF Phases
    <3> QED BY <2>1, <2>2, <3>1
  <2>5. CASE ~Forfeits(c)
    <3>1. UNCHANGED <<phase, verdict, loser, credited>> /\ loserIs' \in {loserIs, "other"}
      BY <1>3, <2>5 DEF Disconnect
    <3>2. Verdicts'
      BY <3>1 DEF Verdicts
    <3> QED BY <2>1, <2>2, <3>2
  <2> QED BY <1>3, <2>4, <2>5 DEF Disconnect
<1>4. CASE Join(c)
  <2>1. Clients' /\ Verdicts'
    BY <1>4 DEF Join, Between, Clients, Verdicts, result
  <2>2. Sessions'
    BY <1>4, RequestPlayFacts DEF Join
  <2> QED BY <2>1, <2>2
<1>5. CASE Spectate(c)
  <2>1. Clients' /\ phase # "left"
    BY <1>5 DEF Spectate, Between, Clients
  <2>2. Sessions'
    BY <1>5, DequeueFacts DEF Spectate, Sit
  <2>3. CASE Forfeits(c) /\ Commit("won", c, "same") /\ phase' = "queued"
    BY <2>1, <2>2, <2>3, CommitFacts DEF Phases
  <2>4. CASE UNCHANGED <<phase, result>>
    BY <2>1, <2>2, <2>4 DEF Verdicts, result
  <2> QED BY <1>5, <2>3, <2>4 DEF Spectate, SettleDeparture
<1>6. CASE Forfeit(c)
  <2>1. Clients' /\ Sessions' /\ phase # "left"
    BY <1>6 DEF Forfeit, Between, Clients, Sessions, sessions
  <2>2. Verdicts'
    BY <1>6, <2>1, CommitFacts DEF Forfeit, Phases
  <2> QED BY <2>1, <2>2
<1> QED BY <1>1, <1>2, <1>3, <1>4, <1>5, <1>6 DEF Client

LEMMA ServerInv ==
  ASSUME IInv, Server
  PROVE  IInv'
<1> USE DEF IInv
<1>1. CASE ForceStart
  <2>1. Clients' /\ Sessions'
    BY <1>1 DEF ForceStart, Between, Clients, Sessions, sessions
  <2>2. Verdicts'
    BY <1>1, ResetFacts DEF ForceStart, MatchStart, Phases
  <2> QED BY <2>1, <2>2
<1>2. CASE MatchReset
  <2>1. Clients' /\ Sessions'
    BY <1>2 DEF MatchReset, Between, Clients, Sessions, sessions
  <2>2. Verdicts'
    BY <1>2, ResetFacts DEF MatchReset, Phases
  <2> QED BY <2>1, <2>2
<1>3. CASE NextMap
  <2>1. Clients' /\ Sessions' /\ phase # "left"
    BY <1>3 DEF NextMap, Between, Clients, Sessions, sessions
  <2>2. Verdicts'
    BY <1>3, <2>1, MatchEndFacts DEF NextMap, MatchEnd, Phases
  <2> QED BY <2>1, <2>2
<1>4. CASE ExitLevel
  <2>1. Clients' /\ phase' = "left" /\ credited' = credited
    BY <1>4 DEF ExitLevel, Between, Clients
  <2>2. CASE UNCHANGED <<sessions, verdict, loser, loserIs>>
    <3>1. Sessions'
      BY <2>2 DEF Sessions, sessions
    <3>2. Verdicts'
      BY <2>1, <2>2 DEF Verdicts, Phases
    <3> QED BY <2>1, <3>1, <3>2
  <2>3. CASE loser \in Duelists /\ Enqueue(loser) /\ ResetFinalResult
    <3>1. loser \in Slots /\ loser \notin queued
      BY <2>3 DEF Duelists, Here, Sessions
    <3>2. Sessions'
      BY <2>3, <3>1, EnqueueFacts
    <3>3. Verdicts'
      BY <2>1, <2>3 DEF Verdicts, Phases, ResetFinalResult
    <3> QED BY <2>1, <3>2, <3>3
  <2>4. CASE ResetFinalResult /\ UNCHANGED sessions
    <3>1. Sessions'
      BY <2>4 DEF Sessions, sessions
    <3>2. Verdicts'
      BY <2>1, <2>4 DEF Verdicts, Phases, ResetFinalResult
    <3> QED BY <2>1, <3>1, <3>2
  <2> QED BY <1>4, <2>2, <2>3, <2>4 DEF ExitLevel, RemoveLoser
<1>5. CASE MapLoad
  <2>1. Clients' /\ Sessions'
    BY <1>5 DEF MapLoad, Clients, Sessions, sessions
  <2>2. Verdicts'
    BY <1>5 DEF MapLoad, Verdicts, Phases
  <2> QED BY <2>1, <2>2
<1> QED BY <1>1, <1>2, <1>3, <1>4, <1>5 DEF Server

LEMMA FrameInv ==
  ASSUME IInv, Frame
  PROVE  IInv'
<1> USE DEF IInv
<1>1. CASE \E c \in Slots : QueueBot(c)
  <2>1. PICK c \in Slots : QueueBot(c)
    BY <1>1
  <2>2. Clients' /\ Verdicts'
    BY <2>1 DEF QueueBot, Clients, Verdicts, result
  <2>3. Sessions'
    BY <2>1, EnqueueFacts DEF QueueBot, Idlers
  <2> QED BY <2>2, <2>3
<1>2. CASE \E c \in Slots : AddPlayer(c)
  <2>1. PICK c \in Slots : AddPlayer(c)
    BY <1>2
  <2>2. Clients' /\ Verdicts'
    BY <2>1 DEF AddPlayer, Clients, Verdicts, result
  <2>3. Sessions'
    BY <2>1, DequeueFacts DEF AddPlayer, Enter
  <2> QED BY <2>2, <2>3
<1>3. CASE Tick
  <2>1. Clients' /\ Sessions'
    BY <1>3 DEF Tick, Clients, Sessions, sessions
  <2>2. CASE MatchStart
    <3>1. Verdicts'
      BY <2>2, ResetFacts DEF MatchStart, Phases
    <3> QED BY <2>1, <3>1
  <2>3. CASE phase' \in {phase, "open", "countdown"} /\ UNCHANGED result
    <3>1. phase # "left"
      BY <1>3 DEF Tick
    <3>2. Verdicts'
      BY <2>3, <3>1 DEF Verdicts, Phases, result
    <3> QED BY <2>1, <3>2
  <2> QED BY <1>3, <2>2, <2>3 DEF Tick
<1>4. CASE ExitRules
  <2>1. Clients' /\ Sessions' /\ phase # "left"
    BY <1>4 DEF ExitRules, Between, Clients, Sessions, sessions
  <2>2. MatchEndAdjustScores /\ phase' \in {"queued", "over"}
    BY <1>4 DEF ExitRules, MatchEnd
  <2>3. Verdicts'
    BY <2>1, <2>2, MatchEndFacts DEF Phases
  <2> QED BY <2>1, <2>3
<1> QED BY <1>1, <1>2, <1>3, <1>4 DEF Frame

\* Every step keeps the invariant.
LEMMA NextInv == IInv /\ [Next]_vars => IInv'
<1>1. ASSUME IInv, UNCHANGED vars PROVE IInv'
  BY <1>1 DEF IInv, Sessions, Verdicts, Clients, vars, sessions, result
<1>2. ASSUME IInv, NEW c \in Slots, Client(c) PROVE IInv'
  BY <1>2, ClientInv
<1> QED BY <1>1, <1>2, ServerInv, FrameInv DEF Next

LEMMA Invariance == Spec => []IInv
  BY InitInv, NextInv, PTL DEF Spec

\* The variables keep their types: nobody who is not queued has a place to
\* lose, and every number is one that AllocateQueueOrder can have given.
THEOREM TypeCorrect == Spec => []TypeOK
  BY Invariance, IInvFacts, PTL

\* Whatever ends a duel, and however often, it is credited at most once
\* (CommitFinalDuelResult).
THEOREM VerdictOnce == Spec => []OneVerdict
  BY Invariance, IInvFacts, PTL

(***************************************************************************)
(* The line.                                                               *)
(***************************************************************************)
\* Who is ahead of whom, by the numbers.
LEMMA AheadIs ==
  /\ Ahead = [c \in Slots |-> IF c \in Waiting THEN {d \in Waiting : Bef(order, d, c)} ELSE {}]
  /\ Ahead' = [c \in Slots |-> IF c \in Waiting' THEN {d \in Waiting' : Bef(order', d, c)}
                               ELSE {}]
  BY DEF Ahead, OrderBefore, Bef

\* Who joins comes last.
LEMMA JoinsLine ==
  ASSUME Sessions, Sessions', NEW c \in Slots, c \notin queued,
         NEW gone \in {{}, Waiting \ Here}, Joins(c, gone),
         Here' = Here \union {c}, playing' = playing \ {c}
  PROVE  TheLine!Next
<1>1. c \notin Waiting /\ Waiting \subseteq Slots /\ Waiting' \subseteq Slots
  BY DEF Waiting, Sessions
<1>2. order' \in [Slots -> Nat]
  BY OrderAssumption DEF Sessions
<1>3. Ahead' = [q \in Slots |-> IF q = c THEN Waiting \ gone
                                ELSE IF q \in gone THEN {} ELSE Ahead[q] \ gone]
  <2> DEFINE after(q) == IF q \in Waiting' THEN {d \in Waiting' : Bef(order', d, q)} ELSE {}
             line(q) == IF q = c THEN Waiting \ gone
                        ELSE IF q \in gone THEN {} ELSE Ahead[q] \ gone
  <2>1. ASSUME NEW q \in Slots PROVE after(q) = line(q)
    <3>1. CASE q = c
      <4>1. ~Bef(order', c, c)
        BY <1>2, BefTotal
      <4> QED BY <3>1, <4>1, <1>1 DEF Joins
    <3>2. CASE q \in Waiting \ gone
      <4>1. Bef(order', q, c)
        BY <3>2 DEF Joins
      <4>2. ~Bef(order', c, q) /\ q # c
        BY <4>1, <3>2, <1>1, <1>2, BefTotal
      <4>3. Ahead[q] = {d \in Waiting : Bef(order, d, q)}
        BY <3>2, <1>1, AheadIs
      <4>4. \A d \in Waiting \ gone : Bef(order', d, q) <=> Bef(order, d, q)
        BY <3>2 DEF Joins
      <4>5. after(q) = {d \in (Waiting \ gone) \union {c} : Bef(order', d, q)}
        BY <3>2 DEF Joins
      <4>6. line(q) = {d \in Waiting : Bef(order, d, q)} \ gone
        BY <3>2, <4>2, <4>3
      <4> HIDE DEF after, line
      <4> QED BY <4>2, <4>4, <4>5, <4>6
    <3>3. CASE q # c /\ q \notin Waiting \ gone
      <4>1. q \notin Waiting'
        BY <3>3 DEF Joins
      <4>2. q \notin gone => Ahead[q] = {}
        BY <3>3, AheadIs
      <4> QED BY <3>3, <4>1, <4>2
    <3> QED BY <3>1, <3>2, <3>3
  <2>2. Ahead' = [q \in Slots |-> after(q)]
    BY AheadIs
  <2> HIDE DEF after, line
  <2>3. Ahead' = [q \in Slots |-> line(q)]
    BY <2>1, <2>2
  <2> QED BY <2>3 DEF line
<1>4. TheLine!Append(c, gone)
  BY <1>1, <1>3 DEF TheLine!Append, Joins
<1>5. TheLine!Queue(c) \/ TheLine!Renumber(c)
  BY <1>4 DEF TheLine!Queue, TheLine!Renumber
<1> QED BY <1>5 DEF TheLine!Next

\* Those behind him close up.
LEMMA ClosesUp ==
  ASSUME NEW left, Waiting' = Waiting \ left,
         \A d, e \in Waiting \ left : Bef(order', d, e) <=> Bef(order, d, e)
  PROVE  TheLine!CloseUp(left) /\ (left \intersect Waiting = {} => Ahead' = Ahead)
<1> DEFINE after(q) == IF q \in Waiting' THEN {d \in Waiting' : Bef(order', d, q)} ELSE {}
           line(q) == IF q \in left THEN {} ELSE Ahead[q] \ left
<1>1. ASSUME NEW q \in Slots PROVE after(q) = line(q)
  <2>1. Ahead[q] = IF q \in Waiting THEN {d \in Waiting : Bef(order, d, q)} ELSE {}
    BY AheadIs
  <2>2. CASE q \in Waiting \ left
    BY <2>1, <2>2
  <2>3. CASE q \notin Waiting \ left
    BY <2>1, <2>3
  <2> QED BY <2>2, <2>3
<1>2. Ahead' = [q \in Slots |-> after(q)]
  BY AheadIs
<1>3. ASSUME left \intersect Waiting = {} PROVE Ahead' = Ahead
  <2>1. Waiting' = Waiting /\ \A d, e \in Waiting : Bef(order', d, e) <=> Bef(order, d, e)
    BY <1>3
  <2>2. Ahead = [q \in Slots |-> IF q \in Waiting THEN {d \in Waiting : Bef(order, d, q)} ELSE {}]
    BY AheadIs
  <2>3. \A q \in Slots : after(q) = IF q \in Waiting THEN {d \in Waiting : Bef(order, d, q)} ELSE {}
    BY <2>1
  <2> HIDE DEF after
  <2> QED BY <1>2, <2>2, <2>3
<1> HIDE DEF after, line
<1>4. Ahead' = [q \in Slots |-> line(q)]
  BY <1>1, <1>2
<1> QED BY <1>3, <1>4 DEF TheLine!CloseUp, line

\* As long as nobody moves in the line the others may come, go and play.
LEMMA RoamsLine ==
  ASSUME Sessions', Waiting' = Waiting, Ahead' = Ahead
  PROVE  TheLine!Next
<1>1. Here' \in SUBSET Slots
  BY DEF Here
<1>2. playing' \in SUBSET (Slots \ Waiting)
  BY DEF Waiting, Sessions
<1> QED BY <1>1, <1>2 DEF TheLine!Next, TheLine!Roam

\* Nothing happens to the sessions.
LEMMA StaysLine ==
  ASSUME Sessions, UNCHANGED sessions
  PROVE  TheLine!Next
<1>1. Sessions' /\ Waiting' = Waiting /\ Ahead' = Ahead
  BY DEF Sessions, sessions, Waiting, Ahead, OrderBefore
<1> QED BY <1>1, RoamsLine

\* c goes from his place to watch, or has none and plays or watches.
LEMMA LeavesLine ==
  ASSUME Sessions, NEW c \in Slots, Dequeue(c),
         \/ playing' = playing \ {c} /\ Here' \in {Here, Here \ {c}}
         \/ playing' = playing \union {c} /\ c \notin queued
  PROVE  TheLine!Next
<1>1. /\ Sessions' /\ Waiting' = Waiting \ {c}
      /\ \A d, e \in Waiting \ {c} : Bef(order', d, e) <=> Bef(order, d, e)
  BY DequeueFacts
<1>2. TheLine!CloseUp({c}) /\ ({c} \intersect Waiting = {} => Ahead' = Ahead)
  BY <1>1, ClosesUp
<1>3. CASE c \notin Waiting
  <2>1. Waiting' = Waiting /\ Ahead' = Ahead
    BY <1>1, <1>2, <1>3
  <2> QED BY <2>1, <1>1, RoamsLine
<1>4. CASE c \in Waiting
  <2>1. c \in queued /\ c \notin playing
    BY <1>4 DEF Waiting, Sessions
  <2>2. playing' = playing /\ Here' \in {Here, Here \ {c}}
    BY <2>1
  <2>3. TheLine!Leave(c)
    BY <1>1, <1>2, <1>4, <2>2 DEF TheLine!Leave
  <2> QED BY <2>3 DEF TheLine!Next
<1> QED BY <1>3, <1>4

\* A join, by a command or on entering the level.
LEMMA RequestLine ==
  ASSUME Sessions, NEW c \in Slots, c \notin playing \union queued, RequestPlay(c),
         Here' = Here \union {c}
  PROVE  TheLine!Next
<1>1. CASE Enqueue(c)
  <2>1. Sessions' /\ \E gone \in {{}, Waiting \ Here} : Joins(c, gone)
    BY <1>1, EnqueueFacts
  <2>2. PICK gone \in {{}, Waiting \ Here} : Joins(c, gone)
    BY <2>1
  <2> QED BY <1>1, <2>1, <2>2, JoinsLine DEF Enqueue
<1>2. CASE Enter(c)
  BY <1>2, LeavesLine DEF Enter
<1> QED BY <1>1, <1>2 DEF RequestPlay

\* A promotion takes the first of those who are here.
LEMMA ServesLine ==
  ASSUME Sessions, NEW c \in Slots, AddPlayer(c)
  PROVE  TheLine!Next
<1>1. c \in InLine /\ (\A d \in InLine \ {c} : OrderBefore(c, d)) /\ Enter(c) /\ conn' = conn
  BY DEF AddPlayer
<1>2. Here' = Here
  BY <1>1 DEF Here
<1>3. /\ Sessions' /\ Waiting' = Waiting \ {c}
      /\ \A d, e \in Waiting \ {c} : Bef(order', d, e) <=> Bef(order, d, e)
  BY <1>1, DequeueFacts DEF Enter
<1>4. TheLine!CloseUp({c}) /\ ({c} \intersect Waiting = {} => Ahead' = Ahead)
  BY <1>3, ClosesUp
<1>5. CASE c \notin Waiting
  <2>1. Waiting' = Waiting /\ Ahead' = Ahead
    BY <1>3, <1>4, <1>5
  <2> QED BY <2>1, <1>3, RoamsLine
<1>6. CASE c \in Waiting
  <2>1. order \in [Slots -> Nat] /\ Waiting \intersect Here \subseteq InLine
        /\ Waiting \subseteq Slots
    BY OrderAssumption DEF Sessions, Waiting, InLine
  <2>2. ASSUME NEW d \in Waiting \intersect Here PROVE ~Bef(order, d, c)
    <3>1. CASE d = c
      BY <3>1, <2>1, BefTotal
    <3>2. CASE d # c
      <4>1. Bef(order, c, d)
        BY <3>2, <2>1, <1>1 DEF OrderBefore, Bef
      <4> QED BY <4>1, <2>1, BefTotal
    <3> QED BY <3>1, <3>2
  <2>3. Ahead[c] = {d \in Waiting : Bef(order, d, c)}
    BY <1>6, AheadIs
  <2>4. Ahead[c] \intersect Here = {}
    BY <2>2, <2>3
  <2>5. c \in Here /\ playing' = playing \union {c}
    BY <1>1 DEF InLine, Enter
  <2>6. TheLine!Serve(c)
    BY <1>2, <1>3, <1>4, <1>6, <2>4, <2>5 DEF TheLine!Serve
  <2> QED BY <2>6 DEF TheLine!Next
<1> QED BY <1>5, <1>6

LEMMA ClientLine ==
  ASSUME IInv, NEW c \in Slots, Client(c)
  PROVE  TheLine!Next
<1>0. Sessions /\ conn \in [Slots -> {"gone", "loading", "in"}]
  BY DEF IInv, Clients
<1>1. CASE Connect(c)
  BY <1>0, <1>1, StaysLine DEF Connect
<1>2. CASE Begin(c)
  <2>1. Here' = Here \union {c}
    BY <1>0, <1>2 DEF Begin, Here
  <2> QED BY <1>0, <1>2, <2>1, StaysLine, RequestLine DEF Begin
<1>3. CASE Disconnect(c)
  <2>1. Here' = Here \ {c}
    BY <1>0, <1>3 DEF Disconnect, Here
  <2> QED BY <1>0, <1>3, <2>1, LeavesLine DEF Disconnect, Sit
<1>4. CASE Join(c)
  <2>1. Here' = Here \union {c}
    BY <1>4 DEF Join, Here
  <2> QED BY <1>0, <1>4, <2>1, RequestLine DEF Join
<1>5. CASE Spectate(c)
  <2>1. Here' = Here
    BY <1>5 DEF Spectate, Here
  <2> QED BY <1>0, <1>5, <2>1, LeavesLine DEF Spectate, Sit
<1>6. CASE Forfeit(c)
  BY <1>0, <1>6, StaysLine DEF Forfeit
<1> QED BY <1>1, <1>2, <1>3, <1>4, <1>5, <1>6 DEF Client

LEMMA ServerLine ==
  ASSUME IInv, Server
  PROVE  TheLine!Next
<1>0. Sessions
  BY DEF IInv
<1>1. CASE UNCHANGED sessions
  BY <1>0, <1>1, StaysLine
<1>2. CASE ExitLevel /\ loser \in Duelists /\ Enqueue(loser)
  <2>1. loser \in Slots /\ loser \notin queued /\ loser \in Here
    BY <1>0, <1>2 DEF Duelists, Here, Sessions
  <2>2. Here' = Here \union {loser}
    BY <1>2, <2>1 DEF ExitLevel, Here
  <2>3. Sessions' /\ \E gone \in {{}, Waiting \ Here} : Joins(loser, gone)
    BY <1>0, <1>2, <2>1, EnqueueFacts
  <2>4. PICK gone \in {{}, Waiting \ Here} : Joins(loser, gone)
    BY <2>3
  <2> QED BY <1>0, <1>2, <2>1, <2>2, <2>3, <2>4, JoinsLine DEF Enqueue
<1> QED BY <1>1, <1>2 DEF Server, ForceStart, MatchReset, NextMap, ExitLevel, RemoveLoser, MapLoad

LEMMA FrameLine ==
  ASSUME IInv, Frame
  PROVE  TheLine!Next
<1>0. Sessions
  BY DEF IInv
<1>1. CASE \E c \in Slots : QueueBot(c)
  <2>1. PICK c \in Slots : QueueBot(c)
    BY <1>1
  <2>2. c \notin queued /\ Enqueue(c) /\ Here' = Here \union {c}
    BY <2>1 DEF QueueBot, Idlers, Here
  <2>3. Sessions' /\ \E gone \in {{}, Waiting \ Here} : Joins(c, gone)
    BY <1>0, <2>2, EnqueueFacts
  <2>4. PICK gone \in {{}, Waiting \ Here} : Joins(c, gone)
    BY <2>3
  <2> QED BY <1>0, <2>2, <2>3, <2>4, JoinsLine DEF Enqueue
<1>2. CASE \E c \in Slots : AddPlayer(c)
  BY <1>0, <1>2, ServesLine
<1>3. CASE Tick \/ ExitRules
  BY <1>0, <1>3, StaysLine DEF Tick, ExitRules
<1> QED BY <1>1, <1>2, <1>3 DEF Frame

\* Every step of the queue is a step of the line.
LEMMA NextLine == IInv /\ [Next]_vars => [TheLine!Next]_(TheLine!vars)
<1>1. ASSUME IInv, UNCHANGED vars PROVE UNCHANGED TheLine!vars
  <2>1. Waiting' = Waiting /\ Ahead' = Ahead /\ Here' = Here /\ playing' = playing
    BY <1>1 DEF vars, sessions, Waiting, Ahead, OrderBefore, Here
  <2> QED BY <2>1 DEF TheLine!vars
<1>2. ASSUME IInv, NEW c \in Slots, Client(c) PROVE TheLine!Next
  BY <1>2, ClientLine
<1> QED BY <1>1, <1>2, ServerLine, FrameLine DEF Next

LEMMA InitLine == Init => TheLine!Init
  BY DEF Init, TheLine!Init, Waiting, Ahead, Here

\* The duel queue is a line, for any number of slots and bots and however
\* soon the numbers run out: no join, promotion, departure, move of the loser,
\* change of map or new numbering makes anybody pass another who is here.
THEOREM ImplementsLine == Spec => KeepsLine
  BY Invariance, InitLine, NextLine, PTL DEF Spec, KeepsLine, TheLine!Spec
=============================================================================
