--------------------------- MODULE ProfileProofs ---------------------------
(***************************************************************************)
(* Proofs about the profiles.  An attempt to write does one of three       *)
(* things to a document; the invariant is proved conjunct by conjunct from *)
(* that, the lines of those who wait by lemmas about sequences in which    *)
(* everybody has one place.                                                *)
(***************************************************************************)
EXTENDS ProfileProps, SequenceTheorems, FiniteSetTheorems, WellFoundedInduction, TLAPS

(***************************************************************************)
(* Lines.                                                                  *)
(***************************************************************************)
\* A set of natural numbers that is not empty has a least member.
LEMMA MinOf ==
  ASSUME NEW I \in SUBSET Nat, I # {}
  PROVE  Min(I) \in I /\ \A j \in I : Min(I) <= j
<1> DEFINE R == {ss \in Nat \X Nat : ss[1] < ss[2]}
<1>1. IsWellFoundedOn(R, Nat)
  BY NatLessThanWellFounded DEF OpToRel
<1> HIDE DEF R
<1>2. PICK x \in I : \A y \in I : ~ (<<y, x>> \in R)
  BY <1>1, WFMin
<1>3. ASSUME NEW y \in I PROVE x <= y
  <2>1. x \in Nat /\ y \in Nat /\ ~ (<<y, x>> \in R)
    BY <1>2
  <2>2. y < x => <<y, x>> \in R
    BY <2>1 DEF R
  <2> QED BY <2>1, <2>2
<1>4. \E z \in I : \A y \in I : z <= y
  BY <1>3
<1> QED BY <1>4 DEF Min

\* Taking somebody out of a line removes the first of his places.
LEMMA RemoveFirstPlace ==
  ASSUME NEW s \in Seq(Player), NEW p, p \in Range(s)
  PROVE  \E i \in 1..Len(s) : s[i] = p /\ RemoveFirst(s, p) = RemoveAt(s, i)
<1> DEFINE I == {i \in 1..Len(s) : s[i] = p}
<1>1. I # {} /\ I \in SUBSET Nat
  BY DEF Range
<1>2. Min(I) \in I
  BY <1>1, MinOf
<1>3. SelectInSeq(s, LAMBDA v : v = p) = Min(I)
  BY <1>1 DEF SelectInSeq
<1>4. RemoveFirst(s, p) = RemoveAt(s, Min(I))
  BY <1>1, <1>3 DEF RemoveFirst
<1> QED BY <1>2, <1>4

\* What is left of a line around one of its places.
LEMMA AroundPlace ==
  ASSUME NEW s \in Seq(Player), NEW i \in 1..Len(s)
  PROVE  /\ SubSeq(s, 1, i - 1) \in Seq(Player) /\ Len(SubSeq(s, 1, i - 1)) = i - 1
         /\ \A j \in 1..(i - 1) : SubSeq(s, 1, i - 1)[j] = s[j]
         /\ SubSeq(s, i + 1, Len(s)) \in Seq(Player)
         /\ Len(SubSeq(s, i + 1, Len(s))) = Len(s) - i
         /\ \A j \in 1..(Len(s) - i) : SubSeq(s, i + 1, Len(s))[j] = s[i + j]
<1>1. Len(s) \in Nat /\ i \in Nat /\ \A j \in 1..Len(s) : s[j] \in Player
  BY LenProperties, ElementOfSeq
<1>2. \A j \in 1..(i - 1) : s[j] \in Player
  BY <1>1
<1>3. \A j \in (i + 1)..Len(s) : s[j] \in Player
  BY <1>1
<1>4. /\ SubSeq(s, 1, i - 1) \in Seq(Player)
      /\ Len(SubSeq(s, 1, i - 1)) = IF 1 <= i - 1 THEN i - 1 - 1 + 1 ELSE 0
      /\ \A j \in 1..(i - 1 - 1 + 1) : SubSeq(s, 1, i - 1)[j] = s[1 + j - 1]
  BY <1>1, <1>2, SubSeqProperties
<1>5. /\ SubSeq(s, i + 1, Len(s)) \in Seq(Player)
      /\ Len(SubSeq(s, i + 1, Len(s))) = IF i + 1 <= Len(s) THEN Len(s) - (i + 1) + 1 ELSE 0
      /\ \A j \in 1..(Len(s) - (i + 1) + 1) : SubSeq(s, i + 1, Len(s))[j] = s[(i + 1) + j - 1]
  BY <1>1, <1>3, SubSeqProperties
<1> QED BY <1>1, <1>4, <1>5

\* The elements of a sequence, by their places.
LEMMA RangeOfLine ==
  ASSUME NEW s \in Seq(Player)
  PROVE  /\ Len(s) \in Nat /\ DOMAIN s = 1..Len(s) /\ Range(s) \subseteq Player
         /\ \A x : x \in Range(s) <=> \E i \in 1..Len(s) : s[i] = x
<1>1. Len(s) \in Nat /\ DOMAIN s = 1..Len(s) /\ \A i \in 1..Len(s) : s[i] \in Player
  BY LenProperties, ElementOfSeq
<1> QED BY <1>1 DEF Range

\* Two lines of different people, one behind the other.
LEMMA LinesJoined ==
  ASSUME NEW s \in Seq(Player), NEW t \in Seq(Player), NEW P, NEW Q,
         InLine(s, P), InLine(t, Q), P \intersect Q = {}
  PROVE  s \o t \in Seq(Player) /\ InLine(s \o t, P \union Q)
<1> DEFINE u == s \o t
<1>1. /\ u \in Seq(Player) /\ Len(u) = Len(s) + Len(t)
      /\ \A i \in 1..(Len(s) + Len(t)) :
            u[i] = IF i <= Len(s) THEN s[i] ELSE t[i - Len(s)]
  BY ConcatProperties
<1>2. /\ Len(s) \in Nat /\ DOMAIN s = 1..Len(s)
      /\ \A x : x \in P <=> \E i \in 1..Len(s) : s[i] = x
      /\ \A i, j \in 1..Len(s) : s[i] = s[j] => i = j
  BY RangeOfLine DEF InLine, IsInjective
<1>3. /\ Len(t) \in Nat /\ DOMAIN t = 1..Len(t)
      /\ \A x : x \in Q <=> \E i \in 1..Len(t) : t[i] = x
      /\ \A i, j \in 1..Len(t) : t[i] = t[j] => i = j
  BY RangeOfLine DEF InLine, IsInjective
<1>4. DOMAIN u = 1..Len(u) /\ \A x : x \in Range(u) <=> \E i \in 1..Len(u) : u[i] = x
  BY <1>1, RangeOfLine
<1> HIDE DEF u
<1>5. \A i, j \in 1..Len(u) : u[i] = u[j] => i = j
  <2> SUFFICES ASSUME NEW i \in 1..Len(u), NEW j \in 1..Len(u), u[i] = u[j], i < j
               PROVE  FALSE
    BY <1>1, <1>2, <1>3
  <2>1. CASE j <= Len(s)
    BY <2>1, <1>1, <1>2, <1>3
  <2>2. CASE i > Len(s)
    <3>1. i - Len(s) \in 1..Len(t) /\ j - Len(s) \in 1..Len(t) /\ i - Len(s) # j - Len(s)
      BY <2>2, <1>1, <1>2, <1>3
    <3>2. u[i] = t[i - Len(s)] /\ u[j] = t[j - Len(s)]
      BY <2>2, <1>1, <1>2, <1>3
    <3> QED BY <3>1, <3>2, <1>3
  <2>3. CASE i <= Len(s) /\ j > Len(s)
    <3>1. i \in 1..Len(s) /\ j - Len(s) \in 1..Len(t)
      BY <2>3, <1>1, <1>2, <1>3
    <3>2. u[i] = s[i] /\ u[j] = t[j - Len(s)]
      BY <2>3, <1>1, <1>2, <1>3
    <3>3. u[i] \in P /\ u[j] \in Q
      BY <3>1, <3>2, <1>2, <1>3
    <3> QED BY <3>3
  <2> QED BY <2>1, <2>2, <2>3, <1>1, <1>2, <1>3
<1>6. ASSUME NEW x PROVE x \in Range(u) <=> x \in P \union Q
  <2>1. ASSUME NEW i \in 1..Len(u) PROVE u[i] \in P \union Q
    <3>1. CASE i <= Len(s)
      BY <3>1, <1>1, <1>2, <1>3
    <3>2. CASE i > Len(s)
      <4>1. i - Len(s) \in 1..Len(t) /\ u[i] = t[i - Len(s)]
        BY <3>2, <1>1, <1>2, <1>3
      <4> QED BY <4>1, <1>3
    <3> QED BY <3>1, <3>2, <1>1, <1>2, <1>3
  <2>2. ASSUME NEW i \in 1..Len(s) PROVE i \in 1..Len(u) /\ u[i] = s[i]
    BY <1>1, <1>2, <1>3
  <2>3. ASSUME NEW i \in 1..Len(t)
        PROVE  Len(s) + i \in 1..Len(u) /\ u[Len(s) + i] = t[i]
    <3>1. Len(s) \in Nat /\ Len(t) \in Nat /\ i \in 1..Len(t)
      BY <1>2, <1>3
    <3>2. /\ Len(s) + i \in 1..Len(s) + Len(t)
          /\ ~(Len(s) + i <= Len(s)) /\ (Len(s) + i) - Len(s) = i
      BY <3>1
    <3>3. u[Len(s) + i] = t[i]
      BY <3>2, <1>1
    <3> QED BY <3>2, <3>3, <1>1
  <2> QED BY <2>1, <2>2, <2>3, <1>2, <1>3, <1>4
<1> QED BY <1>1, <1>4, <1>5, <1>6 DEF InLine, IsInjective, u

\* The parts of a line on both sides of a place are lines of their own.
LEMMA AroundLine ==
  ASSUME NEW s \in Seq(Player), NEW P, InLine(s, P), NEW i \in 1..Len(s)
  PROVE  LET before == SubSeq(s, 1, i - 1)
             after  == SubSeq(s, i + 1, Len(s))
         IN  /\ before \in Seq(Player) /\ after \in Seq(Player)
             /\ Len(before) + Len(after) = Len(s) - 1 /\ s[i] \in P
             /\ \E A, B : /\ InLine(before, A) /\ InLine(after, B)
                          /\ A \intersect B = {} /\ A \union B = P \ {s[i]}
<1> DEFINE before == SubSeq(s, 1, i - 1)
           after  == SubSeq(s, i + 1, Len(s))
           A == {s[j] : j \in 1..(i - 1)}
           B == {s[j] : j \in (i + 1)..Len(s)}
<1>1. /\ Len(s) \in Nat /\ DOMAIN s = 1..Len(s)
      /\ \A x : x \in P <=> \E j \in 1..Len(s) : s[j] = x
      /\ \A j, k \in 1..Len(s) : s[j] = s[k] => j = k
  BY RangeOfLine DEF InLine, IsInjective
<1>2. /\ before \in Seq(Player) /\ Len(before) = i - 1
      /\ \A j \in 1..(i - 1) : before[j] = s[j]
      /\ after \in Seq(Player) /\ Len(after) = Len(s) - i
      /\ \A j \in 1..(Len(s) - i) : after[j] = s[i + j]
  BY AroundPlace
<1> HIDE DEF before, after
<1>3. /\ DOMAIN before = 1..(i - 1)
      /\ \A x : x \in Range(before) <=> \E j \in 1..(i - 1) : before[j] = x
      /\ DOMAIN after = 1..(Len(s) - i)
      /\ \A x : x \in Range(after) <=> \E j \in 1..(Len(s) - i) : after[j] = x
  <2>1. \A t \in Seq(Player) : /\ DOMAIN t = 1..Len(t)
                               /\ \A x : x \in Range(t) <=> \E j \in 1..Len(t) : t[j] = x
    BY RangeOfLine
  <2> QED BY <1>2, <2>1
<1>4. InLine(before, A)
  <2>1. \A j, k \in DOMAIN before : before[j] = before[k] => j = k
    BY <1>1, <1>2, <1>3
  <2>2. Range(before) = A
    BY <1>2, <1>3
  <2> QED BY <2>1, <2>2 DEF InLine, IsInjective
<1>5. InLine(after, B)
  <2>1. ASSUME NEW j \in DOMAIN after, NEW k \in DOMAIN after, after[j] = after[k]
        PROVE  j = k
    <3>1. i + j \in 1..Len(s) /\ i + k \in 1..Len(s) /\ s[i + j] = s[i + k]
      BY <1>1, <1>2, <1>3, <2>1
    <3>2. i + j = i + k
      BY <3>1, <1>1
    <3> QED BY <3>2, <1>3, <1>1
  <2>2. ASSUME NEW j \in (i + 1)..Len(s) PROVE s[j] \in Range(after)
    <3>1. j - i \in 1..(Len(s) - i) /\ i + (j - i) = j
      BY <1>1
    <3> QED BY <3>1, <1>2, <1>3
  <2>3. ASSUME NEW j \in 1..(Len(s) - i) PROVE after[j] \in B
    <3>1. i + j \in (i + 1)..Len(s) /\ after[j] = s[i + j]
      BY <1>1, <1>2
    <3> QED BY <3>1
  <2>4. Range(after) = B
    BY <2>2, <2>3, <1>3
  <2> QED BY <2>1, <2>4 DEF InLine, IsInjective
<1>6. A \intersect B = {}
  BY <1>1
<1>7. ASSUME NEW x PROVE x \in A \union B <=> x \in P \ {s[i]}
  <2>1. x \in A => \E j \in 1..Len(s) : s[j] = x /\ j # i
    BY <1>1
  <2>2. x \in B => \E j \in 1..Len(s) : s[j] = x /\ j # i
    BY <1>1
  <2>3. ASSUME NEW j \in 1..Len(s), j # i PROVE s[j] \in A \union B
    BY <2>3, <1>1
  <2> QED BY <2>1, <2>2, <2>3, <1>1
<1>8. A \union B = P \ {s[i]}
  BY <1>7
<1>9. Len(before) + Len(after) = Len(s) - 1 /\ s[i] \in P
  BY <1>1, <1>2
<1> HIDE DEF A, B
<1> QED BY <1>2, <1>4, <1>5, <1>6, <1>8, <1>9 DEF before, after

\* Who has been visited leaves the line, and those before him go to the back.
LEMMA LineVisited ==
  ASSUME NEW s \in Seq(Player), NEW P, InLine(s, P), NEW i \in 1..Len(s)
  PROVE  LET t == SubSeq(s, i + 1, Len(s)) \o SubSeq(s, 1, i - 1) IN
         t \in Seq(Player) /\ InLine(t, P \ {s[i]}) /\ s[i] \in P
<1> DEFINE before == SubSeq(s, 1, i - 1)
           after  == SubSeq(s, i + 1, Len(s))
<1>1. /\ before \in Seq(Player) /\ after \in Seq(Player) /\ s[i] \in P
      /\ \E A, B : /\ InLine(before, A) /\ InLine(after, B)
                   /\ A \intersect B = {} /\ A \union B = P \ {s[i]}
  BY AroundLine
<1> HIDE DEF before, after
<1>2. PICK A, B : /\ InLine(before, A) /\ InLine(after, B)
                  /\ A \intersect B = {} /\ A \union B = P \ {s[i]}
  BY <1>1
<1>3. B \intersect A = {} /\ B \union A = P \ {s[i]}
  BY <1>2
<1>4. after \o before \in Seq(Player) /\ InLine(after \o before, B \union A)
  BY <1>1, <1>2, <1>3, LinesJoined
<1> QED BY <1>1, <1>3, <1>4 DEF before, after

\* RemoveFirst takes one out of a line.
LEMMA LineWithout ==
  ASSUME NEW s \in Seq(Player), NEW P, InLine(s, P), NEW p
  PROVE  LET t == RemoveFirst(s, p) IN
         /\ t \in Seq(Player) /\ InLine(t, P \ {p})
         /\ Len(t) = IF p \in P THEN Len(s) - 1 ELSE Len(s)
<1>1. CASE p \notin P
  <2>1. ~ \E i \in 1..Len(s) : s[i] = p
    BY <1>1, RangeOfLine DEF InLine
  <2>2. RemoveFirst(s, p) = s /\ P \ {p} = P
    BY <2>1, <1>1 DEF RemoveFirst
  <2> QED BY <1>1, <2>2
<1>2. CASE p \in P
  <2>1. PICK i \in 1..Len(s) : s[i] = p /\ RemoveFirst(s, p) = RemoveAt(s, i)
    BY <1>2, RemoveFirstPlace DEF InLine
  <2> DEFINE before == SubSeq(s, 1, i - 1)
             after  == SubSeq(s, i + 1, Len(s))
  <2>2. /\ before \in Seq(Player) /\ after \in Seq(Player)
        /\ Len(before) + Len(after) = Len(s) - 1
        /\ \E A, B : /\ InLine(before, A) /\ InLine(after, B)
                     /\ A \intersect B = {} /\ A \union B = P \ {s[i]}
    BY AroundLine
  <2>3. RemoveFirst(s, p) = before \o after
    BY <2>1 DEF RemoveAt
  <2> HIDE DEF before, after
  <2>4. PICK A, B : /\ InLine(before, A) /\ InLine(after, B)
                    /\ A \intersect B = {} /\ A \union B = P \ {s[i]}
    BY <2>2
  <2>5. before \o after \in Seq(Player) /\ InLine(before \o after, A \union B)
    BY <2>2, <2>4, LinesJoined
  <2>6. Len(before \o after) = Len(before) + Len(after)
    BY <2>2, ConcatProperties
  <2> QED BY <1>2, <2>1, <2>2, <2>3, <2>4, <2>5, <2>6
<1> QED BY <1>1, <1>2

\* One person is a line.
LEMMA LineOfOne ==
  ASSUME NEW p \in Player
  PROVE  <<p>> \in Seq(Player) /\ InLine(<<p>>, {p})
  BY DEF InLine, IsInjective, Range

\* Nobody is one, too.
LEMMA LineOfNone == <<>> \in Seq(Player) /\ InLine(<<>>, {})
  BY DEF InLine, IsInjective, Range

\* Somebody new goes to the end of a line.
LEMMA LineAppended ==
  ASSUME NEW s \in Seq(Player), NEW P, InLine(s, P), NEW p \in Player, p \notin P
  PROVE  /\ Append(s, p) \in Seq(Player) /\ InLine(Append(s, p), P \union {p})
         /\ Len(Append(s, p)) = Len(s) + 1
<1>1. <<p>> \in Seq(Player) /\ InLine(<<p>>, {p}) /\ P \intersect {p} = {}
  BY LineOfOne
<1>2. InLine(s \o <<p>>, P \union {p})
  BY <1>1, LinesJoined
<1>3. Append(s, p) = s \o <<p>>
  BY AppendIsConcat
<1> QED BY <1>2, <1>3, AppendProperties

\* A finite set is put in some order.
LEMMA LineOfSet ==
  ASSUME NEW Q \in SUBSET Player
  PROVE  SetToSeq(Q) \in Seq(Player) /\ InLine(SetToSeq(Q), Q)
<1> DEFINE n == Cardinality(Q)
           f == SetToSeq(Q)
<1>1. IsFiniteSet(Q)
  BY PlayerAssumption, FS_Subset
<1>2. n \in Nat /\ ExistsBijection(1..n, Q)
  BY <1>1, FS_CardinalityType
<1>3. PICK g \in Bijection(1..n, Q) : TRUE
  BY <1>2 DEF ExistsBijection
<1>4. g \in [1..n -> Q] /\ IsInjective(g)
  BY <1>3 DEF Bijection, Injection
<1>5. f \in [1..n -> Q] /\ IsInjective(f)
  BY <1>4 DEF SetToSeq
<1> HIDE DEF f
<1>6. f \in Injection(1..n, Q)
  BY <1>5 DEF Injection
<1>7. IsFiniteSet(1..n) /\ Cardinality(1..n) = n
  BY <1>2, FS_Interval
<1>8. f \in Surjection(1..n, Q)
  BY <1>1, <1>6, <1>7, FS_Injection
<1>9. \A x \in Q : \E i \in 1..n : f[i] = x
  BY <1>8 DEF Surjection
<1>10. DOMAIN f = 1..n /\ Range(f) = Q
  BY <1>5, <1>9 DEF Range
<1>11. f \in Seq(Q)
  BY <1>2, <1>5
<1>12. f \in Seq(Player)
  BY <1>11, SeqMonotonic
<1> QED BY <1>5, <1>10, <1>12 DEF InLine, f

(***************************************************************************)
(* The shape of the state: the types and the lines, part by part.          *)
(***************************************************************************)
Docs == doc \in [Player -> Documents] /\ budget \in Nat

Sess == sess \in [Player -> Sessions]

Matches ==
  /\ serial \in Nat /\ open \in BOOLEAN /\ unrated \in BOOLEAN
  /\ ledger \in [Player -> [serial : Nat, rating : Nat]]

Queue ==
  /\ results \in [Player -> Seq(Results)] /\ resultWait \in [Player -> Nat]
  /\ robin \in Seq(Player)
  /\ InLine(robin, {p \in Player : results[p] # <<>>})

Prefs ==
  /\ dirty \in [Player -> SUBSET Field] /\ cached \in [Player -> Config]
  /\ prefWait \in [Player -> Nat]
  /\ order \in Seq(Player) /\ Len(order) <= CacheLimit
  /\ InLine(order, {p \in Player : dirty[p] # {}})

Rest == tried \subseteq Player /\ chosen \in [Player -> [Field -> Value \union {Unset}]]

Shape == Docs /\ Sess /\ Matches /\ Queue /\ Prefs /\ Rest

\* It is the types and the lines.
LEMMA ShapeFacts == Shape <=> TypeOK /\ EveryoneInLine
  BY DEF Shape, Docs, Sess, Matches, Queue, Prefs, Rest, TypeOK, EveryoneInLine

\* What new configurations, documents and sessions are made of.
LEMMA Makings ==
  /\ NewConfig \in Config /\ Blank \in Documents
  /\ Fresh \in Sessions /\ Gone \in Sessions
  /\ \A mask : \A old, new \in Config : Merge(old, new, mask) \in Config
<1>1. NewConfig \in Config
  BY ValueAssumption DEF NewConfig, Config
<1>2. Blank \in Documents
  BY <1>1, LineOfNone DEF Blank, Documents
<1>3. Fresh \in Sessions /\ Gone \in Sessions
  BY <1>1 DEF Fresh, Gone, Sessions
<1>4. \A mask : \A old, new \in Config : Merge(old, new, mask) \in Config
  BY DEF Merge, Config
<1> QED BY <1>1, <1>2, <1>3, <1>4

\* The document that a write starts from.
LEMMA ExistingType ==
  ASSUME Docs, NEW p \in Player
  PROVE  Existing(p) \in Documents /\ Existing(p).kind = "ok"
  BY Makings DEF Docs, Existing, Documents, Blank

\* What a save of preferences makes of a document.
LEMMA SavedType ==
  ASSUME Docs, Prefs, NEW p \in Player
  PROVE  /\ Saved(p) \in Documents /\ Saved(p).kind = "ok"
         /\ Saved(p) = [Existing(p) EXCEPT !.config =
                          Merge(Existing(p).config, cached[p], MergeMask(p))]
<1>1. Existing(p) \in Documents /\ Existing(p).kind = "ok"
  BY ExistingType
<1>2. Merge(Existing(p).config, cached[p], MergeMask(p)) \in Config
  BY <1>1, Makings DEF Prefs, Documents
<1>3. Saved(p) = [Existing(p) EXCEPT !.config =
                    Merge(Existing(p).config, cached[p], MergeMask(p))]
  BY DEF Saved
<1> HIDE DEF Saved
<1> QED BY <1>1, <1>2, <1>3 DEF Documents

\* What a result makes of it.
LEMMA CountedType ==
  ASSUME Docs, Prefs, Queue, NEW p \in Player, results[p] # <<>>
  PROVE  /\ Counted(p) \in Documents /\ Counted(p).kind = "ok"
         /\ Counted(p).rating = Head(results[p]).rating
         /\ Counted(p).results = Append(Existing(p).results, Head(results[p]).serial)
         /\ doc[p].kind = "ok" =>
              Counted(p).config = Merge(doc[p].config, cached[p], dirty[p])
         /\ \A f \in Field : f \in dirty[p] => Counted(p).config[f] = cached[p][f]
<1> DEFINE r == Head(results[p])
           base == IF doc[p].kind = "ok" THEN doc[p].config ELSE r.config
           c == Merge(base, cached[p], dirty[p])
           s == Append(Existing(p).results, r.serial)
<1>1. Existing(p) \in Documents /\ Existing(p).kind = "ok"
  BY ExistingType
<1>2. r \in Results
  BY HeadTailProperties DEF Queue
<1>3. base \in Config /\ r.rating \in Nat /\ r.serial \in Nat
  BY <1>2 DEF Docs, Documents, Results
<1>4. c \in Config
  BY <1>3, Makings DEF Prefs
<1>5. s \in Seq(Nat)
  BY <1>1, <1>3, AppendProperties DEF Documents
<1>6. \A f \in Field : f \in dirty[p] => c[f] = cached[p][f]
  BY DEF Merge
<1>7. Counted(p) = [Existing(p) EXCEPT !.config = c, !.rating = r.rating, !.results = s]
  BY DEF Counted
<1>8. doc[p].kind = "ok" => c = Merge(doc[p].config, cached[p], dirty[p])
  OBVIOUS
<1> HIDE DEF c, s, Counted
<1>9. /\ Counted(p) \in Documents /\ Counted(p).kind = "ok" /\ Counted(p).config = c
      /\ Counted(p).rating = r.rating /\ Counted(p).results = s
  BY <1>1, <1>3, <1>4, <1>5, <1>7 DEF Documents
<1> QED BY <1>6, <1>8, <1>9 DEF s

\* An attempt writes the new document, or leaves the old one, or puts a bad
\* one away.
LEMMA AttemptDoes ==
  ASSUME Docs, NEW p \in Player, NEW new \in Documents, NEW outcome \in Outcomes,
         Attempt(p, new, outcome)
  PROVE  /\ Docs'
         /\ \A q \in Player : q # p => doc'[q] = doc[q]
         /\ outcome = "done" => doc'[p] = new
         /\ outcome # "done" => \/ doc'[p] = doc[p]
                                \/ doc[p].kind = "corrupt" /\ doc'[p] = Blank
<1>1. budget' \in Nat
  BY DEF Docs, Attempt, Spend
<1>2. Blank \in Documents
  BY Makings
<1>3. CASE outcome = "done"
  BY <1>1, <1>3 DEF Docs, Attempt
<1>4. CASE outcome = "refused"
  BY <1>1, <1>4 DEF Docs, Attempt
<1>5. CASE outcome = "unwritten"
  <2>1. doc' = [doc EXCEPT ![p] = IF doc[p].kind = "corrupt" THEN Blank ELSE doc[p]]
    BY <1>5 DEF Attempt
  <2> QED BY <1>1, <1>2, <1>5, <2>1 DEF Docs
<1> QED BY <1>3, <1>4, <1>5 DEF Outcomes

\* Who has been saved has left the line of preferences.
LEMMA CleanDoes ==
  ASSUME Prefs, NEW p \in Player, Clean(p), prefWait' \in [Player -> Nat]
  PROVE  Prefs'
<1> DEFINE P == {q \in Player : dirty[q] # {}}
<1>0. order \in Seq(Player) /\ InLine(order, P) /\ Len(order) <= CacheLimit
  BY DEF Prefs
<1> HIDE DEF P
<1>1. order' \in Seq(Player) /\ Len(order') <= CacheLimit /\ InLine(order', P \ {p})
  <2>1. Len(order) \in Nat /\ CacheLimit \in Nat
    BY <1>0, LenProperties, LimitAssumption
  <2>2. order' = RemoveFirst(order, p)
    BY DEF Clean
  <2>3. /\ order' \in Seq(Player) /\ InLine(order', P \ {p})
        /\ Len(order') = IF p \in P THEN Len(order) - 1 ELSE Len(order)
    BY <1>0, <2>2, LineWithout
  <2> QED BY <1>0, <2>1, <2>3
<1>2. dirty' \in [Player -> SUBSET Field] /\ cached' \in [Player -> Config]
  BY Makings DEF Prefs, Clean
<1>3. {q \in Player : dirty'[q] # {}} = P \ {p}
  BY DEF Prefs, Clean, P
<1> QED BY <1>1, <1>2, <1>3 DEF Prefs

\* Who has changed a preference is the last in it.
LEMMA QueueSaveDoes ==
  ASSUME Prefs, NEW p \in Player, NEW config \in Config, NEW f \in Field,
         HasRoom(p), QueueSave(p, config, f)
  PROVE  Prefs'
<1> DEFINE P == {q \in Player : dirty[q] # {}}
           s == RemoveFirst(order, p)
<1>0. order \in Seq(Player) /\ InLine(order, P) /\ Len(order) <= CacheLimit
  BY DEF Prefs
<1> HIDE DEF P
<1>1. /\ s \in Seq(Player) /\ InLine(s, P \ {p})
      /\ Len(s) = IF p \in P THEN Len(order) - 1 ELSE Len(order)
  BY <1>0, LineWithout
<1> HIDE DEF s
<1>2. /\ Append(s, p) \in Seq(Player) /\ InLine(Append(s, p), (P \ {p}) \union {p})
      /\ Len(Append(s, p)) = Len(s) + 1
  BY <1>1, LineAppended
<1>3. order' = Append(s, p)
  BY DEF QueueSave, s
<1>4. Len(order') <= CacheLimit
  <2>1. Len(order) \in Nat /\ CacheLimit \in Nat /\ Len(order) <= CacheLimit
    BY <1>0, LenProperties, LimitAssumption
  <2> QED BY <2>1, <1>1, <1>2, <1>3 DEF HasRoom, P
<1>5. dirty' = [dirty EXCEPT ![p] = dirty[p] \union {f}] /\ dirty' \in [Player -> SUBSET Field]
  BY DEF Prefs, QueueSave
<1>6. {q \in Player : dirty'[q] # {}} = (P \ {p}) \union {p}
  BY <1>5 DEF Prefs, P
<1>7. cached' \in [Player -> Config]
  BY DEF Prefs, QueueSave
<1>8. prefWait' \in [Player -> Nat]
  <2>1. DebounceFrames \in Nat
    BY LimitAssumption
  <2> QED BY <2>1 DEF Prefs, QueueSave
<1> QED BY <1>2, <1>3, <1>4, <1>5, <1>6, <1>7, <1>8 DEF Prefs

\* The result of a settlement.
LEMMA ResultType ==
  ASSUME Sess, Matches, NEW p \in Player, NEW rated \in BOOLEAN
  PROVE  /\ Rating(p, rated) \in Nat
         /\ Result(p, rated) \in Results
         /\ Result(p, rated).serial = serial
         /\ Result(p, rated).rating = Rating(p, rated)
  BY DEF Sess, Sessions, Matches, Rating, Result, Results

\* Results are put behind those that wait, and whoever had none joins the line.
LEMMA EnqueueDoes ==
  ASSUME Queue, Sess, Matches, NEW P \in SUBSET Player, NEW rated \in BOOLEAN,
         Enqueue(P, rated)
  PROVE  /\ Queue'
         /\ \A p \in P : results'[p] = Append(results[p], Result(p, rated))
         /\ \A p \in Player \ P : results'[p] = results[p]
<1> DEFINE Q == {p \in Player : results[p] # <<>>}
           new == {p \in P : results[p] = <<>>}
<1>1. robin \in Seq(Player) /\ InLine(robin, Q) /\ new \in SUBSET Player /\ Q \intersect new = {}
  BY DEF Queue
<1>2. robin' = robin \o SetToSeq(new) /\ UNCHANGED resultWait
  BY DEF Enqueue
<1>3. results' = [p \in Player |-> IF p \in P THEN Append(results[p], Result(p, rated))
                                   ELSE results[p]]
  BY DEF Enqueue
<1>4. \A p \in P : Result(p, rated) \in Results
  BY ResultType
<1>5. \A p \in P : /\ Append(results[p], Result(p, rated)) \in Seq(Results)
                   /\ Append(results[p], Result(p, rated)) # <<>>
  <2>1. \A p \in P : results[p] \in Seq(Results)
    BY DEF Queue
  <2> QED BY <1>4, <2>1, AppendProperties
<1>6. results' \in [Player -> Seq(Results)]
  BY <1>3, <1>5 DEF Queue
<1>7. {p \in Player : results'[p] # <<>>} = Q \union new
  BY <1>3, <1>5 DEF Queue
<1> HIDE DEF Q, new
<1>8. SetToSeq(new) \in Seq(Player) /\ InLine(SetToSeq(new), new)
  BY <1>1, LineOfSet
<1>9. robin' \in Seq(Player) /\ InLine(robin', Q \union new)
  BY <1>1, <1>2, <1>8, LinesJoined
<1>10. resultWait' \in [Player -> Nat]
  BY <1>2 DEF Queue
<1> QED BY <1>3, <1>6, <1>7, <1>9, <1>10 DEF Queue

\* An attempt for the first in line: his first result is counted and gone, or
\* he goes to the back with all he has.
LEMMA TryResultDoes ==
  ASSUME Docs, Prefs, Queue, NEW i \in DOMAIN robin, NEW outcome \in Outcomes,
         NEW wait \in [Player -> Nat],
         TryResult(robin[i], SubSeq(robin, 1, i - 1), SubSeq(robin, i + 1, Len(robin)),
                   wait, outcome)
  PROVE  /\ Docs' /\ Prefs' /\ Queue'
         /\ robin[i] \in Player /\ results[robin[i]] # <<>>
         /\ results' = [results EXCEPT ![robin[i]] =
                          IF outcome = "done" THEN Tail(@) ELSE @]
         /\ Attempt(robin[i], Counted(robin[i]), outcome)
         /\ IF outcome = "done" THEN Clean(robin[i]) ELSE UNCHANGED <<dirty, cached, order>>
<1> DEFINE p == robin[i]
           before == SubSeq(robin, 1, i - 1)
           after  == SubSeq(robin, i + 1, Len(robin))
           Q == {q \in Player : results[q] # <<>>}
           left == IF outcome = "done" THEN Tail(results[p]) ELSE results[p]
<1>1. robin \in Seq(Player) /\ InLine(robin, Q) /\ i \in 1..Len(robin)
  BY LenProperties DEF Queue
<1> HIDE DEF Q
<1>2. after \o before \in Seq(Player) /\ InLine(after \o before, Q \ {p}) /\ p \in Q
  BY <1>1, LineVisited
<1>3. p \in Player /\ results[p] # <<>> /\ results[p] \in Seq(Results)
  BY <1>2 DEF Q, Queue
<1>4. left \in Seq(Results)
  BY <1>3, HeadTailProperties
<1>5. /\ Attempt(p, Counted(p), outcome)
      /\ results' = [results EXCEPT ![p] = left]
      /\ robin' = after \o before \o Requeued(p, left)
      /\ resultWait' = [q \in Player |->
           IF q = p THEN (IF outcome = "done" THEN 0 ELSE RetryFrames) ELSE wait[q]]
      /\ IF outcome = "done" THEN Persisted(p) ELSE UNCHANGED prefs
  BY DEF TryResult, Left
<1>6. Counted(p) \in Documents
  BY <1>3, CountedType
<1>7. Docs'
  BY <1>3, <1>5, <1>6, AttemptDoes
<1>8. Prefs' /\ IF outcome = "done" THEN Clean(p) ELSE UNCHANGED <<dirty, cached, order>>
  <2>1. CASE outcome = "done"
    <3>1. Clean(p) /\ prefWait' = [prefWait EXCEPT ![p] = 0]
      BY <1>5, <2>1 DEF Persisted
    <3>2. prefWait \in [Player -> Nat]
      BY DEF Prefs
    <3>3. prefWait' \in [Player -> Nat]
      BY <3>1, <3>2
    <3> QED BY <1>3, <2>1, <3>1, <3>3, CleanDoes
  <2>2. CASE outcome # "done"
    BY <1>5, <2>2 DEF Prefs, prefs
  <2> QED BY <2>1, <2>2
<1>9. results' \in [Player -> Seq(Results)]
  BY <1>3, <1>4, <1>5 DEF Queue
<1>10. resultWait' \in [Player -> Nat]
  BY <1>5, LimitAssumption
<1>11. {q \in Player : results'[q] # <<>>} = IF left = <<>> THEN Q \ {p} ELSE (Q \ {p}) \union {p}
  BY <1>3, <1>5 DEF Queue, Q
<1> HIDE DEF left, before, after, p
<1>12. robin' \in Seq(Player) /\ InLine(robin', {q \in Player : results'[q] # <<>>})
  <2>1. CASE left = <<>>
    <3>1. Requeued(p, left) = <<>>
      BY <2>1 DEF Requeued
    <3>2. robin' = after \o before
      BY <1>2, <1>5, <3>1, ConcatEmptySeq
    <3> QED BY <1>2, <1>11, <2>1, <3>2
  <2>2. CASE left # <<>>
    <3>1. Requeued(p, left) = <<p>>
      BY <2>2 DEF Requeued
    <3>2. <<p>> \in Seq(Player) /\ InLine(<<p>>, {p}) /\ (Q \ {p}) \intersect {p} = {}
      BY <1>3, LineOfOne
    <3>3. (after \o before) \o <<p>> \in Seq(Player)
          /\ InLine((after \o before) \o <<p>>, (Q \ {p}) \union {p})
      BY <1>2, <3>2, LinesJoined
    <3> QED BY <1>5, <1>11, <2>2, <3>1, <3>3
  <2> QED BY <2>1, <2>2
<1>13. Queue'
  BY <1>9, <1>10, <1>12 DEF Queue
<1> QED BY <1>3, <1>5, <1>7, <1>8, <1>13 DEF p, left

\* The deadlines stay numbers of frames.
LEMMA NearerType ==
  ASSUME NEW wait \in [Player -> Nat]
  PROVE  Nearer(wait) \in [Player -> Nat]
  BY DEF Nearer

\* An attempt to save preferences.
LEMMA TryPreferenceDoes ==
  ASSUME Docs, Prefs, NEW i \in DOMAIN order, NEW outcome \in Outcomes,
         NEW wait \in [Player -> Nat], TryPreference(order[i], wait, outcome)
  PROVE  /\ Docs' /\ Prefs' /\ order[i] \in Player
         /\ Attempt(order[i], Saved(order[i]), outcome)
         /\ IF outcome = "done" THEN Clean(order[i]) ELSE UNCHANGED <<dirty, cached, order>>
<1> DEFINE p == order[i]
<1>1. p \in Player
  BY LenProperties, ElementOfSeq DEF Prefs
<1>2. /\ Attempt(p, Saved(p), outcome)
      /\ prefWait' = [wait EXCEPT ![p] = IF outcome = "done" THEN 0 ELSE RetryFrames]
      /\ IF outcome = "done" THEN Clean(p) ELSE UNCHANGED <<dirty, cached, order>>
  BY DEF TryPreference
<1> HIDE DEF p
<1>3. Docs'
  BY <1>1, <1>2, SavedType, AttemptDoes
<1>4. prefWait' \in [Player -> Nat]
  BY <1>2, LimitAssumption
<1>5. Prefs'
  <2>1. CASE outcome = "done"
    BY <1>1, <1>2, <1>4, <2>1, CleanDoes
  <2>2. CASE outcome # "done"
    BY <1>2, <1>4, <2>2 DEF Prefs
  <2> QED BY <2>1, <2>2
<1> QED BY <1>1, <1>2, <1>3, <1>5 DEF p

(***************************************************************************)
(* Every step keeps the shape.                                             *)
(***************************************************************************)
\* Reading a profile.
LEMMA LoadShape ==
  ASSUME Shape, NEW p \in Player, NEW old \in Sessions, NEW conn \in {"fresh", "in"},
         NEW outcome \in Outcomes, Load(p, old, conn, outcome)
  PROVE  Shape'
<1> USE DEF Shape
<1>1. Saved(p) \in Documents
  BY SavedType
<1>2. Docs'
  <2>1. Attempt(p, Saved(p), outcome)
    BY DEF Load
  <2> QED BY <1>1, <2>1, AttemptDoes
<1>3. Prefs'
  <2>1. CASE outcome = "done"
    <3>1. Clean(p) /\ prefWait' = [prefWait EXCEPT ![p] = 0]
      BY <2>1 DEF Load, Persisted
    <3>2. prefWait \in [Player -> Nat]
      BY DEF Prefs
    <3>3. prefWait' \in [Player -> Nat]
      BY <3>1, <3>2
    <3> QED BY <3>1, <3>3, CleanDoes
  <2>2. CASE outcome # "done"
    BY <2>2 DEF Load, Prefs, prefs
  <2> QED BY <2>1, <2>2
<1>4. UNCHANGED <<match, queue, phase, tried, chosen>>
  BY DEF Load
<1>5. Matches' /\ Queue' /\ Rest'
  BY <1>4 DEF Matches, match, Queue, queue, Rest
<1>6. Sess'
  <2> DEFINE config == IF outcome = "done" THEN Saved(p).config
                       ELSE Merge(old.config, cached[p], dirty[p])
             rating == Recorded(p, IF outcome = "done" THEN Saved(p).rating ELSE old.rating)
  <2>1. sess' = [sess EXCEPT ![p] = [conn |-> conn, ready |-> outcome = "done",
                                     config |-> config, rating |-> rating]]
    BY DEF Load
  <2>2. config \in Config
    BY <1>1, Makings DEF Documents, Sessions, Prefs
  <2>3. rating \in Nat
    BY <1>1 DEF Recorded, Documents, Sessions, Matches
  <2> HIDE DEF config, rating
  <2>4. [conn |-> conn, ready |-> outcome = "done", config |-> config, rating |-> rating]
          \in Sessions
    BY <2>2, <2>3 DEF Sessions
  <2> QED BY <2>1, <2>4 DEF Sess
<1> QED BY <1>2, <1>3, <1>5, <1>6

\* Settling a match for those in P.
LEMMA SettleDoes ==
  ASSUME Queue, Sess, Matches, NEW P \in SUBSET Player, NEW admitted, NEW rated \in BOOLEAN,
         Settle(P, admitted, rated)
  PROVE  /\ Queue'
         /\ ledger' \in [Player -> [serial : Nat, rating : Nat]]
         /\ \A p \in P : ledger'[p] = [serial |-> serial, rating |-> Rating(p, rated)]
         /\ \A p \in Player \ P : ledger'[p] = ledger[p]
         /\ \A p \in Player : \/ results'[p] = results[p]
                              \/ p \in P /\ results'[p] = Append(results[p], Result(p, rated))
<1> DEFINE E == {p \in P : admitted /\ sess[p].ready}
<1>1. E \in SUBSET Player /\ Enqueue(E, rated)
  BY DEF Settle
<1> HIDE DEF E
<1>2. /\ Queue'
      /\ \A p \in E : results'[p] = Append(results[p], Result(p, rated))
      /\ \A p \in Player \ E : results'[p] = results[p]
  BY <1>1, EnqueueDoes
<1>3. E \subseteq P
  BY DEF E
<1>4. ledger' = [p \in Player |-> IF p \in P
                   THEN [serial |-> serial, rating |-> Rating(p, rated)] ELSE ledger[p]]
  BY DEF Settle
<1>5. \A p \in P : [serial |-> serial, rating |-> Rating(p, rated)] \in [serial : Nat, rating : Nat]
  BY ResultType DEF Matches
<1>6. ledger' \in [Player -> [serial : Nat, rating : Nat]]
  BY <1>4, <1>5 DEF Matches
<1> QED BY <1>2, <1>3, <1>4, <1>6

\* A client comes, or begins to play.
LEMMA ConnectShape ==
  ASSUME Shape, NEW p \in Player, NEW outcome \in Outcomes,
         Connect(p, outcome) \/ Begin(p, outcome)
  PROVE  Shape'
<1>1. CASE Connect(p, outcome)
  <2>1. Load(p, Fresh, "fresh", outcome) /\ Fresh \in Sessions
    BY <1>1, Makings DEF Connect
  <2> QED BY <2>1, LoadShape
<1>2. CASE Begin(p, outcome)
  <2>1. Load(p, sess[p], "in", outcome) /\ sess[p] \in Sessions
    BY <1>2 DEF Begin, Shape, Sess
  <2> QED BY <2>1, LoadShape
<1> QED BY <1>1, <1>2

\* A client goes, and may be settled for leaving a match.
LEMMA DisconnectShape ==
  ASSUME Shape, NEW p \in Player, Disconnect(p)
  PROVE  Shape'
<1> USE DEF Shape
<1>1. sess' = [sess EXCEPT ![p] = Gone] /\ UNCHANGED <<doc, prefs, phase, tried, chosen, budget>>
  BY DEF Disconnect
<1>2. Sess' /\ Docs' /\ Prefs' /\ Rest'
  BY <1>1, Makings DEF Sess, Docs, Prefs, prefs, Rest
<1>3. CASE Abandon(p)
  <2>1. PICK admitted : Settle({p}, admitted, FALSE)
    BY <1>3 DEF Abandon
  <2>2. Queue' /\ ledger' \in [Player -> [serial : Nat, rating : Nat]]
    BY <2>1, SettleDoes
  <2>3. Matches'
    BY <1>3, <2>2 DEF Abandon, Matches
  <2> QED BY <1>2, <2>2, <2>3
<1>4. CASE UNCHANGED <<match, queue>>
  BY <1>2, <1>4 DEF match, queue, Matches, Queue
<1> QED BY <1>3, <1>4 DEF Disconnect

\* A client changes a preference.
LEMMA SetPreferenceShape ==
  ASSUME Shape, NEW p \in Player, NEW f \in Field, NEW v \in Value, SetPreference(p, f, v)
  PROVE  Shape'
<1> USE DEF Shape
<1> DEFINE config == [sess[p].config EXCEPT ![f] = v]
           accepted == sess[p].ready /\ HasRoom(p)
<1>1. config \in Config
  BY DEF Sess, Sessions, Config
<1>2. /\ sess' = [sess EXCEPT ![p].config = config]
      /\ chosen' = [chosen EXCEPT ![p][f] = IF accepted THEN v ELSE Unset]
      /\ IF accepted THEN QueueSave(p, config, f) ELSE UNCHANGED prefs
      /\ UNCHANGED <<doc, match, queue, phase, tried>> /\ Spend
  BY DEF SetPreference
<1> HIDE DEF config
<1>3. Sess'
  BY <1>1, <1>2 DEF Sess, Sessions
<1>4. Prefs'
  <2>1. CASE accepted
    BY <1>1, <1>2, <2>1, QueueSaveDoes
  <2>2. CASE ~accepted
    BY <1>2, <2>2 DEF Prefs, prefs
  <2> QED BY <2>1, <2>2
<1>5. Rest'
  BY <1>2 DEF Rest
<1>6. Docs' /\ Matches' /\ Queue'
  BY <1>2 DEF Docs, Spend, Matches, match, Queue, queue
<1> QED BY <1>3, <1>4, <1>5, <1>6

\* A match starts and forgets who has nothing waiting.
LEMMA MatchStartShape ==
  ASSUME Shape, MatchStart
  PROVE  Shape'
<1> USE DEF Shape
<1>1. Matches'
  <2>1. ledger' \in [Player -> [serial : Nat, rating : Nat]]
    BY DEF MatchStart, Matches
  <2> QED BY <2>1 DEF MatchStart, Matches, Unready
<1>2. Docs' /\ Sess' /\ Queue' /\ Prefs' /\ Rest'
  BY DEF MatchStart, Docs, Spend, Sess, Queue, queue, Prefs, prefs, Rest
<1> QED BY <1>1, <1>2

\* A match ends and is settled for all who play.
LEMMA MatchEndShape ==
  ASSUME Shape, NEW contest \in BOOLEAN, MatchEnd(contest)
  PROVE  Shape'
<1> USE DEF Shape
<1> DEFINE P == Participants
           admitted == contest /\ CanAdmit(P)
           rated == admitted /\ Cardinality(P) > 1 /\ ~unrated /\ ~Unready
<1>1. /\ open' = FALSE /\ Settle(P, admitted, rated)
      /\ sess' = [p \in Player |-> IF p \in P THEN [sess[p] EXCEPT !.rating = Rating(p, rated)]
                                   ELSE sess[p]]
      /\ UNCHANGED <<doc, serial, unrated, prefs, phase, tried, chosen, budget>>
  BY DEF MatchEnd
<1>2. P \in SUBSET Player /\ rated \in BOOLEAN
  BY DEF Participants
<1> HIDE DEF P, admitted, rated
<1>3. Queue' /\ ledger' \in [Player -> [serial : Nat, rating : Nat]]
  BY <1>1, <1>2, SettleDoes
<1>4. Sess'
  BY <1>1, <1>2, ResultType DEF Sess, Sessions
<1>5. Matches' /\ Docs' /\ Prefs' /\ Rest'
  BY <1>1, <1>3 DEF Matches, Docs, Prefs, prefs, Rest
<1> QED BY <1>3, <1>4, <1>5

\* The level changes, and an open match is void.
LEMMA LevelChangeShape ==
  ASSUME Shape, LevelChange
  PROVE  Shape'
<1> USE DEF Shape
<1>1. /\ sess' = [p \in Player |-> IF sess[p].conn = "in"
                    THEN [sess[p] EXCEPT !.conn = "retained"] ELSE sess[p]]
      /\ UNCHANGED <<doc, serial, unrated, prefs, phase, tried, chosen, budget>>
  BY DEF LevelChange
<1>2. Sess' /\ Docs' /\ Prefs' /\ Rest'
  BY <1>1 DEF Sess, Sessions, Docs, Prefs, prefs, Rest
<1>3. CASE open
  <2>1. Settle(Participants, FALSE, FALSE) /\ open' = FALSE
    BY <1>3 DEF LevelChange
  <2>2. Participants \in SUBSET Player
    BY DEF Participants
  <2>3. Queue' /\ ledger' \in [Player -> [serial : Nat, rating : Nat]]
    BY <2>1, <2>2, SettleDoes
  <2> QED BY <1>1, <1>2, <2>1, <2>3 DEF Matches
<1>4. CASE ~open
  BY <1>1, <1>2, <1>4 DEF LevelChange, Matches, Queue, queue
<1> QED BY <1>3, <1>4

\* A frame counts one result, or none.
LEMMA StatsFrameShape ==
  ASSUME Shape, NEW outcome \in Outcomes, StatsFrame(outcome)
  PROVE  Shape'
<1> USE DEF Shape
<1>1. Sess' /\ Matches' /\ Rest'
  BY DEF StatsFrame, Sess, Matches, match, Rest
<1>2. Nearer(resultWait) \in [Player -> Nat]
  BY NearerType DEF Queue
<1>3. CASE /\ resultWait' = Nearer(resultWait)
           /\ UNCHANGED <<doc, results, robin, prefs, budget>>
  BY <1>1, <1>2, <1>3 DEF Docs, Queue, Prefs, prefs
<1>4. CASE \E i \in Foremost(Due) :
             TryResult(robin[i], SubSeq(robin, 1, i - 1),
                       SubSeq(robin, i + 1, Len(robin)), Nearer(resultWait), outcome)
  <2>1. PICK i \in Foremost(Due) :
               TryResult(robin[i], SubSeq(robin, 1, i - 1),
                         SubSeq(robin, i + 1, Len(robin)), Nearer(resultWait), outcome)
    BY <1>4
  <2>2. i \in DOMAIN robin
    BY DEF Foremost, Due
  <2>3. Docs' /\ Prefs' /\ Queue'
    BY <1>2, <2>1, <2>2, TryResultDoes
  <2> QED BY <1>1, <2>3
<1> QED BY <1>3, <1>4 DEF StatsFrame

\* A frame saves the preferences of one player, or of none.
LEMMA ProfileFrameShape ==
  ASSUME Shape, NEW outcome \in Outcomes, ProfileFrame(outcome)
  PROVE  Shape'
<1> USE DEF Shape
<1>1. Sess' /\ Matches' /\ Queue' /\ Rest'
  BY DEF ProfileFrame, Sess, Matches, match, Queue, queue, Rest
<1>2. Nearer(prefWait) \in [Player -> Nat]
  BY NearerType DEF Prefs
<1>3. CASE /\ prefWait' = Nearer(prefWait)
           /\ UNCHANGED <<doc, dirty, cached, order, budget>>
  BY <1>1, <1>2, <1>3 DEF Docs, Prefs
<1>4. CASE \E i \in Foremost(DuePreference) :
             TryPreference(order[i], Nearer(prefWait), outcome)
  <2>1. PICK i \in Foremost(DuePreference) :
               TryPreference(order[i], Nearer(prefWait), outcome)
    BY <1>4
  <2>2. i \in DOMAIN order
    BY DEF Foremost, DuePreference
  <2>3. Docs' /\ Prefs'
    BY <1>2, <2>1, <2>2, TryPreferenceDoes
  <2> QED BY <1>1, <2>3
<1> QED BY <1>3, <1>4 DEF ProfileFrame

\* A process that has ended remembers nothing.
LEMMA ForgottenShape ==
  ASSUME Shape, Forgotten, budget' \in Nat
  PROVE  Shape'
<1> USE DEF Shape
<1>1. Docs' /\ Sess' /\ Matches'
  BY Makings DEF Forgotten, Docs, Sess, Matches
<1>2. Queue'
  <2>1. \A p \in Player : results'[p] = <<>>
    BY DEF Forgotten
  <2>2. {p \in Player : results'[p] # <<>>} = {}
    BY <2>1
  <2>3. results' \in [Player -> Seq(Results)] /\ resultWait' \in [Player -> Nat] /\ robin' = <<>>
    BY DEF Forgotten
  <2> QED BY <2>2, <2>3, LineOfNone DEF Queue
<1>3. Prefs'
  <2>1. \A p \in Player : dirty'[p] = {}
    BY DEF Forgotten
  <2>2. {p \in Player : dirty'[p] # {}} = {}
    BY <2>1
  <2>3. /\ dirty' \in [Player -> SUBSET Field] /\ prefWait' \in [Player -> Nat]
        /\ cached' \in [Player -> Config]
    BY Makings DEF Forgotten
  <2>4. order' = <<>> /\ Len(order') = 0
    BY DEF Forgotten
  <2>5. Len(order') <= CacheLimit
    BY <2>4, LimitAssumption
  <2> QED BY <2>2, <2>3, <2>4, <2>5, LineOfNone DEF Prefs
<1>4. Rest'
  BY DEF Forgotten, Rest
<1> QED BY <1>1, <1>2, <1>3, <1>4

\* A shutdown counts the results one by one.
LEMMA DrainResultsShape ==
  ASSUME Shape, NEW outcome \in Outcomes, DrainResults(outcome)
  PROVE  Shape'
<1> USE DEF Shape
<1> DEFINE able == {i \in DOMAIN robin : robin[i] \notin tried}
<1>1. Sess' /\ Matches'
  BY DEF DrainResults, Sess, Matches, match
<1>2. CASE tried' = {} /\ UNCHANGED <<doc, queue, prefs, budget>>
  BY <1>1, <1>2 DEF DrainResults, Docs, Queue, queue, Prefs, prefs, Rest
<1>3. CASE \E i \in Foremost(able) :
             /\ TryResult(robin[i], SubSeq(robin, 1, i - 1),
                          SubSeq(robin, i + 1, Len(robin)), resultWait, outcome)
             /\ tried' = IF outcome = "done" THEN tried ELSE tried \union {robin[i]}
  <2>1. PICK i \in Foremost(able) :
             /\ TryResult(robin[i], SubSeq(robin, 1, i - 1),
                          SubSeq(robin, i + 1, Len(robin)), resultWait, outcome)
             /\ tried' = IF outcome = "done" THEN tried ELSE tried \union {robin[i]}
    BY <1>3
  <2>2. i \in DOMAIN robin /\ resultWait \in [Player -> Nat]
    BY DEF Foremost, Queue
  <2>3. Docs' /\ Prefs' /\ Queue' /\ robin[i] \in Player
    BY <2>1, <2>2, TryResultDoes
  <2>4. Rest'
    BY <2>1, <2>3 DEF DrainResults, Rest
  <2> QED BY <1>1, <2>3, <2>4
<1> QED BY <1>2, <1>3 DEF DrainResults

\* And saves the preferences one by one, and ends.
LEMMA DrainProfilesShape ==
  ASSUME Shape, NEW outcome \in Outcomes, DrainProfiles(outcome)
  PROVE  Shape'
<1> USE DEF Shape
<1> DEFINE able == {i \in DOMAIN order : order[i] \notin tried}
<1>1. CASE Forgotten /\ UNCHANGED budget
  BY <1>1, ForgottenShape DEF Docs
<1>2. CASE \E i \in Foremost(able) :
             /\ TryPreference(order[i], prefWait, outcome)
             /\ tried' = tried \union {order[i]}
             /\ UNCHANGED <<sess, match, queue, phase, chosen>>
  <2>1. PICK i \in Foremost(able) :
             /\ TryPreference(order[i], prefWait, outcome)
             /\ tried' = tried \union {order[i]}
             /\ UNCHANGED <<sess, match, queue, phase, chosen>>
    BY <1>2
  <2>2. i \in DOMAIN order /\ prefWait \in [Player -> Nat]
    BY DEF Foremost, Prefs
  <2>3. Docs' /\ Prefs' /\ order[i] \in Player
    BY <2>1, <2>2, TryPreferenceDoes
  <2> QED BY <2>1, <2>3 DEF Sess, Matches, match, Queue, queue, Rest
<1> QED BY <1>1, <1>2 DEF DrainProfiles

\* The process ends suddenly, or is asked to end, or is started.
LEMMA ProcessShape ==
  ASSUME Shape, Process
  PROVE  Shape'
<1>1. CASE Crash
  BY <1>1, ForgottenShape DEF Crash, Spend, Shape, Docs
<1>2. CASE Shutdown \/ Start
  <2>1. Docs' /\ UNCHANGED <<sess, match, queue, prefs, tried, chosen>>
    BY <1>2 DEF Shutdown, Start, Spend, Shape, Docs
  <2>2. Sess' /\ Matches' /\ Rest'
    BY <2>1 DEF Shape, Sess, Matches, match, Rest
  <2>3. Queue' /\ Prefs'
    BY <2>1 DEF Shape, Queue, queue, Prefs, prefs
  <2> QED BY <2>1, <2>2, <2>3 DEF Shape
<1> QED BY <1>1, <1>2 DEF Process

\* What others do to the documents.
LEMMA OthersShape ==
  ASSUME Shape, Others
  PROVE  Shape'
<1> USE DEF Shape
<1>1. ASSUME NEW p \in Player, NEW f \in Field, NEW v \in Value, ForeignSave(p, f, v)
      PROVE  Shape'
  <2>1. /\ doc' = [doc EXCEPT ![p] = [doc[p] EXCEPT !.config = [doc[p].config EXCEPT ![f] = v]]]
        /\ chosen' = [chosen EXCEPT ![p] = [chosen[p] EXCEPT ![f] = Unset]]
        /\ budget' \in Nat /\ UNCHANGED tried
    BY <1>1 DEF ForeignSave, Spend, Docs, server
  <2>2. [doc[p] EXCEPT !.config = [doc[p].config EXCEPT ![f] = v]] \in Documents
    BY DEF Docs, Documents, Config
  <2>3. [chosen[p] EXCEPT ![f] = Unset] \in [Field -> Value \union {Unset}]
    BY DEF Rest
  <2>4. Docs' /\ Rest'
    BY <2>1, <2>2, <2>3 DEF Docs, Rest
  <2> QED BY <1>1, <2>4 DEF ForeignSave, server, Sess, Matches, match, Queue, queue, Prefs, prefs
<1>2. ASSUME NEW p \in Player, NEW kind \in {"missing", "corrupt", "newer"}, Replaced(p, kind)
      PROVE  Shape'
  <2>1. [Blank EXCEPT !.kind = kind] \in Documents
    BY Makings DEF Documents
  <2>2. Docs'
    BY <1>2, <2>1 DEF Replaced, Spend, Docs
  <2>3. Rest'
    BY <1>2 DEF Replaced, Rest, server
  <2> QED BY <1>2, <2>2, <2>3 DEF Replaced, server, Sess, Matches, match, Queue, queue, Prefs, prefs
<1> QED BY <1>1, <1>2 DEF Others

\* It holds at first,
LEMMA ShapeInit == Init => Shape
<1> SUFFICES ASSUME Init PROVE Shape
  OBVIOUS
<1> USE DEF Init
<1>1. Docs /\ Sess
  BY Makings, LimitAssumption DEF Docs, Sess
<1>0. Matches
  BY DEF Matches
<1>2. {p \in Player : results[p] # <<>>} = {} /\ {p \in Player : dirty[p] # {}} = {}
  OBVIOUS
<1>3. results \in [Player -> Seq(Results)] /\ resultWait \in [Player -> Nat]
  OBVIOUS
<1>4. Queue
  BY <1>2, <1>3, LineOfNone DEF Queue
<1>5. /\ dirty \in [Player -> SUBSET Field] /\ prefWait \in [Player -> Nat]
      /\ cached \in [Player -> Config] /\ Len(order) = 0
  BY Makings
<1>6. Prefs
  <2>1. order = <<>> /\ 0 <= CacheLimit
    BY LimitAssumption
  <2> HIDE DEF Init
  <2> QED BY <1>2, <1>5, <2>1, LineOfNone DEF Prefs
<1> QED BY <1>0, <1>1, <1>4, <1>6 DEF Shape, Rest

\* and after every step.
LEMMA ShapeStep ==
  ASSUME Shape, [Next]_vars
  PROVE  Shape'
<1>1. CASE Clients
  BY <1>1, DisconnectShape, ConnectShape, SetPreferenceShape, MatchStartShape,
     MatchEndShape, LevelChangeShape DEF Clients
<1>2. CASE Pumps
  BY <1>2, StatsFrameShape, ProfileFrameShape, DrainResultsShape, DrainProfilesShape
  DEF Pumps, Frame, Unfinished
<1>3. CASE Process
  BY <1>3, ProcessShape
<1>4. CASE Others
  BY <1>4, OthersShape
<1>5. CASE UNCHANGED vars
  BY <1>5 DEF vars, match, queue, prefs, Shape, Docs, Sess, Matches, Queue, Prefs, Rest
<1> QED BY <1>1, <1>2, <1>3, <1>4, <1>5 DEF Next

\* The shape is an invariant.
LEMMA ShapeAlways == Spec => []Shape
<1>1. Init => Shape
  BY ShapeInit
<1>2. Shape /\ [Next]_vars => Shape'
  BY ShapeStep
<1> QED BY <1>1, <1>2, PTL DEF Spec

\* The variables have their types.
THEOREM TypeCorrect == Spec => []TypeOK
<1>1. Shape => TypeOK
  BY ShapeFacts
<1> QED BY <1>1, ShapeAlways, PTL

\* Who has something to be written has one place in its line, whatever fails
\* and whoever is tried first, and the cache is never overfull.
THEOREM PlacesAreKept == Spec => []EveryoneInLine
<1>1. Shape => EveryoneInLine
  BY ShapeFacts
<1> QED BY <1>1, ShapeAlways, PTL

(***************************************************************************)
(* What a step can be for one player.                                      *)
(***************************************************************************)
Same(p) == doc'[p] = doc[p] /\ dirty'[p] = dirty[p] /\ cached'[p] = cached[p]

\* The session goes on, over a change of level perhaps, or ends.
Sits(p) ==
  \/ sess'[p] = sess[p]
  \/ sess[p].conn = "in" /\ sess'[p] = [sess[p] EXCEPT !.conn = "retained"]
  \/ sess'[p] = Gone

Idles(p) ==
  /\ Same(p) /\ Sits(p) /\ results'[p] = results[p] /\ ledger'[p] = ledger[p]
  /\ chosen'[p] = chosen[p] /\ serial' = serial /\ (open' => open)

Starts(p) ==
  /\ Same(p) /\ sess'[p] = sess[p] /\ results'[p] = results[p] /\ chosen'[p] = chosen[p]
  /\ serial' = serial + 1 /\ (ledger'[p] = ledger[p] \/ results[p] = <<>>)

Settles(p) ==
  \E rated \in BOOLEAN :
    /\ Same(p) /\ open /\ ledger[p].serial # serial /\ serial' = serial
    /\ chosen'[p] = chosen[p]
    /\ ledger'[p] = [serial |-> serial, rating |-> Rating(p, rated)]
    /\ \/ results'[p] = results[p]
       \/ results'[p] = Append(results[p], Result(p, rated))
    /\ \/ sess'[p] = Gone
       \/ /\ sess'[p].rating = Rating(p, rated) /\ sess'[p].config = sess[p].config
          /\ sess'[p].ready = sess[p].ready

Writes(p, new, outcome) ==
  /\ Attempt(p, new, outcome)
  /\ outcome = "done" => dirty'[p] = {}
  /\ outcome # "done" => dirty'[p] = dirty[p] /\ cached'[p] = cached[p]
  /\ ledger'[p] = ledger[p] /\ chosen'[p] = chosen[p] /\ serial' = serial /\ open' = open

Saves(p) ==
  \E outcome \in Outcomes :
    /\ Writes(p, Saved(p), outcome) /\ results'[p] = results[p]
    /\ \/ sess'[p] = sess[p]
       \/ /\ sess'[p].ready => outcome = "done" /\ sess'[p].config = Saved(p).config
          /\ ExactPending(p) => sess'[p].rating = ledger[p].rating

Counts(p) ==
  \E outcome \in Outcomes :
    /\ results[p] # <<>> /\ Writes(p, Counted(p), outcome) /\ sess'[p] = sess[p]
    /\ results'[p] = IF outcome = "done" THEN Tail(results[p]) ELSE results[p]

Changes(p) ==
  \E f \in Field, v \in Value, accepted \in BOOLEAN :
    /\ doc'[p] = doc[p] /\ results'[p] = results[p] /\ ledger'[p] = ledger[p]
    /\ serial' = serial /\ open' = open /\ (accepted => sess[p].ready)
    /\ sess'[p] = [sess[p] EXCEPT !.config = [sess[p].config EXCEPT ![f] = v]]
    /\ chosen'[p] = [chosen[p] EXCEPT ![f] = IF accepted THEN v ELSE Unset]
    /\ accepted => /\ dirty'[p] = dirty[p] \union {f}
                   /\ cached'[p] = [sess[p].config EXCEPT ![f] = v]
    /\ ~accepted => dirty'[p] = dirty[p] /\ cached'[p] = cached[p]

Suffers(p) ==
  /\ UNCHANGED server
  /\ \/ doc'[p] = doc[p] /\ chosen'[p] = chosen[p]
     \/ \E f \in Field, v \in Value :
          /\ doc[p].kind = "ok"
          /\ doc'[p] = [doc[p] EXCEPT !.config = [doc[p].config EXCEPT ![f] = v]]
          /\ chosen'[p] = [chosen[p] EXCEPT ![f] = Unset]
     \/ \E kind \in {"missing", "corrupt", "newer"} :
          /\ doc'[p] = [Blank EXCEPT !.kind = kind]
          /\ chosen'[p] = [f \in Field |-> IF f \in dirty[p] THEN chosen[p][f] ELSE Unset]

StepOf(p) ==
  \/ Idles(p) \/ Starts(p) \/ Settles(p) \/ Saves(p) \/ Counts(p)
  \/ Changes(p) \/ Forgotten \/ Suffers(p)

\* An attempt for somebody else leaves a player alone.
LEMMA Bystander ==
  ASSUME Docs, Prefs, NEW p \in Player, NEW q \in Player, q # p,
         NEW new \in Documents, NEW outcome \in Outcomes, Attempt(q, new, outcome),
         IF outcome = "done" THEN Clean(q) ELSE UNCHANGED <<dirty, cached, order>>
  PROVE  Same(p)
<1>1. doc'[p] = doc[p]
  BY AttemptDoes
<1>2. dirty'[p] = dirty[p] /\ cached'[p] = cached[p]
  BY DEF Clean, Prefs
<1> QED BY <1>1, <1>2 DEF Same

\* And the one it is for has nothing to save when it is done.
LEMMA Attempted ==
  ASSUME Docs, Prefs, NEW p \in Player,
         NEW new \in Documents, NEW outcome \in Outcomes, Attempt(p, new, outcome),
         IF outcome = "done" THEN Clean(p) ELSE UNCHANGED <<dirty, cached, order>>,
         ledger'[p] = ledger[p], chosen'[p] = chosen[p], serial' = serial, open' = open
  PROVE  Writes(p, new, outcome)
  BY DEF Clean, Prefs, Writes

\* A load.
LEMMA LoadKind ==
  ASSUME Shape, NEW p \in Player, NEW q \in Player, NEW old \in Sessions,
         NEW conn \in {"fresh", "in"}, NEW outcome \in Outcomes, Load(q, old, conn, outcome)
  PROVE  StepOf(p)
<1>1. /\ Attempt(q, Saved(q), outcome)
      /\ IF outcome = "done" THEN Clean(q) ELSE UNCHANGED <<dirty, cached, order>>
  BY DEF Load, Persisted, prefs
<1>2. /\ ledger' = ledger /\ chosen' = chosen /\ serial' = serial /\ open' = open
      /\ results' = results
  BY DEF Load, match, queue
<1>3. Saved(q) \in Documents
  BY SavedType DEF Shape
<1>4. CASE p # q
  <2>1. Same(p)
    BY <1>1, <1>3, <1>4, Bystander DEF Shape
  <2>2. sess'[p] = sess[p]
    BY <1>4 DEF Load, Shape, Sess
  <2> QED BY <1>2, <2>1, <2>2 DEF StepOf, Idles, Sits
<1>5. CASE p = q
  <2>1. Writes(p, Saved(p), outcome)
    BY <1>1, <1>2, <1>3, <1>5, Attempted DEF Shape
  <2> DEFINE config == IF outcome = "done" THEN Saved(p).config
                       ELSE Merge(old.config, cached[p], dirty[p])
             rating == Recorded(p, IF outcome = "done" THEN Saved(p).rating ELSE old.rating)
  <2>2. sess' = [sess EXCEPT ![p] = [conn |-> conn, ready |-> outcome = "done",
                                     config |-> config, rating |-> rating]]
    BY <1>5 DEF Load
  <2>3. outcome = "done" => config = Saved(p).config
    OBVIOUS
  <2>4. ExactPending(p) => rating = ledger[p].rating
    BY DEF Recorded
  <2> HIDE DEF config, rating
  <2>5. /\ sess'[p].ready = (outcome = "done") /\ sess'[p].config = config
        /\ sess'[p].rating = rating
    BY <2>2 DEF Shape, Sess
  <2> QED BY <1>2, <2>1, <2>3, <2>4, <2>5 DEF StepOf, Saves
<1> QED BY <1>4, <1>5

\* An attempt for the first in the line of results.
LEMMA ResultKind ==
  ASSUME Shape, NEW p \in Player, NEW i \in DOMAIN robin, NEW outcome \in Outcomes,
         NEW wait \in [Player -> Nat],
         TryResult(robin[i], SubSeq(robin, 1, i - 1), SubSeq(robin, i + 1, Len(robin)),
                   wait, outcome),
         UNCHANGED <<sess, match, chosen>>
  PROVE  StepOf(p)
<1> DEFINE q == robin[i]
<1>1. /\ q \in Player /\ results[q] # <<>>
      /\ results' = [results EXCEPT ![q] = IF outcome = "done" THEN Tail(@) ELSE @]
      /\ Attempt(q, Counted(q), outcome)
      /\ IF outcome = "done" THEN Clean(q) ELSE UNCHANGED <<dirty, cached, order>>
  BY TryResultDoes DEF Shape
<1> HIDE DEF q
<1>2. ledger' = ledger /\ chosen' = chosen /\ serial' = serial /\ open' = open /\ sess' = sess
  BY DEF match
<1>3. Counted(q) \in Documents
  BY <1>1, CountedType DEF Shape
<1>4. CASE p # q
  <2>1. Same(p)
    BY <1>1, <1>3, <1>4, Bystander DEF Shape
  <2>2. results'[p] = results[p]
    BY <1>1, <1>4 DEF Shape, Queue
  <2> QED BY <1>2, <2>1, <2>2 DEF StepOf, Idles, Sits
<1>5. CASE p = q
  <2>1. Writes(p, Counted(p), outcome)
    BY <1>1, <1>2, <1>3, <1>5, Attempted DEF Shape
  <2>2. results'[p] = IF outcome = "done" THEN Tail(results[p]) ELSE results[p]
    BY <1>1, <1>5 DEF Shape, Queue
  <2> QED BY <1>1, <1>2, <1>5, <2>1, <2>2 DEF StepOf, Counts
<1> QED BY <1>4, <1>5

\* An attempt for the oldest preferences.
LEMMA PreferenceKind ==
  ASSUME Shape, NEW p \in Player, NEW i \in DOMAIN order, NEW outcome \in Outcomes,
         NEW wait \in [Player -> Nat], TryPreference(order[i], wait, outcome),
         UNCHANGED <<sess, match, queue, chosen>>
  PROVE  StepOf(p)
<1> DEFINE q == order[i]
<1>1. /\ q \in Player /\ Attempt(q, Saved(q), outcome)
      /\ IF outcome = "done" THEN Clean(q) ELSE UNCHANGED <<dirty, cached, order>>
  BY TryPreferenceDoes DEF Shape
<1> HIDE DEF q
<1>2. /\ ledger' = ledger /\ chosen' = chosen /\ serial' = serial /\ open' = open
      /\ sess' = sess /\ results' = results
  BY DEF match, queue
<1>3. Saved(q) \in Documents
  BY <1>1, SavedType DEF Shape
<1>4. CASE p # q
  <2>1. Same(p)
    BY <1>1, <1>3, <1>4, Bystander DEF Shape
  <2> QED BY <1>2, <2>1 DEF StepOf, Idles, Sits
<1>5. CASE p = q
  <2>1. Writes(p, Saved(p), outcome)
    BY <1>1, <1>2, <1>3, <1>5, Attempted DEF Shape
  <2> QED BY <1>2, <2>1 DEF StepOf, Saves
<1> QED BY <1>4, <1>5

\* A settlement, seen by one of the players.
LEMMA SettleKind ==
  ASSUME Shape, NEW p \in Player, NEW P \in SUBSET Player, NEW admitted, NEW rated \in BOOLEAN,
         Settle(P, admitted, rated), open, \A q \in P : ledger[q].serial # serial,
         Same(p), chosen'[p] = chosen[p], serial' = serial,
         p \notin P => Sits(p),
         p \in P => \/ sess'[p] = Gone
                    \/ /\ sess'[p].rating = Rating(p, rated)
                       /\ sess'[p].config = sess[p].config /\ sess'[p].ready = sess[p].ready
  PROVE  StepOf(p)
<1>1. /\ \A q \in P : ledger'[q] = [serial |-> serial, rating |-> Rating(q, rated)]
      /\ \A q \in Player \ P : ledger'[q] = ledger[q]
      /\ \A q \in Player : \/ results'[q] = results[q]
                           \/ q \in P /\ results'[q] = Append(results[q], Result(q, rated))
  BY SettleDoes DEF Shape
<1>2. CASE p \in P
  BY <1>1, <1>2 DEF StepOf, Settles
<1>3. CASE p \notin P
  BY <1>1, <1>3 DEF StepOf, Idles
<1> QED BY <1>2, <1>3

\* What the clients and the matches do to a player.
LEMMA ClientsKind ==
  ASSUME Shape, NEW p \in Player, Clients
  PROVE  StepOf(p)
<1>1. ASSUME NEW q \in Player, Disconnect(q) PROVE StepOf(p)
  <2>1. /\ sess' = [sess EXCEPT ![q] = Gone]
        /\ UNCHANGED <<doc, prefs, phase, tried, chosen, budget>>
    BY <1>1 DEF Disconnect
  <2>2. Same(p) /\ chosen' = chosen /\ Sits(p) /\ (p = q => sess'[p] = Gone)
    BY <2>1 DEF Same, prefs, Sits, Shape, Sess
  <2>3. CASE open /\ ledger[q].serial # serial /\ Abandon(q)
    <3>1. PICK admitted : Settle({q}, admitted, FALSE)
      BY <2>3 DEF Abandon
    <3>2. serial' = serial
      BY <2>3 DEF Abandon
    <3> DEFINE P == {q}
    <3>3. P \in SUBSET Player /\ \A r \in P : ledger[r].serial # serial
      BY <2>3
    <3>4. /\ p \notin P => Sits(p)
          /\ p \in P => sess'[p] = Gone
      BY <2>2
    <3>5. Settle(P, admitted, FALSE) /\ open /\ Same(p) /\ chosen'[p] = chosen[p]
      BY <2>2, <2>3, <3>1
    <3> HIDE DEF P
    <3> QED BY <3>2, <3>3, <3>4, <3>5, SettleKind
  <2>4. CASE UNCHANGED <<match, queue>>
    BY <2>2, <2>4 DEF match, queue, StepOf, Idles
  <2> QED BY <1>1, <2>3, <2>4 DEF Disconnect
<1>2. ASSUME NEW q \in Player, NEW outcome \in Outcomes, Connect(q, outcome) \/ Begin(q, outcome)
      PROVE  StepOf(p)
  <2>1. CASE Connect(q, outcome)
    <3>1. Load(q, Fresh, "fresh", outcome) /\ Fresh \in Sessions
      BY <2>1, Makings DEF Connect
    <3> QED BY <3>1, LoadKind
  <2>2. CASE Begin(q, outcome)
    <3>1. Load(q, sess[q], "in", outcome) /\ sess[q] \in Sessions
      BY <2>2 DEF Begin, Shape, Sess
    <3> QED BY <3>1, LoadKind
  <2> QED BY <1>2, <2>1, <2>2
<1>3. ASSUME NEW q \in Player, NEW f \in Field, NEW v \in Value, SetPreference(q, f, v)
      PROVE  StepOf(p)
  <2> DEFINE config == [sess[q].config EXCEPT ![f] = v]
             accepted == sess[q].ready /\ HasRoom(q)
  <2>1. /\ sess' = [sess EXCEPT ![q] = [sess[q] EXCEPT !.config = config]]
        /\ chosen' = [chosen EXCEPT ![q] = [chosen[q] EXCEPT ![f] = IF accepted THEN v ELSE Unset]]
        /\ IF accepted THEN QueueSave(q, config, f) ELSE UNCHANGED prefs
        /\ UNCHANGED <<doc, match, queue>>
    BY <1>3 DEF SetPreference
  <2>2. doc' = doc /\ results' = results /\ ledger' = ledger /\ serial' = serial /\ open' = open
    BY <2>1 DEF match, queue
  <2>3. CASE p # q
    <3>1. sess'[p] = sess[p] /\ chosen'[p] = chosen[p]
      BY <2>1, <2>3 DEF Shape, Sess, Rest
    <3>2. dirty'[p] = dirty[p] /\ cached'[p] = cached[p]
      BY <2>1, <2>3 DEF QueueSave, prefs, Shape, Prefs
    <3> QED BY <2>2, <3>1, <3>2 DEF StepOf, Idles, Same, Sits
  <2>4. CASE p = q
    <3>0. accepted \in BOOLEAN
      BY DEF Shape, Sess, Sessions, HasRoom
    <3>1. /\ sess'[p] = [sess[p] EXCEPT !.config = config]
          /\ chosen'[p] = [chosen[p] EXCEPT ![f] = IF accepted THEN v ELSE Unset]
      BY <2>1, <2>4 DEF Shape, Sess, Rest
    <3>2. accepted => dirty'[p] = dirty[p] \union {f} /\ cached'[p] = config
      BY <2>1, <2>4 DEF QueueSave, Shape, Prefs
    <3>3. ~accepted => dirty'[p] = dirty[p] /\ cached'[p] = cached[p]
      BY <2>1, <2>4 DEF prefs
    <3>4. accepted => sess[p].ready
      BY <2>4
    <3>5. config = [sess[p].config EXCEPT ![f] = v]
      BY <2>4
    <3> HIDE DEF accepted, config
    <3>6. Changes(p)
      BY <2>2, <3>0, <3>1, <3>2, <3>3, <3>4, <3>5 DEF Changes
    <3> QED BY <3>6 DEF StepOf
  <2> QED BY <2>3, <2>4
<1>4. CASE MatchStart
  <2>1. ledger'[p] = ledger[p] \/ results[p] = <<>>
    BY <1>4 DEF MatchStart
  <2> QED BY <1>4, <2>1 DEF MatchStart, StepOf, Starts, Same, queue, prefs
<1>5. ASSUME NEW contest \in BOOLEAN, MatchEnd(contest) PROVE StepOf(p)
  <2> DEFINE P == Participants
             admitted == contest /\ CanAdmit(P)
             rated == admitted /\ Cardinality(P) > 1 /\ ~unrated /\ ~Unready
  <2>1. /\ open /\ Settle(P, admitted, rated)
        /\ sess' = [q \in Player |-> IF q \in P THEN [sess[q] EXCEPT !.rating = Rating(q, rated)]
                                     ELSE sess[q]]
        /\ UNCHANGED <<doc, serial, unrated, prefs, phase, tried, chosen, budget>>
    BY <1>5 DEF MatchEnd
  <2>2. P \in SUBSET Player /\ rated \in BOOLEAN /\ \A q \in P : ledger[q].serial # serial
    BY DEF Participants
  <2> HIDE DEF P, admitted, rated
  <2>3. Same(p) /\ chosen'[p] = chosen[p] /\ serial' = serial
    BY <2>1 DEF Same, prefs
  <2>4. p \notin P => Sits(p)
    BY <2>1 DEF Sits
  <2>5. p \in P => /\ sess'[p].rating = Rating(p, rated)
                   /\ sess'[p].config = sess[p].config /\ sess'[p].ready = sess[p].ready
    BY <2>1 DEF Shape, Sess, Sessions
  <2> QED BY <2>1, <2>2, <2>3, <2>4, <2>5, SettleKind
<1>6. CASE LevelChange
  <2> DEFINE P == Participants
  <2>1. /\ sess' = [q \in Player |-> IF sess[q].conn = "in"
                      THEN [sess[q] EXCEPT !.conn = "retained"] ELSE sess[q]]
        /\ UNCHANGED <<doc, serial, unrated, prefs, phase, tried, chosen, budget>>
        /\ IF open THEN Settle(P, FALSE, FALSE) /\ open' = FALSE
           ELSE UNCHANGED <<ledger, open, queue>>
    BY <1>6 DEF LevelChange
  <2>2. P \in SUBSET Player /\ \A q \in P : ledger[q].serial # serial /\ sess[q].conn = "in"
    BY DEF Participants
  <2> HIDE DEF P
  <2>3. Same(p) /\ chosen'[p] = chosen[p] /\ serial' = serial
    BY <2>1 DEF Same, prefs
  <2>4. Sits(p)
    BY <2>1 DEF Sits
  <2>5. p \in P => /\ sess'[p].rating = Rating(p, FALSE)
                   /\ sess'[p].config = sess[p].config /\ sess'[p].ready = sess[p].ready
    <3>1. p \in P => sess'[p].rating = sess[p].rating
                     /\ sess'[p].config = sess[p].config /\ sess'[p].ready = sess[p].ready
      BY <2>1, <2>2 DEF Shape, Sess, Sessions
    <3>2. Rating(p, FALSE) = sess[p].rating
      BY DEF Rating, Shape, Sess, Sessions
    <3> QED BY <3>1, <3>2
  <2>6. CASE open
    BY <2>1, <2>2, <2>3, <2>4, <2>5, <2>6, SettleKind
  <2>7. CASE ~open
    BY <2>1, <2>3, <2>4, <2>7 DEF StepOf, Idles, queue
  <2> QED BY <2>6, <2>7
<1> QED BY <1>1, <1>2, <1>3, <1>4, <1>5, <1>6 DEF Clients

\* What the frames and a shutdown do to him.
LEMMA PumpsKind ==
  ASSUME Shape, NEW p \in Player, Pumps
  PROVE  StepOf(p)
<1> PICK outcome \in Outcomes : \/ StatsFrame(outcome) \/ ProfileFrame(outcome)
                                \/ DrainResults(outcome) \/ DrainProfiles(outcome)
  BY DEF Pumps, Frame, Unfinished
<1> DEFINE ableR == {i \in DOMAIN robin : robin[i] \notin tried}
           ableP == {i \in DOMAIN order : order[i] \notin tried}
<1>1. /\ Nearer(resultWait) \in [Player -> Nat] /\ resultWait \in [Player -> Nat]
      /\ Nearer(prefWait) \in [Player -> Nat] /\ prefWait \in [Player -> Nat]
  BY NearerType DEF Shape, Queue, Prefs
<1>2. /\ Foremost(Due) \subseteq DOMAIN robin /\ Foremost(ableR) \subseteq DOMAIN robin
      /\ Foremost(DuePreference) \subseteq DOMAIN order /\ Foremost(ableP) \subseteq DOMAIN order
  BY DEF Foremost, Due, DuePreference
<1>3. ASSUME UNCHANGED <<doc, results, dirty, cached, sess, match, chosen>> PROVE StepOf(p)
  BY <1>3 DEF match, StepOf, Idles, Same, Sits
<1>4. CASE StatsFrame(outcome)
  <2>1. UNCHANGED <<sess, match, chosen>>
    BY <1>4 DEF StatsFrame
  <2>2. CASE UNCHANGED <<doc, results, robin, prefs, budget>>
    BY <1>3, <2>1, <2>2 DEF prefs
  <2>3. ASSUME NEW i \in Foremost(Due),
               TryResult(robin[i], SubSeq(robin, 1, i - 1), SubSeq(robin, i + 1, Len(robin)),
                         Nearer(resultWait), outcome)
        PROVE  StepOf(p)
    BY <1>1, <1>2, <2>1, <2>3, ResultKind
  <2> QED BY <1>4, <2>2, <2>3 DEF StatsFrame
<1>5. CASE ProfileFrame(outcome)
  <2>1. UNCHANGED <<sess, match, queue, chosen>>
    BY <1>5 DEF ProfileFrame
  <2>2. CASE UNCHANGED <<doc, dirty, cached, order, budget>>
    BY <1>3, <2>1, <2>2 DEF queue
  <2>3. ASSUME NEW i \in Foremost(DuePreference), TryPreference(order[i], Nearer(prefWait), outcome)
        PROVE  StepOf(p)
    BY <1>1, <1>2, <2>1, <2>3, PreferenceKind
  <2> QED BY <1>5, <2>2, <2>3 DEF ProfileFrame
<1>6. CASE DrainResults(outcome)
  <2>1. UNCHANGED <<sess, match, chosen>>
    BY <1>6 DEF DrainResults
  <2>2. CASE UNCHANGED <<doc, queue, prefs, budget>>
    BY <1>3, <2>1, <2>2 DEF prefs, queue
  <2>3. ASSUME NEW i \in Foremost(ableR),
               TryResult(robin[i], SubSeq(robin, 1, i - 1), SubSeq(robin, i + 1, Len(robin)),
                         resultWait, outcome)
        PROVE  StepOf(p)
    BY <1>1, <1>2, <2>1, <2>3, ResultKind
  <2> QED BY <1>6, <2>2, <2>3 DEF DrainResults
<1>7. CASE DrainProfiles(outcome)
  <2>1. CASE Forgotten
    BY <2>1 DEF StepOf
  <2>2. ASSUME NEW i \in Foremost(ableP), TryPreference(order[i], prefWait, outcome),
               UNCHANGED <<sess, match, queue, phase, chosen>>
        PROVE  StepOf(p)
    BY <1>1, <1>2, <2>2, PreferenceKind
  <2> QED BY <1>7, <2>1, <2>2 DEF DrainProfiles
<1> QED BY <1>4, <1>5, <1>6, <1>7

\* What others do to his document.
LEMMA OthersKind ==
  ASSUME Shape, NEW p \in Player, Others
  PROVE  StepOf(p)
<1>1. ASSUME NEW q \in Player, NEW f \in Field, NEW v \in Value, ForeignSave(q, f, v)
      PROVE  StepOf(p)
  <2>1. /\ doc[q].kind = "ok" /\ UNCHANGED server
        /\ doc' = [doc EXCEPT ![q] = [doc[q] EXCEPT !.config = [doc[q].config EXCEPT ![f] = v]]]
        /\ chosen' = [chosen EXCEPT ![q] = [chosen[q] EXCEPT ![f] = Unset]]
    BY <1>1 DEF ForeignSave
  <2>2. CASE p # q
    BY <2>1, <2>2 DEF Shape, Docs, Rest, StepOf, Suffers
  <2>3. CASE p = q
    <3>1. /\ doc'[p] = [doc[p] EXCEPT !.config = [doc[p].config EXCEPT ![f] = v]]
          /\ chosen'[p] = [chosen[p] EXCEPT ![f] = Unset] /\ doc[p].kind = "ok"
      BY <2>1, <2>3 DEF Shape, Docs, Rest
    <3> QED BY <2>1, <3>1 DEF StepOf, Suffers
  <2> QED BY <2>2, <2>3
<1>2. ASSUME NEW q \in Player, NEW kind \in {"missing", "corrupt", "newer"}, Replaced(q, kind)
      PROVE  StepOf(p)
  <2>1. /\ UNCHANGED server /\ doc' = [doc EXCEPT ![q] = [Blank EXCEPT !.kind = kind]]
        /\ chosen' = [chosen EXCEPT ![q] = [f \in Field |->
                        IF f \in dirty[q] THEN chosen[q][f] ELSE Unset]]
    BY <1>2 DEF Replaced
  <2>2. CASE p # q
    BY <2>1, <2>2 DEF Shape, Docs, Rest, StepOf, Suffers
  <2>3. CASE p = q
    <3>1. /\ doc'[p] = [Blank EXCEPT !.kind = kind]
          /\ chosen'[p] = [f \in Field |-> IF f \in dirty[p] THEN chosen[p][f] ELSE Unset]
      BY <2>1, <2>3 DEF Shape, Docs, Rest
    <3> QED BY <2>1, <3>1 DEF StepOf, Suffers
  <2> QED BY <2>2, <2>3
<1> QED BY <1>1, <1>2 DEF Others

\* These are all the steps there are.
LEMMA EveryStep ==
  ASSUME Shape, NEW p \in Player, [Next]_vars
  PROVE  StepOf(p)
<1>1. CASE Process
  <2>1. CASE Crash
    BY <2>1 DEF Crash, StepOf
  <2>2. CASE Shutdown \/ Start
    <3>1. UNCHANGED <<doc, sess, match, queue, prefs, chosen>>
      BY <2>2 DEF Shutdown, Start
    <3> QED BY <3>1 DEF match, queue, prefs, StepOf, Idles, Same, Sits
  <2> QED BY <1>1, <2>1, <2>2 DEF Process
<1>2. CASE UNCHANGED vars
  BY <1>2 DEF vars, match, queue, prefs, StepOf, Idles, Same, Sits
<1> QED BY <1>1, <1>2, ClientsKind, PumpsKind, OthersKind DEF Next

(***************************************************************************)
(* A result is counted once.                                               *)
(***************************************************************************)
\* What is in a history and among what waits.
LEMMA SerialTypes ==
  ASSUME NEW d \in Seq(Nat), NEW r \in Seq(Results)
  PROVE  /\ \A i \in DOMAIN d : d[i] \in Nat
         /\ \A j \in DOMAIN r : r[j].serial \in Nat
<1>1. \A i \in DOMAIN d : d[i] \in Nat
  BY LenProperties, ElementOfSeq
<1>2. \A j \in DOMAIN r : r[j] \in Results
  BY LenProperties, ElementOfSeq
<1> QED BY <1>1, <1>2 DEF Results

\* What is lost from a history or from what waits, and matches that begin,
\* leave the rest in order.
LEMMA ContinuesLess ==
  ASSUME NEW d \in Seq(Nat), NEW r \in Seq(Results), NEW n \in Nat, NEW running \in BOOLEAN,
         Continues(d, r, n, running), NEW d1 \in {d, <<>>}, NEW r1 \in {r, <<>>},
         NEW m \in Nat, m >= n, NEW goes \in BOOLEAN, goes => running \/ m > n
  PROVE  Continues(d1, r1, m, goes)
<1>1. /\ \A i \in DOMAIN d : d[i] \in Nat
      /\ \A j \in DOMAIN r : r[j].serial \in Nat
  BY SerialTypes
<1>2. DOMAIN <<>> = {}
  OBVIOUS
<1>3. \A i, j \in DOMAIN d1 : i < j => d1[i] < d1[j]
  BY <1>2 DEF Continues
<1>4. \A i, j \in DOMAIN r1 : i < j => r1[i].serial < r1[j].serial
  BY <1>2 DEF Continues
<1>5. \A i \in DOMAIN d1, j \in DOMAIN r1 : d1[i] < r1[j].serial
  BY <1>2 DEF Continues
<1>6. \A i \in DOMAIN d1 : d1[i] <= m /\ (goes => d1[i] < m)
  BY <1>1, <1>2 DEF Continues
<1>7. \A j \in DOMAIN r1 : r1[j].serial <= m /\ (goes => r1[j].serial < m)
  BY <1>1, <1>2 DEF Continues
<1> QED BY <1>3, <1>4, <1>5, <1>6, <1>7 DEF Continues

\* The first that waits becomes the last of the history.
LEMMA ContinuesCounted ==
  ASSUME NEW d \in Seq(Nat), NEW r \in Seq(Results), NEW n \in Nat, NEW running \in BOOLEAN,
         Continues(d, r, n, running), r # <<>>
  PROVE  Continues(Append(d, Head(r).serial), Tail(r), n, running)
<1> DEFINE x == Head(r).serial
           e == Append(d, x)
           t == Tail(r)
<1>1. /\ Len(r) \in Nat /\ Len(r) >= 1 /\ DOMAIN r = 1..Len(r) /\ Head(r) = r[1]
      /\ Len(t) = Len(r) - 1 /\ DOMAIN t = 1..Len(t) /\ \A j \in 1..Len(t) : t[j] = r[j + 1]
  BY HeadTailProperties, EmptySeq, LenProperties
<1>2. x \in Nat /\ x = r[1].serial /\ \A j \in DOMAIN r : r[j].serial \in Nat
  BY <1>1, SerialTypes
<1>3. /\ Len(d) \in Nat /\ DOMAIN d = 1..Len(d) /\ \A i \in 1..Len(d) : d[i] \in Nat
      /\ Len(e) = Len(d) + 1 /\ DOMAIN e = 1..Len(e)
      /\ \A i \in 1..Len(d) : e[i] = d[i]
  BY <1>2, AppendProperties, LenProperties, ElementOfSeq
<1>4. e[Len(d) + 1] = x
  BY <1>2, AppendProperties
<1> HIDE DEF x, e, t
<1>5. \A j \in DOMAIN t : j + 1 \in DOMAIN r /\ j + 1 > 1 /\ t[j] = r[j + 1]
  BY <1>1
<1>6. \A i \in DOMAIN e : (i \in DOMAIN d /\ e[i] = d[i]) \/ (i = Len(d) + 1 /\ e[i] = x)
  BY <1>3, <1>4
<1>7. \A i, j \in DOMAIN e : i < j => e[i] < e[j]
  <2> SUFFICES ASSUME NEW i \in DOMAIN e, NEW j \in DOMAIN e, i < j PROVE e[i] < e[j]
    OBVIOUS
  <2>1. i \in DOMAIN d /\ e[i] = d[i]
    BY <1>3
  <2>2. CASE j \in DOMAIN d /\ e[j] = d[j]
    BY <2>1, <2>2 DEF Continues
  <2>3. CASE e[j] = x
    BY <1>1, <1>2, <2>1, <2>3 DEF Continues
  <2> QED BY <1>6, <2>2, <2>3
<1>8. \A i, j \in DOMAIN t : i < j => t[i].serial < t[j].serial
  BY <1>1, <1>5 DEF Continues
<1>9. \A i \in DOMAIN e, j \in DOMAIN t : e[i] < t[j].serial
  <2> SUFFICES ASSUME NEW i \in DOMAIN e, NEW j \in DOMAIN t PROVE e[i] < t[j].serial
    OBVIOUS
  <2>1. CASE i \in DOMAIN d /\ e[i] = d[i]
    BY <1>5, <2>1 DEF Continues
  <2>2. CASE e[i] = x
    <3>1. 1 \in DOMAIN r /\ j + 1 \in DOMAIN r /\ 1 < j + 1
      BY <1>1, <1>5
    <3> QED BY <1>2, <1>5, <2>2, <3>1 DEF Continues
  <2> QED BY <1>6, <2>1, <2>2
<1>10. \A i \in DOMAIN e : e[i] <= n /\ (running => e[i] < n)
  BY <1>1, <1>2, <1>6 DEF Continues
<1>11. \A j \in DOMAIN t : t[j].serial <= n /\ (running => t[j].serial < n)
  BY <1>5 DEF Continues
<1>12. Continues(e, t, n, running)
  BY <1>7, <1>8, <1>9, <1>10, <1>11 DEF Continues
<1> QED BY <1>12 DEF e, t, x

\* The result of a match that was running is behind all others.
LEMMA ContinuesSettled ==
  ASSUME NEW d \in Seq(Nat), NEW r \in Seq(Results), NEW n \in Nat, NEW x \in Results,
         Continues(d, r, n, TRUE), x.serial = n
  PROVE  Continues(d, Append(r, x), n, FALSE)
<1> DEFINE u == Append(r, x)
<1>1. /\ Len(r) \in Nat /\ DOMAIN r = 1..Len(r)
      /\ Len(u) = Len(r) + 1 /\ DOMAIN u = 1..Len(u)
      /\ \A j \in 1..Len(r) : u[j] = r[j]
  BY AppendProperties, LenProperties
<1>2. u[Len(r) + 1] = x
  BY AppendProperties
<1>3. (\A i \in DOMAIN d : d[i] \in Nat) /\ (\A j \in DOMAIN r : r[j].serial \in Nat)
  BY SerialTypes
<1> HIDE DEF u
<1>4. \A j \in DOMAIN u : (j \in DOMAIN r /\ u[j] = r[j]) \/ (j = Len(r) + 1 /\ u[j].serial = n)
  BY <1>1, <1>2
<1>5. \A i, j \in DOMAIN u : i < j => u[i].serial < u[j].serial
  <2> SUFFICES ASSUME NEW i \in DOMAIN u, NEW j \in DOMAIN u, i < j PROVE u[i].serial < u[j].serial
    OBVIOUS
  <2>1. i \in DOMAIN r /\ u[i] = r[i]
    BY <1>1
  <2> QED BY <1>4, <2>1 DEF Continues
<1>6. \A i \in DOMAIN d, j \in DOMAIN u : d[i] < u[j].serial
  BY <1>4 DEF Continues
<1>7. \A i, j \in DOMAIN d : i < j => d[i] < d[j]
  BY DEF Continues
<1>8. \A i \in DOMAIN d : d[i] <= n
  BY DEF Continues
<1>9. \A j \in DOMAIN u : u[j].serial <= n
  BY <1>4 DEF Continues
<1>10. Continues(d, u, n, FALSE)
  BY <1>5, <1>6, <1>7, <1>8, <1>9 DEF Continues
<1> QED BY <1>10 DEF u

\* An attempt, seen by the one it is for.
LEMMA WrittenDoes ==
  ASSUME Docs, NEW p \in Player, NEW new \in Documents, NEW outcome \in Outcomes,
         Writes(p, new, outcome)
  PROVE  /\ outcome = "done" => doc'[p] = new
         /\ outcome # "done" => doc'[p] = doc[p] \/ (doc[p].kind = "corrupt" /\ doc'[p] = Blank)
  BY AttemptDoes DEF Writes

\* Every step keeps the results of a player in order.
LEMMA OnceStep ==
  ASSUME Shape, Shape', Once, [Next]_vars
  PROVE  Once'
<1> SUFFICES ASSUME NEW p \in Player
             PROVE  Continues(doc'[p].results, results'[p], serial',
                              open' /\ ledger'[p].serial # serial')
  BY DEF Once
<1> DEFINE d == doc[p].results
           r == results[p]
           running == open /\ ledger[p].serial # serial
           goes == open' /\ ledger'[p].serial # serial'
<1>1. Continues(d, r, serial, running)
  BY DEF Once
<1>2. d \in Seq(Nat) /\ r \in Seq(Results) /\ serial \in Nat /\ running \in BOOLEAN
  BY DEF Shape, Docs, Documents, Queue, Matches
<1>3. serial' \in Nat /\ goes \in BOOLEAN
  BY DEF Shape, Matches
<1>4. Blank.results = <<>>
  BY DEF Blank
<1>5. StepOf(p)
  BY EveryStep
<1>6. ASSUME doc'[p].results \in {d, <<>>}, results'[p] \in {r, <<>>}, serial' >= serial,
             goes => running \/ serial' > serial
      PROVE  Continues(doc'[p].results, results'[p], serial', goes)
  <2> HIDE DEF d, r, running, goes
  <2> QED BY <1>1, <1>2, <1>3, <1>6, ContinuesLess
<1>7. Existing(p).results \in {d, <<>>}
  BY <1>4 DEF Existing
<1>8. CASE Idles(p)
  BY <1>2, <1>6, <1>8 DEF Idles, Same
<1>9. CASE Starts(p)
  BY <1>2, <1>6, <1>9 DEF Starts, Same
<1>10. CASE Settles(p)
  <2>1. PICK rated \in BOOLEAN :
          /\ Same(p) /\ open /\ ledger[p].serial # serial /\ serial' = serial
          /\ ledger'[p] = [serial |-> serial, rating |-> Rating(p, rated)]
          /\ \/ results'[p] = r
             \/ results'[p] = Append(r, Result(p, rated))
    BY <1>10 DEF Settles
  <2>2. running /\ ~goes /\ doc'[p].results = d
    BY <2>1 DEF Same
  <2>3. CASE results'[p] = r
    BY <1>2, <1>6, <2>1, <2>2, <2>3
  <2>4. CASE results'[p] = Append(r, Result(p, rated))
    <3>1. Result(p, rated) \in Results /\ Result(p, rated).serial = serial
      BY ResultType DEF Shape
    <3>2. running = TRUE /\ goes = FALSE
      BY <2>2
    <3>3. Continues(d, r, serial, TRUE)
      BY <1>1, <3>2
    <3>4. Continues(d, Append(r, Result(p, rated)), serial, FALSE)
      BY <1>2, <3>1, <3>3, ContinuesSettled
    <3> QED BY <2>1, <2>2, <2>4, <3>2, <3>4
  <2> QED BY <2>1, <2>3, <2>4
<1>11. CASE Saves(p)
  <2>1. PICK outcome \in Outcomes : Writes(p, Saved(p), outcome) /\ results'[p] = results[p]
    BY <1>11 DEF Saves
  <2>2. Saved(p) \in Documents /\ Saved(p).results = Existing(p).results
    BY SavedType, ExistingType DEF Shape, Documents
  <2>3. doc'[p].results \in {d, <<>>}
    BY <1>4, <1>7, <2>1, <2>2, WrittenDoes DEF Shape
  <2>4. serial' = serial /\ goes = running
    BY <2>1 DEF Writes
  <2> QED BY <1>2, <1>6, <2>1, <2>3, <2>4
<1>12. CASE Counts(p)
  <2>1. PICK outcome \in Outcomes :
          /\ r # <<>> /\ Writes(p, Counted(p), outcome)
          /\ results'[p] = IF outcome = "done" THEN Tail(r) ELSE r
    BY <1>12 DEF Counts
  <2>2. Counted(p) \in Documents /\ Counted(p).results = Append(Existing(p).results, Head(r).serial)
    BY <2>1, CountedType DEF Shape
  <2>3. serial' = serial /\ goes = running
    BY <2>1 DEF Writes
  <2>4. CASE outcome = "done"
    <3>1. doc'[p].results = Append(Existing(p).results, Head(r).serial) /\ results'[p] = Tail(r)
      BY <2>1, <2>2, <2>4, WrittenDoes DEF Shape
    <3>2. Existing(p).results \in Seq(Nat)
      <4>1. <<>> \in Seq(Nat)
        OBVIOUS
      <4> QED BY <1>2, <1>7, <4>1
    <3>3. Continues(Existing(p).results, r, serial, running)
      <4> HIDE DEF d, r, running
      <4> QED BY <1>1, <1>2, <1>7, ContinuesLess
    <3>4. Continues(Append(Existing(p).results, Head(r).serial), Tail(r), serial, running)
      <4> HIDE DEF d, r, running
      <4> QED BY <1>2, <2>1, <3>2, <3>3, ContinuesCounted
    <3> QED BY <2>3, <3>1, <3>4
  <2>5. CASE outcome # "done"
    <3>1. doc'[p].results \in {d, <<>>}
      BY <1>4, <2>1, <2>2, <2>5, WrittenDoes DEF Shape
    <3> QED BY <1>2, <1>6, <2>1, <2>3, <2>5, <3>1
  <2> QED BY <2>4, <2>5
<1>13. CASE Changes(p)
  BY <1>2, <1>6, <1>13 DEF Changes
<1>14. CASE Forgotten
  <2>1. results'[p] = <<>> /\ doc' = doc /\ serial' = serial /\ ~open'
    BY <1>14 DEF Forgotten
  <2> QED BY <1>2, <1>6, <2>1
<1>15. CASE Suffers(p)
  <2>1. results' = results /\ serial' = serial /\ open' = open /\ ledger' = ledger
    BY <1>15 DEF Suffers, server, match, queue
  <2>2. doc'[p].results \in {d, <<>>}
    <3>1. \A kind : [Blank EXCEPT !.kind = kind].results = <<>>
      BY DEF Blank
    <3>2. \A c : [doc[p] EXCEPT !.config = c].results = d
      BY DEF Shape, Docs, Documents
    <3> QED BY <1>15, <3>1, <3>2 DEF Suffers
  <2> QED BY <1>2, <1>6, <2>1, <2>2
<1> QED BY <1>5, <1>8, <1>9, <1>10, <1>11, <1>12, <1>13, <1>14, <1>15 DEF StepOf

\* It holds at first.
LEMMA OnceInit == Init => Once
  BY DEF Init, Once, Continues, Blank

\* Two rising sequences of which the first ends below the second are one.
LEMMA RisingJoined ==
  ASSUME NEW d \in Seq(Nat), NEW s \in Seq(Nat),
         \A k, l \in 1..Len(d) : k < l => d[k] < d[l],
         \A k, l \in 1..Len(s) : k < l => s[k] < s[l],
         \A k \in 1..Len(d), l \in 1..Len(s) : d[k] < s[l]
  PROVE  \A i, j \in DOMAIN (d \o s) : i < j => (d \o s)[i] < (d \o s)[j]
<1> DEFINE all == d \o s
<1>1. /\ Len(d) \in Nat /\ Len(s) \in Nat /\ DOMAIN all = 1..(Len(d) + Len(s))
      /\ \A k \in 1..(Len(d) + Len(s)) : all[k] = IF k <= Len(d) THEN d[k] ELSE s[k - Len(d)]
  BY ConcatProperties, LenProperties
<1> HIDE DEF all
<1>2. ASSUME NEW i \in 1..(Len(d) + Len(s)), NEW j \in 1..(Len(d) + Len(s)), i < j
      PROVE  all[i] < all[j]
  <2>2. CASE j <= Len(d)
    <3>1. i \in 1..Len(d) /\ j \in 1..Len(d) /\ all[i] = d[i] /\ all[j] = d[j]
      BY <1>1, <1>2, <2>2
    <3> QED BY <1>2, <3>1
  <2>3. CASE i > Len(d)
    <3>1. /\ i - Len(d) \in 1..Len(s) /\ j - Len(d) \in 1..Len(s) /\ i - Len(d) < j - Len(d)
      BY <1>1, <1>2, <2>3
    <3>2. ~(i <= Len(d)) /\ ~(j <= Len(d))
      BY <1>1, <1>2, <2>3
    <3>3. all[i] = s[i - Len(d)] /\ all[j] = s[j - Len(d)]
      BY <1>1, <3>2
    <3> QED BY <3>1, <3>3
  <2>4. CASE i <= Len(d) /\ j > Len(d)
    <3>1. /\ i \in 1..Len(d) /\ j - Len(d) \in 1..Len(s)
          /\ all[i] = d[i] /\ all[j] = s[j - Len(d)]
      BY <1>1, <2>4
    <3> QED BY <3>1
  <2> QED BY <1>1, <1>2, <2>2, <2>3, <2>4
<1> QED BY <1>1, <1>2 DEF all

\* So the history and what waits are one sequence in order.
LEMMA OnceMeans ==
  ASSUME Shape, Once
  PROVE  CountedOnce
<1> SUFFICES ASSUME NEW p \in Player
             PROVE  LET all == doc[p].results \o Serials(p) IN
                    \A i, j \in DOMAIN all : i < j => all[i] < all[j]
  BY DEF CountedOnce
<1> DEFINE d == doc[p].results
           r == results[p]
           s == Serials(p)
<1>1. d \in Seq(Nat) /\ r \in Seq(Results)
  BY DEF Shape, Docs, Documents, Queue
<1>2. /\ \A k, l \in DOMAIN d : k < l => d[k] < d[l]
      /\ \A k, l \in DOMAIN r : k < l => r[k].serial < r[l].serial
      /\ \A k \in DOMAIN d, l \in DOMAIN r : d[k] < r[l].serial
  BY DEF Once, Continues
<1>3. s = [k \in DOMAIN r |-> r[k].serial]
  BY DEF Serials
<1> HIDE DEF d, r, s
<1>4. Len(r) \in Nat /\ DOMAIN r = 1..Len(r) /\ \A k \in DOMAIN r : r[k].serial \in Nat
  BY <1>1, LenProperties, SerialTypes
<1>5. s \in Seq(Nat) /\ Len(s) = Len(r) /\ DOMAIN s = 1..Len(r)
  BY <1>3, <1>4
<1>6. DOMAIN d = 1..Len(d)
  BY <1>1, LenProperties
<1>7. /\ \A k, l \in 1..Len(s) : k < l => s[k] < s[l]
      /\ \A k \in 1..Len(d), l \in 1..Len(s) : d[k] < s[l]
  BY <1>2, <1>3, <1>4, <1>5, <1>6
<1>8. \A i, j \in DOMAIN (d \o s) : i < j => (d \o s)[i] < (d \o s)[j]
  BY <1>1, <1>2, <1>5, <1>6, <1>7, RisingJoined
<1> QED BY <1>8 DEF d, s

(***************************************************************************)
(* What has been chosen.                                                   *)
(***************************************************************************)
\* What a document holds of the choices after a save or a count.
LEMMA WrittenChoice ==
  ASSUME Shape, NEW p \in Player, NEW f \in Field, chosen[p][f] # Unset,
         f \in dirty[p] => cached[p][f] = chosen[p][f],
         \/ f \in dirty[p]
         \/ doc[p].kind = "ok" /\ doc[p].config[f] = chosen[p][f]
  PROVE  /\ Saved(p).kind = "ok" /\ Saved(p).config[f] = chosen[p][f]
         /\ results[p] # <<>> => Counted(p).kind = "ok" /\ Counted(p).config[f] = chosen[p][f]
<1>1. Saved(p).kind = "ok" /\ Saved(p).config[f] = chosen[p][f]
  <2> DEFINE c == Merge(Existing(p).config, cached[p], MergeMask(p))
  <2>1. /\ Saved(p).kind = "ok" /\ Existing(p) \in Documents
        /\ Saved(p) = [Existing(p) EXCEPT !.config = c]
    BY SavedType, ExistingType DEF Shape
  <2>2. doc[p].kind = "ok" => Existing(p).config = doc[p].config
    BY DEF Existing
  <2>3. f \in dirty[p] => f \in MergeMask(p)
    BY DEF MergeMask
  <2>4. doc[p].kind = "ok" => MergeMask(p) = dirty[p]
    BY DEF MergeMask
  <2>5. c[f] = IF f \in MergeMask(p) THEN cached[p][f] ELSE Existing(p).config[f]
    BY DEF Merge
  <2>6. c[f] = chosen[p][f]
    BY <2>2, <2>3, <2>4, <2>5
  <2> HIDE DEF c
  <2>7. Saved(p).config = c
    BY <2>1 DEF Documents
  <2> QED BY <2>1, <2>6, <2>7
<1>2. ASSUME results[p] # <<>>
      PROVE  Counted(p).kind = "ok" /\ Counted(p).config[f] = chosen[p][f]
  <2>1. /\ Counted(p).kind = "ok"
        /\ doc[p].kind = "ok" => Counted(p).config = Merge(doc[p].config, cached[p], dirty[p])
        /\ f \in dirty[p] => Counted(p).config[f] = cached[p][f]
    BY <1>2, CountedType DEF Shape
  <2>2. f \notin dirty[p] => Merge(doc[p].config, cached[p], dirty[p])[f] = doc[p].config[f]
    BY DEF Merge
  <2> QED BY <2>1, <2>2
<1> QED BY <1>1, <1>2

\* Every step keeps the choices.
LEMMA ChoiceStep ==
  ASSUME Shape, ChoiceKept, ChoiceWaits, [Next]_vars
  PROVE  ChoiceKept' /\ ChoiceWaits'
<1> SUFFICES ASSUME NEW p \in Player, NEW f \in Field
             PROVE  /\ chosen'[p][f] # Unset =>
                         /\ \/ f \in dirty'[p] /\ cached'[p][f] = chosen'[p][f]
                            \/ doc'[p].kind = "ok" /\ doc'[p].config[f] = chosen'[p][f]
                         /\ sess'[p].ready => sess'[p].config[f] = chosen'[p][f]
                    /\ f \in dirty'[p] /\ chosen'[p][f] # Unset => cached'[p][f] = chosen'[p][f]
  BY DEF ChoiceKept, ChoiceWaits
<1> SUFFICES ASSUME chosen'[p][f] # Unset
             PROVE  /\ \/ f \in dirty'[p]
                       \/ doc'[p].kind = "ok" /\ doc'[p].config[f] = chosen'[p][f]
                    /\ f \in dirty'[p] => cached'[p][f] = chosen'[p][f]
                    /\ sess'[p].ready => sess'[p].config[f] = chosen'[p][f]
  OBVIOUS
<1>1. chosen[p][f] # Unset =>
        /\ \/ f \in dirty[p]
           \/ doc[p].kind = "ok" /\ doc[p].config[f] = chosen[p][f]
        /\ f \in dirty[p] => cached[p][f] = chosen[p][f]
        /\ sess[p].ready => sess[p].config[f] = chosen[p][f]
  BY DEF ChoiceKept, ChoiceWaits
<1>2. StepOf(p)
  BY EveryStep
<1>3. /\ sess[p] \in Sessions /\ doc[p] \in Documents /\ cached[p] \in Config
      /\ dirty[p] \subseteq Field /\ chosen[p] \in [Field -> Value \union {Unset}]
  BY DEF Shape, Sess, Docs, Prefs, Rest
<1>4. ~Gone.ready /\ Blank.kind = "missing"
  BY DEF Gone, Fresh, Blank
<1>5. Sits(p) => /\ sess'[p].ready => sess[p].ready
                 /\ sess'[p].ready => sess'[p].config = sess[p].config
  BY <1>3, <1>4 DEF Sits, Sessions
<1>6. CASE Idles(p)
  BY <1>1, <1>5, <1>6 DEF Idles, Same
<1>7. CASE Starts(p)
  BY <1>1, <1>7 DEF Starts, Same
<1>8. CASE Settles(p)
  <2>1. /\ Same(p) /\ chosen'[p] = chosen[p]
        /\ \/ sess'[p] = Gone
           \/ sess'[p].config = sess[p].config /\ sess'[p].ready = sess[p].ready
    BY <1>8 DEF Settles
  <2> QED BY <1>1, <1>4, <2>1 DEF Same
<1>9. ASSUME NEW new \in Documents, NEW outcome \in Outcomes, Writes(p, new, outcome),
             chosen[p][f] # Unset => new.kind = "ok" /\ new.config[f] = chosen[p][f]
      PROVE  /\ chosen'[p] = chosen[p]
             /\ \/ f \in dirty'[p]
                \/ doc'[p].kind = "ok" /\ doc'[p].config[f] = chosen'[p][f]
             /\ f \in dirty'[p] => cached'[p][f] = chosen'[p][f]
  <2>1. /\ outcome = "done" => doc'[p] = new
        /\ outcome # "done" => doc'[p] = doc[p] \/ (doc[p].kind = "corrupt" /\ doc'[p] = Blank)
    BY <1>9, WrittenDoes DEF Shape
  <2>2. /\ chosen'[p] = chosen[p] /\ outcome = "done" => dirty'[p] = {}
        /\ outcome # "done" => dirty'[p] = dirty[p] /\ cached'[p] = cached[p]
    BY <1>9 DEF Writes
  <2>3. chosen'[p] = chosen[p]
    BY <1>9 DEF Writes
  <2> QED BY <1>1, <1>9, <2>1, <2>2, <2>3
<1>10. CASE Saves(p)
  <2>1. PICK outcome \in Outcomes :
          /\ Writes(p, Saved(p), outcome)
          /\ \/ sess'[p] = sess[p]
             \/ sess'[p].ready => outcome = "done" /\ sess'[p].config = Saved(p).config
    BY <1>10 DEF Saves
  <2>2. Saved(p) \in Documents
    BY SavedType DEF Shape
  <2>3. chosen[p][f] # Unset => Saved(p).kind = "ok" /\ Saved(p).config[f] = chosen[p][f]
    BY <1>1, WrittenChoice
  <2>4. /\ chosen'[p] = chosen[p]
        /\ \/ f \in dirty'[p]
           \/ doc'[p].kind = "ok" /\ doc'[p].config[f] = chosen'[p][f]
        /\ f \in dirty'[p] => cached'[p][f] = chosen'[p][f]
    BY <1>9, <2>1, <2>2, <2>3
  <2>5. sess'[p].ready => sess'[p].config[f] = chosen'[p][f]
    BY <1>1, <2>1, <2>3, <2>4
  <2> QED BY <2>4, <2>5
<1>11. CASE Counts(p)
  <2>1. PICK outcome \in Outcomes :
          results[p] # <<>> /\ Writes(p, Counted(p), outcome) /\ sess'[p] = sess[p]
    BY <1>11 DEF Counts
  <2>2. Counted(p) \in Documents
    BY <2>1, CountedType DEF Shape
  <2>3. chosen[p][f] # Unset => Counted(p).kind = "ok" /\ Counted(p).config[f] = chosen[p][f]
    BY <1>1, <2>1, WrittenChoice
  <2>4. /\ chosen'[p] = chosen[p]
        /\ \/ f \in dirty'[p]
           \/ doc'[p].kind = "ok" /\ doc'[p].config[f] = chosen'[p][f]
        /\ f \in dirty'[p] => cached'[p][f] = chosen'[p][f]
    BY <1>9, <2>1, <2>2, <2>3
  <2> QED BY <1>1, <2>1, <2>4
<1>12. CASE Changes(p)
  <2>1. PICK g \in Field, v \in Value, accepted \in BOOLEAN :
          /\ doc'[p] = doc[p] /\ (accepted => sess[p].ready)
          /\ sess'[p] = [sess[p] EXCEPT !.config = [sess[p].config EXCEPT ![g] = v]]
          /\ chosen'[p] = [chosen[p] EXCEPT ![g] = IF accepted THEN v ELSE Unset]
          /\ accepted => /\ dirty'[p] = dirty[p] \union {g}
                         /\ cached'[p] = [sess[p].config EXCEPT ![g] = v]
          /\ ~accepted => dirty'[p] = dirty[p] /\ cached'[p] = cached[p]
    BY <1>12 DEF Changes
  <2>2. /\ sess'[p].ready = sess[p].ready
        /\ sess'[p].config = [sess[p].config EXCEPT ![g] = v]
    BY <1>3, <2>1 DEF Sessions
  <2>3. sess[p].config \in Config
    BY <1>3 DEF Sessions
  <2>4. CASE f = g
    <3>1. chosen'[p][f] = IF accepted THEN v ELSE Unset
      BY <1>3, <2>1, <2>4
    <3>2. [sess[p].config EXCEPT ![g] = v][f] = v
      BY <2>3, <2>4 DEF Config
    <3> QED BY <2>1, <2>2, <2>4, <3>1, <3>2
  <2>5. CASE f # g
    <3>1. chosen'[p][f] = chosen[p][f]
      BY <1>3, <2>1, <2>5
    <3>2. [sess[p].config EXCEPT ![g] = v][f] = sess[p].config[f]
      BY <2>3, <2>5 DEF Config
    <3> QED BY <1>1, <2>1, <2>2, <2>5, <3>1, <3>2
  <2> QED BY <2>4, <2>5
<1>13. CASE Forgotten
  <2>1. /\ doc' = doc /\ dirty'[p] = {} /\ sess'[p] = Gone
        /\ chosen'[p][f] = IF f \in dirty[p] THEN Unset ELSE chosen[p][f]
    BY <1>13 DEF Forgotten
  <2> QED BY <1>1, <1>4, <2>1
<1>14. CASE Suffers(p)
  <2>1. sess' = sess /\ dirty' = dirty /\ cached' = cached
    BY <1>14 DEF Suffers, server, prefs
  <2>2. CASE doc'[p] = doc[p] /\ chosen'[p] = chosen[p]
    BY <1>1, <2>1, <2>2
  <2>3. ASSUME NEW g \in Field, NEW v \in Value,
               doc'[p] = [doc[p] EXCEPT !.config = [doc[p].config EXCEPT ![g] = v]],
               chosen'[p] = [chosen[p] EXCEPT ![g] = Unset]
        PROVE  /\ \/ f \in dirty'[p]
                  \/ doc'[p].kind = "ok" /\ doc'[p].config[f] = chosen'[p][f]
               /\ f \in dirty'[p] => cached'[p][f] = chosen'[p][f]
               /\ sess'[p].ready => sess'[p].config[f] = chosen'[p][f]
    <3>1. f # g /\ chosen'[p][f] = chosen[p][f]
      BY <1>3, <2>3
    <3>2. doc'[p].kind = doc[p].kind /\ doc'[p].config = [doc[p].config EXCEPT ![g] = v]
      BY <1>3, <2>3 DEF Documents
    <3>3. [doc[p].config EXCEPT ![g] = v][f] = doc[p].config[f]
      BY <1>3, <3>1 DEF Documents, Config
    <3> QED BY <1>1, <2>1, <3>1, <3>2, <3>3
  <2>4. ASSUME NEW kind,
               doc'[p] = [Blank EXCEPT !.kind = kind],
               chosen'[p] = [g \in Field |-> IF g \in dirty[p] THEN chosen[p][g] ELSE Unset]
        PROVE  /\ f \in dirty'[p] /\ cached'[p][f] = chosen'[p][f]
               /\ sess'[p].ready => sess'[p].config[f] = chosen'[p][f]
    <3>1. f \in dirty[p] /\ chosen'[p][f] = chosen[p][f]
      BY <2>4
    <3> QED BY <1>1, <2>1, <3>1
  <2> QED BY <1>14, <2>2, <2>3, <2>4 DEF Suffers
<1> QED BY <1>2, <1>6, <1>7, <1>8, <1>10, <1>11, <1>12, <1>13, <1>14 DEF StepOf

\* They hold at first: nothing has been chosen.
LEMMA ChoiceInit == Init => ChoiceKept /\ ChoiceWaits
<1>1. ASSUME Init, NEW p \in Player, NEW f \in Field PROVE chosen[p][f] = Unset
  BY <1>1 DEF Init
<1> QED BY <1>1 DEF ChoiceKept, ChoiceWaits

(***************************************************************************)
(* The rating a player sees.                                               *)
(***************************************************************************)
\* Every step keeps the last settlement in sight.
LEMMA LastSettlementStep ==
  ASSUME Shape, LastSettlementShown, [Next]_vars
  PROVE  LastSettlementShown'
<1> SUFFICES ASSUME NEW p \in Player, sess'[p].conn # "out",
                    NEW i \in DOMAIN results'[p], results'[p][i].serial = ledger'[p].serial
             PROVE  sess'[p].rating >= ledger'[p].rating
  BY DEF LastSettlementShown, ExactPending
<1>1. ASSUME sess[p].conn # "out", ExactPending(p) PROVE sess[p].rating >= ledger[p].rating
  BY <1>1 DEF LastSettlementShown
<1>2. StepOf(p)
  BY EveryStep
<1>3. /\ sess[p] \in Sessions /\ sess[p].rating \in Nat /\ ledger[p].rating \in Nat
      /\ results[p] \in Seq(Results)
  BY DEF Shape, Sess, Sessions, Matches, Queue
<1>4. Gone.conn = "out"
  BY DEF Gone, Fresh
<1>5. results'[p] = results[p] /\ ledger'[p] = ledger[p] => ExactPending(p)
  BY DEF ExactPending
<1>6. CASE Idles(p)
  <2>1. sess'[p].rating = sess[p].rating /\ sess[p].conn # "out"
    BY <1>3, <1>4, <1>6 DEF Idles, Sits, Sessions
  <2> QED BY <1>1, <1>5, <1>6, <2>1 DEF Idles
<1>7. CASE Starts(p)
  <2>1. results[p] # <<>>
    BY <1>7 DEF Starts
  <2> QED BY <1>1, <1>5, <1>7, <2>1 DEF Starts
<1>8. CASE Settles(p)
  <2>1. PICK rated \in BOOLEAN :
          /\ ledger'[p] = [serial |-> serial, rating |-> Rating(p, rated)]
          /\ sess'[p] = Gone \/ sess'[p].rating = Rating(p, rated)
    BY <1>8 DEF Settles
  <2>2. Rating(p, rated) \in Nat
    BY ResultType DEF Shape
  <2> QED BY <1>4, <2>1, <2>2
<1>9. CASE Saves(p)
  <2>1. /\ results'[p] = results[p] /\ ledger'[p] = ledger[p]
        /\ \/ sess'[p] = sess[p]
           \/ ExactPending(p) => sess'[p].rating = ledger[p].rating
    BY <1>9 DEF Saves, Writes
  <2> QED BY <1>1, <1>3, <1>5, <2>1
<1>10. CASE Counts(p)
  <2>1. PICK outcome \in Outcomes :
          /\ results[p] # <<>> /\ ledger'[p] = ledger[p] /\ sess'[p] = sess[p]
          /\ results'[p] = IF outcome = "done" THEN Tail(results[p]) ELSE results[p]
    BY <1>10 DEF Counts, Writes
  <2>2. CASE outcome = "done"
    <3>1. /\ Len(results[p]) \in Nat /\ DOMAIN results[p] = 1..Len(results[p])
          /\ DOMAIN Tail(results[p]) = 1..(Len(results[p]) - 1)
          /\ \A j \in 1..(Len(results[p]) - 1) : Tail(results[p])[j] = results[p][j + 1]
      BY <1>3, <2>1, HeadTailProperties, LenProperties
    <3>2. i \in 1..(Len(results[p]) - 1)
      BY <2>1, <2>2, <3>1
    <3>3. i + 1 \in DOMAIN results[p] /\ results'[p][i] = results[p][i + 1]
      BY <2>1, <2>2, <3>1, <3>2
    <3>4. ExactPending(p)
      BY <2>1, <3>3 DEF ExactPending
    <3> QED BY <1>1, <2>1, <3>4
  <2>3. CASE outcome # "done"
    BY <1>1, <1>5, <2>1, <2>3
  <2> QED BY <2>2, <2>3
<1>11. CASE Changes(p)
  <2>1. PICK c :
          /\ results'[p] = results[p] /\ ledger'[p] = ledger[p]
          /\ sess'[p] = [sess[p] EXCEPT !.config = c]
    BY <1>11 DEF Changes
  <2>2. sess'[p].conn = sess[p].conn /\ sess'[p].rating = sess[p].rating
    BY <1>3, <2>1 DEF Sessions
  <2> QED BY <1>1, <1>5, <2>1, <2>2
<1>12. CASE Forgotten
  BY <1>4, <1>12 DEF Forgotten
<1>13. CASE Suffers(p)
  BY <1>1, <1>5, <1>13 DEF Suffers, server, match, queue
<1> QED BY <1>2, <1>6, <1>7, <1>8, <1>9, <1>10, <1>11, <1>12, <1>13 DEF StepOf

\* It holds at first: nothing waits.
LEMMA LastSettlementInit == Init => LastSettlementShown
<1>1. ASSUME Init, NEW p \in Player PROVE results[p] = <<>>
  BY <1>1 DEF Init
<1> QED BY <1>1 DEF LastSettlementShown, ExactPending

(***************************************************************************)
(* What a step may not do.                                                 *)
(***************************************************************************)
\* A result that waits goes on waiting, is counted, or the process ends.
LEMMA ResultStep ==
  ASSUME Shape, [Next]_vars, NEW p \in Player, NEW i \in DOMAIN results[p]
  PROVE  LET r == results[p][i] IN
         \/ phase' = "down"
         \/ \E j \in DOMAIN results'[p] : results'[p][j] = r
         \/ /\ doc'[p].kind = "ok" /\ doc'[p].rating = r.rating
            /\ \E j \in DOMAIN doc'[p].results : doc'[p].results[j] = r.serial
<1> DEFINE r == results[p][i]
<1>1. StepOf(p)
  BY EveryStep
<1>2. /\ results[p] \in Seq(Results) /\ Len(results[p]) \in Nat
      /\ DOMAIN results[p] = 1..Len(results[p])
  BY LenProperties DEF Shape, Queue
<1>3. CASE results'[p] = results[p]
  BY <1>3
<1>4. ASSUME NEW x \in Results, results'[p] = Append(results[p], x)
      PROVE  \E j \in DOMAIN results'[p] : results'[p][j] = r
  <2>1. i \in DOMAIN Append(results[p], x) /\ Append(results[p], x)[i] = results[p][i]
    BY <1>2, AppendProperties
  <2> QED BY <1>4, <2>1
<1>5. CASE Settles(p)
  <2>1. PICK rated \in BOOLEAN : \/ results'[p] = results[p]
                                 \/ results'[p] = Append(results[p], Result(p, rated))
    BY <1>5 DEF Settles
  <2>2. Result(p, rated) \in Results
    BY ResultType DEF Shape
  <2> QED BY <1>3, <1>4, <2>1, <2>2
<1>6. CASE Counts(p)
  <2>1. PICK outcome \in Outcomes :
          /\ results[p] # <<>> /\ Writes(p, Counted(p), outcome)
          /\ results'[p] = IF outcome = "done" THEN Tail(results[p]) ELSE results[p]
    BY <1>6 DEF Counts
  <2>2. CASE outcome = "done" /\ i = 1
    <3>1. /\ Counted(p) \in Documents /\ Counted(p).kind = "ok"
          /\ Counted(p).rating = Head(results[p]).rating
          /\ Counted(p).results = Append(Existing(p).results, Head(results[p]).serial)
      BY <2>1, CountedType DEF Shape
    <3>2. doc'[p] = Counted(p)
      BY <2>1, <2>2, <3>1, WrittenDoes DEF Shape
    <3>3. Head(results[p]) = r /\ r \in Results
      BY <1>2, <2>1, <2>2, HeadTailProperties
    <3>4. Existing(p).results \in Seq(Nat) /\ r.serial \in Nat
      BY <3>3, ExistingType DEF Documents, Results, Shape
    <3> DEFINE d == Existing(p).results
    <3>5. /\ Len(d) + 1 \in DOMAIN Append(d, r.serial)
          /\ Append(d, r.serial)[Len(d) + 1] = r.serial
      <4> HIDE DEF d, r
      <4>1. d \in Seq(Nat) /\ r.serial \in Nat
        BY <3>4 DEF d, r
      <4>2. Len(d) \in Nat
        BY <4>1, LenProperties
      <4> QED BY <4>1, <4>2, AppendProperties
    <3> QED BY <3>1, <3>2, <3>3, <3>5
  <2>3. CASE outcome = "done" /\ i # 1
    <3>1. /\ DOMAIN Tail(results[p]) = 1..(Len(results[p]) - 1)
          /\ \A j \in 1..(Len(results[p]) - 1) : Tail(results[p])[j] = results[p][j + 1]
      BY <1>2, <2>1, HeadTailProperties, LenProperties
    <3>2. i - 1 \in 1..(Len(results[p]) - 1) /\ (i - 1) + 1 = i
      BY <1>2, <2>3
    <3> QED BY <2>1, <2>3, <3>1, <3>2
  <2>4. CASE outcome # "done"
    BY <1>3, <2>1, <2>4
  <2> QED BY <2>2, <2>3, <2>4
<1>7. CASE Forgotten
  BY <1>7 DEF Forgotten
<1>8. CASE Idles(p) \/ Starts(p) \/ Saves(p) \/ Changes(p)
  BY <1>3, <1>8 DEF Idles, Starts, Saves, Changes
<1>9. CASE Suffers(p)
  BY <1>3, <1>9 DEF Suffers, server, queue
<1> QED BY <1>1, <1>5, <1>6, <1>7, <1>8, <1>9 DEF StepOf

\* A field of a document changes here only to what its owner chose here.
LEMMA OthersStep ==
  ASSUME Shape, [Next]_vars, NEW p \in Player, NEW f \in Field,
         doc[p].kind = "ok", doc'[p].kind = "ok",
         doc'[p].config[f] # doc[p].config[f], server' # server
  PROVE  f \in dirty[p] /\ doc'[p].config[f] = cached[p][f]
<1>1. StepOf(p)
  BY EveryStep
<1>2. doc'[p] # doc[p]
  OBVIOUS
<1>3. ASSUME NEW new \in Documents, NEW outcome \in Outcomes, Writes(p, new, outcome)
      PROVE  doc'[p] = new
  BY <1>2, <1>3, WrittenDoes DEF Shape
<1>4. CASE Saves(p)
  <2>1. PICK outcome \in Outcomes : Writes(p, Saved(p), outcome)
    BY <1>4 DEF Saves
  <2>2. Saved(p) \in Documents /\ doc[p] \in Documents
        /\ Saved(p) = [Existing(p) EXCEPT !.config =
                         Merge(Existing(p).config, cached[p], MergeMask(p))]
    BY SavedType DEF Shape, Docs
  <2>3. Existing(p) = doc[p] /\ MergeMask(p) = dirty[p]
    BY DEF Existing, MergeMask
  <2>4. doc'[p] = Saved(p)
    BY <1>3, <2>1, <2>2
  <2>5. doc'[p].config = Merge(doc[p].config, cached[p], dirty[p])
    BY <2>2, <2>3, <2>4 DEF Documents
  <2> QED BY <2>5 DEF Merge
<1>5. CASE Counts(p)
  <2>1. PICK outcome \in Outcomes : results[p] # <<>> /\ Writes(p, Counted(p), outcome)
    BY <1>5 DEF Counts
  <2>2. Counted(p) \in Documents /\ Counted(p).config = Merge(doc[p].config, cached[p], dirty[p])
    BY <2>1, CountedType DEF Shape
  <2>3. doc'[p] = Counted(p)
    BY <1>3, <2>1, <2>2
  <2> QED BY <2>2, <2>3 DEF Merge
<1>6. CASE Idles(p) \/ Starts(p) \/ Settles(p) \/ Changes(p)
  BY <1>2, <1>6 DEF Idles, Starts, Settles, Changes, Same
<1>7. CASE Forgotten
  BY <1>2, <1>7 DEF Forgotten
<1>8. CASE Suffers(p)
  BY <1>8 DEF Suffers
<1> QED BY <1>1, <1>4, <1>5, <1>6, <1>7, <1>8 DEF StepOf

(***************************************************************************)
(* The theorems.                                                           *)
(***************************************************************************)
\* What is proved to hold in every state.
IInv == Shape /\ Once /\ ChoiceKept /\ ChoiceWaits /\ LastSettlementShown

\* It is an invariant, for any players, preferences and limits.
THEOREM Invariance == Spec => []IInv
<1>1. Init => IInv
  BY ShapeInit, OnceInit, ChoiceInit, LastSettlementInit DEF IInv
<1>2. IInv /\ [Next]_vars => IInv'
  <2> SUFFICES ASSUME IInv, [Next]_vars PROVE IInv'
    OBVIOUS
  <2>1. Shape'
    BY ShapeStep DEF IInv
  <2> QED BY <2>1, OnceStep, ChoiceStep, LastSettlementStep DEF IInv
<1> QED BY <1>1, <1>2, PTL DEF Spec

\* However often the write of a result is retried, its match is counted once,
\* and the matches are counted in their order.
THEOREM ResultsCountOnce == Spec => []CountedOnce
<1>1. IInv => CountedOnce
  BY OnceMeans DEF IInv
<1> QED BY <1>1, Invariance, PTL

\* An accepted choice waits or is saved, and the session shows it.
THEOREM ChoicesSurvive == Spec => []ChoiceKept
<1>1. IInv => ChoiceKept
  BY DEF IInv
<1> QED BY <1>1, Invariance, PTL

\* A stale profile does not roll back a settlement that waits to be written.
THEOREM LastSettlementStays == Spec => []LastSettlementShown
<1>1. IInv => LastSettlementShown
  BY DEF IInv
<1> QED BY <1>1, Invariance, PTL

\* A result leaves the queue only for the document or with the process.
THEOREM ResultsAreKept == Spec => ResultKept
<1>1. Shape /\ [Next]_vars =>
        [\A p \in Player : \A i \in DOMAIN Serials(p) :
           LET r == results[p][i] IN
           \/ phase' = "down"
           \/ \E j \in DOMAIN results'[p] : results'[p][j] = r
           \/ /\ doc'[p].kind = "ok" /\ doc'[p].rating = r.rating
              /\ \E j \in DOMAIN doc'[p].results : doc'[p].results[j] = r.serial]_vars
  <2>1. \A p : DOMAIN Serials(p) = DOMAIN results[p]
    BY DEF Serials
  <2> QED BY <2>1, ResultStep
<1> QED BY <1>1, ShapeAlways, PTL DEF Spec, ResultKept

\* What others wrote into a document is changed here only where its owner
\* chose something here.
THEOREM OthersAreKept == Spec => OthersKept
<1>1. Shape /\ [Next]_vars =>
        [\A p \in Player, f \in Field :
           (/\ doc[p].kind = "ok" /\ doc'[p].kind = "ok"
            /\ doc'[p].config[f] # doc[p].config[f]
            /\ server' # server)
           => f \in dirty[p] /\ doc'[p].config[f] = cached[p][f]]_vars
  BY OthersStep
<1> QED BY <1>1, ShapeAlways, PTL DEF Spec, OthersKept

=============================================================================
