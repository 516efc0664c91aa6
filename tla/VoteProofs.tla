----------------------------- MODULE VoteProofs -----------------------------
(* Theorems about Vote, for all sets of clients and all its constants.     *)
EXTENDS VoteProps, FiniteSetTheorems, TLAPS

-----------------------------------------------------------------------------
(* The inductive invariant.                                                 *)

\* CountedAnswersAreCurrent for all who are there: who cannot vote now may
\* be able to by the next count.
AnswersAreCurrent ==
  vote.state = "ACTIVE" =>
    \A c \in Clients :
      client[c].here => client[c].retained \/ client[c].voted \in {0, cast[c]}

\* FailedHadNoEffect, of every state but the one after an execution.
EffectIsComplete == vote.state # "COMPLETE" => effects = 0

IndInv == TypeOK /\ CallerStays /\ AnswersAreCurrent /\ EffectIsComplete

-----------------------------------------------------------------------------
(* The operators.                                                           *)

\* A transition of the vote either is not valid and changes nothing, or
\* enters its target with that state's entry action.
LEMMA TransitionFacts ==
  ASSUME NEW v \in VoteState, NEW to \in States
  PROVE  /\ TransitionVoteState(v, to) \in VoteState
         /\ to \notin ValidTransitions[v.state] => TransitionVoteState(v, to) = v
         /\ to \in ValidTransitions[v.state] =>
              /\ TransitionVoteState(v, to).state = to
              /\ to \notin {"IDLE", "FAILED"} =>
                   TransitionVoteState(v, to).caller = v.caller
              /\ to # "IDLE" => TransitionVoteState(v, to).command = v.command
              /\ to # "IDLE" => TransitionVoteState(v, to).age = v.age
  <1>. DEFINE valid == to \in ValidTransitions[v.state]
              u == TransitionVoteState(v, to)
  <1>1. NoVote \in VoteState
    BY NumbersAssumption DEF NoVote, VoteState, States
  <1>2. ExecuteFrames \in 0..ExecuteFrames
    BY NumbersAssumption
  <1>3. ~valid => u = v
    BY DEF TransitionVoteState
  <1>4. valid /\ to = "IDLE" => u = NoVote
    BY DEF TransitionVoteState
  <1>5. valid /\ to = "PASSED" => u = [v EXCEPT !.state = to, !.due = ExecuteFrames]
    BY DEF TransitionVoteState
  <1>6. valid /\ to = "FAILED" => u = [v EXCEPT !.state = to, !.caller = NoClient]
    BY DEF TransitionVoteState
  <1>7. valid /\ to \notin {"IDLE", "PASSED", "FAILED"} => u = [v EXCEPT !.state = to]
    BY DEF TransitionVoteState
  <1>. HIDE DEF valid, u
  <1>8. /\ u \in VoteState
        /\ ~valid => u = v
        /\ valid =>
             /\ u.state = to
             /\ to \notin {"IDLE", "FAILED"} => u.caller = v.caller
             /\ to # "IDLE" => u.command = v.command
             /\ to # "IDLE" => u.age = v.age
    <2>1. CASE ~valid
      BY <2>1, <1>3
    <2>2. CASE valid /\ to = "IDLE"
      BY <2>2, <1>1, <1>4 DEF NoVote
    <2>3. CASE valid /\ to = "PASSED"
      BY <2>3, <1>2, <1>5 DEF VoteState
    <2>4. CASE valid /\ to = "FAILED"
      BY <2>4, <1>6 DEF VoteState
    <2>5. CASE valid /\ to \notin {"IDLE", "PASSED", "FAILED"}
      BY <2>5, <1>7 DEF VoteState
    <2>. QED BY <2>1, <2>2, <2>3, <2>4, <2>5
  <1>. QED BY <1>8 DEF valid, u

\* Which transitions there are.
LEMMA Transitions ==
  /\ ValidTransitions["IDLE"] = {"ACTIVE"}
  /\ ValidTransitions["ACTIVE"] = {"PASSED", "FAILED"}
  /\ ValidTransitions["PASSED"] = {"EXECUTING", "FAILED"}
  /\ ValidTransitions["EXECUTING"] = {"COMPLETE", "FAILED"}
  /\ ValidTransitions["FAILED"] = {"IDLE"}
  /\ ValidTransitions["COMPLETE"] = {"IDLE"}
  BY DEF ValidTransitions

\* The clients a count looks at are finitely many.
LEMMA EligibleFinite ==
  ASSUME NEW cl
  PROVE  /\ IsFiniteSet(Eligible(cl))
         /\ Cardinality(Eligible(cl)) \in Nat
         /\ \A S \in SUBSET Eligible(cl) :
              /\ IsFiniteSet(S) /\ Cardinality(S) \in Nat
              /\ Cardinality(S) <= Cardinality(Eligible(cl))
  <1>1. Eligible(cl) \subseteq Humans
    BY DEF Eligible
  <1>2. IsFiniteSet(Eligible(cl))
    BY <1>1, ClientsAssumption, FS_Subset
  <1>. QED
    BY <1>2, FS_Subset, FS_CardinalityType

\* What a count decides: to pass by a majority of the eligible, to fail by
\* half of them, and otherwise nothing.
LEMMA CountDecides ==
  ASSUME NEW v \in VoteState, NEW cl, v.state = "ACTIVE"
  PROVE  LET u == Count(v, cl)
             eligible == Cardinality(Eligible(cl))
         IN /\ u \in VoteState
            /\ \/ u = v
               \/ /\ u.state = "PASSED" /\ u.caller = v.caller
                  /\ u.command = v.command
                  /\ 2 * Cardinality(Voting(cl, 1)) > eligible
               \/ /\ u.state = "FAILED" /\ eligible # 0
                  /\ 2 * Cardinality(Voting(cl, -1)) >= eligible
  <1>. DEFINE e == Cardinality(Eligible(cl))
              y == Cardinality(Voting(cl, 1))
              n == Cardinality(Voting(cl, -1))
  <1>1. e \in Nat /\ y \in Nat /\ n \in Nat
    BY EligibleFinite DEF Voting
  <1>2. Passes(y, e) => 2 * y > e
    BY <1>1 DEF Passes
  <1>3. Fails(n, e) => 2 * n >= e
    BY <1>1 DEF Fails
  <1>4. {"PASSED", "FAILED"} \subseteq States
        /\ {"PASSED", "FAILED"} \subseteq ValidTransitions[v.state]
    BY Transitions DEF States
  <1>5. \/ Count(v, cl) = v
        \/ Count(v, cl) = TransitionVoteState(v, "PASSED") /\ Passes(y, e)
        \/ Count(v, cl) = TransitionVoteState(v, "FAILED") /\ e # 0 /\ Fails(n, e)
    BY DEF Count
  <1>. HIDE DEF e, y, n
  <1>6. CASE Count(v, cl) = v
    BY <1>6
  <1>7. CASE Count(v, cl) = TransitionVoteState(v, "PASSED") /\ Passes(y, e)
    BY <1>7, <1>2, <1>4, TransitionFacts DEF e, y
  <1>8. CASE Count(v, cl) = TransitionVoteState(v, "FAILED") /\ e # 0 /\ Fails(n, e)
    BY <1>8, <1>3, <1>4, TransitionFacts DEF e, n
  <1>. QED BY <1>5, <1>6, <1>7, <1>8

-----------------------------------------------------------------------------
(* The frame.  A world is what Here gathers.                                *)

World ==
  [ vote : VoteState, client : [Clients -> Client], phase : Phases,
    exiting : BOOLEAN, changing : BOOLEAN, effects : 0..1,
    calls : [Clients -> 0..VoteLimit + 1] ]

\* A reset of the match leaves the vote, and the answers to it, alone.
LEMMA ResetFacts ==
  ASSUME NEW w \in World
  PROVE  /\ MatchReset(w) \in World
         /\ MatchReset(w).vote = w.vote /\ MatchReset(w).effects = w.effects
         /\ MatchReset(w).changing = w.changing
         /\ \A c \in Clients :
              /\ MatchReset(w).client[c].here = w.client[c].here
              /\ MatchReset(w).client[c].voted = w.client[c].voted
              /\ MatchReset(w).client[c].retained = w.client[c].retained
  <1>. DEFINE cl == [c \in Clients |->
                       IF w.client[c].here THEN [w.client[c] EXCEPT !.count = 0]
                       ELSE w.client[c]]
              none == [c \in Clients |-> 0]
  <1>1. 0 \in 0..VoteLimit /\ 0 \in 0..VoteLimit + 1
    BY NumbersAssumption
  <1>2. \A c \in Clients : w.client[c] \in Client
    BY DEF World
  <1>3. \A c \in Clients : cl[c] \in Client /\ cl[c].here = w.client[c].here
                          /\ cl[c].voted = w.client[c].voted
                          /\ cl[c].retained = w.client[c].retained
    BY <1>1, <1>2 DEF Client
  <1>4. cl \in [Clients -> Client] /\ none \in [Clients -> 0..VoteLimit + 1]
    BY <1>1, <1>3
  <1>5. MatchReset(w) = [w EXCEPT !.phase = "warmup", !.exiting = FALSE,
                                  !.calls = none, !.client = cl]
    BY DEF MatchReset
  <1>. HIDE DEF cl, none
  <1>. QED BY <1>3, <1>4, <1>5 DEF World, Phases

\* Executing a command takes effect at most once and always leaves EXECUTING.
LEMMA VotePassedFacts ==
  ASSUME NEW w \in World, w.vote.state = "EXECUTING", w.effects = 0,
         NEW u \in VotePassed(w)
  PROVE  /\ u \in World
         /\ u.vote.state \in {"COMPLETE", "FAILED"}
         /\ u.vote.state = "FAILED" => u.effects = 0
  <1>. DEFINE f == TransitionVoteState(w.vote, "FAILED")
              t == TransitionVoteState(w.vote, "COMPLETE")
              e == Effective(w)
  <1>1. f \in VoteState /\ t \in VoteState /\ f.state = "FAILED" /\ t.state = "COMPLETE"
    BY TransitionFacts, Transitions DEF World, States
  <1>2. e \in World /\ e.vote = w.vote /\ e.effects = 1
    BY DEF Effective, World
  <1>3. PICK v \in Outcomes(w) :
          u = IF v.vote.state # "EXECUTING" THEN v
              ELSE [v EXCEPT !.vote = TransitionVoteState(v.vote, "COMPLETE")]
    BY DEF VotePassed
  <1>4. MarkExecutingVoteFailed(w) = [w EXCEPT !.vote = f]
    BY DEF MarkExecutingVoteFailed
  <1>5. \/ v = w \/ v = e \/ v = MatchReset(e)
        \/ v = [e EXCEPT !.phase = "intermission", !.exiting = TRUE]
        \/ v = [e EXCEPT !.changing = TRUE]
        \/ v = [w EXCEPT !.vote = f]
    BY <1>3, <1>4 DEF Outcomes
  <1>. HIDE DEF f, t, e
  <1>6. \/ v \in World /\ v.vote = w.vote
        \/ v \in World /\ v.vote = f /\ v.effects = 0
    <2>1. CASE v = w \/ v = e
      BY <2>1, <1>2
    <2>2. CASE v = MatchReset(e)
      BY <2>2, <1>2, ResetFacts
    <2>3. CASE v = [e EXCEPT !.phase = "intermission", !.exiting = TRUE]
      BY <2>3, <1>2 DEF World, Phases
    <2>4. CASE v = [e EXCEPT !.changing = TRUE]
      BY <2>4, <1>2 DEF World
    <2>5. CASE v = [w EXCEPT !.vote = f]
      BY <2>5, <1>1 DEF World
    <2>. QED BY <1>5, <2>1, <2>2, <2>3, <2>4, <2>5
  <1>7. CASE v \in World /\ v.vote = w.vote
    <2>1. u = [v EXCEPT !.vote = t]
      BY <1>3, <1>7 DEF t
    <2>. QED BY <2>1, <1>1, <1>7 DEF World
  <1>8. CASE v \in World /\ v.vote = f /\ v.effects = 0
    BY <1>3, <1>8, <1>1
  <1>. QED BY <1>6, <1>7, <1>8

\* What one MM_CheckVote does.
LEMMA CheckVoteFacts ==
  ASSUME NEW w \in World, NEW u \in CheckVote(w),
         w.vote.state # "COMPLETE" => w.effects = 0
  PROVE  /\ u \in World
         /\ \/ /\ u = w
               /\ w.vote.state \in {"IDLE", "ACTIVE", "PASSED"}
               /\ w.vote.state = "ACTIVE" => w.vote.age < VoteFrames
            \/ /\ w.vote.state = "ACTIVE" /\ u.vote.state = "PASSED"
               /\ u.vote.caller = w.vote.caller /\ u.vote.command = w.vote.command
               /\ u = [w EXCEPT !.vote = u.vote]
               /\ 2 * Cardinality(Voting(w.client, 1))
                    > Cardinality(Eligible(w.client))
            \/ /\ w.vote.state = "ACTIVE" /\ u.vote.state = "FAILED"
               /\ u = [w EXCEPT !.vote = u.vote]
               /\ \/ w.vote.command = NoCommand \/ w.vote.caller = NoClient
                  \/ w.vote.age >= VoteFrames
                  \/ /\ Cardinality(Eligible(w.client)) # 0
                     /\ 2 * Cardinality(Voting(w.client, -1))
                          >= Cardinality(Eligible(w.client))
            \/ /\ w.vote.state = "PASSED" /\ u.vote.state = "EXECUTING"
               /\ u = [w EXCEPT !.vote = u.vote]
            \/ /\ w.vote.state = "EXECUTING"
               /\ u.vote.state \in {"COMPLETE", "FAILED"}
               /\ u.vote.state = "FAILED" => u.effects = 0
            \/ /\ w.vote.state \in {"FAILED", "COMPLETE"} /\ u.vote.state = "IDLE"
               /\ u.effects = 0
               /\ u.client = w.client /\ u.changing = w.changing
  <1>. DEFINE v == w.vote
  <1>1. v \in VoteState /\ v.state \in States
    BY DEF World, VoteState
  <1>2. \A x \in VoteState :
          /\ [w EXCEPT !.vote = x] \in World /\ [w EXCEPT !.vote = x].vote = x
          /\ [w EXCEPT !.vote = [w EXCEPT !.vote = x].vote] = [w EXCEPT !.vote = x]
    BY DEF World
  <1>3. [w EXCEPT !.vote = v] = w
    BY DEF World
  <1>4. CASE v.state = "IDLE"
    <2>1. CheckVote(w) = {w}
      BY <1>4 DEF CheckVote
    <2>. QED BY <2>1, <1>4
  <1>5. CASE v.state = "ACTIVE"
    <2>. DEFINE f == TransitionVoteState(v, "FAILED")
    <2>1. f \in VoteState /\ f.state = "FAILED"
      BY <1>1, <1>5, TransitionFacts, Transitions DEF States
    <2>2. CASE v.command = NoCommand \/ v.caller = NoClient
      <3>1. u = [w EXCEPT !.vote = f]
        BY <1>5, <2>2 DEF CheckVote
      <3>. QED BY <3>1, <2>1, <2>2, <1>2, <1>5
    <2>3. CASE ~(v.command = NoCommand \/ v.caller = NoClient)
      <3>1. u = [w EXCEPT !.vote = UpdateActiveVote(v, w.client)]
        BY <1>5, <2>3 DEF CheckVote
      <3>2. CASE v.age < GraceFrames
        <4>1. u = w
          BY <3>1, <3>2, <1>3 DEF UpdateActiveVote
        <4>2. v.age < VoteFrames
          BY <3>2, <1>1, NumbersAssumption DEF VoteState
        <4>. QED BY <4>1, <4>2, <1>5
      <3>3. CASE ~(v.age < GraceFrames) /\ v.age >= VoteFrames
        <4>1. u = [w EXCEPT !.vote = f]
          BY <3>1, <3>3 DEF UpdateActiveVote
        <4>. QED BY <4>1, <2>1, <3>3, <1>2, <1>5
      <3>4. CASE ~(v.age < GraceFrames) /\ ~(v.age >= VoteFrames)
        <4>. DEFINE x == Count(v, w.client)
        <4>1. u = [w EXCEPT !.vote = x]
          BY <3>1, <3>4 DEF UpdateActiveVote
        <4>2. v.age < VoteFrames
          BY <3>4, <1>1, NumbersAssumption DEF VoteState
        <4>3. /\ x \in VoteState
              /\ \/ x = v
                 \/ /\ x.state = "PASSED" /\ x.caller = v.caller
                    /\ x.command = v.command
                    /\ 2 * Cardinality(Voting(w.client, 1))
                         > Cardinality(Eligible(w.client))
                 \/ /\ x.state = "FAILED" /\ Cardinality(Eligible(w.client)) # 0
                    /\ 2 * Cardinality(Voting(w.client, -1))
                         >= Cardinality(Eligible(w.client))
          BY <1>1, <1>5, CountDecides
        <4>. HIDE DEF x
        <4>. QED BY <4>1, <4>2, <4>3, <1>2, <1>3, <1>5
      <3>. QED BY <3>2, <3>3, <3>4
    <2>. QED BY <2>2, <2>3
  <1>6. CASE v.state = "PASSED"
    <2>. DEFINE x == TransitionVoteState(v, "EXECUTING")
    <2>1. x \in VoteState /\ x.state = "EXECUTING"
      BY <1>1, <1>6, TransitionFacts, Transitions DEF States
    <2>2. u = w \/ u = [w EXCEPT !.vote = x]
      BY <1>6 DEF CheckVote
    <2>. HIDE DEF x
    <2>. QED BY <2>1, <2>2, <1>2, <1>6
  <1>7. CASE v.state = "EXECUTING"
    <2>1. u \in VotePassed(w)
      BY <1>7 DEF CheckVote
    <2>. QED BY <2>1, <1>7, VotePassedFacts
  <1>8. CASE v.state \in {"FAILED", "COMPLETE"}
    <2>. DEFINE x == TransitionVoteState(v, "IDLE")
    <2>1. x \in VoteState /\ x.state = "IDLE"
      BY <1>1, <1>8, TransitionFacts, Transitions DEF States
    <2>. DEFINE y == [w EXCEPT !.vote = x]
    <2>2. u = [y EXCEPT !.effects = 0]
      BY <1>8 DEF CheckVote
    <2>. HIDE DEF x
    <2>3. y \in World /\ y.vote = x /\ y.client = w.client
          /\ y.changing = w.changing
      BY <2>1 DEF World
    <2>. HIDE DEF y
    <2>4. u \in World /\ u.vote = x /\ u.effects = 0
          /\ u.client = w.client /\ u.changing = w.changing
      BY <2>2, <2>3 DEF World
    <2>. QED BY <2>1, <2>4, <1>8
  <1>. QED BY <1>1, <1>4, <1>5, <1>6, <1>7, <1>8 DEF States

\* Time passing changes nothing but the age and the deadline of a vote.
LEMMA ElapseFacts ==
  ASSUME NEW v \in VoteState, v.state = "ACTIVE" => v.age < VoteFrames
  PROVE  /\ Elapse(v) \in VoteState
         /\ Elapse(v).state = v.state
         /\ Elapse(v).command = v.command /\ Elapse(v).caller = v.caller
  <1>. DEFINE age == IF v.state = "ACTIVE" THEN v.age + 1 ELSE v.age
              due == IF v.state = "PASSED" /\ v.due > 0 THEN v.due - 1 ELSE v.due
  <1>1. age \in 0..VoteFrames /\ due \in 0..ExecuteFrames
    <2>1. v.age \in 0..VoteFrames /\ v.due \in 0..ExecuteFrames
      BY DEF VoteState
    <2>2. VoteFrames \in Nat /\ ExecuteFrames \in Nat
      BY NumbersAssumption
    <2>3. age \in 0..VoteFrames
      BY <2>1, <2>2
    <2>4. due \in 0..ExecuteFrames
      BY <2>1, <2>2
    <2>. QED BY <2>3, <2>4
  <1>2. Elapse(v) = [v EXCEPT !.age = age, !.due = due]
    BY DEF Elapse
  <1>. HIDE DEF age, due
  <1>. QED BY <1>1, <1>2 DEF VoteState

\* What the variables hold is a world.
LEMMA HereFacts ==
  ASSUME TypeOK
  PROVE  /\ Here \in World
         /\ Here.vote = vote /\ Here.client = client /\ Here.phase = phase
         /\ Here.exiting = exiting /\ Here.changing = changing
         /\ Here.effects = effects /\ Here.calls = calls
  BY DEF TypeOK, Here, World

\* The exits of a level leave the vote and the clients alone.
LEMMA ExitFacts ==
  ASSUME NEW w \in World, NEW u \in ExitRules(w)
  PROVE  u \in World /\ u.vote = w.vote /\ u.client = w.client
         /\ u.effects = w.effects
  <1>1. u = w \/ u = [w EXCEPT !.exiting = FALSE, !.changing = TRUE]
    BY DEF ExitRules, ExitLevel
  <1>. QED BY <1>1 DEF World

\* The primed variables of a step that ends in a world.
LEMMA BecomeFacts ==
  ASSUME TypeOK, NEW w \in World, Become(w), cast' = cast
  PROVE  TypeOK' /\ vote' = w.vote /\ client' = w.client /\ effects' = w.effects
         /\ changing' = w.changing
  BY DEF TypeOK, World, Become

\* What a frame does to the vote.
LEMMA FrameFacts ==
  ASSUME IndInv, Frame
  PROVE  /\ TypeOK' /\ ~changing /\ cast' = cast
         /\ \/ /\ vote'.state = vote.state
               /\ vote.state \in {"IDLE", "ACTIVE", "PASSED"}
               /\ vote'.caller = vote.caller /\ vote'.command = vote.command
               /\ client' = client /\ effects' = effects
            \/ /\ vote.state = "ACTIVE" /\ vote'.state = "PASSED"
               /\ vote'.caller = vote.caller /\ vote'.command = vote.command
               /\ client' = client /\ effects' = effects
               /\ 2 * Cardinality(Voting(client, 1))
                    > Cardinality(Eligible(client))
            \/ /\ vote.state = "ACTIVE" /\ vote'.state = "FAILED"
               /\ effects' = effects
               /\ \/ vote.command = NoCommand \/ vote.caller = NoClient
                  \/ vote.age >= VoteFrames
                  \/ /\ Cardinality(Eligible(client)) # 0
                     /\ 2 * Cardinality(Voting(client, -1))
                          >= Cardinality(Eligible(client))
            \/ /\ vote.state = "PASSED" /\ vote'.state = "EXECUTING"
               /\ effects' = effects
            \/ /\ vote.state = "EXECUTING"
               /\ vote'.state \in {"COMPLETE", "FAILED"}
               /\ vote'.state = "FAILED" => effects' = 0
            \/ /\ vote.state \in {"FAILED", "COMPLETE"} /\ vote'.state = "IDLE"
               /\ effects' = 0
  <1>0. TypeOK /\ (vote.state # "COMPLETE" => effects = 0)
    BY DEF IndInv, EffectIsComplete
  <1>1. PICK u \in CheckVote(Here) :
          \E w \in ExitRules([u EXCEPT !.vote = Elapse(u.vote)]) : Become(w)
    BY DEF Frame
  <1>. DEFINE x == [u EXCEPT !.vote = Elapse(u.vote)]
  <1>2. PICK w \in ExitRules(x) : Become(w)
    BY <1>1
  <1>3. u \in World
        /\ \/ /\ u = Here
              /\ vote.state \in {"IDLE", "ACTIVE", "PASSED"}
              /\ vote.state = "ACTIVE" => vote.age < VoteFrames
           \/ /\ vote.state = "ACTIVE" /\ u.vote.state = "PASSED"
              /\ u.vote.caller = vote.caller /\ u.vote.command = vote.command
              /\ u = [Here EXCEPT !.vote = u.vote]
              /\ 2 * Cardinality(Voting(client, 1)) > Cardinality(Eligible(client))
           \/ /\ vote.state = "ACTIVE" /\ u.vote.state = "FAILED"
              /\ u = [Here EXCEPT !.vote = u.vote]
              /\ \/ vote.command = NoCommand \/ vote.caller = NoClient
                 \/ vote.age >= VoteFrames
                 \/ /\ Cardinality(Eligible(client)) # 0
                    /\ 2 * Cardinality(Voting(client, -1))
                         >= Cardinality(Eligible(client))
           \/ /\ vote.state = "PASSED" /\ u.vote.state = "EXECUTING"
              /\ u = [Here EXCEPT !.vote = u.vote]
           \/ /\ vote.state = "EXECUTING"
              /\ u.vote.state \in {"COMPLETE", "FAILED"}
              /\ u.vote.state = "FAILED" => u.effects = 0
           \/ /\ vote.state \in {"FAILED", "COMPLETE"} /\ u.vote.state = "IDLE"
              /\ u.effects = 0
    BY <1>0, HereFacts, CheckVoteFacts
  <1>4. u = [Here EXCEPT !.vote = u.vote] =>
          u.client = client /\ u.effects = effects
    BY <1>0, HereFacts DEF World
  <1>5. u.vote \in VoteState /\ (u.vote.state = "ACTIVE" => u.vote.age < VoteFrames)
    BY <1>0, <1>3, HereFacts DEF World
  <1>6. x \in World /\ x.vote = Elapse(u.vote) /\ x.client = u.client
        /\ x.effects = u.effects
    BY <1>3, <1>5, ElapseFacts DEF World
  <1>. HIDE DEF x
  <1>7. w \in World /\ w.vote = Elapse(u.vote) /\ w.client = u.client
        /\ w.effects = u.effects
    BY <1>2, <1>6, ExitFacts
  <1>8. cast' = cast /\ ~changing
    BY DEF Frame, FrameRuns, Running
  <1>9. TypeOK' /\ vote' = Elapse(u.vote) /\ client' = u.client
        /\ effects' = u.effects
    BY <1>0, <1>2, <1>7, <1>8, BecomeFacts
  <1>10. vote'.state = u.vote.state /\ vote'.caller = u.vote.caller
         /\ vote'.command = u.vote.command
    BY <1>5, <1>9, ElapseFacts
  <1>11. u = Here => u.vote = vote /\ u.client = client /\ u.effects = effects
    BY <1>0, HereFacts
  <1>. QED BY <1>3, <1>4, <1>8, <1>9, <1>10, <1>11

-----------------------------------------------------------------------------
(* The steps that leave the vote alone.                                     *)

\* The same clients are there, and some may have lost their answer, as all
\* have who were spawned.
Forgets(cl, new) ==
  /\ new \in [Clients -> Client]
  /\ \A c \in Clients : /\ new[c].here = cl[c].here
                       /\ new[c].voted \in {0, cl[c].voted}
                       /\ \/ new[c].retained \/ ~cl[c].retained
                          \/ new[c].voted = 0

\* A spawn, a revert and a change of team forget at most an answer.
LEMMA ForgetFacts ==
  ASSUME NEW cl \in [Clients -> Client], NEW c \in Clients,
         NEW playing \in BOOLEAN
  PROVE  /\ Forgets(cl, cl)
         /\ Forgets(cl, Spawn(cl, c)) /\ Spawn(cl, c)[c].voted = 0
         /\ Forgets(cl, RevertVote(vote, cl, c))
         /\ Forgets(cl, [cl EXCEPT ![c].playing = playing])
  <1>1. 0 \in 0..VoteLimit /\ 0 \in Choices
    BY NumbersAssumption DEF Choices
  <1>2. Forgets(cl, cl)
    BY DEF Forgets
  <1>. DEFINE mute == [cl[c] EXCEPT !.voted = 0]
              fresh == [mute EXCEPT !.count = 0, !.retained = FALSE]
              moved == [cl[c] EXCEPT !.playing = playing]
  <1>3. mute \in Client /\ mute.here = cl[c].here /\ mute.voted = 0
    BY <1>1 DEF Client
  <1>4. /\ moved \in Client /\ moved.here = cl[c].here
        /\ moved.voted = cl[c].voted /\ moved.retained = cl[c].retained
    BY DEF Client
  <1>. HIDE DEF mute, moved
  <1>5. fresh \in Client /\ fresh.here = cl[c].here /\ fresh.voted = 0
    BY <1>1, <1>3 DEF Client
  <1>6. Spawn(cl, c) = [cl EXCEPT ![c] = fresh]
    BY DEF Spawn, mute
  <1>7. [cl EXCEPT ![c].voted = 0] = [cl EXCEPT ![c] = mute]
    BY DEF mute
  <1>8. [cl EXCEPT ![c].playing = playing] = [cl EXCEPT ![c] = moved]
    BY DEF moved
  <1>. HIDE DEF fresh
  <1>9. Forgets(cl, [cl EXCEPT ![c] = fresh])
    BY <1>5 DEF Forgets
  <1>10. Forgets(cl, [cl EXCEPT ![c] = mute])
    BY <1>3 DEF Forgets
  <1>11. Forgets(cl, [cl EXCEPT ![c] = moved])
    BY <1>4 DEF Forgets
  <1>12. Forgets(cl, RevertVote(vote, cl, c))
    BY <1>2, <1>7, <1>10 DEF RevertVote
  <1>13. Spawn(cl, c)[c].voted = 0
    BY <1>5, <1>6
  <1>. QED BY <1>2, <1>6, <1>8, <1>9, <1>11, <1>12, <1>13

\* Whoever may forget twice has forgotten.
LEMMA ForgetsTwice ==
  ASSUME NEW a, NEW b, NEW d, Forgets(a, b), Forgets(b, d)
  PROVE  Forgets(a, d)
  BY DEF Forgets

\* A step that does not touch the vote, and at most forgets answers,
\* preserves the invariant.
LEMMA ForgettingStep ==
  ASSUME IndInv, TypeOK', vote' = vote, effects' = effects, cast' = cast,
         Forgets(client, client')
  PROVE  IndInv'
  <1>1. CallerStays'
    BY DEF IndInv, CallerStays, Forgets, Clients
  <1>2. AnswersAreCurrent'
    BY DEF IndInv, AnswersAreCurrent, Forgets
  <1>3. EffectIsComplete'
    BY DEF IndInv, EffectIsComplete
  <1>. QED BY <1>1, <1>2, <1>3 DEF IndInv

\* The match and its administrator, respawns and changes of team are such
\* steps, and leave no level and begin none, unless an administrator does.
LEMMA QuietSteps ==
  ASSUME IndInv,
         \/ Countdown \/ StartMatch \/ EndMatch \/ ResetMatch \/ PressExit
         \/ NextMap \/ SetMap
         \/ \E c \in Clients : Respawn(c)
         \/ \E c \in Humans : \E playing \in BOOLEAN : SetTeam(c, playing)
  PROVE  /\ IndInv' /\ vote' = vote /\ effects' = effects
         /\ ~changing /\ changing' \in BOOLEAN
  <1>0. TypeOK /\ client \in [Clients -> Client]
    BY DEF IndInv, TypeOK
  <1>. DEFINE Quiet == /\ TypeOK' /\ vote' = vote /\ effects' = effects
                       /\ cast' = cast /\ Forgets(client, client')
                       /\ ~changing
  <1>1. Forgets(client, client)
    BY <1>0 DEF Forgets
  <1>2. ASSUME Countdown \/ EndMatch \/ PressExit \/ NextMap \/ SetMap
        PROVE  Quiet
    <2>1. /\ UNCHANGED <<vote, client, effects, cast, calls>> /\ ~changing
          /\ phase' \in Phases /\ exiting' \in BOOLEAN /\ changing' \in BOOLEAN
      BY <1>0, <1>2 DEF Countdown, EndMatch, PressExit, NextMap, SetMap,
                        AdminHere, Running, TypeOK, Phases
    <2>. QED BY <1>0, <1>1, <2>1 DEF TypeOK
  <1>3. ASSUME StartMatch \/ ResetMatch
        PROVE  Quiet
    <2>. DEFINE r == MatchReset(Here)
                m == [r EXCEPT !.phase = "match"]
    <2>1. /\ r \in World /\ r.vote = vote /\ r.effects = effects
          /\ \A c \in Clients : /\ r.client[c].here = client[c].here
                               /\ r.client[c].voted = client[c].voted
                               /\ r.client[c].retained = client[c].retained
      BY <1>0, HereFacts, ResetFacts
    <2>2. Become(r) \/ Become(m)
      BY <1>3 DEF StartMatch, ResetMatch
    <2>3. cast' = cast /\ ~changing
      BY <1>3 DEF StartMatch, ResetMatch, Running
    <2>. HIDE DEF r
    <2>4. m \in World /\ m.vote = r.vote /\ m.effects = r.effects
          /\ m.client = r.client
      BY <2>1 DEF World, Phases
    <2>. HIDE DEF m
    <2>5. TypeOK' /\ vote' = vote /\ effects' = effects /\ client' = r.client
      BY <1>0, <2>1, <2>2, <2>3, <2>4, BecomeFacts
    <2>6. r.client \in [Clients -> Client]
      BY <2>1 DEF World
    <2>. QED BY <2>1, <2>3, <2>5, <2>6 DEF Forgets
  <1>4. ASSUME NEW c \in Clients, Respawn(c)
        PROVE  Quiet
    <2>1. /\ client' = Spawn(client, c) /\ ~changing
          /\ UNCHANGED <<vote, phase, exiting, changing, effects, cast, calls>>
      BY <1>4 DEF Respawn, Running
    <2>2. Forgets(client, client')
      BY <1>0, <2>1, ForgetFacts
    <2>. QED BY <1>0, <2>1, <2>2 DEF TypeOK, Forgets
  <1>5. ASSUME NEW c \in Humans, NEW playing \in BOOLEAN, SetTeam(c, playing)
        PROVE  Quiet
    <2>. DEFINE moved == [client EXCEPT ![c].playing = playing]
                taken == IF playing THEN RevertVote(vote, moved, c) ELSE moved
    <2>1. /\ client' = taken \/ client' = Spawn(taken, c)
          /\ ~changing
          /\ UNCHANGED <<vote, phase, exiting, changing, effects, cast, calls>>
      BY <1>5 DEF SetTeam, MayCommand, AdminHere, Running
    <2>2. c \in Clients
      BY DEF Clients
    <2>3. Forgets(client, moved)
      BY <1>0, <2>2, ForgetFacts
    <2>4. moved \in [Clients -> Client]
      BY <2>3 DEF Forgets
    <2>. HIDE DEF moved
    <2>5. Forgets(moved, taken)
      BY <2>2, <2>4, ForgetFacts
    <2>6. taken \in [Clients -> Client]
      BY <2>5 DEF Forgets
    <2>. HIDE DEF taken
    <2>7. Forgets(taken, taken) /\ Forgets(taken, Spawn(taken, c))
      BY <2>2, <2>6, ForgetFacts
    <2>8. Forgets(client, client')
      BY <2>1, <2>3, <2>5, <2>7, ForgetsTwice
    <2>. QED BY <1>0, <2>1, <2>8 DEF TypeOK, Forgets
  <1>6. Quiet
    BY <1>2, <1>3, <1>4, <1>5
  <1>7. changing' \in BOOLEAN
    BY <1>6 DEF TypeOK
  <1>. QED BY <1>6, <1>7, ForgettingStep

-----------------------------------------------------------------------------
(* The steps that change the vote.                                          *)

LEMMA FrameStep ==
  ASSUME IndInv, Frame
  PROVE  IndInv'
  <1>1. TypeOK'
    BY FrameFacts
  <1>2. CallerStays'
    BY FrameFacts DEF IndInv, CallerStays
  <1>3. AnswersAreCurrent'
    BY FrameFacts DEF IndInv, AnswersAreCurrent
  <1>4. EffectIsComplete'
    BY FrameFacts DEF IndInv, EffectIsComplete
  <1>. QED BY <1>1, <1>2, <1>3, <1>4 DEF IndInv

LEMMA ChangeLevelStep ==
  ASSUME IndInv, ChangeLevel
  PROVE  IndInv' /\ vote'.state = "IDLE"
  <1>1. NoVote \in VoteState /\ NoVote.state = "IDLE"
    BY NumbersAssumption DEF NoVote, VoteState, States
  <1>2. 0 \in Choices /\ 0 \in 0..VoteLimit + 1
    BY NumbersAssumption DEF Choices
  <1>. DEFINE along(c) == client[c].playing /\ (client[c].here \/ client[c].retained)
              gone(c) == [client[c] EXCEPT !.here = FALSE, !.retained = along(c)]
  <1>3. \A c \in Clients : gone(c) \in Client /\ gone(c).here = FALSE
    <2>1. \A c \in Clients : client[c] \in Client
      BY DEF IndInv, TypeOK
    <2>2. \A c \in Clients : along(c) \in BOOLEAN
      BY <2>1 DEF Client
    <2>. HIDE DEF along
    <2>. QED BY <2>1, <2>2 DEF Client
  <1>4. client' = [c \in Clients |-> gone(c)]
    BY DEF ChangeLevel
  <1>. HIDE DEF gone
  <1>5. client' \in [Clients -> Client]
        /\ \A c \in Clients : client'[c].here = FALSE
    BY <1>3, <1>4
  <1>6. TypeOK'
    <2>1. cast' \in [Clients -> Choices] /\ calls' \in [Clients -> 0..VoteLimit + 1]
      BY <1>2 DEF ChangeLevel
    <2>2. vote' \in VoteState
      BY <1>1 DEF ChangeLevel
    <2>3. phase' \in Phases /\ effects' \in 0..1
      <3>1. phase' = "warmup" /\ effects' = 0
        BY Zenon DEF ChangeLevel
      <3>. QED BY <3>1 DEF Phases
    <2>4. exiting' \in BOOLEAN /\ changing' \in BOOLEAN
      BY Zenon DEF ChangeLevel
    <2>. QED BY <1>5, <2>1, <2>2, <2>3, <2>4 DEF TypeOK
  <1>7. vote'.state = "IDLE" /\ effects' = 0
    BY <1>1 DEF ChangeLevel
  <1>. QED BY <1>5, <1>6, <1>7
           DEF IndInv, CallerStays, AnswersAreCurrent, EffectIsComplete

LEMMA JoinStep ==
  ASSUME IndInv, NEW c \in Clients, Join(c)
  PROVE  IndInv'
  <1>0. client \in [Clients -> Client]
    BY DEF IndInv, TypeOK
  <1>1. PICK playing \in BOOLEAN :
          client' = Spawn([client EXCEPT ![c].here = TRUE,
                                         ![c].playing = playing], c)
    BY DEF Join
  <1>. DEFINE come == [client[c] EXCEPT !.here = TRUE, !.playing = playing]
              come1 == [client EXCEPT ![c] = come]
  <1>2. come \in Client /\ come.here = TRUE
    BY <1>0 DEF Client
  <1>3. client' = Spawn(come1, c)
    BY <1>1
  <1>. HIDE DEF come
  <1>4. /\ client' \in [Clients -> Client]
        /\ client'[c].here = TRUE /\ client'[c].voted = 0
        /\ \A d \in Clients \ {c} :
             /\ client'[d].here = client[d].here
             /\ client'[d].voted \in {0, client[d].voted}
             /\ \/ client'[d].retained \/ ~client[d].retained
                \/ client'[d].voted = 0
    <2>1. /\ come1 \in [Clients -> Client] /\ come1[c].here = TRUE
          /\ \A d \in Clients \ {c} : come1[d] = client[d]
      BY <1>0, <1>2
    <2>. HIDE DEF come1
    <2>2. Forgets(come1, Spawn(come1, c)) /\ Spawn(come1, c)[c].voted = 0
      BY <2>1, ForgetFacts
    <2>. QED BY <1>3, <2>1, <2>2 DEF Forgets
  <1>5. /\ cast' = [cast EXCEPT ![c] = 0] /\ calls' = [calls EXCEPT ![c] = 0]
        /\ UNCHANGED <<vote, phase, exiting, changing, effects>>
    BY DEF Join
  <1>6. 0 \in Choices /\ 0 \in 0..VoteLimit + 1
    BY NumbersAssumption DEF Choices
  <1>7. cast' \in [Clients -> Choices] /\ calls' \in [Clients -> 0..VoteLimit + 1]
        /\ \A d \in Clients \ {c} : cast'[d] = cast[d]
    BY <1>5, <1>6 DEF IndInv, TypeOK
  <1>8. TypeOK'
    BY <1>4, <1>5, <1>7 DEF IndInv, TypeOK
  <1>9. CallerStays'
    BY <1>4, <1>5 DEF IndInv, CallerStays, Clients
  <1>10. AnswersAreCurrent'
    BY <1>4, <1>5, <1>7 DEF IndInv, AnswersAreCurrent
  <1>11. EffectIsComplete'
    BY <1>5 DEF IndInv, EffectIsComplete
  <1>. QED BY <1>8, <1>9, <1>10, <1>11 DEF IndInv

LEMMA WaitStep ==
  ASSUME IndInv, NEW c \in Clients, Wait(c)
  PROVE  /\ IndInv' /\ vote' = vote /\ effects' = effects
         /\ changing' = changing /\ ~changing
  <1>0. client \in [Clients -> Client]
    BY DEF IndInv, TypeOK
  <1>1. /\ UNCHANGED <<vote, phase, exiting, changing, effects, cast, calls>>
        /\ ~changing /\ client[c].retained
    BY DEF Wait, Running
  <1>. DEFINE come == [client[c] EXCEPT !.here = TRUE]
  <1>2. come \in Client /\ come.here = TRUE /\ come.retained
    BY <1>0, <1>1 DEF Client
  <1>3. client' = [client EXCEPT ![c] = come]
    BY DEF Wait
  <1>. HIDE DEF come
  <1>4. /\ client' \in [Clients -> Client]
        /\ client'[c].here /\ client'[c].retained
        /\ \A d \in Clients \ {c} : client'[d] = client[d]
    BY <1>0, <1>2, <1>3
  <1>5. TypeOK'
    BY <1>1, <1>4 DEF IndInv, TypeOK
  <1>6. CallerStays'
    BY <1>1, <1>4 DEF IndInv, CallerStays, Clients
  <1>7. AnswersAreCurrent'
    BY <1>1, <1>4 DEF IndInv, AnswersAreCurrent
  <1>8. EffectIsComplete'
    BY <1>1 DEF IndInv, EffectIsComplete
  <1>. QED BY <1>1, <1>5, <1>6, <1>7, <1>8 DEF IndInv

LEMMA LeaveStep ==
  ASSUME IndInv, NEW c \in Clients, Leave(c)
  PROVE  /\ IndInv' /\ effects' = effects /\ changing' = changing /\ ~changing
         /\ \/ vote' = vote
            \/ vote.state \in {"ACTIVE", "PASSED"} /\ vote'.state = "FAILED"
  <1>0. client \in [Clients -> Client] /\ vote \in VoteState
    BY DEF IndInv, TypeOK
  <1>. DEFINE kept == RevertVote(vote, client, c)
              gone == [kept[c] EXCEPT !.here = FALSE, !.retained = FALSE]
              f == TransitionVoteState(vote, "FAILED")
  <1>1. Forgets(client, kept)
    BY <1>0, ForgetFacts
  <1>2. client' = [kept EXCEPT ![c] = gone]
    BY DEF Leave
  <1>. HIDE DEF kept
  <1>3. gone \in Client /\ gone.here = FALSE
    BY <1>1 DEF Forgets, Client
  <1>. HIDE DEF gone
  <1>4. /\ client' \in [Clients -> Client] /\ client'[c].here = FALSE
        /\ \A d \in Clients \ {c} :
             /\ client'[d].here = client[d].here
             /\ client'[d].voted \in {0, client[d].voted}
             /\ \/ client'[d].retained \/ ~client[d].retained
                \/ client'[d].voted = 0
    BY <1>1, <1>2, <1>3 DEF Forgets
  <1>5. UNCHANGED <<phase, exiting, changing, effects, cast, calls>> /\ ~changing
    BY DEF Leave, Running
  <1>6. CASE vote.caller = c /\ vote.state \in {"ACTIVE", "PASSED"}
    <2>1. vote' = f
      BY <1>6 DEF Leave
    <2>2. f \in VoteState /\ f.state = "FAILED"
      BY <1>0, <1>6, TransitionFacts, Transitions DEF States
    <2>3. effects = 0
      BY <1>6 DEF IndInv, EffectIsComplete
    <2>4. TypeOK'
      BY <1>4, <1>5, <2>1, <2>2 DEF IndInv, TypeOK
    <2>5. vote'.state = "FAILED"
      BY <2>1, <2>2
    <2>. QED BY <1>5, <1>6, <2>3, <2>4, <2>5
             DEF IndInv, CallerStays, AnswersAreCurrent, EffectIsComplete
  <1>7. CASE ~(vote.caller = c /\ vote.state \in {"ACTIVE", "PASSED"})
    <2>1. vote' = vote
      BY <1>7 DEF Leave
    <2>2. TypeOK'
      BY <1>4, <1>5, <2>1 DEF IndInv, TypeOK
    <2>3. CallerStays'
      BY <1>4, <1>5, <1>7, <2>1 DEF IndInv, CallerStays, Clients
    <2>4. AnswersAreCurrent'
      BY <1>4, <1>5, <2>1 DEF IndInv, AnswersAreCurrent
    <2>5. EffectIsComplete'
      BY <1>5, <2>1 DEF IndInv, EffectIsComplete
    <2>. QED BY <1>5, <2>1, <2>2, <2>3, <2>4, <2>5 DEF IndInv
  <1>. QED BY <1>6, <1>7

LEMMA CallVoteStep ==
  ASSUME IndInv, NEW c \in Humans, NEW command \in Commands,
         CallVote(c, command)
  PROVE  /\ IndInv' /\ effects' = effects /\ changing' = changing /\ ~changing
         /\ vote.state = "IDLE" /\ vote'.state = "ACTIVE"
  <1>0. client \in [Clients -> Client] /\ c \in Clients
    BY DEF IndInv, TypeOK, Clients
  <1>1. /\ ~changing /\ client[c].here /\ vote.state = "IDLE"
        /\ UNCHANGED <<phase, exiting, changing, effects>>
    BY DEF CallVote, MayCommand, Running
  <1>. DEFINE v == [NoVote EXCEPT !.command = command, !.caller = c]
  <1>2. v \in VoteState /\ v.state = "IDLE" /\ v.command = command /\ v.caller = c
    <2>. DEFINE w == [NoVote EXCEPT !.command = command]
    <2>1. NoVote \in VoteState /\ NoVote.state = "IDLE"
      BY NumbersAssumption DEF NoVote, VoteState, States
    <2>2. w \in VoteState /\ w.state = "IDLE" /\ w.command = command
      BY <2>1 DEF VoteState
    <2>3. v = [w EXCEPT !.caller = c]
      OBVIOUS
    <2>. HIDE DEF w, v
    <2>. QED BY <1>0, <2>2, <2>3 DEF VoteState
  <1>3. vote' = TransitionVoteState(v, "ACTIVE")
    BY DEF CallVote
  <1>. HIDE DEF v
  <1>4. /\ vote' \in VoteState /\ vote'.state = "ACTIVE"
        /\ vote'.command = command /\ vote'.caller = c
    BY <1>2, <1>3, TransitionFacts, Transitions DEF States
  <1>. DEFINE said == [d \in Clients |-> IF d = c THEN 1 ELSE 0]
              answer(d) == [client[d] EXCEPT !.voted = said[d]]
              reset == ResetAnswers(client, c)
              count == IF VoteLimit = 0 THEN 0 ELSE client[c].count + 1
  <1>5. cast' = said /\ said \in [Clients -> Choices]
    BY DEF CallVote, Choices
  <1>6. reset = [d \in Clients |-> IF client[d].here THEN answer(d) ELSE client[d]]
    BY DEF ResetAnswers
  <1>. HIDE DEF said
  <1>7. \A d \in Clients :
          /\ answer(d) \in Client /\ answer(d).here = client[d].here
          /\ answer(d).voted = said[d]
    BY <1>0, <1>5 DEF Client
  <1>. HIDE DEF answer, reset
  <1>8. /\ reset \in [Clients -> Client]
        /\ \A d \in Clients : reset[d].here = client[d].here
    BY <1>0, <1>7, <1>6
  <1>9. \A d \in Clients : reset[d].here => reset[d].voted = said[d]
    BY <1>0, <1>7, <1>6
  <1>10. count \in 0..VoteLimit
    <2>1. client[c].count \in 0..VoteLimit /\ VoteLimit \in Nat
      BY <1>0, NumbersAssumption DEF Client
    <2>2. WithinLimit(c)
      BY DEF CallVote
    <2>. QED BY <2>1, <2>2 DEF WithinLimit
  <1>11. client' = [reset EXCEPT ![c].count = count]
    BY DEF CallVote, reset
  <1>. HIDE DEF count
  <1>. DEFINE counted == [reset[c] EXCEPT !.count = count]
  <1>12. counted \in Client /\ counted.here = reset[c].here
         /\ counted.voted = reset[c].voted
    BY <1>0, <1>8, <1>10 DEF Client
  <1>13. client' = [reset EXCEPT ![c] = counted]
    BY <1>11
  <1>. HIDE DEF counted
  <1>14. /\ client' \in [Clients -> Client]
         /\ \A d \in Clients : client'[d].here = client[d].here
    BY <1>0, <1>8, <1>12, <1>13
  <1>15. \A d \in Clients : client'[d].here => client'[d].voted = said[d]
    BY <1>0, <1>8, <1>9, <1>12, <1>13
  <1>16. calls' \in [Clients -> 0..VoteLimit + 1]
    <2>. DEFINE more == IF calls[c] > VoteLimit THEN calls[c] ELSE calls[c] + 1
    <2>1. calls \in [Clients -> 0..VoteLimit + 1]
      BY DEF IndInv, TypeOK
    <2>2. more \in 0..VoteLimit + 1
      BY <1>0, <2>1, NumbersAssumption
    <2>3. calls' = calls \/ calls' = [calls EXCEPT ![c] = more]
      BY DEF CallVote
    <2>. HIDE DEF more
    <2>. QED BY <2>1, <2>2, <2>3
  <1>17. TypeOK'
    <2>1. cast' \in [Clients -> Choices] /\ client' \in [Clients -> Client]
      BY <1>14, <1>5
    <2>. QED BY <1>1, <1>4, <1>16, <2>1 DEF IndInv, TypeOK
  <1>18. CallerStays'
    <2>1. client'[c].here
      BY <1>0, <1>1, <1>14
    <2>. QED BY <1>4, <2>1 DEF CallerStays
  <1>19. AnswersAreCurrent'
    BY <1>15, <1>5 DEF AnswersAreCurrent
  <1>20. EffectIsComplete'
    BY <1>1 DEF IndInv, EffectIsComplete
  <1>. QED BY <1>1, <1>4, <1>17, <1>18, <1>19, <1>20 DEF IndInv

LEMMA CastVoteStep ==
  ASSUME IndInv, NEW c \in Humans, NEW choice \in {-1, 1}, CastVote(c, choice)
  PROVE  /\ IndInv' /\ vote' = vote
         /\ effects' = effects /\ changing' = changing
  <1>0. client \in [Clients -> Client] /\ c \in Clients
    BY DEF IndInv, TypeOK, Clients
  <1>1. UNCHANGED <<vote, phase, exiting, changing, effects, calls>>
        /\ cast' = [cast EXCEPT ![c] = choice]
    BY DEF CastVote
  <1>. DEFINE said == [client[c] EXCEPT !.voted = choice]
  <1>2. said \in Client /\ said.here = client[c].here /\ said.voted = choice
    BY <1>0 DEF Client, Choices
  <1>3. client' = [client EXCEPT ![c] = said]
    BY DEF CastVote
  <1>. HIDE DEF said
  <1>4. /\ client' \in [Clients -> Client] /\ client'[c].voted = choice
        /\ \A d \in Clients : client'[d].here = client[d].here
        /\ \A d \in Clients \ {c} : client'[d] = client[d]
    BY <1>0, <1>2, <1>3
  <1>5. cast' \in [Clients -> Choices] /\ cast'[c] = choice
        /\ \A d \in Clients \ {c} : cast'[d] = cast[d]
    BY <1>0, <1>1 DEF IndInv, TypeOK, Choices
  <1>6. TypeOK'
    BY <1>1, <1>4, <1>5 DEF IndInv, TypeOK
  <1>7. CallerStays'
    BY <1>1, <1>4 DEF IndInv, CallerStays, Clients
  <1>8. AnswersAreCurrent'
    BY <1>1, <1>4, <1>5 DEF IndInv, AnswersAreCurrent
  <1>9. EffectIsComplete'
    BY <1>1 DEF IndInv, EffectIsComplete
  <1>. QED BY <1>1, <1>6, <1>7, <1>8, <1>9 DEF IndInv

LEMMA ForceStep ==
  ASSUME IndInv, ForceYes \/ ForceNo
  PROVE  /\ IndInv' /\ effects' = effects /\ changing' = changing /\ ~changing
         /\ \/ vote.state = "ACTIVE" /\ vote'.state = "PASSED"
            \/ vote.state = "PASSED" /\ vote'.state = "EXECUTING"
            \/ /\ vote.state \in {"ACTIVE", "PASSED", "EXECUTING"}
               /\ vote'.state = "FAILED"
            \/ vote' = vote
  <1>0. vote \in VoteState /\ vote.state \in States
    BY DEF IndInv, TypeOK, VoteState
  <1>1. UNCHANGED <<client, phase, exiting, changing, effects, cast, calls>>
        /\ ~changing
    BY DEF ForceYes, ForceNo, AdminHere, Running
  <1>2. \/ vote.state = "ACTIVE" /\ vote' = TransitionVoteState(vote, "PASSED")
        \/ vote.state = "PASSED" /\ vote' = TransitionVoteState(vote, "EXECUTING")
        \/ vote' = TransitionVoteState(vote, "FAILED")
    BY DEF ForceYes, ForceNo
  <1>3. /\ vote' \in VoteState
        /\ \/ /\ vote.state = "ACTIVE" /\ vote'.state = "PASSED"
              /\ vote'.caller = vote.caller /\ vote'.command = vote.command
           \/ vote.state = "PASSED" /\ vote'.state = "EXECUTING"
           \/ /\ vote.state \in {"ACTIVE", "PASSED", "EXECUTING"}
              /\ vote'.state = "FAILED"
           \/ vote' = vote
    <2>1. CASE vote.state = "ACTIVE" /\ vote' = TransitionVoteState(vote, "PASSED")
      BY <1>0, <2>1, TransitionFacts, Transitions DEF States
    <2>2. CASE vote.state = "PASSED"
               /\ vote' = TransitionVoteState(vote, "EXECUTING")
      BY <1>0, <2>2, TransitionFacts, Transitions DEF States
    <2>3. CASE vote' = TransitionVoteState(vote, "FAILED")
      <3>1. vote.state \in {"ACTIVE", "PASSED", "EXECUTING"}
            <=> "FAILED" \in ValidTransitions[vote.state]
        BY <1>0, Transitions DEF States
      <3>. QED BY <1>0, <2>3, <3>1, TransitionFacts DEF States
    <2>. QED BY <1>2, <2>1, <2>2, <2>3
  <1>4. TypeOK'
    BY <1>1, <1>3 DEF IndInv, TypeOK
  <1>5. CallerStays'
    BY <1>1, <1>3 DEF IndInv, CallerStays
  <1>6. AnswersAreCurrent'
    BY <1>1, <1>3 DEF IndInv, AnswersAreCurrent
  <1>7. EffectIsComplete'
    BY <1>1, <1>3 DEF IndInv, EffectIsComplete
  <1>. QED BY <1>1, <1>3, <1>4, <1>5, <1>6, <1>7 DEF IndInv

-----------------------------------------------------------------------------
(* Invariance.                                                              *)

LEMMA InitIndInv == Init => IndInv
  <1>. SUFFICES ASSUME Init PROVE IndInv
    OBVIOUS
  <1>1. 0 \in 0..VoteLimit /\ 0 \in Choices /\ 0 \in 0..VoteLimit + 1
    BY NumbersAssumption DEF Choices
  <1>. DEFINE absent == [here |-> FALSE, playing |-> FALSE, retained |-> FALSE,
                         voted |-> 0, count |-> 0]
  <1>2. absent \in Client /\ absent.here = FALSE
    BY <1>1 DEF Client
  <1>3. client = [c \in Clients |-> absent]
    BY DEF Init
  <1>. HIDE DEF absent
  <1>4. client \in [Clients -> Client]
    BY <1>2, <1>3
  <1>5. NoVote \in VoteState /\ NoVote.state = "IDLE"
    BY NumbersAssumption DEF NoVote, VoteState, States
  <1>6. vote = NoVote /\ effects = 0
    BY DEF Init
  <1>7. TypeOK
    <2>1. cast \in [Clients -> Choices] /\ calls \in [Clients -> 0..VoteLimit + 1]
      BY <1>1 DEF Init
    <2>2. exiting \in BOOLEAN /\ changing \in BOOLEAN
      BY Zenon DEF Init
    <2>3. phase \in Phases /\ effects \in 0..1 /\ vote \in VoteState
      BY <1>5, <1>6 DEF Init, Phases
    <2>. QED BY <1>4, <2>1, <2>2, <2>3 DEF TypeOK
  <1>. QED BY <1>5, <1>6, <1>7
           DEF IndInv, CallerStays, AnswersAreCurrent, EffectIsComplete

LEMMA NextIndInv == IndInv /\ [Next]_vars => IndInv'
  <1>. SUFFICES ASSUME IndInv, [Next]_vars PROVE IndInv'
    OBVIOUS
  <1>1. CASE Frame
    BY <1>1, FrameStep
  <1>2. CASE ChangeLevel
    BY <1>2, ChangeLevelStep
  <1>3. CASE Match
    BY <1>3, QuietSteps DEF Match
  <1>4. CASE Administration
    BY <1>4, QuietSteps, ForceStep DEF Administration
  <1>5. ASSUME NEW c \in Clients, Connection(c) PROVE IndInv'
    BY <1>5, JoinStep, WaitStep, LeaveStep, QuietSteps DEF Connection
  <1>6. ASSUME NEW c \in Humans, Command(c) PROVE IndInv'
    BY <1>6, QuietSteps, CallVoteStep, CastVoteStep DEF Command
  <1>7. CASE UNCHANGED vars
    BY <1>7 DEF vars, IndInv, TypeOK, CallerStays, AnswersAreCurrent,
                EffectIsComplete
  <1>. QED BY <1>1, <1>2, <1>3, <1>4, <1>5, <1>6, <1>7 DEF Next

\* The inductive invariant holds in every reachable state.
THEOREM Invariance == Spec => []IndInv
  BY InitIndInv, NextIndInv, PTL DEF Spec

\* Every variable stays in its type: effects never exceeds one, ages and
\* deadlines never leave their ranges, quotas never exceed the limit.
THEOREM TypeCorrect == Spec => []TypeOK
  <1>1. IndInv => TypeOK
    BY DEF IndInv
  <1>. QED BY <1>1, Invariance, PTL

\* A vote that is open or waits for its execution has a command and a caller
\* who is connected.
THEOREM CallerIsConnected == Spec => []CallerStays
  <1>1. IndInv => CallerStays
    BY DEF IndInv
  <1>. QED BY <1>1, Invariance, PTL

\* Whatever is counted was answered to this vote by the person in the slot,
\* or by a player of the level before who waits for a spawn point.
THEOREM OnlyCurrentAnswersCount == Spec => []CountedAnswersAreCurrent
  <1>1. IndInv => CountedAnswersAreCurrent
    BY DEF IndInv, AnswersAreCurrent, CountedAnswersAreCurrent, Eligible, Clients
  <1>. QED BY <1>1, Invariance, PTL

\* A vote that failed, or is not there, has no effect.
THEOREM FailuresHaveNoEffect == Spec => []FailedHadNoEffect
  <1>1. IndInv => FailedHadNoEffect
    BY DEF IndInv, EffectIsComplete, FailedHadNoEffect
  <1>. QED BY <1>1, Invariance, PTL

-----------------------------------------------------------------------------
(* The count.                                                               *)

\* No more clients' answers are counted than were given to this vote or are
\* those of players who wait.
LEMMA CountedWereGiven ==
  ASSUME IndInv, vote.state = "ACTIVE", NEW choice \in {-1, 1}
  PROVE  /\ Cardinality(Answered(choice)) \in Nat
         /\ Cardinality(Voting(client, choice)) \in Nat
         /\ Cardinality(Voting(client, choice)) <= Cardinality(Answered(choice))
  <1>. DEFINE given == Answered(choice)
  <1>1. IsFiniteSet(given) /\ Cardinality(given) \in Nat
    BY EligibleFinite DEF Answered
  <1>2. Voting(client, choice) \subseteq given
    BY DEF IndInv, AnswersAreCurrent, Answered, Voting, Eligible, Clients
  <1>3. Cardinality(Voting(client, choice)) \in Nat
    BY EligibleFinite DEF Voting
  <1>. HIDE DEF given
  <1>4. Cardinality(Voting(client, choice)) <= Cardinality(given)
    BY <1>1, <1>2, FS_Subset
  <1>. QED BY <1>1, <1>3, <1>4 DEF given

\* A vote nobody forces passes only by the answers of more than half of
\* those who can vote at that moment, players who wait excepted.
THEOREM MajorityPasses == Spec => PassNeedsMajority
  <1>. DEFINE Passing == (Frame /\ vote.state = "ACTIVE" /\ vote'.state = "PASSED")
              Given == Answered(1)
  <1>1. ASSUME IndInv, Passing
        PROVE  2 * Cardinality(Given) > Cardinality(Eligible(client))
    <2>1. 2 * Cardinality(Voting(client, 1)) > Cardinality(Eligible(client))
      BY <1>1, FrameFacts
    <2>2. /\ Cardinality(Given) \in Nat /\ Cardinality(Voting(client, 1)) \in Nat
          /\ Cardinality(Voting(client, 1)) <= Cardinality(Given)
      BY <1>1, CountedWereGiven
    <2>3. Cardinality(Eligible(client)) \in Nat
      BY EligibleFinite
    <2>. QED BY <2>1, <2>2, <2>3
  <1>2. IndInv /\ [Next]_vars =>
          [Passing => 2 * Cardinality(Given) > Cardinality(Eligible(client))]_vars
    BY <1>1
  <1>. QED BY <1>2, Invariance, PTL DEF Spec, PassNeedsMajority

\* Before its time is up a vote is turned down by a frame only if half of
\* those who can vote, and at least one, have answered no, with the same
\* exception.
THEOREM HalfRejects == Spec => RejectionNeedsHalf
  <1>. DEFINE Failing == (Frame /\ vote.state = "ACTIVE" /\ vote'.state = "FAILED"
                          /\ vote.age < VoteFrames)
              Given == Answered(-1)
              Half == /\ Eligible(client) # {}
                      /\ 2 * Cardinality(Given) >= Cardinality(Eligible(client))
  <1>1. ASSUME IndInv, Failing
        PROVE  Half
    <2>1. vote.command # NoCommand /\ vote.caller # NoClient
      BY <1>1, CommandsAssumption, ClientsAssumption DEF IndInv, CallerStays
    <2>2. ~(vote.age >= VoteFrames)
      <3>1. vote.age \in 0..VoteFrames
        BY <1>1 DEF IndInv, TypeOK, VoteState
      <3>. QED BY <1>1, <3>1, NumbersAssumption
    <2>3. /\ Cardinality(Eligible(client)) # 0
          /\ 2 * Cardinality(Voting(client, -1)) >= Cardinality(Eligible(client))
      BY <1>1, <2>1, <2>2, FrameFacts
    <2>4. /\ Cardinality(Given) \in Nat /\ Cardinality(Voting(client, -1)) \in Nat
          /\ Cardinality(Voting(client, -1)) <= Cardinality(Given)
      BY <1>1, CountedWereGiven
    <2>5. Cardinality(Eligible(client)) \in Nat
      BY EligibleFinite
    <2>6. Eligible(client) # {}
      BY <2>3, FS_EmptySet
    <2>. QED BY <2>3, <2>4, <2>5, <2>6
  <1>2. IndInv /\ [Next]_vars => [Failing => Half]_vars
    BY <1>1
  <1>. QED BY <1>2, Invariance, PTL DEF Spec, RejectionNeedsHalf

-----------------------------------------------------------------------------
(* What a vote promises.                                                    *)

LEMMA StageFacts ==
  /\ vote.state = "IDLE" => Stage = "none"
  /\ vote.state = "ACTIVE" => Stage = "open"
  /\ vote.state \in {"PASSED", "EXECUTING"} => Stage = "accepted"
  /\ vote.state \in {"FAILED", "COMPLETE"} => Stage = "closed"
  BY DEF Stage

LEMMA NextStageFacts ==
  /\ vote'.state = "IDLE" => Stage' = "none"
  /\ vote'.state = "ACTIVE" => Stage' = "open"
  /\ vote'.state \in {"PASSED", "EXECUTING"} => Stage' = "accepted"
  /\ vote'.state \in {"FAILED", "COMPLETE"} => Stage' = "closed"
  BY DEF Stage

\* A step that is none of the vote's is one of Ballot's that leaves the level,
\* or none at all.
LEMMA OtherStep ==
  ASSUME vote'.state = vote.state, vote.state \in States, effects' = effects,
         \/ changing' = changing
         \/ ~changing /\ changing \in BOOLEAN /\ changing' \in BOOLEAN
  PROVE  [Promise!Next]_<<Stage, effects, changing>>
  <1>1. Stage' = Stage
    BY StageFacts, NextStageFacts DEF States
  <1>2. CASE changing' = changing
    BY <1>1, <1>2
  <1>3. CASE ~changing /\ changing \in BOOLEAN /\ changing' \in BOOLEAN
    <2>1. changing' = changing \/ Promise!Depart
      BY <1>1, <1>3 DEF Promise!Depart
    <2>. QED BY <1>1, <2>1 DEF Promise!Next
  <1>. QED BY <1>2, <1>3

LEMMA FramePromises ==
  ASSUME IndInv, Frame
  PROVE  [Promise!Next]_<<Stage, effects, changing>>
  <1>0. /\ vote.state \in States /\ (vote.state # "COMPLETE" => effects = 0)
        /\ ~changing /\ changing \in BOOLEAN /\ changing' \in BOOLEAN
        /\ effects' \in 0..1
    BY FrameFacts DEF IndInv, TypeOK, VoteState, EffectIsComplete
  <1>1. CASE vote'.state = vote.state /\ effects' = effects
    BY <1>0, <1>1, OtherStep
  <1>2. CASE vote.state = "ACTIVE" /\ vote'.state = "PASSED" /\ effects' = effects
    <2>1. Promise!Accept
      BY <1>0, <1>2, StageFacts, NextStageFacts DEF Promise!Accept, Promise!Step
    <2>. QED BY <2>1 DEF Promise!Next
  <1>3. CASE vote.state = "ACTIVE" /\ vote'.state = "FAILED" /\ effects' = effects
    <2>1. Promise!Reject
      BY <1>0, <1>3, StageFacts, NextStageFacts DEF Promise!Reject, Promise!Step
    <2>. QED BY <2>1 DEF Promise!Next
  <1>4. CASE vote.state = "PASSED" /\ vote'.state = "EXECUTING" /\ effects' = effects
    <2>1. Stage' = Stage
      BY <1>4, StageFacts, NextStageFacts
    <2>2. changing' = changing \/ Promise!Depart
      BY <1>0, <1>4, <2>1 DEF Promise!Depart
    <2>. QED BY <1>4, <2>1, <2>2 DEF Promise!Next
  <1>5. CASE /\ vote.state = "EXECUTING" /\ vote'.state \in {"COMPLETE", "FAILED"}
             /\ vote'.state = "FAILED" => effects' = 0
    <2>1. effects = 0 /\ Stage = "accepted" /\ Stage' = "closed"
      BY <1>0, <1>5, StageFacts, NextStageFacts
    <2>2. CASE effects' = 0
      <3>1. Promise!Reject
        BY <1>0, <2>1, <2>2 DEF Promise!Reject, Promise!Step
      <3>. QED BY <3>1 DEF Promise!Next
    <2>3. CASE effects' = 1
      <3>1. Promise!Enact
        BY <1>0, <2>1, <2>3 DEF Promise!Enact, Promise!Step
      <3>. QED BY <3>1 DEF Promise!Next
    <2>4. effects' = 0 \/ effects' = 1
      BY <1>0
    <2>. QED BY <2>2, <2>3, <2>4
  <1>6. CASE /\ vote.state \in {"FAILED", "COMPLETE"} /\ vote'.state = "IDLE"
             /\ effects' = 0
    <2>1. Promise!Close
      BY <1>0, <1>6, StageFacts, NextStageFacts DEF Promise!Close, Promise!Step
    <2>. QED BY <2>1 DEF Promise!Next
  <1>. QED BY <1>1, <1>2, <1>3, <1>4, <1>5, <1>6, FrameFacts

LEMMA StepPromises ==
  IndInv /\ [Next]_vars => [Promise!Next]_<<Stage, effects, changing>>
  <1>. SUFFICES ASSUME IndInv, [Next]_vars
                PROVE  [Promise!Next]_<<Stage, effects, changing>>
    OBVIOUS
  <1>0. vote.state \in States /\ changing \in BOOLEAN
        /\ (vote.state # "COMPLETE" => effects = 0)
    BY DEF IndInv, TypeOK, VoteState, EffectIsComplete
  <1>1. CASE Frame
    BY <1>1, FramePromises
  <1>2. CASE ChangeLevel
    <2>1. Stage' = "none" /\ changing /\ changing' = FALSE /\ effects' = 0
      BY <1>2, ChangeLevelStep, NextStageFacts DEF ChangeLevel
    <2>2. Promise!NewLevel
      BY <2>1 DEF Promise!NewLevel
    <2>. QED BY <2>2 DEF Promise!Next
  <1>3. ASSUME vote' = vote, effects' = effects, ~changing, changing' \in BOOLEAN
        PROVE  [Promise!Next]_<<Stage, effects, changing>>
    BY <1>0, <1>3, OtherStep
  <1>4. ASSUME vote' = vote, effects' = effects, changing' = changing
        PROVE  [Promise!Next]_<<Stage, effects, changing>>
    BY <1>0, <1>4, OtherStep
  <1>5. CASE Match
    BY <1>5, <1>3, QuietSteps DEF Match
  <1>6. ASSUME \/ vote.state = "ACTIVE" /\ vote'.state = "PASSED"
               \/ vote.state = "PASSED" /\ vote'.state = "EXECUTING"
               \/ /\ vote.state \in {"ACTIVE", "PASSED", "EXECUTING"}
                  /\ vote'.state = "FAILED"
               \/ vote' = vote,
               effects' = effects, changing' = changing, ~changing
        PROVE  [Promise!Next]_<<Stage, effects, changing>>
    <2>1. CASE vote.state = "ACTIVE" /\ vote'.state = "PASSED"
      <3>1. Promise!Accept
        BY <1>0, <1>6, <2>1, StageFacts, NextStageFacts
           DEF Promise!Accept, Promise!Step
      <3>. QED BY <3>1 DEF Promise!Next
    <2>2. CASE vote.state = "PASSED" /\ vote'.state = "EXECUTING"
      <3>1. Stage' = Stage
        BY <2>2, StageFacts, NextStageFacts
      <3>. QED BY <3>1, <1>6
    <2>3. CASE vote.state \in {"ACTIVE", "PASSED", "EXECUTING"}
               /\ vote'.state = "FAILED"
      <3>1. Promise!Reject
        BY <1>0, <1>6, <2>3, StageFacts, NextStageFacts
           DEF Promise!Reject, Promise!Step
      <3>. QED BY <3>1 DEF Promise!Next
    <2>4. CASE vote' = vote
      BY <1>4, <1>6, <2>4
    <2>. QED BY <1>6, <2>1, <2>2, <2>3, <2>4
  <1>7. CASE Administration
    BY <1>3, <1>6, <1>7, QuietSteps, ForceStep DEF Administration
  <1>8. ASSUME NEW c \in Clients, Connection(c)
        PROVE  [Promise!Next]_<<Stage, effects, changing>>
    <2>1. CASE Join(c)
      BY <2>1, <1>4 DEF Join
    <2>4. CASE Wait(c)
      BY <2>4, <1>4, WaitStep
    <2>2. CASE Leave(c)
      BY <2>2, <1>6, LeaveStep
    <2>3. CASE Respawn(c)
      BY <2>3, <1>3, QuietSteps
    <2>. QED BY <1>8, <2>1, <2>2, <2>3, <2>4 DEF Connection
  <1>9. ASSUME NEW c \in Humans, Command(c)
        PROVE  [Promise!Next]_<<Stage, effects, changing>>
    <2>1. CASE \E playing \in BOOLEAN : SetTeam(c, playing)
      BY <2>1, <1>3, QuietSteps
    <2>2. ASSUME NEW command \in Commands, CallVote(c, command)
          PROVE  [Promise!Next]_<<Stage, effects, changing>>
      <3>1. /\ vote.state = "IDLE" /\ vote'.state = "ACTIVE" /\ effects' = effects
            /\ changing' = changing /\ ~changing
        BY <2>2, CallVoteStep
      <3>2. Promise!Propose
        BY <1>0, <3>1, StageFacts, NextStageFacts DEF Promise!Propose, Promise!Step
      <3>. QED BY <3>2 DEF Promise!Next
    <2>3. ASSUME NEW choice \in {-1, 1}, CastVote(c, choice)
          PROVE  [Promise!Next]_<<Stage, effects, changing>>
      BY <2>3, <1>4, CastVoteStep
    <2>. QED BY <1>9, <2>1, <2>2, <2>3 DEF Command
  <1>10. CASE UNCHANGED vars
    BY <1>4, <1>10 DEF vars
  <1>. QED BY <1>1, <1>2, <1>5, <1>7, <1>8, <1>9, <1>10 DEF Next

\* The votes of the code implement Ballot: one at a time, an effect only
\* after the vote was accepted, at most once, and none if it failed.
THEOREM ImplementsBallot == Spec => KeepsPromise
  <1>1. Init => Promise!Init
    BY DEF Init, NoVote, Stage, Promise!Init
  <1>. QED BY <1>1, StepPromises, Invariance, PTL
           DEF Spec, KeepsPromise, Promise!Spec
=============================================================================
