----------------------------- MODULE VoteProps -----------------------------
(* What must hold of votes, in terms of the code of mm_vote.cpp.           *)
EXTENDS Vote

\* Every field stays in its type: the state machine, the vote's deadlines
\* and the answers and quotas of the clients.
TypeOK ==
  /\ vote \in VoteState
  /\ client \in [Clients -> Client]
  /\ phase \in Phases /\ exiting \in BOOLEAN /\ changing \in BOOLEAN
  /\ effects \in 0..1
  /\ cast \in [Clients -> Choices]
  /\ calls \in [Clients -> 0..VoteLimit + 1]

\* While a vote can still be answered or awaits its execution, it has a
\* command, and the client who called it is connected: nobody who takes over
\* the slot of a caller who left inherits the vote.
CallerStays ==
  vote.state \in {"ACTIVE", "PASSED"} =>
    /\ vote.command \in Commands
    /\ vote.caller \in Humans
    /\ client[vote.caller].here

\* What UpdateActiveVote counts was answered to this vote, by the person now
\* in the slot: neither an answer to an earlier vote nor one of a client who
\* left is ever counted, whatever spawns, leaves or arrives in between.  The
\* code falls short of this for one who came along from another level and
\* waits for a spawn point: there an old answer is counted.
CountedAnswersAreCurrent ==
  vote.state = "ACTIVE" =>
    \A c \in Eligible(client) :
      client[c].retained \/ client[c].voted \in {0, cast[c]}

\* Those who can vote and have given this answer to this vote, or wait for a
\* spawn point and may have given it to another.
Answered(choice) ==
  {c \in Eligible(client) : client[c].retained \/ cast[c] = choice}

\* A vote that failed, by count, by timeout, by its caller's leaving, by an
\* administrator or by its own command, has had no effect.
FailedHadNoEffect == vote.state \in {"FAILED", "IDLE"} => effects = 0

\* A vote that is not forced passes only when more than half of the humans
\* who can vote at that moment have answered yes to it, those who wait for
\* a spawn point excepted.
PassNeedsMajority ==
  [][ (Frame /\ vote.state = "ACTIVE" /\ vote'.state = "PASSED") =>
        2 * Cardinality(Answered(1)) > Cardinality(Eligible(client)) ]_vars

\* Before its time is up a vote is only turned down by a frame when at least
\* half of the humans who can vote have answered no, with the same exception,
\* and there are any: an emptied electorate decides nothing.
RejectionNeedsHalf ==
  [][ (Frame /\ vote.state = "ACTIVE" /\ vote'.state = "FAILED"
       /\ vote.age < VoteFrames) =>
        /\ Eligible(client) # {}
        /\ 2 * Cardinality(Answered(-1)) >= Cardinality(Eligible(client)) ]_vars

\* The vote as its players see it, and what it promises: one at a time, an
\* effect only after it was accepted, at most once, never after it failed.
Stage ==
  CASE vote.state = "IDLE"   -> "none"
    [] vote.state = "ACTIVE" -> "open"
    [] vote.state \in {"PASSED", "EXECUTING"}  -> "accepted"
    [] vote.state \in {"FAILED", "COMPLETE"}   -> "closed"

Promise == INSTANCE Ballot WITH
             stage <- Stage, effects <- effects, leaving <- changing

\* The state machine, with its forced transitions, its revalidation at
\* execution and the levels that end under it, implements Ballot.
KeepsPromise == Promise!Spec

\* Every vote ends, and the next may be called, as long as somebody has
\* spawned: neither an electorate that left nor an answer that is missing
\* nor a command that fails keeps MM_CheckVote in a state for ever.
VoteEnds ==
  vote.state # "IDLE" ~> vote.state = "IDLE" \/ Spawned(client) = {}

\* server-host-guide.md:426 says of g_vote_limit "Maximum votes per client
\* per match".
LimitPerMatch == VoteLimit > 0 => \A c \in Clients : calls[c] <= VoteLimit
=============================================================================
