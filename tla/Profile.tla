------------------------------ MODULE Profile ------------------------------
(***************************************************************************)
(* The profiles of the players (mm_client_profile.cpp) and the settlement  *)
(* of matches into them (mm_player_stats.cpp).  One document per identity, *)
(* shared with other servers under a file lock; two caches in the memory   *)
(* of this server, one of changed preferences and one of match results,    *)
(* which the frames write back, one attempt each, and a shutdown drains.   *)
(*                                                                         *)
(* What a write does is one step: the lock is held from the reading of the *)
(* document to its atomic replacement.  A rating is the number of rated    *)
(* results it includes, so an older one is a smaller one.  There is one    *)
(* gametype; who has begun plays; a duel's forfeit, reservations and the   *)
(* import of older files are left out.  retry_in_progress and the          *)
(* generation test cannot be told apart from their absence in a server     *)
(* that runs its frames on one thread, and are left out too.               *)
(***************************************************************************)
EXTENDS Naturals, FiniteSets, FiniteSetsExt, SequencesExt

CONSTANTS
  Player,         \* the identities that can have a profile
  Field, Value,   \* preferences and what they can be set to
  Default,        \* the value of a new profile
  Unset,          \* no choice
  CacheLimit,     \* k_max_pending_preference_snapshots
  QueueLimit,     \* MM_PLAYER_STATS_PENDING_SETTLEMENT_LIMIT
  DebounceFrames, RetryFrames,             \* the two delays, in frames
  MaxEvents       \* bound on matches, choices, failures, restarts and what
                  \* others do, all together

ASSUME ValueAssumption == Default \in Value /\ Unset \notin Value
ASSUME PlayerAssumption == IsFiniteSet(Player)
ASSUME LimitAssumption ==
  /\ CacheLimit \in Nat /\ QueueLimit \in Nat
  /\ DebounceFrames \in Nat /\ RetryFrames \in Nat
  /\ MaxEvents \in Nat

VARIABLES
  doc,        \* player: the document
  sess,       \* player: the session on this server
  serial, open, unrated,    \* s_match_serial, s_match_open and why not to rate
  ledger,     \* player: s_settled_players
  results,    \* player: its s_pending_profile_settlements, oldest first
  robin,      \* s_profile_retry_round_robin
  resultWait, \* player: frames until its first result may be tried
  dirty,      \* player: dirty_mask; empty when nothing is pending
  cached,     \* player: the configuration to be saved
  prefWait,   \* player: frames until it may be tried
  order,      \* who has something to save, by generation
  phase,      \* what the server does next
  tried,      \* identities a drain has done with
  chosen,     \* history: choices accepted and not overwritten from outside
  budget      \* what is left of MaxEvents

prefs    == <<dirty, cached, prefWait, order>>
queue    == <<results, robin, resultWait>>
match    == <<serial, open, unrated, ledger>>
vars     == <<doc, sess, match, queue, prefs, phase, tried, chosen, budget>>

Config == [Field -> Value]

NewConfig == [f \in Field |-> Default]

\* No document; also what CreateProfile starts from.
Blank == [kind |-> "missing", config |-> NewConfig, rating |-> 0, results |-> <<>>]

\* A fresh client_session_t, and the end of one.
Fresh == [conn |-> "fresh", ready |-> FALSE, config |-> NewConfig, rating |-> 0]

Gone == [Fresh EXCEPT !.conn = "out"]

Spend == budget > 0 /\ budget' = budget - 1

(***************************************************************************)
(* A document under its lock.                                              *)
(***************************************************************************)
\* Mutant: a save writes every preference it holds.
MergeAll(old, new, mask) == IF mask = {} THEN old ELSE new

\* StoreConfigSnapshot.
Merge(old, new, mask) == [f \in Field |-> IF f \in mask THEN new[f] ELSE old[f]]

\* MM_ClientProfilePreferenceMergeMask, for someone with unsaved changes.
MergeMask(p) ==
  IF doc[p].kind # "ok" /\ dirty[p] # {} THEN Field ELSE dirty[p]

Existing(p) == IF doc[p].kind = "ok" THEN doc[p] ELSE [Blank EXCEPT !.kind = "ok"]

\* What a load or a save of preferences makes of the document.
Saved(p) == [Existing(p) EXCEPT !.config = Merge(@, cached[p], MergeMask(p))]

\* MM_ClientProfilePersistMatchResult; a lost document is rebuilt from the
\* preferences the player had when the match was settled.
Counted(p) ==
  LET r    == Head(results[p])
      base == IF doc[p].kind = "ok" THEN doc[p].config ELSE r.config
  IN  [Existing(p) EXCEPT !.config  = Merge(base, cached[p], dirty[p]),
                          !.rating  = r.rating,
                          !.results = Append(@, r.serial)]

\* How an attempt ends: done; refused before anything is touched (no lock, no
\* read, a newer schema); or not written, with a bad document put away.
Outcomes == {"done", "refused", "unwritten"}

\* Mutant: a write that is not known to be durable is taken for a failure.
AttemptUnsure(p, new, outcome) ==
  \/ outcome = "done" /\ doc[p].kind # "newer"
     /\ doc' = [doc EXCEPT ![p] = new] /\ UNCHANGED budget
  \/ outcome = "refused" /\ UNCHANGED doc
     /\ IF doc[p].kind = "newer" THEN UNCHANGED budget ELSE Spend
  \/ outcome = "unwritten" /\ doc[p].kind # "newer" /\ new # doc[p]
     /\ doc' = [doc EXCEPT ![p] = new] /\ Spend

\* MM_ClientProfileLoad, PersistPendingPreference and PersistMatchResult as
\* far as they are alike.
Attempt(p, new, outcome) ==
  \/ /\ outcome = "done" /\ doc[p].kind # "newer"
     /\ doc' = [doc EXCEPT ![p] = new] /\ UNCHANGED budget
  \/ /\ outcome = "refused" /\ UNCHANGED doc
     /\ IF doc[p].kind = "newer" THEN UNCHANGED budget ELSE Spend
  \/ /\ outcome = "unwritten" /\ doc[p].kind # "newer" /\ new # doc[p]
     /\ doc' = [doc EXCEPT ![p] = IF @.kind = "corrupt" THEN Blank ELSE @]
     /\ Spend

(***************************************************************************)
(* The preferences not yet saved.                                          *)
(***************************************************************************)
\* MarkPendingPreferencePersisted; Clean is the part that is not a deadline.
Clean(p) ==
  /\ dirty' = [dirty EXCEPT ![p] = {}]
  /\ cached' = [cached EXCEPT ![p] = NewConfig]
  /\ order' = RemoveFirst(order, p)

Persisted(p) == Clean(p) /\ prefWait' = [prefWait EXCEPT ![p] = 0]

HasRoom(p) == dirty[p] # {} \/ Len(order) < CacheLimit

\* Mutant: only the last change is remembered.
QueueLast(p, config, f) ==
  /\ dirty' = [dirty EXCEPT ![p] = {f}]
  /\ cached' = [cached EXCEPT ![p] = config]
  /\ prefWait' = [prefWait EXCEPT ![p] = DebounceFrames]
  /\ order' = Append(RemoveFirst(order, p), p)

\* QueuePreferenceSave.
QueueSave(p, config, f) ==
  /\ dirty' = [dirty EXCEPT ![p] = @ \union {f}]
  /\ cached' = [cached EXCEPT ![p] = config]
  /\ prefWait' = [prefWait EXCEPT ![p] = IF @ > DebounceFrames THEN @ ELSE DebounceFrames]
  /\ order' = Append(RemoveFirst(order, p), p)

\* MM_PConfigSetBool and its kin; without a profile or without room in the
\* cache the change lasts for the session only.
SetPreference(p, f, v) ==
  LET config   == [sess[p].config EXCEPT ![f] = v]
      accepted == sess[p].ready /\ HasRoom(p)
  IN
  /\ phase = "idle" /\ sess[p].conn = "in" /\ sess[p].config[f] # v
  /\ Spend
  /\ sess' = [sess EXCEPT ![p].config = config]
  /\ chosen' = [chosen EXCEPT ![p][f] = IF accepted THEN v ELSE Unset]
  /\ IF accepted THEN QueueSave(p, config, f) ELSE UNCHANGED prefs
  /\ UNCHANGED <<doc, match, queue, phase, tried>>

(***************************************************************************)
(* Sessions.                                                               *)
(***************************************************************************)
\* The last settlement of this player waits to be written.
ExactPending(p) ==
  \E i \in DOMAIN results[p] : results[p][i].serial = ledger[p].serial

\* Mutant: the ledger is believed in its own match only.
RecordedInMatch(p, rating) ==
  IF ledger[p].serial = serial /\ serial > 0 /\ open THEN ledger[p].rating ELSE rating

\* ApplyRecordedSettlement, when a profile has been loaded.
Recorded(p, rating) ==
  IF (ledger[p].serial = serial /\ serial > 0 /\ open) \/ ExactPending(p)
  THEN ledger[p].rating ELSE rating

\* MM_ClientInitPConfig and MM_PlayerStats_OnProfileLoaded, over the session
\* that was there; a failed load keeps it and puts the unsaved changes on it.
Load(p, old, conn, outcome) ==
  LET done == outcome = "done" IN
  /\ Attempt(p, Saved(p), outcome)
  /\ IF done THEN Persisted(p) ELSE UNCHANGED prefs
  /\ sess' = [sess EXCEPT ![p] =
       [conn   |-> conn, ready |-> done,
        config |-> IF done THEN Saved(p).config
                   ELSE Merge(old.config, cached[p], dirty[p]),
        rating |-> Recorded(p, IF done THEN Saved(p).rating ELSE old.rating)]]
  /\ UNCHANGED <<match, queue, phase, tried, chosen>>

\* ClientConnect.
Connect(p, outcome) ==
  /\ phase = "idle" /\ sess[p].conn = "out"
  /\ Load(p, Fresh, "fresh", outcome)

\* ClientBegin, of a new client or of one retained over a change of level.
Begin(p, outcome) ==
  /\ phase = "idle" /\ sess[p].conn \in {"fresh", "retained"}
  /\ Load(p, sess[p], "in", outcome)

(***************************************************************************)
(* Settling a match.                                                       *)
(***************************************************************************)
\* CollectParticipants.
Participants == {p \in Player : sess[p].conn = "in" /\ ledger[p].serial # serial}

Unready == \E p \in Player : sess[p].conn = "in" /\ ~sess[p].ready

\* MM_PlayerStatsPendingQueueCanAdmit.
CanAdmit(P) ==
  MapThenSumSet(LAMBDA p : Len(results[p]), Player)
    + Cardinality({p \in P : sess[p].ready}) <= QueueLimit

Rating(p, rated) == sess[p].rating + (IF rated THEN 1 ELSE 0)

Result(p, rated) ==
  [serial |-> serial, rating |-> Rating(p, rated), config |-> sess[p].config]

\* EnqueueProfileSettlement.
Enqueue(P, rated) ==
  LET new == {p \in P : results[p] = <<>>} IN
  /\ results' = [p \in Player |-> IF p \in P THEN Append(results[p], Result(p, rated))
                                  ELSE results[p]]
  /\ robin' = robin \o SetToSeq(new)
  /\ UNCHANGED resultWait

\* SettleParticipant for each of P; what is admitted goes to the profiles.
Settle(P, admitted, rated) ==
  /\ Enqueue({p \in P : admitted /\ sess[p].ready}, rated)
  /\ ledger' = [p \in Player |-> IF p \in P
                  THEN [serial |-> serial, rating |-> Rating(p, rated)] ELSE ledger[p]]

\* MM_PlayerStats_OnMatchStart, with PruneSettledPlayerHistory.
MatchStart ==
  /\ phase = "idle" /\ ~open /\ Spend
  /\ serial' = serial + 1 /\ open' = TRUE /\ unrated' = Unready
  /\ ledger' = [p \in Player |-> IF results[p] # <<>> THEN ledger[p] ELSE [serial |-> 0, rating |-> 0]]
  /\ UNCHANGED <<doc, sess, queue, prefs, phase, tried, chosen>>

\* MM_PlayerStats_OnMatchEnd, with a contest or without.
MatchEnd(contest) ==
  LET P        == Participants
      admitted == contest /\ CanAdmit(P)
      rated    == admitted /\ Cardinality(P) > 1 /\ ~unrated /\ ~Unready
  IN
  /\ phase = "idle" /\ open /\ open' = FALSE
  /\ Settle(P, admitted, rated)
  /\ sess' = [p \in Player |-> IF p \in P THEN [sess[p] EXCEPT !.rating = Rating(p, rated)] ELSE sess[p]]
  /\ UNCHANGED <<doc, serial, unrated, prefs, phase, tried, chosen, budget>>

\* SettleDeparture, of somebody who plays and is not settled: an abandoned
\* match if there was somebody to play against, and nobody is rated any more.
Abandon(p) ==
  /\ unrated' = TRUE
  /\ Settle({p}, /\ sess[p].conn = "in" /\ Cardinality(Participants) > 1
                 /\ CanAdmit({p}), FALSE)
  /\ UNCHANGED <<serial, open>>

\* ClientDisconnect.
Disconnect(p) ==
  /\ phase = "idle" /\ sess[p].conn # "out"
  /\ IF open /\ sess[p].conn # "fresh" /\ ledger[p].serial # serial
     THEN Abandon(p) ELSE UNCHANGED <<match, queue>>
  /\ sess' = [sess EXCEPT ![p] = Gone]
  /\ UNCHANGED <<doc, prefs, phase, tried, chosen, budget>>

\* SpawnEntities: an open match is void, and every client begins again.
LevelChange ==
  /\ phase = "idle" /\ \E p \in Player : sess[p].conn = "in"
  /\ IF open THEN Settle(Participants, FALSE, FALSE) /\ open' = FALSE
     ELSE UNCHANGED <<ledger, open, queue>>
  /\ sess' = [p \in Player |-> IF sess[p].conn = "in"
                THEN [sess[p] EXCEPT !.conn = "retained"] ELSE sess[p]]
  /\ UNCHANGED <<doc, serial, unrated, prefs, phase, tried, chosen, budget>>

(***************************************************************************)
(* Writing back: G_RunFrame and ShutdownGame.                              *)
(***************************************************************************)
\* Mutant: who has failed is not put back in the line.
DropsFailed(p, s) == <<>>

\* An identity that has been visited goes to the back while it has results.
Requeued(p, s) == IF s = <<>> THEN <<>> ELSE <<p>>

\* Mutant: the result is given up when the write fails.
LeftAnyway(p, done) == Tail(results[p])

\* What a player has waiting after an attempt for his first result.
Left(p, done) == IF done THEN Tail(results[p]) ELSE results[p]

\* PersistPendingProfileSettlement for the first result of p, and what
\* RetryPendingProfileSettlements does next; before are those passed over,
\* and wait the deadlines that were not over.
TryResult(p, before, rest, wait, outcome) ==
  LET done == outcome = "done"
      left == Left(p, done)
  IN
  /\ Attempt(p, Counted(p), outcome)
  /\ results' = [results EXCEPT ![p] = left]
  /\ robin' = rest \o before \o Requeued(p, left)
  /\ resultWait' = [q \in Player |->
       IF q = p THEN (IF done THEN 0 ELSE RetryFrames) ELSE wait[q]]
  /\ IF done THEN Persisted(p) ELSE UNCHANGED prefs

\* The one of those ready that is tried.
Foremost(ready) == {i \in ready : \A j \in ready : i <= j}

Nearer(wait) == [p \in Player |-> IF wait[p] > 0 THEN wait[p] - 1 ELSE 0]

Due == {i \in DOMAIN robin : resultWait[robin[i]] <= 1}

\* MM_PlayerStats_RunFrame, in a frame that brings the deadlines nearer: one
\* attempt, for the first in line whose deadline is over; those before it go
\* to the back.
StatsFrame(outcome) ==
  /\ phase = "idle" /\ phase' = "profiles"
  /\ \/ /\ Foremost(Due) = {} /\ outcome = "done"
        /\ resultWait' = Nearer(resultWait)
        /\ UNCHANGED <<doc, results, robin, prefs, budget>>
     \/ \E i \in Foremost(Due) :
          TryResult(robin[i], SubSeq(robin, 1, i - 1),
                    SubSeq(robin, i + 1, Len(robin)), Nearer(resultWait), outcome)
  /\ UNCHANGED <<sess, match, tried, chosen>>

\* PersistPendingPreference and FinishPreferenceRetry.
TryPreference(p, wait, outcome) ==
  LET done == outcome = "done" IN
  /\ Attempt(p, Saved(p), outcome)
  /\ prefWait' = [wait EXCEPT ![p] = IF done THEN 0 ELSE RetryFrames]
  /\ IF done THEN Clean(p) ELSE UNCHANGED <<dirty, cached, order>>

\* BeginPreferenceRetry: the oldest generation among those ready.
DuePreference == {i \in DOMAIN order : prefWait[order[i]] <= 1}

\* MM_ClientProfile_RunFrame.
ProfileFrame(outcome) ==
  /\ phase = "profiles" /\ phase' = "idle"
  /\ \/ /\ Foremost(DuePreference) = {} /\ outcome = "done"
        /\ prefWait' = Nearer(prefWait)
        /\ UNCHANGED <<doc, dirty, cached, order, budget>>
     \/ \E i \in Foremost(DuePreference) :
          TryPreference(order[i], Nearer(prefWait), outcome)
  /\ UNCHANGED <<sess, match, queue, tried, chosen>>

\* The memory of the process is gone.
Forgotten ==
  /\ sess' = [p \in Player |-> Gone]
  /\ open' = FALSE /\ unrated' = FALSE /\ UNCHANGED serial
  /\ ledger' = [p \in Player |-> [serial |-> 0, rating |-> 0]]
  /\ results' = [p \in Player |-> <<>>] /\ robin' = <<>>
  /\ resultWait' = [p \in Player |-> 0] /\ prefWait' = [p \in Player |-> 0]
  /\ dirty' = [p \in Player |-> {}] /\ order' = <<>>
  /\ cached' = [p \in Player |-> NewConfig]
  /\ chosen' = [p \in Player |-> [f \in Field |->
       IF f \in dirty[p] THEN Unset ELSE chosen[p][f]]]
  /\ phase' = "down" /\ tried' = {} /\ UNCHANGED doc

Crash == phase # "down" /\ Spend /\ Forgotten

\* ShutdownGame.
Shutdown ==
  /\ phase = "idle" /\ Spend /\ phase' = "drainResults"
  /\ UNCHANGED <<doc, sess, match, queue, prefs, tried, chosen>>

\* MM_PlayerStats_Shutdown: deadlines are ignored, and every identity is
\* tried until it fails or has nothing left.
DrainResults(outcome) ==
  LET able == {i \in DOMAIN robin : robin[i] \notin tried} IN
  /\ phase = "drainResults"
  /\ \/ /\ able = {} /\ outcome = "done"
        /\ phase' = "drainProfiles" /\ tried' = {}
        /\ UNCHANGED <<doc, queue, prefs, budget>>
     \/ \E i \in Foremost(able) :
          /\ TryResult(robin[i], SubSeq(robin, 1, i - 1),
                       SubSeq(robin, i + 1, Len(robin)), resultWait, outcome)
          /\ tried' = IF outcome = "done" THEN tried ELSE tried \union {robin[i]}
          /\ UNCHANGED phase
  /\ UNCHANGED <<sess, match, chosen>>

\* MM_ClientProfile_Shutdown: everybody once, and the process ends.
DrainProfiles(outcome) ==
  LET able == {i \in DOMAIN order : order[i] \notin tried} IN
  /\ phase = "drainProfiles"
  /\ \/ able = {} /\ outcome = "done" /\ Forgotten /\ UNCHANGED budget
     \/ \E i \in Foremost(able) :
          /\ TryPreference(order[i], prefWait, outcome)
          /\ tried' = tried \union {order[i]}
          /\ UNCHANGED <<sess, match, queue, phase, chosen>>

Start ==
  /\ phase = "down" /\ phase' = "idle"
  /\ UNCHANGED <<doc, sess, match, queue, prefs, tried, chosen, budget>>

(***************************************************************************)
(* The other servers and the disk.                                         *)
(***************************************************************************)
server == <<sess, match, queue, prefs, phase, tried>>

\* Another server changes one preference.
ForeignSave(p, f, v) ==
  /\ Spend /\ doc[p].kind = "ok" /\ doc[p].config[f] # v
  /\ doc' = [doc EXCEPT ![p].config[f] = v]
  /\ chosen' = [chosen EXCEPT ![p][f] = Unset]
  /\ UNCHANGED server

\* The document is removed or spoilt, or written by a newer release; what
\* had been saved there is nobody's to keep any more.
Replaced(p, kind) ==
  /\ Spend /\ doc[p].kind = "ok"
  /\ doc' = [doc EXCEPT ![p] = [Blank EXCEPT !.kind = kind]]
  /\ chosen' = [chosen EXCEPT ![p] = [f \in Field |->
       IF f \in dirty[p] THEN @[f] ELSE Unset]]
  /\ UNCHANGED server

(***************************************************************************)
(* The specification.                                                      *)
(***************************************************************************)
Init ==
  /\ doc = [p \in Player |-> Blank]
  /\ sess = [p \in Player |-> Gone]
  /\ serial = 0 /\ open = FALSE /\ unrated = FALSE
  /\ ledger = [p \in Player |-> [serial |-> 0, rating |-> 0]]
  /\ results = [p \in Player |-> <<>>] /\ robin = <<>>
  /\ resultWait = [p \in Player |-> 0] /\ prefWait = [p \in Player |-> 0]
  /\ dirty = [p \in Player |-> {}] /\ order = <<>>
  /\ cached = [p \in Player |-> NewConfig]
  /\ phase = "idle" /\ tried = {}
  /\ chosen = [p \in Player |-> [f \in Field |-> Unset]]
  /\ budget = MaxEvents

Clients ==
  \/ \E p \in Player : Disconnect(p)
  \/ \E p \in Player, outcome \in Outcomes : Connect(p, outcome) \/ Begin(p, outcome)
  \/ \E p \in Player, f \in Field, v \in Value : SetPreference(p, f, v)
  \/ MatchStart
  \/ \E contest \in BOOLEAN : MatchEnd(contest)
  \/ LevelChange

\* G_RunFrame_ calls both pumps; a frame is run in these two steps.
Frame == \E outcome \in Outcomes : StatsFrame(outcome)

Unfinished ==
  \E outcome \in Outcomes :
    ProfileFrame(outcome) \/ DrainResults(outcome) \/ DrainProfiles(outcome)

Pumps == Frame \/ Unfinished

Process == Crash \/ Shutdown \/ Start

Others ==
  \E p \in Player :
    \/ \E f \in Field, v \in Value : ForeignSave(p, f, v)
    \/ \E kind \in {"missing", "corrupt", "newer"} : Replaced(p, kind)

Next == Clients \/ Pumps \/ Process \/ Others

Spec == Init /\ [][Next]_vars

\* Somebody has begun, so G_RunFrame does not skip the frame.  A timeout or a
\* reservation, neither of them here, lets an empty server run it too.
Occupied == \E p \in Player : sess[p].conn = "in"

\* The server keeps running frames while it is occupied, and goes on with a
\* frame or a shutdown it has begun to its end.
FairSpec == Spec /\ WF_vars(Occupied /\ Frame) /\ WF_vars(Unfinished)
=============================================================================
