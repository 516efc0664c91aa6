---------------------------- MODULE ProfileProps ----------------------------
(* What the profiles promise (docs/configuration-reference.md, "Persistent *)
(* player profiles", and the comments of mm_player_stats.cpp).             *)
EXTENDS Profile

Documents == [kind : {"missing", "ok", "corrupt", "newer"}, config : Config,
              rating : Nat, results : Seq(Nat)]

Sessions == [conn : {"out", "fresh", "retained", "in"}, ready : BOOLEAN,
             config : Config, rating : Nat]

Results == [serial : Nat, rating : Nat, config : Config]

\* The variables have their types.
TypeOK ==
  /\ doc \in [Player -> Documents]
  /\ sess \in [Player -> Sessions]
  /\ serial \in Nat /\ open \in BOOLEAN /\ unrated \in BOOLEAN
  /\ ledger \in [Player -> [serial : Nat, rating : Nat]]
  /\ results \in [Player -> Seq(Results)] /\ robin \in Seq(Player)
  /\ resultWait \in [Player -> Nat] /\ prefWait \in [Player -> Nat]
  /\ dirty \in [Player -> SUBSET Field] /\ cached \in [Player -> Config]
  /\ order \in Seq(Player) /\ tried \subseteq Player
  /\ chosen \in [Player -> [Field -> Value \union {Unset}]]
  /\ budget \in Nat

Serials(p) == [i \in DOMAIN results[p] |-> results[p][i].serial]

\* A result is counted at most once and in the order of the matches, however
\* often its write is retried: what the document has counted and what waits
\* to be counted are the serials of different matches, oldest first.
CountedOnce ==
  \A p \in Player :
    LET all == doc[p].results \o Serials(p) IN
    \A i, j \in DOMAIN all : i < j => all[i] < all[j]

\* The history d of a document and the results r that wait continue each
\* other, and none is of a match to come, nor of match n while it is running
\* for this player.
Continues(d, r, n, running) ==
  /\ \A i, j \in DOMAIN d : i < j => d[i] < d[j]
  /\ \A i, j \in DOMAIN r : i < j => r[i].serial < r[j].serial
  /\ \A i \in DOMAIN d, j \in DOMAIN r : d[i] < r[j].serial
  /\ \A i \in DOMAIN d : d[i] <= n /\ (running => d[i] < n)
  /\ \A j \in DOMAIN r : r[j].serial <= n /\ (running => r[j].serial < n)

\* What makes it so: a match gives a player one result, and the ledger says
\* who has had it.
Once ==
  \A p \in Player :
    Continues(doc[p].results, results[p], serial, open /\ ledger[p].serial # serial)

\* Each of P, and nobody else, has exactly one place in the line s.
InLine(s, P) == IsInjective(s) /\ Range(s) = P

\* Whoever has something to be written has one place in the line of those
\* whose turn comes, however often his writes fail; and preferences wait for
\* no more players than the cache may hold.
EveryoneInLine ==
  /\ InLine(robin, {p \in Player : results[p] # <<>>})
  /\ InLine(order, {p \in Player : dirty[p] # {}})
  /\ Len(order) <= CacheLimit

\* "Match-result failures retain the exact computed result": one that waits
\* goes on waiting until the document has it, or the process ends.
ResultKept ==
  [][\A p \in Player : \A i \in DOMAIN Serials(p) :
       LET r == results[p][i] IN
       \/ phase' = "down"
       \/ \E j \in DOMAIN results'[p] : results'[p][j] = r
       \/ /\ doc'[p].kind = "ok" /\ doc'[p].rating = r.rating
          /\ \E j \in DOMAIN doc'[p].results : doc'[p].results[j] = r.serial]_vars

\* "Delayed work from one connection cannot overwrite an unrelated setting
\* written elsewhere": this server changes a document that is there only
\* in fields that its owner changed here, and to what he chose.
OthersKept ==
  [][\A p \in Player, f \in Field :
       (/\ doc[p].kind = "ok" /\ doc'[p].kind = "ok"
        /\ doc'[p].config[f] # doc[p].config[f]
        /\ server' # server)
       => f \in dirty[p] /\ doc'[p].config[f] = cached[p][f]]_vars

\* An accepted choice is not lost to a failed write, a later choice of
\* something else, a result written in between, a reload or a rebuilt
\* document: it waits or is saved, and a session with a profile shows it.
ChoiceKept ==
  \A p \in Player, f \in Field : chosen[p][f] # Unset =>
    /\ \/ f \in dirty[p] /\ cached[p][f] = chosen[p][f]
       \/ doc[p].kind = "ok" /\ doc[p].config[f] = chosen[p][f]
    /\ sess[p].ready => sess[p].config[f] = chosen[p][f]

\* What makes it so: what waits to be saved is what has been chosen.
ChoiceWaits ==
  \A p \in Player, f \in Field :
    f \in dirty[p] /\ chosen[p][f] # Unset => cached[p][f] = chosen[p][f]

\* A profile read while the last settlement of its owner waits to be written
\* does not take that settlement out of his rating.
LastSettlementShown ==
  \A p \in Player :
    sess[p].conn # "out" /\ ExactPending(p) => sess[p].rating >= ledger[p].rating

\* "... so a stale profile read cannot roll back an in-memory rating awaiting
\* retry" (mm_player_stats.cpp:1171): while the failed write of a result of
\* his waits to be retried, a load does not give a player less than its
\* rating.
NoRollback ==
  [][\A p \in Player : \A i \in DOMAIN results[p] :
       resultWait[p] > 0 /\ sess'[p].conn # sess[p].conn /\ sess'[p].ready
       => sess'[p].rating >= results[p][i].rating]_vars

\* Nothing waits but for documents that can never be written.
AllWritten ==
  \A p \in Player :
    (dirty[p] = {} /\ results[p] = <<>>) \/ doc[p].kind = "newer"

\* What waits is written once the disk permits, and another's document that
\* can never be written does not stand in its way: again and again nothing
\* else waits, unless the players keep leaving the server empty and it runs
\* no frames any more.
Drained ==
  \/ []<>AllWritten
  \/ []<>~Occupied /\ <>[][phase' # "profiles"]_vars
=============================================================================
