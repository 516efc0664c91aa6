---------------------------- MODULE InstallProps ----------------------------
(* What must hold of the updater's writes to an installation.              *)
EXTENDS Install

\* Every variable has its type.
TypeOK ==
  /\ disk \in [Files -> Versions]
  /\ \A c \in Configs : disk[c] # "receipt"
  /\ pc \in Steps /\ next \in 1..Len(Plan) + 1
  /\ captured \in [Configs -> {"none", "old", "new"}]
  /\ backup \subseteq Configs
  /\ report \in {"none", "ok", "failed", "unrestored"}
  /\ owned \subseteq Configs /\ kept \subseteq Configs

\* What an operator wrote into a config is never lost: it is in its place or
\* in a backup directory, wherever an update stops, fails, fails to roll back
\* or is killed, and whatever updates follow.
ConfigsKept == \A c \in owned : disk[c] = "old" \/ c \in kept

\* The receipt of an installation is only found where every file of the
\* package is: it is the last thing written, and no failure leads to it.
\* (Configs may be edited afterwards.)
ReceiptMeansInstalled ==
  disk[Marker] = "receipt" =>
    \A f \in Files \ (Configs \cup {Marker}) : disk[f] = "new"

\* The host bundle as HostBundle sees it.
BundleStage ==
  IF pc \in {"idle", "stage", "capture"} THEN "settled"
  ELSE IF \A c \in Configs : disk[c] = "new" THEN "after"
  ELSE IF \A c \in Configs : disk[c] = captured[c] THEN "before"
  ELSE "mixed"

Bundle == INSTANCE HostBundle WITH stage <- BundleStage

\* Backup, copies, verification and rollback together keep the promise that
\* updater-guide.md makes: a reported update replaced the bundle, a reported
\* failure left it whole, unless the report says otherwise.
KeepsBundle == Bundle!Spec

\* "The updater reads the installed MuffMode version from" the marker and
\* "rewrites [it] after every successful update" (updater-guide.md:31-39): an
\* update that failed and put the old bundle back does not leave the new
\* version behind.
FailureKeepsVersion ==
  [][RollbackDone =>
       \/ disk[Marker] \in {"none", "old"}
       \/ \A c \in Configs : disk[c] = "new"]_vars

-----------------------------------------------------------------------------
(* The inductive invariant behind the three.                                *)

\* No config has been written yet, or all have been put back.
Untouched == \A c \in Configs : disk[c] = captured[c]

\* Whatever the copies will overwrite has its copy.
HasBackups == \A c \in Configs : BackupRequired(c) => c \in backup

\* The copies of this update are among those that keep the operator's
\* versions: nobody edits a config under the updater.
BackupsCount == pc \notin {"idle", "stage", "capture"} => backup \subseteq kept

\* What the updater knows at each of its steps; the loops, turn by turn.
Progress ==
  /\ pc \in {"configs", "dll"} => Untouched
  /\ pc = "configs" =>
       \A j \in InPlan : j < next /\ Plan[j] \in Configs /\ BackupRequired(Plan[j])
                         => Plan[j] \in backup
  /\ pc \in {"dll", "copy", "verify", "rollback"} => HasBackups
  /\ pc = "copy" =>
       \A j \in InPlan :
         /\ j < next => disk[Plan[j]] = "new"
         /\ j >= next /\ Plan[j] \in Configs => disk[Plan[j]] = captured[Plan[j]]
  /\ pc \in {"verify", "rollback"} =>
       \A c \in Configs : disk[c] \in {captured[c], "new"}
  /\ pc = "rollback" =>
       \A j \in InPlan : j < next /\ Plan[j] \in Configs
                         => disk[Plan[j]] = captured[Plan[j]]
  /\ pc \in {"receipt", "check", "handoff"} =>
       \A f \in Files : disk[f] = "new" \/ f = Marker

Inv ==
  TypeOK /\ ConfigsKept /\ ReceiptMeansInstalled /\ BackupsCount /\ Progress
=============================================================================
