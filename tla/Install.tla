------------------------------ MODULE Install ------------------------------
(***************************************************************************)
(* How the updater puts a release package into a Quake II folder: the part *)
(* of SyncReleaseToInstallAsync that writes to the installation, with the  *)
(* backup of the operator's configs before it, the rollback after a        *)
(* failure, the receipt at the end, and an updater that can die between    *)
(* any two steps.                                                          *)
(*                                                                         *)
(* A file is replaced atomically (a temporary file, flushed, verified and  *)
(* renamed), so what is on the disk is described by which version each     *)
(* path holds, seen from the release being installed: "new" is byte for    *)
(* byte what the package has, "old" is anything else, "none" no file.  The *)
(* version marker is itself a file of the package; "receipt" is the marker *)
(* the updater writes over it at the end.  Everything before the first     *)
(* write (download, extraction, validation, the tests for a running game   *)
(* and for disk space) either ends the update or lets it begin.            *)
(***************************************************************************)
EXTENDS Naturals, Sequences

CONSTANTS
  Files,      \* the paths of the package, without the running updater
  Plan,       \* the install plan: the files in the order they are copied
  Configs,    \* IsServerConfigInstallFile: what the operator edits
  Marker      \* muffmode-version.json

ASSUME PlanAssumption ==
  /\ Plan \in Seq(Files) /\ Len(Plan) > 0
  /\ \A f \in Files : \E j \in 1..Len(Plan) : Plan[j] = f
  /\ \A j, k \in 1..Len(Plan) : Plan[j] = Plan[k] => j = k

ASSUME RolesAssumption == Configs \subseteq Files /\ Marker \in Files \ Configs

VARIABLES
  disk,       \* the version every path holds
  pc,         \* what the updater does next; "idle": no update runs
  next,       \* index into the plan of the loop that runs
  captured,   \* serverConfigRollbackFiles: the versions found at the start
  backup,     \* the configs in configBackupDirectory of this update
  report,     \* how the last update ended
  owned,      \* history: configs of which the operator has a version
  kept        \* history: those whose version is in some backup directory

vars == <<disk, pc, next, captured, backup, report, owned, kept>>
history == <<owned, kept>>

Versions == {"none", "old", "new", "receipt"}
Steps == {"idle", "stage", "capture", "configs", "dll", "copy", "verify",
          "rollback", "receipt", "check", "handoff"}

InPlan == 1..Len(Plan)

Init ==
  /\ disk \in [Files -> {"none", "old"}]
  /\ pc = "idle" /\ next = 1
  /\ captured = [c \in Configs |-> "none"] /\ backup = {}
  /\ report = "none"
  /\ owned = {c \in Configs : disk[c] = "old"} /\ kept = {}

\* The update ends and tells the user so.
End(r) == pc' = "idle" /\ report' = r

-----------------------------------------------------------------------------
(* The operator and the world.                                              *)

\* A config is edited, or put back from a backup; never in the middle of an
\* update.
Edit(c) ==
  /\ pc = "idle"
  /\ disk' = [disk EXCEPT ![c] = "old"]
  /\ owned' = owned \cup {c} /\ kept' = kept \ {c}
  /\ UNCHANGED <<pc, next, captured, backup, report>>

Remove(c) ==
  /\ pc = "idle"
  /\ disk' = [disk EXCEPT ![c] = "none"]
  /\ owned' = owned \ {c} /\ kept' = kept \ {c}
  /\ UNCHANGED <<pc, next, captured, backup, report>>

\* A newer release is published: what is installed is old.
Publish ==
  /\ pc = "idle"
  /\ disk' = [f \in Files |-> IF disk[f] = "none" THEN "none" ELSE "old"]
  /\ UNCHANGED <<pc, next, captured, backup, report, owned, kept>>

\* The updater, or the machine, dies.  Nothing takes up the update again.
Crash ==
  /\ pc # "idle" /\ End("none")
  /\ UNCHANGED <<disk, next, captured, backup, owned, kept>>

-----------------------------------------------------------------------------
(* The update, up to the first replaced file.                               *)

\* The package is extracted and trusted; the game is closed.
Start ==
  /\ pc = "idle" /\ pc' = "stage" /\ report' = "none"
  /\ UNCHANGED <<disk, next, captured, backup, owned, kept>>

\* The replacement of the running updater is staged beside the installation.
StagePendingSelfUpdate ==
  /\ pc = "stage"
  /\ \/ pc' = "capture" /\ UNCHANGED report
     \/ End("failed")
  /\ UNCHANGED <<disk, next, captured, backup, owned, kept>>

CaptureServerConfigRollbackFiles ==
  /\ pc = "capture" /\ pc' = "configs" /\ next' = 1
  /\ captured' = [c \in Configs |-> disk[c]] /\ backup' = {}
  /\ UNCHANGED <<disk, report, owned, kept>>

\* Mutant: what matches the package is backed up, not what differs from it.
BackupRequiredIfSame(c) == captured[c] = "new"

\* BackupRequired: what the copy would overwrite with something else.
BackupRequired(c) == captured[c] = "old"

\* One turn of the loop that copies the configs into a fresh directory.
BackupConfig ==
  /\ pc = "configs" /\ next \in InPlan
  /\ LET f == Plan[next] IN
       IF f \in Configs /\ BackupRequired(f)
       THEN backup' = backup \cup {f} /\ kept' = kept \cup {f}
       ELSE UNCHANGED <<backup, kept>>
  /\ next' = next + 1
  /\ UNCHANGED <<disk, pc, captured, report, owned>>

BackupFails ==
  /\ pc = "configs" /\ End("failed")
  /\ UNCHANGED <<disk, next, captured, backup, owned, kept>>

BackupsDone ==
  /\ pc = "configs" /\ next \notin InPlan /\ pc' = "dll"
  /\ UNCHANGED <<disk, next, captured, backup, report, owned, kept>>

\* BackupCurrentGameDll: an error here is not yet one to roll back.
BackupCurrentGameDll ==
  /\ pc = "dll" /\ next' = 1
  /\ \/ pc' = "copy" /\ UNCHANGED report
     \/ End("failed")
  /\ UNCHANGED <<disk, captured, backup, owned, kept>>

-----------------------------------------------------------------------------
(* The copies, and the way back.                                            *)

Copied(f) == disk' = [disk EXCEPT ![f] = "new"]

\* CopyFileAtomically: the copy, its rename and its verification.
CopyFile ==
  /\ pc = "copy" /\ next \in InPlan
  /\ Copied(Plan[next]) /\ next' = next + 1
  /\ UNCHANGED <<pc, captured, backup, report, owned, kept>>

\* It fails before the rename, or after it, when the installed file cannot be
\* verified.
CopyFails ==
  /\ pc = "copy" /\ next \in InPlan
  /\ Copied(Plan[next]) \/ UNCHANGED disk
  /\ pc' = "rollback" /\ next' = 1
  /\ UNCHANGED <<captured, backup, report, owned, kept>>

CopiesDone ==
  /\ pc = "copy" /\ next \notin InPlan /\ pc' = "verify"
  /\ UNCHANGED <<disk, next, captured, backup, report, owned, kept>>

\* VerifyInstallPlanApplied: a file may be locked against its verification.
VerifyInstallPlanApplied ==
  /\ pc = "verify" /\ next' = 1
  /\ \/ (\A f \in Files : disk[f] = "new") /\ pc' = "receipt"
     \/ pc' = "rollback"
  /\ UNCHANGED <<disk, captured, backup, report, owned, kept>>

\* Mutant: configs the release brought are not taken away again.
RolledBackKeepsAdded(c) == IF captured[c] = "old" THEN "old" ELSE "new"

\* What RollbackServerConfigs leaves of a config: a file the release brought
\* is deleted, one that equalled the package's stays or is copied from it,
\* one that was backed up is copied back.
RolledBack(c) ==
  CASE captured[c] = "none" -> "none"
    [] captured[c] = "new"  -> "new"
    [] OTHER                -> "old"

\* Without a backup, and for a new file that changed meanwhile, it throws.
MayRollBack(c) ==
  /\ captured[c] = "old" => c \in backup
  /\ captured[c] = "none" => disk[c] \in {"none", "new"}

Restored(c) == MayRollBack(c) /\ disk' = [disk EXCEPT ![c] = RolledBack(c)]

RollbackServerConfig ==
  /\ pc = "rollback" /\ next \in InPlan
  /\ IF Plan[next] \in Configs THEN Restored(Plan[next]) ELSE UNCHANGED disk
  /\ next' = next + 1
  /\ UNCHANGED <<pc, captured, backup, report, owned, kept>>

\* It fails before the config is restored, or after it, when the file cannot
\* be verified or be given its attributes.
RollbackFails ==
  /\ pc = "rollback" /\ next \in InPlan /\ Plan[next] \in Configs
  /\ Restored(Plan[next]) \/ UNCHANGED disk
  /\ End("unrestored")
  /\ UNCHANGED <<next, captured, backup, owned, kept>>

\* Mutant: after the rollback the error is not thrown again.
RollbackGoesOn ==
  /\ pc = "rollback" /\ next \notin InPlan /\ pc' = "receipt"
  /\ UNCHANGED <<disk, next, captured, backup, report, owned, kept>>

RollbackDone ==
  /\ pc = "rollback" /\ next \notin InPlan /\ End("failed")
  /\ UNCHANGED <<disk, next, captured, backup, owned, kept>>

-----------------------------------------------------------------------------
(* The end of the update.                                                   *)

WriteInstalledMarker ==
  /\ pc = "receipt"
  /\ \/ disk' = [disk EXCEPT ![Marker] = "receipt"] /\ pc' = "check" /\ UNCHANGED report
     \/ (UNCHANGED disk \/ disk' = [disk EXCEPT ![Marker] = "receipt"]) /\ End("failed")
  /\ UNCHANGED <<next, captured, backup, owned, kept>>

VerifyInstalledMarker ==
  /\ pc = "check"
  /\ \/ pc' = "handoff" /\ UNCHANGED report
     \/ End("failed")
  /\ UNCHANGED <<disk, next, captured, backup, owned, kept>>

\* LaunchPendingSelfUpdate, if a new updater was staged, and the last word.
Finish ==
  /\ pc = "handoff"
  /\ End("ok") \/ End("failed")
  /\ UNCHANGED <<disk, next, captured, backup, owned, kept>>

Next ==
  \/ \E c \in Configs : Edit(c) \/ Remove(c)
  \/ Publish \/ Crash
  \/ Start \/ StagePendingSelfUpdate \/ CaptureServerConfigRollbackFiles
  \/ BackupConfig \/ BackupFails \/ BackupsDone \/ BackupCurrentGameDll
  \/ CopyFile \/ CopyFails \/ CopiesDone \/ VerifyInstallPlanApplied
  \/ RollbackServerConfig \/ RollbackFails \/ RollbackDone
  \/ WriteInstalledMarker \/ VerifyInstalledMarker \/ Finish

Spec == Init /\ [][Next]_vars
=============================================================================
