---------------------------- MODULE InstallProofs ----------------------------
(***************************************************************************)
(* Proofs about Install for every package, plan and set of configs: the    *)
(* invariant of InstallProps, one lemma per action, and the refinement of  *)
(* HostBundle.                                                             *)
(***************************************************************************)
EXTENDS InstallProps, TLAPS

LEMMA PlanFacts ==
  /\ Len(Plan) \in Nat /\ 1 \in 1..Len(Plan)
  /\ \A j \in InPlan : Plan[j] \in Files
  /\ \A f \in Files : \E j \in InPlan : Plan[j] = f
  /\ \A j, k \in InPlan : Plan[j] = Plan[k] => j = k
BY PlanAssumption DEF InPlan

LEMMA RoleFacts ==
  Configs \subseteq Files /\ Marker \in Files /\ Marker \notin Configs
BY RolesAssumption

\* The loops stop exactly behind the plan.
LEMMA NextFacts ==
  ASSUME TypeOK
  PROVE  /\ next \notin InPlan => next = Len(Plan) + 1
         /\ next \in InPlan => next + 1 \in 1..Len(Plan) + 1
         /\ 1 \in 1..Len(Plan) + 1
BY PlanFacts DEF TypeOK, InPlan

LEMMA InitInv == Init => Inv
BY PlanFacts, RoleFacts
   DEF Init, Inv, TypeOK, ConfigsKept, ReceiptMeansInstalled, BackupsCount,
       Progress, Versions, Steps

-----------------------------------------------------------------------------
(* The operator, the world and the crash.                                   *)

LEMMA EditInv ==
  ASSUME Inv, NEW c \in Configs, Edit(c) PROVE Inv'
<1> USE RoleFacts, PlanFacts
<1>1. TypeOK' BY DEF Inv, TypeOK, Edit, Versions, Steps
<1>2. ConfigsKept' BY DEF Inv, TypeOK, ConfigsKept, Edit
<1>3. ReceiptMeansInstalled' BY DEF Inv, TypeOK, ReceiptMeansInstalled, Edit
<1>4. BackupsCount' BY DEF Inv, BackupsCount, Edit
<1>5. Progress' BY DEF Inv, Progress, Edit
<1> QED BY <1>1, <1>2, <1>3, <1>4, <1>5 DEF Inv

LEMMA RemoveInv ==
  ASSUME Inv, NEW c \in Configs, Remove(c) PROVE Inv'
<1> USE RoleFacts, PlanFacts
<1>1. TypeOK' BY DEF Inv, TypeOK, Remove, Versions, Steps
<1>2. ConfigsKept' BY DEF Inv, TypeOK, ConfigsKept, Remove
<1>3. ReceiptMeansInstalled' BY DEF Inv, TypeOK, ReceiptMeansInstalled, Remove
<1>4. BackupsCount' BY DEF Inv, BackupsCount, Remove
<1>5. Progress' BY DEF Inv, Progress, Remove
<1> QED BY <1>1, <1>2, <1>3, <1>4, <1>5 DEF Inv

LEMMA PublishInv ==
  ASSUME Inv, Publish PROVE Inv'
<1> USE RoleFacts, PlanFacts
<1>1. TypeOK' BY DEF Inv, TypeOK, Publish, Versions, Steps
<1>2. ConfigsKept' BY DEF Inv, TypeOK, ConfigsKept, Publish
<1>3. ReceiptMeansInstalled' BY DEF Inv, TypeOK, ReceiptMeansInstalled, Publish
<1>4. BackupsCount' BY DEF Inv, BackupsCount, Publish
<1>5. Progress' BY DEF Inv, Progress, Publish
<1> QED BY <1>1, <1>2, <1>3, <1>4, <1>5 DEF Inv

\* What all steps share that only move the updater on.
LEMMA IdleInv ==
  ASSUME Inv, pc' = "idle", report' \in {"none", "ok", "failed", "unrestored"},
         UNCHANGED <<disk, next, captured, backup, owned, kept>>
  PROVE  Inv'
<1>1. TypeOK' BY DEF Inv, TypeOK, Steps
<1>2. ConfigsKept' /\ ReceiptMeansInstalled'
  BY DEF Inv, ConfigsKept, ReceiptMeansInstalled
<1>3. BackupsCount' /\ Progress' BY DEF Inv, BackupsCount, Progress
<1> QED BY <1>1, <1>2, <1>3 DEF Inv

LEMMA CrashInv == ASSUME Inv, Crash PROVE Inv'
BY IdleInv DEF Crash, End

-----------------------------------------------------------------------------
(* Up to the first replaced file.                                           *)

LEMMA StartInv == ASSUME Inv, Start PROVE Inv'
<1>1. TypeOK' BY DEF Inv, TypeOK, Start, Steps
<1>2. ConfigsKept' /\ ReceiptMeansInstalled'
  BY DEF Inv, ConfigsKept, ReceiptMeansInstalled, Start
<1>3. BackupsCount' /\ Progress' BY DEF Inv, BackupsCount, Progress, Start
<1> QED BY <1>1, <1>2, <1>3 DEF Inv

LEMMA StagePendingSelfUpdateInv ==
  ASSUME Inv, StagePendingSelfUpdate PROVE Inv'
<1>1. CASE pc' = "capture"
  <2>1. TypeOK' BY <1>1 DEF Inv, TypeOK, StagePendingSelfUpdate, Steps, End
  <2>2. ConfigsKept' /\ ReceiptMeansInstalled'
    BY DEF Inv, ConfigsKept, ReceiptMeansInstalled, StagePendingSelfUpdate
  <2>3. BackupsCount' /\ Progress' BY <1>1 DEF Inv, BackupsCount, Progress
  <2> QED BY <2>1, <2>2, <2>3 DEF Inv
<1>2. CASE End("failed") BY <1>2, IdleInv DEF StagePendingSelfUpdate, End
<1> QED BY <1>1, <1>2 DEF StagePendingSelfUpdate

LEMMA CaptureInv ==
  ASSUME Inv, CaptureServerConfigRollbackFiles PROVE Inv'
<1> USE DEF CaptureServerConfigRollbackFiles
<1>1. TypeOK'
  <2>1. \A c \in Configs : disk[c] \in {"none", "old", "new"}
    BY RoleFacts DEF Inv, TypeOK, Versions
  <2>2. captured' \in [Configs -> {"none", "old", "new"}] BY <2>1
  <2> QED BY <2>2, PlanFacts DEF Inv, TypeOK, Steps
<1>2. ConfigsKept' /\ ReceiptMeansInstalled'
  BY DEF Inv, ConfigsKept, ReceiptMeansInstalled
<1>3. BackupsCount' BY DEF BackupsCount
<1>4. Progress'
  <2>1. \A j \in InPlan : ~(j < 1) BY PlanFacts DEF InPlan
  <2>2. Untouched' BY RoleFacts DEF Inv, TypeOK, Untouched
  <2> QED BY <2>1, <2>2 DEF Progress
<1> QED BY <1>1, <1>2, <1>3, <1>4 DEF Inv

LEMMA BackupConfigInv == ASSUME Inv, BackupConfig PROVE Inv'
<1> USE DEF BackupConfig
<1> DEFINE f == Plan[next]
<1>1. f \in Files BY PlanFacts
<1>2. backup \subseteq backup' /\ kept \subseteq kept' OBVIOUS
<1>3. TypeOK' BY <1>1, NextFacts DEF Inv, TypeOK, Steps
<1>4. ConfigsKept' /\ ReceiptMeansInstalled'
  BY <1>2 DEF Inv, ConfigsKept, ReceiptMeansInstalled
<1>5. BackupsCount' BY DEF Inv, BackupsCount
<1>6. Progress'
  <2>1. Untouched' BY DEF Inv, Progress, Untouched
  <2>2. ASSUME NEW j \in InPlan, j < next + 1, Plan[j] \in Configs,
               BackupRequired(Plan[j])
        PROVE  Plan[j] \in backup'
    <3>1. CASE j < next BY <3>1, <2>2, <1>2 DEF Inv, Progress
    <3>2. CASE j = next BY <3>2, <2>2
    <3> QED BY <3>1, <3>2, <2>2 DEF InPlan, Inv, TypeOK
  <2> QED BY <2>1, <2>2 DEF Progress, BackupRequired
<1> QED BY <1>3, <1>4, <1>5, <1>6 DEF Inv

LEMMA BackupsDoneInv == ASSUME Inv, BackupsDone PROVE Inv'
<1> USE DEF BackupsDone
<1>1. TypeOK' BY DEF Inv, TypeOK, Steps
<1>2. ConfigsKept' /\ ReceiptMeansInstalled'
  BY DEF Inv, ConfigsKept, ReceiptMeansInstalled
<1>3. BackupsCount' BY DEF Inv, BackupsCount
<1>4. Progress'
  <2>1. ASSUME NEW c \in Configs, BackupRequired(c) PROVE c \in backup
    <3>1. PICK j \in InPlan : Plan[j] = c BY PlanFacts, RoleFacts
    <3>2. j < next BY NextFacts DEF Inv, InPlan
    <3> QED BY <3>1, <3>2, <2>1 DEF Inv, Progress
  <2> QED BY <2>1 DEF Inv, Progress, Untouched, HasBackups, BackupRequired
<1> QED BY <1>1, <1>2, <1>3, <1>4 DEF Inv

LEMMA BackupCurrentGameDllInv == ASSUME Inv, BackupCurrentGameDll PROVE Inv'
<1> USE DEF BackupCurrentGameDll
<1>1. TypeOK' BY PlanFacts DEF Inv, TypeOK, Steps, End
<1>2. ConfigsKept' /\ ReceiptMeansInstalled'
  BY DEF Inv, ConfigsKept, ReceiptMeansInstalled
<1>3. BackupsCount' BY DEF Inv, BackupsCount, End
<1>4. Progress'
  <2>1. HasBackups' BY DEF Inv, Progress, HasBackups, BackupRequired
  <2>2. \A j \in InPlan : ~(j < 1) BY PlanFacts DEF InPlan
  <2>3. Untouched' BY DEF Inv, Progress, Untouched
  <2> QED BY <2>1, <2>2, <2>3 DEF Progress, Untouched, End
<1> QED BY <1>1, <1>2, <1>3, <1>4 DEF Inv
-----------------------------------------------------------------------------
(* The copies and the way back.                                             *)

\* A copy overwrites nothing that is not backed up.
LEMMA CopiedKeeps ==
  ASSUME Inv, pc = "copy", next \in InPlan, Copied(Plan[next]),
         UNCHANGED <<captured, backup, owned, kept>>
  PROVE  /\ disk' \in [Files -> Versions]
         /\ \A c \in Configs : disk'[c] # "receipt"
         /\ ConfigsKept' /\ ReceiptMeansInstalled'
<1> DEFINE f == Plan[next]
<1>1. f \in Files BY PlanFacts
<1>2. \A g \in Files : disk'[g] = IF g = f THEN "new" ELSE disk[g]
  BY <1>1 DEF Copied, Inv, TypeOK
<1>3. disk' \in [Files -> Versions]
  BY <1>1 DEF Copied, Inv, TypeOK, Versions
<1>4. \A c \in Configs : disk'[c] # "receipt" BY <1>2, RoleFacts DEF Inv, TypeOK
<1>5. ASSUME NEW c \in owned PROVE disk'[c] = "old" \/ c \in kept
  <2>1. c \in Configs /\ c \in Files BY <1>5, RoleFacts DEF Inv, TypeOK
  <2>2. CASE c # f BY <2>1, <2>2, <1>2, <1>5 DEF Inv, ConfigsKept
  <2>3. CASE c = f
    <3>1. next \in InPlan /\ next >= next BY PlanFacts DEF Inv, TypeOK, InPlan
    <3>2. disk[c] = captured[c] BY <2>1, <2>3, <3>1 DEF Inv, Progress
    <3>3. CASE disk[c] = "old"
      <4>1. c \in backup BY <3>2, <3>3, <2>1 DEF Inv, Progress, HasBackups, BackupRequired
      <4> QED BY <4>1 DEF Inv, BackupsCount
    <3>4. CASE disk[c] # "old" BY <3>4, <1>5 DEF Inv, ConfigsKept
    <3> QED BY <3>3, <3>4
  <2> QED BY <2>2, <2>3
<1>6. ReceiptMeansInstalled' BY <1>2, RoleFacts DEF Inv, ReceiptMeansInstalled
<1> QED BY <1>3, <1>4, <1>5, <1>6 DEF ConfigsKept

LEMMA CopyFileInv == ASSUME Inv, CopyFile PROVE Inv'
<1> USE DEF CopyFile
<1> DEFINE f == Plan[next]
<1>1. f \in Files BY PlanFacts
<1>2. \A g \in Files : disk'[g] = IF g = f THEN "new" ELSE disk[g]
  BY <1>1 DEF Copied, Inv, TypeOK
<1>3. TypeOK' BY CopiedKeeps, NextFacts DEF Inv, TypeOK
<1>4. ConfigsKept' /\ ReceiptMeansInstalled' BY CopiedKeeps
<1>5. BackupsCount' BY DEF Inv, BackupsCount
<1>6. Progress'
  <2>1. HasBackups' BY DEF Inv, Progress, HasBackups, BackupRequired
  <2>2. ASSUME NEW j \in InPlan, j < next + 1 PROVE disk'[Plan[j]] = "new"
    <3>1. CASE j < next BY <3>1, <1>2, PlanFacts DEF Inv, Progress
    <3>2. CASE j = next BY <3>2, <1>1, <1>2
    <3> QED BY <3>1, <3>2, <2>2 DEF InPlan, Inv, TypeOK
  <2>3. ASSUME NEW j \in InPlan, j >= next + 1, Plan[j] \in Configs
        PROVE  disk'[Plan[j]] = captured[Plan[j]]
    <3>1. j >= next /\ j # next BY <2>3 DEF InPlan, Inv, TypeOK
    <3>2. Plan[j] # f /\ Plan[j] \in Files BY <3>1, PlanFacts
    <3> QED BY <3>1, <3>2, <1>2, <2>3 DEF Inv, Progress
  <2> QED BY <2>1, <2>2, <2>3 DEF Progress
<1> QED BY <1>3, <1>4, <1>5, <1>6 DEF Inv

\* In the loop of the copies a config is as it was found or as it is shipped.
LEMMA CopyStates ==
  ASSUME Inv, pc = "copy"
  PROVE  \A c \in Configs : disk[c] \in {captured[c], "new"}
<1> TAKE c \in Configs
<1>1. PICK j \in InPlan : Plan[j] = c BY PlanFacts, RoleFacts
<1>2. j < next \/ j >= next BY DEF Inv, TypeOK, InPlan
<1> QED BY <1>1, <1>2 DEF Inv, Progress

LEMMA CopyFailsInv == ASSUME Inv, CopyFails PROVE Inv'
<1> USE DEF CopyFails
<1>1. CASE Copied(Plan[next])
  <2>1. TypeOK' BY <1>1, CopiedKeeps, PlanFacts DEF Inv, TypeOK, Steps
  <2>2. ConfigsKept' /\ ReceiptMeansInstalled' BY <1>1, CopiedKeeps
  <2> QED
    <3>1. BackupsCount' BY DEF Inv, BackupsCount
    <3>2. HasBackups' BY DEF Inv, Progress, HasBackups, BackupRequired
    <3>3. \A c \in Configs : disk'[c] \in {captured[c], "new"}
      BY <1>1, CopyStates, RoleFacts DEF Copied, Inv, TypeOK
    <3>4. \A j \in InPlan : ~(j < 1) BY PlanFacts DEF InPlan
    <3>5. Progress' BY <3>2, <3>3, <3>4 DEF Progress
    <3> QED BY <2>1, <2>2, <3>1, <3>5 DEF Inv
<1>2. CASE UNCHANGED disk
  <2>1. TypeOK' BY <1>2, PlanFacts DEF Inv, TypeOK, Steps
  <2>2. ConfigsKept' /\ ReceiptMeansInstalled'
    BY <1>2 DEF Inv, ConfigsKept, ReceiptMeansInstalled
  <2>3. BackupsCount' BY DEF Inv, BackupsCount
  <2>4. HasBackups' BY DEF Inv, Progress, HasBackups, BackupRequired
  <2>5. \A c \in Configs : disk'[c] \in {captured[c], "new"} BY <1>2, CopyStates
  <2>6. \A j \in InPlan : ~(j < 1) BY PlanFacts DEF InPlan
  <2>7. Progress' BY <2>4, <2>5, <2>6 DEF Progress
  <2> QED BY <2>1, <2>2, <2>3, <2>7 DEF Inv
<1> QED BY <1>1, <1>2

LEMMA CopiesDoneInv == ASSUME Inv, CopiesDone PROVE Inv'
<1> USE DEF CopiesDone
<1>1. TypeOK' BY DEF Inv, TypeOK, Steps
<1>2. ConfigsKept' /\ ReceiptMeansInstalled'
  BY DEF Inv, ConfigsKept, ReceiptMeansInstalled
<1>3. BackupsCount' BY DEF Inv, BackupsCount
<1>4. HasBackups' BY DEF Inv, Progress, HasBackups, BackupRequired
<1>5. Progress' BY <1>4, CopyStates DEF Progress
<1> QED BY <1>1, <1>2, <1>3, <1>5 DEF Inv

LEMMA VerifyInstallPlanAppliedInv ==
  ASSUME Inv, VerifyInstallPlanApplied PROVE Inv'
<1> USE DEF VerifyInstallPlanApplied
<1>1. TypeOK' BY PlanFacts DEF Inv, TypeOK, Steps
<1>2. ConfigsKept' /\ ReceiptMeansInstalled'
  BY DEF Inv, ConfigsKept, ReceiptMeansInstalled
<1>3. BackupsCount' BY DEF Inv, BackupsCount
<1>4. HasBackups' BY DEF Inv, Progress, HasBackups, BackupRequired
<1>5. \A c \in Configs : disk'[c] \in {captured'[c], "new"} BY DEF Inv, Progress
<1>6. \A j \in InPlan : ~(j < 1) BY PlanFacts DEF InPlan
<1>7. Progress' BY <1>4, <1>5, <1>6 DEF Progress
<1> QED BY <1>1, <1>2, <1>3, <1>7 DEF Inv

\* A config that may be rolled back is again what was found.
LEMMA RolledBackFacts ==
  ASSUME Inv, NEW c \in Configs PROVE RolledBack(c) = captured[c]
<1>1. captured[c] \in {"none", "old", "new"} BY DEF Inv, TypeOK
<1>2. CASE captured[c] = "none" BY <1>2 DEF RolledBack
<1>3. CASE captured[c] = "new" BY <1>3 DEF RolledBack
<1>4. CASE captured[c] = "old" BY <1>4 DEF RolledBack
<1> QED BY <1>1, <1>2, <1>3, <1>4

\* Putting a config back loses nothing of the operator's.
LEMMA RestoredKeeps ==
  ASSUME Inv, pc = "rollback", next \in InPlan, UNCHANGED <<owned, kept>>,
         Plan[next] \in Configs, Restored(Plan[next])
  PROVE  /\ \A g \in Files : g # Plan[next] => disk'[g] = disk[g]
         /\ disk'[Plan[next]] = captured[Plan[next]]
         /\ disk' \in [Files -> Versions]
         /\ \A c \in Configs : disk'[c] # "receipt"
         /\ ConfigsKept' /\ ReceiptMeansInstalled'
<1> DEFINE f == Plan[next]
<1>1. f \in Files BY PlanFacts
<1>2. \A g \in Files : g # f => disk'[g] = disk[g]
  BY DEF Inv, TypeOK, Restored
<1>3. disk'[f] = captured[f] /\ (captured[f] = "old" => f \in backup)
  BY <1>1, RolledBackFacts DEF Inv, TypeOK, MayRollBack, Restored
<1>4. disk' \in [Files -> Versions]
  <2>1. RolledBack(f) \in Versions BY RolledBackFacts DEF Inv, TypeOK, Versions
  <2> QED BY <2>1, <1>1 DEF Inv, TypeOK, Restored
<1>5. \A c \in Configs : disk'[c] # "receipt"
  BY <1>2, <1>3, RoleFacts DEF Inv, TypeOK
<1>6. ConfigsKept'
  <2>1. SUFFICES ASSUME NEW c \in owned PROVE disk'[c] = "old" \/ c \in kept
    BY DEF ConfigsKept
  <2>2. c \in Configs /\ c \in Files BY RoleFacts DEF Inv, TypeOK
  <2>3. CASE c # f BY <2>2, <2>3, <1>2 DEF Inv, ConfigsKept
  <2>4. CASE c = f
    <3>1. disk[c] = "old" \/ c \in kept BY DEF Inv, ConfigsKept
    <3>2. CASE disk[c] = "old"
      BY <3>2, <2>2, <2>4, <1>3 DEF Inv, Progress
    <3> QED BY <3>1, <3>2
  <2> QED BY <2>3, <2>4
<1>7. ReceiptMeansInstalled'
  BY <1>1, <1>2, RoleFacts DEF Inv, ReceiptMeansInstalled
<1> QED BY <1>2, <1>3, <1>4, <1>5, <1>6, <1>7

LEMMA RollbackServerConfigInv ==
  ASSUME Inv, RollbackServerConfig PROVE Inv'
<1> USE DEF RollbackServerConfig
<1> DEFINE f == Plan[next]
<1>1. f \in Files BY PlanFacts
<1>2. /\ \A g \in Files : g # f => disk'[g] = disk[g]
      /\ f \in Configs => disk'[f] = captured[f]
      /\ disk' \in [Files -> Versions]
      /\ \A c \in Configs : disk'[c] # "receipt"
      /\ ConfigsKept' /\ ReceiptMeansInstalled'
  <2>1. CASE f \in Configs BY <2>1, RestoredKeeps
  <2>2. CASE f \notin Configs
    <3>1. UNCHANGED <<disk, owned, kept>> BY <2>2
    <3> QED BY <2>2, <3>1 DEF Inv, TypeOK, ConfigsKept, ReceiptMeansInstalled
  <2> QED BY <2>1, <2>2
<1>3. TypeOK' BY <1>2, NextFacts DEF Inv, TypeOK
<1>4. BackupsCount' BY DEF Inv, BackupsCount
<1>5. Progress'
  <2>1. HasBackups' BY DEF Inv, Progress, HasBackups, BackupRequired
  <2>2. \A c \in Configs : disk'[c] \in {captured[c], "new"}
    BY <1>2, RoleFacts DEF Inv, Progress
  <2>3. ASSUME NEW j \in InPlan, j < next + 1, Plan[j] \in Configs
        PROVE  disk'[Plan[j]] = captured[Plan[j]]
    <3>1. CASE j = next BY <3>1, <2>3, <1>2
    <3>2. CASE j # next
      <4>1. j < next BY <2>3, <3>2 DEF InPlan, Inv, TypeOK
      <4>2. Plan[j] # f /\ Plan[j] \in Files BY <3>2, PlanFacts
      <4> QED BY <4>1, <4>2, <2>3, <1>2 DEF Inv, Progress
    <3> QED BY <3>1, <3>2
  <2> QED BY <2>1, <2>2, <2>3 DEF Progress
<1> QED BY <1>2, <1>3, <1>4, <1>5 DEF Inv

LEMMA RollbackFailsInv == ASSUME Inv, RollbackFails PROVE Inv'
<1> USE DEF RollbackFails, End
<1>1. CASE UNCHANGED disk BY <1>1, IdleInv
<1>2. CASE Restored(Plan[next])
  <2>1. TypeOK' BY <1>2, RestoredKeeps DEF Inv, TypeOK, Steps
  <2>2. ConfigsKept' /\ ReceiptMeansInstalled' BY <1>2, RestoredKeeps
  <2>3. BackupsCount' /\ Progress' BY DEF BackupsCount, Progress
  <2> QED BY <2>1, <2>2, <2>3 DEF Inv
<1> QED BY <1>1, <1>2

-----------------------------------------------------------------------------
(* The end.                                                                 *)

LEMMA WriteInstalledMarkerInv == ASSUME Inv, WriteInstalledMarker PROVE Inv'
<1> USE DEF WriteInstalledMarker, End
<1> DEFINE Marked == disk' = [disk EXCEPT ![Marker] = "receipt"]
<1>1. \A f \in Files : disk[f] = "new" \/ f = Marker BY DEF Inv, Progress
<1>2. Marked \/ UNCHANGED disk OBVIOUS
<1>3. \A f \in Files : f # Marker => disk'[f] = disk[f]
  BY <1>2 DEF Inv, TypeOK
<1>4. disk' \in [Files -> Versions]
  BY <1>2, RoleFacts DEF Inv, TypeOK, Versions
<1>5. TypeOK' BY <1>3, <1>4, RoleFacts DEF Inv, TypeOK, Steps
<1>6. ConfigsKept' BY <1>3, RoleFacts DEF Inv, TypeOK, ConfigsKept
<1>7. ReceiptMeansInstalled' BY <1>1, <1>3 DEF ReceiptMeansInstalled
<1>8. BackupsCount' BY DEF Inv, BackupsCount
<1>9. Progress' BY <1>1, <1>3 DEF Progress
<1> QED BY <1>5, <1>6, <1>7, <1>8, <1>9 DEF Inv

LEMMA VerifyInstalledMarkerInv ==
  ASSUME Inv, VerifyInstalledMarker PROVE Inv'
<1> USE DEF VerifyInstalledMarker, End
<1>1. TypeOK' BY DEF Inv, TypeOK, Steps
<1>2. ConfigsKept' /\ ReceiptMeansInstalled'
  BY DEF Inv, ConfigsKept, ReceiptMeansInstalled
<1>3. BackupsCount' /\ Progress' BY DEF Inv, BackupsCount, Progress
<1> QED BY <1>1, <1>2, <1>3 DEF Inv

LEMMA NextInv == ASSUME Inv, [Next]_vars PROVE Inv'
<1>1. CASE \E c \in Configs : Edit(c) \/ Remove(c)
  BY <1>1, EditInv, RemoveInv
<1>2. CASE BackupFails \/ RollbackDone \/ Finish
  BY <1>2, IdleInv DEF BackupFails, RollbackDone, Finish, End
<1>3. CASE UNCHANGED vars
  BY <1>3 DEF vars, Inv, TypeOK, ConfigsKept, ReceiptMeansInstalled,
     BackupsCount, Progress, Untouched, HasBackups, BackupRequired
<1> QED
  BY <1>1, <1>2, <1>3, PublishInv, CrashInv, StartInv,
     StagePendingSelfUpdateInv, CaptureInv, BackupConfigInv, BackupsDoneInv,
     BackupCurrentGameDllInv, CopyFileInv, CopyFailsInv, CopiesDoneInv,
     VerifyInstallPlanAppliedInv, RollbackServerConfigInv, RollbackFailsInv,
     WriteInstalledMarkerInv, VerifyInstalledMarkerInv DEF Next

\* The invariant of InstallProps holds in every state, for every plan.
THEOREM Invariance == Spec => []Inv
<1>1. Inv /\ [Next]_vars => Inv' BY NextInv
<1> QED BY InitInv, <1>1, PTL DEF Spec

\* Every variable has its type (the plan's loops never leave the plan).
THEOREM TypeCorrect == Spec => []TypeOK
<1>1. Inv => TypeOK BY DEF Inv
<1> QED BY Invariance, <1>1, PTL

\* No edit of a config is lost by any sequence of updates, failures, failed
\* rollbacks and crashes (BackupCurrentServerConfigs, RollbackServerConfigs).
THEOREM ConfigsAreKept == Spec => []ConfigsKept
<1>1. Inv => ConfigsKept BY DEF Inv
<1> QED BY Invariance, <1>1, PTL

\* The receipt of WriteInstalledMarker only stands over a complete package.
THEOREM ReceiptIsTrue == Spec => []ReceiptMeansInstalled
<1>1. Inv => ReceiptMeansInstalled BY DEF Inv
<1> QED BY Invariance, <1>1, PTL
-----------------------------------------------------------------------------
(* The refinement.                                                          *)

AtWork == pc \notin {"idle", "stage", "capture"}

\* What the proof has to know of BundleStage.
StageLaw ==
  /\ ~AtWork => BundleStage = "settled"
  /\ AtWork => BundleStage \in {"before", "mixed", "after"}
  /\ AtWork /\ (\A c \in Configs : disk[c] = "new") => BundleStage = "after"
  /\ AtWork /\ Untouched => BundleStage # "mixed"

LEMMA StageFacts == StageLaw /\ StageLaw'
BY DEF StageLaw, AtWork, BundleStage, Untouched

\* A failure is only reported with the bundle whole.
LEMMA FailFacts ==
  ASSUME Inv, End("failed"),
         \/ ~AtWork \/ Untouched
         \/ AtWork /\ \A c \in Configs : disk[c] = "new"
  PROVE  Bundle!Fail
<1>1. BundleStage # "mixed" BY StageFacts DEF StageLaw
<1>2. BundleStage' = "settled" BY StageFacts DEF StageLaw, AtWork, End
<1> QED BY <1>1, <1>2 DEF Bundle!Fail, End

LEMMA WorkFacts ==
  ASSUME AtWork, AtWork', UNCHANGED report PROVE Bundle!Work
<1>1. BundleStage # "settled" BY StageFacts DEF StageLaw
<1>2. BundleStage' \in {"before", "mixed", "after"} BY StageFacts DEF StageLaw
<1> QED BY <1>1, <1>2 DEF Bundle!Work

LEMMA RestFacts ==
  ASSUME ~AtWork, ~AtWork', UNCHANGED report
  PROVE  UNCHANGED <<BundleStage, report>>
BY StageFacts DEF StageLaw

LEMMA AllNew ==
  ASSUME Inv, pc \in {"receipt", "check", "handoff"}
  PROVE  AtWork /\ \A c \in Configs : disk[c] = "new"
BY RoleFacts DEF Inv, Progress, AtWork

LEMMA BundleInit == Init => Bundle!Init
BY StageFacts DEF Init, Bundle!Init, StageLaw, AtWork

LEMMA BundleStep ==
  ASSUME Inv, [Next]_vars PROVE [Bundle!Next]_<<BundleStage, report>>
<1> USE DEF Bundle!Next
<1>1. CASE \E c \in Configs : Edit(c) \/ Remove(c)
  BY <1>1, RestFacts DEF Edit, Remove, AtWork
<1>2. CASE Publish BY <1>2, RestFacts DEF Publish, AtWork
<1>3. CASE Crash
  <2>1. BundleStage' = "settled" BY <1>3, StageFacts DEF Crash, End, StageLaw, AtWork
  <2> QED BY <1>3, <2>1 DEF Crash, End, Bundle!Crash
<1>4. CASE Start
  <2>1. BundleStage = "settled" /\ BundleStage' = "settled"
    BY <1>4, StageFacts DEF Start, StageLaw, AtWork
  <2> QED BY <1>4, <2>1 DEF Start, Bundle!Ask
<1>5. CASE StagePendingSelfUpdate
  <2>1. CASE pc' = "capture" /\ UNCHANGED report
    BY <1>5, <2>1, RestFacts DEF StagePendingSelfUpdate, AtWork
  <2>2. CASE End("failed") BY <1>5, <2>2, FailFacts DEF StagePendingSelfUpdate, AtWork
  <2> QED BY <1>5, <2>1, <2>2 DEF StagePendingSelfUpdate
<1>6. CASE CaptureServerConfigRollbackFiles
  <2>1. BundleStage = "settled"
    BY <1>6, StageFacts DEF CaptureServerConfigRollbackFiles, StageLaw, AtWork
  <2>2. AtWork' /\ Untouched'
    BY <1>6 DEF CaptureServerConfigRollbackFiles, AtWork, Untouched
  <2>3. BundleStage' \in {"before", "after"} BY <2>2, StageFacts DEF StageLaw
  <2> QED BY <1>6, <2>1, <2>3 DEF CaptureServerConfigRollbackFiles, Bundle!Begin
<1>7. CASE BackupConfig BY <1>7, WorkFacts DEF BackupConfig, AtWork
<1>8. CASE BackupFails
  <2>1. Untouched BY <1>8 DEF BackupFails, Inv, Progress
  <2> QED BY <1>8, <2>1, FailFacts DEF BackupFails
<1>9. CASE BackupsDone BY <1>9, WorkFacts DEF BackupsDone, AtWork
<1>10. CASE BackupCurrentGameDll
  <2>1. CASE pc' = "copy" /\ UNCHANGED report
    BY <1>10, <2>1, WorkFacts DEF BackupCurrentGameDll, AtWork
  <2>2. CASE End("failed")
    <3>1. Untouched BY <1>10 DEF BackupCurrentGameDll, Inv, Progress
    <3> QED BY <2>2, <3>1, FailFacts
  <2> QED BY <1>10, <2>1, <2>2 DEF BackupCurrentGameDll
<1>11. CASE CopyFile \/ CopyFails \/ CopiesDone
  BY <1>11, WorkFacts DEF CopyFile, CopyFails, CopiesDone, AtWork
<1>12. CASE VerifyInstallPlanApplied
  BY <1>12, WorkFacts DEF VerifyInstallPlanApplied, AtWork
<1>13. CASE RollbackServerConfig BY <1>13, WorkFacts DEF RollbackServerConfig, AtWork
<1>14. CASE RollbackFails
  <2>1. BundleStage # "settled" BY <1>14, StageFacts DEF RollbackFails, StageLaw, AtWork
  <2>2. BundleStage' = "settled"
    BY <1>14, StageFacts DEF RollbackFails, End, StageLaw, AtWork
  <2> QED BY <1>14, <2>1, <2>2 DEF RollbackFails, End, Bundle!GiveUp
<1>15. CASE RollbackDone
  <2>1. ASSUME NEW c \in Configs PROVE disk[c] = captured[c]
    <3>1. PICK j \in InPlan : Plan[j] = c BY PlanFacts, RoleFacts
    <3>2. j < next BY <1>15, NextFacts DEF RollbackDone, Inv, InPlan
    <3> QED BY <1>15, <3>1, <3>2 DEF RollbackDone, Inv, Progress
  <2> QED BY <1>15, <2>1, FailFacts DEF RollbackDone, Untouched
<1>16. CASE WriteInstalledMarker
  <2>1. CASE pc' = "check" /\ UNCHANGED report
    BY <1>16, <2>1, WorkFacts DEF WriteInstalledMarker, AtWork
  <2>2. CASE End("failed")
    BY <1>16, <2>2, AllNew, FailFacts DEF WriteInstalledMarker
  <2> QED BY <1>16, <2>1, <2>2 DEF WriteInstalledMarker
<1>17. CASE VerifyInstalledMarker
  <2>1. CASE pc' = "handoff" /\ UNCHANGED report
    BY <1>17, <2>1, WorkFacts DEF VerifyInstalledMarker, AtWork
  <2>2. CASE End("failed")
    BY <1>17, <2>2, AllNew, FailFacts DEF VerifyInstalledMarker
  <2> QED BY <1>17, <2>1, <2>2 DEF VerifyInstalledMarker
<1>18. CASE Finish
  <2>1. CASE End("ok")
    <3>1. BundleStage = "after" BY <1>18, AllNew, StageFacts DEF Finish, StageLaw
    <3>2. BundleStage' = "settled" BY <2>1, StageFacts DEF End, StageLaw, AtWork
    <3> QED BY <2>1, <3>1, <3>2 DEF End, Bundle!Succeed
  <2>2. CASE End("failed") BY <1>18, <2>2, AllNew, FailFacts DEF Finish
  <2> QED BY <1>18, <2>1, <2>2 DEF Finish
<1>19. CASE UNCHANGED vars
  <2>1. UNCHANGED <<disk, pc, captured, report>> BY <1>19 DEF vars
  <2> QED BY <2>1 DEF BundleStage
<1> QED
  BY <1>1, <1>2, <1>3, <1>4, <1>5, <1>6, <1>7, <1>8, <1>9, <1>10, <1>11, <1>12,
     <1>13, <1>14, <1>15, <1>16, <1>17, <1>18, <1>19 DEF Next

\* Every execution of the updater is one of HostBundle: the configs are
\* replaced together or not at all, and the report says which.
THEOREM ImplementsHostBundle == Spec => KeepsBundle
<1>1. Inv /\ [Next]_vars => [Bundle!Next]_<<BundleStage, report>> BY BundleStep
<1> QED BY BundleInit, <1>1, Invariance, PTL DEF Spec, KeepsBundle, Bundle!Spec
=============================================================================
