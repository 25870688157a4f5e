----------------------------- MODULE Persistence -----------------------------
(***************************************************************************)
(* native/src/persistence_service.cpp: one worker thread saves settings,   *)
(* writes the database and merges the file index, in the order the UI      *)
(* thread asks.  Settings are coalesced: at most one save task is queued,  *)
(* and it takes whatever was asked for last.  Stop lets writes finish or   *)
(* discards them; merges are abandoned either way.                         *)
(*                                                                         *)
(* The executor is used as TaskPool promises it: one worker, tasks begun   *)
(* in order.  Settings are numbered in the order they are asked for; a     *)
(* database write (clipboard, timers, clearing) is a number as well.       *)
(***************************************************************************)
EXTENDS Naturals, Sequences

CONSTANTS MaxSaves,   \* bound on the SaveSettings calls
          MaxWrites,  \* bound on the database writes asked for
          MaxMerges,  \* bound on the file index merges asked for
          MaxStarts   \* bound on the calls of Start

Versions == 1 .. MaxSaves
Writes   == 1 .. MaxWrites
Nothing == 0
Task     == [kind : {"save", "merge"}, id : {Nothing}] \cup [kind : {"write"}, id : Writes]
SaveTask  == [kind |-> "save", id |-> Nothing]
MergeTask == [kind |-> "merge", id |-> Nothing]

VARIABLES
  pool,          \* executor_: "stopped", "open", "draining" or "cancelled"
  tasks,         \* its queue
  pendingSettings,        \* Nothing or a version
  settingsSaveScheduled,
  deferrableStop,         \* the deferrable token is stopped
  ui,            \* "free", "submitting" a save, or inside Stop
  worker,        \* what the worker does next
  job,           \* the version or write it works on
  cut,           \* the stop cut the extracted text short
  file,          \* the version settings.json holds
  index,         \* what the stored file index holds
  events,        \* SettingsSaveCompleted results the UI has not heard
  settingsStatus,\* what the settings window says
  asked, writes, merges, starts,   \* calls made so far
  owed,          \* the last accepted version, unless a cancelling Stop or an exception lost it
  failed,        \* versions whose save was reported failed
  settledWrites, \* writes carried out, reported failed, or dropped by a cancel
  threw          \* a save ended in an exception, since the last Start

poolVars     == <<pool, tasks>>
settingsVars == <<pendingSettings, settingsSaveScheduled>>
workerVars   == <<worker, job, cut>>
diskVars     == <<file, index>>
uiVars       == <<events, settingsStatus>>
callVars     == <<asked, writes, merges, starts>>
ghostVars    == <<owed, failed, settledWrites, threw>>
vars == <<poolVars, settingsVars, deferrableStop, ui, workerVars, diskVars, uiVars,
          callVars, ghostVars>>

WorkerPhases == {"idle", "take", "saving", "more", "write", "merge", "extract", "check", "update"}
SavePhases   == {"take", "saving", "more"}

TypeOK ==
  /\ pool \in {"stopped", "open", "draining", "cancelled"}
  /\ tasks \in Seq(Task)
  /\ pendingSettings \in Versions \cup {Nothing}
  /\ settingsSaveScheduled \in BOOLEAN /\ deferrableStop \in BOOLEAN
  /\ ui \in {"free", "submitting", "draining", "cancelling", "joining"}
  /\ worker \in WorkerPhases
  /\ job \in Versions \cup Writes \cup {Nothing}
  /\ cut \in BOOLEAN
  /\ file \in Versions \cup {Nothing}
  /\ index \in {"old", "merged", "cut"}
  /\ events \in Seq(BOOLEAN)
  /\ settingsStatus \in {"none", "saving", "saved", "error"}
  /\ asked \in 0 .. MaxSaves /\ writes \in 0 .. MaxWrites
  /\ merges \in 0 .. MaxMerges /\ starts \in 0 .. MaxStarts
  /\ owed \in Versions \cup {Nothing}
  /\ failed \subseteq Versions
  /\ settledWrites \subseteq Writes
  /\ threw \in BOOLEAN

Init ==
  /\ pool = "stopped" /\ tasks = <<>>
  /\ pendingSettings = Nothing /\ settingsSaveScheduled = FALSE
  /\ deferrableStop = FALSE
  /\ ui = "free"
  /\ worker = "idle" /\ job = Nothing /\ cut = FALSE
  /\ file = Nothing /\ index = "old"
  /\ events = <<>> /\ settingsStatus = "none"
  /\ asked = 0 /\ writes = 0 /\ merges = 0 /\ starts = 0
  /\ owed = Nothing /\ failed = {} /\ settledWrites = {}
  /\ threw = FALSE

-----------------------------------------------------------------------------
(* The UI thread.  A Start after an exception begins anew: it owes nothing  *)
(* of before, and what is accepted from then on is kept again.              *)
Start ==
  /\ ui = "free" /\ pool = "stopped"
  /\ starts < MaxStarts
  /\ starts' = starts + 1
  /\ deferrableStop' = FALSE
  /\ pool' = "open"
  /\ owed' = IF threw THEN Nothing ELSE owed
  /\ threw' = FALSE
  /\ UNCHANGED <<tasks, settingsVars, ui, workerVars, diskVars, uiVars, asked, writes,
                 merges, failed, settledWrites>>

(* SaveSettings: a save that finds one scheduled only replaces what it will *)
(* take; Submit is called after the unlock.                                 *)
SubmitDue == ~settingsSaveScheduled

SaveSettings ==
  /\ ui = "free"
  /\ asked < MaxSaves
  /\ asked' = asked + 1
  /\ pendingSettings' = asked'
  /\ settingsSaveScheduled' = TRUE
  /\ settingsStatus' = "saving"
  /\ IF SubmitDue THEN ui' = "submitting" /\ UNCHANGED owed
                  ELSE ui' = "free" /\ owed' = asked'
  /\ UNCHANGED <<poolVars, deferrableStop, workerVars, diskVars, events, writes, merges,
                 starts, failed, settledWrites, threw>>

SubmitSave ==
  /\ ui = "submitting"
  /\ ui' = "free"
  /\ IF pool = "open"
     THEN /\ tasks' = Append(tasks, SaveTask)
          /\ owed' = asked
          /\ UNCHANGED <<settingsVars, settingsStatus>>
     ELSE /\ pendingSettings' = Nothing /\ settingsSaveScheduled' = FALSE
          /\ settingsStatus' = "error"
          /\ UNCHANGED <<tasks, owed>>
  /\ UNCHANGED <<pool, deferrableStop, workerVars, diskVars, events, callVars, failed,
                 settledWrites, threw>>

Write ==
  /\ ui = "free" /\ pool = "open"
  /\ writes < MaxWrites
  /\ writes' = writes + 1
  /\ tasks' = Append(tasks, [kind |-> "write", id |-> writes'])
  /\ UNCHANGED <<pool, settingsVars, deferrableStop, ui, workerVars, diskVars, uiVars, asked,
                 merges, starts, ghostVars>>

MergeFileIndex ==
  /\ ui = "free" /\ pool = "open"
  /\ merges < MaxMerges
  /\ merges' = merges + 1
  /\ tasks' = Append(tasks, MergeTask)
  /\ UNCHANGED <<pool, settingsVars, deferrableStop, ui, workerVars, diskVars, uiVars, asked,
                 writes, starts, ghostVars>>

(* Stop(drainPending): the deferrable token first, then the executor, whose *)
(* Shutdown returns once the worker is joined.                              *)
StopDeferrable(drainPending) ==
  /\ ui = "free" /\ pool = "open"
  /\ deferrableStop' = TRUE
  /\ ui' = IF drainPending THEN "draining" ELSE "cancelling"
  /\ UNCHANGED <<poolVars, settingsVars, workerVars, diskVars, uiVars, callVars, ghostVars>>

ShutdownDraining ==
  /\ ui = "draining"
  /\ ui' = "joining"
  /\ pool' = "draining"
  /\ UNCHANGED <<tasks, settingsVars, deferrableStop, workerVars, diskVars, uiVars, callVars,
                 ghostVars>>

ShutdownCancelling ==
  /\ ui = "cancelling"
  /\ ui' = "joining"
  /\ pool' = "cancelled"
  /\ tasks' = <<>>
  /\ owed' = Nothing
  /\ settledWrites' = 1 .. writes
  /\ UNCHANGED <<settingsVars, deferrableStop, workerVars, diskVars, uiVars, callVars, failed,
                 threw>>

LeavesQueued == worker = "idle"   \* mutant: the worker exits before the queue is empty
WorkerGone == worker = "idle" /\ tasks = <<>>

StaysScheduled == settingsSaveScheduled   \* mutant: Stop leaves the flag as it is
ScheduledAfterStop == FALSE

StopReturns ==
  /\ ui = "joining"
  /\ WorkerGone
  /\ ui' = "free"
  /\ pool' = "stopped" /\ tasks' = <<>>
  /\ pendingSettings' = Nothing /\ settingsSaveScheduled' = ScheduledAfterStop
  /\ UNCHANGED <<deferrableStop, workerVars, diskVars, uiVars, callVars, ghostVars>>

(* The UI hears of a save; "All changes saved." only replaces "Saving       *)
(* settings...".                                                            *)
HeardAlwaysSaved(succeeded) == "saved"   \* mutant: the result is not looked at
Heard(succeeded) ==
  IF ~succeeded THEN "error"
  ELSE IF settingsStatus = "saving" THEN "saved" ELSE settingsStatus

HearSaveCompleted ==
  /\ ui = "free" /\ events # <<>>
  /\ events' = Tail(events)
  /\ settingsStatus' = Heard(Head(events))
  /\ UNCHANGED <<poolVars, settingsVars, deferrableStop, ui, workerVars, diskVars, callVars,
                 ghostVars>>

-----------------------------------------------------------------------------
(* The worker.                                                              *)
Stopped   == pool = "cancelled"          \* the executor's stop token
Abandoned == Stopped \/ deferrableStop

FirstPhase == [save |-> "take", write |-> "write", merge |-> "merge"]

Begin ==
  /\ worker = "idle" /\ tasks # <<>>
  /\ tasks' = Tail(tasks)
  /\ job' = Head(tasks).id
  /\ worker' = FirstPhase[Head(tasks).kind]
  /\ cut' = FALSE
  /\ UNCHANGED <<pool, settingsVars, deferrableStop, ui, diskVars, uiVars, callVars, ghostVars>>

(* SettingsSaveLoop, the first region under settingsMutex_ ...              *)
FlagOnExit == FALSE

TakeSettings ==
  /\ worker = "take"
  /\ IF pendingSettings = Nothing \/ Stopped
     THEN /\ worker' = "idle" /\ settingsSaveScheduled' = FlagOnExit
          /\ UNCHANGED <<pendingSettings, job>>
     ELSE /\ job' = pendingSettings /\ pendingSettings' = Nothing /\ worker' = "saving"
          /\ UNCHANGED settingsSaveScheduled
  /\ UNCHANGED <<poolVars, deferrableStop, ui, cut, diskVars, uiVars, callVars, ghostVars>>

(* ... the save and its event ...                                           *)
EmitCompleted(succeeded) == Append(events, succeeded)

SaveDone(succeeded) ==
  /\ worker = "saving"
  /\ worker' = "more"
  /\ file' = IF succeeded THEN job ELSE file
  /\ failed' = IF succeeded THEN failed ELSE failed \cup {job}
  /\ events' = EmitCompleted(succeeded)
  /\ UNCHANGED <<poolVars, settingsVars, deferrableStop, ui, job, cut, index, settingsStatus,
                 callVars, owed, settledWrites, threw>>

(* ... which may also throw, before the file was replaced or after; the     *)
(* executor reports it as WorkerFailed and goes on with the next task.      *)
SaveThrows(replaced) ==
  /\ worker = "saving"
  /\ worker' = "idle"
  /\ threw' = TRUE
  /\ file' = IF replaced THEN job ELSE file
  /\ failed' = failed \cup {job}
  /\ UNCHANGED <<poolVars, settingsVars, deferrableStop, ui, job, cut, index, uiVars, callVars,
                 owed, settledWrites>>

(* ... and the second region, after which a newer version is taken.         *)
NothingNewer == pendingSettings = Nothing

LookForMore ==
  /\ worker = "more"
  /\ IF NothingNewer THEN worker' = "idle" /\ settingsSaveScheduled' = FlagOnExit
                     ELSE worker' = "take" /\ UNCHANGED settingsSaveScheduled
  /\ UNCHANGED <<poolVars, pendingSettings, deferrableStop, ui, job, cut, diskVars, uiVars,
                 callVars, ghostVars>>

(* A database write is skipped once the stop token is requested; otherwise  *)
(* it is carried out or its failure reported.                               *)
DoWrite ==
  /\ worker = "write"
  /\ worker' = "idle"
  /\ settledWrites' = settledWrites \cup {job}
  /\ UNCHANGED <<poolVars, settingsVars, deferrableStop, ui, job, cut, diskVars, uiVars,
                 callVars, owed, failed, threw>>

(* A merge asks before it loads, before each file it reads and before it    *)
(* writes whether it is abandoned.  A stop may cut the text of the file     *)
(* being read.                                                              *)
BeginMerge ==
  /\ worker = "merge"
  /\ worker' = IF Abandoned THEN "idle" ELSE "extract"
  /\ UNCHANGED <<poolVars, settingsVars, deferrableStop, ui, job, cut, diskVars, uiVars,
                 callVars, ghostVars>>

ExtractMissing ==
  /\ worker = "extract"
  /\ worker' = "check"
  /\ cut' \in IF deferrableStop THEN BOOLEAN ELSE {FALSE}
  /\ UNCHANGED <<poolVars, settingsVars, deferrableStop, ui, job, diskVars, uiVars, callVars,
                 ghostVars>>

CheckMerge ==
  /\ worker = "check"
  /\ worker' = IF Abandoned THEN "idle" ELSE "update"
  /\ UNCHANGED <<poolVars, settingsVars, deferrableStop, ui, job, cut, diskVars, uiVars,
                 callVars, ghostVars>>

UpdateFileIndex ==
  /\ worker = "update"
  /\ worker' = "idle"
  /\ index' \in {index, IF cut THEN "cut" ELSE "merged"}
  /\ UNCHANGED <<poolVars, settingsVars, deferrableStop, ui, job, cut, file, uiVars, callVars,
                 ghostVars>>

SettingsSaveLoop ==
  \/ TakeSettings
  \/ \E succeeded \in BOOLEAN : SaveDone(succeeded)
  \/ \E replaced \in BOOLEAN : SaveThrows(replaced)
  \/ LookForMore

WorkerStep ==
  \/ Begin \/ SettingsSaveLoop \/ DoWrite
  \/ BeginMerge \/ ExtractMissing \/ CheckMerge \/ UpdateFileIndex

Stop ==
  \/ \E drainPending \in BOOLEAN : StopDeferrable(drainPending)
  \/ ShutdownDraining \/ ShutdownCancelling \/ StopReturns

Next ==
  \/ Start \/ SaveSettings \/ SubmitSave \/ Write \/ MergeFileIndex \/ Stop
  \/ HearSaveCompleted
  \/ WorkerStep

Spec == Init /\ [][Next]_vars

(* The worker runs whenever it has something to do, and a call the UI       *)
(* thread has begun is finished.                                            *)
Fairness ==
  /\ WF_vars(WorkerStep)
  /\ WF_vars(SubmitSave \/ ShutdownDraining \/ ShutdownCancelling \/ StopReturns)

FairSpec == Spec /\ Fairness

-----------------------------------------------------------------------------

(* A draining Stop keeps what was accepted: when it has returned,           *)
(* settings.json holds the settings saved last unless their save was        *)
(* reported failed, and every database write was carried out or reported.   *)
DrainIsDurable ==
  pool = "stopped" /\ ui = "free" =>
    /\ owed # Nothing => owed = file \/ owed \in failed
    /\ settledWrites = 1 .. writes

(* The same unless a save has thrown since the last Start: an exception     *)
(* costs the settings accepted before the next Stop, and none after it.     *)
DrainKeepsAccepted == ~threw => DrainIsDurable

(* A merge a stop cut short never reaches the stored index.                 *)
NoPartialMerge == index # "cut"

(* Once no save is asked for, under way or unheard, "All changes saved."    *)
(* is true: settings.json holds the last settings accepted (no save having  *)
(* thrown since the last Start).                                            *)
SavedIsTrueAtRest ==
  ~threw /\ settingsStatus = "saved" /\ events = <<>> /\ pendingSettings = Nothing
      /\ worker \notin SavePhases /\ owed # Nothing
    => file = owed

(* Stop returns, whatever is queued.                                        *)
StopReturnsEventually == ui = "joining" ~> ui = "free"
=============================================================================
