------------------------- MODULE MCBackgroundTasks -------------------------
(***************************************************************************)
(* Work in the background, on two small instances: the thread pool that    *)
(* any thread submits to and shuts down (Executor), and its main client    *)
(* (Persistence), which relies on a pool of one worker only for what       *)
(* TaskPool states.  They are checked next to each other: an initial state *)
(* starts one of them, and the other is over.                              *)
(***************************************************************************)
EXTENDS Executor

CONSTANTS MaxSaves, MaxWrites, MaxMerges, MaxStarts

ASSUME SavesBounds == {MaxSaves, MaxWrites, MaxMerges, MaxStarts} \subseteq Nat

VARIABLES pool, queue, pendingSettings, settingsSaveScheduled, deferrableStop, ui, saver, job,
          cut, file, index, events, settingsStatus, asked, writes, merges, starts, owed,
          failed, settledWrites, threw
persistence == <<pool, queue, pendingSettings, settingsSaveScheduled, deferrableStop, ui, saver,
                 job, cut, file, index, events, settingsStatus, asked, writes, merges, starts,
                 owed, failed, settledWrites, threw>>
Saves == INSTANCE Persistence WITH tasks <- queue, worker <- saver

PoolOver ==   \* not started, and nobody is left to call it
  /\ tasks = <<>> /\ stopping = FALSE /\ drain = FALSE /\ stop = FALSE /\ joined = TRUE
  /\ owner = CHOOSE t \in Threads : TRUE
  /\ worker = [w \in Workers |-> "exited"]
  /\ current = [w \in Workers |-> None]
  /\ call = [t \in Threads |-> "no"]
  /\ drainCall = [t \in Threads |-> FALSE]
  /\ returned = Callers
  /\ accepted = 0 /\ finished = {} /\ discarded = {}

PersistenceOver ==   \* stopped, and not started again
  /\ pool = "stopped" /\ queue = <<>>
  /\ pendingSettings = Saves!Nothing /\ settingsSaveScheduled = FALSE
  /\ deferrableStop = TRUE /\ ui = "free"
  /\ saver = "idle" /\ job = Saves!Nothing /\ cut = FALSE
  /\ file = Saves!Nothing /\ index = "old" /\ events = <<>> /\ settingsStatus = "none"
  /\ asked = MaxSaves /\ writes = 0 /\ merges = 0 /\ starts = MaxStarts
  /\ owed = Saves!Nothing /\ failed = {} /\ settledWrites = {} /\ threw = FALSE

TasksInit == (Init /\ PersistenceOver) \/ (PoolOver /\ Saves!Init)

TasksNext ==
  \/ Next /\ UNCHANGED persistence
  \/ Saves!Next /\ UNCHANGED vars

TasksSpec ==
  /\ TasksInit /\ [][TasksNext]_<<vars, persistence>>
  /\ Fairness /\ Saves!Fairness

TasksTypeOK == TypeOK /\ Saves!TypeOK

(* Nobody waits for ever: every Shutdown and every Stop returns.            *)
ShutdownsReturn == EveryShutdownReturns /\ Saves!StopReturnsEventually

(* What a stop leaves: of a pool, no worker and no task that was neither    *)
(* run nor discarded; on disk, all that was accepted before a draining one, *)
(* and never the index of a merge whose text it cut short.                  *)
StopLeavesWhole ==
  ReturnsAfterJoin /\ Saves!DrainKeepsAccepted /\ Saves!NoPartialMerge

SavedIsTrueAtRest == Saves!SavedIsTrueAtRest
=============================================================================
