---------------------------- MODULE AppDiscovery ----------------------------
(***************************************************************************)
(* Finding the installed apps: the worker of                               *)
(* native/src/discovery_service.cpp, the scan it runs (PerformDiscovery)   *)
(* and the launcher that asks for scans and shows what they found          *)
(* (main.cpp).                                                             *)
(*                                                                         *)
(* The contents of a catalog are its version: the installed apps have one, *)
(* each scan finds one, the cache on disk holds one (0: none that can be   *)
(* read).  A failed scan is retried after a delay, unless a newer request  *)
(* came; a shell change waits in a timer, and for a window if none is in   *)
(* front.                                                                  *)
(*                                                                         *)
(* Every start of a scan counts discoveryGeneration_ up and stores it in   *)
(* the service as latestGeneration_, so the two are one variable; the      *)
(* service is stopped last, by the thread that starts scans.               *)
(***************************************************************************)
EXTENDS Naturals, Sequences

CONSTANTS MaxAttempts,   \* of one scan
          MaxActs        \* bound on shell changes, commands to refresh and windows closed

VARIABLES
  interactive,      \* backgroundInteractive_: a window is in front
  refreshPending,   \* appDiscoveryRefreshPending_
  refreshTimer,     \* TIMER_APP_DISCOVERY_REFRESH is set
  apps,             \* apps_, 0 while not appsReady_
  failed,           \* discoveryFailed_: the launcher gave up loading apps
  latest,           \* discoveryGeneration_ and latestGeneration_
  pending,          \* the request waiting in the service, or NoRequest
  worker,           \* the request under way, and how far it is
  attempts,         \* [generation, failures]: retryGeneration and failedAttempts
  results,          \* discoveryEvents_
  failures,         \* WM_DISCOVERY_FAILED messages posted and not handled yet
  installed,        \* version of the apps that are installed
  cache,            \* version stored in apps-cache.bin
  stopping,
  acts              \* how much of the bound is used

uiVars      == <<interactive, refreshPending, refreshTimer, apps, failed>>
serviceVars == <<latest, pending>>
workerVars  == <<worker, attempts>>
eventVars   == <<results, failures>>
vars == <<uiVars, serviceVars, workerVars, eventVars, installed, cache, stopping, acts>>

NoRequest == [generation |-> 0, allowCache |-> FALSE]
Idle      == [at |-> "idle", generation |-> 0, allowCache |-> FALSE, restored |-> 0, found |-> 0]
Exited    == [Idle EXCEPT !.at = "exited"]

TypeOK ==
  /\ {interactive, refreshPending, refreshTimer, failed, stopping} \subseteq BOOLEAN
  /\ installed \in 1 .. (MaxActs + 1)
  /\ {apps, cache} \subseteq 0 .. installed
  /\ latest \in Nat \ {0} /\ failures \in Nat
  /\ pending.generation \in {0, latest} /\ pending.allowCache \in BOOLEAN
  /\ worker \in [at : {"idle", "scanning", "found", "failed", "waiting", "exited"},
                 generation : 0 .. latest, allowCache : BOOLEAN,
                 restored : 0 .. installed, found : 0 .. installed]
  /\ attempts \in [generation : 0 .. latest, failures : 0 .. MaxAttempts]
  /\ results \in Seq([generation : 1 .. latest, apps : 1 .. installed])
  /\ acts \in 0 .. MaxActs

(* The launcher starts the service and its first scan, which alone may use  *)
(* the cache.                                                               *)
NothingYet ==
  /\ refreshPending = FALSE /\ refreshTimer = FALSE
  /\ apps = 0 /\ failed = FALSE
  /\ latest = 1 /\ pending = [generation |-> 1, allowCache |-> TRUE]
  /\ attempts = [generation |-> 0, failures |-> 0]
  /\ results = <<>> /\ failures = 0
  /\ installed = 1 /\ acts = 0

Init ==
  /\ NothingYet
  /\ interactive \in BOOLEAN /\ cache \in {0, 1}
  /\ worker = Idle /\ stopping = FALSE

Absent ==   \* a service that is not started
  /\ NothingYet
  /\ interactive = FALSE /\ cache = 0
  /\ worker = Exited /\ stopping = TRUE

-----------------------------------------------------------------------------
(* The launcher.                                                            *)
StartAppDiscovery ==   \* with DiscoveryService::Refresh
  /\ latest' = latest + 1
  /\ failed' = FALSE
  /\ pending' = [generation |-> latest', allowCache |-> FALSE]

NoScan == UNCHANGED <<latest, failed, pending>>

RefreshApps ==   \* the command, and clearing the icon cache
  /\ ~stopping /\ interactive /\ acts < MaxActs
  /\ acts' = acts + 1
  /\ StartAppDiscovery
  /\ UNCHANGED <<interactive, refreshPending, refreshTimer, apps, workerVars, eventVars,
                 installed, cache, stopping>>

(* Apps were installed or removed, and the shell says so.  No timer may be  *)
(* left to set.                                                             *)
OnShellChange ==
  /\ ~stopping /\ acts < MaxActs
  /\ acts' = acts + 1
  /\ installed' = installed + 1
  /\ \/ refreshTimer' = TRUE /\ refreshPending' = TRUE /\ NoScan
     \/ /\ UNCHANGED refreshTimer
        /\ refreshPending' = ~interactive
        /\ IF interactive THEN StartAppDiscovery ELSE NoScan
  /\ UNCHANGED <<interactive, apps, workerVars, eventVars, cache, stopping>>

ForgottenWhenIdle == ~refreshPending   \* mutant: the timer uses the refresh up
StillPending == refreshPending /\ ~interactive

OnRefreshTimer ==
  /\ ~stopping /\ refreshTimer
  /\ refreshTimer' = FALSE
  /\ refreshPending' = StillPending
  /\ IF refreshPending /\ interactive THEN StartAppDiscovery ELSE NoScan
  /\ UNCHANGED <<interactive, apps, workerVars, eventVars, installed, cache, stopping, acts>>

(* UpdateBackgroundState.                                                   *)
ComeToFront ==
  /\ ~stopping /\ ~interactive
  /\ interactive' = TRUE
  /\ refreshPending' = FALSE
  /\ IF refreshPending THEN refreshTimer' = FALSE /\ StartAppDiscovery
                       ELSE UNCHANGED refreshTimer /\ NoScan
  /\ UNCHANGED <<apps, workerVars, eventVars, installed, cache, stopping, acts>>

GoToBackground ==
  /\ ~stopping /\ interactive /\ acts < MaxActs
  /\ acts' = acts + 1
  /\ interactive' = FALSE
  /\ UNCHANGED <<refreshPending, refreshTimer, apps, failed, serviceVars, workerVars,
                 eventVars, installed, cache, stopping>>

OnDiscoveryCompleted ==
  /\ ~stopping /\ results # <<>>
  /\ results' = Tail(results)
  /\ IF Head(results).generation = latest
     THEN apps' = Head(results).apps /\ failed' = FALSE
     ELSE UNCHANGED <<apps, failed>>
  /\ UNCHANGED <<interactive, refreshPending, refreshTimer, serviceVars, workerVars, failures,
                 installed, cache, stopping, acts>>

(* WM_DISCOVERY_FAILED does not say which scan failed.                      *)
OnDiscoveryFailed ==
  /\ ~stopping /\ failures > 0
  /\ failures' = failures - 1
  /\ refreshPending' = TRUE
  /\ failed' = (failed \/ apps = 0)
  /\ UNCHANGED <<interactive, refreshTimer, apps, serviceVars, workerVars, results,
                 installed, cache, stopping, acts>>

(* DiscoveryService::Stop; its generation makes what is under way stale.    *)
Stop ==
  /\ ~stopping
  /\ stopping' = TRUE
  /\ pending' = NoRequest
  /\ latest' = latest + 1
  /\ results' = <<>> /\ failures' = 0   \* nobody handles them any more
  /\ UNCHANGED <<uiVars, workerVars, installed, cache, acts>>

-----------------------------------------------------------------------------
(* DiscoveryService::WorkerLoop and PerformDiscovery.                       *)
IsCurrent(request) == request.generation = latest
Cancelled == stopping \/ ~IsCurrent(worker)

(* A request is taken; if it allows the cache, what the cache holds is      *)
(* shown before the scan.                                                   *)
TakeRequest ==
  /\ worker.at = "idle" /\ ~stopping /\ pending # NoRequest
  /\ pending' = NoRequest
  /\ attempts' = IF attempts.generation = pending.generation THEN attempts
                 ELSE [generation |-> pending.generation, failures |-> 0]
  /\ LET restored == IF pending.allowCache THEN cache ELSE 0
     IN /\ worker' = [at |-> "scanning", generation |-> pending.generation,
                      allowCache |-> pending.allowCache, restored |-> restored, found |-> 0]
        /\ results' = IF restored = 0 THEN results
                      ELSE Append(results, [generation |-> pending.generation,
                                            apps |-> restored])
  /\ UNCHANGED <<uiVars, latest, failures, installed, cache, stopping, acts>>

(* The scan reads the apps some time before it ends, or throws.  A failure  *)
(* nobody waits for any more is only counted.                               *)
Scan ==
  /\ worker.at = "scanning"
  /\ \/ /\ worker' = IF Cancelled THEN Idle
                     ELSE [worker EXCEPT !.at = "found", !.found = installed]
        /\ UNCHANGED attempts
     \/ /\ worker' = IF IsCurrent(worker) THEN [worker EXCEPT !.at = "failed"] ELSE Idle
        /\ attempts' = [attempts EXCEPT !.failures = @ + 1]
  /\ UNCHANGED <<uiVars, serviceVars, eventVars, installed, cache, stopping, acts>>

(* What was found is cached and shown, unless the launcher shows it already *)
(* from the cache, or nobody waits for it any more.                         *)
Found ==
  /\ worker.at = "found"
  /\ worker' = Idle
  /\ IF Cancelled \/ worker.found = worker.restored
     THEN UNCHANGED <<cache, results>>
     ELSE /\ cache' = worker.found
          /\ results' = Append(results, [generation |-> worker.generation,
                                         apps |-> worker.found])
  /\ UNCHANGED <<uiVars, serviceVars, attempts, failures, installed, stopping, acts>>

(* After a failure the worker waits, or gives up and says so; another       *)
(* request may have come since the failure was found to matter.             *)
OnceTooOften == attempts.failures <= MaxAttempts   \* mutant: one attempt too many
TriesAgain == attempts.failures < MaxAttempts

TellsOfFailure == attempts.failures >= MaxAttempts

Failed ==
  /\ worker.at = "failed"
  /\ worker' = IF TriesAgain THEN [worker EXCEPT !.at = "waiting"] ELSE Idle
  /\ failures' = IF TellsOfFailure /\ ~stopping THEN failures + 1 ELSE failures
  /\ UNCHANGED <<uiVars, serviceVars, attempts, results, installed, cache, stopping, acts>>

(* The delay is over, or was cut short; the request goes back unless there  *)
(* is another.                                                              *)
Retry ==
  /\ worker.at = "waiting"
  /\ worker' = Idle
  /\ pending' = IF ~stopping /\ pending = NoRequest /\ IsCurrent(worker)
                THEN [generation |-> worker.generation, allowCache |-> FALSE]
                ELSE pending
  /\ UNCHANGED <<uiVars, latest, attempts, eventVars, installed, cache, stopping, acts>>

Exit ==
  /\ worker.at = "idle" /\ stopping
  /\ worker' = Exited
  /\ UNCHANGED <<uiVars, serviceVars, attempts, eventVars, installed, cache, stopping, acts>>

WorkerLoop == TakeRequest \/ Scan \/ Found \/ Failed \/ Retry \/ Exit

HandleEvents == OnDiscoveryCompleted \/ OnDiscoveryFailed

Next ==
  \/ RefreshApps \/ OnShellChange \/ OnRefreshTimer
  \/ ComeToFront \/ GoToBackground
  \/ HandleEvents
  \/ Stop
  \/ WorkerLoop

Spec == Init /\ [][Next]_vars

(* The worker runs, and the message loop handles what it is sent.           *)
Fairness ==
  WF_vars(OnDiscoveryCompleted) /\ WF_vars(OnDiscoveryFailed) /\ WF_vars(WorkerLoop)

FairSpec == Spec /\ Fairness

-----------------------------------------------------------------------------
AtRest == worker.at = "idle" /\ pending = NoRequest /\ results = <<>> /\ failures = 0

(* Once everything under way has settled, the launcher shows the apps that  *)
(* are installed, or remembers that it has to look: whatever failed, was    *)
(* superseded, came from the cache or happened in the background.           *)
CatalogIsCurrent ==
  AtRest /\ ~stopping => apps = installed \/ refreshPending

(* "Loading apps..." does not stay forever: apps are shown, or the failure  *)
(* of every attempt is.                                                     *)
LoadingAppsEnds == (apps = 0 /\ ~failed) ~> (apps # 0 \/ failed \/ stopping)
=============================================================================
