---------------------------- MODULE FileIndexWorker ----------------------------
(***************************************************************************)
(* The live file index: FileIndexService of                                *)
(* native/src/file_index_service.cpp, with the UI thread that configures,  *)
(* pauses, rebuilds and stops it (native/src/main.cpp), its worker, and    *)
(* one watcher thread for each root.                                       *)
(*                                                                         *)
(* The worker takes a request under the mutex and then works without it:   *)
(* it restarts the watchers, crawls the roots and delivers what it found.  *)
(* Meanwhile the UI may change the request, watchers report changes, roots *)
(* go away and come back.  What a root contains is the number of changes   *)
(* made to it; a delay is a flag that TimePasses sets, so that delays of   *)
(* any length are covered.  Which files a crawl visits, the limit and the  *)
(* exclusions are left out; a record of content read earlier names a root  *)
(* and the changes its files had seen.                                     *)
(***************************************************************************)
EXTENDS Naturals

CONSTANTS Roots,            \* folders the user may index
          MaxRescanRetries, \* kMaxRescanRetries
          MaxWatchRetries,  \* kMaxWatchRetries
          MaxGenerations,   \* bound on the UI's generation of the file index
          MaxRebuilds,      \* bound on explicit rebuilds
          MaxStops,         \* bound on the times the service is stopped
          MaxChanges,       \* bound on the changes of each root
          MaxFlips,         \* bound on the times each root comes or goes
          None              \* no request

ASSUME FileIndexBounds ==
  {MaxRescanRetries, MaxWatchRetries, MaxGenerations, MaxRebuilds, MaxStops,
   MaxChanges, MaxFlips} \subseteq Nat

ASSUME NoneIsNoRequest == None \notin [generation : Nat, roots : SUBSET Roots]

VARIABLES
  call,               \* where the UI thread is inside the service
  wanted,             \* the roots it is configuring
  generation,         \* fileIndexGeneration_ of the UI
  currentGeneration, stopping, paused, request,
  rebuildPending, restartWatchersPending, probeOnly,
  due,                \* rebuildAfter_ has come
  retryAttempts, unavailableRoots, watchFailures,
  contentRecords,     \* contentRecords_: what is known of the content of files
  epochChanged,       \* contentEpoch_ is not what the last crawl started with
  worker,             \* worker_ and the locals of WorkerLoop and Scan
  watch,              \* the watcher of each root
  noticed,            \* roots whose watcher has changes to report
  available, flips,   \* the roots that exist
  disk,               \* the changes made to each root
  indexed,            \* the changes the sink has heard of
  unwatched,          \* roots last changed while no read of them was under way
  rebuilds, stops,
  threw               \* a pass ended in an exception, and none has restarted the watchers since

retryVars == <<retryAttempts, watchFailures>>
pending   == <<rebuildPending, restartWatchersPending, probeOnly, due>>
records   == <<contentRecords, epochChanged>>
diskVars  == <<available, flips, disk, unwatched>>
watchVars == <<watch, noticed>>
uiVars    == <<call, wanted, generation, currentGeneration, rebuilds, stops>>
vars == <<uiVars, stopping, paused, request, pending, retryVars, unavailableRoots,
          records, worker, watchVars, diskVars, indexed, threw>>

Request == [generation : 1 .. MaxGenerations, roots : SUBSET Roots]
Phases  == {"none", "ended", "waiting", "closing", "checking", "reprobing", "restarting",
            "scanning", "scanned", "delivering", "recording"}

TypeOK ==
  /\ call \in {"none", "reconfigure", "stopWatchers", "join"} /\ wanted \subseteq Roots
  /\ generation \in 0 .. MaxGenerations /\ currentGeneration \in 0 .. MaxGenerations
  /\ {stopping, paused, rebuildPending, restartWatchersPending, probeOnly, due, threw}
       \subseteq BOOLEAN
  /\ request \in Request \cup {None}
  /\ retryAttempts \in 0 .. MaxRescanRetries
  /\ watchFailures \in [Roots -> 0 .. MaxWatchRetries + 1]
  /\ unavailableRoots \subseteq Roots
  /\ worker \in [phase : Phases, generation : 0 .. MaxGenerations, roots : SUBSET Roots,
                 restart : BOOLEAN, probe : BOOLEAN, missing : SUBSET Roots,
                 left : SUBSET Roots, found : SUBSET Roots, seen : [Roots -> 0 .. MaxChanges],
                 delivered : BOOLEAN]
  /\ contentRecords \subseteq Roots \X (0 .. MaxChanges) /\ epochChanged \in BOOLEAN
  /\ watch \in [Roots -> {"none", "starting", "watching", "broken"}]
  /\ noticed \subseteq Roots /\ unwatched \subseteq Roots
  /\ available \subseteq Roots /\ flips \in [Roots -> 0 .. MaxFlips]
  /\ disk \in [Roots -> 0 .. MaxChanges] /\ indexed \in [Roots -> 0 .. MaxChanges]
  /\ rebuilds \in 0 .. MaxRebuilds /\ stops \in 0 .. MaxStops

Nothing == [r \in Roots |-> 0]
In(phase) == [phase |-> phase, generation |-> 0, roots |-> {}, restart |-> FALSE,
              probe |-> FALSE, missing |-> {}, left |-> {}, found |-> {}, seen |-> Nothing,
              delivered |-> FALSE]

Init ==
  /\ call = "none" /\ wanted = {} /\ generation = 0 /\ currentGeneration = 0
  /\ stopping = FALSE /\ paused = FALSE /\ request = None
  /\ rebuildPending = FALSE /\ restartWatchersPending = FALSE
  /\ probeOnly = FALSE /\ due = FALSE
  /\ retryAttempts = 0 /\ watchFailures = Nothing /\ unavailableRoots = {}
  /\ contentRecords = {} /\ epochChanged = FALSE
  /\ worker = In("none")
  /\ watch = [r \in Roots |-> "none"] /\ noticed = {}
  /\ available \in SUBSET Roots /\ flips = Nothing
  /\ disk = Nothing /\ indexed = Nothing /\ unwatched = {}
  /\ rebuilds = 0 /\ stops = 0 /\ threw = FALSE

IgnoresGeneration(g) == ~paused   \* mutant: the request may have changed
IsCurrent(g) == ~paused /\ currentGeneration = g

(* The part of an operation that gives retries and watches a fresh budget,  *)
(* and has every file read again.                                           *)
ResetRetries == retryAttempts' = 0 /\ probeOnly' = FALSE

ForgetFailures == watchFailures' = Nothing

ForgetContentRecords == contentRecords' = {} /\ epochChanged' = TRUE

-----------------------------------------------------------------------------
(* The UI thread.  A configuration starts the worker if there is none and   *)
(* stores the generation first, then the request under the mutex.           *)

NewGeneration == generation + 1

Configure(roots) ==
  /\ call = "none" /\ generation < MaxGenerations
  /\ call' = "reconfigure" /\ wanted' = roots
  /\ generation' = NewGeneration
  /\ currentGeneration' = generation'
  /\ worker' = IF worker.phase = "none" THEN In("waiting") ELSE worker
  /\ UNCHANGED <<stopping, paused, request, pending, retryVars, unavailableRoots, records,
                 watchVars, diskVars, indexed, rebuilds, stops, threw>>

Reconfigure ==
  /\ call = "reconfigure"
  /\ call' = "none" /\ wanted' = {}
  /\ request' = [generation |-> generation, roots |-> wanted]
  /\ paused' = FALSE
  /\ restartWatchersPending' = TRUE /\ rebuildPending' = TRUE /\ due' = TRUE
  /\ ResetRetries /\ ForgetFailures /\ ForgetContentRecords
  /\ UNCHANGED <<generation, currentGeneration, rebuilds, stops, stopping, unavailableRoots,
                 worker, watchVars, diskVars, indexed, threw>>

Rebuild ==
  /\ call = "none" /\ request # None /\ rebuilds < MaxRebuilds
  /\ rebuilds' = rebuilds + 1
  /\ rebuildPending' = TRUE /\ due' = TRUE /\ restartWatchersPending' = TRUE
  /\ ResetRetries /\ ForgetFailures /\ ForgetContentRecords
  /\ UNCHANGED <<call, wanted, generation, currentGeneration, stops, stopping, paused, request,
                 unavailableRoots, worker, watchVars, diskVars, indexed, threw>>

(* FeatherCast goes to the background.                                      *)
Pause ==
  /\ call = "none" /\ generation < MaxGenerations
  /\ generation' = generation + 1
  /\ paused' = TRUE /\ request' = None
  /\ rebuildPending' = FALSE /\ restartWatchersPending' = TRUE /\ due' = FALSE
  /\ ResetRetries /\ ForgetFailures /\ ForgetContentRecords
  /\ UNCHANGED <<call, wanted, currentGeneration, rebuilds, stops, stopping, unavailableRoots,
                 worker, watchVars, diskVars, indexed, threw>>

BeginStop ==
  /\ call = "none" /\ worker.phase # "none" /\ stops < MaxStops
  /\ call' = "stopWatchers" /\ stops' = stops + 1
  /\ stopping' = TRUE /\ request' = None
  /\ UNCHANGED <<wanted, generation, currentGeneration, rebuilds, paused, pending, retryVars,
                 unavailableRoots, records, worker, watchVars, diskVars, indexed, threw>>

NoWatchers == watch' = [r \in Roots |-> "none"] /\ noticed' = {}

StopWatchers ==
  /\ call = "stopWatchers"
  /\ call' = "join"
  /\ NoWatchers
  /\ UNCHANGED <<wanted, generation, currentGeneration, rebuilds, stops, stopping, paused, request,
                 pending, retryVars, unavailableRoots, records, worker, diskVars, indexed,
                 threw>>

Join ==
  /\ call = "join" /\ worker.phase = "ended"
  /\ call' = "none"
  /\ worker' = In("none")
  /\ stopping' = FALSE
  /\ rebuildPending' = FALSE /\ restartWatchersPending' = FALSE /\ due' = FALSE
  /\ ResetRetries /\ ForgetFailures /\ ForgetContentRecords
  /\ UNCHANGED <<wanted, generation, currentGeneration, rebuilds, stops, paused, request,
                 unavailableRoots, watchVars, diskVars, indexed, threw>>
-----------------------------------------------------------------------------
(* The worker.  Its delay loop and its empty passes, when there is no       *)
(* request, change nothing: Take is enabled when they have come to an end.  *)

UiUnchanged == UNCHANGED <<uiVars, stopping, paused, request>>
OnlyTheWorker == UiUnchanged /\ UNCHANGED <<retryVars, unavailableRoots, records, diskVars>>

SleepsThroughRefresh == stopping \/ restartWatchersPending   \* mutant
Awake == stopping \/ rebuildPending \/ restartWatchersPending

WorkerReturns ==
  /\ worker.phase = "waiting" /\ Awake /\ stopping
  /\ worker' = In("ended")
  /\ OnlyTheWorker /\ UNCHANGED <<pending, watchVars, indexed, threw>>

WorkerPauses ==
  /\ worker.phase = "waiting" /\ Awake /\ ~stopping /\ paused
  /\ restartWatchersPending' = FALSE
  /\ worker' = In("closing")
  /\ OnlyTheWorker
  /\ UNCHANGED <<rebuildPending, probeOnly, due, watchVars, indexed, threw>>

CloseWatchers ==
  /\ worker.phase = "closing"
  /\ NoWatchers
  /\ worker' = In("waiting")
  /\ OnlyTheWorker /\ UNCHANGED <<pending, indexed, threw>>

Take ==
  /\ worker.phase = "waiting" /\ Awake /\ ~stopping /\ ~paused
  /\ rebuildPending => due
  /\ request # None
  /\ worker' = [In("checking") EXCEPT !.generation = request.generation,
                                      !.roots = request.roots,
                                      !.restart = restartWatchersPending,
                                      !.probe = probeOnly,
                                      !.missing = unavailableRoots]
  /\ rebuildPending' = FALSE /\ restartWatchersPending' = FALSE
  /\ probeOnly' = FALSE /\ due' = FALSE
  /\ threw' = (threw /\ ~restartWatchersPending)
  /\ OnlyTheWorker /\ UNCHANGED <<watchVars, indexed>>

RootReturned == worker.missing \cap available # {}

(* The request the worker has taken is still the one it is to serve.        *)
StillRequested ==
  ~stopping /\ request # None /\ request.generation = worker.generation

(* Probe the missing roots; a pass that goes on decides here whether it     *)
(* restarts the watchers, and starts them in a step of its own, and it      *)
(* takes the content records along.                                         *)
Check ==
  /\ worker.phase = "checking"
  /\ LET goesOn == ~worker.probe \/ RootReturned
         restarts == (worker.restart \/ RootReturned) /\ ~stopping
     IN /\ worker' = [worker EXCEPT !.phase = IF ~goesOn THEN "reprobing"
                                              ELSE IF restarts THEN "restarting"
                                              ELSE "scanning",
                                 !.left = worker.roots, !.restart = FALSE,
                                 !.probe = FALSE, !.missing = {}]
        /\ IF goesOn THEN contentRecords' = {} /\ epochChanged' = FALSE
                     ELSE UNCHANGED records
  /\ UiUnchanged
  /\ UNCHANGED <<pending, retryVars, unavailableRoots, watchVars, diskVars, indexed, threw>>

ProbeAgain ==
  /\ worker.phase = "reprobing"
  /\ worker' = In("waiting")
  /\ IF StillRequested /\ ~rebuildPending
       THEN rebuildPending' = TRUE /\ probeOnly' = TRUE /\ due' = FALSE
       ELSE UNCHANGED <<rebuildPending, probeOnly, due>>
  /\ UNCHANGED restartWatchersPending
  /\ OnlyTheWorker /\ UNCHANGED <<watchVars, indexed, threw>>

(* A root that cannot be opened gets no watcher.                            *)
RestartWatchers ==
  /\ worker.phase = "restarting"
  /\ watch' = [r \in Roots |-> IF r \in worker.roots \cap available THEN "starting"
                                                                    ELSE "none"]
  /\ noticed' = {}
  /\ worker' = [worker EXCEPT !.phase = "scanning"]
  /\ OnlyTheWorker /\ UNCHANGED <<pending, indexed, threw>>

CutShort == stopping \/ ~IsCurrent(worker.generation)

ScanRoot(r) ==
  /\ worker.phase = "scanning" /\ r \in worker.left /\ ~CutShort
  /\ worker' = [worker EXCEPT
       !.left = @ \ {r},
       !.found = IF r \in available THEN @ \cup {r} ELSE @,
       !.seen[r] = IF r \in available THEN disk[r] ELSE @]
  /\ OnlyTheWorker /\ UNCHANGED <<pending, watchVars, indexed, threw>>

(* The crawl is over, or sees that it is to be cut short.                   *)
EndScan ==
  /\ worker.phase = "scanning"
  /\ worker.left = {} \/ CutShort
  /\ worker' = [worker EXCEPT !.phase = "scanned"]
  /\ OnlyTheWorker /\ UNCHANGED <<pending, watchVars, indexed, threw>>

(* Only a status that is current now goes to the sink.                      *)
CheckCurrent ==
  /\ worker.phase = "scanned"
  /\ worker' = IF CutShort THEN [worker EXCEPT !.phase = "recording", !.seen = Nothing]
                           ELSE [worker EXCEPT !.phase = "delivering"]
  /\ OnlyTheWorker /\ UNCHANGED <<pending, watchVars, indexed, threw>>

Deliver ==
  /\ worker.phase = "delivering"
  /\ indexed' = [r \in Roots |-> IF r \in worker.found THEN worker.seen[r] ELSE indexed[r]]
  /\ worker' = [worker EXCEPT !.phase = "recording", !.delivered = TRUE]
  /\ OnlyTheWorker /\ UNCHANGED <<pending, watchVars, threw>>

Missing == worker.roots \ worker.found
NeedsRetry == (worker.roots \ worker.left) \ worker.found # {}
SpentLate == retryAttempts > MaxRescanRetries   \* mutant: one retry too many
RetriesSpent == retryAttempts >= MaxRescanRetries

AnyDelivered == worker.delivered   \* mutant: the epoch is not compared
StillCounts == worker.delivered /\ ~epochChanged

(* A crawl that missed roots is repeated in full a few times; then the      *)
(* missing roots are only probed.                                           *)
Record ==
  /\ worker.phase = "recording"
  /\ worker' = In("waiting")
  /\ contentRecords' = IF StillRequested /\ StillCounts
                         THEN {<<r, worker.seen[r]>> : r \in worker.found}
                         ELSE contentRecords
  /\ unavailableRoots' = IF StillRequested THEN Missing ELSE unavailableRoots
  /\ CASE StillRequested /\ NeedsRetry /\ ~rebuildPending ->
            /\ retryAttempts' = IF RetriesSpent THEN retryAttempts ELSE retryAttempts + 1
            /\ rebuildPending' = TRUE /\ due' = FALSE
            /\ probeOnly' = RetriesSpent
            /\ restartWatchersPending' = (restartWatchersPending \/ ~RetriesSpent)
       [] StillRequested /\ ~NeedsRetry ->
            ResetRetries /\ UNCHANGED <<rebuildPending, due, restartWatchersPending>>
       [] OTHER -> UNCHANGED <<pending, retryAttempts>>
  /\ UiUnchanged
  /\ UNCHANGED <<epochChanged, watchFailures, watchVars, diskVars, indexed, threw>>

(* A file system call or the sink throws: the error is reported and nothing *)
(* is scheduled.                                                            *)
Throw ==
  /\ worker.phase \in {"checking", "restarting", "scanning", "delivering"}
  /\ threw' = TRUE
  /\ worker' = In("waiting")
  /\ OnlyTheWorker /\ UNCHANGED <<pending, watchVars, indexed>>

-----------------------------------------------------------------------------
(* The watcher threads.  Changes are kept for a watcher from the moment its *)
(* first read is under way, which need not be before the crawl.             *)

OnlyAWatcher == UiUnchanged /\ UNCHANGED <<retryAttempts, unavailableRoots, records,
                                           worker, diskVars, indexed, threw>>
ListensWhenIdle ==   \* mutant: a change seen during a crawl is taken to be covered by it
  ~stopping /\ ~paused /\ request # None /\ worker.phase = "waiting"
Listening == ~stopping /\ ~paused /\ request # None

Arm(r) ==
  /\ watch[r] = "starting"
  /\ watch' = [watch EXCEPT ![r] = "watching"]
  /\ OnlyAWatcher /\ UNCHANGED <<noticed, pending, watchFailures>>

ScheduleWatchRefresh ==
  IF Listening
    THEN /\ rebuildPending' = TRUE /\ probeOnly' = FALSE /\ due' = FALSE
         /\ UNCHANGED restartWatchersPending
    ELSE UNCHANGED pending

(* A read ends with changes, which earns the root a fresh budget, or, when  *)
(* its buffer overflowed, with none.                                        *)
Notice(r) ==
  /\ r \in noticed /\ watch[r] = "watching"
  /\ noticed' = noticed \ {r}
  /\ ScheduleWatchRefresh
  /\ \/ watchFailures' = [watchFailures EXCEPT ![r] = 0]
     \/ UNCHANGED watchFailures
  /\ OnlyAWatcher /\ UNCHANGED watch

GivesUp(r) == watchFailures[r] >= MaxWatchRetries

(* A read fails and its thread ends.  The restart it asks for does not      *)
(* postpone a rebuild that is already due.                                  *)
WatchFails(r) ==
  /\ watch[r] \in {"starting", "watching"}
  /\ watch' = [watch EXCEPT ![r] = "broken"]
  /\ noticed' = noticed \ {r}
  /\ watchFailures' = IF Listening /\ watchFailures[r] <= MaxWatchRetries
                        THEN [watchFailures EXCEPT ![r] = @ + 1] ELSE watchFailures
  /\ IF Listening /\ ~GivesUp(r)
       THEN /\ due' = (rebuildPending /\ due)
            /\ rebuildPending' = TRUE /\ probeOnly' = FALSE
            /\ restartWatchersPending' = TRUE
       ELSE UNCHANGED pending
  /\ OnlyAWatcher

-----------------------------------------------------------------------------
(* The environment.                                                         *)

TimePasses ==
  /\ rebuildPending /\ ~due
  /\ due' = TRUE
  /\ UiUnchanged
  /\ UNCHANGED <<rebuildPending, restartWatchersPending, probeOnly, retryVars,
                 unavailableRoots, records, worker, watchVars, diskVars, indexed, threw>>

OnlyTheDisk == UiUnchanged /\ UNCHANGED <<pending, retryVars, unavailableRoots, records,
                                          worker, watch, indexed, threw>>

Change(r) ==
  /\ r \in available /\ disk[r] < MaxChanges
  /\ disk' = [disk EXCEPT ![r] = @ + 1]
  /\ IF watch[r] = "watching"
       THEN noticed' = noticed \cup {r} /\ unwatched' = unwatched \ {r}
       ELSE unwatched' = unwatched \cup {r} /\ UNCHANGED noticed
  /\ OnlyTheDisk /\ UNCHANGED <<available, flips>>

ComeOrGo(r) ==
  /\ flips[r] < MaxFlips
  /\ flips' = [flips EXCEPT ![r] = @ + 1]
  /\ available' = IF r \in available THEN available \ {r} ELSE available \cup {r}
  /\ OnlyTheDisk /\ UNCHANGED <<noticed, disk, unwatched>>

UiStep == Reconfigure \/ StopWatchers \/ Join
WorkerStep ==
  \/ WorkerReturns \/ WorkerPauses \/ CloseWatchers \/ Take \/ Check \/ ProbeAgain
  \/ RestartWatchers \/ EndScan \/ CheckCurrent \/ Deliver \/ Record
  \/ \E r \in Roots : ScanRoot(r)
WatcherStep(r) == Arm(r) \/ Notice(r)

Next ==
  \/ \E roots \in SUBSET Roots : Configure(roots)
  \/ Rebuild \/ Pause \/ BeginStop \/ UiStep
  \/ WorkerStep \/ Throw
  \/ \E r \in Roots : WatcherStep(r) \/ WatchFails(r) \/ Change(r) \/ ComeOrGo(r)
  \/ TimePasses

Spec == Init /\ [][Next]_vars

(* Every thread is scheduled, file system calls return and time passes.     *)
FairSpec ==
  /\ Spec /\ WF_vars(UiStep) /\ WF_vars(WorkerStep) /\ WF_vars(TimePasses)
  /\ \A r \in Roots : WF_vars(WatcherStep(r))

-----------------------------------------------------------------------------
(* Properties.                                                              *)

(* Outside Stop, the worker never wakes for something it cannot do: a pause *)
(* leaves no rebuild behind, and what is pending has a request.  Otherwise  *)
(* WorkerLoop would find no request (line 608) and spin.                    *)
SpinFree ==
  ~stopping => /\ paused => ~rebuildPending
               /\ Awake => paused \/ request # None

(* Only the missing roots may be skipped: a pass is a mere probe only if    *)
(* nobody has asked for a restart, a refresh or a rebuild meanwhile.        *)
ProbesOnly == probeOnly => rebuildPending /\ ~restartWatchersPending

(* What the content records describe is what the sink received last, root   *)
(* by root; and once they have been forgotten there are none before the     *)
(* next crawl starts, also if one was under way: it reads every file again. *)
RecordsDescribeIndex ==
  /\ \A known \in contentRecords : known[2] = indexed[known[1]]
  /\ epochChanged => contentRecords = {}

(* A crawl that a pause, a new request or a stop has cut short is never     *)
(* delivered, whatever happens between the cut and the check: the sink      *)
(* would take the roots it lacks for empty.                                 *)
DeliveredIsComplete == worker.phase = "delivering" => worker.left = {}

(* The service has nothing to do.                                           *)
AtRest ==
  /\ worker.phase = "waiting" /\ call = "none"
  /\ ~rebuildPending /\ ~restartWatchersPending
  /\ noticed = {} /\ \A r \in Roots : watch[r] # "starting"

(* At rest, the watchers keep what they promise: the index of a root lacks  *)
(* no change that was made while its watcher was listening, through every   *)
(* restart, retry, pause and probe in between; and only the requested roots *)
(* are watched, none during a pause, also when a stop or a pause overtook   *)
(* the worker restarting its watchers.                                      *)
WatchedIsIndexed ==
  AtRest /\ ~threw =>
    /\ request # None => \A r \in request.roots :
         watch[r] = "watching" /\ indexed[r] # disk[r] => r \in unwatched
    /\ \A r \in Roots : watch[r] # "none" => request # None /\ r \in request.roots

(* Every scan asked for by the UI or a watcher is run, unless its request   *)
(* is replaced or withdrawn first; and the crawls come to an end when the   *)
(* disk does: neither missing roots nor broken watches repeat them for      *)
(* ever.                                                                    *)
RequestsAreServed ==
  /\ rebuildPending /\ ~probeOnly ~> worker.phase = "recording" \/ request = None \/ threw
  /\ <>[](worker.phase # "scanning")

(* What the comment in Reconfigure says: watching first retains the changes *)
(* made while the crawl is running, so that at rest a watched root is       *)
(* indexed as it is.                                                        *)
CrawlChangesRetained ==
  AtRest /\ request # None /\ ~threw =>
    \A r \in request.roots : watch[r] = "watching" => indexed[r] = disk[r]
=============================================================================
