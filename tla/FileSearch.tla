----------------------------- MODULE FileSearch -----------------------------
(***************************************************************************)
(* Searching files: the worker of native/src/file_search_service.cpp and   *)
(* its client, the launcher's demand-loaded file index (main.cpp).         *)
(*                                                                         *)
(* The launcher loads the stored index when a search first needs it and    *)
(* hands it to the worker, which publishes it as the corpus queries are    *)
(* answered from and sends a projection of it back; going to the           *)
(* background releases all of it.  The persistence worker, the crawl (see  *)
(* FileIndexWorker) and the user act in between, and every answer carries  *)
(* a generation that says whether it is still wanted.                      *)
(*                                                                         *)
(* The contents of an index are its version: 0 is the empty index.         *)
(* Invalidate and the update that follows it are one step, and so are the  *)
(* store of generation_ and the lock taken after it: the worker does       *)
(* nothing between them that it could not do before or after.              *)
(***************************************************************************)
EXTENDS Naturals, Sequences

CONSTANT MaxActs   \* bound on what the user does, crawls deliver and failures cost

ASSUME MaxActsIsNatural == MaxActs \in Nat

VARIABLES
  view, inFiles,       \* the window in front; the query is one of the Files scope
  enabled, configured, \* fileIndexEnabled, fileIndexConfigured_
  fileIndex, loaded, loadPending, projectionPending,
  loadGeneration, indexGeneration, projectionGeneration,
  snapshotTimer,       \* TIMER_FILE_SNAPSHOT is set
  requested, shown,    \* requestedGeneration_; the corpus its results came from, {} before
  jobs, stored,                       \* persistence: its queue, the version it stores
  generation, pending,                \* generation_ and pending_ of the service
  pendingFiles, pendingStorage, corpus,
  worker,
  projections, answers,               \* fileProjectionEvents_ and fileSearchEvents_
  stopping,
  delivered,                          \* the query answered last
  handed,                             \* the corpus handed over last
  threw,                              \* a search ended in an exception
  acts                                \* how much of the bound is used

windowVars     == <<view, inFiles>>
indexVars      == <<fileIndex, loaded, loadPending, projectionPending>>
genVars        == <<loadGeneration, indexGeneration, projectionGeneration>>
projectionVars == <<fileIndex, loaded, projectionPending, projectionGeneration>>
searchVars     == <<requested, shown>>
storeVars      == <<jobs, stored>>
corpusVars     == <<pendingFiles, pendingStorage, corpus, handed>>
serviceVars    == <<generation, pending, corpusVars, worker>>
eventVars      == <<projections, answers, delivered>>
launcherVars   == <<windowVars, enabled, configured, indexVars, genVars, snapshotTimer,
                    searchVars, storeVars, stopping>>
vars == <<windowVars, enabled, configured, indexVars, genVars, snapshotTimer, searchVars,
          storeVars, serviceVars, eventVars, stopping, threw, acts>>

NoQuery == 0
Update  == [generation : Nat, entries : Nat]
NoFiles == [generation |-> 0, entries |-> 0]
Idle    == [at |-> "idle", generation |-> 0, entries |-> 0]
Exited  == [Idle EXCEPT !.at = "exited"]

TypeOK ==
  /\ view \in {"background", "settings", "overlay"} /\ inFiles \in BOOLEAN
  /\ {enabled, configured, loaded, loadPending, projectionPending} \subseteq BOOLEAN
  /\ {fileIndex, corpus, handed, stored} \subseteq Nat /\ shown \subseteq Nat
  /\ {loadGeneration, indexGeneration, projectionGeneration} \subseteq Nat
  /\ {snapshotTimer, stopping, threw, pendingFiles} \subseteq BOOLEAN
  /\ {requested, generation, delivered} \subseteq Nat
  /\ jobs \in Seq([kind : {"load", "merge"}, generation : Nat])
  /\ pending \in 0 .. generation
  /\ pendingStorage \in Update
  /\ worker \in [at : {"idle", "emptying", "building", "computing", "delivering", "exited"},
                 generation : Nat, entries : Nat]
  /\ projections \in Seq(Update) /\ answers \in Seq(Update)
  /\ acts \in 0 .. MaxActs

NothingYet ==
  /\ view = "background" /\ inFiles = FALSE
  /\ enabled = TRUE /\ configured = FALSE
  /\ fileIndex = 0 /\ loaded = FALSE /\ loadPending = FALSE /\ projectionPending = FALSE
  /\ loadGeneration = 0 /\ indexGeneration = 0 /\ projectionGeneration = 0
  /\ snapshotTimer = FALSE
  /\ requested = 0 /\ shown = {}
  /\ jobs = <<>> /\ stored = 1
  /\ generation = 0 /\ pending = NoQuery
  /\ pendingFiles = FALSE /\ pendingStorage = NoFiles /\ corpus = 0
  /\ projections = <<>> /\ answers = <<>>
  /\ threw = FALSE
  /\ delivered = 0 /\ handed = 0
  /\ acts = 0

Init   == NothingYet /\ worker = Idle /\ stopping = FALSE
Absent == NothingYet /\ worker = Exited /\ stopping = TRUE   \* a service that is not started

Acts == acts < MaxActs /\ acts' = acts + 1

-----------------------------------------------------------------------------
(* FileSearchService, as its client calls it.                               *)
UpdateStorageFilesAsync(gen, entries) ==
  /\ pendingStorage' = [generation |-> gen, entries |-> entries]
  /\ handed' = entries

ReleaseIndex ==   \* Invalidate, then UpdateFilesAsync of an empty list
  /\ generation' = requested'
  /\ pending' = NoQuery
  /\ pendingStorage' = NoFiles
  /\ pendingFiles' = TRUE
  /\ handed' = 0

-----------------------------------------------------------------------------
(* The launcher.  EnsureFileIndexLoaded asks for one load at a time.        *)
NotLoaded == ~loaded /\ ~loadPending /\ ~projectionPending

EnsureFileIndexLoaded(missing, queue) ==
  IF missing
  THEN /\ loadPending' = TRUE
       /\ loadGeneration' = loadGeneration + 1
       /\ jobs' = Append(queue, [kind |-> "load", generation |-> loadGeneration'])
  ELSE jobs' = queue /\ UNCHANGED <<loadPending, loadGeneration>>

ConfigureFileIndex == configured' = TRUE /\ indexGeneration' = indexGeneration + 1

(* RequestSearch of a visible overlay.  A query of the Files scope needs    *)
(* the index (missing, if it is not there), and the crawl, and goes to the  *)
(* service; other workers answer any other.                                 *)
RequestSearch(files, missing, queue) ==
  /\ requested' = requested + 1 /\ shown' = {}
  /\ EnsureFileIndexLoaded(files /\ enabled /\ missing, queue)
  /\ IF files /\ enabled /\ ~configured THEN ConfigureFileIndex
                                        ELSE UNCHANGED <<configured, indexGeneration>>
  /\ IF files THEN generation' = requested' /\ pending' = requested'
              ELSE UNCHANGED <<generation, pending>>

NoSearch(queue) ==
  /\ jobs' = queue
  /\ UNCHANGED <<searchVars, loadPending, loadGeneration, configured, indexGeneration,
                 generation, pending>>

ShowOverlay(files) ==
  /\ ~stopping /\ view # "overlay" /\ Acts
  /\ view' = "overlay" /\ inFiles' = files
  /\ RequestSearch(files, NotLoaded, jobs)
  /\ UNCHANGED <<enabled, projectionVars, snapshotTimer, stored,
                 corpusVars, worker, eventVars, stopping, threw>>

Type(files) ==
  /\ ~stopping /\ view = "overlay" /\ Acts
  /\ inFiles' = files
  /\ RequestSearch(files, NotLoaded, jobs)
  /\ UNCHANGED <<view, enabled, projectionVars, snapshotTimer, stored,
                 corpusVars, worker, eventVars, stopping, threw>>

(* The settings window; its privacy page shows the index.                   *)
ShowSettings(privacy) ==
  /\ ~stopping /\ view # "settings" /\ Acts
  /\ view' = "settings"
  /\ EnsureFileIndexLoaded(privacy /\ enabled /\ NotLoaded, jobs)
  /\ UNCHANGED <<inFiles, enabled, configured, indexGeneration, projectionVars, snapshotTimer,
                 searchVars, stored, serviceVars, eventVars, stopping, threw>>

(* FileIndexToggle.                                                         *)
Disable ==
  /\ ~stopping /\ view = "settings" /\ enabled /\ Acts
  /\ enabled' = FALSE /\ configured' = FALSE
  /\ fileIndex' = 0 /\ loaded' = FALSE /\ loadPending' = FALSE
  /\ loadGeneration' = loadGeneration + 1
  /\ UNCHANGED <<windowVars, projectionPending, indexGeneration, projectionGeneration,
                 snapshotTimer, searchVars, storeVars, serviceVars, eventVars, stopping, threw>>

Enable ==
  /\ ~stopping /\ view = "settings" /\ ~enabled /\ Acts
  /\ enabled' = TRUE
  /\ ConfigureFileIndex
  /\ EnsureFileIndexLoaded(NotLoaded, jobs)
  /\ UNCHANGED <<windowVars, projectionVars, snapshotTimer, searchVars, stored,
                 serviceVars, eventVars, stopping, threw>>

(* UpdateBackgroundState once no window is left: whatever is still to come  *)
(* belongs to an older generation, and the index is given up.               *)
Hide ==
  /\ ~stopping /\ view # "background"
  /\ view' = "background"
  /\ configured' = FALSE
  /\ indexGeneration' = indexGeneration + 1
  /\ loadGeneration' = loadGeneration + 1
  /\ projectionGeneration' = projectionGeneration + 1
  /\ fileIndex' = 0 /\ loaded' = FALSE /\ loadPending' = FALSE /\ projectionPending' = FALSE
  /\ snapshotTimer' = FALSE
  /\ requested' = requested + 1 /\ shown' = {}
  /\ ReleaseIndex
  /\ UNCHANGED <<inFiles, enabled, storeVars, corpus, worker, eventVars,
                 stopping, threw, acts>>

(* OnFileIndexReady: the crawl of the current request is merged into what   *)
(* is stored, and half a second later a timer searches again.               *)
OnFileIndexReady ==
  /\ ~stopping /\ configured /\ Acts
  /\ snapshotTimer' = TRUE
  /\ LET merge == [kind |-> "merge", generation |-> indexGeneration]
     IN IF view = "overlay" /\ inFiles
        THEN RequestSearch(TRUE, NotLoaded, Append(jobs, merge))
        ELSE NoSearch(Append(jobs, merge))
  /\ UNCHANGED <<windowVars, enabled, projectionVars, stored,
                 corpusVars, worker, eventVars, stopping, threw>>

OnSnapshotTimer ==
  /\ ~stopping /\ snapshotTimer
  /\ snapshotTimer' = FALSE
  /\ IF view = "overlay" THEN RequestSearch(inFiles, NotLoaded, jobs) ELSE NoSearch(jobs)
  /\ UNCHANGED <<windowVars, enabled, projectionVars, stored,
                 corpusVars, worker, eventVars, stopping, threw, acts>>

(* The persistence worker runs one job after the other: what is stored is   *)
(* loaded, or merged first.  Its event (FileIndexLoaded, FileIndexMerged)   *)
(* is dropped when nobody waits for it any more, only reported when the job *)
(* failed, and otherwise handed to the worker by ApplyLoadedFileIndex.      *)
(* Nobody else sees a job run, so the event is handled in the same step.    *)
Welcome(job) ==
  job.generation = IF job.kind = "load" THEN loadGeneration ELSE indexGeneration

Loaded(job) ==
  /\ stored' = IF job.kind = "merge" THEN stored + 1 ELSE stored
  /\ loadPending' = (loadPending /\ ~Welcome(job))
  /\ IF Welcome(job)
     THEN /\ projectionPending' = TRUE
          /\ projectionGeneration' = job.generation
          /\ UpdateStorageFilesAsync(job.generation, stored')
     ELSE UNCHANGED <<projectionPending, projectionGeneration, pendingStorage, handed>>
  /\ UNCHANGED acts

KeepsLoading(job) == loadPending   \* mutant: a failed load stays pending
AfterFailedLoad(job) == loadPending /\ ~(Welcome(job) /\ job.kind = "load")

LoadFails(job) ==
  /\ Acts
  /\ loadPending' = AfterFailedLoad(job)
  /\ UNCHANGED <<stored, projectionPending, projectionGeneration, pendingStorage, handed>>

OnLoaded ==
  /\ ~stopping /\ jobs # <<>>
  /\ jobs' = Tail(jobs)
  /\ Loaded(Head(jobs)) \/ LoadFails(Head(jobs))
  /\ UNCHANGED <<windowVars, enabled, configured, fileIndex, loaded, loadGeneration,
                 indexGeneration, snapshotTimer, searchVars, generation, pending, pendingFiles,
                 corpus, worker, eventVars, stopping, threw>>

(* The projection of a corpus the worker has published; one that is not     *)
(* wanted any more is dropped.                                              *)
Projected(event) == event.generation = projectionGeneration

OnProjection ==
  /\ ~stopping /\ projections # <<>>
  /\ projections' = Tail(projections)
  /\ IF Projected(Head(projections))
     THEN /\ fileIndex' = Head(projections).entries
          /\ loaded' = TRUE /\ projectionPending' = FALSE
          /\ IF view = "overlay" THEN RequestSearch(inFiles, FALSE, jobs) ELSE NoSearch(jobs)
     ELSE NoSearch(jobs) /\ UNCHANGED <<fileIndex, loaded, projectionPending>>
  /\ UNCHANGED <<windowVars, enabled, projectionGeneration, snapshotTimer,
                 stored, corpusVars, worker, answers, delivered, stopping, threw, acts>>

(* An answer is shown if it is the one asked for last (ApplyResults),       *)
(* whichever window is in front.                                            *)
OnAnswer ==
  /\ ~stopping /\ answers # <<>>
  /\ answers' = Tail(answers)
  /\ IF Head(answers).generation = requested
     THEN shown' = {Head(answers).entries}
     ELSE shown' = shown
  /\ UNCHANGED <<windowVars, enabled, configured, indexVars, genVars, snapshotTimer,
                 requested, storeVars, serviceVars, projections, delivered, stopping, threw,
                 acts>>

(* FileSearchService::Stop, at the end of the program: nobody handles the   *)
(* events that are left.                                                    *)
Stop ==
  /\ ~stopping
  /\ stopping' = TRUE
  /\ jobs' = <<>> /\ projections' = <<>> /\ answers' = <<>>
  /\ pending' = NoQuery /\ pendingFiles' = FALSE /\ pendingStorage' = NoFiles
  /\ UNCHANGED <<windowVars, enabled, configured, indexVars, genVars, snapshotTimer,
                 searchVars, stored, generation, corpus, handed, worker, delivered, threw,
                 acts>>

-----------------------------------------------------------------------------
(* FileSearchService::WorkerLoop: corpora before queries, and of two        *)
(* corpora the stored one first.                                            *)
Steps(at, gen, entries) == worker' = [at |-> at, generation |-> gen, entries |-> entries]

TakeStorage ==
  /\ worker.at = "idle" /\ ~stopping
  /\ pendingStorage # NoFiles
  /\ Steps("building", pendingStorage.generation, pendingStorage.entries)
  /\ pendingStorage' = NoFiles
  /\ UNCHANGED <<launcherVars, generation, pending, pendingFiles, corpus, handed,
                 projections, answers, delivered, acts, threw>>

TakeFiles ==
  /\ worker.at = "idle" /\ ~stopping
  /\ pendingStorage = NoFiles /\ pendingFiles
  /\ Steps("emptying", 0, 0)
  /\ pendingFiles' = FALSE
  /\ UNCHANGED <<launcherVars, generation, pending, pendingStorage, corpus, handed,
                 projections, answers, delivered, acts, threw>>

QueryAtOnce == pending # NoQuery   \* mutant: queries do not wait for corpora
QueryIsNext == pending # NoQuery /\ pendingStorage = NoFiles /\ ~pendingFiles

StaysPending == pending   \* mutant: the query is taken again
NothingPending == NoQuery

TakeQuery ==
  /\ worker.at = "idle" /\ ~stopping
  /\ QueryIsNext
  /\ Steps("computing", pending, corpus)
  /\ pending' = NothingPending
  /\ UNCHANGED <<launcherVars, generation, pendingFiles, pendingStorage, corpus, handed,
                 projections, answers, delivered, acts, threw>>

Publish ==
  /\ worker.at \in {"building", "emptying"}
  /\ corpus' = worker.entries
  /\ projections' = IF worker.at = "building"
                    THEN Append(projections, [generation |-> worker.generation,
                                              entries |-> worker.entries])
                    ELSE projections
  /\ worker' = Idle
  /\ UNCHANGED <<launcherVars, generation, pending, pendingFiles, pendingStorage, handed,
                 answers, delivered, acts, threw>>

(* Compute, and the check that the answer is still wanted; the sink is      *)
(* called after it.                                                         *)
StillCurrent == generation = worker.generation

Compute ==
  /\ worker.at = "computing"
  /\ \/ /\ worker' = IF StillCurrent /\ ~stopping THEN [worker EXCEPT !.at = "delivering"]
                                                  ELSE Idle
        /\ UNCHANGED <<acts, threw>>
     \/ /\ Acts
        /\ worker' = Idle /\ threw' = TRUE
  /\ UNCHANGED <<launcherVars, generation, pending, corpusVars, projections, answers,
                 delivered>>

Deliver ==
  /\ worker.at = "delivering"
  /\ answers' = Append(answers, [generation |-> worker.generation, entries |-> worker.entries])
  /\ delivered' = worker.generation
  /\ worker' = Idle
  /\ UNCHANGED <<launcherVars, generation, pending, corpusVars, projections, acts, threw>>

Exit ==
  /\ worker.at = "idle" /\ stopping
  /\ worker' = Exited
  /\ UNCHANGED <<launcherVars, generation, pending, corpusVars, projections, answers,
                 delivered, acts, threw>>

WorkerLoop == TakeStorage \/ TakeFiles \/ TakeQuery \/ Publish \/ Compute \/ Deliver \/ Exit

HandleEvents == OnLoaded \/ OnProjection \/ OnAnswer

Next ==
  \/ \E files \in BOOLEAN : ShowOverlay(files) \/ Type(files)
  \/ \E privacy \in BOOLEAN : ShowSettings(privacy)
  \/ Disable \/ Enable \/ Hide
  \/ OnFileIndexReady \/ OnSnapshotTimer
  \/ HandleEvents
  \/ Stop
  \/ WorkerLoop

Spec == Init /\ [][Next]_vars

(* The workers run and the message loop handles their events.               *)
Fairness == WF_vars(HandleEvents) /\ WF_vars(WorkerLoop)

FairSpec == Spec /\ Fairness

-----------------------------------------------------------------------------
AtRest ==
  /\ worker.at = "idle" /\ pending = NoQuery /\ ~pendingFiles /\ pendingStorage = NoFiles
  /\ jobs = <<>> /\ projections = <<>> /\ answers = <<>>

(* Once everything under way has settled, the corpus is what the window in  *)
(* front needs: the files the overlay shows came from the corpus published  *)
(* last, since a corpus that replaces another is followed by a search       *)
(* (unless a search failed), and in the background the worker has given its *)
(* files up, whatever replies and builds were under way when the last       *)
(* window closed.  fileIndex need not be empty then: the generations of     *)
(* loads and of merges are two counters, and Hide may step                  *)
(* projectionGeneration onto that of a projection under way.                *)
ResultsFollowCorpus ==
  AtRest /\ ~stopping =>
    /\ view = "overlay" /\ inFiles /\ ~threw => shown = {corpus}
    /\ view = "background" => corpus = 0

(* Every search of the overlay's files is answered, or overtaken, or ends   *)
(* in an error.                                                             *)
SearchEnds ==
  (view = "overlay" /\ inFiles /\ shown = {})
    ~> (shown # {} \/ view # "overlay" \/ ~inFiles \/ threw \/ stopping)

(* The launcher does not say forever that it is loading.                    *)
LoadingEnds ==
  (loadPending \/ projectionPending) ~> ((~loadPending /\ ~projectionPending) \/ stopping)

(* Queries are answered in their order and each at most once, although they *)
(* replace each other, are cancelled while they are answered and wait for   *)
(* corpora.                                                                 *)
Answers == INSTANCE LatestAnswer
  WITH newest <- generation, answered <- delivered,
       serving <- IF worker.at \in {"computing", "delivering"} THEN worker.generation ELSE 0
ImplementsLatestAnswer == Answers!Spec

(* "Corpus publication has priority over a stale query.  The next loop      *)
(* iteration will coalesce and execute the newest query against it": a      *)
(* query is computed from the corpus handed over last.                      *)
NewestCorpusSearched ==
  worker.at = "computing" /\ pendingStorage = NoFiles /\ ~pendingFiles =>
    worker.entries = handed
=============================================================================
