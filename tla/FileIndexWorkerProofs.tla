------------------------- MODULE FileIndexWorkerProofs -------------------------
(***************************************************************************)
(* For all roots, retries and bounds: the worker of the file index never   *)
(* spins, a probe never swallows a scan that was asked for, a crawl that   *)
(* was cut short is never delivered, the content records describe what the *)
(* sink received last, and at rest the index lacks nothing that changed    *)
(* while a watcher was listening.                                          *)
(*                                                                         *)
(* That needs the order of Reconfigure's two writes: the generation is     *)
(* stored before paused_ is cleared, so a crawl that a pause has cut short *)
(* is already outdated when the pause ends.  It also needs every request   *)
(* that is replaced or withdrawn to ask for a restart of the watchers.     *)
(***************************************************************************)
EXTENDS FileIndexWorker, TLAPS

(* The worker's locals, whatever the bounds.                                *)
Pass == [phase : Phases, generation : Nat, roots : SUBSET Roots, restart : BOOLEAN,
         probe : BOOLEAN, missing : SUBSET Roots, left : SUBSET Roots,
         found : SUBSET Roots, seen : [Roots -> Nat], delivered : BOOLEAN]

(* What the proofs need of the types.                                       *)
Types ==
  /\ generation \in Nat /\ currentGeneration \in Nat
  /\ stopping \in BOOLEAN /\ paused \in BOOLEAN
  /\ rebuildPending \in BOOLEAN /\ restartWatchersPending \in BOOLEAN
  /\ probeOnly \in BOOLEAN
  /\ request \in [generation : Nat, roots : SUBSET Roots] \cup {None}
  /\ worker \in Pass
  /\ disk \in [Roots -> Nat]
  /\ wanted \subseteq Roots /\ unavailableRoots \subseteq Roots

(* A pause and a stop withdraw the request.                                 *)
Withdrawn == paused \/ stopping => request = None

(* Only Stop leaves something pending behind a withdrawn request, and only  *)
(* Pause leaves a restart that is not part of a rebuild.                    *)
PendingIsRequested ==
  /\ rebuildPending => stopping \/ request # None
  /\ restartWatchersPending => stopping \/ paused \/ rebuildPending

(* Generations never go back, and a configuration under way is newer than   *)
(* what the worker and the request have.                                    *)
Generations ==
  /\ currentGeneration <= generation
  /\ worker.generation <= currentGeneration
  /\ request # None => request.generation <= currentGeneration
  /\ call = "reconfigure" =>
       /\ currentGeneration = generation
       /\ worker.generation < generation
       /\ request # None => request.generation < generation

(* Stop has the UI thread until the worker is gone.                         *)
StopHolds == stopping <=> call \in {"stopWatchers", "join"}

(* A crawl cut short stays cut short until it is checked.                   *)
CutStaysCut == worker.phase = "scanned" /\ worker.left # {} => CutShort

IndexInv ==
  /\ Types /\ Withdrawn /\ PendingIsRequested /\ ProbesOnly
  /\ Generations /\ StopHolds /\ CutStaysCut /\ DeliveredIsComplete

(* A worker between two passes has no generation and nothing left to crawl. *)
LEMMA BetweenPasses ==
  ASSUME NEW p \in Phases
  PROVE  In(p) \in Pass /\ In(p).phase = p /\ In(p).generation = 0 /\ In(p).left = {}
BY DEF In, Nothing, Pass

(* Before the first configuration there is nothing to order.                *)
LEMMA IndexInit == Init => IndexInv
<1> SUFFICES ASSUME Init PROVE IndexInv
  OBVIOUS
<1>1. worker \in Pass /\ worker.phase = "none" /\ worker.generation = 0
  BY BetweenPasses DEF Init, Phases
<1>2. Types
  BY <1>1 DEF Init, Types, Nothing
<1>3. Withdrawn /\ PendingIsRequested /\ ProbesOnly /\ StopHolds
  BY DEF Init, Withdrawn, PendingIsRequested, ProbesOnly, StopHolds
<1>4. Generations /\ CutStaysCut /\ DeliveredIsComplete
  BY <1>1 DEF Init, Generations, CutStaysCut, DeliveredIsComplete
<1>5. QED
  BY <1>2, <1>3, <1>4 DEF IndexInv

(* Reconfigure ends a pause with a generation nothing else has yet.         *)
LEMMA ReconfigureKeeps == IndexInv /\ Reconfigure => IndexInv'
<1> SUFFICES ASSUME IndexInv, Reconfigure PROVE IndexInv'
  OBVIOUS
<1> USE DEF IndexInv
<1>1. Types' /\ request' # None /\ request'.generation = generation
  <2>1. request' = [generation |-> generation, roots |-> wanted]
    BY DEF Reconfigure
  <2>2. request' \in [generation : Nat, roots : SUBSET Roots]
    BY <2>1 DEF Types
  <2>3. request' # None /\ request'.generation = generation
    BY <2>1, <2>2, NoneIsNoRequest
  <2>4. Types'
    BY <2>2 DEF Reconfigure, Types, ResetRetries, diskVars
  <2>5. QED
    BY <2>3, <2>4
<1>2. Withdrawn' /\ PendingIsRequested' /\ ProbesOnly' /\ StopHolds'
  BY <1>1 DEF Reconfigure, Withdrawn, PendingIsRequested, ProbesOnly, StopHolds, ResetRetries
<1>3. Generations' /\ CutStaysCut' /\ DeliveredIsComplete'
  BY <1>1 DEF Reconfigure, Generations, CutStaysCut, DeliveredIsComplete, CutShort, IsCurrent,
              Types, Pass
<1>4. QED
  BY <1>1, <1>2, <1>3

(* The UI's other calls keep the invariant,                                 *)
LEMMA UiKeeps ==
  ASSUME IndexInv,
         (\E roots \in SUBSET Roots : Configure(roots)) \/ Rebuild \/ Pause
           \/ BeginStop \/ StopWatchers \/ Join
  PROVE  IndexInv'
<1> USE DEF IndexInv, Types, Withdrawn, PendingIsRequested, ProbesOnly, Generations, StopHolds,
            CutStaysCut, DeliveredIsComplete
<1>1. ASSUME NEW roots \in SUBSET Roots, Configure(roots) PROVE IndexInv'
  <2> USE <1>1
  <2>1. /\ worker' \in Pass /\ worker'.generation <= currentGeneration
        /\ worker' = worker \/ worker'.phase = "waiting"
    BY BetweenPasses DEF Configure, Phases
  <2>2. Types' /\ Withdrawn' /\ PendingIsRequested' /\ ProbesOnly' /\ StopHolds'
    BY <2>1 DEF Configure, pending, diskVars, NewGeneration
  <2>3. Generations'
    BY <2>1 DEF Configure, NewGeneration, Pass
  <2>4. CutStaysCut' /\ DeliveredIsComplete'
    BY <2>1 DEF Configure, NewGeneration, CutShort, IsCurrent, Pass
  <2>5. QED
    BY <2>2, <2>3, <2>4
<1>2. CASE Rebuild
  BY <1>2 DEF Rebuild, ResetRetries, diskVars, CutShort, IsCurrent
<1>3. CASE Pause
  <2> USE <1>3
  <2>1. Types'
    <3>1. generation' \in Nat
      BY DEF Pause
    <3>2. /\ request' = None
          /\ paused' \in BOOLEAN /\ rebuildPending' \in BOOLEAN
          /\ restartWatchersPending' \in BOOLEAN /\ probeOnly' \in BOOLEAN
      BY DEF Pause, ResetRetries
    <3>3. UNCHANGED <<currentGeneration, stopping, worker, disk, wanted, unavailableRoots>>
      BY DEF Pause, diskVars
    <3>4. QED
      BY <3>1, <3>2, <3>3
  <2>2. Withdrawn' /\ PendingIsRequested'
    BY DEF Pause
  <2>3. ProbesOnly' /\ StopHolds'
    BY DEF Pause, ResetRetries
  <2>4. Generations'
    BY DEF Pause, Pass
  <2>5. CutStaysCut' /\ DeliveredIsComplete'
    BY DEF Pause, CutShort, IsCurrent
  <2>6. QED
    BY <2>1, <2>2, <2>3, <2>4, <2>5
<1>4. CASE BeginStop
  BY <1>4 DEF BeginStop, pending, diskVars, CutShort, IsCurrent
<1>5. CASE StopWatchers
  BY <1>5 DEF StopWatchers, pending, diskVars, CutShort, IsCurrent
<1>6. CASE Join
  <2>1. /\ worker' \in Pass /\ worker'.phase = "none"
        /\ worker'.generation = 0
    BY <1>6, BetweenPasses DEF Join, Phases
  <2>2. Types' /\ Withdrawn' /\ PendingIsRequested' /\ ProbesOnly' /\ StopHolds'
    BY <1>6, <2>1 DEF Join, ResetRetries, diskVars
  <2>3. Generations' /\ CutStaysCut' /\ DeliveredIsComplete'
    BY <1>6, <2>1 DEF Join
  <2>4. QED
    BY <2>2, <2>3
<1>7. QED
  BY <1>1, <1>2, <1>3, <1>4, <1>5, <1>6

(* and so do the steps of the worker, one by one,                           *)
LEMMA WorkerKeeps ==
  ASSUME IndexInv, WorkerStep \/ Throw
  PROVE  IndexInv'
<1> USE DEF IndexInv, Types, Withdrawn, PendingIsRequested, ProbesOnly, Generations, StopHolds,
            CutStaysCut, DeliveredIsComplete, OnlyTheWorker, UiUnchanged, uiVars, diskVars
<1>1. CASE WorkerReturns
  BY <1>1, BetweenPasses DEF WorkerReturns, pending, Phases
<1>2. CASE WorkerPauses
  <2>1. /\ worker' \in Pass /\ worker'.phase = "closing"
        /\ worker'.generation = 0
    BY <1>2, BetweenPasses DEF WorkerPauses, Phases
  <2>2. Types'
    BY <1>2, <2>1 DEF WorkerPauses
  <2>3. Withdrawn' /\ PendingIsRequested'
    BY <1>2 DEF WorkerPauses
  <2>4. ProbesOnly' /\ StopHolds'
    BY <1>2 DEF WorkerPauses
  <2>5. Generations' /\ CutStaysCut' /\ DeliveredIsComplete'
    BY <1>2, <2>1 DEF WorkerPauses, Pass
  <2>6. QED
    BY <2>2, <2>3, <2>4, <2>5
<1>3. CASE CloseWatchers
  <2>1. /\ worker' \in Pass /\ worker'.phase = "waiting"
        /\ worker'.generation = 0
    BY <1>3, BetweenPasses DEF CloseWatchers, Phases
  <2>2. Types'
    BY <1>3, <2>1 DEF CloseWatchers, pending
  <2>3. Withdrawn' /\ PendingIsRequested'
    BY <1>3 DEF CloseWatchers, pending
  <2>4. ProbesOnly' /\ StopHolds'
    BY <1>3 DEF CloseWatchers, pending
  <2>5. Generations' /\ CutStaysCut' /\ DeliveredIsComplete'
    BY <1>3, <2>1 DEF CloseWatchers, pending, Pass
  <2>6. QED
    BY <2>2, <2>3, <2>4, <2>5
<1>4. CASE Take
  <2>1. /\ worker' \in Pass /\ worker'.phase = "checking"
        /\ worker'.generation = request.generation
    <3>1. In("checking") \in Pass
      BY BetweenPasses DEF Phases
    <3>2. request.generation \in Nat /\ request.roots \subseteq Roots
      BY <1>4 DEF Take
    <3>3. QED
      BY <1>4, <3>1, <3>2 DEF Take, Pass, Phases, In
  <2>2. QED
    BY <1>4, <2>1 DEF Take
<1>5. CASE Check
  <2>1. /\ worker' \in Pass /\ worker'.generation = worker.generation
        /\ worker'.phase \in {"reprobing", "restarting", "scanning"}
    BY <1>5 DEF Check, Pass, Phases
  <2>2. QED
    BY <1>5, <2>1 DEF Check, pending
<1>6. CASE ProbeAgain
  <2>1. /\ worker' \in Pass /\ worker'.phase = "waiting"
        /\ worker'.generation = 0
    BY <1>6, BetweenPasses DEF ProbeAgain, Phases
  <2>2. Types'
    BY <1>6, <2>1 DEF ProbeAgain, StillRequested
  <2>3. Withdrawn' /\ PendingIsRequested'
    BY <1>6 DEF ProbeAgain, StillRequested
  <2>4. ProbesOnly' /\ StopHolds'
    BY <1>6 DEF ProbeAgain, StillRequested
  <2>5. Generations' /\ CutStaysCut' /\ DeliveredIsComplete'
    BY <1>6, <2>1 DEF ProbeAgain, StillRequested, Pass
  <2>6. QED
    BY <2>2, <2>3, <2>4, <2>5
<1>7. CASE RestartWatchers
  BY <1>7 DEF RestartWatchers, pending, Pass, Phases
<1>8. ASSUME NEW r \in Roots, ScanRoot(r) PROVE IndexInv'
  BY <1>8 DEF ScanRoot, pending, Pass, Phases
<1>9. CASE EndScan
  BY <1>9 DEF EndScan, CutShort, IsCurrent, pending, Pass, Phases
<1>10. CASE CheckCurrent
  BY <1>10 DEF CheckCurrent, pending, Pass, Phases, Nothing
<1>11. CASE Deliver
  BY <1>11 DEF Deliver, pending, Pass, Phases, Nothing
<1>12. CASE Record
  <2>1. /\ worker' \in Pass /\ worker'.phase = "waiting"
        /\ worker'.generation = 0
    BY <1>12, BetweenPasses DEF Record, Phases
  <2>2. Types'
    <3>1. /\ rebuildPending' \in BOOLEAN /\ restartWatchersPending' \in BOOLEAN
          /\ probeOnly' \in BOOLEAN
      <4>1. RetriesSpent \in BOOLEAN
        BY DEF RetriesSpent
      <4>2. CASE StillRequested /\ NeedsRetry /\ ~rebuildPending
        BY <1>12, <4>1, <4>2 DEF Record
      <4>3. CASE ~StillRequested \/ ~NeedsRetry \/ rebuildPending
        BY <1>12, <4>3 DEF Record, ResetRetries, pending
      <4>4. QED
        BY <4>2, <4>3
    <3>2. unavailableRoots' \subseteq Roots
      BY <1>12 DEF Record, Missing, Pass
    <3>3. QED
      BY <1>12, <2>1, <3>1, <3>2 DEF Record
  <2>3. Withdrawn' /\ PendingIsRequested'
    BY <1>12 DEF Record, StillRequested, ResetRetries, Missing, pending
  <2>4. ProbesOnly' /\ StopHolds'
    BY <1>12 DEF Record, StillRequested, ResetRetries, Missing, pending
  <2>5. Generations' /\ CutStaysCut' /\ DeliveredIsComplete'
    BY <1>12, <2>1 DEF Record, StillRequested, ResetRetries, Missing, pending, Pass
  <2>6. QED
    BY <2>2, <2>3, <2>4, <2>5
<1>13. CASE Throw
  <2>1. /\ worker' \in Pass /\ worker'.phase = "waiting"
        /\ worker'.generation = 0
    BY <1>13, BetweenPasses DEF Throw, Phases
  <2>2. Types'
    BY <1>13, <2>1 DEF Throw, pending
  <2>3. Withdrawn' /\ PendingIsRequested'
    BY <1>13 DEF Throw, pending
  <2>4. ProbesOnly' /\ StopHolds'
    BY <1>13 DEF Throw, pending
  <2>5. Generations' /\ CutStaysCut' /\ DeliveredIsComplete'
    BY <1>13, <2>1 DEF Throw, pending, Pass
  <2>6. QED
    BY <2>2, <2>3, <2>4, <2>5
<1>14. QED
  BY <1>1, <1>2, <1>3, <1>4, <1>5, <1>6, <1>7, <1>8, <1>9, <1>10, <1>11, <1>12, <1>13
     DEF WorkerStep

(* the watchers, the disk and the clock.                                    *)
LEMMA OthersKeep ==
  ASSUME IndexInv,
         \/ \E r \in Roots : WatcherStep(r) \/ WatchFails(r) \/ Change(r) \/ ComeOrGo(r)
         \/ TimePasses
         \/ UNCHANGED vars
  PROVE  IndexInv'
<1> USE DEF IndexInv, Types, Withdrawn, PendingIsRequested, ProbesOnly, Generations, StopHolds,
            CutStaysCut, DeliveredIsComplete, CutShort, IsCurrent, UiUnchanged, uiVars, diskVars
<1>1. ASSUME NEW r \in Roots, Arm(r) PROVE IndexInv'
  BY <1>1 DEF Arm, OnlyAWatcher, pending
<1>2. ASSUME NEW r \in Roots, Notice(r) PROVE IndexInv'
  BY <1>2 DEF Notice, ScheduleWatchRefresh, Listening, OnlyAWatcher, pending
<1>3. ASSUME NEW r \in Roots, WatchFails(r) PROVE IndexInv'
  BY <1>3 DEF WatchFails, Listening, OnlyAWatcher, pending
<1>4. ASSUME NEW r \in Roots, Change(r) PROVE IndexInv'
  BY <1>4 DEF Change, OnlyTheDisk, pending
<1>5. ASSUME NEW r \in Roots, ComeOrGo(r) PROVE IndexInv'
  BY <1>5 DEF ComeOrGo, OnlyTheDisk, pending
<1>6. CASE TimePasses
  BY <1>6 DEF TimePasses
<1>7. CASE UNCHANGED vars
  BY <1>7 DEF vars, pending
<1>8. QED
  BY <1>1, <1>2, <1>3, <1>4, <1>5, <1>6, <1>7 DEF WatcherStep

(* The generations stay ordered, and what is pending has a request, in      *)
(* every behaviour of the service.                                          *)
THEOREM Invariance == Spec => []IndexInv
<1>1. IndexInv /\ [Next]_vars => IndexInv'
  BY ReconfigureKeeps, UiKeeps, WorkerKeeps, OthersKeep DEF Next, UiStep
<1>2. QED
  BY IndexInit, <1>1, PTL DEF Spec

(* The worker never wakes for a rebuild that has no request (WorkerLoop,    *)
(* file_index_service.cpp:594-608), so its loop never spins.                *)
THEOREM NeverSpins == Spec => []SpinFree
<1>1. IndexInv => SpinFree
  BY DEF IndexInv, Types, Withdrawn, PendingIsRequested, SpinFree, Awake
<1>2. QED
  BY Invariance, <1>1, PTL

(* A rebuild, refresh or retry asked for while a probe is pending turns it  *)
(* into a full scan (file_index_service.cpp:459-489, 622-682).              *)
THEOREM ProbesSwallowNothing == Spec => []ProbesOnly
<1>1. IndexInv => ProbesOnly
  BY DEF IndexInv
<1>2. QED
  BY Invariance, <1>1, PTL

(* No crawl cut short reaches the sink (Scan and WorkerLoop,                *)
(* file_index_service.cpp:698-878 and 662), whatever the UI does meanwhile. *)
THEOREM OnlyCompleteCrawls == Spec => []DeliveredIsComplete
<1>1. IndexInv => DeliveredIsComplete
  BY DEF IndexInv
<1>2. QED
  BY Invariance, <1>1, PTL

-----------------------------------------------------------------------------
(* The records travel with the worker: none are left behind while a crawl   *)
(* is under way, and those of a delivered crawl are what the sink received. *)
CrawlHasRecords ==
  worker.phase \in {"restarting", "scanning", "scanned", "delivering", "recording"}
    => contentRecords = {}

DeliveredIsIndexed ==
  worker.delivered => /\ worker.phase = "recording"
                      /\ \A r \in worker.found : indexed[r] = worker.seen[r]

RecordsInv ==
  /\ indexed \in [Roots -> Nat]
  /\ RecordsDescribeIndex /\ CrawlHasRecords /\ DeliveredIsIndexed

(* There are no records before the first crawl.                             *)
LEMMA RecordsInit == Init => RecordsInv
<1> SUFFICES ASSUME Init PROVE RecordsInv
  OBVIOUS
<1>1. worker.phase = "none" /\ worker.delivered = FALSE
  BY DEF Init, In
<1>2. indexed \in [Roots -> Nat] /\ contentRecords = {}
  BY DEF Init, Nothing
<1>3. QED
  BY <1>1, <1>2 DEF RecordsInv, RecordsDescribeIndex, CrawlHasRecords, DeliveredIsIndexed

(* A worker between two passes holds no records.                            *)
LEMMA IdleKeepsRecords ==
  ASSUME RecordsInv, NEW p \in {"none", "ended", "waiting", "closing", "checking"},
         worker' = In(p), UNCHANGED <<indexed, records>>
  PROVE  RecordsInv'
BY DEF RecordsInv, RecordsDescribeIndex, CrawlHasRecords, DeliveredIsIndexed, In, records

(* Records come from a delivered crawl and go when they are forgotten.      *)
LEMMA RecordsStep == IndexInv /\ RecordsInv /\ [Next]_vars => RecordsInv'
<1> SUFFICES ASSUME IndexInv, RecordsInv, [Next]_vars PROVE RecordsInv'
  OBVIOUS
<1>0. worker \in Pass /\ disk \in [Roots -> Nat]
  BY DEF IndexInv, Types
<1>1. CASE UNCHANGED <<records, indexed, worker>>
  BY <1>1 DEF RecordsInv, RecordsDescribeIndex, CrawlHasRecords, DeliveredIsIndexed, records
<1>2. CASE Reconfigure \/ Rebuild \/ Pause
  <2>1. contentRecords' = {} /\ UNCHANGED <<indexed, worker>>
    BY <1>2 DEF Reconfigure, Rebuild, Pause, ForgetContentRecords
  <2>2. QED
    BY <2>1 DEF RecordsInv, RecordsDescribeIndex, CrawlHasRecords, DeliveredIsIndexed
<1>3. CASE Join
  <2>1. contentRecords' = {} /\ worker' = In("none") /\ UNCHANGED indexed
    BY <1>3 DEF Join, ForgetContentRecords
  <2>2. QED
    BY <2>1 DEF RecordsInv, RecordsDescribeIndex, CrawlHasRecords, DeliveredIsIndexed, In
<1>4. ASSUME NEW roots \in SUBSET Roots, Configure(roots) PROVE RecordsInv'
  <2>1. UNCHANGED <<indexed, records>> /\ (worker' = In("waiting") \/ worker' = worker)
    BY <1>4 DEF Configure
  <2>2. QED
    BY <1>1, <2>1, IdleKeepsRecords
<1>5. CASE BeginStop \/ StopWatchers
  BY <1>1, <1>5 DEF BeginStop, StopWatchers
<1>6. CASE WorkerReturns \/ WorkerPauses \/ CloseWatchers \/ ProbeAgain \/ Throw
  <2>1. UNCHANGED <<indexed, records>>
    BY <1>6 DEF WorkerReturns, WorkerPauses, CloseWatchers, ProbeAgain, Throw, OnlyTheWorker
  <2>2. \E p \in {"ended", "waiting", "closing"} : worker' = In(p)
    BY <1>6 DEF WorkerReturns, WorkerPauses, CloseWatchers, ProbeAgain, Throw
  <2>3. QED
    BY <2>1, <2>2, IdleKeepsRecords
<1>7. CASE Take
  <2>1. UNCHANGED <<indexed, records>>
    BY <1>7 DEF Take, OnlyTheWorker
  <2>2. worker'.phase = "checking" /\ worker'.delivered = FALSE
    BY <1>7 DEF Take, In
  <2>3. QED
    BY <2>1, <2>2 DEF RecordsInv, RecordsDescribeIndex, CrawlHasRecords, DeliveredIsIndexed,
                      records
<1>8. CASE Check
  <2>1. worker'.delivered = FALSE /\ UNCHANGED indexed
    BY <1>0, <1>8 DEF Check, RecordsInv, DeliveredIsIndexed, Pass
  <2>2. CASE worker.probe /\ ~RootReturned
    <3>1. UNCHANGED records /\ worker'.phase = "reprobing"
      BY <1>0, <1>8, <2>2 DEF Check, Pass
    <3>2. QED
      BY <2>1, <3>1 DEF RecordsInv, RecordsDescribeIndex, CrawlHasRecords, DeliveredIsIndexed,
                        records
  <2>3. CASE ~worker.probe \/ RootReturned
    <3>1. contentRecords' = {}
      BY <1>8, <2>3 DEF Check
    <3>2. QED
      BY <2>1, <3>1 DEF RecordsInv, RecordsDescribeIndex, CrawlHasRecords, DeliveredIsIndexed
  <2>4. QED
    BY <2>2, <2>3
<1>9. CASE RestartWatchers \/ EndScan \/ CheckCurrent \/ (\E r \in Roots : ScanRoot(r))
  <2>1. UNCHANGED <<indexed, records>>
    BY <1>9 DEF RestartWatchers, EndScan, CheckCurrent, ScanRoot, OnlyTheWorker
  <2>2. /\ worker.phase \in {"restarting", "scanning", "scanned"}
        /\ worker'.delivered = worker.delivered
    BY <1>0, <1>9 DEF RestartWatchers, EndScan, CheckCurrent, ScanRoot, Pass
  <2>3. contentRecords = {} /\ worker'.delivered = FALSE
    BY <1>0, <2>2 DEF RecordsInv, CrawlHasRecords, DeliveredIsIndexed, Pass
  <2>4. QED
    BY <2>1, <2>3 DEF RecordsInv, RecordsDescribeIndex, CrawlHasRecords, DeliveredIsIndexed,
                      records
<1>10. CASE Deliver
  <2>1. /\ worker'.phase = "recording" /\ worker'.found = worker.found
        /\ worker'.seen = worker.seen
    BY <1>0, <1>10 DEF Deliver, Pass
  <2>2. indexed' \in [Roots -> Nat] /\ \A r \in worker.found : indexed'[r] = worker.seen[r]
    BY <1>0, <1>10 DEF Deliver, Pass, RecordsInv
  <2>3. contentRecords' = {}
    BY <1>10 DEF Deliver, OnlyTheWorker, records, RecordsInv, CrawlHasRecords
  <2>4. QED
    BY <2>1, <2>2, <2>3 DEF RecordsInv, RecordsDescribeIndex, CrawlHasRecords,
                            DeliveredIsIndexed
<1>11. CASE Record
  <2>1. worker' = In("waiting") /\ contentRecords = {} /\ UNCHANGED <<indexed, epochChanged>>
    BY <1>11 DEF Record, RecordsInv, CrawlHasRecords
  <2>2. CASE ~(StillRequested /\ StillCounts)
    <3>1. contentRecords' = contentRecords
      BY <1>11, <2>2 DEF Record
    <3>2. QED
      BY <2>1, <3>1, IdleKeepsRecords DEF records
  <2>3. CASE StillRequested /\ StillCounts
    <3>1. contentRecords' = {<<r, worker.seen[r]>> : r \in worker.found}
      BY <1>11, <2>3 DEF Record
    <3>2. /\ \A r \in worker.found : indexed[r] = worker.seen[r]
          /\ ~epochChanged
      BY <2>3 DEF StillCounts, RecordsInv, DeliveredIsIndexed
    <3>3. \A known \in contentRecords' : known[2] = indexed'[known[1]]
      BY <2>1, <3>1, <3>2
    <3>4. worker'.phase = "waiting" /\ worker'.delivered = FALSE
      BY <2>1 DEF In
    <3>5. QED
      BY <2>1, <3>2, <3>3, <3>4 DEF RecordsInv, RecordsDescribeIndex, CrawlHasRecords,
                                    DeliveredIsIndexed
  <2>4. QED
    BY <2>2, <2>3
<1>12. ASSUME NEW r \in Roots, WatcherStep(r) \/ WatchFails(r) \/ Change(r) \/ ComeOrGo(r)
       PROVE  RecordsInv'
  BY <1>1, <1>12 DEF WatcherStep, Arm, Notice, WatchFails, Change, ComeOrGo, OnlyAWatcher,
                     OnlyTheDisk
<1>13. CASE TimePasses \/ UNCHANGED vars
  BY <1>1, <1>13 DEF TimePasses, vars
<1>14. QED
  BY <1>2, <1>3, <1>4, <1>5, <1>6, <1>7, <1>8, <1>9, <1>10, <1>11, <1>12, <1>13
     DEF Next, UiStep, WorkerStep

(* The records a crawl reuses are those of the last delivered crawl, and a  *)
(* crawl after they were forgotten reuses none (WorkerLoop,                 *)
(* file_index_service.cpp:635-642 and 669-673).                             *)
THEOREM RecordsAreDelivered == Spec => []RecordsDescribeIndex
<1>1. RecordsInv => RecordsDescribeIndex
  BY DEF RecordsInv
<1>2. QED
  BY Invariance, RecordsInit, RecordsStep, <1>1, PTL DEF Spec
-----------------------------------------------------------------------------
(* The types of the UI's part, and of what waits for the worker ...         *)
UiTypes ==
  /\ call \in {"none", "reconfigure", "stopWatchers", "join"} /\ wanted \subseteq Roots
  /\ generation \in 0 .. MaxGenerations /\ currentGeneration \in 0 .. MaxGenerations
  /\ request \in Request \cup {None}
  /\ rebuilds \in 0 .. MaxRebuilds /\ stops \in 0 .. MaxStops

FlagTypes ==
  /\ {stopping, paused, rebuildPending, restartWatchersPending, probeOnly, due, threw}
       \subseteq BOOLEAN
  /\ epochChanged \in BOOLEAN
  /\ retryAttempts \in 0 .. MaxRescanRetries

(* The worker's locals, within the bounds.                                  *)
BoundedPass ==
  [phase : Phases, generation : 0 .. MaxGenerations, roots : SUBSET Roots,
   restart : BOOLEAN, probe : BOOLEAN, missing : SUBSET Roots,
   left : SUBSET Roots, found : SUBSET Roots, seen : [Roots -> 0 .. MaxChanges],
   delivered : BOOLEAN]

(* ... of the pass and of what it leaves ...                                *)
PassTypes ==
  /\ worker \in BoundedPass
  /\ contentRecords \subseteq Roots \X (0 .. MaxChanges)
  /\ unavailableRoots \subseteq Roots
  /\ indexed \in [Roots -> 0 .. MaxChanges]

(* ... and of the roots with their watchers.                                *)
RootTypes ==
  /\ watchFailures \in [Roots -> 0 .. MaxWatchRetries + 1]
  /\ watch \in [Roots -> {"none", "starting", "watching", "broken"}]
  /\ noticed \subseteq Roots /\ unwatched \subseteq Roots
  /\ available \subseteq Roots /\ flips \in [Roots -> 0 .. MaxFlips]
  /\ disk \in [Roots -> 0 .. MaxChanges]

(* Together they are TypeOK.                                                *)
LEMMA TypesAreFour == TypeOK <=> UiTypes /\ FlagTypes /\ PassTypes /\ RootTypes
BY DEF TypeOK, UiTypes, FlagTypes, PassTypes, RootTypes, BoundedPass

(* The bounds are numbers.                                                  *)
LEMMA Limits ==
  /\ MaxRescanRetries \in Nat /\ MaxWatchRetries \in Nat /\ MaxGenerations \in Nat
  /\ MaxRebuilds \in Nat /\ MaxStops \in Nat /\ MaxChanges \in Nat /\ MaxFlips \in Nat
BY FileIndexBounds

(* A request is made of a generation the UI has.                            *)
LEMMA StepUiTypes == IndexInv /\ TypeOK /\ [Next]_vars => UiTypes'
<1> SUFFICES ASSUME IndexInv, TypeOK, [Next]_vars PROVE UiTypes'
  OBVIOUS
<1>0. UiTypes
  BY TypesAreFour
<1> USE DEF UiTypes
<1>1. CASE UNCHANGED <<uiVars, request>>
  BY <1>0, <1>1 DEF uiVars
<1>2. CASE Reconfigure
  <2>1. generation \in 1 .. MaxGenerations
    BY <1>0, <1>2, Limits DEF Reconfigure, IndexInv, Types, Generations, Pass
  <2>2. request' \in Request
    BY <1>0, <1>2, <2>1 DEF Reconfigure, Request
  <2>3. QED
    BY <1>0, <1>2, <2>2 DEF Reconfigure
<1>3. ASSUME NEW roots \in SUBSET Roots, Configure(roots) PROVE UiTypes'
  BY <1>0, <1>3, Limits DEF Configure, NewGeneration
<1>4. CASE Rebuild
  BY <1>0, <1>4, Limits DEF Rebuild
<1>5. CASE Pause
  BY <1>0, <1>5, Limits DEF Pause
<1>6. CASE BeginStop
  BY <1>0, <1>6, Limits DEF BeginStop
<1>7. CASE StopWatchers \/ Join
  BY <1>0, <1>7 DEF StopWatchers, Join
<1>8. CASE WorkerStep \/ Throw \/ TimePasses \/ UNCHANGED vars
             \/ \E r \in Roots : WatcherStep(r) \/ WatchFails(r) \/ Change(r) \/ ComeOrGo(r)
  <2>1. UiUnchanged
    BY <1>8 DEF WorkerStep, WorkerReturns, WorkerPauses, CloseWatchers, Take, Check, ProbeAgain,
                RestartWatchers, EndScan, CheckCurrent, Deliver, Record, ScanRoot, Throw,
                TimePasses, vars, WatcherStep, Arm, Notice, WatchFails, Change, ComeOrGo,
                OnlyTheWorker, OnlyAWatcher, OnlyTheDisk, UiUnchanged, uiVars
  <2>2. QED
    BY <1>1, <2>1 DEF UiUnchanged
<1>9. QED
  BY <1>2, <1>3, <1>4, <1>5, <1>6, <1>7, <1>8 DEF Next, UiStep

(* Retries are counted only below their limit.                              *)
LEMMA StepFlagTypes == TypeOK /\ [Next]_vars => FlagTypes'
<1> SUFFICES ASSUME TypeOK, [Next]_vars PROVE FlagTypes'
  OBVIOUS
<1>0. FlagTypes /\ PassTypes
  BY TypesAreFour
<1> USE DEF FlagTypes
<1>1. CASE UNCHANGED <<stopping, paused, threw, epochChanged, retryAttempts, pending>>
  BY <1>0, <1>1 DEF pending
<1>2. CASE Reconfigure \/ Rebuild \/ Pause \/ Join
  <2>1. /\ {stopping', paused', rebuildPending', restartWatchersPending', due'} \subseteq BOOLEAN
        /\ UNCHANGED threw /\ ResetRetries /\ ForgetContentRecords
    BY <1>0, <1>2 DEF Reconfigure, Rebuild, Pause, Join
  <2>2. retryAttempts' \in 0 .. MaxRescanRetries
    BY <2>1, Limits DEF ResetRetries
  <2>3. probeOnly' = FALSE /\ epochChanged' = TRUE /\ threw' \in BOOLEAN
    BY <1>0, <2>1 DEF ResetRetries, ForgetContentRecords
  <2>4. QED
    BY <2>1, <2>2, <2>3
<1>3. CASE BeginStop
  BY <1>0, <1>3 DEF BeginStop, pending, retryVars, records
<1>4. CASE StopWatchers \/ (\E roots \in SUBSET Roots : Configure(roots)) \/ UNCHANGED vars
  BY <1>1, <1>4 DEF StopWatchers, Configure, vars, retryVars, records
<1>5. CASE WorkerReturns \/ CloseWatchers \/ RestartWatchers \/ EndScan \/ CheckCurrent \/ Deliver
             \/ \E r \in Roots : ScanRoot(r)
  BY <1>1, <1>5 DEF WorkerReturns, CloseWatchers, RestartWatchers, EndScan, CheckCurrent, Deliver,
                    ScanRoot, OnlyTheWorker, UiUnchanged, retryVars, records
<1>6. CASE WorkerPauses \/ Take \/ Throw
  BY <1>0, <1>6 DEF WorkerPauses, Take, Throw, OnlyTheWorker, UiUnchanged, retryVars, records,
                    pending
<1>7. CASE Check
  BY <1>0, <1>7 DEF Check, UiUnchanged, retryVars, records, pending
<1>8. CASE ProbeAgain
  BY <1>0, <1>8 DEF ProbeAgain, OnlyTheWorker, UiUnchanged, retryVars, records
<1>9. CASE Record
  <2>1. UNCHANGED <<stopping, paused, threw, epochChanged>>
    BY <1>9 DEF Record, UiUnchanged
  <2>2. CASE StillRequested /\ NeedsRetry /\ ~rebuildPending
    <3>1. /\ retryAttempts' = IF RetriesSpent THEN retryAttempts ELSE retryAttempts + 1
          /\ rebuildPending' = TRUE /\ due' = FALSE
          /\ probeOnly' = RetriesSpent
          /\ restartWatchersPending' = (restartWatchersPending \/ ~RetriesSpent)
      BY <1>9, <2>2 DEF Record
    <3>2. retryAttempts' \in 0 .. MaxRescanRetries
      BY <1>0, <3>1, Limits DEF RetriesSpent
    <3>3. {rebuildPending', restartWatchersPending', probeOnly', due'} \subseteq BOOLEAN
      <4>1. RetriesSpent \in BOOLEAN
        BY DEF RetriesSpent
      <4>2. restartWatchersPending' \in BOOLEAN
        BY <3>1
      <4>3. QED
        BY <3>1, <4>1, <4>2
    <3>4. QED
      BY <1>0, <2>1, <3>2, <3>3
  <2>3. CASE StillRequested /\ ~NeedsRetry
    <3>1. ResetRetries /\ UNCHANGED <<rebuildPending, due, restartWatchersPending>>
      BY <1>9, <2>3 DEF Record
    <3>2. retryAttempts' \in 0 .. MaxRescanRetries /\ probeOnly' = FALSE
      BY <3>1, Limits DEF ResetRetries
    <3>3. QED
      BY <1>0, <2>1, <3>1, <3>2
  <2>4. CASE ~StillRequested \/ (NeedsRetry /\ rebuildPending)
    <3>1. UNCHANGED <<pending, retryAttempts>>
      BY <1>9, <2>4 DEF Record
    <3>2. QED
      BY <1>1, <2>1, <3>1
  <2>5. QED
    BY <2>2, <2>3, <2>4
<1>10. ASSUME NEW r \in Roots, WatcherStep(r) \/ WatchFails(r) PROVE FlagTypes'
  <2>1. UNCHANGED <<stopping, paused, threw, epochChanged, retryAttempts>>
    BY <1>10 DEF WatcherStep, Arm, Notice, WatchFails, OnlyAWatcher, UiUnchanged, records
  <2>2. {rebuildPending', restartWatchersPending', probeOnly', due'} \subseteq BOOLEAN
    BY <1>0, <1>10 DEF WatcherStep, Arm, Notice, ScheduleWatchRefresh, WatchFails, pending
  <2>3. QED
    BY <1>0, <2>1, <2>2
<1>11. ASSUME NEW r \in Roots, Change(r) \/ ComeOrGo(r) PROVE FlagTypes'
  BY <1>1, <1>11 DEF Change, ComeOrGo, OnlyTheDisk, UiUnchanged, retryVars, records
<1>12. CASE TimePasses
  BY <1>0, <1>12 DEF TimePasses, UiUnchanged, retryVars, records
<1>13. QED
  BY <1>2, <1>3, <1>4, <1>5, <1>6, <1>7, <1>8, <1>9, <1>10, <1>11, <1>12
     DEF Next, UiStep, WorkerStep

(* What a pass has read of a root was on the disk.                          *)
LEMMA StepPassTypes == TypeOK /\ [Next]_vars => PassTypes'
<1> SUFFICES ASSUME TypeOK, [Next]_vars PROVE PassTypes'
  OBVIOUS
<1>0. PassTypes /\ RootTypes /\ FlagTypes /\ UiTypes
  BY TypesAreFour
<1> USE DEF PassTypes, BoundedPass
<1>a. ASSUME NEW p \in Phases
      PROVE  In(p) \in BoundedPass
  BY Limits DEF In, Nothing
<1>1. CASE UNCHANGED <<worker, contentRecords, unavailableRoots, indexed>>
  BY <1>0, <1>1
<1>2. ASSUME NEW p \in Phases, worker' = In(p),
             UNCHANGED <<contentRecords, unavailableRoots, indexed>>
      PROVE  PassTypes'
  BY <1>0, <1>a, <1>2
<1>3. CASE Reconfigure \/ Rebuild \/ Pause
  BY <1>0, <1>3 DEF Reconfigure, Rebuild, Pause, ForgetContentRecords
<1>4. CASE Join
  BY <1>0, <1>a, <1>4 DEF Join, ForgetContentRecords, Phases
<1>5. ASSUME NEW roots \in SUBSET Roots, Configure(roots) PROVE PassTypes'
  BY <1>1, <1>2, <1>5 DEF Configure, records, Phases
<1>6. CASE BeginStop \/ StopWatchers \/ TimePasses \/ UNCHANGED vars
             \/ \E r \in Roots : WatcherStep(r) \/ WatchFails(r) \/ Change(r) \/ ComeOrGo(r)
  BY <1>1, <1>6 DEF BeginStop, StopWatchers, TimePasses, vars, WatcherStep, Arm, Notice,
                    WatchFails, Change, ComeOrGo, OnlyAWatcher, OnlyTheDisk, records
<1>7. CASE WorkerReturns \/ WorkerPauses \/ CloseWatchers \/ ProbeAgain \/ Throw
  BY <1>2, <1>7 DEF WorkerReturns, WorkerPauses, CloseWatchers, ProbeAgain, Throw, OnlyTheWorker,
                    records, Phases
<1>8. CASE Take
  <2>1. /\ request.generation \in 0 .. MaxGenerations /\ request.roots \in SUBSET Roots
        /\ restartWatchersPending \in BOOLEAN /\ probeOnly \in BOOLEAN
        /\ unavailableRoots \in SUBSET Roots
    BY <1>0, <1>8, Limits DEF Take, UiTypes, Request, FlagTypes
  <2>2. In("checking") \in BoundedPass
    BY <1>a DEF Phases
  <2>3. worker' = [phase |-> "checking", generation |-> request.generation,
                   roots |-> request.roots, restart |-> restartWatchersPending,
                   probe |-> probeOnly, missing |-> unavailableRoots, left |-> {},
                   found |-> {}, seen |-> Nothing, delivered |-> FALSE]
    BY <1>8 DEF Take, In
  <2>4. Nothing \in [Roots -> 0 .. MaxChanges]
    BY Limits DEF Nothing
  <2>5. worker' \in BoundedPass
    BY <2>1, <2>3, <2>4 DEF Phases
  <2>6. UNCHANGED <<contentRecords, unavailableRoots, indexed>>
    BY <1>8 DEF Take, OnlyTheWorker, records
  <2>7. QED
    BY <1>0, <2>5, <2>6
<1>9. CASE Check
  <2>1. contentRecords' \subseteq Roots \X (0 .. MaxChanges)
    BY <1>0, <1>9 DEF Check, records
  <2>2. worker' \in BoundedPass
    BY <1>0, <1>9 DEF Check, Phases
  <2>3. QED
    BY <1>0, <1>9, <2>1, <2>2 DEF Check
<1>10. CASE RestartWatchers
  BY <1>0, <1>10 DEF RestartWatchers, OnlyTheWorker, records, Phases
<1>11. ASSUME NEW r \in Roots, ScanRoot(r) PROVE PassTypes'
  BY <1>0, <1>11 DEF ScanRoot, OnlyTheWorker, records, RootTypes
<1>12. CASE EndScan
  BY <1>0, <1>12 DEF EndScan, OnlyTheWorker, records, Phases
<1>13. CASE CheckCurrent
  <2>1. Nothing \in [Roots -> 0 .. MaxChanges]
    BY Limits DEF Nothing
  <2>2. worker' \in BoundedPass
    <3>1. CASE CutShort
      BY <1>0, <1>13, <2>1, <3>1 DEF CheckCurrent, Phases
    <3>2. CASE ~CutShort
      BY <1>0, <1>13, <3>2 DEF CheckCurrent, Phases
    <3>3. QED
      BY <3>1, <3>2
  <2>3. QED
    BY <1>0, <1>13, <2>2 DEF CheckCurrent, OnlyTheWorker, records
<1>14. CASE Deliver
  <2>1. indexed' \in [Roots -> 0 .. MaxChanges]
    BY <1>0, <1>14 DEF Deliver
  <2>2. QED
    BY <1>0, <1>14, <2>1 DEF Deliver, OnlyTheWorker, records, Phases
<1>15. CASE Record
  <2>1. contentRecords' \subseteq Roots \X (0 .. MaxChanges)
    <3>1. {<<r, worker.seen[r]>> : r \in worker.found} \subseteq Roots \X (0 .. MaxChanges)
      BY <1>0
    <3>2. QED
      BY <1>0, <1>15, <3>1 DEF Record
  <2>2. unavailableRoots' \subseteq Roots
    BY <1>0, <1>15 DEF Record, Missing
  <2>3. worker' = In("waiting") /\ UNCHANGED indexed
    BY <1>15 DEF Record
  <2>4. QED
    BY <1>0, <1>a, <2>1, <2>2, <2>3 DEF Phases
<1>16. QED
  BY <1>3, <1>4, <1>5, <1>6, <1>7, <1>8, <1>9, <1>10, <1>11, <1>12, <1>13, <1>14, <1>15
     DEF Next, UiStep, WorkerStep

(* Failures of a watch are counted up to one beyond the limit.              *)
LEMMA StepRootTypes == TypeOK /\ [Next]_vars => RootTypes'
<1> SUFFICES ASSUME TypeOK, [Next]_vars PROVE RootTypes'
  OBVIOUS
<1>0. RootTypes
  BY TypesAreFour
<1> USE DEF RootTypes
<1>1. CASE UNCHANGED <<watchFailures, watchVars, diskVars>>
  BY <1>0, <1>1 DEF watchVars, diskVars
<1>2. CASE Reconfigure \/ Rebuild \/ Pause \/ Join
  <2>1. watchFailures' = Nothing /\ UNCHANGED <<watchVars, diskVars>>
    BY <1>2 DEF Reconfigure, Rebuild, Pause, Join, ForgetFailures
  <2>2. QED
    BY <1>0, <2>1, Limits DEF Nothing, watchVars, diskVars
<1>3. CASE BeginStop \/ TimePasses \/ UNCHANGED vars
             \/ (\E roots \in SUBSET Roots : Configure(roots))
  BY <1>1, <1>3 DEF BeginStop, TimePasses, vars, Configure, retryVars
<1>4. CASE StopWatchers \/ CloseWatchers
  <2>1. NoWatchers /\ UNCHANGED <<watchFailures, diskVars>>
    BY <1>4 DEF StopWatchers, CloseWatchers, OnlyTheWorker, retryVars
  <2>2. QED
    BY <1>0, <2>1 DEF NoWatchers, diskVars
<1>5. CASE WorkerReturns \/ WorkerPauses \/ Take \/ Check \/ ProbeAgain \/ EndScan \/ CheckCurrent
           \/ Deliver \/ Record \/ Throw \/ (\E r \in Roots : ScanRoot(r))
  BY <1>1, <1>5 DEF WorkerReturns, WorkerPauses, Take, Check, ProbeAgain, EndScan, CheckCurrent,
                    Deliver, Record, Throw, ScanRoot, OnlyTheWorker, retryVars
<1>6. CASE RestartWatchers
  <2>1. watch' \in [Roots -> {"none", "starting", "watching", "broken"}] /\ noticed' = {}
    BY <1>6 DEF RestartWatchers
  <2>2. UNCHANGED <<watchFailures, diskVars>>
    BY <1>6 DEF RestartWatchers, OnlyTheWorker, retryVars
  <2>3. QED
    BY <1>0, <2>1, <2>2 DEF diskVars
<1>7. ASSUME NEW r \in Roots, Arm(r) \/ Notice(r) PROVE RootTypes'
  <2>1. UNCHANGED diskVars /\ watch' \in [Roots -> {"none", "starting", "watching", "broken"}]
        /\ noticed' \subseteq Roots
    BY <1>0, <1>7 DEF Arm, Notice, OnlyAWatcher
  <2>2. watchFailures' \in [Roots -> 0 .. MaxWatchRetries + 1]
    BY <1>0, <1>7, Limits DEF Arm, Notice
  <2>3. QED
    BY <1>0, <2>1, <2>2 DEF diskVars
<1>8. ASSUME NEW r \in Roots, WatchFails(r) PROVE RootTypes'
  <2>1. UNCHANGED diskVars /\ watch' \in [Roots -> {"none", "starting", "watching", "broken"}]
        /\ noticed' \subseteq Roots
    BY <1>0, <1>8 DEF WatchFails, OnlyAWatcher
  <2>2. watchFailures' \in [Roots -> 0 .. MaxWatchRetries + 1]
    BY <1>0, <1>8, Limits DEF WatchFails
  <2>3. QED
    BY <1>0, <2>1, <2>2 DEF diskVars
<1>9. ASSUME NEW r \in Roots, Change(r) PROVE RootTypes'
  <2>1. UNCHANGED <<watchFailures, watch, available, flips>>
    BY <1>9 DEF Change, OnlyTheDisk, retryVars
  <2>2. disk' \in [Roots -> 0 .. MaxChanges]
    BY <1>0, <1>9, Limits DEF Change
  <2>3. noticed' \subseteq Roots /\ unwatched' \subseteq Roots
    BY <1>0, <1>9 DEF Change
  <2>4. QED
    BY <1>0, <2>1, <2>2, <2>3
<1>10. ASSUME NEW r \in Roots, ComeOrGo(r) PROVE RootTypes'
  <2>1. UNCHANGED <<watchFailures, watch, noticed, disk, unwatched>>
    BY <1>10 DEF ComeOrGo, OnlyTheDisk, retryVars
  <2>2. flips' \in [Roots -> 0 .. MaxFlips]
    BY <1>0, <1>10, Limits DEF ComeOrGo
  <2>3. available' \subseteq Roots
    BY <1>0, <1>10 DEF ComeOrGo
  <2>4. QED
    BY <1>0, <2>1, <2>2, <2>3
<1>11. QED
  BY <1>2, <1>3, <1>4, <1>5, <1>6, <1>7, <1>8, <1>9, <1>10 DEF Next, UiStep, WorkerStep, WatcherStep

(* The service, its worker and its watchers keep their types; the retries   *)
(* of the crawl and of each watch stay within kMaxRescanRetries and         *)
(* kMaxWatchRetries (file_index_service.cpp:472-489 and 666-691).           *)
THEOREM IndexIsWellTyped == Spec => []TypeOK
<1>1. Init => TypeOK
  <2> SUFFICES ASSUME Init PROVE TypeOK
    OBVIOUS
  <2>1. Nothing \in [Roots -> 0 .. MaxChanges] /\ Nothing \in [Roots -> 0 .. MaxFlips]
        /\ Nothing \in [Roots -> 0 .. MaxWatchRetries + 1]
    BY Limits DEF Nothing
  <2>2. UiTypes
    BY Limits DEF Init, UiTypes
  <2>3. FlagTypes
    <3>1. /\ stopping = FALSE /\ paused = FALSE /\ rebuildPending = FALSE
          /\ restartWatchersPending = FALSE /\ probeOnly = FALSE /\ due = FALSE
          /\ threw = FALSE /\ epochChanged = FALSE
      BY DEF Init
    <3>2. retryAttempts \in 0 .. MaxRescanRetries
      BY Limits DEF Init
    <3>3. QED
      BY <3>1, <3>2 DEF FlagTypes
  <2>4. PassTypes
    BY <2>1, Limits DEF Init, PassTypes, BoundedPass, In, Phases
  <2>5. RootTypes
    BY <2>1 DEF Init, RootTypes
  <2>6. QED
    BY <2>2, <2>3, <2>4, <2>5, TypesAreFour
<1>2. IndexInv /\ TypeOK /\ [Next]_vars => TypeOK'
  BY StepUiTypes, StepFlagTypes, StepPassTypes, StepRootTypes, TypesAreFour
     DEF UiTypes, FlagTypes, PassTypes, RootTypes, BoundedPass, TypeOK
<1>3. QED
  BY Invariance, <1>1, <1>2, PTL DEF Spec

-----------------------------------------------------------------------------
(* The worker is in a pass, or between two.                                 *)
Passes == {"checking", "reprobing", "restarting", "scanning", "scanned", "delivering",
           "recording"}

(* The watchers are to be restarted, with a crawl of every root: now, or    *)
(* once there is a request.                                                 *)
Excused  == request = None \/ restartWatchersPending \/ threw \/ call = "reconfigure"
Restarts == worker.phase = "restarting" \/ (worker.phase = "checking" /\ worker.restart)

(* A pass is of the current request; whatever replaces or withdraws that    *)
(* has the watchers restarted.                                              *)
PassIsAsked ==
  worker.phase \in Passes =>
    \/ restartWatchersPending \/ stopping
    \/ request # None /\ request.generation = worker.generation /\ request.roots = worker.roots

RequestIsCurrent ==
  request # None /\ call # "reconfigure" => request.generation = currentGeneration

(* A root is found by crawling it; a pass that restarts the watchers is no  *)
(* probe; and one that ends without having crawled everything was cut.      *)
PassLocals ==
  /\ worker.found \cap worker.left = {}
  /\ worker.phase = "checking" => worker.found = {} /\ (worker.restart => ~worker.probe)
  /\ worker.phase = "restarting" => worker.found = {}
  /\ worker.phase = "recording" => worker.left = {} \/ Excused

ProbeWaits == probeOnly => worker.phase \in {"waiting", "ended"}

(* A root that has a watcher, and has not changed behind its back.          *)
Live(r) == watch[r] \in {"starting", "watching"} /\ r \notin unwatched

(* What such a root has seen since it was crawled is reported.              *)
ReadsCount ==
  worker.phase \in {"scanning", "scanned", "delivering"} =>
    \A r \in worker.found :
      Live(r) /\ worker.seen[r] # disk[r] => Excused \/ r \in noticed \/ rebuildPending

(* The index of a root will be brought up to date: its watcher reports, a   *)
(* crawl is asked for, or one is under way that has yet to deliver; a root  *)
(* that the last crawl could not find is probed for.                        *)
Covered(r) ==
  \/ r \in noticed \/ (rebuildPending /\ ~probeOnly)
  \/ probeOnly /\ r \in unavailableRoots
  \/ worker.phase = "checking" /\ (worker.probe => r \in unavailableRoots)
  \/ worker.phase = "reprobing" /\ r \in unavailableRoots
  \/ worker.phase \in {"scanning", "scanned", "delivering"}
  \/ worker.phase = "recording" /\ r \notin worker.found

LagIsCovered ==
  \A r \in Roots : Live(r) /\ indexed[r] # disk[r] => Excused \/ Restarts \/ Covered(r)

(* A watcher of a root that is no longer wanted is about to be closed.      *)
WatchedIsWanted ==
  \A r \in Roots : watch[r] # "none" =>
    \/ restartWatchersPending \/ threw \/ call # "none" \/ Restarts
    \/ worker.phase \in {"closing", "none", "ended"}
    \/ request # None /\ r \in request.roots

WatchInv ==
  /\ PassIsAsked /\ RequestIsCurrent /\ PassLocals /\ ProbeWaits /\ ReadsCount
  /\ LagIsCovered /\ WatchedIsWanted

(* Whatever excuses is not forgotten: a restart is taken along by the pass. *)
LEMMA ExcusedStays ==
  ASSUME IndexInv, Excused, [Next]_vars
  PROVE  Excused' \/ (Take /\ Restarts')
<1> USE DEF Excused, OnlyTheWorker, UiUnchanged, uiVars
<1>1. CASE Reconfigure
  BY <1>1 DEF Reconfigure
<1>2. ASSUME NEW roots \in SUBSET Roots, Configure(roots) PROVE Excused'
  BY <1>2 DEF Configure
<1>3. CASE Rebuild \/ Pause \/ BeginStop
  BY <1>3 DEF Rebuild, Pause, BeginStop
<1>4. CASE StopWatchers
  BY <1>4 DEF StopWatchers, pending
<1>5. CASE Join
  <2>1. request = None
    BY <1>5 DEF Join, IndexInv, StopHolds, Withdrawn
  <2>2. QED
    BY <1>5, <2>1 DEF Join
<1>6. CASE WorkerReturns \/ CloseWatchers \/ RestartWatchers \/ EndScan \/ CheckCurrent \/ Deliver
  BY <1>6 DEF WorkerReturns, CloseWatchers, RestartWatchers, EndScan, CheckCurrent, Deliver,
              pending
<1>7. CASE WorkerPauses
  BY <1>7 DEF WorkerPauses, IndexInv, Withdrawn
<1>8. CASE Take
  <2>1. CASE restartWatchersPending
    <3>1. worker'.phase = "checking" /\ worker'.restart
      BY <1>8, <2>1 DEF Take, In
    <3>2. QED
      BY <1>8, <3>1 DEF Restarts
  <2>2. CASE ~restartWatchersPending
    BY <1>8, <2>2 DEF Take
  <2>3. QED
    BY <2>1, <2>2
<1>9. CASE Check \/ ProbeAgain
  BY <1>9 DEF Check, ProbeAgain, pending
<1>10. ASSUME NEW r \in Roots, ScanRoot(r) PROVE Excused'
  BY <1>10 DEF ScanRoot, pending
<1>11. CASE Record
  <2>1. restartWatchersPending => restartWatchersPending'
    BY <1>11 DEF Record, pending
  <2>2. QED
    BY <1>11, <2>1 DEF Record
<1>12. CASE Throw
  BY <1>12 DEF Throw
<1>13. ASSUME NEW r \in Roots, WatcherStep(r) \/ WatchFails(r) \/ Change(r) \/ ComeOrGo(r)
       PROVE  Excused'
  BY <1>13 DEF WatcherStep, Arm, Notice, ScheduleWatchRefresh, WatchFails, Change, ComeOrGo,
               OnlyAWatcher, OnlyTheDisk, pending
<1>14. CASE TimePasses \/ UNCHANGED vars
  BY <1>14 DEF TimePasses, vars, pending
<1>15. QED
  BY <1>1, <1>2, <1>3, <1>4, <1>5, <1>6, <1>7, <1>8, <1>9, <1>10, <1>11, <1>12, <1>13, <1>14
     DEF Next, UiStep, WorkerStep

(* What a worker between two passes knows of one.                           *)
LEMMA IdleLocals ==
  ASSUME NEW p \in Phases
  PROVE  In(p).found = {} /\ In(p).left = {} /\ In(p).restart = FALSE /\ In(p).phase = p
BY DEF In

(* No root has a watcher yet.                                               *)
LEMMA WatchInit == Init => WatchInv
<1> SUFFICES ASSUME Init PROVE WatchInv
  OBVIOUS
<1>1. /\ worker.phase = "none" /\ worker.found = {} /\ worker.left = {}
      /\ request = None /\ probeOnly = FALSE /\ \A r \in Roots : watch[r] = "none"
  BY IdleLocals DEF Init, Phases
<1>2. QED
  BY <1>1 DEF WatchInv, PassIsAsked, RequestIsCurrent, PassLocals, ProbeWaits, ReadsCount,
              LagIsCovered, WatchedIsWanted, Passes, Live

-----------------------------------------------------------------------------
(* The steps of the worker inside a pass keep to what it has taken.         *)
LEMMA InsideAPass ==
  ASSUME worker \in Pass,
         Check \/ RestartWatchers \/ EndScan \/ CheckCurrent \/ Deliver
           \/ \E r \in Roots : ScanRoot(r)
  PROVE  /\ worker.phase \in Passes /\ worker'.phase \in Passes
         /\ worker'.generation = worker.generation /\ worker'.roots = worker.roots
         /\ UNCHANGED <<uiVars, stopping, paused, request, pending, unavailableRoots, disk>>
<1>1. CASE Check
  <2>1. worker'.phase \in {"reprobing", "restarting", "scanning"}
    BY <1>1 DEF Check, Pass
  <2>2. QED
    BY <1>1, <2>1 DEF Check, Pass, Passes, UiUnchanged, diskVars
<1>2. CASE RestartWatchers
  BY <1>2 DEF RestartWatchers, Pass, Passes, OnlyTheWorker, UiUnchanged, diskVars
<1>3. CASE EndScan
  BY <1>3 DEF EndScan, Pass, Passes, OnlyTheWorker, UiUnchanged, diskVars
<1>4. CASE CheckCurrent
  BY <1>4 DEF CheckCurrent, Pass, Passes, OnlyTheWorker, UiUnchanged, diskVars
<1>5. CASE Deliver
  BY <1>5 DEF Deliver, Pass, Passes, OnlyTheWorker, UiUnchanged, diskVars
<1>6. ASSUME NEW r \in Roots, ScanRoot(r)
      PROVE  /\ worker.phase \in Passes /\ worker'.phase \in Passes
             /\ worker'.generation = worker.generation /\ worker'.roots = worker.roots
             /\ UNCHANGED <<uiVars, stopping, paused, request, pending, unavailableRoots, disk>>
  BY <1>6 DEF ScanRoot, Pass, Passes, OnlyTheWorker, UiUnchanged, diskVars
<1>7. QED
  BY <1>1, <1>2, <1>3, <1>4, <1>5, <1>6

(* Those that end one, or begin none.                                       *)
LEMMA BetweenTwo ==
  ASSUME WorkerReturns \/ WorkerPauses \/ CloseWatchers \/ ProbeAgain \/ Record \/ Throw \/ Join
  PROVE  \E p \in {"none", "ended", "waiting", "closing"} : worker' = In(p)
BY DEF WorkerReturns, WorkerPauses, CloseWatchers, ProbeAgain, Record, Throw, Join

(* The others leave the worker alone.                                       *)
LEMMA OtherSteps ==
  ASSUME \/ Reconfigure \/ Rebuild \/ Pause \/ BeginStop \/ StopWatchers \/ TimePasses
         \/ UNCHANGED vars
         \/ \E r \in Roots : WatcherStep(r) \/ WatchFails(r) \/ Change(r) \/ ComeOrGo(r)
  PROVE  UNCHANGED worker /\ UNCHANGED unavailableRoots /\ UNCHANGED indexed
BY DEF Reconfigure, Rebuild, Pause, BeginStop, StopWatchers, TimePasses, vars, WatcherStep, Arm,
       Notice, WatchFails, Change, ComeOrGo, OnlyAWatcher, OnlyTheDisk

(* Whatever makes the request another one has the watchers restarted.       *)
LEMMA StepPassIsAsked == IndexInv /\ WatchInv /\ [Next]_vars => PassIsAsked'
<1> SUFFICES ASSUME IndexInv, WatchInv, [Next]_vars PROVE PassIsAsked'
  OBVIOUS
<1>0. /\ worker \in Pass /\ PassIsAsked
      /\ request \in [generation : Nat, roots : SUBSET Roots] \cup {None}
  BY DEF IndexInv, WatchInv, Types
<1> USE DEF PassIsAsked
<1>1. CASE WorkerReturns \/ WorkerPauses \/ CloseWatchers \/ ProbeAgain \/ Record \/ Throw \/ Join
  <2>1. worker'.phase \in {"none", "ended", "waiting", "closing"}
    BY <1>1, BetweenTwo, IdleLocals DEF Phases
  <2>2. QED
    BY <2>1 DEF Passes
<1>2. CASE Check \/ RestartWatchers \/ EndScan \/ CheckCurrent \/ Deliver
             \/ \E r \in Roots : ScanRoot(r)
  BY <1>0, <1>2, InsideAPass DEF pending
<1>3. CASE Take
  <2>1. /\ request # None /\ worker'.generation = request.generation
        /\ worker'.roots = request.roots /\ UNCHANGED request
    BY <1>3 DEF Take, In, OnlyTheWorker, UiUnchanged
  <2>2. QED
    BY <2>1
<1>4. ASSUME NEW roots \in SUBSET Roots, Configure(roots) PROVE PassIsAsked'
  <2>1. worker' = worker \/ worker'.phase = "waiting"
    BY <1>4, IdleLocals DEF Configure, Phases
  <2>2. UNCHANGED <<restartWatchersPending, stopping, request>>
    BY <1>4 DEF Configure, pending
  <2>3. QED
    BY <1>0, <2>1, <2>2 DEF Passes
<1>5. CASE Reconfigure \/ Rebuild \/ Pause \/ BeginStop
  BY <1>5 DEF Reconfigure, Rebuild, Pause, BeginStop
<1>6. CASE StopWatchers \/ TimePasses \/ UNCHANGED vars
  BY <1>0, <1>6 DEF StopWatchers, TimePasses, vars, pending, UiUnchanged
<1>7. ASSUME NEW r \in Roots, WatcherStep(r) \/ WatchFails(r) \/ Change(r) \/ ComeOrGo(r)
      PROVE  PassIsAsked'
  <2>1. UNCHANGED <<worker, stopping, request>>
    BY <1>7 DEF WatcherStep, Arm, Notice, WatchFails, Change, ComeOrGo, OnlyAWatcher, OnlyTheDisk,
                UiUnchanged
  <2>2. restartWatchersPending => restartWatchersPending'
    BY <1>7 DEF WatcherStep, Arm, Notice, ScheduleWatchRefresh, WatchFails, Change, ComeOrGo,
                OnlyTheDisk, pending
  <2>3. QED
    BY <1>0, <2>1, <2>2
<1>8. QED
  BY <1>1, <1>2, <1>3, <1>4, <1>5, <1>6, <1>7 DEF Next, UiStep, WorkerStep

(* Reconfigure stores the generation that Configure announced.              *)
LEMMA StepRequestIsCurrent == IndexInv /\ WatchInv /\ [Next]_vars => RequestIsCurrent'
<1> SUFFICES ASSUME IndexInv, WatchInv, [Next]_vars PROVE RequestIsCurrent'
  OBVIOUS
<1>0. worker \in Pass /\ RequestIsCurrent
  BY DEF IndexInv, WatchInv, Types
<1> USE DEF RequestIsCurrent
<1>1. CASE Reconfigure
  <2>1. request' = [generation |-> generation, roots |-> wanted] /\ UNCHANGED currentGeneration
    BY <1>1 DEF Reconfigure
  <2>2. currentGeneration = generation
    BY <1>1 DEF Reconfigure, IndexInv, Generations
  <2>3. QED
    BY <2>1, <2>2
<1>2. ASSUME NEW roots \in SUBSET Roots, Configure(roots) PROVE RequestIsCurrent'
  BY <1>2 DEF Configure
<1>3. CASE Pause \/ BeginStop
  BY <1>3 DEF Pause, BeginStop
<1>4. CASE Rebuild
  BY <1>0, <1>4 DEF Rebuild
<1>5. CASE StopWatchers \/ Join
  <2>1. request' = None
    BY <1>5 DEF StopWatchers, Join, IndexInv, StopHolds, Withdrawn
  <2>2. QED
    BY <2>1
<1>6. CASE WorkerStep \/ Throw \/ TimePasses \/ UNCHANGED vars
             \/ \E r \in Roots : WatcherStep(r) \/ WatchFails(r) \/ Change(r) \/ ComeOrGo(r)
  <2>1. UiUnchanged
    BY <1>6 DEF WorkerStep, WorkerReturns, WorkerPauses, CloseWatchers, Take, Check, ProbeAgain,
                RestartWatchers, EndScan, CheckCurrent, Deliver, Record, ScanRoot, Throw,
                TimePasses, vars, WatcherStep, Arm, Notice, WatchFails, Change, ComeOrGo,
                OnlyTheWorker, OnlyAWatcher, OnlyTheDisk, UiUnchanged, uiVars
  <2>2. QED
    BY <1>0, <2>1 DEF UiUnchanged, uiVars
<1>7. QED
  BY <1>1, <1>2, <1>3, <1>4, <1>5, <1>6 DEF Next, UiStep

(* A probe is asked for at the end of a pass, and taken by the next.        *)
LEMMA StepProbeWaits == IndexInv /\ WatchInv /\ [Next]_vars => ProbeWaits'
<1> SUFFICES ASSUME IndexInv, WatchInv, [Next]_vars PROVE ProbeWaits'
  OBVIOUS
<1>0. worker \in Pass /\ ProbeWaits
  BY DEF IndexInv, WatchInv, Types
<1> USE DEF ProbeWaits
<1>1. CASE Reconfigure \/ Rebuild \/ Pause \/ Join \/ Take
  BY <1>1 DEF Reconfigure, Rebuild, Pause, Join, Take, ResetRetries
<1>2. CASE WorkerReturns \/ ProbeAgain \/ Record \/ Throw \/ CloseWatchers
  <2>1. worker'.phase \in {"waiting", "ended"}
    BY <1>2, IdleLocals DEF WorkerReturns, ProbeAgain, Record, Throw, CloseWatchers, Phases
  <2>2. QED
    BY <2>1
<1>3. CASE WorkerPauses
  <2>1. ~probeOnly
    BY <1>3 DEF WorkerPauses, IndexInv, Withdrawn, PendingIsRequested, ProbesOnly
  <2>2. QED
    BY <1>3, <2>1 DEF WorkerPauses
<1>4. CASE Check \/ RestartWatchers \/ EndScan \/ CheckCurrent \/ Deliver
             \/ \E r \in Roots : ScanRoot(r)
  BY <1>0, <1>4, InsideAPass DEF pending, Passes
<1>5. ASSUME NEW roots \in SUBSET Roots, Configure(roots) PROVE ProbeWaits'
  <2>1. worker' = worker \/ worker'.phase = "waiting"
    BY <1>5, IdleLocals DEF Configure, Phases
  <2>2. QED
    BY <1>0, <1>5, <2>1 DEF Configure, pending
<1>6. CASE BeginStop \/ StopWatchers \/ TimePasses \/ UNCHANGED vars
             \/ \E r \in Roots : WatcherStep(r) \/ WatchFails(r) \/ Change(r) \/ ComeOrGo(r)
  <2>1. UNCHANGED worker
    BY <1>6, OtherSteps
  <2>2. probeOnly' => probeOnly
    BY <1>6 DEF BeginStop, StopWatchers, TimePasses, vars, WatcherStep, Arm, Notice,
                ScheduleWatchRefresh, WatchFails, Change, ComeOrGo, OnlyTheDisk, pending
  <2>3. QED
    BY <1>0, <2>1, <2>2
<1>7. QED
  BY <1>1, <1>2, <1>3, <1>4, <1>5, <1>6 DEF Next, UiStep, WorkerStep

(* A crawl is cut short by something that has the watchers restarted.       *)
LEMMA CutIsExcused ==
  ASSUME IndexInv, WatchInv, worker.phase \in Passes, CutShort
  PROVE  Excused
BY DEF IndexInv, WatchInv, Withdrawn, PassIsAsked, RequestIsCurrent, CutShort, IsCurrent, Excused

(* A pass is cut short only by what excuses it.                             *)
LEMMA StepPassLocals == IndexInv /\ WatchInv /\ [Next]_vars => PassLocals'
<1> SUFFICES ASSUME IndexInv, WatchInv, [Next]_vars PROVE PassLocals'
  OBVIOUS
<1>0. worker \in Pass /\ PassLocals
  BY DEF IndexInv, WatchInv, Types
<1> USE DEF PassLocals
<1>1. ASSUME NEW p \in {"none", "ended", "waiting", "closing"}, worker' = In(p)
      PROVE  PassLocals'
  BY <1>1, IdleLocals DEF Phases
<1>2. CASE WorkerReturns \/ WorkerPauses \/ CloseWatchers \/ ProbeAgain \/ Record \/ Throw \/ Join
  BY <1>1, <1>2, BetweenTwo
<1>3. CASE Take
  <2>1. /\ worker'.phase = "checking" /\ worker'.found = {} /\ worker'.left = {}
        /\ worker'.restart = restartWatchersPending /\ worker'.probe = probeOnly
    BY <1>3 DEF Take, In
  <2>2. QED
    BY <2>1 DEF IndexInv, ProbesOnly
<1>4. CASE Check
  <2>1. worker.phase = "checking" /\ worker'.found = worker.found
    BY <1>0, <1>4 DEF Check, Pass
  <2>2. worker'.phase \in {"reprobing", "restarting", "scanning"}
    BY <1>0, <1>4 DEF Check, Pass
  <2>3. QED
    BY <1>0, <2>1, <2>2
<1>5. CASE RestartWatchers
  <2>1. worker'.phase = "scanning" /\ worker'.found = worker.found /\ worker'.left = worker.left
    BY <1>0, <1>5 DEF RestartWatchers, Pass
  <2>2. QED
    BY <1>0, <2>1
<1>6. ASSUME NEW r \in Roots, ScanRoot(r) PROVE PassLocals'
  <2>1. /\ worker'.phase = "scanning" /\ worker'.left = worker.left \ {r}
        /\ worker'.found \subseteq worker.found \cup {r}
    BY <1>0, <1>6 DEF ScanRoot, Pass
  <2>2. QED
    BY <1>0, <2>1
<1>7. CASE EndScan
  <2>1. worker'.phase = "scanned" /\ worker'.found = worker.found /\ worker'.left = worker.left
    BY <1>0, <1>7 DEF EndScan, Pass
  <2>2. QED
    BY <1>0, <2>1
<1>8. CASE CheckCurrent
  <2>1. worker'.found = worker.found /\ worker'.left = worker.left
    BY <1>0, <1>8 DEF CheckCurrent, Pass
  <2>2. CASE CutShort
    <3>1. Excused
      BY <1>8, <2>2, CutIsExcused DEF CheckCurrent, Passes
    <3>2. Excused'
      BY <1>8, <3>1 DEF CheckCurrent, OnlyTheWorker, UiUnchanged, uiVars, pending, Excused
    <3>3. worker'.phase = "recording"
      BY <1>0, <1>8, <2>2 DEF CheckCurrent, Pass
    <3>4. QED
      BY <1>0, <2>1, <3>2, <3>3
  <2>3. CASE ~CutShort
    <3>1. worker'.phase = "delivering"
      BY <1>0, <1>8, <2>3 DEF CheckCurrent, Pass
    <3>2. QED
      BY <1>0, <2>1, <3>1
  <2>4. QED
    BY <2>2, <2>3
<1>9. CASE Deliver
  <2>1. /\ worker'.phase = "recording" /\ worker'.found = worker.found
        /\ worker'.left = worker.left
    BY <1>0, <1>9 DEF Deliver, Pass
  <2>2. worker.left = {}
    BY <1>9 DEF Deliver, IndexInv, DeliveredIsComplete
  <2>3. QED
    BY <1>0, <2>1, <2>2
<1>10. CASE UNCHANGED worker
  <2>1. ~Take
    BY <1>0, <1>10 DEF Take, In
  <2>2. Excused => Excused'
    BY <2>1, ExcusedStays
  <2>3. QED
    BY <1>0, <1>10, <2>2
<1>11. ASSUME NEW roots \in SUBSET Roots, Configure(roots) PROVE PassLocals'
  BY <1>1, <1>10, <1>11 DEF Configure
<1>12. QED
  BY <1>2, <1>3, <1>4, <1>5, <1>6, <1>7, <1>8, <1>9, <1>10, <1>11, OtherSteps
     DEF Next, UiStep, WorkerStep

-----------------------------------------------------------------------------
(* What the steps that do not touch the worker do to a root: a change is    *)
(* noticed, or it is made behind the watcher's back; and what is noticed is *)
(* reported.                                                                *)
LEMMA RootSteps ==
  ASSUME TypeOK, IndexInv, NEW r \in Roots,
         \/ Reconfigure \/ Rebuild \/ Pause \/ BeginStop \/ StopWatchers \/ TimePasses
         \/ UNCHANGED vars
         \/ \E s \in Roots : WatcherStep(s) \/ WatchFails(s) \/ Change(s) \/ ComeOrGo(s),
         Live(r)'
  PROVE  \/ Excused' \/ r \in noticed' \/ (rebuildPending' /\ ~probeOnly')
         \/ /\ Live(r) /\ r \notin noticed /\ UNCHANGED disk[r]
            /\ (rebuildPending => rebuildPending') /\ UNCHANGED probeOnly
<1> DEFINE Goal == \/ Excused' \/ r \in noticed' \/ (rebuildPending' /\ ~probeOnly')
                   \/ /\ Live(r) /\ r \notin noticed /\ UNCHANGED disk[r]
                      /\ (rebuildPending => rebuildPending') /\ UNCHANGED probeOnly
<1>0. /\ disk \in [Roots -> Nat] /\ noticed \subseteq Roots
      /\ watch \in [Roots -> {"none", "starting", "watching", "broken"}]
  BY DEF IndexInv, Types, TypeOK
<1>1. CASE Reconfigure \/ Rebuild \/ Pause
  BY <1>1 DEF Reconfigure, Rebuild, Pause, Excused
<1>2. CASE BeginStop
  BY <1>2 DEF BeginStop, Excused
<1>3. CASE StopWatchers
  BY <1>3 DEF StopWatchers, NoWatchers, Live
<1>4. CASE TimePasses \/ UNCHANGED vars
  BY <1>4 DEF TimePasses, vars, watchVars, diskVars, pending, Live
<1>5. ASSUME NEW s \in Roots, Arm(s) PROVE Goal
  <2>1. UNCHANGED <<noticed, rebuildPending, probeOnly, disk, unwatched>>
    BY <1>5 DEF Arm, OnlyAWatcher, diskVars, pending
  <2>2. watch[r] \in {"starting", "watching"}
    BY <1>0, <1>5 DEF Arm, Live
  <2>3. QED
    BY <2>1, <2>2 DEF Live
<1>6. ASSUME NEW s \in Roots, Notice(s) PROVE Goal
  <2>1. CASE ~Listening
    <3>1. request = None
      BY <2>1 DEF Listening, IndexInv, Withdrawn
    <3>2. QED
      BY <1>6, <3>1 DEF Notice, OnlyAWatcher, UiUnchanged, Excused
  <2>2. CASE Listening
    BY <1>6, <2>2 DEF Notice, ScheduleWatchRefresh
  <2>3. QED
    BY <2>1, <2>2
<1>7. ASSUME NEW s \in Roots, WatchFails(s) PROVE Goal
  <2>1. r # s /\ Live(r) /\ UNCHANGED disk
    BY <1>0, <1>7 DEF WatchFails, Live, OnlyAWatcher, diskVars
  <2>2. r \in noticed => r \in noticed'
    BY <1>7, <2>1 DEF WatchFails
  <2>3. restartWatchersPending' \/ UNCHANGED <<rebuildPending, probeOnly>>
    BY <1>7 DEF WatchFails, pending
  <2>4. QED
    BY <2>1, <2>2, <2>3 DEF Excused
<1>8. ASSUME NEW s \in Roots, Change(s) PROVE Goal
  <2>1. UNCHANGED <<watch, rebuildPending, probeOnly>>
    BY <1>8 DEF Change, OnlyTheDisk, pending
  <2>2. CASE r = s
    BY <1>8, <2>1, <2>2 DEF Change, Live
  <2>3. CASE r # s
    <3>1. UNCHANGED disk[r] /\ (r \in noticed <=> r \in noticed')
          /\ (r \in unwatched <=> r \in unwatched')
      BY <1>0, <1>8, <2>3 DEF Change
    <3>2. QED
      BY <2>1, <3>1 DEF Live
  <2>4. QED
    BY <2>2, <2>3
<1>9. ASSUME NEW s \in Roots, ComeOrGo(s) PROVE Goal
  <2>1. UNCHANGED <<watch, noticed, unwatched, disk, rebuildPending, probeOnly>>
    BY <1>9 DEF ComeOrGo, OnlyTheDisk, pending
  <2>2. QED
    BY <2>1 DEF Live
<1>10. QED
  BY <1>1, <1>2, <1>3, <1>4, <1>5, <1>6, <1>7, <1>8, <1>9 DEF WatcherStep

(* What a crawl has read of a root stays true, or its watcher speaks up.    *)
LEMMA StepReadsCount == TypeOK /\ IndexInv /\ WatchInv /\ [Next]_vars => ReadsCount'
<1> SUFFICES ASSUME TypeOK, IndexInv, WatchInv, [Next]_vars,
                    (worker.phase \in {"scanning", "scanned", "delivering"})',
                    NEW r \in worker'.found, Live(r)', (worker.seen[r] # disk[r])'
             PROVE  Excused' \/ r \in noticed' \/ rebuildPending'
  BY DEF ReadsCount
<1> DEFINE Goal == Excused' \/ r \in noticed' \/ rebuildPending'
<1>0. worker \in Pass /\ ReadsCount /\ PassLocals /\ disk \in [Roots -> Nat]
  BY DEF IndexInv, WatchInv, Types
<1>1. CASE UNCHANGED <<worker.found, worker.seen>> /\ UNCHANGED <<watch, unwatched, disk>>
           /\ UNCHANGED <<noticed, rebuildPending>>
           /\ worker.phase \in {"scanning", "scanned", "delivering"}
           /\ ~Take
  <2>1. Excused \/ r \in noticed \/ rebuildPending
    BY <1>0, <1>1 DEF ReadsCount, Live
  <2>2. QED
    BY <1>1, <2>1, ExcusedStays
<1>2. CASE WorkerReturns \/ WorkerPauses \/ CloseWatchers \/ ProbeAgain \/ Record \/ Throw \/ Join
  BY <1>2, BetweenTwo, IdleLocals DEF Phases
<1>3. CASE Take
  BY <1>3 DEF Take, In
<1>4. CASE Check
  <2>1. worker'.found = {}
    BY <1>0, <1>4 DEF Check, Pass, PassLocals
  <2>2. QED
    BY <2>1
<1>5. CASE RestartWatchers
  <2>1. worker'.found = {}
    BY <1>0, <1>5 DEF RestartWatchers, Pass, PassLocals
  <2>2. QED
    BY <2>1
<1>6. ASSUME NEW s \in Roots, ScanRoot(s) PROVE Goal
  <2>1. UNCHANGED <<watch, unwatched, disk, noticed, rebuildPending>> /\ worker.phase = "scanning"
    BY <1>6 DEF ScanRoot, OnlyTheWorker, watchVars, diskVars, pending
  <2>2. r # s
    <3>1. CASE s \in available
      BY <1>0, <1>6, <2>1, <3>1 DEF ScanRoot, Pass
    <3>2. CASE s \notin available
      <4>1. worker'.found = worker.found
        BY <1>0, <1>6, <3>2 DEF ScanRoot, Pass
      <4>2. QED
        BY <1>0, <1>6, <4>1 DEF ScanRoot, PassLocals
    <3>3. QED
      BY <3>1, <3>2
  <2>3. r \in worker.found /\ worker'.seen[r] = worker.seen[r]
    BY <1>0, <1>6, <2>2 DEF ScanRoot, Pass
  <2>4. Excused \/ r \in noticed \/ rebuildPending
    BY <1>0, <2>1, <2>3 DEF ReadsCount, Live
  <2>5. ~Take
    BY <2>1 DEF Take
  <2>6. QED
    BY <2>1, <2>4, <2>5, ExcusedStays
<1>7. CASE EndScan
  BY <1>0, <1>1, <1>7 DEF EndScan, Take, Pass, OnlyTheWorker, watchVars, diskVars, pending
<1>8. CASE CheckCurrent
  <2>1. ~CutShort
    BY <1>0, <1>8 DEF CheckCurrent, Pass
  <2>2. QED
    BY <1>0, <1>1, <1>8, <2>1 DEF CheckCurrent, Take, Pass, OnlyTheWorker, watchVars, diskVars,
                                  pending
<1>9. CASE Deliver
  BY <1>0, <1>9 DEF Deliver, Pass
<1>10. CASE \/ Reconfigure \/ Rebuild \/ Pause \/ BeginStop \/ StopWatchers \/ TimePasses
            \/ UNCHANGED vars
            \/ \E s \in Roots : WatcherStep(s) \/ WatchFails(s) \/ Change(s) \/ ComeOrGo(s)
  <2>1. UNCHANGED worker
    BY <1>10, OtherSteps
  <2>2. ~Take
    BY <1>0, <2>1 DEF Take, In
  <2>3. r \in Roots
    BY <1>0, <2>1 DEF Pass
  <2>4. \/ Excused' \/ r \in noticed' \/ rebuildPending'
        \/ Live(r) /\ UNCHANGED disk[r] /\ r \notin noticed /\ (rebuildPending => rebuildPending')
    BY <1>10, <2>3, RootSteps DEF TypeOK
  <2>5. Live(r) /\ UNCHANGED disk[r] => Excused \/ r \in noticed \/ rebuildPending
    BY <1>0, <2>1 DEF ReadsCount
  <2>6. QED
    BY <2>2, <2>4, <2>5, ExcusedStays
<1>11. ASSUME NEW roots \in SUBSET Roots, Configure(roots) PROVE Goal
  BY <1>11 DEF Configure, Excused
<1>12. QED
  BY <1>2, <1>3, <1>4, <1>5, <1>6, <1>7, <1>8, <1>9, <1>10, <1>11
     DEF Next, UiStep, WorkerStep

(* A pass that has crawled everything and missed a root that is watched     *)
(* tries again, in full or with a probe.                                    *)
LEMMA MissedIsRetried ==
  ASSUME TypeOK, IndexInv, WatchInv, NEW r \in Roots, Record, ~Excused,
         watch[r] # "none", r \notin worker.found
  PROVE  (rebuildPending' /\ ~probeOnly') \/ (probeOnly' /\ r \in unavailableRoots')
<1>0. /\ worker \in Pass /\ worker.phase = "recording" /\ rebuildPending \in BOOLEAN
      /\ Withdrawn /\ StopHolds /\ PassIsAsked /\ PassLocals /\ ProbeWaits /\ WatchedIsWanted
  BY DEF IndexInv, WatchInv, Record, Types
<1>1. request # None /\ ~restartWatchersPending /\ ~threw /\ call # "reconfigure" /\ ~stopping
  BY <1>0 DEF Excused, Withdrawn
<1>2. request.generation = worker.generation /\ request.roots = worker.roots
  BY <1>0, <1>1 DEF PassIsAsked, Passes
<1>3. worker.left = {}
  BY <1>0 DEF PassLocals
<1>4. r \in worker.roots
  <2>1. ~Restarts
    BY <1>0 DEF Restarts
  <2>2. call = "none"
    BY <1>0, <1>1 DEF TypeOK, StopHolds
  <2>3. QED
    BY <1>0, <1>1, <1>2, <2>1, <2>2 DEF WatchedIsWanted
<1>5. StillRequested /\ NeedsRetry /\ r \in Missing
  BY <1>1, <1>2, <1>3, <1>4 DEF StillRequested, NeedsRetry, Missing
<1>6. unavailableRoots' = Missing
  BY <1>5 DEF Record
<1>7. CASE rebuildPending
  <2>1. UNCHANGED pending
    BY <1>5, <1>7 DEF Record
  <2>2. QED
    BY <1>0, <1>7, <2>1 DEF pending, ProbeWaits
<1>8. CASE ~rebuildPending
  <2>1. rebuildPending' = TRUE /\ probeOnly' = RetriesSpent
    BY <1>5, <1>8 DEF Record
  <2>2. QED
    BY <1>5, <1>6, <2>1
<1>9. QED
  BY <1>7, <1>8

(* So a root whose index lags is not forgotten,                             *)
LEMMA StepLagIsCovered == TypeOK /\ IndexInv /\ WatchInv /\ [Next]_vars => LagIsCovered'
<1> SUFFICES ASSUME TypeOK, IndexInv, WatchInv, [Next]_vars,
                    NEW r \in Roots, Live(r)', (indexed[r] # disk[r])'
             PROVE  Excused' \/ Restarts' \/ Covered(r)'
  BY DEF LagIsCovered
<1> DEFINE Goal == Excused' \/ Restarts' \/ Covered(r)'
           Same == UNCHANGED <<watch, unwatched, disk, noticed>>
<1>0. /\ worker \in Pass /\ LagIsCovered /\ disk \in [Roots -> Nat] /\ indexed \in [Roots -> Nat]
      /\ probeOnly \in BOOLEAN /\ rebuildPending \in BOOLEAN /\ ProbeWaits
  BY DEF IndexInv, WatchInv, Types, TypeOK
<1>a. Excused => Goal
  BY ExcusedStays
<1>b. ASSUME Same, UNCHANGED indexed PROVE Excused \/ Restarts \/ Covered(r)
  BY <1>0, <1>b DEF LagIsCovered, Live
<1>c. CASE r \in noticed /\ UNCHANGED noticed
  BY <1>c DEF Covered
<1>1. CASE WorkerReturns \/ WorkerPauses
  BY <1>1, <1>a DEF WorkerReturns, WorkerPauses, IndexInv, Withdrawn, Excused
<1>2. CASE CloseWatchers \/ StopWatchers
  BY <1>2 DEF CloseWatchers, StopWatchers, NoWatchers, Live
<1>3. CASE Throw
  BY <1>3 DEF Throw, Excused
<1>4. CASE Join
  BY <1>4, <1>a DEF Join, IndexInv, StopHolds, Withdrawn, Excused
<1>5. CASE Take
  <2>1. Same /\ UNCHANGED <<indexed, unavailableRoots>>
    BY <1>5 DEF Take, OnlyTheWorker, watchVars, diskVars
  <2>2. worker.phase = "waiting" /\ worker'.phase = "checking" /\ worker'.probe = probeOnly
    BY <1>5 DEF Take, In
  <2>3. Covered(r) => r \in noticed \/ ~probeOnly \/ r \in unavailableRoots
    BY <1>0, <2>2 DEF Covered
  <2>4. Covered(r) => Covered(r)'
    BY <2>1, <2>2, <2>3 DEF Covered
  <2>5. ~Restarts
    BY <2>2 DEF Restarts
  <2>6. QED
    BY <1>a, <1>b, <2>1, <2>4, <2>5
<1>6. CASE Check
  <2>1. Same /\ UNCHANGED <<indexed, unavailableRoots, stopping, request>>
        /\ worker.phase = "checking"
    BY <1>6 DEF Check, watchVars, diskVars, UiUnchanged
  <2>2. CASE worker.restart
    <3>1. ~worker.probe
      BY <2>1, <2>2 DEF WatchInv, PassLocals
    <3>2. CASE stopping
      BY <1>a, <3>2 DEF IndexInv, Withdrawn, Excused
    <3>3. CASE ~stopping
      BY <1>0, <1>6, <2>2, <3>1, <3>3 DEF Check, Pass, Restarts
    <3>4. QED
      BY <3>2, <3>3
  <2>3. CASE ~worker.restart
    <3>1. worker'.phase \in {"restarting", "scanning"} => Goal
      BY DEF Restarts, Covered
    <3>2. CASE worker.probe /\ ~RootReturned
      <4>1. worker'.phase = "reprobing"
        BY <1>0, <1>6, <3>2 DEF Check, Pass
      <4>2. \/ Excused \/ r \in noticed \/ r \in unavailableRoots
            \/ rebuildPending /\ ~probeOnly
        BY <1>0, <1>b, <2>1, <2>3, <3>2 DEF Restarts, Covered, ProbeWaits
      <4>3. UNCHANGED pending
        BY <1>6 DEF Check
      <4>4. QED
        BY <1>a, <2>1, <4>1, <4>2, <4>3 DEF Covered, pending
    <3>3. CASE ~worker.probe \/ RootReturned
      BY <1>0, <1>6, <3>1, <3>3 DEF Check, Pass
    <3>4. QED
      BY <3>2, <3>3
  <2>4. QED
    BY <2>2, <2>3
<1>7. CASE ProbeAgain
  <2>1. Same /\ UNCHANGED <<indexed, unavailableRoots>> /\ worker.phase = "reprobing"
        /\ UNCHANGED request
    BY <1>7 DEF ProbeAgain, OnlyTheWorker, UiUnchanged, watchVars, diskVars
  <2>2. CASE Excused
    BY <1>a, <2>2
  <2>3. CASE ~Excused
    <3>1. StillRequested
      BY <2>1, <2>3 DEF Excused, IndexInv, Withdrawn, WatchInv, PassIsAsked, Passes,
                        StillRequested
    <3>2. Covered(r)
      BY <1>b, <2>1, <2>3 DEF Restarts
    <3>3. CASE rebuildPending
      <4>1. UNCHANGED <<rebuildPending, probeOnly>> /\ ~probeOnly
        BY <1>0, <1>7, <2>1, <3>3 DEF ProbeAgain, ProbeWaits
      <4>2. QED
        BY <3>3, <4>1 DEF Covered
    <3>4. CASE ~rebuildPending
      <4>1. probeOnly' = TRUE /\ ~probeOnly
        BY <1>0, <1>7, <2>1, <3>1, <3>4 DEF ProbeAgain, ProbeWaits
      <4>2. r \in noticed \/ r \in unavailableRoots
        BY <2>1, <3>2, <3>4, <4>1 DEF Covered
      <4>3. QED
        BY <2>1, <4>1, <4>2 DEF Covered
    <3>5. QED
      BY <1>0, <3>3, <3>4
  <2>4. QED
    BY <2>2, <2>3
<1>8. CASE RestartWatchers
  <2>1. worker'.phase = "scanning"
    BY <1>0, <1>8 DEF RestartWatchers, Pass
  <2>2. QED
    BY <2>1 DEF Covered
<1>9. ASSUME NEW s \in Roots, ScanRoot(s) PROVE Goal
  <2>1. worker'.phase = "scanning"
    BY <1>0, <1>9 DEF ScanRoot, Pass
  <2>2. QED
    BY <2>1 DEF Covered
<1>10. CASE EndScan
  <2>1. worker'.phase = "scanned"
    BY <1>0, <1>10 DEF EndScan, Pass
  <2>2. QED
    BY <2>1 DEF Covered
<1>11. CASE CheckCurrent
  <2>1. CASE CutShort
    <3>1. worker.phase \in Passes
      BY <1>11 DEF CheckCurrent, Passes
    <3>2. QED
      BY <1>a, <2>1, <3>1, CutIsExcused
  <2>2. CASE ~CutShort
    <3>1. worker'.phase = "delivering"
      BY <1>0, <1>11, <2>2 DEF CheckCurrent, Pass
    <3>2. QED
      BY <3>1 DEF Covered
  <2>3. QED
    BY <2>1, <2>2
<1>12. CASE Deliver
  <2>1. Same /\ UNCHANGED pending /\ worker.phase = "delivering"
    BY <1>12 DEF Deliver, OnlyTheWorker, watchVars, diskVars
  <2>2. worker'.phase = "recording" /\ worker'.found = worker.found
    BY <1>0, <1>12 DEF Deliver, Pass
  <2>3. CASE r \notin worker.found
    BY <2>2, <2>3 DEF Covered
  <2>4. CASE r \in worker.found
    <3>1. indexed'[r] = worker.seen[r]
      BY <1>12, <2>4 DEF Deliver
    <3>2. Live(r) /\ worker.seen[r] # disk[r]
      BY <2>1, <3>1 DEF Live
    <3>3. Excused \/ r \in noticed \/ rebuildPending
      BY <2>1, <2>4, <3>2 DEF WatchInv, ReadsCount
    <3>4. ~probeOnly
      BY <1>0, <2>1 DEF ProbeWaits
    <3>5. QED
      BY <1>a, <2>1, <3>3, <3>4 DEF pending, Covered
  <2>5. QED
    BY <2>3, <2>4
<1>13. CASE Record
  <2>1. Same /\ UNCHANGED indexed /\ worker.phase = "recording"
    BY <1>13 DEF Record, watchVars, diskVars
  <2>2. CASE Excused
    BY <1>a, <2>2
  <2>3. CASE ~Excused
    <3>1. Covered(r) /\ watch[r] # "none"
      BY <1>b, <2>1, <2>3 DEF Restarts, Live
    <3>2. CASE r \notin worker.found
      BY <1>13, <2>3, <3>1, <3>2, MissedIsRetried DEF Covered
    <3>3. CASE r \in worker.found
      <4>1. ~probeOnly
        BY <1>0, <2>1 DEF ProbeWaits
      <4>2. r \in noticed \/ rebuildPending
        BY <2>1, <3>1, <3>3, <4>1 DEF Covered
      <4>3. rebuildPending => UNCHANGED rebuildPending /\ ~probeOnly'
        <5>1. CASE rebuildPending
          <6>1. ResetRetries \/ UNCHANGED pending
            BY <1>13, <5>1 DEF Record
          <6>2. UNCHANGED rebuildPending
            BY <1>13, <5>1 DEF Record, pending
          <6>3. QED
            BY <4>1, <6>1, <6>2 DEF ResetRetries, pending
        <5>2. QED
          BY <5>1
      <4>4. QED
        BY <2>1, <4>2, <4>3 DEF Covered
    <3>4. QED
      BY <3>2, <3>3
  <2>4. QED
    BY <2>2, <2>3
<1>14. CASE \/ Reconfigure \/ Rebuild \/ Pause \/ BeginStop \/ StopWatchers \/ TimePasses
            \/ UNCHANGED vars
            \/ \E s \in Roots : WatcherStep(s) \/ WatchFails(s) \/ Change(s) \/ ComeOrGo(s)
  <2>1. UNCHANGED <<worker, unavailableRoots, indexed>>
    BY <1>14, OtherSteps
  <2>2. \/ Excused' \/ r \in noticed' \/ (rebuildPending' /\ ~probeOnly')
        \/ Live(r) /\ UNCHANGED disk[r] /\ r \notin noticed /\ (rebuildPending => rebuildPending')
           /\ UNCHANGED probeOnly
    BY <1>14, RootSteps DEF TypeOK
  <2>3. CASE Live(r) /\ UNCHANGED disk[r] /\ r \notin noticed /\ UNCHANGED probeOnly
             /\ (rebuildPending => rebuildPending')
    <3>1. Excused \/ Restarts \/ Covered(r)
      BY <1>0, <2>1, <2>3 DEF LagIsCovered
    <3>2. Restarts => Restarts'
      BY <2>1 DEF Restarts
    <3>3. Covered(r) => Covered(r)'
      BY <2>1, <2>3 DEF Covered
    <3>4. QED
      BY <1>a, <3>1, <3>2, <3>3
  <2>4. QED
    BY <2>2, <2>3 DEF Covered
<1>15. ASSUME NEW roots \in SUBSET Roots, Configure(roots) PROVE Goal
  BY <1>15 DEF Configure, Excused
<1>16. QED
  BY <1>1, <1>2, <1>3, <1>4, <1>5, <1>6, <1>7, <1>8, <1>9, <1>10, <1>11, <1>12, <1>13, <1>14,
     <1>15 DEF Next, UiStep, WorkerStep

(* and a watcher that is not wanted is closed.                              *)
LEMMA StepWatchedIsWanted == TypeOK /\ IndexInv /\ WatchInv /\ [Next]_vars => WatchedIsWanted'
<1> SUFFICES ASSUME TypeOK, IndexInv, WatchInv, [Next]_vars,
                    NEW r \in Roots, watch'[r] # "none"
             PROVE  \/ restartWatchersPending' \/ threw' \/ call' # "none" \/ Restarts'
                    \/ worker'.phase \in {"closing", "none", "ended"}
                    \/ request' # None /\ r \in request'.roots
  BY DEF WatchedIsWanted
<1> DEFINE Goal == \/ restartWatchersPending' \/ threw' \/ call' # "none" \/ Restarts'
                   \/ worker'.phase \in {"closing", "none", "ended"}
                   \/ request' # None /\ r \in request'.roots
<1>0. worker \in Pass /\ WatchedIsWanted
      /\ watch \in [Roots -> {"none", "starting", "watching", "broken"}]
  BY DEF IndexInv, WatchInv, Types, TypeOK
<1>a. ASSUME watch[r] # "none"
      PROVE  \/ restartWatchersPending \/ threw \/ call # "none" \/ Restarts
             \/ worker.phase \in {"closing", "none", "ended"}
             \/ request # None /\ r \in request.roots
  BY <1>0, <1>a DEF WatchedIsWanted
<1>1. CASE Reconfigure \/ Rebuild \/ Pause \/ BeginStop
           \/ (\E roots \in SUBSET Roots : Configure(roots))
  BY <1>1 DEF Reconfigure, Rebuild, Pause, BeginStop, Configure
<1>2. CASE StopWatchers \/ CloseWatchers
  BY <1>2 DEF StopWatchers, CloseWatchers, NoWatchers
<1>3. CASE Join \/ WorkerReturns \/ WorkerPauses \/ Throw
  BY <1>3, IdleLocals DEF Join, WorkerReturns, WorkerPauses, Throw, Phases
<1>4. CASE Take
  <2>1. UNCHANGED <<watch, call, request>> /\ worker.phase = "waiting"
    BY <1>4 DEF Take, OnlyTheWorker, UiUnchanged, uiVars, watchVars
  <2>2. worker'.phase = "checking" /\ worker'.restart = restartWatchersPending
    BY <1>4 DEF Take, In
  <2>3. threw' = (threw /\ ~restartWatchersPending)
    BY <1>4 DEF Take
  <2>4. restartWatchersPending \in BOOLEAN
    BY DEF IndexInv, Types
  <2>5. QED
    BY <1>a, <2>1, <2>2, <2>3, <2>4 DEF Restarts
<1>5. CASE Check
  <2>1. UNCHANGED <<watch, call, request, restartWatchersPending, threw, stopping>>
        /\ worker.phase = "checking"
    BY <1>5 DEF Check, UiUnchanged, uiVars, watchVars, pending
  <2>2. CASE worker.restart /\ ~stopping
    <3>1. ~worker.probe
      BY <2>1, <2>2 DEF WatchInv, PassLocals
    <3>2. worker'.phase = "restarting"
      BY <1>0, <1>5, <2>2, <3>1 DEF Check, Pass
    <3>3. QED
      BY <3>2 DEF Restarts
  <2>3. CASE stopping
    BY <2>1, <2>3 DEF IndexInv, StopHolds
  <2>4. CASE ~worker.restart
    BY <1>a, <2>1, <2>4 DEF Restarts
  <2>5. QED
    BY <2>2, <2>3, <2>4
<1>6. CASE RestartWatchers
  <2>1. UNCHANGED <<restartWatchersPending, stopping, call, request>>
        /\ worker.phase = "restarting"
    BY <1>6 DEF RestartWatchers, OnlyTheWorker, UiUnchanged, uiVars, pending
  <2>2. r \in worker.roots
    BY <1>6 DEF RestartWatchers
  <2>3. restartWatchersPending \/ stopping \/ (request # None /\ r \in request.roots)
    BY <2>1, <2>2 DEF WatchInv, PassIsAsked, Passes
  <2>4. QED
    BY <2>1, <2>3 DEF IndexInv, StopHolds
<1>7. CASE EndScan \/ CheckCurrent \/ Deliver \/ ProbeAgain \/ Record
           \/ (\E s \in Roots : ScanRoot(s))
  <2>1. UNCHANGED <<watch, call, request, threw>>
    BY <1>7 DEF EndScan, CheckCurrent, Deliver, ProbeAgain, Record, ScanRoot, OnlyTheWorker,
                UiUnchanged, uiVars, watchVars
  <2>2. worker.phase \in {"reprobing", "scanning", "scanned", "delivering", "recording"}
    BY <1>7 DEF EndScan, CheckCurrent, Deliver, ProbeAgain, Record, ScanRoot
  <2>3. restartWatchersPending => restartWatchersPending'
    BY <1>7 DEF EndScan, CheckCurrent, Deliver, ProbeAgain, Record, ScanRoot, pending
  <2>4. QED
    BY <1>a, <2>1, <2>2, <2>3 DEF Restarts
<1>8. CASE TimePasses \/ UNCHANGED vars
           \/ \E s \in Roots : WatcherStep(s) \/ WatchFails(s) \/ Change(s) \/ ComeOrGo(s)
  <2>1. UNCHANGED worker
    BY <1>8, OtherSteps
  <2>2. UNCHANGED <<call, request, threw>>
    BY <1>8 DEF TimePasses, vars, WatcherStep, Arm, Notice, WatchFails, Change, ComeOrGo,
                OnlyAWatcher, OnlyTheDisk, UiUnchanged, uiVars
  <2>3. restartWatchersPending => restartWatchersPending'
    BY <1>8 DEF TimePasses, vars, WatcherStep, Arm, Notice, ScheduleWatchRefresh, WatchFails,
                Change, ComeOrGo, OnlyTheDisk, pending
  <2>4. watch[r] # "none"
    BY <1>0, <1>8 DEF TimePasses, vars, watchVars, WatcherStep, Arm, Notice, WatchFails, Change,
                      ComeOrGo, OnlyTheDisk
  <2>5. QED
    BY <1>a, <2>1, <2>2, <2>3, <2>4 DEF Restarts
<1>9. QED
  BY <1>1, <1>2, <1>3, <1>4, <1>5, <1>6, <1>7, <1>8 DEF Next, UiStep, WorkerStep

(* At rest the watchers keep what they promise: the index lacks nothing     *)
(* that changed while they were listening, and nothing else is watched      *)
(* (FileIndexService: ScheduleWatchRefresh, RestartWatchers and WorkerLoop,  *)
(* file_index_service.cpp:459-578 and 585-697).                             *)
THEOREM RestIsUpToDate == Spec => []WatchedIsIndexed
<1>1. TypeOK /\ IndexInv /\ WatchInv /\ [Next]_vars => WatchInv'
  BY StepPassIsAsked, StepRequestIsCurrent, StepPassLocals, StepProbeWaits, StepReadsCount,
     StepLagIsCovered, StepWatchedIsWanted DEF WatchInv
<1>2. IndexInv /\ WatchInv => WatchedIsIndexed
  <2> SUFFICES ASSUME IndexInv, WatchInv, AtRest, ~threw PROVE
         /\ request # None => \A r \in request.roots :
              watch[r] = "watching" /\ indexed[r] # disk[r] => r \in unwatched
         /\ \A r \in Roots : watch[r] # "none" => request # None /\ r \in request.roots
    BY DEF WatchedIsIndexed
  <2>0. /\ worker.phase = "waiting" /\ call = "none" /\ noticed = {}
        /\ ~rebuildPending /\ ~restartWatchersPending
    BY DEF AtRest
  <2>1. ~Restarts
    BY <2>0 DEF Restarts
  <2>2. \A r \in Roots : watch[r] # "none" => request # None /\ r \in request.roots
    BY <2>0, <2>1 DEF WatchInv, WatchedIsWanted
  <2>3. ASSUME request # None, NEW r \in request.roots, watch[r] = "watching",
               indexed[r] # disk[r], r \notin unwatched
        PROVE  FALSE
    <3>1. r \in Roots
      BY <2>3 DEF IndexInv, Types
    <3>2. Excused \/ Covered(r)
      BY <2>1, <2>3, <3>1 DEF WatchInv, LagIsCovered, Live
    <3>3. ~Excused
      BY <2>0, <2>3 DEF Excused
    <3>4. ~probeOnly
      BY <2>0 DEF IndexInv, ProbesOnly
    <3>5. QED
      BY <2>0, <3>2, <3>3, <3>4 DEF Covered
  <2>4. QED
    BY <2>2, <2>3
<1>3. QED
  BY Invariance, IndexIsWellTyped, WatchInit, <1>1, <1>2, PTL DEF Spec
=============================================================================
