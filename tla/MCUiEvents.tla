----------------------------- MODULE MCUiEvents -----------------------------
(***************************************************************************)
(* How events reach the UI thread, and a part of it that lives by them, on *)
(* small instances: one queue with notifiers that come and go              *)
(* (UiEventQueue); the queues of all services behind one window message    *)
(* (RuntimeEvents), which leaves that part of a queue out; screenshots and *)
(* recordings (CaptureService); the tasks that post to it for plugins, and *)
(* its wait for their end (PluginHosts).  They are checked next to each    *)
(* other: an initial state starts one of them, and the others are over.    *)
(***************************************************************************)
EXTENDS UiEventQueue

CONSTANTS Workers, NumQueues, Budget, QueueCap, MaxFailures, MaxBoxes

VARIABLES queued, notified, queueClosed, runtimePending, messages, notifying, turn,
          outer, boxes, stopThreads, accepted, failures
pump == <<queued, notified, queueClosed, runtimePending, messages, notifying, turn,
          outer, boxes, stopThreads, accepted, failures>>
Pump == INSTANCE RuntimeEvents
  WITH events <- queued, notificationPending <- notified, closed <- queueClosed,
       pushed <- accepted

ASSUME PumpAssumption == Pump!PumpConstants

CONSTANT MaxActs
ASSUME MaxActsIsNatural == MaxActs \in Nat

VARIABLES state, stopRequested, operation, worker, announcing, captureEvents, captureClosed,
          editor, phase, call, acts
capture == <<state, stopRequested, operation, worker, announcing, captureEvents,
             captureClosed, editor, phase, call, acts>>
Capture == INSTANCE CaptureService WITH closed <- captureClosed

CONSTANTS Ids, Queriers, Launchers, MaxRequests, MaxTasks, MaxOthers, Nobody

VARIABLES plugins, loads, available, strikes, ioMutex, host, exchange, requests, query, tasks,
          task, submitted, others, reloadPending, activationPending, posted, closing,
          taskFailed, overwritten
processes == <<plugins, loads, available, strikes, ioMutex, host, exchange, requests, query,
               tasks, task, submitted, others, reloadPending, activationPending, posted, closing,
               taskFailed, overwritten>>
Hosts == INSTANCE PluginHosts
  WITH messages <- posted, ui <- closing, failed <- taskFailed

MCBatchSizes == {0, 1, 3}
MCQueueCap   == [q \in 1 .. NumQueues |-> 2]

QueueClosed ==
  /\ events = 0 /\ notifier = FALSE /\ notificationPending = FALSE /\ closed = TRUE
  /\ calling = [t \in Threads |-> FALSE] /\ woken = FALSE /\ pushed = 0

PumpClosed ==
  /\ queued = [q \in 1 .. NumQueues |-> 0]
  /\ notified = [q \in 1 .. NumQueues |-> FALSE]
  /\ queueClosed = [q \in 1 .. NumQueues |-> TRUE]
  /\ runtimePending = FALSE /\ messages = 0
  /\ notifying = [t \in Workers \cup {UI} |-> "no"]
  /\ turn = [at |-> "waiting", queue |-> 1, remaining |-> 0, left |-> FALSE]
  /\ outer = <<>> /\ boxes = 0
  /\ stopThreads = TRUE /\ accepted = 0 /\ failures = 0

EventsInit ==
  \/ Init /\ PumpClosed /\ Capture!Absent /\ Hosts!Absent
  \/ QueueClosed /\ Pump!Init /\ Capture!Absent /\ Hosts!Absent
  \/ QueueClosed /\ PumpClosed /\ Capture!Init /\ Hosts!Absent
  \/ QueueClosed /\ PumpClosed /\ Capture!Absent /\ Hosts!Init

EventsNext ==
  \/ Next /\ UNCHANGED <<pump, capture, processes>>
  \/ Pump!Next /\ UNCHANGED <<vars, capture, processes>>
  \/ Capture!Next /\ UNCHANGED <<vars, pump, processes>>
  \/ Hosts!Next /\ UNCHANGED <<vars, pump, capture>>

EventsSpec ==
  /\ EventsInit /\ [][EventsNext]_<<vars, pump, capture, processes>>
  /\ Fairness /\ Pump!Fairness /\ Capture!Fairness /\ Hosts!Fairness

EventsTypeOK == TypeOK /\ Pump!TypeOK /\ Capture!TypeOK

(* Nothing waits for ever: an event reaches the UI thread, by the wake-up   *)
(* of its queue and a turn that does not stop at the queues before; a       *)
(* capture ends; the UI thread gets past the plugins when it closes.        *)
WaitingEnds ==
  EventsReachUi /\ Pump!EveryQueueServed /\ Capture!CapturesEnd /\ Hosts!ShutdownReturns

(* One window message wakes the UI thread for all queues, and no queue is   *)
(* forgotten for that: at most one is outstanding, exactly while the shared *)
(* flag is set, and every queue that holds events will be looked at.        *)
OneMessageSuffices == Pump!OneMessageOutstanding /\ Pump!NoForgottenQueue

(* What the recording bar shows, and what becomes of a recording: stated in *)
(* CaptureService.                                                          *)
BarFollowsRecording == Capture!BarFollowsRecording
StopIsFinal         == Capture!StopIsFinal
=============================================================================
