---------------------------- MODULE RuntimeEvents ---------------------------
(***************************************************************************)
(* native/src/main.cpp: how the event queues of all services share one     *)
(* window message.  Every queue's notifier is NotifyRuntimeEvents, which   *)
(* posts WM_APP_EVENTS unless one is already outstanding; the handler      *)
(* clears that flag and drains the queues in order, each up to its cap,    *)
(* until the turn's budget is spent, and posts again for what is left.     *)
(*                                                                         *)
(* A handler of the last queue may show a message box (OnUpdateReady),     *)
(* whose own loop takes the next WM_APP_EVENTS while the turn is still on  *)
(* the stack.                                                              *)
(*                                                                         *)
(* Each queue is a UiEventQueue whose notifier stays installed until       *)
(* shutdown closes it.  PostMessageW may fail when the thread's message    *)
(* queue is full.                                                          *)
(***************************************************************************)
EXTENDS Naturals, Sequences, FiniteSets, FiniteSetsExt

CONSTANTS Workers,      \* threads of the services that push events, without UI
          UI,           \* the UI thread
          NumQueues,    \* queues, numbered in the order OnRuntimeEvents drains them
          Budget,       \* policy.eventBatch: events one turn may take
          QueueCap,     \* queue -> most events of it one turn may take
          MaxPushes,    \* bound on the events pushed in a behaviour
          MaxFailures,  \* bound on the calls of PostMessageW that fail
          MaxBoxes      \* bound on the message boxes that are shown

(* What the proofs assume of the constants.                                 *)
PumpConstants ==
  /\ NumQueues \in Nat \ {0} /\ Budget \in Nat
  /\ QueueCap \in [1 .. NumQueues -> Nat]
  /\ MaxPushes \in Nat /\ MaxFailures \in Nat /\ MaxBoxes \in Nat

Queues == 1 .. NumQueues
Threads == Workers \cup {UI}

VARIABLES
  events,               \* queue -> events waiting in it
  notificationPending,  \* queue -> its notificationPending_
  closed,               \* queue -> its closed_
  runtimePending,       \* runtimeEventNotificationPending_
  messages,             \* WM_APP_EVENTS messages in the window's queue
  notifying,            \* thread -> where it is inside NotifyRuntimeEvents
  turn,                 \* the UI thread's place in OnRuntimeEvents
  outer,                \* turns that wait for a message box, the innermost first
  boxes,                \* message boxes shown so far
  stopThreads,          \* stopThreads_
  pushed,               \* events accepted so far
  failures              \* calls of PostMessageW that failed

stack == <<outer, boxes>>
vars == <<events, notificationPending, closed, runtimePending, messages,
          notifying, turn, stack, stopThreads, pushed, failures>>

(* turn.at: waiting for a message; removed it but not yet cleared the flag; *)
(* draining queue turn.queue; handling the events of the last queue; adding *)
(* up the sizes from turn.queue on.                                         *)
TurnPhases == {"waiting", "dispatching", "draining", "handling", "counting"}
Turn == [at : TurnPhases, queue : Queues, remaining : 0 .. Budget, left : BOOLEAN]
Waiting == [at |-> "waiting", queue |-> 1, remaining |-> 0, left |-> FALSE]

TypeOK ==
  /\ events \in [Queues -> Nat]
  /\ notificationPending \in [Queues -> BOOLEAN]
  /\ closed \in [Queues -> BOOLEAN]
  /\ runtimePending \in BOOLEAN
  /\ messages \in Nat
  /\ notifying \in [Threads -> {"no", "entered", "posting", "failed"}]
  /\ turn \in Turn
  /\ outer \in Seq(Turn)
  /\ boxes \in 0 .. MaxBoxes
  /\ stopThreads \in BOOLEAN
  /\ pushed \in Nat
  /\ failures \in 0 .. MaxFailures

Init ==
  /\ events = [q \in Queues |-> 0]
  /\ notificationPending = [q \in Queues |-> FALSE]
  /\ closed = [q \in Queues |-> FALSE]
  /\ runtimePending = FALSE
  /\ messages = 0
  /\ notifying = [t \in Threads |-> "no"]
  /\ turn = Waiting
  /\ outer = <<>> /\ boxes = 0
  /\ stopThreads = FALSE
  /\ pushed = 0
  /\ failures = 0

-----------------------------------------------------------------------------
(* UiEventQueue::Push by a service's sink; the UI thread itself only pushes *)
(* while it handles events or other messages.                               *)
Push(t, q) ==
  /\ notifying[t] = "no"
  /\ t = UI => turn.at \in {"waiting", "draining", "handling"}
  /\ ~closed[q]
  /\ pushed < MaxPushes
  /\ pushed' = pushed + 1
  /\ events' = [events EXCEPT ![q] = @ + 1]
  /\ notificationPending' = [notificationPending EXCEPT ![q] = TRUE]
  /\ notifying' = IF notificationPending[q] THEN notifying
                  ELSE [notifying EXCEPT ![t] = "entered"]
  /\ UNCHANGED <<closed, runtimePending, messages, turn, stack, stopThreads,
                 failures>>

(* NotifyRuntimeEvents: the exchange lets one thread through to the post.   *)
MayPost == ~runtimePending

NotifyRuntimeEvents(t) ==
  /\ notifying[t] = "entered"
  /\ IF stopThreads
     THEN /\ notifying' = [notifying EXCEPT ![t] = "no"]
          /\ UNCHANGED runtimePending
     ELSE /\ notifying' = [notifying EXCEPT ![t] =
                             IF MayPost THEN "posting" ELSE "no"]
          /\ runtimePending' = TRUE
  /\ UNCHANGED <<events, notificationPending, closed, messages, turn, stack,
                 stopThreads, pushed, failures>>

PostMessage(t) ==
  /\ notifying[t] = "posting"
  /\ messages' = messages + 1
  /\ notifying' = [notifying EXCEPT ![t] = "no"]
  /\ UNCHANGED <<events, notificationPending, closed, runtimePending, turn,
                 stack, stopThreads, pushed, failures>>

PostFails(t) ==
  /\ notifying[t] = "posting"
  /\ failures < MaxFailures
  /\ failures' = failures + 1
  /\ notifying' = [notifying EXCEPT ![t] = "failed"]
  /\ UNCHANGED <<events, notificationPending, closed, runtimePending, messages,
                 turn, stack, stopThreads, pushed>>

ClearAfterFailure(t) ==
  /\ notifying[t] = "failed"
  /\ runtimePending' = FALSE
  /\ notifying' = [notifying EXCEPT ![t] = "no"]
  /\ UNCHANGED <<events, notificationPending, closed, messages, turn, stack,
                 stopThreads, pushed, failures>>

-----------------------------------------------------------------------------
(* The message loop, of the program or of a message box, takes              *)
(* WM_APP_EVENTS off the queue ...                                          *)
InShutdown == stopThreads /\ \E q \in Queues : ~closed[q]

TakeMessage ==
  /\ turn.at = "waiting" /\ notifying[UI] = "no" /\ ~InShutdown
  /\ messages > 0
  /\ messages' = messages - 1
  /\ turn' = [turn EXCEPT !.at = "dispatching"]
  /\ UNCHANGED <<events, notificationPending, closed, runtimePending, notifying,
                 stack, stopThreads, pushed, failures>>

(* ... and the handler clears the flag before it looks at any queue.        *)
FlagAfterDispatch == FALSE

BeginTurn ==
  /\ turn.at = "dispatching"
  /\ runtimePending' = FlagAfterDispatch
  /\ turn' = [at |-> "draining", queue |-> 1, remaining |-> Budget, left |-> FALSE]
  /\ UNCHANGED <<events, notificationPending, closed, messages, notifying,
                 stack, stopThreads, pushed, failures>>

(* The turn moves to the next queue, and from the last to the counting.     *)
NextQueue(record, phaseAfter) ==
  IF record.queue < NumQueues
  THEN [record EXCEPT !.queue = @ + 1]
  ELSE [record EXCEPT !.queue = 1, !.at = phaseAfter]

(* drain(queue, cap): skipped once the budget is spent; otherwise a partial *)
(* drain re-arms the queue's notification.                                  *)
Taken(q) == Min({turn.remaining, QueueCap[q], events[q]})

DrainQueue ==
  LET q     == turn.queue
      taken == Taken(q)
      more  == events[q] > taken
  IN /\ turn.at = "draining" /\ notifying[UI] = "no"
     /\ IF turn.remaining = 0
        THEN /\ turn' = NextQueue(turn, "counting")
             /\ UNCHANGED <<events, notificationPending, notifying>>
        ELSE /\ events' = [events EXCEPT ![q] = @ - taken]
             /\ notificationPending' = [notificationPending EXCEPT ![q] = more]
             /\ notifying' = [notifying EXCEPT ![UI] =
                                IF more THEN "entered" ELSE "no"]
             /\ turn' = NextQueue([turn EXCEPT !.remaining = @ - taken,
                                               !.left = @ \/ more],
                                  IF taken > 0 THEN "handling" ELSE "counting")
     /\ UNCHANGED <<closed, runtimePending, messages, stack, stopThreads,
                    pushed, failures>>

(* A message box in the handler: its loop starts turns of its own, and the  *)
(* turn it interrupts goes on once the user has closed it.                  *)
ShowBox ==
  /\ turn.at = "handling" /\ notifying[UI] = "no"
  /\ boxes < MaxBoxes
  /\ boxes' = boxes + 1
  /\ outer' = <<turn>> \o outer
  /\ turn' = Waiting
  /\ UNCHANGED <<events, notificationPending, closed, runtimePending, messages,
                 notifying, stopThreads, pushed, failures>>

CloseBox ==
  /\ outer # <<>>
  /\ turn.at = "waiting" /\ notifying[UI] = "no" /\ ~InShutdown
  /\ turn' = Head(outer)
  /\ outer' = Tail(outer)
  /\ UNCHANGED <<events, notificationPending, closed, runtimePending, messages,
                 notifying, boxes, stopThreads, pushed, failures>>

EndHandling ==
  /\ turn.at = "handling" /\ notifying[UI] = "no"
  /\ turn' = [turn EXCEPT !.at = "counting"]
  /\ UNCHANGED <<events, notificationPending, closed, runtimePending, messages,
                 notifying, stack, stopThreads, pushed, failures>>

(* PendingRuntimeEvents locks one queue after the other; anything left is   *)
(* announced by the UI thread itself.                                       *)
LeftByDrains == turn.left   \* mutant: only partly drained queues count
LeftOver == turn.left \/ events[turn.queue] > 0

CountQueue ==
  /\ turn.at = "counting" /\ notifying[UI] = "no"
  /\ IF turn.queue < NumQueues
     THEN /\ turn' = [turn EXCEPT !.queue = @ + 1, !.left = LeftOver]
          /\ UNCHANGED notifying
     ELSE /\ turn' = Waiting
          /\ notifying' = [notifying EXCEPT ![UI] = IF LeftOver THEN "entered" ELSE "no"]
  /\ UNCHANGED <<events, notificationPending, closed, runtimePending, messages,
                 stack, stopThreads, pushed, failures>>

-----------------------------------------------------------------------------
(* ShutdownBackgroundWorkers runs on the UI thread, called by the program's *)
(* loop when it ends or, for WM_ENDSESSION, by that of a message box: the   *)
(* queues are closed one by one while workers not yet joined still push.    *)
BeginShutdown ==
  /\ turn.at = "waiting" /\ notifying[UI] = "no"
  /\ ~stopThreads
  /\ stopThreads' = TRUE
  /\ UNCHANGED <<events, notificationPending, closed, runtimePending, messages,
                 notifying, turn, stack, pushed, failures>>

CloseQueue(q) ==
  /\ stopThreads
  /\ ~closed[q]
  /\ closed' = [closed EXCEPT ![q] = TRUE]
  /\ events' = [events EXCEPT ![q] = 0]
  /\ notificationPending' = [notificationPending EXCEPT ![q] = FALSE]
  /\ UNCHANGED <<runtimePending, messages, notifying, turn, stack, stopThreads,
                 pushed, failures>>

NotifyStep(t) ==
  NotifyRuntimeEvents(t) \/ PostMessage(t) \/ PostFails(t) \/ ClearAfterFailure(t)

TurnStep == TakeMessage \/ BeginTurn \/ DrainQueue \/ EndHandling \/ CountQueue

Next ==
  \/ \E t \in Threads, q \in Queues : Push(t, q)
  \/ \E t \in Threads : NotifyStep(t)
  \/ TurnStep
  \/ ShowBox \/ CloseBox
  \/ BeginShutdown
  \/ \E q \in Queues : CloseQueue(q)

Spec == Init /\ [][Next]_vars

(* Threads inside NotifyRuntimeEvents return and the message loop runs.     *)
(* Nobody has to close a message box.                                       *)
Fairness ==
  /\ \A t \in Threads : WF_vars(NotifyStep(t))
  /\ WF_vars(TurnStep)

FairSpec == Spec /\ Fairness

-----------------------------------------------------------------------------
Posting == {t \in Threads : notifying[t] \in {"posting", "failed"}}

(* At most one WM_APP_EVENTS is outstanding however many threads push, and  *)
(* the shared flag is set exactly while one is posted, being posted, or     *)
(* taken but not yet acknowledged by the handler.                           *)
OneMessageOutstanding ==
  LET outstanding == messages + Cardinality(Posting)
                     + (IF turn.at = "dispatching" THEN 1 ELSE 0)
  IN outstanding = IF runtimePending THEN 1 ELSE 0

(* A message is on its way, or the UI thread is in a turn that will still   *)
(* look at queue q, or has seen something left and will announce it; a turn *)
(* that waits for a message box does not count, the box may stay for ever.  *)
WillBeSeen(q) ==
  \/ messages > 0
  \/ \E t \in Threads : notifying[t] \in {"entered", "posting"}
  \/ turn.at = "dispatching"
  \/ turn.at \in {"draining", "handling"}
  \/ turn.at = "counting" /\ (turn.queue <= q \/ turn.left)

(* No queue is forgotten: one the turn skipped because the budget was       *)
(* spent, or one filled while the turn was past it, still gets a message,   *)
(* also in front of a message box, as long as posting one does not fail.    *)
NoForgottenQueue ==
  \A q \in Queues : events[q] > 0 /\ ~stopThreads /\ failures = 0 => WillBeSeen(q)

(* Every queue with events is emptied, even if a message box stays open in  *)
(* the middle of a turn, unless the program shuts down first or a message   *)
(* could not be posted.                                                     *)
EveryQueueServed ==
  \A q \in Queues : events[q] > 0 ~> (events[q] = 0 \/ stopThreads \/ failures > 0)
=============================================================================
