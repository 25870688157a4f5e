---------------------------- MODULE UiEventQueue ----------------------------
(***************************************************************************)
(* native/src/ui_event_queue.hpp: the queue through which every worker     *)
(* thread hands events to the UI thread.  A push or a drain decides under  *)
(* the mutex whether a notification is due and calls the notifier after    *)
(* the unlock, so the decision and the call are two steps that interleave  *)
(* with every other thread.                                                *)
(*                                                                         *)
(* Events are counted, not told apart.  A notifier call wakes the one      *)
(* consumer; woken stands for a delivered wake-up no drain has answered.   *)
(***************************************************************************)
EXTENDS Naturals

CONSTANTS Producers,   \* worker threads that push
          UI,          \* the thread that drains, installs notifiers and closes
          BatchSizes,  \* values the UI passes to Drain
          MaxPushes    \* bound on the events pushed in a behaviour

ASSUME UiIsNoProducer == UI \notin Producers
ASSUME BatchSizesAreNaturals == BatchSizes \subseteq Nat
ASSUME MaxPushesIsNatural == MaxPushes \in Nat

Threads == Producers \cup {UI}

VARIABLES
  events,               \* number of queued events
  notifier,             \* a notifier is installed
  notificationPending,  \* notificationPending_
  closed,               \* closed_
  calling,              \* thread -> left the mutex, about to call the notifier
  woken,                \* a delivered wake-up waits for the UI thread
  pushed                \* events accepted so far

vars == <<events, notifier, notificationPending, closed, calling, woken, pushed>>

TypeOK ==
  /\ events \in Nat
  /\ notifier \in BOOLEAN
  /\ notificationPending \in BOOLEAN
  /\ closed \in BOOLEAN
  /\ calling \in [Threads -> BOOLEAN]
  /\ woken \in BOOLEAN
  /\ pushed \in Nat

Init ==
  /\ events = 0
  /\ notifier \in BOOLEAN
  /\ notificationPending = FALSE
  /\ closed = FALSE
  /\ calling = [t \in Threads |-> FALSE]
  /\ woken = FALSE
  /\ pushed = 0

(* The early return of Push and SetNotifier.                                *)
Accepting == ~closed

(* Push: only a push that finds no notification pending notifies.           *)
Push(t) ==
  /\ ~calling[t]
  /\ Accepting
  /\ pushed < MaxPushes
  /\ pushed' = pushed + 1
  /\ events' = events + 1
  /\ LET due == ~notificationPending /\ notifier
     IN /\ notificationPending' = (notificationPending \/ due)
        /\ calling' = [calling EXCEPT ![t] = due]
  /\ UNCHANGED <<notifier, closed, woken>>

(* Drain(maxCount) leaves what exceeds the batch and re-arms one            *)
(* notification for it.                                                     *)
RestUnclamped(max) == events - max   \* mutant: std::min is missing
Rest(max) == IF max < events THEN events - max ELSE 0

NeverRearm(max) == FALSE   \* mutant: a partial drain does not re-arm
Rearm(max) == Rest(max) > 0 /\ notifier

Drain(max) ==
  /\ ~calling[UI]
  /\ events' = Rest(max)
  /\ notificationPending' = Rearm(max)
  /\ calling' = [calling EXCEPT ![UI] = Rearm(max)]
  /\ woken' = FALSE
  /\ UNCHANGED <<notifier, closed, pushed>>

(* SetNotifier({}): the pending wake-up no longer suppresses later ones.    *)
RemoveNotifier ==
  /\ ~calling[UI]
  /\ Accepting
  /\ notifier
  /\ notifier' = FALSE
  /\ notificationPending' = FALSE
  /\ UNCHANGED <<events, closed, calling, woken, pushed>>

(* SetNotifier(f): wakes the consumer for what was queued without one.      *)
InstallsSilently == FALSE   \* mutant: the new notifier waits for the next push
InstallDue == ~notificationPending /\ events > 0

InstallNotifier ==
  /\ ~calling[UI]
  /\ Accepting
  /\ notifier' = TRUE
  /\ notificationPending' = (notificationPending \/ InstallDue)
  /\ calling' = [calling EXCEPT ![UI] = InstallDue]
  /\ UNCHANGED <<events, closed, woken, pushed>>

Close ==
  /\ ~calling[UI]
  /\ closed' = TRUE
  /\ events' = 0
  /\ notificationPending' = FALSE
  /\ notifier' = FALSE
  /\ UNCHANGED <<calling, woken, pushed>>

(* The notifier runs on the thread that owed the call.                      *)
Notify(t) ==
  /\ calling[t]
  /\ calling' = [calling EXCEPT ![t] = FALSE]
  /\ woken' = TRUE
  /\ UNCHANGED <<events, notifier, notificationPending, closed, pushed>>

Next ==
  \/ \E t \in Threads : Push(t) \/ Notify(t)
  \/ \E max \in BatchSizes : Drain(max)
  \/ RemoveNotifier
  \/ InstallNotifier
  \/ Close

Spec == Init /\ [][Next]_vars

(* A thread inside the notifier returns, and wake-ups are not all answered  *)
(* with empty drains: the message loop passes a positive batch (it skips a  *)
(* queue when its budget for the turn is spent).                            *)
AnswerWake == woken /\ \E max \in BatchSizes \ {0} : Drain(max)

Fairness ==
  /\ \A t \in Threads : WF_vars(Notify(t))
  /\ SF_vars(AnswerWake)

FairSpec == Spec /\ Fairness

-----------------------------------------------------------------------------
(* Someone still has to act on the queue: a wake-up is delivered, or a      *)
(* thread has left the mutex owing a call.                                  *)
WakeUnderWay == woken \/ \E t \in Threads : calling[t]

(* With a notifier installed, queued events are never stranded: the pending *)
(* flag that suppresses further notifications is set only while a wake-up   *)
(* is delivered or owed (Push, Drain and SetNotifier decide under the lock  *)
(* and call after it).                                                      *)
NoStrandedEvents ==
  /\ events > 0 /\ notifier => notificationPending
  /\ notificationPending => WakeUnderWay

(* Close is final: nothing is queued, pending or installed after it, even   *)
(* when a push or an install decided before the close is still in flight.   *)
ClosedIsEmpty == closed => events = 0 /\ ~notificationPending /\ ~notifier

(* Every queued event reaches the UI thread, unless the notifier is removed *)
(* or the queue closed.                                                     *)
EventsReachUi == (events > 0 /\ notifier) ~> (events = 0 \/ ~notifier)
=============================================================================
