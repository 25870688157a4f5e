--------------------------- MODULE UiEventsProofs ---------------------------
(***************************************************************************)
(* How events reach the UI thread, for any number of producers, services   *)
(* and queues, any batch sizes, budget and caps.                           *)
(*                                                                         *)
(* One queue: a pending notification means a wake-up delivered or owed, no *)
(* queued event is stranded and a closed queue stays empty.                *)
(*                                                                         *)
(* All queues behind one WM_APP_EVENTS: the shared flag has at most one    *)
(* holder: a message, a thread posting one, or the handler before it       *)
(* clears the flag.  So a thread that finds the flag set may leave.  A     *)
(* queue's own notificationPending_ says that it holds events, so whoever  *)
(* may keep quiet about a push has been preceded by somebody who did not.  *)
(*                                                                         *)
(* Captures: what the bar shows and the events on their way to it make up  *)
(* the state of the service, so it follows a recording; and a capture that *)
(* was stopped does not come back to life.                                 *)
(***************************************************************************)
EXTENDS MCUiEvents, Sequences, FiniteSetTheorems, SequenceTheorems, WellFoundedInduction, TLAPS

(* A queue whose events are never stranded and that stays empty once closed *)
(* is what the types and the two invariants say together.                   *)
QueueInv == TypeOK /\ NoStrandedEvents /\ ClosedIsEmpty

(* The invariant holds before the first push, with or without a notifier,   *)
(* and of a queue that was closed.                                          *)
LEMMA QueueInit == Init \/ QueueClosed => QueueInv
PROOF
  <1> SUFFICES ASSUME Init \/ QueueClosed PROVE QueueInv
    OBVIOUS
  <1>1. TypeOK
    <2>1. CASE Init
      BY <2>1 DEF Init, TypeOK
    <2>2. CASE QueueClosed
      BY <2>2 DEF QueueClosed, TypeOK
    <2> QED BY <2>1, <2>2
  <1>2. NoStrandedEvents
    BY DEF Init, QueueClosed, NoStrandedEvents
  <1>3. ClosedIsEmpty
    BY DEF Init, QueueClosed, ClosedIsEmpty
  <1> QED BY <1>1, <1>2, <1>3 DEF QueueInv

(* Every step of every thread keeps it.                                     *)
LEMMA QueueStep == QueueInv /\ [Next]_vars => QueueInv'
PROOF
  <1> SUFFICES ASSUME QueueInv, [Next]_vars PROVE QueueInv'
    OBVIOUS
  <1> USE DEF QueueInv, TypeOK, NoStrandedEvents, ClosedIsEmpty, WakeUnderWay
  <1>1. ASSUME NEW t \in Threads, Push(t) PROVE QueueInv'
    BY <1>1 DEF Push, Accepting
  <1>2. ASSUME NEW t \in Threads, Notify(t) PROVE QueueInv'
    BY <1>2 DEF Notify
  <1>3. ASSUME NEW max \in BatchSizes, Drain(max) PROVE QueueInv'
    <2>1. max \in Nat /\ UI \in Threads
      BY BatchSizesAreNaturals DEF Threads
    <2>2. events' \in Nat /\ (closed => events' = 0)
      BY <1>3, <2>1 DEF Drain, Rest
    <2>3. /\ notificationPending' = (events' > 0 /\ notifier)
          /\ calling' = [calling EXCEPT ![UI] = notificationPending']
      BY <1>3 DEF Drain, Rearm
    <2> QED BY <1>3, <2>1, <2>2, <2>3 DEF Drain
  <1>4. CASE RemoveNotifier
    BY <1>4 DEF RemoveNotifier, Accepting
  <1>5. CASE InstallNotifier
    <2>1. UI \in Threads
      BY DEF Threads
    <2> QED BY <1>5, <2>1 DEF InstallNotifier, InstallDue, Accepting
  <1>6. CASE Close
    BY <1>6 DEF Close
  <1>7. CASE UNCHANGED vars
    BY <1>7 DEF vars
  <1> QED BY <1>1, <1>2, <1>3, <1>4, <1>5, <1>6, <1>7 DEF Next

-----------------------------------------------------------------------------
NobodyElse == messages = 0 /\ Pump!Posting = {}

(* Who holds the flag.                                                      *)
OneHolder ==
  /\ ~runtimePending => NobodyElse /\ turn.at # "dispatching"
  /\ runtimePending =>
       \/ NobodyElse /\ turn.at = "dispatching"
       \/ turn.at # "dispatching" /\ messages = 1 /\ Pump!Posting = {}
       \/ turn.at # "dispatching" /\ messages = 0 /\ \E t \in Pump!Threads : Pump!Posting = {t}

(* A handler runs with the queue counter reset, and only handlers wait for  *)
(* a message box.                                                           *)
Handling(record) == record.at = "handling" /\ record.queue = 1

HandlersWait ==
  /\ turn.at = "handling" => turn.queue = 1
  /\ \A i \in 1 .. Len(outer) : Handling(outer[i])

(* Nobody has failed to post.                                               *)
NoneFailed == failures = 0 => \A t \in Pump!Threads : notifying[t] # "failed"

(* notificationPending_ of a queue: it holds events.                        *)
PendingIsFilled == \A q \in Pump!Queues : notified[q] <=> queued[q] > 0

(* A message is on its way, whatever the turn under way still does.         *)
Announced == messages > 0 \/ \E t \in Pump!Threads : notifying[t] \in {"entered", "posting"}

(* A queue this turn is past is announced, as long as the budget lasts; one *)
(* skipped after that keeps the turn from handling the last queue.          *)
Passed(q) ==
  \/ turn.at = "draining" /\ turn.remaining > 0 /\ q < turn.queue
  \/ turn.at = "handling"

PassedAreAnnounced ==
  ~stopThreads /\ failures = 0 =>
    \A q \in Pump!Queues : queued[q] > 0 /\ Passed(q) => Announced

PumpInv ==
  /\ Pump!TypeOK /\ OneHolder /\ HandlersWait /\ NoneFailed /\ PendingIsFilled
  /\ PassedAreAnnounced /\ Pump!NoForgottenQueue

(* Min of three numbers is the least of them.                               *)
LEMMA MinOfThree ==
  ASSUME NEW a \in Nat, NEW b \in Nat, NEW c \in Nat
  PROVE  /\ Pump!Min({a, b, c}) \in Nat
         /\ Pump!Min({a, b, c}) <= a /\ Pump!Min({a, b, c}) <= b /\ Pump!Min({a, b, c}) <= c
PROOF
  <1>1. \E x \in {a, b, c} : \A y \in {a, b, c} : x =< y
    <2>1. CASE a <= b /\ a <= c
      BY <2>1
    <2>2. CASE b <= a /\ b <= c
      BY <2>2
    <2>3. CASE c <= a /\ c <= b
      BY <2>3
    <2> QED BY <2>1, <2>2, <2>3
  <1> QED BY <1>1 DEF Pump!Min

-----------------------------------------------------------------------------
(* The UI thread outside a turn.                                            *)
LEMMA WaitingIsATurn == Pump!PumpConstants => Pump!Waiting \in Pump!Turn
  BY DEF Pump!Waiting, Pump!Turn, Pump!TurnPhases, Pump!Queues, Pump!PumpConstants

(* Before the first push.                                                   *)
LEMMA PumpInit == Pump!PumpConstants /\ Pump!Init => PumpInv
PROOF
  <1> SUFFICES ASSUME Pump!PumpConstants, Pump!Init PROVE PumpInv
    OBVIOUS
  <1>1. Pump!TypeOK
    <2>1. turn \in Pump!Turn /\ outer \in Seq(Pump!Turn)
      BY WaitingIsATurn DEF Pump!Init
    <2>2. queued \in [Pump!Queues -> Nat] /\ messages \in Nat
      BY DEF Pump!Init
    <2>3. /\ notified \in [Pump!Queues -> BOOLEAN] /\ queueClosed \in [Pump!Queues -> BOOLEAN]
          /\ runtimePending \in BOOLEAN /\ stopThreads \in BOOLEAN
      BY DEF Pump!Init
    <2>4. notifying \in [Pump!Threads -> {"no", "entered", "posting", "failed"}]
      BY DEF Pump!Init
    <2>5. boxes \in 0 .. MaxBoxes /\ accepted \in Nat /\ failures \in 0 .. MaxFailures
      BY DEF Pump!Init, Pump!PumpConstants
    <2> QED BY <2>1, <2>2, <2>3, <2>4, <2>5 DEF Pump!TypeOK
  <1>2. OneHolder
    BY DEF Pump!Init, OneHolder, NobodyElse, Pump!Posting, Pump!Waiting
  <1>3. HandlersWait
    BY DEF Pump!Init, HandlersWait, Pump!Waiting
  <1>4. NoneFailed
    BY DEF Pump!Init, NoneFailed
  <1>5. PendingIsFilled
    BY DEF Pump!Init, PendingIsFilled
  <1>6. PassedAreAnnounced /\ Pump!NoForgottenQueue
    BY DEF Pump!Init, PassedAreAnnounced, Pump!NoForgottenQueue
  <1> QED BY <1>1, <1>2, <1>3, <1>4, <1>5, <1>6 DEF PumpInv

(* What DrainQueue takes from a queue.                                      *)
LEMMA TakenBounds ==
  ASSUME Pump!PumpConstants, Pump!TypeOK, NEW q \in Pump!Queues
  PROVE  /\ Pump!Taken(q) \in Nat /\ Pump!Taken(q) <= turn.remaining /\ Pump!Taken(q) <= queued[q]
         /\ queued[q] - Pump!Taken(q) \in Nat
         /\ turn.remaining - Pump!Taken(q) \in 0 .. Budget
PROOF
  <1>1. turn.remaining \in Nat /\ turn.remaining <= Budget
    BY DEF Pump!TypeOK, Pump!Turn, Pump!PumpConstants
  <1>2. QueueCap[q] \in Nat /\ queued[q] \in Nat
    BY DEF Pump!TypeOK, Pump!PumpConstants, Pump!Queues
  <1>3. /\ Pump!Taken(q) \in Nat /\ Pump!Taken(q) <= turn.remaining /\ Pump!Taken(q) <= queued[q]
    BY <1>1, <1>2, MinOfThree DEF Pump!Taken
  <1> QED BY <1>1, <1>2, <1>3 DEF Pump!PumpConstants

(* A turn that moves on is a turn.                                          *)
LEMMA NextQueueIsATurn ==
  ASSUME Pump!PumpConstants, NEW record \in Pump!Turn, NEW after \in Pump!TurnPhases
  PROVE  Pump!NextQueue(record, after) \in Pump!Turn
PROOF
  <1>1. CASE record.queue < NumQueues
    <2>1. record.queue + 1 \in Pump!Queues
      BY <1>1 DEF Pump!Turn, Pump!Queues, Pump!PumpConstants
    <2> QED BY <1>1, <2>1 DEF Pump!NextQueue, Pump!Turn
  <1>2. CASE ~(record.queue < NumQueues)
    <2>1. 1 \in Pump!Queues
      BY DEF Pump!Queues, Pump!PumpConstants
    <2> QED BY <1>2, <2>1 DEF Pump!NextQueue, Pump!Turn
  <1> QED BY <1>1, <1>2

(* The parts of TypeOK a step is concerned with.                            *)
NotifyTypes == notifying \in [Pump!Threads -> {"no", "entered", "posting", "failed"}]
QueueTypes  == /\ queued \in [Pump!Queues -> Nat]
               /\ notified \in [Pump!Queues -> BOOLEAN]
               /\ queueClosed \in [Pump!Queues -> BOOLEAN]
CountTypes  == messages \in Nat /\ accepted \in Nat /\ failures \in 0 .. MaxFailures
FlagTypes   == runtimePending \in BOOLEAN /\ stopThreads \in BOOLEAN
StackTypes  == outer \in Seq(Pump!Turn) /\ boxes \in 0 .. MaxBoxes

(* Every step keeps the types.                                              *)
LEMMA StepTypeOK == Pump!PumpConstants /\ Pump!TypeOK /\ [Pump!Next]_pump => Pump!TypeOK'
PROOF
  <1> SUFFICES ASSUME Pump!PumpConstants, Pump!TypeOK, [Pump!Next]_pump PROVE Pump!TypeOK'
    OBVIOUS
  <1>0. /\ NotifyTypes /\ QueueTypes /\ CountTypes /\ FlagTypes /\ StackTypes /\ turn \in Pump!Turn
        /\ UI \in Pump!Threads
    BY DEF Pump!TypeOK, NotifyTypes, QueueTypes, CountTypes, FlagTypes, StackTypes, Pump!Threads
  <1>a. SUFFICES /\ NotifyTypes' /\ QueueTypes' /\ CountTypes' /\ FlagTypes' /\ StackTypes'
                 /\ turn' \in Pump!Turn
    BY <1>a DEF Pump!TypeOK, NotifyTypes, QueueTypes, CountTypes, FlagTypes, StackTypes
  <1> DEFINE Types == /\ NotifyTypes /\ QueueTypes /\ CountTypes /\ FlagTypes /\ StackTypes
                      /\ turn \in Pump!Turn
  <1>1. ASSUME NEW t \in Pump!Threads, NEW q \in Pump!Queues, Pump!Push(t, q) PROVE Types'
    <2>1. NotifyTypes'
      BY <1>0, <1>1 DEF Pump!Push, NotifyTypes
    <2>2. queued' \in [Pump!Queues -> Nat]
      BY <1>0, <1>1 DEF Pump!Push, QueueTypes
    <2>3. notified' \in [Pump!Queues -> BOOLEAN]
      BY <1>0, <1>1 DEF Pump!Push, QueueTypes
    <2>4. CountTypes'
      BY <1>0, <1>1 DEF Pump!Push, CountTypes
    <2> QED BY <1>0, <1>1, <2>1, <2>2, <2>3, <2>4
            DEF Pump!Push, Pump!stack, QueueTypes, FlagTypes, StackTypes
  <1>2. ASSUME NEW t \in Pump!Threads, Pump!NotifyStep(t) PROVE Types'
    <2> USE DEF Pump!NotifyStep, Pump!NotifyRuntimeEvents, Pump!PostMessage, Pump!PostFails,
                Pump!ClearAfterFailure
    <2>1. NotifyTypes'
      BY <1>0, <1>2 DEF NotifyTypes
    <2>2. CountTypes'
      BY <1>0, <1>2 DEF CountTypes, Pump!PumpConstants
    <2>3. FlagTypes'
      BY <1>0, <1>2 DEF FlagTypes
    <2>4. UNCHANGED <<queued, notified, queueClosed, turn, outer, boxes>>
      BY <1>2 DEF Pump!stack
    <2> QED BY <1>0, <2>1, <2>2, <2>3, <2>4 DEF QueueTypes, StackTypes
  <1>3. CASE Pump!TakeMessage
    <2>1. turn' \in Pump!Turn /\ CountTypes'
      BY <1>0, <1>3 DEF Pump!TakeMessage, Pump!Turn, Pump!TurnPhases, CountTypes
    <2> QED BY <1>0, <1>3, <2>1 DEF Pump!TakeMessage, Pump!stack, NotifyTypes, QueueTypes,
                                    FlagTypes,
                                    StackTypes
  <1>4. CASE Pump!BeginTurn
    <2>1. turn' \in Pump!Turn
      BY <1>4 DEF Pump!BeginTurn, Pump!Turn, Pump!TurnPhases, Pump!PumpConstants, Pump!Queues
    <2> QED BY <1>0, <1>4, <2>1 DEF Pump!BeginTurn, Pump!FlagAfterDispatch, Pump!stack, NotifyTypes,
                                    QueueTypes, CountTypes, FlagTypes, StackTypes
  <1>5. CASE Pump!DrainQueue
    <2> DEFINE q == turn.queue
    <2>0. q \in Pump!Queues
      BY <1>0 DEF Pump!Turn
    <2>1. queued' \in [Pump!Queues -> Nat]
      BY <1>0, <1>5, <2>0, TakenBounds DEF Pump!DrainQueue, QueueTypes
    <2>2. notified' \in [Pump!Queues -> BOOLEAN]
      <3>1. CASE turn.remaining = 0
        BY <1>0, <1>5, <3>1 DEF Pump!DrainQueue, QueueTypes
      <3>2. CASE turn.remaining # 0
        <4>1. notified' = [notified EXCEPT ![q] = (queued[q] > Pump!Taken(q))]
          BY <1>5, <3>2 DEF Pump!DrainQueue
        <4>2. (queued[q] > Pump!Taken(q)) \in BOOLEAN
          OBVIOUS
        <4> HIDE DEF q
        <4> QED BY <1>0, <4>1, <4>2, Zenon DEF QueueTypes
      <3> QED BY <3>1, <3>2
    <2>3. NotifyTypes'
      BY <1>0, <1>5 DEF Pump!DrainQueue, NotifyTypes
    <2>4. [turn EXCEPT !.remaining = @ - Pump!Taken(q),
                       !.left = @ \/ queued[q] > Pump!Taken(q)] \in Pump!Turn
      BY <1>0, <2>0, TakenBounds DEF Pump!Turn
    <2>5. turn' \in Pump!Turn
      BY <1>0, <1>5, <2>4, NextQueueIsATurn DEF Pump!DrainQueue, Pump!TurnPhases
    <2> QED BY <1>0, <1>5, <2>1, <2>2, <2>3, <2>5
            DEF Pump!DrainQueue, Pump!stack, QueueTypes, CountTypes, FlagTypes, StackTypes
  <1>6. CASE Pump!EndHandling
    <2>1. turn' \in Pump!Turn
      BY <1>0, <1>6 DEF Pump!EndHandling, Pump!Turn, Pump!TurnPhases
    <2> QED BY <1>0, <1>6, <2>1 DEF Pump!EndHandling, Pump!stack, NotifyTypes, QueueTypes,
                                    CountTypes,
                                    FlagTypes, StackTypes
  <1>7. CASE Pump!CountQueue
    <2>1. Pump!LeftOver \in BOOLEAN
      BY <1>0 DEF Pump!LeftOver, Pump!Turn
    <2>2. turn' \in Pump!Turn
      <3>1. CASE turn.queue < NumQueues
        <4>1. turn.queue + 1 \in Pump!Queues
          BY <1>0, <3>1 DEF Pump!Turn, Pump!Queues, Pump!PumpConstants
        <4>2. turn' = [turn EXCEPT !.queue = @ + 1, !.left = Pump!LeftOver]
          BY <1>7, <3>1 DEF Pump!CountQueue
        <4> QED BY <1>0, <2>1, <4>1, <4>2 DEF Pump!Turn
      <3>2. CASE ~(turn.queue < NumQueues)
        BY <1>7, <3>2, WaitingIsATurn DEF Pump!CountQueue
      <3> QED BY <3>1, <3>2
    <2>3. NotifyTypes'
      BY <1>0, <1>7 DEF Pump!CountQueue, NotifyTypes
    <2> QED BY <1>0, <1>7, <2>2, <2>3 DEF Pump!CountQueue, Pump!stack, QueueTypes, CountTypes,
                                          FlagTypes,
                                          StackTypes
  <1>8. CASE Pump!ShowBox
    <2>1. StackTypes'
      BY <1>0, <1>8 DEF Pump!ShowBox, StackTypes, Pump!PumpConstants
    <2> QED BY <1>0, <1>8, <2>1, WaitingIsATurn DEF Pump!ShowBox, NotifyTypes, QueueTypes,
                                                    CountTypes,
                                                    FlagTypes
  <1>9. CASE Pump!CloseBox
    <2>1. StackTypes' /\ turn' \in Pump!Turn
      BY <1>0, <1>9 DEF Pump!CloseBox, StackTypes
    <2> QED BY <1>0, <1>9, <2>1 DEF Pump!CloseBox, NotifyTypes, QueueTypes, CountTypes, FlagTypes
  <1>10. CASE Pump!BeginShutdown
    BY <1>0, <1>10 DEF Pump!BeginShutdown, Pump!stack, NotifyTypes, QueueTypes, CountTypes,
                       FlagTypes,
                       StackTypes
  <1>11. ASSUME NEW q \in Pump!Queues, Pump!CloseQueue(q) PROVE Types'
    <2>1. QueueTypes'
      BY <1>0, <1>11 DEF Pump!CloseQueue, QueueTypes
    <2> QED BY <1>0, <1>11, <2>1 DEF Pump!CloseQueue, Pump!stack, NotifyTypes, CountTypes,
                                     FlagTypes,
                                     StackTypes
  <1>12. CASE UNCHANGED pump
    BY <1>0, <1>12 DEF pump, NotifyTypes, QueueTypes, CountTypes, FlagTypes, StackTypes
  <1> QED BY <1>1, <1>2, <1>3, <1>4, <1>5, <1>6, <1>7, <1>8, <1>9, <1>10, <1>11, <1>12
          DEF Pump!Next, Pump!TurnStep
-----------------------------------------------------------------------------
(* What DrainQueue and CountQueue do, case by case.                         *)
LEMMA DrainsOne ==
  ASSUME Pump!PumpConstants, Pump!TypeOK, Pump!DrainQueue, NEW q, q = turn.queue
  PROVE  /\ q \in Pump!Queues /\ turn.at = "draining" /\ notifying[UI] = "no"
         /\ UNCHANGED <<messages, runtimePending, stopThreads, failures, outer>>
         /\ q < NumQueues => turn'.at = "draining" /\ turn'.queue = q + 1
         /\ ~(q < NumQueues) => turn'.at \in {"handling", "counting"} /\ turn'.queue = 1
         /\ turn.remaining = 0 =>
              /\ UNCHANGED <<queued, notified, notifying>>
              /\ turn'.remaining = 0
              /\ turn'.at # "handling"
         /\ turn.remaining # 0 =>
              /\ turn.remaining > 0
              /\ queued' = [queued EXCEPT ![q] = @ - Pump!Taken(q)]
              /\ notified' = [notified EXCEPT ![q] = (queued[q] > Pump!Taken(q))]
              /\ notifying' = [notifying EXCEPT ![UI] =
                                 IF queued[q] > Pump!Taken(q) THEN "entered" ELSE "no"]
PROOF
  <1>0. turn \in Pump!Turn /\ q \in Pump!Queues /\ turn.at = "draining" /\ notifying[UI] = "no"
    BY DEF Pump!TypeOK, Pump!Turn, Pump!DrainQueue
  <1>1. UNCHANGED <<messages, runtimePending, stopThreads, failures, outer>>
    BY DEF Pump!DrainQueue, Pump!stack
  <1>2. CASE turn.remaining = 0
    <2>1. UNCHANGED <<queued, notified, notifying>>
          /\ turn' = Pump!NextQueue(turn, "counting")
      BY <1>2 DEF Pump!DrainQueue
    <2>2. /\ turn'.remaining = 0 /\ turn'.at # "handling"
          /\ q < NumQueues => turn'.at = "draining" /\ turn'.queue = q + 1
          /\ ~(q < NumQueues) => turn'.at = "counting" /\ turn'.queue = 1
      BY <1>0, <1>2, <2>1 DEF Pump!NextQueue, Pump!Turn
    <2> QED BY <1>0, <1>1, <1>2, <2>1, <2>2
  <1>3. CASE turn.remaining # 0
    <2>1. turn.remaining > 0
      BY <1>0, <1>3 DEF Pump!Turn, Pump!PumpConstants
    <2>2. /\ queued' = [queued EXCEPT ![q] = @ - Pump!Taken(q)]
          /\ notified' = [notified EXCEPT ![q] = (queued[q] > Pump!Taken(q))]
          /\ notifying' = [notifying EXCEPT ![UI] =
                              IF queued[q] > Pump!Taken(q) THEN "entered" ELSE "no"]
      BY <1>3 DEF Pump!DrainQueue
    <2> DEFINE record == [turn EXCEPT !.remaining = @ - Pump!Taken(q),
                                      !.left = @ \/ queued[q] > Pump!Taken(q)]
               after == IF Pump!Taken(q) > 0 THEN "handling" ELSE "counting"
    <2>3. turn' = Pump!NextQueue(record, after)
      BY <1>3 DEF Pump!DrainQueue
    <2>4. record \in Pump!Turn /\ record.queue = q /\ record.at = "draining"
      BY <1>0, TakenBounds DEF Pump!Turn
    <2>5. after \in {"handling", "counting"}
      OBVIOUS
    <2> HIDE DEF record, after
    <2>6. /\ q < NumQueues => turn'.at = "draining" /\ turn'.queue = q + 1
          /\ ~(q < NumQueues) => turn'.at = after /\ turn'.queue = 1
      BY <2>3, <2>4 DEF Pump!NextQueue, Pump!Turn
    <2> QED BY <1>0, <1>1, <1>3, <2>1, <2>2, <2>5, <2>6
  <1> QED BY <1>2, <1>3

(* One queue is counted, or, after the last, what is left is announced.     *)
LEMMA CountsOne ==
  ASSUME Pump!PumpConstants, Pump!TypeOK, Pump!CountQueue
  PROVE  /\ turn.at = "counting" /\ notifying[UI] = "no"
         /\ UNCHANGED <<queued, notified, messages, runtimePending, stopThreads,
                        failures, outer>>
         /\ turn.queue < NumQueues =>
              /\ turn'.at = "counting" /\ turn'.queue = turn.queue + 1
              /\ turn'.left = Pump!LeftOver
              /\ UNCHANGED notifying
         /\ ~(turn.queue < NumQueues) =>
              /\ turn' = Pump!Waiting
              /\ notifying' = [notifying EXCEPT ![UI] = IF Pump!LeftOver THEN "entered" ELSE "no"]
PROOF
  <1>1. turn \in Pump!Turn
    BY DEF Pump!TypeOK
  <1>2. CASE turn.queue < NumQueues
    <2>1. turn' = [turn EXCEPT !.queue = @ + 1, !.left = Pump!LeftOver] /\ UNCHANGED notifying
      BY <1>2 DEF Pump!CountQueue
    <2>2. turn'.at = turn.at /\ turn'.queue = turn.queue + 1 /\ turn'.left = Pump!LeftOver
      BY <1>1, <2>1 DEF Pump!Turn
    <2> QED BY <1>2, <2>1, <2>2 DEF Pump!CountQueue, Pump!stack
  <1>3. CASE ~(turn.queue < NumQueues)
    BY <1>3 DEF Pump!CountQueue, Pump!stack
  <1> QED BY <1>2, <1>3

-----------------------------------------------------------------------------
(* Only the threads inside PostMessageW, or about to clear the flag after   *)
(* it failed, are posting.                                                  *)
LEMMA PostingStays ==
  ASSUME notifying \in [Pump!Threads -> {"no", "entered", "posting", "failed"}],
         NEW t \in Pump!Threads, NEW place \in {"no", "entered"},
         notifying' = [notifying EXCEPT ![t] = place], notifying[t] \in {"no", "entered"}
  PROVE  Pump!Posting' = Pump!Posting
BY DEF Pump!Posting

(* A thread enters PostMessageW.                                            *)
LEMMA PostingStarts ==
  ASSUME notifying \in [Pump!Threads -> {"no", "entered", "posting", "failed"}],
         NEW t \in Pump!Threads, notifying' = [notifying EXCEPT ![t] = "posting"]
  PROVE  Pump!Posting' = Pump!Posting \cup {t}
BY DEF Pump!Posting

(* A thread leaves NotifyRuntimeEvents.                                     *)
LEMMA PostingEnds ==
  ASSUME notifying \in [Pump!Threads -> {"no", "entered", "posting", "failed"}],
         NEW t \in Pump!Threads, notifying' = [notifying EXCEPT ![t] = "no"]
  PROVE  Pump!Posting' = Pump!Posting \ {t}
BY DEF Pump!Posting

(* The exchange in NotifyRuntimeEvents lets a thread post only while nobody *)
(* holds the flag; the handler gives it up before it drains.                *)
LEMMA StepOneHolder ==
  Pump!PumpConstants /\ Pump!TypeOK /\ OneHolder /\ HandlersWait /\ [Pump!Next]_pump => OneHolder'
PROOF
  <1> SUFFICES ASSUME Pump!PumpConstants, Pump!TypeOK, OneHolder, HandlersWait, [Pump!Next]_pump
               PROVE  OneHolder'
    OBVIOUS
  <1>0. /\ notifying \in [Pump!Threads -> {"no", "entered", "posting", "failed"}]
        /\ messages \in Nat /\ runtimePending \in BOOLEAN /\ UI \in Pump!Threads
        /\ turn \in Pump!Turn
    BY DEF Pump!TypeOK, Pump!Threads
  <1>a. ASSUME UNCHANGED <<runtimePending, messages>>, Pump!Posting' = Pump!Posting,
               turn'.at = "dispatching" <=> turn.at = "dispatching"
        PROVE  OneHolder'
    BY <1>a DEF OneHolder, NobodyElse
  <1>1. ASSUME NEW t \in Pump!Threads, NEW q \in Pump!Queues, Pump!Push(t, q) PROVE OneHolder'
    <2>1. Pump!Posting' = Pump!Posting
      <3>1. CASE notified[q]
        BY <1>1, <3>1 DEF Pump!Push, Pump!Posting
      <3>2. CASE ~notified[q]
        BY <1>0, <1>1, <3>2, PostingStays DEF Pump!Push
      <3> QED BY <3>1, <3>2
    <2> QED BY <1>1, <1>a, <2>1 DEF Pump!Push
  <1>2. ASSUME NEW t \in Pump!Threads, Pump!NotifyRuntimeEvents(t) PROVE OneHolder'
    <2>1. CASE stopThreads
      <3>1. Pump!Posting' = Pump!Posting
        BY <1>0, <1>2, <2>1, PostingStays DEF Pump!NotifyRuntimeEvents
      <3> QED BY <1>2, <1>a, <2>1, <3>1 DEF Pump!NotifyRuntimeEvents
    <2>2. CASE ~stopThreads /\ runtimePending
      <3>1. Pump!Posting' = Pump!Posting
        BY <1>0, <1>2, <2>2, PostingStays DEF Pump!NotifyRuntimeEvents, Pump!MayPost
      <3> QED BY <1>2, <1>a, <2>2, <3>1 DEF Pump!NotifyRuntimeEvents
    <2>3. CASE ~stopThreads /\ ~runtimePending
      <3>1. Pump!Posting' = Pump!Posting \cup {t}
        BY <1>0, <1>2, <2>3, PostingStarts DEF Pump!NotifyRuntimeEvents, Pump!MayPost
      <3>2. messages = 0 /\ Pump!Posting = {} /\ turn.at # "dispatching"
        BY <2>3 DEF OneHolder, NobodyElse
      <3>3. Pump!Posting' = {t} /\ messages' = 0 /\ turn'.at # "dispatching" /\ runtimePending'
        BY <1>2, <2>3, <3>1, <3>2 DEF Pump!NotifyRuntimeEvents
      <3> QED BY <3>3 DEF OneHolder
    <2> QED BY <2>1, <2>2, <2>3
  <1>3. ASSUME NEW t \in Pump!Threads, Pump!PostMessage(t) PROVE OneHolder'
    <2>1. Pump!Posting' = Pump!Posting \ {t} /\ t \in Pump!Posting
      BY <1>0, <1>3, PostingEnds DEF Pump!PostMessage, Pump!Posting
    <2>2. runtimePending /\ messages = 0 /\ Pump!Posting = {t} /\ turn.at # "dispatching"
      BY <1>0, <2>1 DEF OneHolder, NobodyElse
    <2> QED BY <1>3, <2>1, <2>2 DEF Pump!PostMessage, OneHolder
  <1>4. ASSUME NEW t \in Pump!Threads, Pump!PostFails(t) PROVE OneHolder'
    <2>1. Pump!Posting' = Pump!Posting
      BY <1>0, <1>4 DEF Pump!PostFails, Pump!Posting
    <2> QED BY <1>4, <1>a, <2>1 DEF Pump!PostFails
  <1>5. ASSUME NEW t \in Pump!Threads, Pump!ClearAfterFailure(t) PROVE OneHolder'
    <2>1. Pump!Posting' = Pump!Posting \ {t} /\ t \in Pump!Posting
      BY <1>0, <1>5, PostingEnds DEF Pump!ClearAfterFailure, Pump!Posting
    <2>2. runtimePending /\ messages = 0 /\ Pump!Posting = {t} /\ turn.at # "dispatching"
      BY <1>0, <2>1 DEF OneHolder, NobodyElse
    <2> QED BY <1>5, <2>1, <2>2 DEF Pump!ClearAfterFailure, OneHolder, NobodyElse
  <1>6. CASE Pump!TakeMessage
    <2>1. Pump!Posting' = Pump!Posting /\ turn'.at = "dispatching" /\ messages' = messages - 1
          /\ UNCHANGED runtimePending /\ turn.at # "dispatching" /\ messages > 0
      BY <1>0, <1>6 DEF Pump!TakeMessage, Pump!Posting, Pump!Turn
    <2>2. runtimePending /\ messages = 1 /\ Pump!Posting = {}
      BY <1>0, <2>1 DEF OneHolder, NobodyElse
    <2> QED BY <2>1, <2>2 DEF OneHolder, NobodyElse
  <1>7. CASE Pump!BeginTurn
    <2>1. runtimePending' = FALSE /\ turn'.at # "dispatching" /\ messages' = messages
          /\ Pump!Posting' = Pump!Posting /\ turn.at = "dispatching"
      BY <1>7 DEF Pump!BeginTurn, Pump!FlagAfterDispatch, Pump!Posting
    <2>2. NobodyElse
      BY <2>1 DEF OneHolder
    <2> QED BY <2>1, <2>2 DEF OneHolder, NobodyElse
  <1>8. CASE Pump!DrainQueue
    <2>1. Pump!Posting' = Pump!Posting
      <3>1. CASE turn.remaining = 0
        BY <1>8, <3>1 DEF Pump!DrainQueue, Pump!Posting
      <3>2. CASE turn.remaining # 0
        BY <1>0, <1>8, <3>2, PostingStays DEF Pump!DrainQueue
      <3> QED BY <3>1, <3>2
    <2>2. turn.at # "dispatching" /\ turn'.at # "dispatching"
      BY <1>8, DrainsOne
    <2> QED BY <1>8, <1>a, <2>1, <2>2 DEF Pump!DrainQueue
  <1>9. CASE Pump!ShowBox \/ Pump!EndHandling \/ Pump!BeginShutdown
    <2>1. Pump!Posting' = Pump!Posting /\ UNCHANGED <<runtimePending, messages>>
      BY <1>9 DEF Pump!ShowBox, Pump!EndHandling, Pump!BeginShutdown, Pump!Posting
    <2>2. turn.at # "dispatching" /\ turn'.at # "dispatching"
      BY <1>0, <1>9 DEF Pump!ShowBox, Pump!EndHandling, Pump!BeginShutdown, Pump!Waiting, Pump!Turn
    <2> QED BY <1>a, <2>1, <2>2
  <1>13. CASE Pump!CloseBox
    <2>1. Pump!Posting' = Pump!Posting /\ UNCHANGED <<runtimePending, messages>>
      BY <1>13 DEF Pump!CloseBox, Pump!Posting
    <2>2. Handling(turn')
      BY <1>13 DEF Pump!CloseBox, HandlersWait, Pump!TypeOK
    <2>3. turn.at # "dispatching" /\ turn'.at # "dispatching"
      BY <1>13, <2>2 DEF Pump!CloseBox, Handling
    <2> QED BY <1>a, <2>1, <2>3
  <1>10. CASE Pump!CountQueue
    <2>1. Pump!Posting' = Pump!Posting
      <3>1. CASE turn.queue < NumQueues
        BY <1>10, <3>1 DEF Pump!CountQueue, Pump!Posting
      <3>2. CASE ~(turn.queue < NumQueues)
        <4>1. PICK place \in {"no", "entered"} : notifying' = [notifying EXCEPT ![UI] = place]
          BY <1>10, <3>2, CountsOne
        <4> QED BY <1>0, <1>10, <4>1, PostingStays, CountsOne
      <3> QED BY <3>1, <3>2
    <2>2. turn.at # "dispatching" /\ turn'.at # "dispatching"
      BY <1>10, CountsOne DEF Pump!Waiting
    <2> QED BY <1>10, <1>a, <2>1, <2>2 DEF Pump!CountQueue
  <1>11. ASSUME NEW q \in Pump!Queues, Pump!CloseQueue(q) PROVE OneHolder'
    BY <1>11, <1>a DEF Pump!CloseQueue, Pump!Posting
  <1>12. CASE UNCHANGED pump
    BY <1>12, <1>a DEF pump, Pump!Posting
  <1> QED BY <1>1, <1>2, <1>3, <1>4, <1>5, <1>6, <1>7, <1>8, <1>9, <1>10, <1>11, <1>12,
            <1>13 DEF Pump!Next, Pump!TurnStep, Pump!NotifyStep

-----------------------------------------------------------------------------
(* A message box interrupts a handler, and the turn it interrupted goes on  *)
(* as one.                                                                  *)
LEMMA StepHandlersWait ==
  Pump!PumpConstants /\ Pump!TypeOK /\ HandlersWait /\ [Pump!Next]_pump => HandlersWait'
PROOF
  <1> SUFFICES ASSUME Pump!PumpConstants, Pump!TypeOK, HandlersWait, [Pump!Next]_pump
               PROVE  HandlersWait'
    OBVIOUS
  <1>0. turn \in Pump!Turn /\ outer \in Seq(Pump!Turn)
    BY DEF Pump!TypeOK
  <1>a. ASSUME UNCHANGED outer, turn'.at = "handling" => turn'.queue = 1 PROVE HandlersWait'
    BY <1>a DEF HandlersWait
  <1>1. ASSUME NEW t \in Pump!Threads, NEW q \in Pump!Queues, Pump!Push(t, q) PROVE HandlersWait'
    BY <1>1 DEF Pump!Push, Pump!stack, HandlersWait
  <1>2. ASSUME NEW t \in Pump!Threads, Pump!NotifyStep(t) PROVE HandlersWait'
    BY <1>2 DEF Pump!NotifyStep, Pump!NotifyRuntimeEvents, Pump!PostMessage, Pump!PostFails,
                Pump!ClearAfterFailure,
                Pump!stack, HandlersWait
  <1>3. CASE Pump!TakeMessage \/ Pump!BeginTurn \/ Pump!EndHandling
    <2>1. UNCHANGED outer /\ turn'.at # "handling"
      BY <1>0, <1>3 DEF Pump!TakeMessage, Pump!BeginTurn, Pump!EndHandling, Pump!stack, Pump!Turn
    <2> QED BY <1>a, <2>1
  <1>4. CASE Pump!DrainQueue
    <2>1. UNCHANGED outer /\ (turn'.at = "handling" => turn'.queue = 1)
      BY <1>4, DrainsOne
    <2> QED BY <1>a, <2>1
  <1>5. CASE Pump!CountQueue
    <2>1. UNCHANGED outer /\ turn'.at # "handling"
      BY <1>5, CountsOne DEF Pump!Waiting
    <2> QED BY <1>a, <2>1
  <1>6. CASE Pump!ShowBox
    <2>1. turn'.at # "handling" /\ Handling(turn)
      BY <1>6 DEF Pump!ShowBox, Pump!Waiting, HandlersWait, Handling
    <2>2. outer' = <<turn>> \o outer
      BY <1>6 DEF Pump!ShowBox
    <2>3. ASSUME NEW i \in 1 .. Len(outer') PROVE Handling(outer'[i])
      <3>1. CASE i = 1
        BY <1>0, <2>1, <2>2, <3>1
      <3>2. CASE i # 1
        <4>1. outer'[i] = outer[i - 1] /\ i - 1 \in 1 .. Len(outer)
          BY <1>0, <2>2, <2>3, <3>2
        <4> QED BY <4>1 DEF HandlersWait
      <3> QED BY <3>1, <3>2
    <2> QED BY <2>1, <2>3 DEF HandlersWait, Handling
  <1>7. CASE Pump!CloseBox
    <2>1. turn' = outer[1] /\ outer' = Tail(outer) /\ Len(outer) > 0
      BY <1>0, <1>7 DEF Pump!CloseBox
    <2>2. Handling(turn')
      BY <1>0, <2>1 DEF HandlersWait
    <2>3. ASSUME NEW i \in 1 .. Len(outer') PROVE Handling(outer'[i])
      <3>1. outer'[i] = outer[i + 1] /\ i + 1 \in 1 .. Len(outer)
        BY <1>0, <2>1, <2>3
      <3> QED BY <3>1 DEF HandlersWait
    <2> QED BY <2>2, <2>3 DEF HandlersWait, Handling
  <1>8. CASE Pump!BeginShutdown
    BY <1>8 DEF Pump!BeginShutdown, Pump!stack, HandlersWait
  <1>9. ASSUME NEW q \in Pump!Queues, Pump!CloseQueue(q) PROVE HandlersWait'
    BY <1>9 DEF Pump!CloseQueue, Pump!stack, HandlersWait
  <1>10. CASE UNCHANGED pump
    BY <1>10 DEF pump, HandlersWait
  <1> QED BY <1>1, <1>2, <1>3, <1>4, <1>5, <1>6, <1>7, <1>8, <1>9, <1>10
          DEF Pump!Next, Pump!TurnStep

(* A thread is about to clear the flag only after PostMessageW failed.      *)
LEMMA StepNoneFailed ==
  Pump!PumpConstants /\ Pump!TypeOK /\ NoneFailed /\ [Pump!Next]_pump => NoneFailed'
PROOF
  <1> SUFFICES ASSUME Pump!PumpConstants, Pump!TypeOK, NoneFailed, [Pump!Next]_pump, failures' = 0,
                      NEW u \in Pump!Threads
               PROVE  notifying'[u] # "failed"
    BY DEF NoneFailed
  <1>0. /\ notifying \in [Pump!Threads -> {"no", "entered", "posting", "failed"}]
        /\ failures \in Nat /\ UI \in Pump!Threads
    BY DEF Pump!TypeOK, Pump!Threads, Pump!PumpConstants
  <1>a. ASSUME failures' = failures, NEW t \in Pump!Threads,
               NEW place \in {"no", "entered", "posting"},
               notifying' = [notifying EXCEPT ![t] = place]
        PROVE  notifying'[u] # "failed"
    BY <1>0, <1>a DEF NoneFailed
  <1>b. ASSUME failures' = failures, notifying' = notifying PROVE notifying'[u] # "failed"
    BY <1>b DEF NoneFailed
  <1>1. ASSUME NEW t \in Pump!Threads, NEW q \in Pump!Queues, Pump!Push(t, q)
        PROVE notifying'[u] # "failed"
    BY <1>1, <1>a, <1>b DEF Pump!Push
  <1>2. ASSUME NEW t \in Pump!Threads, Pump!NotifyStep(t) PROVE notifying'[u] # "failed"
    <2>1. CASE Pump!NotifyRuntimeEvents(t)
      <3>1. PICK place \in {"no", "posting"} : notifying' = [notifying EXCEPT ![t] = place]
        BY <2>1 DEF Pump!NotifyRuntimeEvents
      <3> QED BY <1>a, <2>1, <3>1 DEF Pump!NotifyRuntimeEvents
    <2>2. CASE Pump!PostMessage(t) \/ Pump!ClearAfterFailure(t)
      BY <1>a, <2>2 DEF Pump!PostMessage, Pump!ClearAfterFailure
    <2>3. CASE Pump!PostFails(t)
      BY <1>0, <2>3 DEF Pump!PostFails
    <2> QED BY <1>2, <2>1, <2>2, <2>3 DEF Pump!NotifyStep
  <1>3. CASE Pump!DrainQueue
    <2>1. CASE turn.remaining = 0
      BY <1>3, <1>b, <2>1, DrainsOne
    <2>2. CASE turn.remaining # 0
      <3>1. PICK place \in {"no", "entered"} : notifying' = [notifying EXCEPT ![UI] = place]
        BY <1>3, <2>2, DrainsOne
      <3> QED BY <1>0, <1>3, <1>a, <3>1, DrainsOne
    <2> QED BY <2>1, <2>2
  <1>4. CASE Pump!CountQueue
    <2>1. CASE turn.queue < NumQueues
      BY <1>4, <1>b, <2>1, CountsOne
    <2>2. CASE ~(turn.queue < NumQueues)
      <3>1. PICK place \in {"no", "entered"} : notifying' = [notifying EXCEPT ![UI] = place]
        BY <1>4, <2>2, CountsOne
      <3> QED BY <1>0, <1>4, <1>a, <3>1, CountsOne
    <2> QED BY <2>1, <2>2
  <1>5. CASE Pump!TakeMessage \/ Pump!BeginTurn \/ Pump!EndHandling \/ Pump!ShowBox
             \/ Pump!CloseBox \/ Pump!BeginShutdown
    BY <1>5, <1>b DEF Pump!TakeMessage, Pump!BeginTurn, Pump!EndHandling, Pump!ShowBox,
                      Pump!CloseBox, Pump!BeginShutdown
  <1>6. ASSUME NEW q \in Pump!Queues, Pump!CloseQueue(q) PROVE notifying'[u] # "failed"
    BY <1>6, <1>b DEF Pump!CloseQueue
  <1>7. CASE UNCHANGED pump
    BY <1>7, <1>b DEF pump
  <1> QED BY <1>1, <1>2, <1>3, <1>4, <1>5, <1>6, <1>7 DEF Pump!Next, Pump!TurnStep

(* A push sets a queue's notificationPending_, a drain leaves it set for a  *)
(* rest.                                                                    *)
LEMMA StepPendingIsFilled ==
  Pump!PumpConstants /\ Pump!TypeOK /\ PendingIsFilled /\ [Pump!Next]_pump => PendingIsFilled'
PROOF
  <1> SUFFICES ASSUME Pump!PumpConstants, Pump!TypeOK, PendingIsFilled, [Pump!Next]_pump,
                      NEW r \in Pump!Queues
               PROVE  (notified[r] <=> queued[r] > 0)'
    BY DEF PendingIsFilled
  <1> DEFINE Right == notified[r] <=> queued[r] > 0
  <1>0. /\ queued \in [Pump!Queues -> Nat] /\ notified \in [Pump!Queues -> BOOLEAN] /\ Right
    BY DEF Pump!TypeOK, PendingIsFilled
  <1>a. ASSUME UNCHANGED <<queued, notified>> PROVE Right'
    BY <1>0, <1>a
  <1>1. ASSUME NEW t \in Pump!Threads, NEW q \in Pump!Queues, Pump!Push(t, q) PROVE Right'
    <2>1. CASE r = q
      <3>1. notified'[r] = TRUE /\ queued'[r] = queued[r] + 1
        BY <1>0, <1>1, <2>1 DEF Pump!Push
      <3> QED BY <1>0, <3>1
    <2>2. CASE r # q
      <3>1. notified'[r] = notified[r] /\ queued'[r] = queued[r]
        BY <1>0, <1>1, <2>2 DEF Pump!Push
      <3> QED BY <1>0, <3>1
    <2> QED BY <2>1, <2>2
  <1>2. ASSUME NEW t \in Pump!Threads, Pump!NotifyStep(t) PROVE Right'
    BY <1>2, <1>a DEF Pump!NotifyStep, Pump!NotifyRuntimeEvents, Pump!PostMessage, Pump!PostFails,
                      Pump!ClearAfterFailure
  <1>3. CASE Pump!DrainQueue
    <2> DEFINE q == turn.queue
    <2>1. CASE turn.remaining = 0
      BY <1>3, <1>a, <2>1, DrainsOne
    <2>2. CASE turn.remaining # 0
      <3>0. q \in Pump!Queues
        BY <1>3, DrainsOne
      <3>1. CASE r = q
        <4>1. notified'[r] = (queued[r] > Pump!Taken(r)) /\ queued'[r] = queued[r] - Pump!Taken(r)
          BY <1>0, <1>3, <2>2, <3>0, <3>1, DrainsOne
        <4>2. Pump!Taken(r) \in Nat /\ queued[r] \in Nat
          BY <1>0, <3>0, TakenBounds
        <4>3. queued[r] > Pump!Taken(r) <=> queued'[r] > 0
          BY <4>1, <4>2
        <4> QED BY <4>1, <4>3
      <3>2. CASE r # q
        <4>1. notified'[r] = notified[r] /\ queued'[r] = queued[r]
          BY <1>0, <1>3, <2>2, <3>0, <3>2, DrainsOne
        <4> QED BY <1>0, <4>1
      <3> QED BY <3>1, <3>2
    <2> QED BY <2>1, <2>2
  <1>4. CASE Pump!CountQueue
    BY <1>4, <1>a, CountsOne
  <1>5. CASE Pump!TakeMessage \/ Pump!BeginTurn \/ Pump!EndHandling \/ Pump!ShowBox
             \/ Pump!CloseBox \/ Pump!BeginShutdown
    BY <1>5, <1>a DEF Pump!TakeMessage, Pump!BeginTurn, Pump!EndHandling, Pump!ShowBox,
                      Pump!CloseBox, Pump!BeginShutdown
  <1>6. ASSUME NEW q \in Pump!Queues, Pump!CloseQueue(q) PROVE Right'
    <2>1. CASE r = q
      <3>1. notified'[r] = FALSE /\ queued'[r] = 0
        BY <1>0, <1>6, <2>1 DEF Pump!CloseQueue
      <3> QED BY <3>1
    <2>2. CASE r # q
      <3>1. notified'[r] = notified[r] /\ queued'[r] = queued[r]
        BY <1>0, <1>6, <2>2 DEF Pump!CloseQueue
      <3> QED BY <1>0, <3>1
    <2> QED BY <2>1, <2>2
  <1>7. CASE UNCHANGED pump
    BY <1>7, <1>a DEF pump
  <1> QED BY <1>1, <1>2, <1>3, <1>4, <1>5, <1>6, <1>7 DEF Pump!Next, Pump!TurnStep

-----------------------------------------------------------------------------
(* What is announced stays so while the announcing threads are left alone.  *)
LEMMA AnnouncedStays ==
  ASSUME notifying \in [Pump!Threads -> {"no", "entered", "posting", "failed"}],
         Announced, messages' = messages, NEW t \in Pump!Threads, notifying[t] = "no", NEW place,
         notifying' = [notifying EXCEPT ![t] = place]
  PROVE  Announced'
BY DEF Announced

(* A thread that leaves NotifyRuntimeEvents without posting leaves to the   *)
(* holder of the flag what it came for.                                     *)
LEMMA NotifyAnnounces ==
  ASSUME Pump!TypeOK, OneHolder, NoneFailed, ~stopThreads, failures' = 0,
         NEW t \in Pump!Threads, Pump!NotifyStep(t)
  PROVE  /\ UNCHANGED <<queued, turn>> /\ (Announced' \/ turn.at = "dispatching")
PROOF
  <1>0. /\ notifying \in [Pump!Threads -> {"no", "entered", "posting", "failed"}]
        /\ messages \in Nat /\ failures \in Nat
    BY DEF Pump!TypeOK
  <1>1. CASE Pump!NotifyRuntimeEvents(t)
    <2>0. failures = 0 /\ UNCHANGED <<queued, turn>>
      BY <1>1 DEF Pump!NotifyRuntimeEvents
    <2>1. CASE runtimePending
      <3>1. notifying' = [notifying EXCEPT ![t] = "no"] /\ notifying[t] = "entered"
            /\ messages' = messages
        BY <1>1, <2>1 DEF Pump!NotifyRuntimeEvents, Pump!MayPost
      <3>2. CASE turn.at = "dispatching"
        BY <2>0, <3>2
      <3>3. CASE messages = 1
        BY <2>0, <3>1, <3>3 DEF Announced
      <3>4. CASE \E u \in Pump!Threads : Pump!Posting = {u}
        <4>1. PICK u \in Pump!Threads : Pump!Posting = {u}
          BY <3>4
        <4>2. notifying[u] = "posting"
          BY <1>0, <2>0, <4>1 DEF Pump!Posting, NoneFailed
        <4>3. notifying'[u] = "posting"
          BY <1>0, <3>1, <4>2
        <4> QED BY <2>0, <4>3 DEF Announced
      <3> QED BY <2>1, <3>2, <3>3, <3>4 DEF OneHolder
    <2>2. CASE ~runtimePending
      <3>1. notifying'[t] = "posting"
        BY <1>0, <1>1, <2>2 DEF Pump!NotifyRuntimeEvents, Pump!MayPost
      <3> QED BY <2>0, <3>1 DEF Announced
    <2> QED BY <2>1, <2>2
  <1>2. CASE Pump!PostMessage(t)
    BY <1>0, <1>2 DEF Pump!PostMessage, Announced
  <1>3. CASE Pump!PostFails(t)
    BY <1>0, <1>3 DEF Pump!PostFails
  <1>4. CASE Pump!ClearAfterFailure(t)
    <2>1. failures = 0 /\ notifying[t] = "failed"
      BY <1>4 DEF Pump!ClearAfterFailure
    <2> QED BY <2>1 DEF NoneFailed
  <1> QED BY <1>1, <1>2, <1>3, <1>4 DEF Pump!NotifyStep

(* A push into a queue that held nothing announces it, and one into a queue *)
(* that held events leaves all announcements alone.                         *)
LEMMA PushAnnounces ==
  ASSUME Pump!TypeOK, PendingIsFilled, NEW t \in Pump!Threads, NEW q \in Pump!Queues,
         Pump!Push(t, q)
  PROVE  /\ UNCHANGED <<messages, turn>>
         /\ \/ Announced'
            \/ UNCHANGED notifying /\ \A r \in Pump!Queues : queued'[r] > 0 => queued[r] > 0
PROOF
  <1>0. /\ notifying \in [Pump!Threads -> {"no", "entered", "posting", "failed"}]
        /\ queued \in [Pump!Queues -> Nat]
    BY DEF Pump!TypeOK
  <1>1. CASE notified[q]
    <2>1. queued[q] > 0
      BY <1>1 DEF PendingIsFilled
    <2>2. UNCHANGED <<messages, turn, notifying>> /\ queued' = [queued EXCEPT ![q] = @ + 1]
      BY <1>1 DEF Pump!Push
    <2> QED BY <1>0, <2>1, <2>2
  <1>2. CASE ~notified[q]
    <2>1. notifying'[t] = "entered"
      BY <1>0, <1>2 DEF Pump!Push
    <2> QED BY <2>1 DEF Pump!Push, Announced
  <1> QED BY <1>1, <1>2

(* A queue filled behind the turn, or left by it, announces itself.         *)
LEMMA StepPassedAreAnnounced ==
  Pump!PumpConstants /\ PumpInv /\ [Pump!Next]_pump => PassedAreAnnounced'
PROOF
  <1> SUFFICES ASSUME Pump!PumpConstants, PumpInv, [Pump!Next]_pump, ~stopThreads', failures' = 0,
                      NEW r \in Pump!Queues, queued'[r] > 0, Passed(r)'
               PROVE  Announced'
    BY DEF PassedAreAnnounced
  <1>0. /\ notifying \in [Pump!Threads -> {"no", "entered", "posting", "failed"}]
        /\ queued \in [Pump!Queues -> Nat] /\ turn \in Pump!Turn /\ failures \in Nat
        /\ UI \in Pump!Threads
        /\ outer \in Seq(Pump!Turn)
        /\ Pump!TypeOK /\ OneHolder /\ HandlersWait /\ NoneFailed /\ PendingIsFilled
        /\ PassedAreAnnounced /\ Pump!NoForgottenQueue
    BY DEF PumpInv, Pump!TypeOK, Pump!Threads
  <1>a. ASSUME UNCHANGED <<queued, turn, messages, notifying, stopThreads, failures>>
        PROVE  Announced'
    BY <1>0, <1>a DEF PassedAreAnnounced, Passed, Announced
  <1>1. ASSUME NEW t \in Pump!Threads, NEW q \in Pump!Queues, Pump!Push(t, q) PROVE Announced'
    <2>1. CASE UNCHANGED notifying /\ \A s \in Pump!Queues : queued'[s] > 0 => queued[s] > 0
      <3>1. UNCHANGED <<messages, turn, stopThreads, failures>> /\ queued[r] > 0
        BY <1>1, <2>1 DEF Pump!Push
      <3>2. Passed(r)
        BY <3>1 DEF Passed
      <3>3. Announced
        BY <1>0, <3>1, <3>2 DEF PassedAreAnnounced
      <3> QED BY <2>1, <3>1, <3>3 DEF Announced
    <2> QED BY <1>0, <1>1, <2>1, PushAnnounces
  <1>2. ASSUME NEW t \in Pump!Threads, Pump!NotifyStep(t) PROVE Announced'
    <2>1. ~stopThreads
      BY <1>2 DEF Pump!NotifyStep, Pump!NotifyRuntimeEvents, Pump!PostMessage, Pump!PostFails,
                  Pump!ClearAfterFailure
    <2>2. UNCHANGED turn /\ (Announced' \/ turn.at = "dispatching")
      BY <1>0, <1>2, <2>1, NotifyAnnounces
    <2> QED BY <2>2 DEF Passed
  <1>3. CASE Pump!TakeMessage \/ Pump!EndHandling
    <2>1. turn'.at \in {"dispatching", "counting"}
      BY <1>0, <1>3 DEF Pump!TakeMessage, Pump!EndHandling, Pump!Turn
    <2> QED BY <2>1 DEF Passed
  <1>4. CASE Pump!BeginTurn
    <2>1. turn'.at = "draining" /\ turn'.queue = 1
      BY <1>4 DEF Pump!BeginTurn
    <2> QED BY <2>1 DEF Passed, Pump!Queues
  <1>5. CASE Pump!DrainQueue
    <2> DEFINE q == turn.queue
    <2>1. turn.remaining # 0
      BY <1>5, DrainsOne, <1>0 DEF Passed
    <2>2. /\ q \in Pump!Queues /\ turn.at = "draining" /\ turn.remaining > 0 /\ notifying[UI] = "no"
          /\ UNCHANGED <<messages, stopThreads, failures>>
      BY <1>0, <1>5, <2>1, DrainsOne
    <2>3. PICK place : notifying' = [notifying EXCEPT ![UI] = place]
      BY <1>0, <1>5, <2>1, DrainsOne
    <2>4. CASE r = q
      <3>1. queued'[r] = queued[r] - Pump!Taken(r)
        BY <1>0, <1>5, <2>1, <2>2, <2>4, DrainsOne
      <3>2. queued[r] > Pump!Taken(r)
        BY <1>0, <3>1, TakenBounds
      <3>3. notifying'[UI] = "entered"
        BY <1>0, <1>5, <2>1, <2>4, <3>2, DrainsOne
      <3> QED BY <1>0, <3>3 DEF Announced
    <2>5. CASE r # q
      <3>1. queued[r] > 0
        BY <1>0, <1>5, <2>1, <2>2, <2>5, DrainsOne
      <3>2. r < q
        <4>1. CASE q < NumQueues
          <5>1. turn'.at = "draining" /\ turn'.queue = q + 1
            BY <1>0, <1>5, <4>1, DrainsOne
          <5> QED BY <2>2, <2>5, <5>1 DEF Passed, Pump!Queues
        <4>2. CASE ~(q < NumQueues)
          BY <2>2, <2>5, <4>2 DEF Pump!Queues, Pump!PumpConstants
        <4> QED BY <4>1, <4>2
      <3>3. Announced
        BY <1>0, <2>2, <3>1, <3>2 DEF PassedAreAnnounced, Passed
      <3> QED BY <1>0, <2>2, <2>3, <3>3, AnnouncedStays
    <2> QED BY <2>4, <2>5
  <1>6. CASE Pump!CountQueue
    <2>1. turn'.at \in {"counting", "waiting"}
      BY <1>0, <1>6, CountsOne DEF Pump!Waiting
    <2> QED BY <2>1 DEF Passed
  <1>7. CASE Pump!ShowBox
    BY <1>7 DEF Pump!ShowBox, Pump!Waiting, Passed
  <1>8. CASE Pump!CloseBox
    <2>1. queued[r] > 0 /\ ~stopThreads /\ failures = 0 /\ turn.at = "waiting"
      BY <1>8 DEF Pump!CloseBox
    <2>2. Announced
      BY <1>0, <2>1 DEF Pump!NoForgottenQueue, Pump!WillBeSeen, Announced
    <2> QED BY <1>8, <2>2 DEF Pump!CloseBox, Announced
  <1>9. CASE Pump!BeginShutdown
    BY <1>9 DEF Pump!BeginShutdown
  <1>10. ASSUME NEW q \in Pump!Queues, Pump!CloseQueue(q) PROVE Announced'
    BY <1>10 DEF Pump!CloseQueue
  <1>11. CASE UNCHANGED pump
    BY <1>11, <1>a DEF pump
  <1> QED BY <1>1, <1>2, <1>3, <1>4, <1>5, <1>6, <1>7, <1>8, <1>9, <1>10, <1>11
          DEF Pump!Next, Pump!TurnStep

(* What announces a queue is handed on from step to step: from the thread   *)
(* to the message, from the message to the turn, from the turn to the UI    *)
(* thread's own notification.                                               *)
LEMMA StepNoForgottenQueue ==
  Pump!PumpConstants /\ PumpInv /\ [Pump!Next]_pump => Pump!NoForgottenQueue'
PROOF
  <1> SUFFICES ASSUME Pump!PumpConstants, PumpInv, [Pump!Next]_pump, ~stopThreads', failures' = 0,
                      NEW r \in Pump!Queues, queued'[r] > 0
               PROVE  Pump!WillBeSeen(r)'
    BY DEF Pump!NoForgottenQueue
  <1>0. /\ notifying \in [Pump!Threads -> {"no", "entered", "posting", "failed"}]
        /\ queued \in [Pump!Queues -> Nat] /\ turn \in Pump!Turn /\ failures \in Nat
        /\ UI \in Pump!Threads
        /\ Pump!TypeOK /\ OneHolder /\ HandlersWait /\ NoneFailed /\ PendingIsFilled
        /\ PassedAreAnnounced /\ Pump!NoForgottenQueue
    BY DEF PumpInv, Pump!TypeOK, Pump!Threads
  <1>a. Announced' => Pump!WillBeSeen(r)'
    BY DEF Announced, Pump!WillBeSeen
  <1>b. turn'.at \in {"dispatching", "draining", "handling"} => Pump!WillBeSeen(r)'
    BY DEF Pump!WillBeSeen
  <1>1. ASSUME NEW t \in Pump!Threads, NEW q \in Pump!Queues, Pump!Push(t, q)
        PROVE Pump!WillBeSeen(r)'
    <2>1. CASE UNCHANGED notifying /\ \A s \in Pump!Queues : queued'[s] > 0 => queued[s] > 0
      <3>1. UNCHANGED <<messages, turn, stopThreads, failures>> /\ queued[r] > 0
        BY <1>1, <2>1 DEF Pump!Push
      <3>2. Pump!WillBeSeen(r)
        BY <1>0, <3>1 DEF Pump!NoForgottenQueue
      <3> QED BY <2>1, <3>1, <3>2 DEF Pump!WillBeSeen
    <2> QED BY <1>0, <1>1, <1>a, <2>1, PushAnnounces
  <1>2. ASSUME NEW t \in Pump!Threads, Pump!NotifyStep(t) PROVE Pump!WillBeSeen(r)'
    <2>1. ~stopThreads
      BY <1>2 DEF Pump!NotifyStep, Pump!NotifyRuntimeEvents, Pump!PostMessage, Pump!PostFails,
                  Pump!ClearAfterFailure
    <2>2. UNCHANGED turn /\ (Announced' \/ turn.at = "dispatching")
      BY <1>0, <1>2, <2>1, NotifyAnnounces
    <2> QED BY <1>a, <1>b, <2>2
  <1>3. CASE Pump!TakeMessage
    <2>1. turn'.at = "dispatching"
      BY <1>0, <1>3 DEF Pump!TakeMessage, Pump!Turn
    <2> QED BY <1>b, <2>1
  <1>4. CASE Pump!BeginTurn
    BY <1>4, <1>b DEF Pump!BeginTurn
  <1>5. CASE Pump!DrainQueue
    <2>1. \/ turn'.at \in {"draining", "handling"}
          \/ turn'.at = "counting" /\ turn'.queue = 1
      BY <1>0, <1>5, DrainsOne
    <2> QED BY <2>1 DEF Pump!WillBeSeen, Pump!Queues
  <1>6. CASE Pump!EndHandling
    <2>1. turn'.at = "counting" /\ turn'.queue = 1
      BY <1>0, <1>6 DEF Pump!EndHandling, HandlersWait, Pump!Turn
    <2> QED BY <2>1 DEF Pump!WillBeSeen, Pump!Queues
  <1>7. CASE Pump!CountQueue
    <2>1. /\ turn.at = "counting" /\ notifying[UI] = "no"
          /\ UNCHANGED <<queued, messages, stopThreads, failures>>
      BY <1>0, <1>7, CountsOne
    <2>2. Pump!WillBeSeen(r)
      BY <1>0, <2>1 DEF Pump!NoForgottenQueue
    <2>3. CASE Announced
      <3>1. CASE turn.queue < NumQueues
        <4>1. UNCHANGED notifying
          BY <1>0, <1>7, <3>1, CountsOne
        <4> QED BY <1>a, <2>1, <2>3, <4>1 DEF Announced
      <3>2. CASE ~(turn.queue < NumQueues)
        <4>1. PICK place : notifying' = [notifying EXCEPT ![UI] = place]
          BY <1>0, <1>7, <3>2, CountsOne
        <4> QED BY <1>0, <1>a, <2>1, <2>3, <4>1, AnnouncedStays
      <3> QED BY <3>1, <3>2
    <2>4. CASE ~Announced
      <3>1. turn.queue <= r \/ turn.left
        BY <2>1, <2>2, <2>4 DEF Pump!WillBeSeen, Announced
      <3>2. r = turn.queue => Pump!LeftOver
        BY <2>1 DEF Pump!LeftOver
      <3>3. turn.left => Pump!LeftOver
        BY DEF Pump!LeftOver
      <3>4. CASE turn.queue < NumQueues
        <4>1. turn'.at = "counting" /\ turn'.queue = turn.queue + 1 /\ turn'.left = Pump!LeftOver
          BY <1>0, <1>7, <3>4, CountsOne
        <4>2. turn'.queue <= r \/ turn'.left
          BY <1>0, <3>1, <3>2, <3>3, <4>1 DEF Pump!Turn, Pump!Queues
        <4> QED BY <4>1, <4>2 DEF Pump!WillBeSeen
      <3>5. CASE ~(turn.queue < NumQueues)
        <4>1. notifying' = [notifying EXCEPT ![UI] = IF Pump!LeftOver THEN "entered" ELSE "no"]
          BY <1>0, <1>7, <3>5, CountsOne
        <4>2. Pump!LeftOver
          BY <1>0, <3>1, <3>2, <3>3, <3>5 DEF Pump!Turn, Pump!Queues, Pump!PumpConstants
        <4>3. notifying'[UI] = "entered"
          BY <1>0, <4>1, <4>2
        <4> QED BY <1>0, <4>3 DEF Pump!WillBeSeen
      <3> QED BY <3>4, <3>5
    <2> QED BY <2>3, <2>4
  <1>8. CASE Pump!ShowBox
    <2>1. queued[r] > 0 /\ ~stopThreads /\ failures = 0 /\ turn.at = "handling"
      BY <1>8 DEF Pump!ShowBox
    <2>2. Announced
      BY <1>0, <2>1 DEF PassedAreAnnounced, Passed
    <2> QED BY <1>8, <1>a, <2>2 DEF Pump!ShowBox, Announced
  <1>9. CASE Pump!CloseBox
    <2>1. turn'.at = "handling"
      BY <1>0, <1>9 DEF Pump!CloseBox, HandlersWait, Handling, Pump!TypeOK
    <2> QED BY <1>b, <2>1
  <1>10. CASE Pump!BeginShutdown
    BY <1>10 DEF Pump!BeginShutdown
  <1>11. ASSUME NEW q \in Pump!Queues, Pump!CloseQueue(q) PROVE Pump!WillBeSeen(r)'
    BY <1>11 DEF Pump!CloseQueue
  <1>12. CASE UNCHANGED pump
    <2>1. Pump!WillBeSeen(r)
      BY <1>0, <1>12 DEF pump, Pump!NoForgottenQueue
    <2> QED BY <1>12, <2>1 DEF pump, Pump!WillBeSeen
  <1> QED BY <1>1, <1>2, <1>3, <1>4, <1>5, <1>6, <1>7, <1>8, <1>9, <1>10, <1>11, <1>12
          DEF Pump!Next, Pump!TurnStep
-----------------------------------------------------------------------------
(* Queues that were closed satisfy the invariant as well: the instances in  *)
(* which another part of the program is looked at start with them.          *)
LEMMA PumpClosedInv == Pump!PumpConstants /\ PumpClosed => PumpInv
PROOF
  <1> SUFFICES ASSUME Pump!PumpConstants, PumpClosed PROVE PumpInv
    OBVIOUS
  <1>0. turn = Pump!Waiting /\ turn \in Pump!Turn /\ outer \in Seq(Pump!Turn)
    BY WaitingIsATurn DEF PumpClosed, Pump!Waiting
  <1>1. Pump!TypeOK
    <2>1. queued \in [Pump!Queues -> Nat] /\ messages \in Nat
      BY DEF PumpClosed, Pump!Queues
    <2>2. /\ notified \in [Pump!Queues -> BOOLEAN] /\ queueClosed \in [Pump!Queues -> BOOLEAN]
          /\ runtimePending \in BOOLEAN /\ stopThreads \in BOOLEAN
      BY DEF PumpClosed, Pump!Queues
    <2>3. notifying \in [Pump!Threads -> {"no", "entered", "posting", "failed"}]
      BY DEF PumpClosed, Pump!Threads
    <2>4. boxes \in 0 .. MaxBoxes /\ accepted \in Nat /\ failures \in 0 .. MaxFailures
      BY DEF PumpClosed, Pump!PumpConstants
    <2> QED BY <1>0, <2>1, <2>2, <2>3, <2>4 DEF Pump!TypeOK
  <1>2. OneHolder
    BY DEF PumpClosed, OneHolder, NobodyElse, Pump!Posting, Pump!Threads
  <1>3. HandlersWait
    BY DEF PumpClosed, HandlersWait
  <1>4. NoneFailed
    BY DEF PumpClosed, NoneFailed, Pump!Threads
  <1>5. PendingIsFilled
    BY DEF PumpClosed, PendingIsFilled, Pump!Queues
  <1>6. PassedAreAnnounced /\ Pump!NoForgottenQueue
    BY DEF PumpClosed, PassedAreAnnounced, Pump!NoForgottenQueue
  <1> QED BY <1>1, <1>2, <1>3, <1>4, <1>5, <1>6 DEF PumpInv

(* A step of the program is one of a queue, of the message pump, of the     *)
(* capture service or of the plugins, and leaves the other parts alone.     *)
LEMMA OneStepAtATime ==
  ASSUME [EventsNext]_<<vars, pump, capture, processes>>
  PROVE  [Next]_vars /\ [Pump!Next]_pump /\ [Capture!Next]_capture
BY DEF EventsNext

(* Both inductive invariants hold in every behaviour.                       *)
THEOREM Invariance == EventsSpec => [](QueueInv /\ PumpInv)
PROOF
  <1>1. EventsInit => QueueInv /\ PumpInv
    BY PumpAssumption, QueueInit, PumpInit, PumpClosedInv DEF EventsInit
  <1>2. QueueInv /\ PumpInv /\ [EventsNext]_<<vars, pump, capture, processes>>
          => (QueueInv /\ PumpInv)'
    <2> SUFFICES ASSUME QueueInv, PumpInv, [EventsNext]_<<vars, pump, capture, processes>>
                 PROVE  QueueInv' /\ PumpInv'
      OBVIOUS
    <2>1. [Next]_vars /\ [Pump!Next]_pump
      BY OneStepAtATime
    <2>2. QueueInv'
      BY <2>1, QueueStep
    <2>3. PumpInv'
      BY <2>1, PumpAssumption, StepTypeOK, StepOneHolder, StepHandlersWait, StepNoneFailed,
         StepPendingIsFilled, StepPassedAreAnnounced, StepNoForgottenQueue DEF PumpInv
    <2> QED BY <2>2, <2>3
  <1> QED BY <1>1, <1>2, PTL DEF EventsSpec

(* UiEventQueue: a pending notification always means a wake-up delivered or *)
(* owed, and queued events with a notifier installed always have one        *)
(* pending.                                                                 *)
THEOREM NothingStranded == EventsSpec => []NoStrandedEvents
PROOF
  <1>1. QueueInv => NoStrandedEvents
    BY DEF QueueInv
  <1> QED BY <1>1, Invariance, PTL

(* UiEventQueue::Close is final whatever was in flight when it ran.         *)
THEOREM CloseIsFinal == EventsSpec => []ClosedIsEmpty
PROOF
  <1>1. QueueInv => ClosedIsEmpty
    BY DEF QueueInv
  <1> QED BY <1>1, Invariance, PTL

(* The flag that lets one thread through to PostMessageW counts what is     *)
(* outstanding.                                                             *)
LEMMA HolderIsCounted == PumpInv => Pump!OneMessageOutstanding
PROOF
  <1> SUFFICES ASSUME PumpInv PROVE Pump!OneMessageOutstanding
    OBVIOUS
  <1>0. OneHolder /\ messages \in Nat
    BY DEF PumpInv, Pump!TypeOK
  <1>1. Cardinality({}) = 0 /\ \A t : Cardinality({t}) = 1
    BY FS_EmptySet, FS_Singleton
  <1> DEFINE posting == Cardinality(Pump!Posting)
             taken == IF turn.at = "dispatching" THEN 1 ELSE 0
  <1>2. messages + posting + taken = IF runtimePending THEN 1 ELSE 0
    <2>1. CASE NobodyElse
      BY <1>0, <1>1, <2>1 DEF OneHolder, NobodyElse
    <2>2. CASE messages = 1 /\ Pump!Posting = {}
      BY <1>0, <1>1, <2>2 DEF OneHolder, NobodyElse
    <2>3. CASE messages = 0 /\ \E t \in Pump!Threads : Pump!Posting = {t}
      <3>1. posting = 1
        BY <1>1, <2>3
      <3>2. runtimePending /\ taken = 0
        BY <1>0, <2>3 DEF OneHolder, NobodyElse
      <3> QED BY <2>3, <3>1, <3>2
    <2> QED BY <1>0, <2>1, <2>2, <2>3 DEF OneHolder
  <1>3. Pump!Cardinality(Pump!Posting) = posting
    BY DEF Pump!Cardinality, Cardinality
  <1> QED BY <1>2, <1>3 DEF Pump!OneMessageOutstanding

(* NotifyRuntimeEvents and OnRuntimeEvents: at most one WM_APP_EVENTS is    *)
(* outstanding, exactly while runtimeEventNotificationPending_ is set, and  *)
(* every queue that holds events will still be looked at; also in front of  *)
(* a message box, as long as PostMessageW succeeds.                         *)
THEOREM OneMessageWakesAll == EventsSpec => []OneMessageSuffices
PROOF
  <1>1. PumpInv => OneMessageSuffices
    BY HolderIsCounted DEF PumpInv, OneMessageSuffices
  <1> QED BY <1>1, Invariance, PTL

-----------------------------------------------------------------------------
(* CaptureService: an operation that was stopped does not come back to      *)
(* life: whatever its worker or the UI thread was about to do, Stopping is  *)
(* followed by Idle.                                                        *)
THEOREM StoppedStaysStopped == EventsSpec => StopIsFinal
PROOF
  <1> DEFINE Final == state = "Stopping" => state' \in {"Stopping", "Idle"}
  <1>1. ASSUME Capture!Next PROVE Final
    <2> SUFFICES ASSUME state = "Stopping" PROVE state' \in {"Stopping", "Idle"}
      OBVIOUS
    <2>1. CASE Capture!Ui
      <3>1. CASE Capture!BeginScreenshotCapture \/ Capture!FinalizeScreenshot
                 \/ Capture!BeginRecording \/ Capture!CompleteCaptureSelection
                 \/ Capture!CheckState \/ Capture!HearEvents
        BY <3>1 DEF Capture!BeginScreenshotCapture, Capture!FinalizeScreenshot,
             Capture!BeginRecording, Capture!CompleteCaptureSelection, Capture!CheckState,
             Capture!HearEvents, Capture!serviceVars
      <3>2. CASE Capture!BeginOperation
        BY <3>2 DEF Capture!BeginOperation, Capture!Expected, Capture!serviceVars
      <3>3. CASE Capture!Pause \/ Capture!Resume
        BY <3>3 DEF Capture!Pause, Capture!CanPause, Capture!Resume
      <3>4. CASE Capture!CancelScreenshotEditor
        BY <3>4 DEF Capture!CancelScreenshotEditor
      <3>5. CASE Capture!StopRecording \/ Capture!Shutdown
        BY <3>5 DEF Capture!StopRecording, Capture!Shutdown, Capture!Stop
      <3>6. CASE Capture!EndShutdown
        BY <3>6 DEF Capture!EndShutdown
      <3> QED BY <2>1, <3>1, <3>2, <3>3, <3>4, <3>5, <3>6 DEF Capture!Ui
    <2>2. CASE Capture!Worker
      <3>1. CASE Capture!CopyDesktop \/ Capture!RenderOutput \/ Capture!SetUpRecording
                 \/ Capture!FinalizeRecording \/ Capture!Leave
        BY <3>1 DEF Capture!CopyDesktop, Capture!RenderOutput, Capture!SetUpRecording,
             Capture!FinalizeRecording, Capture!Leave, Capture!WorkerOnly, Capture!serviceVars
      <3>2. CASE Capture!AnnounceStart \/ Capture!HandOver \/ Capture!ReturnToEditor
                 \/ Capture!StartFrames
        BY <3>2 DEF Capture!AnnounceStart, Capture!HandOver, Capture!ReturnToEditor,
             Capture!StartFrames, Capture!Unchanged, Capture!NoTransition, Capture!serviceVars
      <3>3. CASE Capture!WriteFrames \/ Capture!End
        BY <3>3 DEF Capture!WriteFrames, Capture!End
      <3> QED BY <2>2, <3>1, <3>2, <3>3 DEF Capture!Worker
    <2>3. CASE Capture!Announce
      BY <2>3 DEF Capture!Announce, Capture!serviceVars
    <2> QED BY <1>1, <2>1, <2>2, <2>3 DEF Capture!Next
  <1>2. [EventsNext]_<<vars, pump, capture, processes>> => [Final]_(Capture!vars)
    <2> SUFFICES ASSUME [EventsNext]_<<vars, pump, capture, processes>>
                 PROVE  Final \/ UNCHANGED Capture!vars
      OBVIOUS
    <2>1. [Capture!Next]_capture
      BY OneStepAtATime
    <2> QED BY <1>1, <2>1 DEF capture, Capture!vars, Capture!serviceVars, Capture!uiVars
  <1> QED BY <1>2, PTL DEF EventsSpec, StopIsFinal, Capture!StopIsFinal

-----------------------------------------------------------------------------
(* What the UI shows once it has heard the events that wait for it is a     *)
(* recursion over the queue.  To reason about every queue the proofs need   *)
(* induction, here as the least element of a set of numbers, which the      *)
(* well-founded order of the naturals provides.                             *)
Below == {p \in Nat \X Nat : p[1] < p[2]}

(* Being a pair of Below is being less.                                     *)
LEMMA BelowIsLess == ASSUME NEW x \in Nat, NEW y \in Nat PROVE <<x, y>> \in Below <=> x < y
PROOF
  <1>1. <<x, y>> \in Nat \X Nat /\ <<x, y>>[1] = x /\ <<x, y>>[2] = y
    OBVIOUS
  <1> QED BY <1>1, Zenon DEF Below

(* Nothing descends for ever in the naturals.                               *)
LEMMA BelowIsWellFounded == IsWellFoundedOn(Below, Nat)
PROOF
  <1>1. SUFFICES ASSUME NEW f \in [Nat -> Nat], \A n \in Nat : <<f[n + 1], f[n]>> \in Below
                 PROVE  FALSE
    BY Zenon DEF IsWellFoundedOn
  <1>2. ASSUME NEW n \in Nat PROVE <<f[n + 1], f[n]>> \in OpToRel(<, Nat)
    <2>1. f[n + 1] \in Nat /\ f[n] \in Nat
      OBVIOUS
    <2>2. f[n + 1] < f[n]
      BY <1>1, <2>1, BelowIsLess, Zenon
    <2>3. /\ <<f[n + 1], f[n]>> \in Nat \X Nat
          /\ <<f[n + 1], f[n]>>[1] = f[n + 1] /\ <<f[n + 1], f[n]>>[2] = f[n]
      BY <2>1
    <2> QED BY <2>2, <2>3, Zenon DEF OpToRel
  <1> QED BY <1>2, NatLessThanWellFounded, Zenon DEF IsWellFoundedOn

(* A set of naturals that is not empty has a least element.                 *)
LEMMA LeastExists ==
  ASSUME NEW S, S \subseteq Nat, S # {} PROVE \E x \in S : \A y \in S : x <= y
PROOF
  <1>1. PICK x \in S : \A y \in S : ~(<<y, x>> \in Below)
    BY BelowIsWellFounded, WFMin, Zenon
  <1>2. ASSUME NEW y \in S PROVE x <= y
    <2>1. x \in Nat /\ y \in Nat
      OBVIOUS
    <2>2. ~(y < x)
      BY <1>1, <2>1, BelowIsLess, Zenon
    <2> QED BY <2>1, <2>2
  <1> QED BY <1>2

(* The surface after each of the first n events.                            *)
Surfaces == [editor : {"Idle", "Preparing", "Editing", "Saving"},
             phase : {"Idle", "SelectingRecording", "StartingRecording", "Recording", "Paused",
                      "Stopping"}]
PathTo(path, surface, seq, n) ==
  /\ path \in [0 .. n -> Surfaces] /\ path[0] = surface
  /\ \A i \in 1 .. n : path[i] = Capture!ReceivedBy(path[i - 1], seq[i])

(* An event makes a surface of a surface.                                   *)
LEMMA ReceivingIsTyped ==
  ASSUME NEW s \in Surfaces, NEW e \in Capture!Events PROVE Capture!ReceivedBy(s, e) \in Surfaces
PROOF
  BY DEF Surfaces, Capture!Events, Capture!ReceivedBy, Capture!HandleScreenshotEvent,
     Capture!HandleRecordingEvent

(* Every surface has its way through every queue.                           *)
LEMMA PathExists ==
  ASSUME NEW s \in Surfaces, NEW q \in Seq(Capture!Events) PROVE \E f : PathTo(f, s, q, Len(q))
PROOF
  <1> DEFINE Stuck == {n \in Nat : n <= Len(q) /\ ~ \E f : PathTo(f, s, q, n)}
  <1> SUFFICES ASSUME Stuck # {} PROVE FALSE
    OBVIOUS
  <1>1. PICK n \in Stuck : \A m \in Stuck : n <= m
    BY LeastExists
  <1>2. PathTo([i \in {0} |-> s], s, q, 0)
    BY DEF PathTo
  <1>3. n # 0
    BY <1>2
  <1>4. n - 1 \in Nat /\ n - 1 <= Len(q) /\ n - 1 \notin Stuck
    BY <1>1, <1>3
  <1>5. PICK f : PathTo(f, s, q, n - 1)
    BY <1>4
  <1> DEFINE g == [i \in 0 .. n |-> IF i = n THEN Capture!ReceivedBy(f[n - 1], q[n]) ELSE f[i]]
  <1>6. q[n] \in Capture!Events /\ f[n - 1] \in Surfaces
    BY <1>3, <1>5 DEF PathTo
  <1>7. Capture!ReceivedBy(f[n - 1], q[n]) \in Surfaces
    BY <1>6, ReceivingIsTyped
  <1>8. PathTo(g, s, q, n)
    BY <1>3, <1>5, <1>7 DEF PathTo
  <1> QED BY <1>8

(* After is the end of that way.                                            *)
LEMMA AfterIsThePathsEnd ==
  ASSUME NEW s \in Surfaces, NEW q \in Seq(Capture!Events), NEW f, PathTo(f, s, q, Len(q))
  PROVE  Capture!After(s, q) = f[Len(q)]
PROOF
  <1> DEFINE Follows(g) == g = [i \in 0 .. Len(q) |-> IF i = 0 THEN s
                                  ELSE Capture!ReceivedBy(g[i - 1], q[i])]
             after == CHOOSE g : Follows(g)
  <1>1. Capture!After(s, q) = after[Len(q)]
    BY DEF Capture!After
  <1>2. Follows(f)
    <2>1. f = [i \in 0 .. Len(q) |-> f[i]]
      BY Zenon DEF PathTo
    <2>2. ASSUME NEW i \in 0 .. Len(q)
          PROVE  f[i] = IF i = 0 THEN s ELSE Capture!ReceivedBy(f[i - 1], q[i])
      BY DEF PathTo
    <2> QED BY <2>1, <2>2, Zenon
  <1>3. Follows(after)
    BY <1>2, Zenon
  <1> DEFINE Off == {i \in 0 .. Len(q) : after[i] # f[i]}
  <1>4. ASSUME Off # {} PROVE FALSE
    <2> HIDE DEF after
    <2>a. \A i \in 0 .. Len(q) : after[i] = IF i = 0 THEN s
                                            ELSE Capture!ReceivedBy(after[i - 1], q[i])
      BY <1>3, Zenon
    <2>0. /\ after[0] = s
          /\ \A i \in 1 .. Len(q) : after[i] = Capture!ReceivedBy(after[i - 1], q[i])
      BY <2>a
    <2>b. Off \subseteq Nat
      OBVIOUS
    <2>1. PICK i \in Off : \A j \in Off : i <= j
      BY <1>4, <2>b, LeastExists, Zenon
    <2>2. i \in 0 .. Len(q) /\ after[i] # f[i]
      OBVIOUS
    <2>3. i # 0
      BY <2>0, <2>2 DEF PathTo
    <2>4. i - 1 \in 0 .. Len(q) /\ i - 1 \notin Off
      BY <2>1, <2>2, <2>3
    <2>5. after[i - 1] = f[i - 1]
      BY <2>4
    <2>6. after[i] = Capture!ReceivedBy(after[i - 1], q[i])
      BY <2>0, <2>2, <2>3
    <2> QED BY <2>2, <2>3, <2>5, <2>6 DEF PathTo
  <1>5. Len(q) \in 0 .. Len(q)
    OBVIOUS
  <1> HIDE DEF after
  <1> QED BY <1>1, <1>4, <1>5

(* A set that the events from j + 1 on do not leave is not left.            *)
LEMMA PathStaysIn ==
  ASSUME NEW s \in Surfaces, NEW q \in Seq(Capture!Events), NEW f, PathTo(f, s, q, Len(q)),
         NEW S, NEW j \in 0 .. Len(q), f[j] \in S,
         \A i \in 1 .. Len(q) : i > j =>
           \A x \in Surfaces : x \in S => Capture!ReceivedBy(x, q[i]) \in S
  PROVE  \A k \in 0 .. Len(q) : k >= j => f[k] \in S
PROOF
  <1> DEFINE Out == {k \in 0 .. Len(q) : k >= j /\ f[k] \notin S}
  <1> SUFFICES ASSUME Out # {} PROVE FALSE
    OBVIOUS
  <1>0. Out \subseteq Nat
    OBVIOUS
  <1>1. PICK k \in Out : \A m \in Out : k <= m
    BY <1>0, LeastExists, Zenon
  <1>2. k \in 0 .. Len(q) /\ k > j /\ f[k] \notin S
    BY <1>1
  <1>3. k - 1 \in 0 .. Len(q) /\ k - 1 \notin Out
    BY <1>1, <1>2
  <1>4. f[k - 1] \in S /\ f[k - 1] \in Surfaces
    BY <1>2, <1>3 DEF PathTo
  <1>5. k \in 1 .. Len(q) /\ f[k] = Capture!ReceivedBy(f[k - 1], q[k])
    BY <1>2 DEF PathTo
  <1> QED BY <1>2, <1>4, <1>5

(* A surface is heard to be a surface.                                      *)
LEMMA AfterIsTyped ==
  ASSUME NEW s \in Surfaces, NEW q \in Seq(Capture!Events) PROVE Capture!After(s, q) \in Surfaces
PROOF
  <1>1. PICK f : PathTo(f, s, q, Len(q))
    BY PathExists
  <1>2. f[Len(q)] \in Surfaces
    BY <1>1 DEF PathTo
  <1> QED BY <1>1, <1>2, AfterIsThePathsEnd

(* Nothing is heard of an empty queue.                                      *)
LEMMA AfterNothing == ASSUME NEW s \in Surfaces PROVE Capture!After(s, <<>>) = s
PROOF
  <1> DEFINE q == <<>>
  <1>1. q \in Seq(Capture!Events) /\ Len(q) = 0
    OBVIOUS
  <1> HIDE DEF q
  <1>2. PICK f : PathTo(f, s, q, Len(q))
    BY <1>1, PathExists
  <1>3. Capture!After(s, q) = s
    BY <1>1, <1>2, AfterIsThePathsEnd DEF PathTo
  <1> QED BY <1>3 DEF q

(* An event that joins the queue is received last.                          *)
LEMMA AfterOneMore ==
  ASSUME NEW s \in Surfaces, NEW q \in Seq(Capture!Events), NEW e \in Capture!Events
  PROVE  Capture!After(s, Append(q, e)) = Capture!ReceivedBy(Capture!After(s, q), e)
PROOF
  <1> DEFINE r == Append(q, e)
  <1>1. /\ r \in Seq(Capture!Events) /\ Len(r) = Len(q) + 1 /\ r[Len(r)] = e
        /\ \A i \in 1 .. Len(q) : r[i] = q[i]
    OBVIOUS
  <1>2. PICK f : PathTo(f, s, r, Len(r))
    BY <1>1, PathExists
  <1> DEFINE g == [i \in 0 .. Len(q) |-> f[i]]
  <1>3. PathTo(g, s, q, Len(q))
    BY <1>1, <1>2 DEF PathTo
  <1>4. /\ g[Len(q)] = f[Len(q)]
        /\ f[Len(r)] = Capture!ReceivedBy(f[Len(q)], e)
    BY <1>1, <1>2 DEF PathTo
  <1>5. Capture!After(s, r) = f[Len(r)] /\ Capture!After(s, q) = g[Len(q)]
    BY <1>1, <1>2, <1>3, AfterIsThePathsEnd
  <1> QED BY <1>4, <1>5

(* What is heard now and what is heard later is what is heard.              *)
LEMMA AfterTheRest ==
  ASSUME NEW s \in Surfaces, NEW q \in Seq(Capture!Events), NEW k \in 0 .. Len(q)
  PROVE  Capture!After(Capture!After(s, SubSeq(q, 1, k)), SubSeq(q, k + 1, Len(q)))
           = Capture!After(s, q)
PROOF
  <1> DEFINE now == SubSeq(q, 1, k)
             later == SubSeq(q, k + 1, Len(q))
  <1>1. /\ now \in Seq(Capture!Events) /\ Len(now) = k /\ \A i \in 1 .. k : now[i] = q[i]
        /\ later \in Seq(Capture!Events) /\ Len(later) = Len(q) - k
        /\ \A i \in 1 .. Len(q) - k : later[i] = q[i + k]
    OBVIOUS
  <1>2. PICK f : PathTo(f, s, q, Len(q))
    BY PathExists
  <1> DEFINE g == [i \in 0 .. k |-> f[i]]
             h == [i \in 0 .. Len(q) - k |-> f[i + k]]
  <1> HIDE DEF now, later
  <1>3. PathTo(g, s, now, Len(now)) /\ f[k] \in Surfaces
    <2>1. \A i \in 1 .. k : i \in 1 .. Len(q) /\ i \in 0 .. k /\ i - 1 \in 0 .. k
      OBVIOUS
    <2>2. \A i \in 1 .. k : g[i] = Capture!ReceivedBy(g[i - 1], now[i])
      BY <1>1, <1>2, <2>1 DEF PathTo
    <2>3. g \in [0 .. k -> Surfaces] /\ g[0] = s /\ f[k] \in Surfaces
      BY <1>2 DEF PathTo
    <2> QED BY <1>1, <2>2, <2>3 DEF PathTo
  <1>4. Capture!After(s, now) = f[k]
    BY <1>1, <1>3, AfterIsThePathsEnd
  <1>5. ASSUME NEW i \in 1 .. Len(later)
        PROVE  h[i] = Capture!ReceivedBy(h[i - 1], later[i])
    <2>1. i + k \in 1 .. Len(q) /\ i \in 0 .. Len(q) - k /\ i - 1 \in 0 .. Len(q) - k
          /\ (i - 1) + k = (i + k) - 1 /\ later[i] = q[i + k]
      BY <1>1
    <2>2. f[i + k] = Capture!ReceivedBy(f[(i + k) - 1], q[i + k])
      BY <1>2, <2>1 DEF PathTo
    <2> QED BY <2>1, <2>2
  <1>6. h \in [0 .. Len(later) -> Surfaces] /\ h[0] = f[k]
    BY <1>1, <1>2 DEF PathTo
  <1>7. PathTo(h, f[k], later, Len(later))
    BY <1>5, <1>6 DEF PathTo
  <1>8. Capture!After(f[k], later) = h[Len(later)] /\ h[Len(later)] = f[Len(q)]
    BY <1>1, <1>3, <1>7, AfterIsThePathsEnd
  <1>9. Capture!After(s, q) = f[Len(q)]
    BY <1>2, AfterIsThePathsEnd
  <1> QED BY <1>4, <1>8, <1>9 DEF now, later

(* What no event of the queue leaves is not left.                           *)
LEMMA AfterStaysIn ==
  ASSUME NEW s \in Surfaces, NEW q \in Seq(Capture!Events), NEW S, s \in S,
         \A i \in 1 .. Len(q) :
           \A x \in Surfaces : x \in S => Capture!ReceivedBy(x, q[i]) \in S
  PROVE  Capture!After(s, q) \in S
PROOF
  <1>1. PICK f : PathTo(f, s, q, Len(q))
    BY PathExists
  <1>2. f[0] \in S /\ 0 \in 0 .. Len(q) /\ Len(q) >= 0 /\ Len(q) \in 0 .. Len(q)
    BY <1>1 DEF PathTo
  <1>3. \A k \in 0 .. Len(q) : k >= 0 => f[k] \in S
    BY <1>1, <1>2, PathStaysIn
  <1> QED BY <1>1, <1>2, <1>3, AfterIsThePathsEnd

(* The bar does not depend on the editor.                                   *)
LEMMA EditorIsApart ==
  ASSUME NEW s \in Surfaces, NEW t \in Surfaces, s.phase = t.phase, NEW q \in Seq(Capture!Events)
  PROVE  Capture!After(s, q).phase = Capture!After(t, q).phase
PROOF
  <1>1. PICK f : PathTo(f, s, q, Len(q))
    BY PathExists
  <1>2. PICK g : PathTo(g, t, q, Len(q))
    BY PathExists
  <1> DEFINE Apart == {i \in 0 .. Len(q) : f[i].phase # g[i].phase}
  <1>3. ASSUME Apart # {} PROVE FALSE
    <2>1. Apart \subseteq Nat
      OBVIOUS
    <2>2. PICK i \in Apart : \A j \in Apart : i <= j
      BY <1>3, <2>1, LeastExists, Zenon
    <2>3. i \in 1 .. Len(q)
      BY <1>1, <1>2, <2>2 DEF PathTo
    <2>4. i - 1 \in 0 .. Len(q) /\ i - 1 \notin Apart
      BY <2>2, <2>3
    <2>5. f[i - 1].phase = g[i - 1].phase /\ f[i - 1] \in Surfaces /\ g[i - 1] \in Surfaces
      BY <1>1, <1>2, <2>4 DEF PathTo
    <2>6. /\ f[i] = Capture!ReceivedBy(f[i - 1], q[i])
          /\ g[i] = Capture!ReceivedBy(g[i - 1], q[i])
      BY <1>1, <1>2, <2>3 DEF PathTo
    <2>7. f[i].phase = g[i].phase
      BY <2>5, <2>6 DEF Capture!ReceivedBy, Surfaces
    <2> QED BY <2>2, <2>7
  <1>4. Len(q) \in 0 .. Len(q)
    OBVIOUS
  <1> QED BY <1>1, <1>2, <1>3, <1>4, AfterIsThePathsEnd

-----------------------------------------------------------------------------
(* What the bar will show.  The events that wait for the UI thread are those *)
(* in the queue and those the holder of eventMutex_ has still to emit.      *)
Pending == captureEvents \o announcing.events

OfRecording(event) == event.operation = Capture!Recording
Ending(event)      == OfRecording(event) /\ event.kind \in {"Completed", "Canceled", "Failed"}

NoneOfRecording(q) == \A i \in 1 .. Len(q) : ~OfRecording(q[i])
NoneEnding(q)      == \A i \in 1 .. Len(q) : ~Ending(q[i])
EndIsLast(q)       == \A i, j \in 1 .. Len(q) : i < j /\ Ending(q[i]) => ~OfRecording(q[j])

Runs == {"StartingRecording", "Recording", "Paused"}
Underway(st, op) == st \in Runs \/ (st = "Stopping" /\ op = Capture!Recording)

Quiet      == {"Idle", "SelectingRecording"}
Phases     == Quiet \cup Runs \cup {"Stopping"}
Editors    == {"Idle", "Preparing", "Editing", "Saving"}
Operations == {Capture!Screenshot, Capture!Recording}

Surface(ed, ph)  == [editor |-> ed, phase |-> ph]
Heard(ed, ph, q) == Capture!After(Surface(ed, ph), q).phase
Due(st, op, ph)  ==
  IF st \in Runs THEN st ELSE IF Underway(st, op) THEN "Stopping"
  ELSE IF ph = "SelectingRecording" THEN ph ELSE "Idle"

(* The bar and the service agree once all is heard.  A recording that was    *)
(* asked for and not yet begun, or none at all, has no event on its way, and *)
(* one that runs has no end on its way.                                     *)
Agrees(st, op, ed, ph, to, q) ==
  /\ EndIsLast(q)
  /\ to = "record" => ph = "StartingRecording" /\ ~Underway(st, op) /\ NoneOfRecording(q)
  /\ ph \in Quiet => ~Underway(st, op) /\ NoneOfRecording(q)
  /\ to # "record" => Heard(ed, ph, q) = Due(st, op, ph)
  /\ Underway(st, op) => NoneEnding(q)

(* How an event changes the phase of the bar.                               *)
LEMMA ReceivingPhases ==
  ASSUME NEW s \in Surfaces, NEW e \in Capture!Events
  PROVE  LET p == Capture!ReceivedBy(s, e).phase IN
         /\ ~OfRecording(e) => p = s.phase
         /\ s.phase = "Stopping" => p = IF Ending(e) THEN "Idle" ELSE "Stopping"
         /\ s.phase = "Idle" => p = "Idle"
         /\ ~Ending(e) /\ s.phase # "Idle" => p # "Idle"
         /\ s.phase # "SelectingRecording" => p # "SelectingRecording"
PROOF
  <1>1. CASE ~OfRecording(e)
    BY <1>1 DEF OfRecording, Ending, Surfaces, Capture!Events, Capture!ReceivedBy,
       Capture!Screenshot, Capture!Recording
  <1>2. CASE OfRecording(e)
    <2>1. Capture!ReceivedBy(s, e).phase = Capture!HandleRecordingEvent(e.kind, s.phase)
      BY <1>2 DEF OfRecording, Surfaces, Capture!Events, Capture!ReceivedBy,
         Capture!Screenshot, Capture!Recording
    <2> QED BY <1>2, <2>1 DEF Ending, Surfaces, Capture!Events, Capture!Kinds,
               Capture!HandleRecordingEvent
  <1> QED BY <1>1, <1>2

(* Without an event of a recording the bar stays as it is.                  *)
LEMMA NothingHeard ==
  ASSUME NEW ed \in Editors, NEW ph \in Phases, NEW q \in Seq(Capture!Events), NoneOfRecording(q)
  PROVE  Heard(ed, ph, q) = ph
PROOF
  <1> DEFINE S == {x \in Surfaces : x.phase = ph}
  <1>1. Surface(ed, ph) \in Surfaces /\ Surface(ed, ph) \in S
    BY DEF Surface, Surfaces, Editors, Phases, Quiet, Runs
  <1>2. ASSUME NEW i \in 1 .. Len(q), NEW x \in Surfaces, x \in S
        PROVE  Capture!ReceivedBy(x, q[i]) \in S
    <2>1. q[i] \in Capture!Events /\ ~OfRecording(q[i])
      BY DEF NoneOfRecording
    <2> QED BY <1>2, <2>1, ReceivingPhases, ReceivingIsTyped
  <1>3. Capture!After(Surface(ed, ph), q) \in S
    <2> HIDE DEF S
    <2> QED BY <1>1, <1>2, AfterStaysIn
  <1> QED BY <1>3 DEF Heard

(* A bar that says Stopping goes on saying so without an end.               *)
LEMMA StoppingHeard ==
  ASSUME NEW ed \in Editors, NEW q \in Seq(Capture!Events), NoneEnding(q)
  PROVE  Heard(ed, "Stopping", q) = "Stopping"
PROOF
  <1> DEFINE S == {x \in Surfaces : x.phase = "Stopping"}
  <1>1. Surface(ed, "Stopping") \in Surfaces /\ Surface(ed, "Stopping") \in S
    BY DEF Surface, Surfaces, Editors
  <1>2. ASSUME NEW i \in 1 .. Len(q), NEW x \in Surfaces, x \in S
        PROVE  Capture!ReceivedBy(x, q[i]) \in S
    <2>1. q[i] \in Capture!Events /\ ~Ending(q[i])
      BY DEF NoneEnding
    <2> QED BY <1>2, <2>1, ReceivingPhases, ReceivingIsTyped
  <1>3. Capture!After(Surface(ed, "Stopping"), q) \in S
    <2> HIDE DEF S
    <2> QED BY <1>1, <1>2, AfterStaysIn
  <1> QED BY <1>3 DEF Heard

(* A bar that shows something needs an end to show nothing.                 *)
LEMMA IdleNeedsAnEnd ==
  ASSUME NEW ed \in Editors, NEW ph \in Phases, ph # "Idle", NEW q \in Seq(Capture!Events),
         NoneEnding(q)
  PROVE  Heard(ed, ph, q) # "Idle"
PROOF
  <1> DEFINE S == {x \in Surfaces : x.phase # "Idle"}
  <1>1. Surface(ed, ph) \in Surfaces /\ Surface(ed, ph) \in S
    BY DEF Surface, Surfaces, Editors, Phases, Quiet, Runs
  <1>2. ASSUME NEW i \in 1 .. Len(q), NEW x \in Surfaces, x \in S
        PROVE  Capture!ReceivedBy(x, q[i]) \in S
    <2>1. q[i] \in Capture!Events /\ ~Ending(q[i])
      BY DEF NoneEnding
    <2> QED BY <1>2, <2>1, ReceivingPhases, ReceivingIsTyped
  <1>3. Capture!After(Surface(ed, ph), q) \in S
    <2> HIDE DEF S
    <2> QED BY <1>1, <1>2, AfterStaysIn
  <1> QED BY <1>3 DEF Heard

(* A region to select is never what an event makes of the bar.              *)
LEMMA SelectingIsAsked ==
  ASSUME NEW ed \in Editors, NEW ph \in Phases, ph # "SelectingRecording",
         NEW q \in Seq(Capture!Events)
  PROVE  Heard(ed, ph, q) # "SelectingRecording"
PROOF
  <1> DEFINE S == {x \in Surfaces : x.phase # "SelectingRecording"}
  <1>1. Surface(ed, ph) \in Surfaces /\ Surface(ed, ph) \in S
    BY DEF Surface, Surfaces, Editors, Phases, Quiet, Runs
  <1>2. ASSUME NEW i \in 1 .. Len(q), NEW x \in Surfaces, x \in S
        PROVE  Capture!ReceivedBy(x, q[i]) \in S
    <2>1. q[i] \in Capture!Events
      OBVIOUS
    <2> QED BY <1>2, <2>1, ReceivingPhases, ReceivingIsTyped
  <1>3. Capture!After(Surface(ed, ph), q) \in S
    <2> HIDE DEF S
    <2> QED BY <1>1, <1>2, AfterStaysIn
  <1> QED BY <1>3 DEF Heard

(* A bar that says Stopping shows nothing once an end was heard.            *)
LEMMA EndHeard ==
  ASSUME NEW ed \in Editors, NEW q \in Seq(Capture!Events), ~NoneEnding(q)
  PROVE  Heard(ed, "Stopping", q) = "Idle"
PROOF
  <1> DEFINE s == Surface(ed, "Stopping")
             S == {x \in Surfaces : x.phase \in {"Stopping", "Idle"}}
             T == {x \in Surfaces : x.phase = "Idle"}
  <1>1. s \in Surfaces /\ s \in S
    BY DEF Surface, Surfaces, Editors
  <1>2. PICK f : PathTo(f, s, q, Len(q))
    BY <1>1, PathExists
  <1>3. PICK i \in 1 .. Len(q) : Ending(q[i])
    BY DEF NoneEnding
  <1>4. ASSUME NEW k \in 1 .. Len(q), NEW x \in Surfaces
        PROVE  /\ x \in S => Capture!ReceivedBy(x, q[k]) \in S
               /\ x \in T => Capture!ReceivedBy(x, q[k]) \in T
               /\ x \in S /\ Ending(q[k]) => Capture!ReceivedBy(x, q[k]) \in T
    <2>1. q[k] \in Capture!Events
      OBVIOUS
    <2>2. Capture!ReceivedBy(x, q[k]) \in Surfaces
      BY <2>1, ReceivingIsTyped
    <2> QED BY <2>1, <2>2, ReceivingPhases DEF Ending
  <1>5. f[0] = s /\ \A k \in 1 .. Len(q) : f[k] = Capture!ReceivedBy(f[k - 1], q[k])
    BY <1>2 DEF PathTo
  <1>6. f \in [0 .. Len(q) -> Surfaces]
    BY <1>2 DEF PathTo
  <1>7. 0 \in 0 .. Len(q) /\ i - 1 \in 0 .. Len(q) /\ i \in 0 .. Len(q) /\ Len(q) \in 0 .. Len(q)
    BY <1>3
  <1>8. f[i - 1] \in S
    <2>1. f[0] \in S
      BY <1>1, <1>5
    <2> HIDE DEF S, s
    <2>2. \A k \in 0 .. Len(q) : k >= 0 => f[k] \in S
      BY <1>1, <1>2, <1>4, <1>7, <2>1, PathStaysIn
    <2> QED BY <1>3, <1>7, <2>2
  <1>9. f[i] \in T
    <2> HIDE DEF S, s, T
    <2> QED BY <1>3, <1>4, <1>5, <1>6, <1>7, <1>8
  <1>10. f[Len(q)] \in T
    <2> HIDE DEF S, s, T
    <2>1. \A k \in 0 .. Len(q) : k >= i => f[k] \in T
      BY <1>1, <1>2, <1>4, <1>7, <1>9, PathStaysIn
    <2> QED BY <1>3, <1>7, <2>1
  <1>11. Capture!After(s, q) = f[Len(q)]
    BY <1>1, <1>2, AfterIsThePathsEnd
  <1> QED BY <1>10, <1>11 DEF Heard

(* An event that joins the queue is heard last.                             *)
LEMMA HeardOneMore ==
  ASSUME NEW ed \in Editors, NEW ph \in Phases, NEW q \in Seq(Capture!Events),
         NEW e \in Capture!Events
  PROVE  LET s == Capture!After(Surface(ed, ph), q) IN
         /\ s \in Surfaces /\ s.phase = Heard(ed, ph, q)
         /\ Heard(ed, ph, Append(q, e)) = Capture!ReceivedBy(s, e).phase
PROOF
  <1>1. Surface(ed, ph) \in Surfaces
    BY DEF Surface, Surfaces, Editors, Phases, Quiet, Runs
  <1> QED BY <1>1, AfterOneMore, AfterIsTyped DEF Heard

(* Which events are queued when one more is.                                *)
LEMMA OneMore ==
  ASSUME NEW q \in Seq(Capture!Events), NEW e \in Capture!Events
  PROVE  LET r == Append(q, e) IN
         /\ r \in Seq(Capture!Events)
         /\ ~OfRecording(e) /\ NoneOfRecording(q) => NoneOfRecording(r)
         /\ ~Ending(e) /\ NoneEnding(q) => NoneEnding(r)
         /\ EndIsLast(q) /\ (NoneEnding(q) \/ ~OfRecording(e)) => EndIsLast(r)
PROOF
  <1> DEFINE r == Append(q, e)
  <1>1. /\ r \in Seq(Capture!Events) /\ Len(r) = Len(q) + 1 /\ r[Len(q) + 1] = e
        /\ \A i \in 1 .. Len(q) : r[i] = q[i]
    OBVIOUS
  <1> HIDE DEF r
  <1>2. ~OfRecording(e) /\ NoneOfRecording(q) => NoneOfRecording(r)
    BY <1>1 DEF NoneOfRecording
  <1>3. ~Ending(e) /\ NoneEnding(q) => NoneEnding(r)
    BY <1>1 DEF NoneEnding
  <1>4. EndIsLast(q) /\ (NoneEnding(q) \/ ~OfRecording(e)) => EndIsLast(r)
    BY <1>1 DEF EndIsLast, NoneEnding
  <1> QED BY <1>1, <1>2, <1>3, <1>4 DEF r

(* Events of a screenshot are nothing to the bar.                           *)
LEMMA OthersAreNothing ==
  ASSUME NEW st, NEW op, NEW ed \in Editors, NEW ph \in Phases, NEW to,
         NEW q \in Seq(Capture!Events), Agrees(st, op, ed, ph, to, q),
         NEW e \in Capture!Events, ~OfRecording(e)
  PROVE  Agrees(st, op, ed, ph, to, Append(q, e))
PROOF
  <1>1. Heard(ed, ph, Append(q, e)) = Heard(ed, ph, q)
    BY HeardOneMore, ReceivingPhases
  <1>2. ~Ending(e)
    BY DEF Ending
  <1> QED BY <1>1, <1>2, OneMore DEF Agrees

(* Where no recording is under way, it is all the same to the bar what the  *)
(* service does, as long as it starts none.                                 *)
LEMMA ElsewhereIsNothing ==
  ASSUME NEW st, NEW op, NEW st2, NEW op2, ~Underway(st, op), ~Underway(st2, op2),
         NEW ed, NEW ph, NEW to, NEW to2, to = "record" <=> to2 = "record",
         NEW q, Agrees(st, op, ed, ph, to, q)
  PROVE  Agrees(st2, op2, ed, ph, to2, q)
PROOF
  BY DEF Agrees, Underway, Due

(* The other calls are nothing to the bar.                                  *)
LEMMA CallsAreNothing ==
  ASSUME NEW st, NEW op, NEW ed, NEW ph, NEW to, NEW to2, to # "record", to2 # "record",
         NEW q, Agrees(st, op, ed, ph, to, q)
  PROVE  Agrees(st, op, ed, ph, to2, q)
PROOF
  BY DEF Agrees

(* The editor is nothing to the bar.                                        *)
LEMMA EditorIsNothing ==
  ASSUME NEW st, NEW op, NEW ed \in Editors, NEW ed2 \in Editors, NEW ph \in Phases, NEW to,
         NEW q \in Seq(Capture!Events), Agrees(st, op, ed, ph, to, q)
  PROVE  Agrees(st, op, ed2, ph, to, q)
PROOF
  <1>1. /\ Surface(ed, ph) \in Surfaces /\ Surface(ed2, ph) \in Surfaces
        /\ Surface(ed, ph).phase = Surface(ed2, ph).phase
    BY DEF Surface, Surfaces, Editors, Phases, Quiet, Runs
  <1>2. Heard(ed, ph, q) = Heard(ed2, ph, q)
    BY <1>1, EditorIsApart DEF Heard
  <1> QED BY <1>2 DEF Agrees

(* A recording that is under way goes on, with an event that says so.       *)
Reports(st, e, st2) ==
  \/ e.kind = "Started" /\ st = "StartingRecording" /\ st2 = "Recording"
  \/ e.kind = "Paused" /\ st = "Recording" /\ st2 = "Paused"
  \/ e.kind = "Resumed" /\ st = "Paused" /\ st2 = "Recording"
  \/ e.kind = "Stopping" /\ st \in Runs /\ st2 = "Stopping"
  \/ e.kind \in {"Completed", "Canceled"} /\ st = "Stopping" /\ st2 = "Idle"
  \/ e.kind = "Failed" /\ st2 = "Idle"

(* The bar hears of every change.                                           *)
LEMMA ReportsAreHeard ==
  ASSUME NEW st \in Capture!States, NEW op, op = Capture!Recording, NEW st2, Underway(st, op),
         NEW ed \in Editors, NEW ph \in Phases, NEW to,
         NEW q \in Seq(Capture!Events), Agrees(st, op, ed, ph, to, q),
         NEW e \in Capture!Events, OfRecording(e), Reports(st, e, st2)
  PROVE  Agrees(st2, op, ed, ph, to, Append(q, e))
PROOF
  <1>1. NoneEnding(q) /\ EndIsLast(q) /\ ph \notin Quiet /\ to # "record"
    BY DEF Agrees
  <1>2. Heard(ed, ph, q) = IF st \in Runs THEN st ELSE "Stopping"
    BY <1>1 DEF Agrees, Due
  <1> DEFINE s == Capture!After(Surface(ed, ph), q)
  <1>3. /\ s \in Surfaces /\ s.phase = Heard(ed, ph, q)
        /\ Heard(ed, ph, Append(q, e)) = Capture!ReceivedBy(s, e).phase
    BY HeardOneMore
  <1>4. Capture!ReceivedBy(s, e).phase = Capture!HandleRecordingEvent(e.kind, s.phase)
    <2> HIDE DEF s
    <2> QED BY <1>3 DEF OfRecording, Surfaces, Capture!Events, Capture!ReceivedBy,
               Capture!Screenshot, Capture!Recording
  <1> HIDE DEF s
  <1>5. Heard(ed, ph, Append(q, e)) = st2
    BY <1>2, <1>3, <1>4 DEF Reports, Runs, Underway, Capture!HandleRecordingEvent
  <1>6. Due(st2, op, ph) = st2
    BY <1>1 DEF Reports, Runs, Underway, Due, Quiet
  <1>7. Underway(st2, op) => ~Ending(e)
    BY DEF Reports, Runs, Underway, Ending
  <1>8. EndIsLast(Append(q, e)) /\ (~Ending(e) => NoneEnding(Append(q, e)))
    BY <1>1, OneMore
  <1> QED BY <1>1, <1>5, <1>6, <1>7, <1>8 DEF Agrees

(* A recording is asked for where there is none.                            *)
LEMMA AskingAgrees ==
  ASSUME NEW st, NEW op, NEW ed \in Editors, NEW ph \in Quiet, NEW to, to # "record",
         NEW q \in Seq(Capture!Events), Agrees(st, op, ed, ph, to, q)
  PROVE  /\ Agrees(st, op, ed, "StartingRecording", "record", q)
         /\ \A new \in Quiet : Agrees(st, op, ed, new, to, q)
PROOF
  <1>1. EndIsLast(q) /\ NoneOfRecording(q) /\ ~Underway(st, op) /\ st \notin Runs
    BY DEF Agrees, Underway
  <1>2. \A new \in Quiet : Heard(ed, new, q) = new
    BY <1>1, NothingHeard DEF Phases
  <1> QED BY <1>1, <1>2 DEF Agrees, Due, Quiet

(* The service refuses it, or begins it.                                    *)
LEMMA AnsweringAgrees ==
  ASSUME NEW st, NEW op, NEW ed \in Editors, NEW ph,
         NEW q \in Seq(Capture!Events), Agrees(st, op, ed, ph, "record", q)
  PROVE  /\ Agrees(st, op, ed, "Idle", "none", q)
         /\ Agrees("StartingRecording", Capture!Recording, ed, ph, "none", q)
PROOF
  <1>1. EndIsLast(q) /\ NoneOfRecording(q) /\ ~Underway(st, op) /\ st \notin Runs
        /\ ph = "StartingRecording"
    BY DEF Agrees, Underway
  <1>2. Heard(ed, "Idle", q) = "Idle" /\ Heard(ed, ph, q) = ph
    BY <1>1, NothingHeard DEF Phases, Quiet, Runs
  <1>3. NoneEnding(q)
    BY <1>1 DEF NoneEnding, NoneOfRecording, Ending
  <1> QED BY <1>1, <1>2, <1>3 DEF Agrees, Due, Quiet, Runs, Underway

(* The user stops a recording, which may have ended without the bar knowing *)
(* of it yet.                                                               *)
LEMMA StoppingAgrees ==
  ASSUME NEW st, NEW op, NEW ed \in Editors, NEW ph \in Phases, ph \notin Quiet,
         NEW q \in Seq(Capture!Events), Agrees(st, op, ed, ph, "none", q)
  PROVE  /\ st \notin Runs => Agrees(st, op, ed, "Stopping", "none", q)
         /\ st \in Runs /\ op = Capture!Recording =>
              \A e \in Capture!Events : OfRecording(e) /\ e.kind = "Stopping" =>
                Agrees("Stopping", op, ed, "Stopping", "none", Append(q, e))
PROOF
  <1>1. EndIsLast(q) /\ (Underway(st, op) => NoneEnding(q))
        /\ Heard(ed, ph, q) = Due(st, op, ph)
    BY DEF Agrees
  <1>2. ASSUME st \notin Runs PROVE Agrees(st, op, ed, "Stopping", "none", q)
    <2>1. CASE Underway(st, op)
      <3>1. Heard(ed, "Stopping", q) = "Stopping"
        BY <1>1, <2>1, StoppingHeard
      <3> QED BY <1>1, <1>2, <2>1, <3>1 DEF Agrees, Due, Quiet
    <2>2. CASE ~Underway(st, op)
      <3>1. Heard(ed, ph, q) = "Idle"
        BY <1>1, <1>2, <2>2 DEF Due, Quiet
      <3>2. ~NoneEnding(q)
        BY <3>1, IdleNeedsAnEnd DEF Quiet
      <3>3. Heard(ed, "Stopping", q) = "Idle"
        BY <3>2, EndHeard
      <3> QED BY <1>1, <1>2, <2>2, <3>3 DEF Agrees, Due, Quiet
    <2> QED BY <2>1, <2>2
  <1>3. ASSUME st \in Runs, op = Capture!Recording,
               NEW e \in Capture!Events, OfRecording(e), e.kind = "Stopping"
        PROVE  Agrees("Stopping", op, ed, "Stopping", "none", Append(q, e))
    <2>1. NoneEnding(q) /\ ~Ending(e)
      BY <1>1, <1>3 DEF Underway, Ending
    <2>2. /\ Append(q, e) \in Seq(Capture!Events) /\ EndIsLast(Append(q, e))
          /\ NoneEnding(Append(q, e))
      BY <1>1, <2>1, OneMore
    <2>3. Heard(ed, "Stopping", Append(q, e)) = "Stopping"
      BY <2>2, StoppingHeard
    <2> QED BY <1>3, <2>2, <2>3 DEF Agrees, Due, Quiet, Underway, Runs
  <1> QED BY <1>2, <1>3

(* The UI thread hears some of the events.                                  *)
LEMMA HearingAgrees ==
  ASSUME NEW st, NEW op, NEW ed \in Editors, NEW ph \in Phases, NEW to, to # "record",
         NEW q \in Seq(Capture!Events), Agrees(st, op, ed, ph, to, q), NEW k \in 0 .. Len(q)
  PROVE  LET s == Capture!After(Surface(ed, ph), SubSeq(q, 1, k)) IN
         /\ s.editor \in Editors /\ s.phase \in Phases
         /\ Agrees(st, op, s.editor, s.phase, to, SubSeq(q, k + 1, Len(q)))
PROOF
  <1> DEFINE now == SubSeq(q, 1, k)
             later == SubSeq(q, k + 1, Len(q))
             s == Capture!After(Surface(ed, ph), now)
  <1>1. /\ now \in Seq(Capture!Events) /\ Len(now) = k /\ \A i \in 1 .. k : now[i] = q[i]
        /\ later \in Seq(Capture!Events) /\ Len(later) = Len(q) - k
        /\ \A i \in 1 .. Len(q) - k : later[i] = q[i + k]
    OBVIOUS
  <1>2. Surface(ed, ph) \in Surfaces
    BY DEF Surface, Surfaces, Editors, Phases, Quiet, Runs
  <1>3. Capture!After(s, later) = Capture!After(Surface(ed, ph), q)
    BY <1>2, AfterTheRest
  <1> HIDE DEF now, later
  <1>4. s \in Surfaces
    BY <1>1, <1>2, AfterIsTyped
  <1>5. s.phase = Heard(ed, ph, now)
    BY DEF Heard
  <1> HIDE DEF s
  <1>6. s.editor \in Editors /\ s.phase \in Phases /\ s = Surface(s.editor, s.phase)
    BY <1>4 DEF Surfaces, Surface, Editors, Phases, Quiet, Runs
  <1>7. Heard(s.editor, s.phase, later) = Heard(ed, ph, q)
    BY <1>3, <1>6 DEF Heard
  <1>8. EndIsLast(later)
    <2> SUFFICES ASSUME NEW i \in 1 .. Len(later), NEW j \in 1 .. Len(later), i < j,
                        Ending(later[i])
                 PROVE  ~OfRecording(later[j])
      BY DEF EndIsLast
    <2>1. i + k \in 1 .. Len(q) /\ j + k \in 1 .. Len(q) /\ i + k < j + k
          /\ later[i] = q[i + k] /\ later[j] = q[j + k]
      BY <1>1
    <2> QED BY <2>1 DEF Agrees, EndIsLast
  <1>9. /\ NoneOfRecording(q) => NoneOfRecording(now) /\ NoneOfRecording(later)
        /\ NoneEnding(q) => NoneEnding(now) /\ NoneEnding(later)
    <2>1. \A i \in 1 .. Len(later) : i + k \in 1 .. Len(q) /\ later[i] = q[i + k]
      BY <1>1
    <2>2. \A i \in 1 .. Len(now) : i \in 1 .. Len(q) /\ now[i] = q[i]
      BY <1>1
    <2> QED BY <2>1, <2>2 DEF NoneOfRecording, NoneEnding
  <1>10. ASSUME s.phase \in Quiet PROVE ~Underway(st, op) /\ NoneOfRecording(later)
    <2>1. CASE ph \in Quiet
      BY <1>9, <2>1 DEF Agrees
    <2>2. CASE ph \notin Quiet
      <3>1. s.phase = "Idle"
        BY <1>1, <1>5, <1>10, <2>2, SelectingIsAsked DEF Quiet
      <3>2. ~NoneEnding(now)
        BY <1>1, <1>5, <2>2, <3>1, IdleNeedsAnEnd DEF Quiet
      <3>3. PICK i \in 1 .. k : Ending(q[i])
        BY <1>1, <3>2 DEF NoneEnding
      <3>4. ~Underway(st, op)
        BY <3>3 DEF Agrees, NoneEnding
      <3>5. ASSUME NEW j \in 1 .. Len(later) PROVE ~OfRecording(later[j])
        <4>1. j + k \in 1 .. Len(q) /\ i \in 1 .. Len(q) /\ i < j + k /\ later[j] = q[j + k]
          BY <1>1
        <4> QED BY <3>3, <4>1 DEF Agrees, EndIsLast
      <3> QED BY <3>4, <3>5 DEF NoneOfRecording
    <2> QED BY <2>1, <2>2
  <1>11. Due(st, op, s.phase) = Due(st, op, ph)
    <2>1. CASE ph \in Quiet
      <3>1. s.phase = ph
        BY <1>1, <1>5, <1>9, <2>1, NothingHeard DEF Agrees, Phases
      <3> QED BY <3>1
    <2>2. CASE ph \notin Quiet
      <3>1. s.phase # "SelectingRecording" /\ ph # "SelectingRecording"
        BY <1>1, <1>5, <2>2, SelectingIsAsked DEF Quiet
      <3> QED BY <3>1 DEF Due
    <2> QED BY <2>1, <2>2
  <1>12. Agrees(st, op, s.editor, s.phase, to, later)
    BY <1>7, <1>8, <1>9, <1>10, <1>11 DEF Agrees
  <1> QED BY <1>6, <1>12 DEF s, now, later

(* The smaller of two numbers is the one or the other.                      *)
LEMMA SmallerOfTwo ==
  ASSUME NEW m \in Nat, NEW n \in Nat PROVE Capture!Min({m, n}) = IF m <= n THEN m ELSE n
PROOF
  <1> DEFINE least == IF m <= n THEN m ELSE n
  <1>1. least \in {m, n} /\ \A y \in {m, n} : least <= y
    OBVIOUS
  <1>2. \A x \in {m, n} : (\A y \in {m, n} : x <= y) => x = least
    OBVIOUS
  <1> HIDE DEF least
  <1>3. Capture!Min({m, n}) = least
    BY <1>1, <1>2 DEF Capture!Min
  <1> QED BY <1>3 DEF least

(* The tables of the three calls that start a worker.                       *)
LEMMA StartingIs ==
  /\ DOMAIN Capture!Starting = {"prepare", "finalize", "record"}
  /\ Capture!Starting["prepare"] = "PreparingScreenshot"
  /\ Capture!Starting["finalize"] = "StartingScreenshot"
  /\ Capture!Starting["record"] = "StartingRecording"
  /\ Capture!FirstStep["prepare"] = "starting"
  /\ Capture!FirstStep["finalize"] = "rendering"
  /\ Capture!FirstStep["record"] = "settingUp"
PROOF
  BY DEF Capture!Starting, Capture!FirstStep

(* What the holder of eventMutex_ may be about to emit.                     *)
Announcements ==
  {a \in [by : {"nobody", "ui", "worker"}, events : Seq(Capture!Events)] :
     a.by = "nobody" <=> a.events = <<>>}

(* One event or two are something to announce.                              *)
LEMMA AnnouncingIsTyped ==
  ASSUME NEW who \in {"ui", "worker"}, NEW e \in Capture!Events, NEW f \in Capture!Events
  PROVE  /\ [by |-> who, events |-> <<e>>] \in Announcements
         /\ [by |-> who, events |-> <<e, f>>] \in Announcements
PROOF
  <1>1. <<e>> \in Seq(Capture!Events) /\ <<e, f>> \in Seq(Capture!Events)
        /\ <<e>> # <<>> /\ <<e, f>> # <<>>
    OBVIOUS
  <1> QED BY <1>1 DEF Announcements

(* Every event is one of an operation and of a kind.                        *)
LEMMA EventIsTyped ==
  ASSUME NEW op \in Operations, NEW kind \in Capture!Kinds
  PROVE  Capture!Event(op, kind) \in Capture!Events
PROOF
  BY DEF Operations, Capture!Event, Capture!Events

(* What Stop does to the service.                                           *)
LEMMA StopIsTyped ==
  Capture!TypeOK /\ Capture!Stop =>
    state' \in Capture!States /\ stopRequested' \in BOOLEAN /\ announcing' \in Announcements
PROOF
  <1> SUFFICES ASSUME Capture!TypeOK, Capture!Stop
               PROVE  state' \in Capture!States /\ stopRequested' \in BOOLEAN
                      /\ announcing' \in Announcements
    OBVIOUS
  <1>1. announcing \in Announcements /\ operation \in Operations
    BY DEF Capture!TypeOK, Announcements, Operations
  <1>2. /\ Capture!Event(operation, "Stopping") \in Capture!Events
        /\ Capture!Event(Capture!Screenshot, "Canceled") \in Capture!Events
    BY <1>1, EventIsTyped DEF Operations, Capture!Kinds
  <1>3. /\ state' \in Capture!States /\ stopRequested' \in BOOLEAN
    BY DEF Capture!TypeOK, Capture!Stop, Capture!States
  <1>4. \/ UNCHANGED announcing
        \/ announcing' = [by |-> "ui", events |-> <<Capture!Event(operation, "Stopping")>>]
        \/ announcing' = [by |-> "ui", events |-> <<Capture!Event(operation, "Stopping"),
                                                    Capture!Event(Capture!Screenshot, "Canceled")>>]
    BY DEF Capture!Stop, Capture!Announces
  <1>5. announcing' \in Announcements
    BY <1>1, <1>2, <1>4, AnnouncingIsTyped
  <1> QED BY <1>3, <1>5

-----------------------------------------------------------------------------
(* The invariant of CaptureService.  The service is at what its worker does. *)
OperationFits ==
  /\ state \in Runs => operation = Capture!Recording
  /\ state \in {"PreparingScreenshot", "ScreenshotEditing", "StartingScreenshot"} =>
       operation = Capture!Screenshot
  /\ worker.at \in {"starting", "copying", "handing", "rendering", "returning"} =>
       operation = Capture!Screenshot
  /\ worker.at \in {"settingUp", "going", "recording", "finalizing"} =>
       operation = Capture!Recording
  /\ worker.at = "ending" =>
       worker.ending.operation = operation
       /\ worker.ending.kind \in {"Completed", "Canceled", "Failed"}

(* A worker that has not ended has a service that has not, and a stop is a   *)
(* state until it has: what Complete publishes follows a Stopping.          *)
WorkerFits ==
  /\ worker.at \notin {"leaving", "gone"} => state \notin {"Idle", "ScreenshotEditing"}
  /\ worker.at \notin {"leaving", "gone"} /\ stopRequested => state = "Stopping"
  /\ worker.at = "finalizing" => state = "Stopping"
  /\ worker.at \in {"settingUp", "going"} => state \in {"StartingRecording", "Stopping"}
  /\ worker.at = "recording" => state \in {"Recording", "Paused", "Stopping"}
  /\ worker.at = "ending" /\ operation = Capture!Recording /\ worker.ending.kind # "Failed" =>
       state = "Stopping"

BarFits == ~captureClosed => Agrees(state, operation, editor, phase, call.to, Pending)

CaptureInv == Capture!TypeOK /\ OperationFits /\ WorkerFits /\ BarFits

(* Nothing is captured yet, and nobody has heard of anything.               *)
LEMMA CaptureInit == Capture!Init \/ Capture!Absent => CaptureInv
PROOF
  <1> SUFFICES ASSUME Capture!Init \/ Capture!Absent PROVE CaptureInv
    OBVIOUS
  <1>1. Capture!NothingYet /\ captureClosed \in BOOLEAN
    BY DEF Capture!Init, Capture!Absent
  <1>0. NoneOfRecording(<<>>) /\ <<>> \in Seq(Capture!Events)
    BY DEF NoneOfRecording
  <1>a. Capture!NoEvent \in Capture!Events
    BY EventIsTyped DEF Capture!NoEvent, Capture!Event, Capture!Kinds, Operations
  <1>b. Capture!Gone \in [at : Capture!Places, ending : Capture!Events]
    BY <1>a DEF Capture!Gone, Capture!Places
  <1>c. Heard("Idle", "Idle", <<>>) = "Idle"
    BY <1>0, NothingHeard DEF Editors, Phases, Quiet
  <1> USE <1>1 DEF Capture!NothingYet, Capture!NoCall, Capture!Gone, Capture!Free
  <1>2. Capture!TypeOK
    <2>1. announcing \in Announcements /\ captureEvents \in Seq(Capture!Events)
      BY <1>0 DEF Announcements
    <2>2. /\ worker \in [at : Capture!Places, ending : Capture!Events]
          /\ call \in [to : {"none", "prepare", "finalize", "record", "shutdown"},
                      at : {"none", "checking", "joining"}]
      BY <1>b
    <2>3. acts \in 0 .. MaxActs /\ state \in Capture!States
      BY MaxActsIsNatural DEF Capture!States
    <2> QED BY <2>1, <2>2, <2>3 DEF Capture!TypeOK, Announcements
  <1>3. OperationFits /\ WorkerFits
    BY DEF OperationFits, WorkerFits, Runs
  <1>4. Pending = <<>>
    BY DEF Pending
  <1>6. Agrees(state, operation, editor, phase, call.to, Pending)
    BY <1>4, <1>c DEF Agrees, EndIsLast, NoneOfRecording, NoneEnding, Due, Underway, Runs, Quiet
  <1> QED BY <1>2, <1>3, <1>6 DEF CaptureInv, BarFits

(* The types of what the UI thread does.                                    *)
LEMMA UiTypes == CaptureInv /\ Capture!Ui => Capture!TypeOK'
PROOF
  <1> SUFFICES ASSUME CaptureInv, Capture!Ui PROVE Capture!TypeOK'
    OBVIOUS
  <1> USE MaxActsIsNatural DEF CaptureInv, Capture!TypeOK
  <1>1. CASE Capture!BeginScreenshotCapture \/ Capture!FinalizeScreenshot
    BY <1>1 DEF Capture!BeginScreenshotCapture, Capture!FinalizeScreenshot, Capture!Acts,
       Capture!serviceVars
  <1>2. CASE Capture!BeginRecording \/ Capture!CompleteCaptureSelection
    BY <1>2 DEF Capture!BeginRecording, Capture!CompleteCaptureSelection, Capture!Acts,
       Capture!serviceVars
  <1>3. CASE Capture!CheckState
    <2>1. /\ call' \in [to : {"none", "prepare", "finalize", "record", "shutdown"},
                        at : {"none", "checking", "joining"}]
          /\ acts' \in 0 .. MaxActs
      <3>1. call' = Capture!NoCall \/ call' = [call EXCEPT !.at = "joining"]
        BY <1>3 DEF Capture!CheckState, Capture!Refused
      <3>2. acts' \in 0 .. MaxActs
        BY <1>3 DEF Capture!CheckState, Capture!Acts
      <3> QED BY <3>1, <3>2 DEF Capture!NoCall
    <2>2. /\ editor' \in {"Idle", "Preparing", "Editing", "Saving"}
          /\ phase' \in {"Idle", "SelectingRecording", "StartingRecording", "Recording", "Paused",
                         "Stopping"}
      BY <1>3, StartingIs DEF Capture!CheckState, Capture!Refused
    <2> QED BY <1>3, <2>1, <2>2 DEF Capture!CheckState, Capture!serviceVars
  <1>4. CASE Capture!BeginOperation
    <2>1. /\ call' \in [to : {"none", "prepare", "finalize", "record", "shutdown"},
                        at : {"none", "checking", "joining"}]
          /\ UNCHANGED <<announcing, captureEvents, captureClosed, acts>>
      <3>1. call' = Capture!NoCall /\ UNCHANGED <<announcing, captureEvents, captureClosed, acts>>
        BY <1>4 DEF Capture!BeginOperation, Capture!Refused
      <3> QED BY <3>1 DEF Capture!NoCall
    <2>2. /\ editor' \in {"Idle", "Preparing", "Editing", "Saving"}
          /\ phase' \in {"Idle", "SelectingRecording", "StartingRecording", "Recording", "Paused",
                         "Stopping"}
      BY <1>4, StartingIs DEF Capture!BeginOperation, Capture!Refused
    <2>3. /\ Capture!Starting[call.to] \in Capture!States
          /\ Capture!FirstStep[call.to] \in Capture!Places
      BY <1>4, StartingIs DEF Capture!BeginOperation, Capture!States, Capture!Places
    <2>4. Capture!Gone \in [at : Capture!Places, ending : Capture!Events]
      BY EventIsTyped DEF Capture!Gone, Capture!Places, Capture!NoEvent, Capture!Event,
         Capture!Kinds, Operations
    <2>5. worker' \in [at : Capture!Places, ending : Capture!Events]
      BY <1>4, <2>3, <2>4 DEF Capture!BeginOperation
    <2>6. state' \in Capture!States /\ stopRequested' \in BOOLEAN
          /\ operation' \in {Capture!Screenshot, Capture!Recording}
      BY <1>4, <2>3 DEF Capture!BeginOperation, Capture!serviceVars
    <2> QED BY <2>1, <2>2, <2>5, <2>6
  <1>5. CASE Capture!Pause \/ Capture!Resume
    <2>1. /\ Capture!Event(operation, "Paused") \in Capture!Events
          /\ Capture!Event(operation, "Resumed") \in Capture!Events
      BY EventIsTyped DEF Operations, Capture!Kinds
    <2>2. announcing' \in Announcements
      BY <1>5, <2>1, AnnouncingIsTyped DEF Capture!Pause, Capture!Resume, Capture!Announces
    <2> QED BY <1>5, <2>2 DEF Capture!Pause, Capture!Resume, Capture!Acts, Capture!States,
               Capture!uiVars, Announcements
  <1>6. ASSUME Capture!Stop
        PROVE  state' \in Capture!States /\ stopRequested' \in BOOLEAN
               /\ announcing' \in Announcements
    BY <1>6, StopIsTyped
  <1>7. CASE Capture!CancelScreenshotEditor
    <2>1. state' \in Capture!States /\ stopRequested' \in BOOLEAN /\ announcing' \in Announcements
      BY <1>6, <1>7 DEF Capture!CancelScreenshotEditor, Capture!States, Announcements
    <2> QED BY <1>7, <2>1 DEF Capture!CancelScreenshotEditor, Announcements
  <1>8. CASE Capture!StopRecording
    BY <1>6, <1>8 DEF Capture!StopRecording, Announcements
  <1>9. CASE Capture!Shutdown
    BY <1>6, <1>9 DEF Capture!Shutdown, Announcements
  <1>10. CASE Capture!EndShutdown
    BY <1>10 DEF Capture!EndShutdown, Capture!NoCall, Capture!States
  <1>11. CASE Capture!HearEvents
    <2> DEFINE n == Capture!Min({Capture!Batch, Len(captureEvents)})
               s == Capture!After(Surface(editor, phase), SubSeq(captureEvents, 1, n))
    <2>1. n \in 0 .. Len(captureEvents)
      BY SmallerOfTwo DEF Capture!Batch
    <2>2. Surface(editor, phase) \in Surfaces
      BY DEF Surface, Surfaces
    <2>3. SubSeq(captureEvents, 1, n) \in Seq(Capture!Events)
      <3> HIDE DEF n
      <3> QED BY <2>1
    <2>4. s \in Surfaces
      BY <2>2, <2>3, AfterIsTyped
    <2>5. editor' = s.editor /\ phase' = s.phase
      BY <1>11 DEF Capture!HearEvents, Surface
    <2>6. captureEvents' \in Seq(Capture!Events)
      BY <1>11 DEF Capture!HearEvents, Capture!Batch
    <2> HIDE DEF s
    <2>7. editor' \in {"Idle", "Preparing", "Editing", "Saving"}
          /\ phase' \in {"Idle", "SelectingRecording", "StartingRecording", "Recording", "Paused",
                        "Stopping"}
      BY <2>4, <2>5 DEF Surfaces
    <2> QED BY <1>11, <2>6, <2>7 DEF Capture!HearEvents, Capture!serviceVars
  <1> QED BY <1>1, <1>2, <1>3, <1>4, <1>5, <1>7, <1>8, <1>9, <1>10, <1>11 DEF Capture!Ui

(* The types of what the worker does, and of what is announced.             *)
LEMMA WorkerTypes == CaptureInv /\ (Capture!Worker \/ Capture!Announce) => Capture!TypeOK'
PROOF
  <1> SUFFICES ASSUME CaptureInv, Capture!Worker \/ Capture!Announce PROVE Capture!TypeOK'
    OBVIOUS
  <1> USE MaxActsIsNatural DEF CaptureInv, Capture!TypeOK
  <1>1. CASE Capture!CopyDesktop \/ Capture!RenderOutput \/ Capture!SetUpRecording
             \/ Capture!FinalizeRecording \/ Capture!Leave
    <2>1. worker' \in [at : Capture!Places, ending : Capture!Events]
      BY <1>1 DEF Capture!CopyDesktop, Capture!RenderOutput, Capture!SetUpRecording,
         Capture!FinalizeRecording, Capture!Leave, Capture!Ends, Capture!Goes, Capture!Fails,
         Capture!Event, Capture!Events, Capture!Kinds, Capture!Places, Capture!Gone,
         Capture!NoEvent, Capture!Screenshot, Capture!Recording
    <2>2. acts' \in 0 .. MaxActs /\ Capture!WorkerOnly
      BY <1>1 DEF Capture!CopyDesktop, Capture!RenderOutput, Capture!SetUpRecording,
         Capture!FinalizeRecording, Capture!Leave, Capture!Acts, Capture!Fails
    <2> QED BY <2>1, <2>2 DEF Capture!WorkerOnly, Capture!serviceVars, Capture!uiVars
  <1>2. CASE Capture!AnnounceStart \/ Capture!HandOver \/ Capture!ReturnToEditor
             \/ Capture!StartFrames
    <2>0. \A kind \in Capture!Kinds : Capture!Event(operation, kind) \in Capture!Events
      BY EventIsTyped DEF Operations
    <2>1. worker' \in [at : Capture!Places, ending : Capture!Events] /\ acts' \in 0 .. MaxActs
      BY <1>2, <2>0 DEF Capture!AnnounceStart, Capture!HandOver, Capture!ReturnToEditor,
         Capture!StartFrames, Capture!Ends, Capture!Goes, Capture!Fails, Capture!Acts,
         Capture!CompletesStopped, Capture!Kinds, Capture!Places
    <2>2. /\ state' \in Capture!States /\ UNCHANGED <<stopRequested, operation>>
          /\ announcing' \in Announcements
      <3>1. announcing \in Announcements
        BY DEF Announcements
      <3>2. /\ state' \in Capture!States /\ UNCHANGED <<stopRequested, operation>>
            /\ UNCHANGED announcing \/ \E kind \in Capture!Kinds :
                 announcing' = [by |-> "worker", events |-> <<Capture!Event(operation, kind)>>]
        BY <1>2 DEF Capture!AnnounceStart, Capture!HandOver, Capture!ReturnToEditor,
           Capture!StartFrames, Capture!Transition, Capture!NoTransition, Capture!Announces,
           Capture!Kinds, Capture!States, Capture!serviceVars
      <3> QED BY <2>0, <3>1, <3>2, AnnouncingIsTyped
    <2>3. UNCHANGED <<captureEvents, captureClosed, editor, phase, call>>
      BY <1>2 DEF Capture!AnnounceStart, Capture!HandOver, Capture!ReturnToEditor,
         Capture!StartFrames, Capture!uiVars
    <2> QED BY <2>1, <2>2, <2>3 DEF Announcements
  <1>3. CASE Capture!WriteFrames
    BY <1>3 DEF Capture!WriteFrames, Capture!Ends, Capture!Goes, Capture!Fails, Capture!Acts,
       Capture!Event, Capture!Events, Capture!Kinds, Capture!Places, Capture!States, Capture!uiVars
  <1>4. CASE Capture!End
    <2>1. announcing' \in Announcements
      BY <1>4, AnnouncingIsTyped DEF Capture!End, Capture!Announces
    <2> QED BY <1>4, <2>1 DEF Capture!End, Capture!Goes, Capture!Places, Capture!States,
               Capture!uiVars, Announcements
  <1>5. CASE Capture!Announce
    <2> DEFINE q == announcing.events
    <2>1. q \in Seq(Capture!Events) /\ q # <<>>
      BY <1>5 DEF Capture!Announce
    <2>2. /\ Head(q) \in Capture!Events /\ Tail(q) \in Seq(Capture!Events)
          /\ Len(q) # 1 => Tail(q) # <<>>
      <3> HIDE DEF q
      <3>1. Len(q) \in Nat /\ Len(q) > 0 /\ Len(Tail(q)) = Len(q) - 1
        BY <2>1
      <3>2. Len(q) # 1 => Len(Tail(q)) # 0
        BY <3>1
      <3>3. Head(q) \in Capture!Events /\ Tail(q) \in Seq(Capture!Events)
        BY <2>1
      <3>4. Len(<<>>) = 0
        OBVIOUS
      <3>5. Len(Tail(q)) # 0 => Tail(q) # <<>>
        BY <3>4, Zenon
      <3> QED BY <3>2, <3>3, <3>5
    <2>3. captureEvents' \in Seq(Capture!Events)
      BY <1>5, <2>2 DEF Capture!Announce
    <2>4. announcing' \in Announcements
      <3>1. CASE Len(q) = 1
        BY <1>5, <3>1 DEF Capture!Announce, Capture!Free, Announcements
      <3>2. CASE Len(q) # 1
        <4>1. announcing' = [announcing EXCEPT !.events = Tail(q)]
          BY <1>5, <3>2 DEF Capture!Announce
        <4>2. announcing.by # "nobody"
          BY <1>5 DEF Capture!Announce
        <4> HIDE DEF q
        <4> QED BY <2>2, <3>2, <4>1, <4>2 DEF Announcements
      <3> QED BY <3>1, <3>2
    <2> QED BY <1>5, <2>3, <2>4 DEF Capture!Announce, Capture!serviceVars, Capture!uiVars,
               Announcements
  <1> QED BY <1>1, <1>2, <1>3, <1>4, <1>5 DEF Capture!Worker

(* The service remains at what its worker does.                             *)
LEMMA WorkerStaysFit ==
  CaptureInv /\ (Capture!Ui \/ Capture!Worker \/ Capture!Announce) => OperationFits' /\ WorkerFits'
PROOF
  <1> SUFFICES ASSUME CaptureInv, Capture!Ui \/ Capture!Worker \/ Capture!Announce
               PROVE  OperationFits' /\ WorkerFits'
    OBVIOUS
  <1> USE DEF CaptureInv, OperationFits, WorkerFits
  <1>t. /\ state \in Capture!States /\ stopRequested \in BOOLEAN
        /\ operation \in {Capture!Screenshot, Capture!Recording}
        /\ worker \in [at : Capture!Places, ending : Capture!Events]
    BY DEF Capture!TypeOK
  <1>1. CASE UNCHANGED <<state, stopRequested, operation, worker>>
    BY <1>1
  <1>2. CASE Capture!BeginOperation
    <2>1. CASE state = Capture!Expected
      <3>1. /\ worker'.at = Capture!FirstStep[call.to] /\ state' = Capture!Starting[call.to]
            /\ operation' = IF call.to = "record" THEN Capture!Recording ELSE Capture!Screenshot
            /\ stopRequested' = FALSE /\ call.to \in {"prepare", "finalize", "record"}
        BY <1>2, <2>1, StartingIs DEF Capture!BeginOperation, Capture!Gone
      <3> QED BY <3>1, StartingIs DEF Runs
    <2>2. CASE state # Capture!Expected
      BY <1>1, <1>2, <2>2 DEF Capture!BeginOperation, Capture!serviceVars
    <2> QED BY <2>1, <2>2
  <1>3. CASE Capture!Pause \/ Capture!Resume
    BY <1>3 DEF Capture!Pause, Capture!CanPause, Capture!Resume, Runs
  <1>4. ASSUME Capture!Stop, UNCHANGED <<operation, worker>> PROVE OperationFits' /\ WorkerFits'
    BY <1>t, <1>4 DEF Capture!Stop, Runs, Capture!States
  <1>5. CASE Capture!CancelScreenshotEditor
    <2>1. CASE state = "ScreenshotEditing"
      BY <1>5, <2>1 DEF Capture!CancelScreenshotEditor, Runs
    <2>2. CASE state \in {"PreparingScreenshot", "StartingScreenshot"}
      BY <1>4, <1>5, <2>2 DEF Capture!CancelScreenshotEditor
    <2>3. CASE state \notin {"ScreenshotEditing", "PreparingScreenshot", "StartingScreenshot"}
      BY <1>1, <1>5, <2>3 DEF Capture!CancelScreenshotEditor
    <2> QED BY <2>1, <2>2, <2>3
  <1>6. CASE Capture!StopRecording \/ Capture!Shutdown
    BY <1>4, <1>6 DEF Capture!StopRecording, Capture!Shutdown
  <1>7. CASE Capture!EndShutdown
    BY <1>7 DEF Capture!EndShutdown, Capture!Gone, Runs
  <1>8. CASE Capture!BeginScreenshotCapture \/ Capture!FinalizeScreenshot \/ Capture!BeginRecording
             \/ Capture!CompleteCaptureSelection \/ Capture!CheckState \/ Capture!HearEvents
    BY <1>1, <1>8 DEF Capture!BeginScreenshotCapture, Capture!FinalizeScreenshot,
       Capture!BeginRecording, Capture!CompleteCaptureSelection, Capture!CheckState,
       Capture!HearEvents, Capture!serviceVars
  <1>9. CASE Capture!Ui
    BY <1>2, <1>3, <1>5, <1>6, <1>7, <1>8, <1>9 DEF Capture!Ui
  <1>10. ASSUME NEW kind \in {"Completed", "Canceled", "Failed"}, Capture!Ends(kind)
         PROVE  /\ worker'.at = "ending" /\ worker'.ending.operation = operation
                /\ worker'.ending.kind = kind
    BY <1>10 DEF Capture!Ends, Capture!Event
  <1>11. ASSUME NEW place, Capture!Goes(place) PROVE worker'.at = place
    BY <1>t, <1>11 DEF Capture!Goes
  <1>12. ASSUME Capture!WorkerOnly PROVE UNCHANGED <<state, stopRequested, operation>>
    BY <1>12 DEF Capture!WorkerOnly, Capture!serviceVars
  <1>13. CASE Capture!CopyDesktop \/ Capture!RenderOutput
    <2>1. /\ worker.at \in {"copying", "rendering"} /\ UNCHANGED <<state, stopRequested, operation>>
          /\ \/ worker'.at \in {"handing", "returning"}
             \/ worker'.at = "ending" /\ worker'.ending.operation = operation
                /\ worker'.ending.kind \in {"Completed", "Canceled", "Failed"}
      BY <1>10, <1>11, <1>12, <1>13 DEF Capture!CopyDesktop, Capture!RenderOutput, Capture!Fails
    <2> QED BY <2>1 DEF Capture!Screenshot, Capture!Recording
  <1>14. CASE Capture!SetUpRecording
    <2>1. /\ worker.at = "settingUp" /\ UNCHANGED <<state, stopRequested, operation>>
          /\ \/ worker'.at = "going"
             \/ /\ worker'.at = "ending" /\ worker'.ending.operation = operation
                /\ \/ worker'.ending.kind = "Failed"
                   \/ worker'.ending.kind = "Canceled" /\ stopRequested
      BY <1>10, <1>11, <1>12, <1>14 DEF Capture!SetUpRecording, Capture!Fails
    <2> QED BY <2>1
  <1>15. CASE Capture!FinalizeRecording
    <2>1. /\ worker.at = "finalizing" /\ UNCHANGED <<state, stopRequested, operation>>
          /\ worker'.at = "ending" /\ worker'.ending.operation = operation
          /\ worker'.ending.kind \in {"Completed", "Failed"}
      BY <1>10, <1>12, <1>15 DEF Capture!FinalizeRecording, Capture!Fails
    <2> QED BY <2>1
  <1>16. CASE Capture!Leave
    <2>1. worker.at = "leaving" /\ worker'.at = "gone"
         /\ UNCHANGED <<state, stopRequested, operation>>
      BY <1>12, <1>16 DEF Capture!Leave, Capture!Gone
    <2> QED BY <2>1
  <1>17. CASE Capture!AnnounceStart
    <2>1. /\ worker.at = "starting" /\ worker'.at = "copying"
          /\ UNCHANGED <<state, stopRequested, operation>>
      BY <1>11, <1>17 DEF Capture!AnnounceStart, Capture!AtLock, Capture!Transition,
         Capture!NoTransition, Capture!serviceVars
    <2> QED BY <2>1
  <1>18. CASE Capture!HandOver \/ Capture!ReturnToEditor
    <2>1. /\ worker.at \in {"handing", "returning"} /\ UNCHANGED <<stopRequested, operation>>
          /\ \/ state' = "ScreenshotEditing" /\ worker'.at = "leaving"
             \/ state' = state /\ worker'.at = "ending" /\ worker'.ending.operation = operation
                /\ worker'.ending.kind = "Canceled"
      BY <1>10, <1>11, <1>18 DEF Capture!HandOver, Capture!ReturnToEditor, Capture!AtLock,
         Capture!Transition, Capture!NoTransition, Capture!CompletesStopped, Capture!serviceVars
    <2> QED BY <2>1 DEF Runs, Capture!Screenshot, Capture!Recording
  <1>19. CASE Capture!StartFrames
    <2>1. /\ worker.at = "going" /\ UNCHANGED <<stopRequested, operation>>
          /\ \/ /\ state = "StartingRecording" /\ state' = "Recording" /\ worker'.at = "recording"
             \/ /\ state # "StartingRecording" /\ state' = state /\ worker'.at = "ending"
                /\ worker'.ending.operation = operation
                /\ worker'.ending.kind \in {"Canceled", "Failed"}
      BY <1>10, <1>11, <1>19 DEF Capture!StartFrames, Capture!AtLock, Capture!Unchanged,
         Capture!Transition, Capture!NoTransition, Capture!Fails, Capture!serviceVars
    <2> QED BY <1>t, <2>1 DEF Runs
  <1>20. CASE Capture!WriteFrames
    <2>1. /\ worker.at = "recording" /\ UNCHANGED <<stopRequested, operation>>
          /\ \/ stopRequested /\ worker'.at = "finalizing" /\ state' = "Stopping"
             \/ state' = state /\ worker'.at = "ending" /\ worker'.ending.operation = operation
                /\ worker'.ending.kind = "Failed"
      BY <1>10, <1>11, <1>20 DEF Capture!WriteFrames, Capture!Fails
    <2> QED BY <2>1 DEF Runs
  <1>21. CASE Capture!End
    <2>1. worker'.at = "leaving" /\ state' = "Idle"
      BY <1>11, <1>21 DEF Capture!End
    <2> QED BY <2>1 DEF Runs
  <1>22. CASE Capture!Worker
    BY <1>13, <1>14, <1>15, <1>16, <1>17, <1>18, <1>19, <1>20, <1>21, <1>22 DEF Capture!Worker
  <1>23. CASE Capture!Announce
    BY <1>1, <1>23 DEF Capture!Announce, Capture!serviceVars
  <1> QED BY <1>9, <1>22, <1>23

-----------------------------------------------------------------------------
(* The bar hears all that happens.  First, sequences: what is taken from the *)
(* front of a queue is gone from the front of what is pending, and what is  *)
(* emitted moves from the one part to the other.                            *)
LEMMA TakenFromTheFront ==
  ASSUME NEW E, NEW q \in Seq(E), NEW r \in Seq(E), NEW n \in 0 .. Len(q)
  PROVE  /\ SubSeq(q \o r, 1, n) = SubSeq(q, 1, n)
         /\ SubSeq(q \o r, n + 1, Len(q \o r)) = SubSeq(q, n + 1, Len(q)) \o r
         /\ n \in 0 .. Len(q \o r)
PROOF
  <1> DEFINE p == q \o r
             now == SubSeq(q, 1, n)
             later == SubSeq(q, n + 1, Len(q))
  <1>1. /\ p \in Seq(E) /\ Len(p) = Len(q) + Len(r)
        /\ \A i \in 1 .. Len(q) : p[i] = q[i]
        /\ \A i \in 1 .. Len(r) : p[Len(q) + i] = r[i]
    BY ConcatProperties
  <1>2. /\ now \in Seq(E) /\ Len(now) = n /\ \A i \in 1 .. n : now[i] = q[i]
        /\ later \in Seq(E) /\ Len(later) = Len(q) - n
        /\ \A i \in 1 .. Len(q) - n : later[i] = q[i + n]
    OBVIOUS
  <1>3. n \in 0 .. Len(p) /\ Len(q) \in Nat /\ Len(r) \in Nat
    BY <1>1
  <1> HIDE DEF p, now, later
  <1> DEFINE front == SubSeq(p, 1, n)
  <1>4. front = now
    <2>1. front \in Seq(E) /\ Len(front) = n /\ \A i \in 1 .. n : front[i] = p[i]
      BY <1>1, <1>3
    <2> HIDE DEF front
    <2>2. ASSUME NEW i \in 1 .. n PROVE front[i] = now[i]
      <3>1. i \in 1 .. Len(q)
        BY <1>3
      <3> QED BY <1>1, <1>2, <2>1, <3>1
    <2>3. /\ front \in Seq(E) /\ now \in Seq(E) /\ Len(front) = Len(now)
          /\ \A i \in 1 .. Len(front) : front[i] = now[i]
      BY <1>2, <2>1, <2>2
    <2> QED BY <2>3, SeqEqual
  <1> DEFINE rest == SubSeq(p, n + 1, Len(p))
             both == later \o r
  <1>5. rest = both
    <2>1. rest \in Seq(E) /\ Len(rest) = Len(p) - n
          /\ \A i \in 1 .. Len(p) - n : rest[i] = p[i + n]
      BY <1>1, <1>3
    <2>2. both \in Seq(E) /\ Len(both) = Len(p) - n
          /\ \A i \in 1 .. Len(p) - n :
               both[i] = IF i <= Len(q) - n THEN later[i] ELSE r[i - (Len(q) - n)]
      <3>1. /\ both \in Seq(E) /\ Len(both) = Len(later) + Len(r)
            /\ \A i \in 1 .. Len(later) + Len(r) :
                 both[i] = IF i <= Len(later) THEN later[i] ELSE r[i - Len(later)]
        <4>1. later \in Seq(E) /\ r \in Seq(E)
          BY <1>2
        <4>2. /\ later \o r \in Seq(E) /\ Len(later \o r) = Len(later) + Len(r)
              /\ \A i \in 1 .. Len(later) + Len(r) :
                   (later \o r)[i] = IF i <= Len(later) THEN later[i] ELSE r[i - Len(later)]
          BY <4>1, ConcatProperties, Zenon
        <4> QED BY <4>2, Zenon
      <3>2. Len(later) = Len(q) - n /\ Len(later) + Len(r) = Len(p) - n
        BY <1>1, <1>2, <1>3
      <3> HIDE DEF both
      <3> QED BY <3>1, <3>2
    <2> HIDE DEF rest, both
    <2>3. ASSUME NEW i \in 1 .. Len(p) - n PROVE rest[i] = both[i]
      <3>1. CASE i <= Len(q) - n
        <4>1. i \in 1 .. Len(q) - n /\ i + n \in 1 .. Len(q)
          BY <1>1, <1>3, <3>1
        <4> QED BY <1>1, <1>2, <2>1, <2>2, <3>1, <4>1
      <3>2. CASE ~(i <= Len(q) - n)
        <4>1. /\ i - (Len(q) - n) \in 1 .. Len(r) /\ i + n = Len(q) + (i - (Len(q) - n))
          BY <1>1, <1>3, <3>2
        <4>2. p[i + n] = r[i - (Len(q) - n)]
          BY <1>1, <4>1
        <4> QED BY <2>1, <2>2, <3>2, <4>2
      <3> QED BY <3>1, <3>2
    <2> QED BY <2>1, <2>2, <2>3, SeqEqual
  <1> QED BY <1>3, <1>4, <1>5 DEF p, now, later

(* One event is emitted.                                                    *)
LEMMA MovedToTheQueue ==
  ASSUME NEW E, NEW q \in Seq(E), NEW r \in Seq(E), r # <<>>
  PROVE  /\ Append(q, Head(r)) \o Tail(r) = q \o r
         /\ Len(r) = 1 => Append(q, Head(r)) = q \o r
PROOF
  <1> DEFINE h == Head(r)
             t == Tail(r)
  <1>1. h \in E /\ t \in Seq(E) /\ Len(t) = Len(r) - 1
    BY HeadTailProperties
  <1>2. r = <<h>> \o t
    <2>1. /\ Len(<<h>> \o t) = Len(r) /\ <<h>> \o t \in Seq(E)
          /\ \A i \in 1 .. Len(r) : (<<h>> \o t)[i] = IF i <= 1 THEN h ELSE t[i - 1]
      <3>1. <<h>> \in Seq(E) /\ Len(<<h>>) = 1 /\ <<h>>[1] = h
        BY <1>1
      <3> HIDE DEF h, t
      <3> QED BY <1>1, <3>1, ConcatProperties
    <2>2. \A i \in 1 .. Len(r) : r[i] = IF i <= 1 THEN h ELSE t[i - 1]
      BY HeadTailProperties
    <2> HIDE DEF h, t
    <2>3. \A i \in 1 .. Len(r) : r[i] = (<<h>> \o t)[i]
      BY <2>1, <2>2
    <2> QED BY <2>1, <2>3, SeqEqual, Zenon
  <1> HIDE DEF h, t
  <1>3. <<h>> \in Seq(E) /\ Append(q, h) = q \o <<h>>
    BY <1>1, AppendIsConcat
  <1>4. (q \o <<h>>) \o t = q \o r
    <2> DEFINE one == <<h>>
    <2>1. one \in Seq(E) /\ r = one \o t
      BY <1>2, <1>3
    <2> HIDE DEF one
    <2>2. (q \o one) \o t = q \o (one \o t)
      BY <1>1, <2>1, ConcatAssociative
    <2> QED BY <2>1, <2>2 DEF one
  <1>5. Len(r) = 1 => t = <<>>
    BY <1>1
  <1>6. t = <<>> => Append(q, h) = q \o r
    <2>1. Append(q, h) \in Seq(E)
      BY <1>1
    <2> QED BY <1>3, <1>4, <2>1, ConcatEmptySeq, Zenon
  <1> QED BY <1>3, <1>4, <1>5, <1>6 DEF h, t

(* What is announced comes last.                                            *)
LEMMA AnnouncedComesLast ==
  ASSUME NEW q \in Seq(Capture!Events), NEW e \in Capture!Events, NEW f \in Capture!Events
  PROVE  /\ q \o <<>> = q /\ q \o <<e>> = Append(q, e)
         /\ q \o <<e, f>> = Append(Append(q, e), f)
PROOF
  OBVIOUS

(* What the lemmas above ask of the state.                                  *)
LEMMA BarTypes ==
  Capture!TypeOK => /\ Pending \in Seq(Capture!Events) /\ captureEvents \in Seq(Capture!Events)
                    /\ announcing.events \in Seq(Capture!Events)
                    /\ editor \in Editors /\ phase \in Phases
                    /\ state \in Capture!States /\ operation \in Operations
                    /\ \A kind \in Capture!Kinds : Capture!Event(operation, kind) \in Capture!Events
PROOF
  <1> SUFFICES ASSUME Capture!TypeOK PROVE
        /\ Pending \in Seq(Capture!Events) /\ captureEvents \in Seq(Capture!Events)
        /\ announcing.events \in Seq(Capture!Events)
        /\ editor \in Editors /\ phase \in Phases
        /\ state \in Capture!States /\ operation \in Operations
        /\ \A kind \in Capture!Kinds : Capture!Event(operation, kind) \in Capture!Events
    OBVIOUS
  <1>1. captureEvents \in Seq(Capture!Events) /\ announcing.events \in Seq(Capture!Events)
    BY DEF Capture!TypeOK
  <1>2. Pending \in Seq(Capture!Events)
    BY <1>1, ConcatProperties DEF Pending
  <1>3. /\ editor \in Editors /\ phase \in Phases
        /\ state \in Capture!States /\ operation \in Operations
    BY DEF Capture!TypeOK, Editors, Phases, Quiet, Runs, Operations
  <1> QED BY <1>1, <1>2, <1>3, EventIsTyped

(* What is announced while nothing else is comes last in what is pending.   *)
LEMMA AnnouncedIsPending ==
  ASSUME Capture!TypeOK, Capture!LockFree, captureEvents' = captureEvents,
         NEW who, NEW e \in Capture!Events, NEW f \in Capture!Events
  PROVE  /\ announcing' = [by |-> who, events |-> <<e>>] => Pending' = Append(Pending, e)
         /\ announcing' = [by |-> who, events |-> <<e, f>>] =>
              Pending' = Append(Append(Pending, e), f)
PROOF
  <1>1. captureEvents \in Seq(Capture!Events) /\ announcing.events = <<>>
    BY DEF Capture!TypeOK, Capture!LockFree, Capture!Free
  <1>2. Pending = captureEvents
    BY <1>1, ConcatEmptySeq DEF Pending
  <1>3. /\ announcing' = [by |-> who, events |-> <<e>>] => announcing'.events = <<e>>
        /\ announcing' = [by |-> who, events |-> <<e, f>>] => announcing'.events = <<e, f>>
    OBVIOUS
  <1>4. /\ captureEvents \o <<e>> = Append(captureEvents, e)
        /\ captureEvents \o <<e, f>> = Append(Append(captureEvents, e), f)
    BY <1>1, AnnouncedComesLast
  <1>5. Pending' = captureEvents \o announcing'.events
    BY DEF Pending
  <1> QED BY <1>2, <1>3, <1>4, <1>5

(* Stop, which leaves the bar to what it announces.                         *)
LEMMA StopAgrees ==
  CaptureInv /\ ~captureClosed /\ call.to # "record" /\ Capture!LockFree /\ Capture!Stop
    /\ UNCHANGED <<operation, captureEvents>>
  => Agrees(state', operation, editor, phase, call.to, Pending')
PROOF
  <1> SUFFICES ASSUME CaptureInv, ~captureClosed, call.to # "record", Capture!LockFree,
                      Capture!Stop, UNCHANGED <<operation, captureEvents>>
               PROVE  Agrees(state', operation, editor, phase, call.to, Pending')
    OBVIOUS
  <1>1. Agrees(state, operation, editor, phase, call.to, Pending) /\ Capture!TypeOK
    BY DEF CaptureInv, BarFits
  <1> DEFINE e == Capture!Event(operation, "Stopping")
             f == Capture!Event(Capture!Screenshot, "Canceled")
  <1>2. e \in Capture!Events /\ f \in Capture!Events /\ ~OfRecording(f)
        /\ e.kind = "Stopping" /\ (OfRecording(e) <=> operation = Capture!Recording)
    BY <1>1, BarTypes, EventIsTyped DEF Operations, Capture!Kinds, Capture!Event, OfRecording,
       Capture!Screenshot, Capture!Recording
  <1>3. CASE state \in {"Idle", "Stopping"}
    <2>1. Pending' = Pending /\ state' = state
      BY <1>3 DEF Capture!Stop, Pending
    <2> QED BY <1>1, <2>1
  <1>4. CASE state = "ScreenshotEditing"
    <2>1. operation = Capture!Screenshot /\ ~Underway(state, operation)
          /\ ~Underway("Idle", operation)
      BY <1>4 DEF CaptureInv, OperationFits, Underway, Runs
    <2>2. /\ state' = "Idle" /\ announcing' = [by |-> "ui", events |-> <<e, f>>]
      BY <1>4 DEF Capture!Stop, Capture!Announces
    <2>3. Pending' = Append(Append(Pending, e), f)
      BY <1>1, <1>2, <2>2, AnnouncedIsPending
    <2>4. ~OfRecording(e)
      BY <1>2, <2>1 DEF Capture!Screenshot, Capture!Recording
    <2> HIDE DEF e, f
    <2>5. Agrees("Idle", operation, editor, phase, call.to, Pending)
      BY <1>1, <2>1, ElsewhereIsNothing
    <2>6. Append(Pending, e) \in Seq(Capture!Events)
      BY <1>1, <1>2, BarTypes, OneMore
    <2>7. Agrees("Idle", operation, editor, phase, call.to, Append(Pending, e))
      BY <1>1, <1>2, <2>4, <2>5, BarTypes, OthersAreNothing
    <2>8. Agrees("Idle", operation, editor, phase, call.to, Append(Append(Pending, e), f))
      BY <1>1, <1>2, <2>6, <2>7, BarTypes, OthersAreNothing
    <2> QED BY <2>2, <2>3, <2>8
  <1>5. CASE state \in {"PreparingScreenshot", "StartingScreenshot"}
    <2>1. operation = Capture!Screenshot /\ ~Underway(state, operation)
          /\ ~Underway("Stopping", operation)
      BY <1>5 DEF CaptureInv, OperationFits, Underway, Runs, Capture!Screenshot, Capture!Recording
    <2>2. /\ state' = "Stopping" /\ announcing' = [by |-> "ui", events |-> <<e>>]
      BY <1>5 DEF Capture!Stop, Capture!Announces
    <2>3. Pending' = Append(Pending, e)
      BY <1>1, <1>2, <2>2, AnnouncedIsPending
    <2>4. ~OfRecording(e)
      BY <1>2, <2>1 DEF Capture!Screenshot, Capture!Recording
    <2> HIDE DEF e, f
    <2>5. Agrees("Stopping", operation, editor, phase, call.to, Pending)
      BY <1>1, <2>1, ElsewhereIsNothing
    <2>6. Agrees("Stopping", operation, editor, phase, call.to, Append(Pending, e))
      BY <1>1, <1>2, <2>4, <2>5, BarTypes, OthersAreNothing
    <2> QED BY <2>2, <2>3, <2>6
  <1>6. CASE state \in Runs
    <2>1. operation = Capture!Recording /\ Underway(state, operation)
      BY <1>6 DEF CaptureInv, OperationFits, Underway
    <2>2. /\ state' = "Stopping" /\ announcing' = [by |-> "ui", events |-> <<e>>]
      BY <1>6 DEF Capture!Stop, Capture!Announces, Runs
    <2>3. Pending' = Append(Pending, e)
      BY <1>1, <1>2, <2>2, AnnouncedIsPending
    <2>4. OfRecording(e) /\ Reports(state, e, "Stopping")
      BY <1>2, <1>6, <2>1 DEF Reports
    <2> HIDE DEF e, f
    <2>5. Agrees("Stopping", operation, editor, phase, call.to, Append(Pending, e))
      BY <1>1, <1>2, <2>1, <2>4, BarTypes, ReportsAreHeard
    <2> QED BY <2>2, <2>3, <2>5
  <1> QED BY <1>1, <1>3, <1>4, <1>5, <1>6, BarTypes DEF Capture!States, Runs

(* StopRecording, which has the bar say so at once.                         *)
LEMMA StopRecordingAgrees ==
  CaptureInv /\ ~captureClosed /\ Capture!StopRecording =>
    Agrees(state', operation, editor, "Stopping", "none", Pending')
PROOF
  <1> SUFFICES ASSUME CaptureInv, ~captureClosed, Capture!StopRecording
               PROVE  Agrees(state', operation, editor, "Stopping", "none", Pending')
    OBVIOUS
  <1>1. /\ call.to = "none" /\ phase \notin Quiet /\ Capture!LockFree /\ Capture!Stop
        /\ UNCHANGED <<operation, captureEvents>>
    BY DEF Capture!StopRecording, Capture!UiWaits, Capture!NoCall, Quiet
  <1>2. Agrees(state, operation, editor, phase, "none", Pending) /\ Capture!TypeOK
    BY <1>1 DEF CaptureInv, BarFits
  <1> DEFINE e == Capture!Event(operation, "Stopping")
             f == Capture!Event(Capture!Screenshot, "Canceled")
  <1>3. e \in Capture!Events /\ f \in Capture!Events /\ ~OfRecording(f)
        /\ e.kind = "Stopping" /\ (OfRecording(e) <=> operation = Capture!Recording)
    BY <1>2, BarTypes, EventIsTyped DEF Operations, Capture!Kinds, Capture!Event, OfRecording,
       Capture!Screenshot, Capture!Recording
  <1>4. "Stopping" \in Phases
    BY DEF Phases
  <1>5. CASE state \in Runs
    <2>1. operation = Capture!Recording
      BY <1>5 DEF CaptureInv, OperationFits
    <2>2. /\ state' = "Stopping" /\ announcing' = [by |-> "ui", events |-> <<e>>]
      BY <1>1, <1>5 DEF Capture!Stop, Capture!Announces, Runs
    <2>3. Pending' = Append(Pending, e)
      BY <1>1, <1>2, <1>3, <2>2, AnnouncedIsPending
    <2> HIDE DEF e, f
    <2>4. Agrees("Stopping", operation, editor, "Stopping", "none", Append(Pending, e))
      BY <1>1, <1>2, <1>3, <1>5, <2>1, BarTypes, StoppingAgrees
    <2> QED BY <2>2, <2>3, <2>4
  <1>6. ASSUME state \notin Runs PROVE Agrees(state, operation, editor, "Stopping", "none", Pending)
    BY <1>1, <1>2, <1>6, BarTypes, StoppingAgrees
  <1>7. CASE state \in {"Idle", "Stopping"}
    <2>1. Pending' = Pending /\ state' = state /\ state \notin Runs
      BY <1>1, <1>7 DEF Capture!Stop, Pending, Runs
    <2> QED BY <1>6, <2>1
  <1>8. CASE state = "ScreenshotEditing"
    <2>1. operation = Capture!Screenshot /\ ~Underway(state, operation)
          /\ ~Underway("Idle", operation)
          /\ state \notin Runs
      BY <1>8 DEF CaptureInv, OperationFits, Underway, Runs
    <2>2. /\ state' = "Idle" /\ announcing' = [by |-> "ui", events |-> <<e, f>>]
      BY <1>1, <1>8 DEF Capture!Stop, Capture!Announces
    <2>3. Pending' = Append(Append(Pending, e), f)
      BY <1>1, <1>2, <1>3, <2>2, AnnouncedIsPending
    <2>4. ~OfRecording(e)
      BY <1>3, <2>1 DEF Capture!Screenshot, Capture!Recording
    <2> HIDE DEF e, f
    <2>5. Agrees("Idle", operation, editor, "Stopping", "none", Pending)
      BY <1>6, <2>1, ElsewhereIsNothing
    <2>6. Append(Pending, e) \in Seq(Capture!Events)
      BY <1>2, <1>3, BarTypes, OneMore
    <2>7. Agrees("Idle", operation, editor, "Stopping", "none", Append(Pending, e))
      BY <1>2, <1>3, <1>4, <2>4, <2>5, BarTypes, OthersAreNothing
    <2>8. Agrees("Idle", operation, editor, "Stopping", "none", Append(Append(Pending, e), f))
      BY <1>2, <1>3, <1>4, <2>6, <2>7, BarTypes, OthersAreNothing
    <2> QED BY <2>2, <2>3, <2>8
  <1>9. CASE state \in {"PreparingScreenshot", "StartingScreenshot"}
    <2>1. operation = Capture!Screenshot /\ ~Underway(state, operation)
          /\ ~Underway("Stopping", operation) /\ state \notin Runs
      BY <1>9 DEF CaptureInv, OperationFits, Underway, Runs, Capture!Screenshot, Capture!Recording
    <2>2. /\ state' = "Stopping" /\ announcing' = [by |-> "ui", events |-> <<e>>]
      BY <1>1, <1>9 DEF Capture!Stop, Capture!Announces
    <2>3. Pending' = Append(Pending, e)
      BY <1>1, <1>2, <1>3, <2>2, AnnouncedIsPending
    <2>4. ~OfRecording(e)
      BY <1>3, <2>1 DEF Capture!Screenshot, Capture!Recording
    <2> HIDE DEF e, f
    <2>5. Agrees("Stopping", operation, editor, "Stopping", "none", Pending)
      BY <1>6, <2>1, ElsewhereIsNothing
    <2>6. Agrees("Stopping", operation, editor, "Stopping", "none", Append(Pending, e))
      BY <1>2, <1>3, <1>4, <2>4, <2>5, BarTypes, OthersAreNothing
    <2> QED BY <2>2, <2>3, <2>6
  <1> QED BY <1>2, <1>5, <1>7, <1>8, <1>9, BarTypes DEF Capture!States, Runs

-----------------------------------------------------------------------------
(* Every step keeps the bar and the service agreed.  What changes neither    *)
(* the service nor its events asks only for what the bar is told directly.  *)
LEMMA OnlyTheBarChanges ==
  ASSUME CaptureInv, ~captureClosed,
         UNCHANGED <<state, stopRequested, operation, announcing, captureEvents, captureClosed>>
  PROVE  /\ Agrees(state, operation, editor, phase, call.to, Pending) /\ Capture!TypeOK
         /\ (BarFits' <=> Agrees(state, operation, editor', phase', call'.to, Pending))
PROOF
  <1>1. Pending' = Pending
    BY DEF Pending
  <1> QED BY <1>1 DEF CaptureInv, BarFits

(* The user begins something.                                               *)
LEMMA BeginningAgrees ==
  ASSUME CaptureInv, ~captureClosed,
         Capture!BeginScreenshotCapture \/ Capture!FinalizeScreenshot
           \/ Capture!BeginRecording \/ Capture!CompleteCaptureSelection
  PROVE  BarFits'
PROOF
  <1>1. UNCHANGED <<state, stopRequested, operation, announcing, captureEvents, captureClosed>>
    BY DEF Capture!BeginScreenshotCapture, Capture!FinalizeScreenshot, Capture!BeginRecording,
       Capture!CompleteCaptureSelection, Capture!serviceVars
  <1>2. call.to = "none"
    BY DEF Capture!BeginScreenshotCapture, Capture!FinalizeScreenshot, Capture!BeginRecording,
       Capture!CompleteCaptureSelection, Capture!UiWaits, Capture!NoCall
  <1>3. /\ Agrees(state, operation, editor, phase, "none", Pending) /\ Capture!TypeOK
        /\ (BarFits' <=> Agrees(state, operation, editor', phase', call'.to, Pending))
    BY <1>1, <1>2, OnlyTheBarChanges
  <1>4. CASE Capture!BeginScreenshotCapture \/ Capture!FinalizeScreenshot
    <2>1. /\ editor' \in Editors /\ call'.to \in {"prepare", "finalize"} /\ phase' = phase
      BY <1>4 DEF Capture!BeginScreenshotCapture, Capture!FinalizeScreenshot, Editors
    <2>2. Agrees(state, operation, editor, phase, call'.to, Pending)
      BY <1>3, <2>1, CallsAreNothing
    <2> QED BY <1>3, <2>1, <2>2, BarTypes, EditorIsNothing
  <1>5. CASE Capture!BeginRecording \/ Capture!CompleteCaptureSelection
    <2>1. /\ phase \in Quiet /\ editor' = editor
          /\ \/ phase' = "StartingRecording" /\ call'.to = "record"
             \/ phase' \in Quiet /\ call'.to = "none"
      BY <1>2, <1>5 DEF Capture!BeginRecording, Capture!CompleteCaptureSelection, Quiet
    <2>2. /\ Agrees(state, operation, editor, "StartingRecording", "record", Pending)
          /\ \A new \in Quiet : Agrees(state, operation, editor, new, "none", Pending)
      BY <1>3, <2>1, BarTypes, AskingAgrees
    <2> QED BY <1>3, <2>1, <2>2
  <1> QED BY <1>4, <1>5

(* The service refuses.                                                     *)
LEMMA RefusedAgrees ==
  ASSUME CaptureInv, ~captureClosed, call.to \in DOMAIN Capture!Starting, Capture!Refused,
         UNCHANGED <<state, stopRequested, operation, announcing, captureEvents, captureClosed>>
  PROVE  BarFits'
PROOF
  <1>1. /\ Agrees(state, operation, editor, phase, call.to, Pending) /\ Capture!TypeOK
        /\ (BarFits' <=> Agrees(state, operation, editor', phase', call'.to, Pending))
    BY OnlyTheBarChanges
  <1>2. call'.to = "none" /\ call.to \in {"prepare", "finalize", "record"}
    BY StartingIs DEF Capture!Refused, Capture!NoCall
  <1>3. CASE call.to = "record"
    <2>1. phase' = "Idle" /\ editor' = editor
      BY <1>3 DEF Capture!Refused
    <2>2. Agrees(state, operation, editor, "Idle", "none", Pending)
      BY <1>1, <1>3, BarTypes, AnsweringAgrees
    <2> QED BY <1>1, <1>2, <2>1, <2>2
  <1>4. CASE call.to # "record"
    <2>1. editor' \in Editors /\ phase' = phase
      BY <1>2, <1>4 DEF Capture!Refused, Editors
    <2>2. Agrees(state, operation, editor, phase, "none", Pending)
      BY <1>1, <1>4, CallsAreNothing
    <2> QED BY <1>1, <1>2, <2>1, <2>2, BarTypes, EditorIsNothing
  <1> QED BY <1>3, <1>4

(* A call of the service checks its state, and then begins its operation.   *)
LEMMA CallingAgrees ==
  ASSUME CaptureInv, ~captureClosed, Capture!CheckState \/ Capture!BeginOperation
  PROVE  BarFits'
PROOF
  <1>1. call.to \in DOMAIN Capture!Starting /\ call.to \in {"prepare", "finalize", "record"}
    BY StartingIs DEF Capture!CheckState, Capture!BeginOperation
  <1>2. CASE Capture!CheckState
    <2>1. UNCHANGED <<state, stopRequested, operation, announcing, captureEvents, captureClosed>>
      BY <1>2 DEF Capture!CheckState, Capture!serviceVars
    <2>2. CASE Capture!Refused
      BY <1>1, <2>1, <2>2, RefusedAgrees
    <2>3. CASE call' = [call EXCEPT !.at = "joining"] /\ UNCHANGED <<editor, phase>>
      <3>1. /\ Agrees(state, operation, editor, phase, call.to, Pending) /\ Capture!TypeOK
            /\ (BarFits' <=> Agrees(state, operation, editor', phase', call'.to, Pending))
        BY <2>1, OnlyTheBarChanges
      <3>2. call'.to = call.to
        BY <2>3, <3>1 DEF Capture!TypeOK
      <3> QED BY <2>3, <3>1, <3>2
    <2> QED BY <1>2, <2>2, <2>3 DEF Capture!CheckState
  <1>3. CASE Capture!BeginOperation /\ state # Capture!Expected
    <2>1. UNCHANGED <<state, stopRequested, operation, announcing, captureEvents, captureClosed>>
          /\ Capture!Refused
      BY <1>3 DEF Capture!BeginOperation, Capture!serviceVars
    <2> QED BY <1>1, <2>1, RefusedAgrees
  <1>4. CASE Capture!BeginOperation /\ state = Capture!Expected
    <2>1. /\ state' = Capture!Starting[call.to] /\ call'.to = "none"
          /\ operation' = IF call.to = "record" THEN Capture!Recording ELSE Capture!Screenshot
          /\ UNCHANGED <<editor, phase, announcing, captureEvents, captureClosed>>
      BY <1>4 DEF Capture!BeginOperation, Capture!NoCall
    <2>2. /\ Agrees(state, operation, editor, phase, call.to, Pending) /\ Capture!TypeOK
          /\ Pending' = Pending
      BY <2>1 DEF CaptureInv, BarFits, Pending
    <2>3. CASE call.to = "record"
      <3>1. state' = "StartingRecording" /\ operation' = Capture!Recording
        BY <2>1, <2>3, StartingIs
      <3>2. Agrees("StartingRecording", Capture!Recording, editor, phase, "none", Pending)
        BY <2>2, <2>3, BarTypes, AnsweringAgrees
      <3> QED BY <2>1, <2>2, <3>1, <3>2 DEF BarFits
    <2>4. CASE call.to # "record"
      <3>1. ~Underway(state, operation) /\ ~Underway(state', operation')
        BY <1>1, <1>4, <2>1, <2>4, StartingIs DEF Capture!Expected, Underway, Runs
      <3>2. Agrees(state', operation', editor, phase, "none", Pending)
        BY <2>2, <2>4, <3>1, ElsewhereIsNothing
      <3> QED BY <2>1, <2>2, <3>2 DEF BarFits
    <2> QED BY <2>3, <2>4
  <1> QED BY <1>2, <1>3, <1>4

(* Pause and Resume.                                                        *)
LEMMA PausingAgrees ==
  ASSUME CaptureInv, ~captureClosed, Capture!Pause \/ Capture!Resume PROVE BarFits'
PROOF
  <1>1. /\ Capture!LockFree /\ call.to = "none"
        /\ UNCHANGED <<operation, captureEvents, captureClosed, editor, phase, call>>
    BY DEF Capture!Pause, Capture!Resume, Capture!UiWaits, Capture!NoCall, Capture!uiVars
  <1>2. Agrees(state, operation, editor, phase, "none", Pending) /\ Capture!TypeOK
    BY <1>1 DEF CaptureInv, BarFits
  <1>3. PICK kind \in {"Paused", "Resumed"} :
          /\ announcing' = [by |-> "ui", events |-> <<Capture!Event(operation, kind)>>]
          /\ \/ kind = "Paused" /\ state = "Recording" /\ state' = "Paused"
             \/ kind = "Resumed" /\ state = "Paused" /\ state' = "Recording"
    BY DEF Capture!Pause, Capture!Resume, Capture!CanPause, Capture!Announces
  <1> DEFINE e == Capture!Event(operation, kind)
  <1>4. operation = Capture!Recording /\ Underway(state, operation)
    BY <1>3 DEF CaptureInv, OperationFits, Underway, Runs
  <1>5. e \in Capture!Events /\ OfRecording(e) /\ Reports(state, e, state')
    BY <1>2, <1>3, <1>4, BarTypes DEF Capture!Kinds, Capture!Event, OfRecording, Reports
  <1>6. Pending' = Append(Pending, e)
    BY <1>1, <1>2, <1>3, <1>5, AnnouncedIsPending
  <1> HIDE DEF e
  <1>7. Agrees(state', operation, editor, phase, "none", Append(Pending, e))
    BY <1>2, <1>4, <1>5, BarTypes, ReportsAreHeard
  <1> QED BY <1>1, <1>6, <1>7 DEF BarFits

(* The editor, the bar and the end of the program stop what runs.           *)
LEMMA StoppingIsFit ==
  ASSUME CaptureInv, ~captureClosed,
         Capture!CancelScreenshotEditor \/ Capture!StopRecording \/ Capture!Shutdown
  PROVE  BarFits'
PROOF
  <1>1. /\ Capture!LockFree /\ call.to = "none" /\ Capture!UiWaits
        /\ UNCHANGED <<operation, captureEvents, captureClosed>>
    BY DEF Capture!CancelScreenshotEditor, Capture!StopRecording, Capture!Shutdown,
       Capture!UiWaits, Capture!NoCall
  <1>2. Agrees(state, operation, editor, phase, "none", Pending) /\ Capture!TypeOK
    BY <1>1 DEF CaptureInv, BarFits
  <1>3. ASSUME Capture!Stop PROVE Agrees(state', operation, editor, phase, "none", Pending')
    BY <1>1, <1>3, StopAgrees
  <1>4. Pending' = captureEvents' \o announcing'.events
    BY DEF Pending
  <1>5. CASE Capture!CancelScreenshotEditor
    <2>1. editor' = "Idle" /\ "Idle" \in Editors /\ UNCHANGED <<phase, call>>
      BY <1>5 DEF Capture!CancelScreenshotEditor, Editors
    <2>2. Agrees(state', operation, editor, phase, "none", Pending')
      <3>1. CASE state = "ScreenshotEditing"
        <4>1. state' = "Idle" /\ Pending' = Pending
          BY <1>1, <1>5, <3>1 DEF Capture!CancelScreenshotEditor, Pending
        <4>2. ~Underway(state, operation) /\ ~Underway("Idle", operation)
          BY <3>1 DEF Underway, Runs
        <4>3. Agrees("Idle", operation, editor, phase, "none", Pending)
          BY <1>2, <4>2, ElsewhereIsNothing
        <4> QED BY <4>1, <4>3
      <3>2. CASE state \in {"PreparingScreenshot", "StartingScreenshot"}
        BY <1>3, <1>5, <3>2 DEF Capture!CancelScreenshotEditor
      <3>3. CASE state \notin {"ScreenshotEditing", "PreparingScreenshot", "StartingScreenshot"}
        <4>1. state' = state /\ Pending' = Pending
          BY <1>1, <1>5, <3>3 DEF Capture!CancelScreenshotEditor, Pending
        <4> QED BY <1>2, <4>1
      <3> QED BY <3>1, <3>2, <3>3
    <2>3. Pending' \in Seq(Capture!Events)
      <3>1. Capture!TypeOK'
        BY <1>5, UiTypes DEF Capture!Ui
      <3>2. captureEvents' \in Seq(Capture!Events) /\ announcing'.events \in Seq(Capture!Events)
        BY <3>1 DEF Capture!TypeOK
      <3> QED BY <1>4, <3>2, ConcatProperties
    <2>4. Agrees(state', operation, "Idle", phase, "none", Pending')
      BY <1>2, <2>1, <2>2, <2>3, BarTypes, EditorIsNothing
    <2> QED BY <1>1, <2>1, <2>4 DEF BarFits
  <1>6. CASE Capture!StopRecording
    <2>1. phase' = "Stopping" /\ UNCHANGED <<editor, call>>
      BY <1>6 DEF Capture!StopRecording
    <2>2. Agrees(state', operation, editor, "Stopping", "none", Pending')
      BY <1>6, StopRecordingAgrees
    <2> QED BY <1>1, <2>1, <2>2 DEF BarFits
  <1>7. CASE Capture!Shutdown
    <2>1. call'.to = "shutdown" /\ UNCHANGED <<editor, phase>> /\ Capture!Stop
      BY <1>7 DEF Capture!Shutdown
    <2>2. Agrees(state', operation, editor, phase, "shutdown", Pending')
      BY <1>3, <2>1, CallsAreNothing
    <2> QED BY <1>1, <2>1, <2>2 DEF BarFits
  <1> QED BY <1>5, <1>6, <1>7

(* The UI thread hears a batch of the events.                               *)
LEMMA ABatchAgrees == ASSUME CaptureInv, ~captureClosed, Capture!HearEvents PROVE BarFits'
PROOF
  <1> DEFINE q == captureEvents
             r == announcing.events
             n == Capture!Min({Capture!Batch, Len(q)})
             s == Capture!After(Surface(editor, phase), SubSeq(q, 1, n))
  <1>1. /\ Agrees(state, operation, editor, phase, "none", Pending) /\ Capture!TypeOK
        /\ call.to = "none"
    BY DEF CaptureInv, BarFits, Capture!HearEvents, Capture!UiWaits, Capture!NoCall
  <1>2. q \in Seq(Capture!Events) /\ r \in Seq(Capture!Events)
    BY <1>1, BarTypes
  <1>3. n \in 0 .. Len(q) /\ n = IF 8 <= Len(q) THEN 8 ELSE Len(q)
    BY <1>2, SmallerOfTwo DEF Capture!Batch
  <1>4. /\ editor' = s.editor /\ phase' = s.phase
        /\ UNCHANGED <<state, operation, announcing, captureClosed, call>>
        /\ captureEvents' = SubSeq(q, 9, Len(q))
    <2>1. Capture!Batch + 1 = 9
      BY DEF Capture!Batch
    <2>2. editor' = s.editor /\ phase' = s.phase
      BY DEF Capture!HearEvents, Surface
    <2>3. /\ UNCHANGED <<state, operation, announcing, captureClosed, call>>
          /\ captureEvents' = SubSeq(q, Capture!Batch + 1, Len(q))
      BY DEF Capture!HearEvents, Capture!serviceVars
    <2> HIDE DEF s, q
    <2> QED BY <2>1, <2>2, <2>3
  <1>5. captureEvents' = SubSeq(q, n + 1, Len(q))
    <2>1. CASE 8 <= Len(q)
      <3>1. n + 1 = 9
        BY <1>3, <2>1
      <3> HIDE DEF n, q
      <3> QED BY <1>4, <3>1
    <2>2. CASE ~(8 <= Len(q))
      <3>1. n + 1 > Len(q) /\ 9 > Len(q) /\ n + 1 \in Int /\ 9 \in Int /\ Len(q) \in Int
        BY <1>2, <1>3, <2>2
      <3> HIDE DEF n, q
      <3> QED BY <1>4, <3>1, SubSeqEmpty
    <2> QED BY <2>1, <2>2
  <1> HIDE DEF n
  <1>6. Pending' = SubSeq(q, n + 1, Len(q)) \o r /\ Pending = q \o r
    BY <1>4, <1>5 DEF Pending
  <1>7. /\ n \in 0 .. Len(q \o r) /\ SubSeq(q \o r, 1, n) = SubSeq(q, 1, n)
        /\ SubSeq(q \o r, n + 1, Len(q \o r)) = SubSeq(q, n + 1, Len(q)) \o r
    BY <1>2, <1>3, TakenFromTheFront
  <1>8. /\ s = Capture!After(Surface(editor, phase), SubSeq(Pending, 1, n))
        /\ Pending' = SubSeq(Pending, n + 1, Len(Pending)) /\ n \in 0 .. Len(Pending)
    BY <1>6, <1>7
  <1> HIDE DEF s, q, r
  <1>9. Agrees(state, operation, s.editor, s.phase, "none", Pending')
    BY <1>1, <1>8, BarTypes, HearingAgrees
  <1> QED BY <1>1, <1>4, <1>9 DEF BarFits

(* All steps of the UI thread.                                              *)
LEMMA UiAgrees == CaptureInv /\ Capture!Ui => BarFits'
PROOF
  <1> SUFFICES ASSUME CaptureInv, Capture!Ui, ~captureClosed' PROVE BarFits'
    BY DEF BarFits
  <1>1. ~captureClosed
    BY DEF Capture!Ui, Capture!BeginScreenshotCapture, Capture!FinalizeScreenshot,
       Capture!BeginRecording, Capture!CompleteCaptureSelection, Capture!CheckState,
       Capture!BeginOperation, Capture!Pause, Capture!Resume, Capture!CancelScreenshotEditor,
       Capture!StopRecording, Capture!Shutdown, Capture!EndShutdown, Capture!HearEvents
  <1>2. ~Capture!EndShutdown
    BY DEF Capture!EndShutdown
  <1> QED BY <1>1, <1>2, BeginningAgrees, CallingAgrees, PausingAgrees, StoppingIsFit, ABatchAgrees
          DEF Capture!Ui

(* The worker of a screenshot changes and announces what is nothing to the  *)
(* bar.                                                                     *)
LEMMA ScreenshotsAreNothing ==
  ASSUME CaptureInv, ~captureClosed, Capture!LockFree, operation = Capture!Screenshot,
         NEW e \in Capture!Events, ~OfRecording(e),
         announcing' = [by |-> "worker", events |-> <<e>>], state' \notin Runs,
         UNCHANGED <<operation, captureEvents, captureClosed, editor, phase, call>>
  PROVE  BarFits'
PROOF
  <1>1. Agrees(state, operation, editor, phase, call.to, Pending) /\ Capture!TypeOK
    BY DEF CaptureInv, BarFits
  <1>2. ~Underway(state, operation) /\ ~Underway(state', operation)
    BY DEF CaptureInv, OperationFits, Underway, Capture!Screenshot, Capture!Recording
  <1>3. Pending' = Append(Pending, e)
    BY <1>1, AnnouncedIsPending
  <1>4. Agrees(state', operation, editor, phase, call.to, Pending)
    BY <1>1, <1>2, ElsewhereIsNothing
  <1>5. Agrees(state', operation, editor, phase, call.to, Append(Pending, e))
    BY <1>1, <1>4, BarTypes, OthersAreNothing
  <1> QED BY <1>3, <1>5 DEF BarFits

(* The worker of a recording announces what the bar is to show.             *)
LEMMA RecordingsAreHeard ==
  ASSUME CaptureInv, ~captureClosed, Capture!LockFree, operation = Capture!Recording,
         Underway(state, operation),
         NEW e \in Capture!Events, OfRecording(e), Reports(state, e, state'),
         announcing' = [by |-> "worker", events |-> <<e>>],
         UNCHANGED <<operation, captureEvents, captureClosed, editor, phase, call>>
  PROVE  BarFits'
PROOF
  <1>1. Agrees(state, operation, editor, phase, call.to, Pending) /\ Capture!TypeOK
    BY DEF CaptureInv, BarFits
  <1>2. Pending' = Append(Pending, e)
    BY <1>1, AnnouncedIsPending
  <1>3. Agrees(state', operation, editor, phase, call.to, Append(Pending, e))
    BY <1>1, BarTypes, ReportsAreHeard
  <1> QED BY <1>2, <1>3 DEF BarFits

(* All steps of the worker, and of whoever emits an event.                  *)
LEMMA WorkerAgrees == CaptureInv /\ (Capture!Worker \/ Capture!Announce) => BarFits'
PROOF
  <1> SUFFICES ASSUME CaptureInv, Capture!Worker \/ Capture!Announce, ~captureClosed'
               PROVE  BarFits'
    BY DEF BarFits
  <1>1. UNCHANGED <<captureClosed, editor, phase, call>>
    BY DEF Capture!Worker, Capture!AnnounceStart, Capture!CopyDesktop, Capture!HandOver,
       Capture!RenderOutput, Capture!ReturnToEditor, Capture!SetUpRecording, Capture!StartFrames,
       Capture!WriteFrames, Capture!FinalizeRecording, Capture!End, Capture!Leave,
       Capture!Announce, Capture!WorkerOnly, Capture!uiVars
  <1>2. ~captureClosed /\ Agrees(state, operation, editor, phase, call.to, Pending)
        /\ Capture!TypeOK
    BY <1>1 DEF CaptureInv, BarFits
  <1>3. CASE UNCHANGED <<state, operation, announcing, captureEvents>>
    BY <1>1, <1>2, <1>3 DEF BarFits, Pending
  <1>4. CASE Capture!CopyDesktop \/ Capture!RenderOutput \/ Capture!SetUpRecording
             \/ Capture!FinalizeRecording \/ Capture!Leave
    BY <1>3, <1>4 DEF Capture!CopyDesktop, Capture!RenderOutput, Capture!SetUpRecording,
       Capture!FinalizeRecording, Capture!Leave, Capture!WorkerOnly, Capture!serviceVars
  <1>5. CASE Capture!AnnounceStart \/ Capture!HandOver \/ Capture!ReturnToEditor
    <2>1. /\ Capture!LockFree /\ operation = Capture!Screenshot
          /\ UNCHANGED <<operation, captureEvents>>
          /\ \/ UNCHANGED <<state, announcing>>
             \/ /\ state' \in {"PreparingScreenshot", "ScreenshotEditing"}
                /\ \E kind \in Capture!Kinds : announcing' =
                     [by |-> "worker", events |-> <<Capture!Event(operation, kind)>>]
      BY <1>5 DEF Capture!AnnounceStart, Capture!HandOver, Capture!ReturnToEditor, Capture!AtLock,
         Capture!Transition, Capture!NoTransition, Capture!Announces, Capture!serviceVars,
         Capture!Kinds, CaptureInv, OperationFits
    <2>2. ASSUME NEW kind \in Capture!Kinds,
                 state' \in {"PreparingScreenshot", "ScreenshotEditing"},
                 announcing' = [by |-> "worker", events |-> <<Capture!Event(operation, kind)>>]
          PROVE  BarFits'
      <3>1. /\ Capture!Event(operation, kind) \in Capture!Events
            /\ ~OfRecording(Capture!Event(operation, kind)) /\ state' \notin Runs
        BY <1>2, <2>1, <2>2, BarTypes DEF Capture!Event, OfRecording, Capture!Screenshot,
           Capture!Recording, Runs
      <3> QED BY <1>1, <1>2, <2>1, <2>2, <3>1, ScreenshotsAreNothing
    <2> QED BY <1>3, <2>1, <2>2
  <1>6. CASE Capture!StartFrames
    <2>1. CASE UNCHANGED <<state, operation, announcing>>
      BY <1>3, <1>6, <2>1 DEF Capture!StartFrames
    <2>2. CASE Capture!Unchanged("StartingRecording")
      <3> DEFINE e == Capture!Event(operation, "Started")
      <3>1. /\ Capture!LockFree /\ operation = Capture!Recording /\ state = "StartingRecording"
            /\ UNCHANGED <<operation, captureEvents>> /\ state' = "Recording"
            /\ announcing' = [by |-> "worker", events |-> <<e>>]
        BY <1>6, <2>2 DEF Capture!StartFrames, Capture!AtLock, Capture!Transition,
           Capture!Announces, Capture!Unchanged, CaptureInv, OperationFits
      <3>2. /\ e \in Capture!Events /\ OfRecording(e) /\ Reports(state, e, state')
            /\ Underway(state, operation)
        BY <1>2, <3>1, BarTypes DEF Capture!Event, Capture!Kinds, OfRecording, Reports,
           Underway, Runs
      <3> HIDE DEF e
      <3> QED BY <1>1, <1>2, <3>1, <3>2, RecordingsAreHeard
    <2> QED BY <1>6, <2>1, <2>2 DEF Capture!StartFrames, Capture!NoTransition, Capture!serviceVars
  <1>7. CASE Capture!WriteFrames
    BY <1>3, <1>7 DEF Capture!WriteFrames, CaptureInv, WorkerFits
  <1>8. CASE Capture!End
    <2> DEFINE e == worker.ending
    <2>1. /\ Capture!LockFree /\ worker.at = "ending" /\ state' = "Idle"
          /\ announcing' = [by |-> "worker", events |-> <<e>>]
          /\ UNCHANGED <<operation, captureEvents>>
      BY <1>8 DEF Capture!End, Capture!AtLock, Capture!Announces
    <2>2. /\ e \in Capture!Events /\ e.operation = operation
          /\ e.kind \in {"Completed", "Canceled", "Failed"}
          /\ state \notin {"Idle", "ScreenshotEditing"}
          /\ operation = Capture!Recording /\ e.kind # "Failed" => state = "Stopping"
      BY <1>2, <2>1 DEF CaptureInv, OperationFits, WorkerFits, Capture!TypeOK
    <2> HIDE DEF e
    <2>3. CASE operation = Capture!Screenshot
      <3>1. ~OfRecording(e) /\ state' \notin Runs
        BY <2>1, <2>2, <2>3 DEF OfRecording, Runs, Capture!Screenshot, Capture!Recording
      <3> QED BY <1>1, <1>2, <2>1, <2>2, <2>3, <3>1, ScreenshotsAreNothing
    <2>4. CASE operation = Capture!Recording
      <3>1. OfRecording(e) /\ Reports(state, e, state')
        BY <2>1, <2>2, <2>4 DEF OfRecording, Reports
      <3>2. Underway(state, operation)
        BY <1>2, <2>2, <2>4 DEF CaptureInv, OperationFits, Underway, Runs, Capture!States,
           Capture!TypeOK, Capture!Screenshot, Capture!Recording
      <3> QED BY <1>1, <1>2, <2>1, <2>2, <2>4, <3>1, <3>2, RecordingsAreHeard
    <2> QED BY <1>2, <2>3, <2>4 DEF Capture!TypeOK
  <1>9. CASE Capture!Announce
    <2> DEFINE q == captureEvents
               r == announcing.events
    <2>1. /\ q \in Seq(Capture!Events) /\ r \in Seq(Capture!Events) /\ r # <<>>
      BY <1>2, <1>9, BarTypes DEF Capture!Announce, Capture!TypeOK
    <2>2. /\ captureEvents' = Append(q, Head(r)) /\ UNCHANGED <<state, operation>>
          /\ announcing' = IF Len(r) = 1 THEN Capture!Free
                              ELSE [announcing EXCEPT !.events = Tail(r)]
      BY <1>2, <1>9 DEF Capture!Announce, Capture!serviceVars
    <2>3. announcing'.events = IF Len(r) = 1 THEN <<>> ELSE Tail(r)
      BY <1>2, <2>2 DEF Capture!Free, Capture!TypeOK
    <2>4. /\ Append(q, Head(r)) \o Tail(r) = q \o r
          /\ Len(r) = 1 => Append(q, Head(r)) = q \o r
      <3> HIDE DEF q, r
      <3> QED BY <2>1, MovedToTheQueue
    <2>5. Pending' = captureEvents' \o announcing'.events /\ Pending = q \o r
      BY DEF Pending
    <2>6. Append(q, Head(r)) \in Seq(Capture!Events)
      BY <2>1
    <2> HIDE DEF q, r
    <2>7. Append(q, Head(r)) \o <<>> = Append(q, Head(r))
      BY <2>6, ConcatEmptySeq
    <2>8. Pending' = Pending
      BY <2>2, <2>3, <2>4, <2>5, <2>7
    <2> QED BY <1>1, <1>2, <2>2, <2>8 DEF BarFits
  <1> QED BY <1>4, <1>5, <1>6, <1>7, <1>8, <1>9 DEF Capture!Worker

(* CaptureInv is inductive, and the bar follows the recording from it.      *)
LEMMA CaptureStep == CaptureInv /\ [Capture!Next]_capture => CaptureInv'
PROOF
  <1> SUFFICES ASSUME CaptureInv, [Capture!Next]_capture PROVE CaptureInv'
    OBVIOUS
  <1>1. CASE Capture!Next
    BY <1>1, UiTypes, WorkerTypes, WorkerStaysFit, UiAgrees, WorkerAgrees
       DEF Capture!Next, CaptureInv
  <1>2. CASE UNCHANGED capture
    BY <1>2 DEF capture, CaptureInv, Capture!TypeOK, OperationFits, WorkerFits, BarFits, Pending
  <1> QED BY <1>1, <1>2

(* A bar to which nothing is on its way shows what is due.                  *)
LEMMA BarIsDue == CaptureInv => BarFollowsRecording
PROOF
  <1> SUFFICES ASSUME CaptureInv, Capture!UiWaits, Capture!LockFree, captureEvents = <<>>
               PROVE  phase = Due(state, operation, phase)
    BY DEF BarFollowsRecording, Capture!BarFollowsRecording, Due, Underway, Runs
  <1>1. Agrees(state, operation, editor, phase, "none", Pending) /\ Capture!TypeOK
    BY DEF CaptureInv, BarFits, Capture!UiWaits, Capture!NoCall
  <1>2. Pending = <<>>
    BY DEF Pending, Capture!LockFree, Capture!Free
  <1>3. NoneOfRecording(<<>>) /\ <<>> \in Seq(Capture!Events)
    BY DEF NoneOfRecording
  <1>4. Heard(editor, phase, <<>>) = phase
    BY <1>1, <1>3, BarTypes, NothingHeard
  <1> QED BY <1>1, <1>2, <1>4 DEF Agrees

(* The invariant of CaptureService holds in every behaviour.                *)
THEOREM CaptureInvariance == EventsSpec => []CaptureInv
PROOF
  <1>1. EventsInit => CaptureInv
    BY CaptureInit DEF EventsInit
  <1>2. CaptureInv /\ [EventsNext]_<<vars, pump, capture, processes>> => CaptureInv'
    BY OneStepAtATime, CaptureStep
  <1> QED BY <1>1, <1>2, PTL DEF EventsSpec

(* HandleRecordingEvent and CaptureService: once the UI thread has heard    *)
(* every event, the bar shows the state of the service, whatever the worker *)
(* and the user did in the meantime and however many events came in a turn. *)
THEOREM BarShowsTheRecording == EventsSpec => []BarFollowsRecording
PROOF
  <1> QED BY BarIsDue, CaptureInvariance, PTL

(* The types of the queue, of the pump and of the captures.                 *)
THEOREM TypesAreKept == EventsSpec => []EventsTypeOK
PROOF
  <1>1. QueueInv /\ PumpInv /\ CaptureInv => EventsTypeOK
    BY DEF QueueInv, PumpInv, CaptureInv, EventsTypeOK
  <1> QED BY <1>1, Invariance, CaptureInvariance, PTL
=============================================================================
