----------------------- MODULE BackgroundTasksProofs -----------------------
(***************************************************************************)
(* For any pool size, any number of callers and any bounds:                *)
(*                                                                         *)
(*   - the executor's variables keep their types, an external caller of    *)
(*     Shutdown returns only after the workers are gone and no accepted    *)
(*     task is left, no wake-up is lost, nobody waits for a thread that    *)
(*     waits itself, and every step is one TaskPool allows;                *)
(*   - the persistence service, on such a pool, loses nothing it accepted  *)
(*     before a draining Stop, never writes the index of a merge a stop    *)
(*     cut short, and says "All changes saved." only when that is true.    *)
(*                                                                         *)
(* The executor first, then Saves, the instance of Persistence.            *)
(***************************************************************************)
EXTENDS MCBackgroundTasks, FiniteSetTheorems, TLAPS

(* What each phase of Shutdown knows about the workers.  ReturnsAfterJoin   *)
(* is about threads that returned; the step that lets them return needs to  *)
(* know what the owner saw before it set joined, and that owner, once set,  *)
(* never changes.                                                           *)
OthersExited(t) == \A w \in Workers \ {t} : worker[w] = "exited"

JoinInv ==
  /\ joined => owner # None /\ OthersExited(owner)
  /\ \A t \in Threads : InShutdown(t) => owner # None
  /\ \A t \in Threads : call[t] = "marking" => owner = t /\ OthersExited(t)
  /\ \A t \in returned \cap Callers : joined

(* A busy worker holds the task it will mark finished.                      *)
BusyHoldsTask == \A w \in Workers : worker[w] = "busy" => current[w] # None

IInv == TypeOK /\ BusyHoldsTask /\ JoinInv

(* The threads are the workers and the callers.                             *)
LEMMA ThreadKinds == /\ Workers \subseteq Threads
                     /\ Callers \subseteq Threads
                     /\ None \notin Threads
                     /\ Workers \cap Callers = {}
BY ConstantsAssumption DEF Threads

(* Before any call nothing is queued, joined or returned.                   *)
LEMMA InitIInv == Init => IInv
<1> SUFFICES ASSUME Init
             PROVE  IInv
    OBVIOUS
<1>1. TypeOK
  <2>1. tasks \in Seq(Tasks)
        BY DEF Init
  <2> QED
      BY <2>1 DEF Init, TypeOK, CallPhases
<1>2. JoinInv
      BY DEF Init, JoinInv, InShutdown
<1>3. BusyHoldsTask
      BY DEF Init, BusyHoldsTask
<1> QED
    BY <1>1, <1>2, <1>3 DEF IInv

-----------------------------------------------------------------------------
(* Types: one step per action.                                              *)
LEMMA StepTypeOK == TypeOK /\ BusyHoldsTask /\ [Next]_vars => TypeOK'
<1> SUFFICES ASSUME TypeOK, BusyHoldsTask, [Next]_vars
             PROVE  TypeOK'
    OBVIOUS
<1> USE DEF TypeOK
<1>1. ASSUME NEW t \in Threads, ReadState(t)
      PROVE  TypeOK'
      BY <1>1 DEF ReadState, CallPhases
<1>2. ASSUME NEW t \in Threads, QueueTask(t)
      PROVE  TypeOK'
  <2>1. CASE stopping \/ accepted = MaxTasks
        BY <1>2, <2>1 DEF QueueTask, NewTask, CallPhases
  <2>2. CASE ~(stopping \/ accepted = MaxTasks)
    <3>1. accepted + 1 \in Tasks
          BY <2>2, ConstantsAssumption DEF Tasks
    <3>2. accepted' = accepted + 1 /\ tasks' = Append(tasks, accepted + 1)
          BY <1>2, <2>2 DEF QueueTask, NewTask
    <3>3. tasks' \in Seq(Tasks)
          BY <3>1, <3>2
    <3> QED
        BY <1>2, <2>2, <3>1, <3>2, <3>3 DEF QueueTask, NewTask, CallPhases
  <2> QED
      BY <2>1, <2>2
<1>3. ASSUME NEW t \in Threads, NotifyOne(t)
      PROVE  TypeOK'
      BY <1>3 DEF NotifyOne, Asleep, CallPhases
<1>4. ASSUME NEW w \in Workers, Sleep(w)
      PROVE  TypeOK'
      BY <1>4 DEF Sleep
<1>5. ASSUME NEW w \in Workers, Exit(w)
      PROVE  TypeOK'
      BY <1>5 DEF Exit
<1>6. ASSUME NEW w \in Workers, TakeTask(w)
      PROVE  TypeOK'
  <2>1. Head(tasks) \in Tasks /\ Tail(tasks) \in Seq(Tasks)
        BY <1>6 DEF TakeTask
  <2> QED
      BY <1>6, <2>1 DEF TakeTask
<1>7. ASSUME NEW w \in Workers, FinishTask(w)
      PROVE  TypeOK'
  <2>1. current[w] \in Tasks
        BY <1>7 DEF FinishTask, BusyHoldsTask
  <2> QED
      BY <1>7, <2>1 DEF FinishTask
<1>8. ASSUME NEW t \in Threads, NEW d \in BOOLEAN, EnterShutdown(t, d)
      PROVE  TypeOK'
      BY <1>8 DEF EnterShutdown, CallPhases
<1>9. ASSUME NEW t \in Threads, CloseState(t)
      PROVE  TypeOK'
  <2>1. drain' \in BOOLEAN
        BY <1>9 DEF CloseState, Drains
  <2>2. {tasks[i] : i \in DOMAIN tasks} \subseteq Tasks
        OBVIOUS
  <2>3. << >> \in Seq(Tasks)
        OBVIOUS
  <2>4. tasks' \in Seq(Tasks) /\ stop' \in BOOLEAN /\ discarded' \subseteq Tasks
        BY <1>9, <2>2, <2>3 DEF CloseState, Drains
  <2> QED
      BY <1>9, <2>1, <2>4 DEF CloseState, Drains, CallPhases
<1>10. ASSUME NEW t \in Threads, WakeAll(t)
       PROVE  TypeOK'
       BY <1>10 DEF WakeAll, Woken, CallPhases
<1>11. ASSUME NEW t \in Threads, JoinWorkers(t)
       PROVE  TypeOK'
       BY <1>11 DEF JoinWorkers, CallPhases
<1>12. ASSUME NEW t \in Threads, MarkJoined(t)
       PROVE  TypeOK'
       BY <1>12 DEF MarkJoined, CallPhases
<1>13. ASSUME NEW t \in Threads, AwaitJoined(t)
       PROVE  TypeOK'
       BY <1>13 DEF AwaitJoined, JoinDone, CallPhases
<1>14. CASE UNCHANGED vars
       BY <1>14 DEF vars
<1> QED
    BY <1>1, <1>2, <1>3, <1>4, <1>5, <1>6, <1>7, <1>8, <1>9, <1>10, <1>11,
       <1>12, <1>13, <1>14
    DEF Next, SubmitStep, ShutdownStep, WorkerStep

-----------------------------------------------------------------------------
(* A worker turns busy only by taking a task and stops being busy only by   *)
(* finishing it.                                                            *)
LEMMA StepBusyHoldsTask == IInv /\ [Next]_vars => BusyHoldsTask'
<1> SUFFICES ASSUME IInv, [Next]_vars, NEW w \in Workers, worker'[w] = "busy"
             PROVE  current'[w] # None
    BY DEF BusyHoldsTask
<1> USE DEF IInv, TypeOK, BusyHoldsTask
<1>1. ASSUME NEW v \in Workers, TakeTask(v)
      PROVE  current'[w] # None
  <2>1. Head(tasks) \in Tasks /\ Head(tasks) # None
        BY <1>1, ConstantsAssumption DEF TakeTask, Tasks
  <2> QED
      BY <1>1, <2>1 DEF TakeTask
<1>2. ASSUME NEW v \in Workers, FinishTask(v)
      PROVE  current'[w] # None
      BY <1>2 DEF FinishTask
<1>3. ASSUME NEW v \in Workers, Sleep(v) \/ Exit(v)
      PROVE  current'[w] # None
      BY <1>3 DEF Sleep, Exit
<1>4. ASSUME NEW t \in Threads, NotifyOne(t) \/ WakeAll(t)
      PROVE  current'[w] # None
      BY <1>4 DEF NotifyOne, WakeAll, Woken, Asleep
<1>5. ASSUME UNCHANGED <<worker, current>>
      PROVE  current'[w] # None
      BY <1>5
<1>6. ASSUME NEW t \in Threads,
             \/ ReadState(t) \/ QueueTask(t) \/ CloseState(t) \/ JoinWorkers(t)
             \/ MarkJoined(t) \/ AwaitJoined(t)
             \/ \E d \in BOOLEAN : EnterShutdown(t, d)
      PROVE  UNCHANGED <<worker, current>>
      BY <1>6 DEF ReadState, QueueTask, NewTask, CloseState, Drains, JoinWorkers, MarkJoined,
                  AwaitJoined, JoinDone, EnterShutdown
<1>7. CASE UNCHANGED vars
      BY <1>5, <1>7 DEF vars
<1> QED
    BY <1>1, <1>2, <1>3, <1>4, <1>5, <1>6, <1>7
    DEF Next, SubmitStep, ShutdownStep, WorkerStep

(* Exited workers stay gone, whatever the other threads do.                 *)
LEMMA ExitIsFinal ==
  ASSUME TypeOK, [Next]_vars, NEW w \in Workers, worker[w] = "exited"
  PROVE  worker'[w] = "exited"
<1> USE DEF TypeOK
<1>1. ASSUME NEW v \in Workers, WorkerStep(v)
      PROVE  worker'[w] = "exited"
      BY <1>1 DEF WorkerStep, Sleep, Exit, TakeTask, FinishTask
<1>2. ASSUME NEW t \in Threads, NotifyOne(t) \/ WakeAll(t)
      PROVE  worker'[w] = "exited"
      BY <1>2 DEF NotifyOne, WakeAll, Woken, Asleep
<1>3. ASSUME NEW t \in Threads,
             \/ ReadState(t) \/ QueueTask(t) \/ CloseState(t) \/ JoinWorkers(t)
             \/ MarkJoined(t) \/ AwaitJoined(t)
             \/ \E d \in BOOLEAN : EnterShutdown(t, d)
      PROVE  worker' = worker
      BY <1>3 DEF ReadState, QueueTask, NewTask, CloseState, Drains, JoinWorkers, MarkJoined,
                  AwaitJoined, JoinDone, EnterShutdown
<1>4. CASE UNCHANGED vars
      BY <1>4 DEF vars
<1> QED
    BY <1>1, <1>2, <1>3, <1>4 DEF Next, SubmitStep, ShutdownStep

(* Once a call owns the join, it keeps it.                                  *)
LEMMA OwnerIsFinal == ASSUME [Next]_vars, owner # None PROVE owner' = owner
BY DEF Next, vars, SubmitStep, ShutdownStep, WorkerStep, ReadState, QueueTask, NewTask,
       NotifyOne, Sleep, Exit, TakeTask, FinishTask, EnterShutdown, CloseState, Drains,
       WakeAll, Woken, JoinWorkers, MarkJoined, AwaitJoined, JoinDone

-----------------------------------------------------------------------------
(* The phases of Shutdown keep what they know.  Only EnterShutdown, the     *)
(* joins and the two returning steps touch it; the rest is ExitIsFinal and  *)
(* OwnerIsFinal.                                                            *)
LEMMA StepJoinInv == IInv /\ [Next]_vars => JoinInv'
<1> SUFFICES ASSUME IInv, [Next]_vars
             PROVE  JoinInv'
    OBVIOUS
<1> USE DEF IInv
<1>1. ASSUME NEW t, OthersExited(t)
      PROVE  OthersExited(t)'
      BY <1>1, ExitIsFinal DEF OthersExited
<1>2. ASSUME call' = call \/ (\E t \in Threads : call' = [call EXCEPT ![t] = "no"]),
             joined' = joined, returned' = returned
      PROVE  JoinInv'
      BY <1>1, <1>2, OwnerIsFinal DEF JoinInv, InShutdown, TypeOK
<1>3. ASSUME NEW t \in Threads, ReadState(t) \/ QueueTask(t) \/ NotifyOne(t)
      PROVE  JoinInv'
  <2>1. \E phase \in {"no", "submitting", "notifying"} :
           call' = [call EXCEPT ![t] = phase]
        BY <1>3 DEF ReadState, QueueTask, NewTask, NotifyOne
  <2>2. joined' = joined /\ returned' = returned
        BY <1>3 DEF ReadState, QueueTask, NewTask, NotifyOne
  <2> QED
      BY <1>1, <2>1, <2>2, OwnerIsFinal DEF JoinInv, InShutdown, TypeOK
<1>4. ASSUME NEW w \in Workers, WorkerStep(w)
      PROVE  JoinInv'
      BY <1>2, <1>4 DEF WorkerStep, Sleep, Exit, TakeTask, FinishTask
<1>5. ASSUME NEW t \in Threads, NEW d \in BOOLEAN, EnterShutdown(t, d)
      PROVE  JoinInv'
  <2>1. owner' # None
        BY <1>5, ThreadKinds DEF EnterShutdown
  <2>2. /\ call' = [call EXCEPT ![t] = "closing"]
        /\ joined' = joined /\ returned' = returned
        BY <1>5 DEF EnterShutdown
  <2> QED
      BY <1>1, <2>1, <2>2, OwnerIsFinal DEF JoinInv, InShutdown, TypeOK
<1>6. ASSUME NEW t \in Threads, CloseState(t)
      PROVE  JoinInv'
  <2>1. /\ call' = [call EXCEPT ![t] = "waking"] /\ call[t] = "closing"
        /\ joined' = joined /\ returned' = returned
        BY <1>6 DEF CloseState, Drains
  <2> QED
      BY <1>1, <2>1, OwnerIsFinal DEF JoinInv, InShutdown, TypeOK
<1>7. ASSUME NEW t \in Threads, WakeAll(t)
      PROVE  JoinInv'
  <2>1. /\ call[t] = "waking" /\ joined' = joined
        /\ \/ /\ t \in Workers
              /\ call' = [call EXCEPT ![t] = "no"]
              /\ returned' = returned \cup {t}
           \/ /\ call' = [call EXCEPT ![t] = "joining"]
              /\ returned' = returned
        BY <1>7 DEF WakeAll, Woken
  <2> QED
      BY <1>1, <2>1, ThreadKinds, OwnerIsFinal DEF JoinInv, InShutdown, TypeOK
<1>8. ASSUME NEW t \in Threads, JoinWorkers(t)
      PROVE  JoinInv'
  <2>1. /\ call[t] = "joining" /\ owner = t /\ OthersExited(t)
        /\ call' = [call EXCEPT ![t] = "marking"]
        /\ joined' = joined /\ returned' = returned
        BY <1>8 DEF JoinWorkers, OthersExited
  <2> QED
      BY <1>1, <2>1, OwnerIsFinal DEF JoinInv, InShutdown, TypeOK
<1>9. ASSUME NEW t \in Threads, MarkJoined(t)
      PROVE  JoinInv'
  <2>1. /\ call[t] = "marking" /\ joined' = TRUE
        /\ call' = [call EXCEPT ![t] = "no"]
        /\ returned' = returned \cup {t}
        BY <1>9 DEF MarkJoined
  <2>2. owner = t /\ OthersExited(t) /\ owner # None
        BY <2>1, ThreadKinds DEF JoinInv
  <2> QED
      BY <1>1, <2>1, <2>2, OwnerIsFinal DEF JoinInv, InShutdown, TypeOK
<1>10. ASSUME NEW t \in Threads, AwaitJoined(t)
       PROVE  JoinInv'
  <2>1. /\ joined /\ joined' = joined
        /\ call' = [call EXCEPT ![t] = "no"]
        /\ returned' = returned \cup {t}
        BY <1>10 DEF AwaitJoined, JoinDone
  <2> QED
      BY <1>1, <2>1, OwnerIsFinal DEF JoinInv, InShutdown, TypeOK
<1>11. CASE UNCHANGED vars
       BY <1>2, <1>11 DEF vars
<1> QED
    BY <1>3, <1>4, <1>5, <1>6, <1>7, <1>8, <1>9, <1>10, <1>11
    DEF Next, SubmitStep, ShutdownStep

-----------------------------------------------------------------------------

-----------------------------------------------------------------------------
(* Where the accepted tasks are.                                            *)
Waiting == {tasks[i] : i \in 1 .. Len(tasks)}
Running == {current[w] : w \in Workers} \ {None}

(* The queue is in the order of acceptance; each accepted task is queued,   *)
(* run by one worker, discarded or finished; a cancelling shutdown leaves   *)
(* nothing queued, and nothing is discarded by any other.                   *)
QueueInOrder == \A i, j \in 1 .. Len(tasks) : i < j => tasks[i] < tasks[j]

NoTaskIsLost == Waiting \cup Running \cup discarded \cup finished = 1 .. accepted

NoTaskTwice ==
  /\ Waiting \cap Running = {} /\ Waiting \cap discarded = {} /\ Running \cap discarded = {}
  /\ finished \cap (Waiting \cup Running \cup discarded) = {}
  /\ \A v, w \in Workers : current[v] # None /\ current[v] = current[w] => v = w
  /\ \A w \in Workers : current[w] # None => worker[w] = "busy"

CancelEmpties ==
  /\ stopping /\ ~drain => tasks = <<>>
  /\ discarded # {} => stopping /\ ~drain

TasksInv == QueueInOrder /\ NoTaskIsLost /\ NoTaskTwice /\ CancelEmpties

(* Before the first task there is none to lose.                             *)
LEMMA InitTasksInv == Init => TasksInv
<1> SUFFICES ASSUME Init
             PROVE  TasksInv
    OBVIOUS
<1>1. Waiting = {} /\ Running = {}
      BY DEF Init, Waiting, Running
<1> QED
    BY <1>1 DEF Init, TasksInv, QueueInOrder, NoTaskIsLost, NoTaskTwice, CancelEmpties

(* What the four steps that move tasks do to these sets.                    *)
LEMMA QueueTaskMoves ==
  ASSUME TypeOK, NEW t \in Threads, QueueTask(t), tasks' # tasks
  PROVE  /\ accepted' = accepted + 1 /\ accepted + 1 \in Tasks /\ ~stopping
         /\ Waiting' = Waiting \cup {accepted + 1}
         /\ Len(tasks) \in Nat /\ Len(tasks') = Len(tasks) + 1
         /\ \A i \in 1 .. Len(tasks) : tasks'[i] = tasks[i] /\ tasks[i] \in Tasks
         /\ tasks'[Len(tasks) + 1] = accepted + 1
<1>1. ~stopping /\ accepted # MaxTasks /\ accepted' = accepted + 1
      /\ tasks' = Append(tasks, accepted + 1)
      BY DEF QueueTask, NewTask
<1>2. accepted + 1 \in Tasks
      BY <1>1, ConstantsAssumption DEF TypeOK, Tasks
<1>3. /\ Len(tasks) \in Nat /\ Len(tasks') = Len(tasks) + 1
      /\ \A i \in 1 .. Len(tasks) : tasks'[i] = tasks[i] /\ tasks[i] \in Tasks
      /\ tasks'[Len(tasks) + 1] = accepted + 1
      BY <1>1 DEF TypeOK
<1>4. Waiting' = Waiting \cup {accepted + 1}
      BY <1>3 DEF Waiting
<1> QED
    BY <1>1, <1>2, <1>3, <1>4

(* A worker takes the oldest task that waits.                               *)
LEMMA TakeTaskMoves ==
  ASSUME TypeOK, QueueInOrder, NEW w \in Workers, TakeTask(w)
  PROVE  /\ tasks[1] \in Tasks /\ tasks[1] \in Waiting /\ tasks[1] # None
         /\ \A k \in Waiting : k # tasks[1] => tasks[1] < k
         /\ Waiting' = Waiting \ {tasks[1]}
         /\ current' = [current EXCEPT ![w] = tasks[1]]
         /\ Len(tasks) \in Nat /\ Len(tasks') = Len(tasks) - 1
         /\ \A i \in 1 .. Len(tasks') : tasks'[i] = tasks[i + 1] /\ i + 1 \in 1 .. Len(tasks)
         /\ worker[w] = "looking" /\ worker' = [worker EXCEPT ![w] = "busy"]
         /\ ~stop /\ ~(stopping /\ ~drain)
<1>1. /\ tasks # <<>> /\ tasks' = Tail(tasks) /\ current' = [current EXCEPT ![w] = Head(tasks)]
      /\ worker[w] = "looking" /\ worker' = [worker EXCEPT ![w] = "busy"]
      /\ ~stop /\ ~(stopping /\ ~drain)
      BY DEF TakeTask, MustExit
<1>2. /\ Len(tasks) \in Nat /\ Len(tasks) >= 1 /\ Len(tasks') = Len(tasks) - 1
      /\ Head(tasks) = tasks[1] /\ tasks[1] \in Tasks
      /\ \A i \in 1 .. Len(tasks') : tasks'[i] = tasks[i + 1] /\ i + 1 \in 1 .. Len(tasks)
      BY <1>1 DEF TypeOK
<1>3. tasks[1] \in Waiting /\ tasks[1] # None
      BY <1>2, ConstantsAssumption DEF Waiting, Tasks
<1>4. \A i \in 2 .. Len(tasks) : tasks[1] < tasks[i] /\ tasks[i] \in Tasks
      BY <1>2 DEF QueueInOrder, TypeOK
<1>5. \A i \in 2 .. Len(tasks) : tasks[1] # tasks[i]
      BY <1>2, <1>4 DEF Tasks
<1>6. \A k \in Waiting : k # tasks[1] => tasks[1] < k
      BY <1>2, <1>4 DEF Waiting
<1>7. \A i \in 2 .. Len(tasks) : tasks'[i - 1] = tasks[i] /\ i - 1 \in 1 .. Len(tasks')
      BY <1>2
<1>8. Waiting' \subseteq Waiting \ {tasks[1]}
      BY <1>2, <1>5 DEF Waiting
<1>9. Waiting \ {tasks[1]} \subseteq Waiting'
  <2> SUFFICES ASSUME NEW i \in 1 .. Len(tasks), tasks[i] # tasks[1]
               PROVE  tasks[i] \in Waiting'
      BY DEF Waiting
  <2>1. i \in 2 .. Len(tasks)
        BY <1>2
  <2> QED
      BY <1>7, <2>1 DEF Waiting
<1> QED
    BY <1>1, <1>2, <1>3, <1>6, <1>8, <1>9

(* What a worker takes, runs.                                               *)
LEMMA TaskIsTaken ==
  ASSUME TypeOK, QueueInOrder, NoTaskTwice, NEW w \in Workers, TakeTask(w)
  PROVE  Running' = Running \cup {tasks[1]}
<1>1. /\ tasks[1] # None /\ worker[w] = "looking"
      /\ current' = [current EXCEPT ![w] = tasks[1]] /\ current \in [Workers -> Tasks \cup {None}]
      BY TakeTaskMoves DEF TypeOK
<1>2. current[w] = None
      BY <1>1 DEF NoTaskTwice
<1>3. Running' \subseteq Running \cup {tasks[1]}
      BY <1>1 DEF Running
<1>4. Running \subseteq Running'
      BY <1>1, <1>2 DEF Running
<1>5. tasks[1] \in Running'
      BY <1>1 DEF Running
<1> QED
    BY <1>3, <1>4, <1>5

(* A task that has run is finished and leaves its worker.                   *)
LEMMA FinishTaskMoves ==
  ASSUME TypeOK, BusyHoldsTask, NoTaskTwice, NEW w \in Workers, FinishTask(w)
  PROVE  /\ current[w] \in Running /\ current[w] \in Tasks
         /\ Running' = Running \ {current[w]}
         /\ finished' = finished \cup {current[w]}
         /\ current' = [current EXCEPT ![w] = None]
         /\ worker' = [worker EXCEPT ![w] = "looking"]
<1>1. /\ current' = [current EXCEPT ![w] = None] /\ current[w] # None
      /\ finished' = finished \cup {current[w]}
      /\ worker' = [worker EXCEPT ![w] = "looking"]
      BY DEF FinishTask, BusyHoldsTask
<1>2. current[w] \in Running /\ current[w] \in Tasks
      BY <1>1 DEF Running, TypeOK
<1>3. Running' = Running \ {current[w]}
      BY <1>1 DEF Running, NoTaskTwice, TypeOK
<1> QED
    BY <1>1, <1>2, <1>3

(* A shutdown that does not drain discards what waits.                      *)
LEMMA CancelMoves ==
  ASSUME TypeOK, NEW t \in Threads, CloseState(t)
  PROVE  /\ stopping' /\ drain' = Drains(t)
         /\ UNCHANGED <<accepted, current, worker, finished>>
         /\ drain' => UNCHANGED <<tasks, discarded>>
         /\ ~drain' => tasks' = <<>> /\ Waiting' = {} /\ discarded' = discarded \cup Waiting
<1>1. /\ stopping' = TRUE /\ drain' = Drains(t)
      /\ UNCHANGED <<accepted, current, worker, finished>>
      /\ drain' => UNCHANGED <<tasks, discarded>>
      /\ ~drain' => tasks' = <<>> /\ discarded' = discarded \cup {tasks[i] : i \in DOMAIN tasks}
      BY DEF CloseState
<1>2. DOMAIN tasks = 1 .. Len(tasks)
      BY DEF TypeOK
<1>3. ~drain' => Waiting' = {}
      BY <1>1 DEF Waiting
<1>4. {tasks[i] : i \in DOMAIN tasks} = Waiting
      BY <1>2 DEF Waiting
<1> QED
    BY <1>1, <1>3, <1>4

(* Every other step leaves the tasks where they are.                        *)
LEMMA OtherSteps ==
  ASSUME TypeOK, [Next]_vars,
         ~ \E t \in Threads : CloseState(t) \/ (QueueTask(t) /\ tasks' # tasks),
         ~ \E w \in Workers : TakeTask(w) \/ FinishTask(w)
  PROVE  /\ UNCHANGED <<tasks, current, accepted, discarded, finished, stopping, drain>>
         /\ \A w \in Workers : worker[w] = "busy" => worker'[w] = "busy"
<1>1. ASSUME NEW t \in Threads, QueueTask(t), tasks' = tasks
      PROVE  UNCHANGED <<tasks, current, accepted, discarded, finished, stopping, drain, worker>>
  <2>1. CASE stopping \/ accepted = MaxTasks
        BY <1>1, <2>1 DEF QueueTask
  <2>2. CASE ~(stopping \/ accepted = MaxTasks)
    <3>1. tasks' = Append(tasks, NewTask)
          BY <1>1, <2>2 DEF QueueTask
    <3>2. Len(tasks') = Len(tasks) + 1 /\ Len(tasks) \in Nat
          BY <3>1 DEF TypeOK
    <3> QED
        BY <1>1, <3>2
  <2> QED
      BY <2>1, <2>2
<1>2. ASSUME NEW t \in Threads, ReadState(t) \/ JoinWorkers(t) \/ MarkJoined(t) \/ AwaitJoined(t)
      PROVE  UNCHANGED <<tasks, current, accepted, discarded, finished, stopping, drain, worker>>
      BY <1>2 DEF ReadState, JoinWorkers, MarkJoined, AwaitJoined
<1>3. ASSUME NEW t \in Threads, NEW d \in BOOLEAN, EnterShutdown(t, d)
      PROVE  UNCHANGED <<tasks, current, accepted, discarded, finished, stopping, drain, worker>>
      BY <1>3 DEF EnterShutdown
<1>4. ASSUME NEW t \in Threads, NotifyOne(t) \/ WakeAll(t)
      PROVE  /\ UNCHANGED <<tasks, current, accepted, discarded, finished, stopping, drain>>
             /\ \A w \in Workers : worker[w] = "busy" => worker'[w] = "busy"
      BY <1>4 DEF NotifyOne, WakeAll, Woken, Asleep, TypeOK
<1>5. ASSUME NEW w \in Workers, Sleep(w) \/ Exit(w)
      PROVE  /\ UNCHANGED <<tasks, current, accepted, discarded, finished, stopping, drain>>
             /\ \A v \in Workers : worker[v] = "busy" => worker'[v] = "busy"
      BY <1>5 DEF Sleep, Exit, TypeOK
<1>6. CASE UNCHANGED vars
      BY <1>6 DEF vars
<1> QED
    BY <1>1, <1>2, <1>3, <1>4, <1>5, <1>6
    DEF Next, SubmitStep, ShutdownStep, WorkerStep

-----------------------------------------------------------------------------
(* Every step keeps each task in one place and the queue in order.          *)
LEMMA StepTasksInv == IInv /\ TasksInv /\ [Next]_vars => TasksInv'
<1> SUFFICES ASSUME IInv, TasksInv, [Next]_vars
             PROVE  TasksInv'
    OBVIOUS
<1>0. TypeOK /\ BusyHoldsTask /\ accepted \in Nat /\ QueueInOrder /\ NoTaskTwice /\ NoTaskIsLost
      BY ConstantsAssumption DEF IInv, TypeOK, Tasks, TasksInv
<1>1. ASSUME NEW t \in Threads, QueueTask(t), tasks' # tasks
      PROVE  TasksInv'
  <2>1. /\ accepted' = accepted + 1 /\ ~stopping
        /\ Waiting' = Waiting \cup {accepted + 1}
        /\ Len(tasks) \in Nat /\ Len(tasks') = Len(tasks) + 1
        /\ \A i \in 1 .. Len(tasks) : tasks'[i] = tasks[i] /\ tasks[i] \in Tasks
        /\ tasks'[Len(tasks) + 1] = accepted + 1
        BY <1>0, <1>1, QueueTaskMoves
  <2>2. UNCHANGED <<stopping, current, worker, discarded, finished>> /\ Running' = Running
        BY <1>1 DEF QueueTask, Running
  <2>3. \A k \in Waiting \cup Running \cup discarded \cup finished : k \in 1 .. accepted
        BY <1>0 DEF NoTaskIsLost
  <2>4. \A i \in 1 .. Len(tasks) : tasks[i] < accepted + 1
        BY <1>0, <2>3 DEF Waiting
  <2>5. QueueInOrder'
    <3> SUFFICES ASSUME NEW i \in 1 .. Len(tasks'), NEW j \in 1 .. Len(tasks'), i < j
                 PROVE  tasks'[i] < tasks'[j]
        BY DEF QueueInOrder
    <3>1. i \in 1 .. Len(tasks) /\ (j \in 1 .. Len(tasks) \/ j = Len(tasks) + 1)
          BY <2>1
    <3> QED
        BY <1>0, <2>1, <2>4, <3>1 DEF QueueInOrder
  <2>6. NoTaskIsLost'
    <3>1. 1 .. accepted' = (1 .. accepted) \cup {accepted + 1}
          BY <1>0, <2>1
    <3> QED
        BY <1>0, <2>1, <2>2, <3>1 DEF NoTaskIsLost
  <2>7. accepted + 1 \notin Running \cup discarded \cup finished
        BY <1>0, <2>3
  <2>8. NoTaskTwice'
        BY <1>0, <2>1, <2>2, <2>7 DEF NoTaskTwice
  <2>9. CancelEmpties'
        BY <2>1, <2>2 DEF TasksInv, CancelEmpties
  <2> QED
      BY <2>5, <2>6, <2>8, <2>9 DEF TasksInv
<1>2. ASSUME NEW w \in Workers, TakeTask(w)
      PROVE  TasksInv'
  <2>1. /\ tasks[1] \in Tasks /\ tasks[1] \in Waiting /\ tasks[1] # None
        /\ Waiting' = Waiting \ {tasks[1]}
        /\ current' = [current EXCEPT ![w] = tasks[1]]
        /\ Len(tasks) \in Nat /\ Len(tasks') = Len(tasks) - 1
        /\ \A i \in 1 .. Len(tasks') : tasks'[i] = tasks[i + 1] /\ i + 1 \in 1 .. Len(tasks)
        /\ worker[w] = "looking" /\ worker' = [worker EXCEPT ![w] = "busy"]
        /\ ~(stopping /\ ~drain)
        BY <1>0, <1>2, TakeTaskMoves
  <2>2. Running' = Running \cup {tasks[1]}
        BY <1>0, <1>2, TaskIsTaken
  <2>3. UNCHANGED <<accepted, discarded, finished, stopping, drain>>
        BY <1>2 DEF TakeTask
  <2>4. QueueInOrder'
    <3> SUFFICES ASSUME NEW i \in 1 .. Len(tasks'), NEW j \in 1 .. Len(tasks'), i < j
                 PROVE  tasks'[i] < tasks'[j]
        BY DEF QueueInOrder
    <3>1. i + 1 \in 1 .. Len(tasks) /\ j + 1 \in 1 .. Len(tasks) /\ i + 1 < j + 1
          BY <2>1
    <3> QED
        BY <1>0, <2>1, <3>1 DEF QueueInOrder
  <2>5. NoTaskIsLost'
        BY <1>0, <2>1, <2>2, <2>3 DEF NoTaskIsLost
  <2>6. NoTaskTwice'
    <3>1. /\ Waiting' \cap Running' = {} /\ Waiting' \cap discarded' = {}
          /\ Running' \cap discarded' = {}
          /\ finished' \cap (Waiting' \cup Running' \cup discarded') = {}
          BY <1>0, <2>1, <2>2, <2>3 DEF NoTaskTwice
    <3>2. \A v \in Workers : current[v] # tasks[1]
          BY <1>0, <2>1 DEF NoTaskTwice, Running
    <3>3. \A v, u \in Workers : current'[v] # None /\ current'[v] = current'[u] => v = u
          BY <1>0, <2>1, <3>2 DEF NoTaskTwice, TypeOK
    <3>4. \A v \in Workers : current'[v] # None => worker'[v] = "busy"
          BY <1>0, <2>1 DEF NoTaskTwice, TypeOK
    <3> QED
        BY <3>1, <3>3, <3>4 DEF NoTaskTwice
  <2> QED
      BY <2>1, <2>3, <2>4, <2>5, <2>6 DEF TasksInv, CancelEmpties
<1>3. ASSUME NEW w \in Workers, FinishTask(w)
      PROVE  TasksInv'
  <2>1. /\ current[w] \in Running
        /\ Running' = Running \ {current[w]}
        /\ finished' = finished \cup {current[w]}
        /\ current' = [current EXCEPT ![w] = None]
        /\ worker' = [worker EXCEPT ![w] = "looking"]
        BY <1>0, <1>3, FinishTaskMoves
  <2>2. UNCHANGED <<tasks, accepted, discarded, stopping, drain>> /\ Waiting' = Waiting
        BY <1>3 DEF FinishTask, Waiting
  <2>3. NoTaskIsLost'
        BY <1>0, <2>1, <2>2 DEF NoTaskIsLost
  <2>4. NoTaskTwice'
        BY <1>0, <2>1, <2>2 DEF NoTaskTwice, TypeOK
  <2> QED
      BY <2>2, <2>3, <2>4 DEF TasksInv, QueueInOrder, CancelEmpties
<1>4. ASSUME NEW t \in Threads, CloseState(t)
      PROVE  TasksInv'
  <2>1. /\ stopping' /\ drain' = Drains(t)
        /\ UNCHANGED <<accepted, current, worker, finished>>
        /\ drain' => UNCHANGED <<tasks, discarded>>
        /\ ~drain' => tasks' = <<>> /\ Waiting' = {} /\ discarded' = discarded \cup Waiting
        BY <1>0, <1>4, CancelMoves
  <2>2. Running' = Running
        BY <2>1 DEF Running
  <2>3. CASE drain'
    <3>1. discarded = {}
          BY <2>1, <2>3 DEF TasksInv, CancelEmpties, Drains
    <3>2. CancelEmpties'
          BY <2>1, <2>3, <3>1 DEF CancelEmpties
    <3> QED
        BY <2>1, <2>2, <2>3, <3>2 DEF TasksInv, QueueInOrder, NoTaskIsLost, NoTaskTwice, Waiting
  <2>4. CASE ~drain'
    <3>1. QueueInOrder' /\ CancelEmpties'
          BY <2>1, <2>4 DEF QueueInOrder, CancelEmpties
    <3>2. NoTaskIsLost' /\ NoTaskTwice'
          BY <1>0, <2>1, <2>2, <2>4 DEF NoTaskIsLost, NoTaskTwice
    <3> QED
        BY <3>1, <3>2 DEF TasksInv
  <2> QED
      BY <2>3, <2>4
<1>5. CASE /\ ~ \E t \in Threads : CloseState(t) \/ (QueueTask(t) /\ tasks' # tasks)
           /\ ~ \E w \in Workers : TakeTask(w) \/ FinishTask(w)
  <2>1. /\ UNCHANGED <<tasks, current, accepted, discarded, finished, stopping, drain>>
        /\ \A w \in Workers : worker[w] = "busy" => worker'[w] = "busy"
        BY <1>0, <1>5, OtherSteps
  <2>2. Waiting' = Waiting /\ Running' = Running
        BY <2>1 DEF Waiting, Running
  <2> QED
      BY <2>1, <2>2 DEF TasksInv, QueueInOrder, NoTaskIsLost, NoTaskTwice, CancelEmpties
<1> QED
    BY <1>1, <1>2, <1>3, <1>4, <1>5

-----------------------------------------------------------------------------
(* Waiting.  The threads about to wake a worker, and the workers that look. *)
Notifiers == {t \in Threads : call[t] = "notifying"}
Lookers   == {w \in Workers : worker[w] = "looking"}

(* What those that wait rely on: the decision precedes every wait; a worker *)
(* waits only as the owner; an owner that has not joined yet is on its way; *)
(* a worker only leaves an empty queue that nothing is added to any more.   *)
ShutdownKnown ==
  /\ \A t \in Threads : call[t] \in {"waking", "joining", "marking"} => stopping
  /\ \A w \in Workers : call[w] = "joining" => owner = w
  /\ owner # None => joined \/ InShutdown(owner)
  /\ stop => stopping /\ ~drain
  /\ \A w \in Workers : worker[w] = "exited" => tasks = <<>>
  /\ \A w \in Workers : worker[w] = "exited" =>
       stopping \/ (owner # None /\ \A t \in Threads : call[t] # "submitting")

WaitInv == ShutdownKnown /\ NoWakeUpLost

(* Of finitely many threads, finitely many notify and finitely many look.   *)
LEMMA Counts ==
  /\ IsFiniteSet(Notifiers) /\ Cardinality(Notifiers) \in Nat
  /\ IsFiniteSet(Lookers) /\ Cardinality(Lookers) \in Nat
<1>1. IsFiniteSet(Threads) /\ IsFiniteSet(Workers)
      BY ConstantsAssumption, FS_Union DEF Threads
<1>2. Notifiers \in SUBSET Threads /\ Lookers \in SUBSET Workers
      BY DEF Notifiers, Lookers
<1>3. IsFiniteSet(Notifiers) /\ IsFiniteSet(Lookers)
      BY <1>1, <1>2, FS_Subset
<1> QED
    BY <1>3, FS_CardinalityType

(* Before the first call everybody looks and nobody waits.                  *)
LEMMA InitWaitInv == Init => WaitInv
<1> SUFFICES ASSUME Init
             PROVE  WaitInv
    OBVIOUS
<1>1. Asleep = {}
      BY DEF Init, Asleep
<1>2. /\ owner = None /\ stop = FALSE
      /\ \A t \in Threads : call[t] = "no"
      /\ \A w \in Workers : worker[w] = "looking"
      BY DEF Init
<1>3. ShutdownKnown
      BY <1>2, ThreadKinds DEF ShutdownKnown
<1> QED
    BY <1>1, <1>3 DEF WaitInv, NoWakeUpLost

(* One step per action that touches what the waiting threads know.          *)
LEMMA StepShutdownKnown ==
  IInv /\ TasksInv /\ ShutdownKnown /\ [Next]_vars => ShutdownKnown'
<1> SUFFICES ASSUME IInv, TasksInv, ShutdownKnown, [Next]_vars
             PROVE  ShutdownKnown'
    OBVIOUS
<1> USE DEF ShutdownKnown, InShutdown
<1>0. TypeOK /\ JoinInv /\ CancelEmpties
      BY DEF IInv, TasksInv
<1>1. ASSUME NEW t \in Threads, ReadState(t)
      PROVE  ShutdownKnown'
      BY <1>0, <1>1 DEF ReadState, TypeOK
<1>2. ASSUME NEW t \in Threads, QueueTask(t)
      PROVE  ShutdownKnown'
  <2>1. \A w \in Workers : worker[w] = "exited" => tasks' = tasks
        BY <1>2 DEF QueueTask
  <2>2. /\ UNCHANGED <<stopping, drain, stop, joined, owner, worker>>
        /\ call[t] = "submitting"
        /\ \/ call' = [call EXCEPT ![t] = "no"]
           \/ call' = [call EXCEPT ![t] = "notifying"]
        BY <1>2 DEF QueueTask
  <2>3. \A w \in Workers : worker'[w] = "exited" => tasks' = <<>>
        BY <2>1, <2>2
  <2>4. \A u \in Threads :
           /\ call'[u] \notin {"waking", "joining", "marking"} \/ call'[u] = call[u]
           /\ InShutdown(u) <=> InShutdown(u)'
           /\ call'[u] = "submitting" => call[u] = "submitting"
        BY <1>0, <2>2 DEF TypeOK
  <2>5. owner \in Threads \cup {None}
        BY <1>0 DEF TypeOK
  <2> HIDE DEF InShutdown
  <2> QED
      BY <1>0, <2>2, <2>3, <2>4, <2>5, ThreadKinds
<1>3. ASSUME NEW t \in Threads, NotifyOne(t)
      PROVE  ShutdownKnown'
      BY <1>0, <1>3 DEF NotifyOne, Asleep, TypeOK
<1>4. ASSUME NEW w \in Workers, Sleep(w)
      PROVE  ShutdownKnown'
      BY <1>0, <1>4 DEF Sleep, TypeOK
<1>5. ASSUME NEW w \in Workers, Exit(w)
      PROVE  ShutdownKnown'
  <2>1. stopping /\ tasks = <<>>
        BY <1>0, <1>5 DEF Exit, MustExit, CancelEmpties
  <2> QED
      BY <1>0, <1>5, <2>1 DEF Exit, TypeOK
<1>6. ASSUME NEW w \in Workers, TakeTask(w)
      PROVE  ShutdownKnown'
  <2>1. \A v \in Workers : worker[v] # "exited" /\ worker'[v] # "exited"
        BY <1>0, <1>6 DEF TakeTask, TypeOK
  <2> QED
      BY <1>6, <2>1 DEF TakeTask
<1>7. ASSUME NEW w \in Workers, FinishTask(w)
      PROVE  ShutdownKnown'
      BY <1>0, <1>7 DEF FinishTask, TypeOK
<1>8. ASSUME NEW t \in Threads, NEW d \in BOOLEAN, EnterShutdown(t, d)
      PROVE  ShutdownKnown'
      BY <1>0, <1>8, ThreadKinds DEF EnterShutdown, TypeOK
<1>9. ASSUME NEW t \in Threads, CloseState(t)
      PROVE  ShutdownKnown'
  <2>1. stopping' /\ (stop' => ~drain')
        BY <1>9 DEF CloseState, Drains
  <2>2. tasks' \in {tasks, <<>>}
        BY <1>9 DEF CloseState
  <2>3. /\ UNCHANGED <<joined, owner, worker>>
        /\ call[t] = "closing" /\ call' = [call EXCEPT ![t] = "waking"]
        BY <1>9 DEF CloseState
  <2>4. \A w \in Workers : worker'[w] = "exited" => tasks' = <<>>
        BY <2>2, <2>3
  <2>5. \A u \in Threads :
           /\ call'[u] = "joining" => call[u] = "joining"
           /\ InShutdown(u) <=> InShutdown(u)'
        BY <1>0, <2>3 DEF TypeOK
  <2>6. owner \in Threads \cup {None}
        BY <1>0 DEF TypeOK
  <2>7. owner' # None => joined' \/ InShutdown(owner)'
        BY <2>3, <2>5, <2>6
  <2>8. \A w \in Workers : call'[w] = "joining" => owner' = w
        BY <2>3, <2>5, ThreadKinds
  <2> QED
      BY <2>1, <2>4, <2>7, <2>8
<1>10. ASSUME NEW t \in Threads, WakeAll(t)
       PROVE  ShutdownKnown'
  <2>1. \A w \in Workers : worker'[w] = "exited" => worker[w] = "exited"
        BY <1>0, <1>10 DEF WakeAll, Woken, TypeOK
  <2>2. /\ UNCHANGED <<tasks, stopping, drain, stop, joined, owner>>
        /\ call[t] = "waking"
        /\ \/ call' = [call EXCEPT ![t] = "joining"] /\ ~(t \in Workers /\ owner # t)
           \/ call' = [call EXCEPT ![t] = "no"] /\ t \in Workers /\ owner # t
        BY <1>10 DEF WakeAll
  <2>3. \A u \in Threads :
           /\ call'[u] \in {"waking", "joining", "marking"} => u = t \/ call'[u] = call[u]
           /\ call'[u] = "submitting" => call[u] = "submitting"
           /\ InShutdown(u) /\ owner = u => InShutdown(u)'
        BY <1>0, <2>2 DEF TypeOK
  <2>4. owner \in Threads \cup {None}
        BY <1>0 DEF TypeOK
  <2>5. owner' # None => joined' \/ InShutdown(owner)'
    <3>1. ASSUME owner # None, ~joined
          PROVE  InShutdown(owner)'
      <4>1. owner \in Threads /\ InShutdown(owner) /\ owner' = owner
            BY <2>2, <2>4, <3>1
      <4>2. CASE owner = t
            BY <1>0, <2>2, <4>1, <4>2 DEF TypeOK
      <4>3. CASE owner # t
            BY <1>0, <2>2, <4>1, <4>3 DEF TypeOK
      <4> QED
          BY <4>2, <4>3
    <3> QED
        BY <2>2, <3>1
  <2>6. \A w \in Workers : call'[w] = "joining" => owner' = w
        BY <1>0, <2>2, ThreadKinds DEF TypeOK
  <2>7. \A w \in Workers : worker'[w] = "exited" => tasks' = <<>>
        BY <2>1, <2>2
  <2>8. \A w \in Workers : worker'[w] = "exited" =>
          stopping' \/ (owner' # None /\ \A u \in Threads : call'[u] # "submitting")
        BY <2>1, <2>2, <2>3
  <2> QED
      BY <2>2, <2>3, <2>5, <2>6, <2>7, <2>8
<1>11. ASSUME NEW t \in Threads, JoinWorkers(t)
       PROVE  ShutdownKnown'
       BY <1>0, <1>11 DEF JoinWorkers, TypeOK
<1>12. ASSUME NEW t \in Threads, MarkJoined(t)
       PROVE  ShutdownKnown'
       BY <1>0, <1>12 DEF MarkJoined, TypeOK
<1>13. ASSUME NEW t \in Threads, AwaitJoined(t)
       PROVE  ShutdownKnown'
       BY <1>0, <1>13 DEF AwaitJoined, JoinDone, TypeOK
<1>14. CASE UNCHANGED vars
       BY <1>14 DEF vars
<1> QED
    BY <1>1, <1>2, <1>3, <1>4, <1>5, <1>6, <1>7, <1>8, <1>9, <1>10, <1>11,
       <1>12, <1>13, <1>14
    DEF Next, SubmitStep, ShutdownStep, WorkerStep

(* No step lets a worker sleep on a task.                                   *)
LEMMA StepNoWakeUpLost ==
  IInv /\ ShutdownKnown /\ TasksInv /\ NoWakeUpLost /\ [Next]_vars => NoWakeUpLost'
<1> SUFFICES ASSUME IInv, ShutdownKnown, TasksInv, NoWakeUpLost, [Next]_vars, Asleep' # {}
             PROVE  /\ Len(tasks') <= Cardinality(Notifiers') + Cardinality(Lookers')
                    /\ stopping' => \E t \in Threads : call'[t] = "waking"
    BY DEF NoWakeUpLost, Notifiers, Lookers
<1> DEFINE Owed == Len(tasks') <= Cardinality(Notifiers') + Cardinality(Lookers')
           Waking == stopping' => \E t \in Threads : call'[t] = "waking"
<1>0. TypeOK /\ CancelEmpties /\ Len(tasks) \in Nat
      BY DEF IInv, TasksInv, TypeOK
<1>n. /\ Cardinality(Notifiers) \in Nat /\ Cardinality(Lookers) \in Nat
      /\ IsFiniteSet(Notifiers) /\ IsFiniteSet(Lookers)
      BY Counts
<1>h. Asleep # {} => /\ Len(tasks) <= Cardinality(Notifiers) + Cardinality(Lookers)
                     /\ stopping => \E t \in Threads : call[t] = "waking"
      BY DEF NoWakeUpLost, Notifiers, Lookers
(* A step of a thread that is neither notifying nor waking the others.      *)
<1>c. ASSUME NEW t \in Threads, NEW phase, call' = [call EXCEPT ![t] = phase],
             call[t] \notin {"notifying", "waking"}, phase # "notifying",
             worker' = worker, tasks' = tasks, stopping' = stopping
      PROVE  Owed /\ Waking
  <2>1. Notifiers' = Notifiers /\ Lookers' = Lookers /\ Asleep' = Asleep
        BY <1>0, <1>c DEF Notifiers, Lookers, Asleep, TypeOK
  <2> QED
      BY <1>0, <1>c, <1>h, <2>1 DEF TypeOK
<1>1. ASSUME NEW t \in Threads, ReadState(t) \/ JoinWorkers(t) \/ MarkJoined(t) \/ AwaitJoined(t)
      PROVE  Owed /\ Waking
  <2>1. /\ UNCHANGED <<worker, tasks, stopping>> /\ call[t] \in {"no", "joining", "marking"}
        /\ \E phase \in {"no", "submitting", "marking"} : call' = [call EXCEPT ![t] = phase]
        BY <1>1 DEF ReadState, MayCall, JoinWorkers, MarkJoined, AwaitJoined
  <2> QED
      BY <1>c, <2>1
<1>2. ASSUME NEW t \in Threads, QueueTask(t)
      PROVE  Owed /\ Waking
  <2>1. CASE tasks' = tasks
    <3>1. call[t] = "submitting" /\ UNCHANGED <<worker, stopping>>
          BY <1>2 DEF QueueTask
    <3>2. call' = [call EXCEPT ![t] = "no"]
      <4>1. Len(Append(tasks, NewTask)) = Len(tasks) + 1
            BY <1>0 DEF TypeOK
      <4> QED
          BY <1>0, <1>2, <2>1, <4>1 DEF QueueTask
    <3> QED
        BY <1>c, <2>1, <3>1, <3>2
  <2>2. CASE tasks' # tasks
    <3>1. /\ ~stopping /\ stopping' = stopping /\ worker' = worker
          /\ call[t] = "submitting" /\ call' = [call EXCEPT ![t] = "notifying"]
          BY <1>2, <2>2 DEF QueueTask
    <3>2. Len(tasks') = Len(tasks) + 1
          BY <1>0, <1>2, <2>2, QueueTaskMoves
    <3>3. Notifiers' = Notifiers \cup {t} /\ t \notin Notifiers
          BY <1>0, <3>1 DEF Notifiers, TypeOK
    <3>4. Cardinality(Notifiers') = Cardinality(Notifiers) + 1
          BY <1>n, <3>3, FS_AddElement
    <3>5. Lookers' = Lookers /\ Asleep' = Asleep
          BY <3>1 DEF Lookers, Asleep
    <3> QED
        BY <1>0, <1>h, <1>n, <3>1, <3>2, <3>4, <3>5
  <2> QED
      BY <2>1, <2>2
<1>3. ASSUME NEW t \in Threads, NotifyOne(t)
      PROVE  Owed /\ Waking
  <2>1. PICK w \in Asleep : worker' = [worker EXCEPT ![w] = "looking"]
        BY <1>3 DEF NotifyOne, Asleep
  <2>2. /\ call[t] = "notifying" /\ call' = [call EXCEPT ![t] = "no"]
        /\ UNCHANGED <<tasks, stopping>>
        BY <1>3 DEF NotifyOne
  <2>3. Notifiers' = Notifiers \ {t} /\ t \in Notifiers
        BY <1>0, <2>2 DEF Notifiers, TypeOK
  <2>4. Lookers' = Lookers \cup {w} /\ w \notin Lookers
        BY <1>0, <2>1 DEF Lookers, Asleep, TypeOK
  <2>5. /\ Cardinality(Notifiers') = Cardinality(Notifiers) - 1
        /\ Cardinality(Lookers') = Cardinality(Lookers) + 1
        BY <1>n, <2>3, <2>4, FS_AddElement, FS_RemoveElement
  <2>6. Waking
        BY <1>0, <1>h, <2>1, <2>2 DEF TypeOK
  <2> QED
      BY <1>h, <1>n, <2>1, <2>2, <2>5, <2>6
<1>4. ASSUME NEW w \in Workers, Sleep(w)
      PROVE  Owed /\ Waking
  <2>1. /\ tasks' = <<>> /\ ~stopping' /\ call' = call /\ worker[w] = "looking"
        /\ worker' = [worker EXCEPT ![w] = "asleep"]
        BY <1>4 DEF Sleep
  <2>2. Notifiers' = Notifiers /\ Lookers' = Lookers \ {w} /\ w \in Lookers
        BY <1>0, <2>1 DEF Notifiers, Lookers, TypeOK
  <2>3. Cardinality(Lookers') \in Nat
        BY <1>n, <2>2, FS_RemoveElement, FS_CardinalityType
  <2>4. Len(tasks') = 0
        BY <2>1
  <2> QED
      BY <1>n, <2>1, <2>2, <2>3, <2>4
<1>5. ASSUME NEW w \in Workers, Exit(w)
      PROVE  Owed /\ Waking
  <2>1. tasks = <<>>
        BY <1>0, <1>5 DEF Exit, MustExit, CancelEmpties, ShutdownKnown
  <2>2. /\ UNCHANGED <<tasks, stopping, call>> /\ worker[w] = "looking"
        /\ worker' = [worker EXCEPT ![w] = "exited"]
        BY <1>5 DEF Exit
  <2>3. /\ Notifiers' = Notifiers /\ Lookers' = Lookers \ {w} /\ w \in Lookers
        /\ Asleep' = Asleep
        BY <1>0, <2>2 DEF Notifiers, Lookers, Asleep, TypeOK
  <2>4. Cardinality(Lookers') \in Nat
        BY <1>n, <2>3, FS_RemoveElement, FS_CardinalityType
  <2>5. Len(tasks') = 0
        BY <2>1, <2>2
  <2> QED
      BY <1>h, <1>n, <2>2, <2>3, <2>4, <2>5
<1>6. ASSUME NEW w \in Workers, TakeTask(w)
      PROVE  Owed /\ Waking
  <2>1. /\ Len(tasks') = Len(tasks) - 1 /\ worker[w] = "looking"
        /\ worker' = [worker EXCEPT ![w] = "busy"]
        BY <1>0, <1>6, TakeTaskMoves DEF TasksInv
  <2>2. UNCHANGED <<call, stopping>>
        BY <1>6 DEF TakeTask
  <2>3. /\ Notifiers' = Notifiers /\ Lookers' = Lookers \ {w} /\ w \in Lookers
        /\ Asleep' = Asleep
        BY <1>0, <2>1, <2>2 DEF Notifiers, Lookers, Asleep, TypeOK
  <2>4. Cardinality(Lookers') = Cardinality(Lookers) - 1
        BY <1>n, <2>3, FS_RemoveElement
  <2> QED
      BY <1>0, <1>h, <1>n, <2>1, <2>2, <2>3, <2>4
<1>7. ASSUME NEW w \in Workers, FinishTask(w)
      PROVE  Owed /\ Waking
  <2>1. /\ worker[w] = "busy" /\ worker' = [worker EXCEPT ![w] = "looking"]
        /\ UNCHANGED <<call, stopping, tasks>>
        BY <1>7 DEF FinishTask
  <2>2. /\ Notifiers' = Notifiers /\ Lookers' = Lookers \cup {w} /\ w \notin Lookers
        /\ Asleep' = Asleep
        BY <1>0, <2>1 DEF Notifiers, Lookers, Asleep, TypeOK
  <2>3. Cardinality(Lookers') = Cardinality(Lookers) + 1
        BY <1>n, <2>2, FS_AddElement
  <2> QED
      BY <1>0, <1>h, <1>n, <2>1, <2>2, <2>3
<1>8. ASSUME NEW t \in Threads, NEW d \in BOOLEAN, EnterShutdown(t, d)
      PROVE  Owed /\ Waking
  <2>1. /\ call[t] = "no" /\ call' = [call EXCEPT ![t] = "closing"]
        /\ UNCHANGED <<worker, tasks, stopping>>
        BY <1>8 DEF EnterShutdown, MayCall
  <2> QED
      BY <1>c, <2>1
<1>9. ASSUME NEW t \in Threads, CloseState(t)
      PROVE  Owed /\ Waking
  <2>1. /\ call[t] = "closing" /\ call' = [call EXCEPT ![t] = "waking"] /\ worker' = worker
        BY <1>9 DEF CloseState
  <2>2. tasks' = tasks \/ tasks' = <<>>
        BY <1>9 DEF CloseState
  <2>3. Notifiers' = Notifiers /\ Lookers' = Lookers /\ Asleep' = Asleep
        BY <1>0, <2>1 DEF Notifiers, Lookers, Asleep, TypeOK
  <2>4. Owed
        BY <1>0, <1>h, <1>n, <2>2, <2>3
  <2>5. call'[t] = "waking"
        BY <1>0, <2>1 DEF TypeOK
  <2> QED
      BY <2>4, <2>5
<1>10. ASSUME NEW t \in Threads, WakeAll(t)
       PROVE  FALSE
       BY <1>0, <1>10 DEF WakeAll, Woken, Asleep, TypeOK
<1>11. CASE UNCHANGED vars
  <2>1. Notifiers' = Notifiers /\ Lookers' = Lookers /\ Asleep' = Asleep
        BY <1>11 DEF vars, Notifiers, Lookers, Asleep
  <2> QED
      BY <1>11, <1>h, <2>1 DEF vars
<1> QED
    BY <1>1, <1>2, <1>3, <1>4, <1>5, <1>6, <1>7, <1>8, <1>9, <1>10, <1>11
    DEF Next, SubmitStep, ShutdownStep, WorkerStep

(* Whoever waits, waits for a thread that goes on: follow the owner of the  *)
(* join to the workers it waits for, and these to what they do.             *)
LEMMA SomeoneGoesOn == IInv /\ WaitInv => NeverStuck
<1> SUFFICES ASSUME IInv, WaitInv, ~CanGoOn,
                    tasks # <<>> \/ (\E t \in Threads : InShutdown(t))
             PROVE  FALSE
    BY DEF WaitInv, NeverStuck
<1>0. TypeOK /\ JoinInv /\ ShutdownKnown /\ ThreadKinds
      BY ThreadKinds DEF IInv, WaitInv
<1>1. \A t \in Threads : call[t] \in {"no", "joining"}
      BY <1>0 DEF CanGoOn, TypeOK
<1>2. Asleep # {} => tasks = <<>> /\ ~stopping
  <2> SUFFICES ASSUME Asleep # {}
               PROVE  tasks = <<>> /\ ~stopping
      OBVIOUS
  <2>1. Notifiers = {} /\ Lookers = {}
        BY <1>1 DEF Notifiers, Lookers, CanGoOn
  <2>2. Cardinality(Notifiers) = 0 /\ Cardinality(Lookers) = 0
        BY <2>1, FS_EmptySet
  <2>3. Len(tasks) <= Cardinality(Notifiers) + Cardinality(Lookers)
        BY DEF WaitInv, NoWakeUpLost, Notifiers, Lookers
  <2>4. tasks = <<>>
        BY <1>0, <2>2, <2>3 DEF TypeOK
  <2> QED
      BY <1>1, <2>4 DEF WaitInv, NoWakeUpLost
<1>3. \A w \in Workers : \/ worker[w] = "exited"
                         \/ worker[w] = "asleep"
                         \/ worker[w] = "busy" /\ call[w] = "joining" /\ owner = w
      BY <1>0, <1>1 DEF CanGoOn, TypeOK, ShutdownKnown
(* The owner of the join, if it is under way, has somebody to wait for.     *)
<1>4. ASSUME NEW t \in Threads, call[t] = "joining", owner = t
      PROVE  FALSE
  <2>1. Asleep = {}
        BY <1>0, <1>2, <1>4 DEF ShutdownKnown
  <2>2. \A w \in Workers \ {t} : worker[w] = "exited"
        BY <1>3, <1>4, <2>1 DEF Asleep
  <2> QED
      BY <1>4, <2>2 DEF CanGoOn
<1>5. \A t \in Threads : ~InShutdown(t)
  <2> SUFFICES ASSUME NEW t \in Threads, InShutdown(t)
               PROVE  FALSE
      OBVIOUS
  <2>1. call[t] = "joining" /\ owner # None /\ owner \in Threads
        BY <1>0, <1>1 DEF InShutdown, JoinInv, TypeOK
  <2>2. ~joined /\ owner # t
        BY <1>4, <2>1 DEF CanGoOn
  <2>3. InShutdown(owner)
        BY <1>0, <2>1, <2>2 DEF ShutdownKnown
  <2>4. call[owner] = "joining"
        BY <1>1, <2>1, <2>3 DEF InShutdown
  <2> QED
      BY <1>4, <2>1, <2>4
<1>6. tasks # <<>>
      BY <1>5
<1>7. PICK w \in Workers : worker[w] # "exited" /\ worker[w] # "asleep"
      BY <1>0, <1>2, <1>6, ConstantsAssumption DEF ShutdownKnown, Asleep
<1> QED
    BY <1>0, <1>3, <1>4, <1>7 DEF ThreadKinds

(* When a call from outside returns, no worker is left that is not          *)
(* detached, and if none is detached, no task.                              *)
LEMMA ReturnsWhole == IInv /\ TasksInv /\ WaitInv => ReturnsAfterJoin
<1> SUFFICES ASSUME IInv, TasksInv, WaitInv, NEW t \in returned \cap Callers
             PROVE  /\ \A w \in Workers \ Detached : worker[w] = "exited"
                    /\ Detached = {} =>
                         1 .. accepted = finished \cup discarded /\ (drain => discarded = {})
    BY Zenon DEF ReturnsAfterJoin
<1>1. \A w \in Workers \ Detached : worker[w] = "exited"
  <2>1. OthersExited(owner)
        BY DEF IInv, JoinInv
  <2>2. \A w \in Workers \ Detached : w # owner
        BY DEF Detached
  <2> QED
      BY <2>1, <2>2 DEF OthersExited
<1>2. ASSUME Detached = {}
      PROVE  1 .. accepted = finished \cup discarded
  <2>1. \A w \in Workers : worker[w] = "exited"
        BY <1>1, <1>2
  <2>2. tasks = <<>>
        BY <2>1, ConstantsAssumption DEF WaitInv, ShutdownKnown
  <2>3. Waiting = {} /\ Running = {}
        BY <2>1, <2>2 DEF Waiting, Running, TasksInv, NoTaskTwice
  <2> QED
      BY <2>3 DEF TasksInv, NoTaskIsLost
<1>3. drain => discarded = {}
      BY DEF TasksInv, CancelEmpties
<1> QED
    BY <1>1, <1>2, <1>3

-----------------------------------------------------------------------------
(* The status TaskPool is shown, in terms of these sets; they are disjoint, *)
(* so it is well defined.                                                   *)
StatusFits ==
  /\ Status = [k \in Tasks |-> Status[k]]
  /\ \A k \in Tasks :
       /\ k > accepted => Status[k] = "new"
       /\ k \in Waiting => Status[k] = "queued"
       /\ k \in Running => Status[k] = "running"
       /\ k \in discarded => Status[k] = "discarded"
       /\ k \in finished => Status[k] = "done"
       /\ k > accepted \/ k \in Waiting \cup Running \cup discarded \cup finished

(* The place of a task is its status in TaskPool.                           *)
LEMMA StatusIs == TypeOK /\ NoTaskIsLost /\ NoTaskTwice => StatusFits
<1> SUFFICES ASSUME TypeOK, NoTaskIsLost, NoTaskTwice, NEW k \in Tasks
             PROVE  /\ k > accepted => Status[k] = "new"
                    /\ k \in Waiting => Status[k] = "queued"
                    /\ k \in Running => Status[k] = "running"
                    /\ k \in discarded => Status[k] = "discarded"
                    /\ k \in finished => Status[k] = "done"
                    /\ k > accepted \/ k \in Waiting \cup Running \cup discarded \cup finished
  <2>1. Status = [k \in Tasks |-> Status[k]]
    <3>1. Status \in [Tasks -> {Status[j] : j \in Tasks}]
          BY DEF Status
    <3> QED
        BY <3>1
  <2> QED
      BY <2>1 DEF StatusFits
<1>1. k # None /\ k \in Nat /\ k > 0 /\ accepted \in Nat
      BY ConstantsAssumption DEF Tasks, TypeOK
<1>2. (\E i \in DOMAIN tasks : tasks[i] = k) <=> k \in Waiting
      BY DEF Waiting, TypeOK
<1>3. (\E w \in Workers : current[w] = k) <=> k \in Running
      BY <1>1 DEF Running
<1>4. Status[k] = CASE k > accepted -> "new"
                    [] \E i \in DOMAIN tasks : tasks[i] = k -> "queued"
                    [] \E w \in Workers : current[w] = k -> "running"
                    [] k \in discarded -> "discarded"
                    [] k \in finished -> "done"
      BY DEF Status
<1>5. /\ k > accepted <=> k \notin Waiting \cup Running \cup discarded \cup finished
      /\ k \in Waiting => k \notin Running \cup discarded \cup finished
      /\ k \in Running => k \notin discarded \cup finished
      /\ k \in discarded => k \notin finished
      BY <1>1 DEF NoTaskIsLost, NoTaskTwice
<1> QED
    BY <1>2, <1>3, <1>4, <1>5

(* Also after a step.                                                       *)
LEMMA StatusIsNext == TypeOK' /\ NoTaskIsLost' /\ NoTaskTwice' => StatusFits'
BY StatusIs, PTL

ModeFits ==
  /\ ~stopping => Mode = "open"
  /\ stopping /\ drain => Mode = "draining"
  /\ stopping /\ ~drain => Mode = "cancelled"

(* The flags of the state are its mode in TaskPool.                         *)
LEMMA ModeIs == ModeFits
BY DEF ModeFits, Mode

(* Also after a step.                                                       *)
LEMMA ModeIsNext == ModeFits'
BY ModeIs, PTL

-----------------------------------------------------------------------------
(* Every step of the pool is one of TaskPool's, or changes nothing there.   *)
LEMMA InitIsPoolInit == Init => Pool!PoolInit
<1> SUFFICES ASSUME Init
             PROVE  Pool!PoolInit
    OBVIOUS
<1>1. TypeOK /\ NoTaskIsLost /\ NoTaskTwice
      BY InitIInv, InitTasksInv DEF IInv, TasksInv
<1>2. Status = [k \in Tasks |-> "new"]
      BY <1>1, StatusIs DEF StatusFits, Init, Tasks
<1>3. Mode = "open"
      BY ModeIs DEF ModeFits, Init
<1> QED
    BY <1>2, <1>3 DEF Pool!PoolInit, Pool!Tasks, Tasks

(* One case for every action: which step of TaskPool it is.                 *)
LEMMA StepIsPoolStep == IInv /\ TasksInv /\ [Next]_vars => [Pool!PoolNext]_(Pool!poolVars)
<1> SUFFICES ASSUME IInv, TasksInv, [Next]_vars
             PROVE  [Pool!PoolNext]_(Pool!poolVars)
    OBVIOUS
<1>0. /\ TypeOK /\ BusyHoldsTask /\ accepted \in Nat
      /\ QueueInOrder /\ NoTaskTwice /\ NoTaskIsLost /\ CancelEmpties
      BY ConstantsAssumption DEF IInv, TypeOK, Tasks, TasksInv
<1>i. TypeOK' /\ NoTaskIsLost' /\ NoTaskTwice'
      BY StepTypeOK, StepTasksInv DEF IInv, TasksInv
<1>s. StatusFits /\ StatusFits'
      BY <1>0, <1>i, StatusIs, StatusIsNext
<1>m. ModeFits /\ ModeFits'
      BY ModeIs, ModeIsNext
<1>t. Pool!Tasks = Tasks
      BY DEF Pool!Tasks, Tasks
(* A task moves, and the others stay where they are.                        *)
<1>e. ASSUME NEW k \in Tasks, NEW s, Status'[k] = s,
             \A j \in Tasks \ {k} : Status'[j] = Status[j]
      PROVE  Status' = [Status EXCEPT ![k] = s]
      BY <1>s, <1>e DEF StatusFits
<1>u. ASSUME \A j \in Tasks : Status'[j] = Status[j]
      PROVE  Status' = Status
      BY <1>s, <1>u DEF StatusFits
<1>1. ASSUME NEW t \in Threads, QueueTask(t), tasks' # tasks
      PROVE  Pool!Accept(accepted + 1) /\ accepted + 1 \in Tasks
  <2> DEFINE k == accepted + 1
  <2>1. /\ accepted' = k /\ k \in Tasks /\ ~stopping /\ Waiting' = Waiting \cup {k}
        BY <1>0, <1>1, QueueTaskMoves
  <2>2. UNCHANGED <<stopping, drain, discarded, finished>> /\ Running' = Running
        BY <1>1 DEF QueueTask, Running
  <2>3. Status[k] = "new" /\ \A j \in 1 .. k - 1 : Status[j] # "new"
    <3>1. \A j \in 1 .. k - 1 : j \in Tasks /\ ~(j > accepted)
          BY <1>0, <2>1, ConstantsAssumption DEF Tasks
    <3> QED
        BY <1>0, <1>s, <2>1, <3>1 DEF StatusFits
  <2>4. Status'[k] = "queued"
        BY <1>s, <2>1 DEF StatusFits
  <2>5. \A j \in Tasks \ {k} : Status'[j] = Status[j]
    <3> SUFFICES ASSUME NEW j \in Tasks \ {k}
                 PROVE  Status'[j] = Status[j]
        OBVIOUS
    <3>1. j > accepted => j > accepted'
          BY <1>0, <2>1, ConstantsAssumption DEF Tasks
    <3> QED
        BY <1>s, <2>1, <2>2, <3>1 DEF StatusFits
  <2>6. Status' = [Status EXCEPT ![k] = "queued"]
        BY <1>e, <2>1, <2>4, <2>5
  <2>7. Mode = "open" /\ Mode' = Mode
        BY <1>m, <2>1, <2>2 DEF ModeFits
  <2> QED
      BY <2>1, <2>3, <2>6, <2>7 DEF Pool!Accept
<1>2. ASSUME NEW w \in Workers, TakeTask(w)
      PROVE  Pool!Begin(tasks[1]) /\ tasks[1] \in Tasks
  <2> DEFINE k == tasks[1]
  <2>1. /\ k \in Tasks /\ k \in Waiting /\ \A j \in Waiting : j # k => k < j
        /\ Waiting' = Waiting \ {k} /\ ~(stopping /\ ~drain)
        BY <1>0, <1>2, TakeTaskMoves
  <2>2. Running' = Running \cup {k}
        BY <1>0, <1>2, TaskIsTaken
  <2>3. UNCHANGED <<stopping, drain, discarded, finished, accepted>>
        BY <1>2 DEF TakeTask
  <2> HIDE DEF k
  <2>4. Status[k] = "queued" /\ Status'[k] = "running"
        BY <1>s, <2>1, <2>2 DEF StatusFits
  <2>5. ASSUME NEW j \in 1 .. k - 1
        PROVE  Status[j] # "queued"
    <3>1. j \in Tasks /\ ~(k < j) /\ j # k
          BY <2>1, ConstantsAssumption DEF Tasks
    <3>2. j \notin Waiting
          BY <2>1, <3>1
    <3> QED
        BY <1>s, <3>1, <3>2 DEF StatusFits
  <2>6. \A j \in Tasks \ {k} : Status'[j] = Status[j]
        BY <1>s, <2>1, <2>2, <2>3 DEF StatusFits
  <2>7. Status' = [Status EXCEPT ![k] = "running"]
        BY <1>e, <2>1, <2>4, <2>6
  <2>8. Mode # "cancelled" /\ Mode' = Mode
        BY <1>0, <1>m, <2>1, <2>3 DEF ModeFits, TypeOK
  <2>9. Pool!Begin(k) /\ k \in Tasks
        BY <2>1, <2>4, <2>5, <2>7, <2>8 DEF Pool!Begin
  <2> QED
      BY <2>9 DEF k
<1>3. ASSUME NEW w \in Workers, FinishTask(w)
      PROVE  Pool!Finish(current[w]) /\ current[w] \in Tasks
  <2> DEFINE k == current[w]
  <2>1. /\ k \in Running /\ k \in Tasks /\ Running' = Running \ {k}
        /\ finished' = finished \cup {k}
        BY <1>0, <1>3, FinishTaskMoves
  <2>2. UNCHANGED <<stopping, drain, discarded, accepted>> /\ Waiting' = Waiting
        BY <1>3 DEF FinishTask, Waiting
  <2> HIDE DEF k
  <2>3. Status[k] = "running" /\ Status'[k] = "done"
        BY <1>s, <2>1 DEF StatusFits
  <2>4. \A j \in Tasks \ {k} : Status'[j] = Status[j]
        BY <1>s, <2>1, <2>2 DEF StatusFits
  <2>5. Status' = [Status EXCEPT ![k] = "done"]
        BY <1>e, <2>1, <2>3, <2>4
  <2>6. Mode' = Mode
        BY <1>0, <1>m, <2>2 DEF ModeFits, TypeOK
  <2>7. Pool!Finish(k) /\ k \in Tasks
        BY <2>1, <2>3, <2>5, <2>6 DEF Pool!Finish
  <2> QED
      BY <2>7 DEF k
<1>4. ASSUME NEW t \in Threads, CloseState(t)
      PROVE  Pool!DrainAndStop \/ Pool!Cancel \/ UNCHANGED Pool!poolVars
  <2>1. /\ stopping' /\ drain' = Drains(t)
        /\ UNCHANGED <<accepted, current, worker, finished>>
        /\ drain' => UNCHANGED <<tasks, discarded>>
        /\ ~drain' => tasks' = <<>> /\ Waiting' = {} /\ discarded' = discarded \cup Waiting
        BY <1>0, <1>4, CancelMoves
  <2>2. Running' = Running
        BY <2>1 DEF Running
  <2>3. CASE drain'
    <3>1. Waiting' = Waiting
          BY <2>1, <2>3 DEF Waiting
    <3>2. Status' = Status
          BY <1>s, <1>u, <2>1, <2>2, <2>3, <3>1 DEF StatusFits
    <3>3. Mode' = "draining" /\ Mode \in {"open", "draining"}
          BY <1>0, <1>m, <2>1, <2>3 DEF ModeFits, Drains, TypeOK
    <3> QED
        BY <3>2, <3>3 DEF Pool!DrainAndStop, Pool!poolVars
  <2>4. CASE ~drain' /\ stopping /\ ~drain
    <3>1. tasks = <<>> /\ tasks' = <<>>
          BY <1>0, <2>1, <2>4 DEF CancelEmpties
    <3>2. Waiting = {} /\ Waiting' = {} /\ discarded' = discarded
          BY <2>1, <2>4, <3>1 DEF Waiting
    <3>3. Status' = Status
          BY <1>s, <1>u, <2>1, <2>2, <3>2 DEF StatusFits
    <3>4. Mode' = Mode
          BY <1>m, <2>1, <2>4 DEF ModeFits
    <3> QED
        BY <3>3, <3>4 DEF Pool!poolVars
  <2>5. CASE ~drain' /\ ~(stopping /\ ~drain)
    <3>1. Mode' = "cancelled" /\ Mode # "cancelled"
          BY <1>0, <1>m, <2>1, <2>5 DEF ModeFits, TypeOK
    <3>2. \A j \in Tasks : Status'[j] = IF Status[j] = "queued" THEN "discarded" ELSE Status[j]
          BY <1>s, <2>1, <2>2, <2>5 DEF StatusFits
    <3>3. Status' = [k \in Tasks |->
                       IF Status[k] = "queued" THEN "discarded" ELSE Status[k]]
          BY <1>s, <3>2 DEF StatusFits
    <3> QED
        BY <1>t, <3>1, <3>3 DEF Pool!Cancel
  <2> QED
      BY <2>3, <2>4, <2>5
<1>5. CASE /\ ~ \E t \in Threads : CloseState(t) \/ (QueueTask(t) /\ tasks' # tasks)
           /\ ~ \E w \in Workers : TakeTask(w) \/ FinishTask(w)
  <2>1. UNCHANGED <<tasks, current, accepted, discarded, finished, stopping, drain>>
        BY <1>0, <1>5, OtherSteps
  <2>2. Waiting' = Waiting /\ Running' = Running
        BY <2>1 DEF Waiting, Running
  <2>3. Status' = Status
        BY <1>s, <1>u, <2>1, <2>2 DEF StatusFits
  <2>4. Mode' = Mode
        BY <1>0, <1>m, <2>1 DEF ModeFits, TypeOK
  <2> QED
      BY <2>3, <2>4 DEF Pool!poolVars
<1> QED
    BY <1>1, <1>2, <1>3, <1>4, <1>5, <1>t DEF Pool!PoolNext

(* The executor's Submit, WorkerLoop and Shutdown keep the promise TaskPool *)
(* states, but for its fairness: tasks begin in the order they were         *)
(* accepted, at most once, none after a cancelling shutdown, which discards *)
(* what has not begun and nothing else.                                     *)
THEOREM ImplementsPoolSafely == Spec => Pool!PoolInit /\ [][Pool!PoolNext]_(Pool!poolVars)
<1>1. IInv /\ TasksInv /\ [Next]_vars => (IInv /\ TasksInv)'
      BY StepTypeOK, StepBusyHoldsTask, StepJoinInv, StepTasksInv DEF IInv
<1> QED
    BY <1>1, InitIInv, InitTasksInv, InitIsPoolInit, StepIsPoolStep, PTL DEF Spec

-----------------------------------------------------------------------------
(* Persistence: what the worker and the UI thread know of each other.       *)
Queued == {queue[i] : i \in 1 .. Len(queue)}

(* Only an open pool takes tasks.  Stop keeps the UI thread until the       *)
(* worker is idle, and a cancelling one drops what was owed.  A stopped     *)
(* service has nothing pending, whatever a save that threw left behind.     *)
PoolIsUsed ==
  /\ ui \in {"draining", "cancelling"} => pool = "open"
  /\ ui = "joining" <=> pool \in {"draining", "cancelled"}
  /\ pool = "stopped" => saver = "idle" /\ queue = <<>>
  /\ pool = "cancelled" => queue = <<>> /\ owed = Saves!Nothing
  /\ pool = "stopped" /\ ui # "submitting" =>
       pendingSettings = Saves!Nothing /\ ~settingsSaveScheduled

JobIsKnown ==
  /\ saver = "saving" => job \in Saves!Versions
  /\ saver = "write" => job \in 1 .. writes
  /\ \A i \in 1 .. Len(queue) : queue[i].kind = "write" => queue[i].id \in 1 .. writes
  /\ settledWrites \subseteq 1 .. writes
  /\ {owed, pendingSettings} \subseteq 0 .. asked

(* A save is about to be queued, queued, or under way, one of them and once,*)
(* and then it is scheduled.                                                *)
OneSaveTask ==
  /\ \A i, j \in 1 .. Len(queue) :
       queue[i] = Saves!SaveTask /\ queue[j] = Saves!SaveTask => i = j
  /\ Saves!SaveTask \in Queued => ui # "submitting" /\ saver \notin Saves!SavePhases
  /\ saver \in Saves!SavePhases => ui # "submitting"
  /\ \/ ui = "submitting" \/ Saves!SaveTask \in Queued \/ saver \in Saves!SavePhases
     => settingsSaveScheduled

(* What is pending will be taken: unless a save threw, a save is under way. *)
PendingIsTaken ==
  /\ ui = "submitting" => pendingSettings = asked /\ pendingSettings # owed
  /\ ui # "submitting" /\ pool # "cancelled" =>
       /\ settingsSaveScheduled \/ pendingSettings # Saves!Nothing =>
            Saves!SaveTask \in Queued \/ saver \in Saves!SavePhases
       /\ pendingSettings # Saves!Nothing => owed \in {Saves!Nothing, pendingSettings}

(* The settings owed are on disk, reported failed, or still to be saved.    *)
OwedIsKept ==
  /\ owed # Saves!Nothing =>
       owed = file \/ owed \in failed \/ owed = pendingSettings \/ (saver = "saving" /\ owed = job)
  /\ saver = "saving" => owed \in {Saves!Nothing, pendingSettings, job}

(* Every write asked for is settled, queued or under way.                   *)
WritesAreKept ==
  \A n \in 1 .. writes :
    \/ n \in settledWrites
    \/ \E i \in 1 .. Len(queue) : queue[i].kind = "write" /\ queue[i].id = n
    \/ saver = "write" /\ job = n

(* When the settings owed are settled, the last result the UI thread was or *)
(* will be told is theirs.                                                  *)
OwedIsSettled ==
  owed # Saves!Nothing /\ owed # pendingSettings /\ saver # "saving"

LastWordIsTrue ==
  OwedIsSettled =>
    /\ events # <<>> /\ events[Len(events)] => file = owed
    /\ events = <<>> /\ settingsStatus = "saved" => file = owed

SavesInv ==
  /\ Saves!TypeOK /\ PoolIsUsed /\ JobIsKnown /\ OneSaveTask /\ WritesAreKept
  /\ ~threw => PendingIsTaken /\ OwedIsKept /\ LastWordIsTrue

(* The bounds, one by one.                                                  *)
LEMMA Bounds == MaxSaves \in Nat /\ MaxWrites \in Nat /\ MaxMerges \in Nat /\ MaxStarts \in Nat
BY SavesBounds

(* A service that was not started owes nothing.                             *)
LEMMA SavesInit == Saves!Init => SavesInv
<1> SUFFICES ASSUME Saves!Init
             PROVE  SavesInv
  OBVIOUS
<1> USE DEF Saves!Init
<1>1. Saves!TypeOK
  <2>1. queue \in Seq(Saves!Task) /\ events \in Seq(BOOLEAN)
    OBVIOUS
  <2>2. asked \in 0 .. MaxSaves /\ writes \in 0 .. MaxWrites /\ merges \in 0 .. MaxMerges
        /\ starts \in 0 .. MaxStarts
    BY Bounds
  <2>3. QED
    BY <2>1, <2>2 DEF Saves!TypeOK, Saves!Nothing, Saves!WorkerPhases
<1>2. PoolIsUsed /\ JobIsKnown /\ OneSaveTask /\ WritesAreKept
  BY DEF PoolIsUsed, JobIsKnown, OneSaveTask, WritesAreKept, Queued, Saves!Nothing,
     Saves!SavePhases
<1>3. PendingIsTaken /\ OwedIsKept /\ LastWordIsTrue
  BY DEF PendingIsTaken, OwedIsKept, LastWordIsTrue, OwedIsSettled, Saves!Nothing
<1>4. QED
  BY <1>1, <1>2, <1>3 DEF SavesInv

(* What becomes of the queue when a task is added or taken.                 *)
LEMMA QueueAppended ==
  ASSUME queue \in Seq(Saves!Task), NEW t, queue' = Append(queue, t)
  PROVE  /\ Len(queue) \in Nat /\ Len(queue') = Len(queue) + 1
         /\ \A i \in 1 .. Len(queue) : queue'[i] = queue[i]
         /\ queue'[Len(queue) + 1] = t
         /\ Queued' = Queued \cup {t}
<1>1. /\ Len(queue) \in Nat /\ Len(queue') = Len(queue) + 1
      /\ \A i \in 1 .. Len(queue) : queue'[i] = queue[i]
      /\ queue'[Len(queue) + 1] = t
  OBVIOUS
<1>2. QED
  BY <1>1 DEF Queued

(* What the queue holds when its first task has been taken.                 *)
LEMMA QueueTaken ==
  ASSUME queue \in Seq(Saves!Task), queue # <<>>, queue' = Tail(queue)
  PROVE  /\ Head(queue) = queue[1] /\ Head(queue) \in Queued /\ Head(queue) \in Saves!Task
         /\ Len(queue) \in Nat /\ Len(queue) >= 1 /\ Len(queue') = Len(queue) - 1
         /\ \A i \in 1 .. Len(queue') : queue'[i] = queue[i + 1] /\ i + 1 \in 1 .. Len(queue)
         /\ \A i \in 2 .. Len(queue) : queue[i] = queue'[i - 1] /\ i - 1 \in 1 .. Len(queue')
         /\ Queued' \subseteq Queued
<1>1. /\ Head(queue) = queue[1] /\ Head(queue) \in Saves!Task
      /\ Len(queue) \in Nat /\ Len(queue) >= 1 /\ Len(queue') = Len(queue) - 1
      /\ \A i \in 1 .. Len(queue') : queue'[i] = queue[i + 1] /\ i + 1 \in 1 .. Len(queue)
  OBVIOUS
<1>2. \A i \in 2 .. Len(queue) : queue[i] = queue'[i - 1] /\ i - 1 \in 1 .. Len(queue')
  BY <1>1
<1>3. Queued' \subseteq Queued /\ Head(queue) \in Queued
  BY <1>1 DEF Queued
<1>4. QED
  BY <1>1, <1>2, <1>3

(* A task that saves is the save task; a task that writes names its write.  *)
LEMMA TaskKinds ==
  ASSUME NEW t \in Saves!Task
  PROVE  /\ t.kind \in {"save", "merge", "write"}
         /\ t.kind = "save" <=> t = Saves!SaveTask
         /\ t.kind = "write" => t.id \in Saves!Writes
BY DEF Saves!Task, Saves!SaveTask, Saves!Nothing

(* The two tasks that carry nothing are tasks.                              *)
LEMMA TasksToAdd ==
  /\ Saves!SaveTask \in Saves!Task /\ Saves!MergeTask \in Saves!Task
  /\ Saves!MergeTask # Saves!SaveTask /\ Saves!MergeTask.kind # "write"
  /\ Saves!SaveTask.kind = "save"
BY DEF Saves!Task, Saves!SaveTask, Saves!MergeTask, Saves!Nothing

-----------------------------------------------------------------------------
(* The types, in the groups the steps change together.                      *)
PoolTypes == pool \in {"stopped", "open", "draining", "cancelled"} /\ queue \in Seq(Saves!Task)
SettingsTypes ==
  /\ pendingSettings \in Saves!Versions \cup {Saves!Nothing}
  /\ settingsSaveScheduled \in BOOLEAN
UiTypes ==
  /\ deferrableStop \in BOOLEAN
  /\ ui \in {"free", "submitting", "draining", "cancelling", "joining"}
WorkerTypes ==
  /\ saver \in Saves!WorkerPhases /\ cut \in BOOLEAN
  /\ job \in Saves!Versions \cup Saves!Writes \cup {Saves!Nothing}
DiskTypes ==
  file \in Saves!Versions \cup {Saves!Nothing} /\ index \in {"old", "merged", "cut"}
EventTypes ==
  events \in Seq(BOOLEAN) /\ settingsStatus \in {"none", "saving", "saved", "error"}
CallTypes ==
  /\ asked \in 0 .. MaxSaves /\ writes \in 0 .. MaxWrites
  /\ merges \in 0 .. MaxMerges /\ starts \in 0 .. MaxStarts
GhostTypes ==
  /\ owed \in Saves!Versions \cup {Saves!Nothing} /\ failed \subseteq Saves!Versions
  /\ settledWrites \subseteq Saves!Writes /\ threw \in BOOLEAN
Types == /\ PoolTypes /\ SettingsTypes /\ UiTypes /\ WorkerTypes /\ DiskTypes /\ EventTypes
         /\ CallTypes /\ GhostTypes

(* The groups are the type invariant.                                       *)
LEMMA TypesAreTypeOK == Types <=> Saves!TypeOK
BY DEF Saves!TypeOK, Types, PoolTypes, SettingsTypes, UiTypes, WorkerTypes, DiskTypes, EventTypes,
   CallTypes, GhostTypes

(* Every step keeps the types.                                              *)
LEMMA SavesTypeStep ==
  ASSUME Types, JobIsKnown, [Saves!Next]_(Saves!vars)
  PROVE  Types'
<1> USE DEF Types
<1>0. ASSUME UNCHANGED Saves!poolVars PROVE PoolTypes'
  BY <1>0 DEF PoolTypes, Saves!poolVars
<1>1. ASSUME UNCHANGED Saves!settingsVars PROVE SettingsTypes'
  BY <1>1 DEF SettingsTypes, Saves!settingsVars
<1>2. ASSUME UNCHANGED <<deferrableStop, ui>> PROVE UiTypes'
  BY <1>2 DEF UiTypes
<1>3. ASSUME UNCHANGED Saves!workerVars PROVE WorkerTypes'
  BY <1>3 DEF WorkerTypes, Saves!workerVars
<1>4. ASSUME UNCHANGED Saves!diskVars PROVE DiskTypes'
  BY <1>4 DEF DiskTypes, Saves!diskVars
<1>5. ASSUME UNCHANGED Saves!uiVars PROVE EventTypes'
  BY <1>5 DEF EventTypes, Saves!uiVars
<1>6. ASSUME UNCHANGED Saves!callVars PROVE CallTypes'
  BY <1>6 DEF CallTypes, Saves!callVars
<1>7. ASSUME UNCHANGED Saves!ghostVars PROVE GhostTypes'
  BY <1>7 DEF GhostTypes, Saves!ghostVars
<1> DEFINE Versions0 == Saves!Versions \cup {Saves!Nothing}
<1>10. CASE Saves!Start
  <2>1. PoolTypes' /\ UiTypes' /\ CallTypes'
    <3>1. PoolTypes' /\ UiTypes'
      BY <1>10 DEF Saves!Start, PoolTypes, UiTypes
    <3>2. CallTypes'
      BY <1>10, Bounds DEF Saves!Start, CallTypes
    <3>3. QED
      BY <3>1, <3>2
  <2>2. GhostTypes'
    BY <1>10 DEF Saves!Start, GhostTypes
  <2>3. QED
    BY <1>10, <2>1, <2>2, <1>1, <1>3, <1>4, <1>5 DEF Saves!Start
<1>11. CASE Saves!SaveSettings
  <2>1. asked' = asked + 1 /\ asked' \in 0 .. MaxSaves /\ asked' \in Saves!Versions
    BY <1>11, Bounds DEF Saves!SaveSettings, CallTypes, Saves!Versions
  <2>2. SettingsTypes' /\ UiTypes' /\ EventTypes' /\ CallTypes' /\ GhostTypes'
    BY <1>11, <2>1 DEF Saves!SaveSettings, SettingsTypes, UiTypes, EventTypes, CallTypes,
       GhostTypes
  <2>3. QED
    BY <1>11, <2>2, <1>0, <1>3, <1>4 DEF Saves!SaveSettings
<1>12. CASE Saves!SubmitSave
  <2>1. asked \in Versions0
    BY Bounds DEF CallTypes, Saves!Versions, Saves!Nothing
  <2>2. PoolTypes' /\ SettingsTypes' /\ UiTypes' /\ EventTypes' /\ GhostTypes'
    <3>1. PoolTypes' /\ UiTypes'
      BY <1>12, TasksToAdd DEF Saves!SubmitSave, PoolTypes, UiTypes
    <3>2. SettingsTypes' /\ EventTypes'
      BY <1>12 DEF Saves!SubmitSave, SettingsTypes, EventTypes, Saves!settingsVars
    <3>3. GhostTypes'
      BY <1>12, <2>1 DEF Saves!SubmitSave, GhostTypes
    <3>4. QED
      BY <3>1, <3>2, <3>3
  <2>3. QED
    BY <1>12, <2>2, <1>3, <1>4, <1>6 DEF Saves!SubmitSave
<1>13. CASE Saves!Write
  <2>1. /\ CallTypes'
        /\ [kind |-> "write", id |-> writes'] \in Saves!Task
    BY <1>13, Bounds DEF Saves!Write, CallTypes, Saves!Writes, Saves!Task
  <2>2. PoolTypes'
    BY <1>13, <2>1 DEF Saves!Write, PoolTypes
  <2>3. QED
    BY <1>13, <2>1, <2>2, <1>1, <1>2, <1>3, <1>4, <1>5, <1>7 DEF Saves!Write
<1>14. CASE Saves!MergeFileIndex
  <2>1. PoolTypes' /\ CallTypes'
    BY <1>14, Bounds, TasksToAdd DEF Saves!MergeFileIndex, PoolTypes, CallTypes
  <2>2. QED
    BY <1>14, <2>1, <1>1, <1>2, <1>3, <1>4, <1>5, <1>7 DEF Saves!MergeFileIndex
<1>15. CASE Saves!Stop
  <2>1. ASSUME NEW d \in BOOLEAN, Saves!StopDeferrable(d) PROVE Types'
    <3>1. UiTypes'
      BY <2>1 DEF Saves!StopDeferrable, UiTypes
    <3>2. QED
      BY <2>1, <3>1, <1>0, <1>1, <1>3, <1>4, <1>5, <1>6, <1>7 DEF Saves!StopDeferrable
  <2>2. CASE Saves!ShutdownDraining
    <3>1. PoolTypes' /\ UiTypes'
      BY <2>2 DEF Saves!ShutdownDraining, PoolTypes, UiTypes
    <3>2. QED
      BY <2>2, <3>1, <1>1, <1>3, <1>4, <1>5, <1>6, <1>7 DEF Saves!ShutdownDraining
  <2>3. CASE Saves!ShutdownCancelling
    <3>1. 1 .. writes \subseteq Saves!Writes
      BY Bounds DEF CallTypes, Saves!Writes
    <3>2. PoolTypes' /\ UiTypes' /\ GhostTypes'
      BY <2>3, <3>1 DEF Saves!ShutdownCancelling, PoolTypes, UiTypes, GhostTypes
    <3>3. QED
      BY <2>3, <3>2, <1>1, <1>3, <1>4, <1>5, <1>6 DEF Saves!ShutdownCancelling
  <2>4. CASE Saves!StopReturns
    <3>1. PoolTypes' /\ UiTypes' /\ SettingsTypes'
      <4>1. PoolTypes'
        BY <2>4 DEF Saves!StopReturns, PoolTypes
      <4>2. UiTypes' /\ SettingsTypes'
        BY <2>4 DEF Saves!StopReturns, Saves!ScheduledAfterStop, UiTypes, SettingsTypes
      <4>3. QED
        BY <4>1, <4>2
    <3>2. QED
      BY <2>4, <3>1, <1>3, <1>4, <1>5, <1>6, <1>7 DEF Saves!StopReturns
  <2>5. QED
    BY <1>15, <2>1, <2>2, <2>3, <2>4 DEF Saves!Stop
<1>16. CASE Saves!HearSaveCompleted
  <2>1. EventTypes'
    <3>1. events' \in Seq(BOOLEAN)
      BY <1>16 DEF Saves!HearSaveCompleted, EventTypes
    <3>2. Saves!Heard(Head(events)) \in {"none", "saving", "saved", "error"}
      BY DEF Saves!Heard, EventTypes
    <3>3. QED
      BY <1>16, <3>1, <3>2 DEF Saves!HearSaveCompleted, EventTypes
  <2>2. QED
    BY <1>16, <2>1, <1>0, <1>1, <1>2, <1>3, <1>4, <1>6, <1>7 DEF Saves!HearSaveCompleted
<1>17. CASE Saves!Begin
  <2>1. Head(queue) \in Saves!Task
    BY <1>17 DEF Saves!Begin, PoolTypes
  <2>2. PoolTypes'
    BY <1>17 DEF Saves!Begin, PoolTypes
  <2>3. saver' \in Saves!WorkerPhases
    BY <1>17, <2>1, TaskKinds DEF Saves!Begin, Saves!FirstPhase, Saves!WorkerPhases
  <2>4. Head(queue).id \in Saves!Writes \cup {Saves!Nothing}
    BY <2>1 DEF Saves!Task
  <2>5. WorkerTypes'
    BY <1>17, <2>3, <2>4 DEF Saves!Begin, WorkerTypes
  <2>6. QED
    BY <1>17, <2>2, <2>5, <1>1, <1>2, <1>4, <1>5, <1>6, <1>7 DEF Saves!Begin
<1>18. CASE Saves!SettingsSaveLoop
  <2>1. CASE Saves!TakeSettings
    <3>1. SettingsTypes' /\ WorkerTypes'
      BY <2>1 DEF Saves!TakeSettings, SettingsTypes, WorkerTypes, Saves!WorkerPhases,
         Saves!FlagOnExit
    <3>2. QED
      BY <2>1, <3>1, <1>0, <1>2, <1>4, <1>5, <1>6, <1>7 DEF Saves!TakeSettings
  <2>2. ASSUME NEW s \in BOOLEAN, Saves!SaveDone(s) PROVE Types'
    <3>1. job \in Saves!Versions
      BY <2>2 DEF Saves!SaveDone, JobIsKnown
    <3>2. WorkerTypes' /\ DiskTypes' /\ EventTypes' /\ GhostTypes'
      BY <2>2, <3>1 DEF Saves!SaveDone, Saves!EmitCompleted, WorkerTypes, DiskTypes, EventTypes,
         GhostTypes, Saves!WorkerPhases
    <3>3. QED
      BY <2>2, <3>2, <1>0, <1>1, <1>2, <1>6 DEF Saves!SaveDone
  <2>3. ASSUME NEW r \in BOOLEAN, Saves!SaveThrows(r) PROVE Types'
    <3>1. job \in Saves!Versions
      BY <2>3 DEF Saves!SaveThrows, JobIsKnown
    <3>2. WorkerTypes' /\ DiskTypes' /\ GhostTypes'
      BY <2>3, <3>1 DEF Saves!SaveThrows, WorkerTypes, DiskTypes, GhostTypes, Saves!WorkerPhases
    <3>3. QED
      BY <2>3, <3>2, <1>0, <1>1, <1>2, <1>5, <1>6 DEF Saves!SaveThrows
  <2>4. CASE Saves!LookForMore
    <3>1. SettingsTypes' /\ WorkerTypes'
      BY <2>4 DEF Saves!LookForMore, SettingsTypes, WorkerTypes, Saves!WorkerPhases,
         Saves!FlagOnExit
    <3>2. QED
      BY <2>4, <3>1, <1>0, <1>2, <1>4, <1>5, <1>6, <1>7 DEF Saves!LookForMore
  <2>5. QED
    BY <1>18, <2>1, <2>2, <2>3, <2>4 DEF Saves!SettingsSaveLoop
<1>19. CASE Saves!DoWrite
  <2>1. job \in Saves!Writes
    BY <1>19, Bounds DEF Saves!DoWrite, JobIsKnown, CallTypes, Saves!Writes
  <2>2. WorkerTypes' /\ GhostTypes'
    BY <1>19, <2>1 DEF Saves!DoWrite, WorkerTypes, GhostTypes, Saves!WorkerPhases
  <2>3. QED
    BY <1>19, <2>2, <1>0, <1>1, <1>2, <1>4, <1>5, <1>6 DEF Saves!DoWrite
<1>20. CASE Saves!BeginMerge \/ Saves!ExtractMissing \/ Saves!CheckMerge
  <2>1. WorkerTypes'
    BY <1>20 DEF Saves!BeginMerge, Saves!ExtractMissing, Saves!CheckMerge, WorkerTypes,
       Saves!WorkerPhases
  <2>2. QED
    BY <1>20, <2>1, <1>0, <1>1, <1>2, <1>4, <1>5, <1>6, <1>7
       DEF Saves!BeginMerge, Saves!ExtractMissing, Saves!CheckMerge
<1>21. CASE Saves!UpdateFileIndex
  <2>1. WorkerTypes' /\ DiskTypes'
    BY <1>21 DEF Saves!UpdateFileIndex, WorkerTypes, DiskTypes, Saves!WorkerPhases
  <2>2. QED
    BY <1>21, <2>1, <1>0, <1>1, <1>2, <1>5, <1>6, <1>7 DEF Saves!UpdateFileIndex
<1>22. CASE UNCHANGED Saves!vars
  BY <1>22, <1>0, <1>1, <1>2, <1>3, <1>4, <1>5, <1>6, <1>7 DEF Saves!vars
<1>23. QED
  BY <1>10, <1>11, <1>12, <1>13, <1>14, <1>15, <1>16, <1>17, <1>18, <1>19, <1>20, <1>21, <1>22
     DEF Saves!Next, Saves!WorkerStep

-----------------------------------------------------------------------------
(* A stopped pool has nothing queued and an idle worker.                    *)
LEMMA PoolStep ==
  ASSUME Types, PoolIsUsed, [Saves!Next]_(Saves!vars)
  PROVE  PoolIsUsed'
<1> USE DEF PoolIsUsed, Saves!poolVars, Saves!workerVars, Saves!settingsVars
<1>1. CASE Saves!Start \/ Saves!Write \/ Saves!MergeFileIndex
  BY <1>1 DEF Saves!Start, Saves!Write, Saves!MergeFileIndex, Saves!ghostVars
<1>2. CASE Saves!SaveSettings \/ Saves!SubmitSave
  BY <1>2 DEF Saves!SaveSettings, Saves!SubmitSave, Saves!SubmitDue
<1>3. CASE Saves!Stop
  BY <1>3 DEF Saves!Stop, Saves!StopDeferrable, Saves!ShutdownDraining, Saves!ShutdownCancelling,
     Saves!StopReturns, Saves!WorkerGone, Saves!ScheduledAfterStop, Saves!ghostVars, Types,
     PoolTypes
<1>4. CASE Saves!HearSaveCompleted
  BY <1>4 DEF Saves!HearSaveCompleted, Saves!ghostVars
<1>5. CASE Saves!Begin
  BY <1>5 DEF Saves!Begin, Saves!ghostVars
<1>6. CASE Saves!SettingsSaveLoop
  BY <1>6 DEF Saves!SettingsSaveLoop, Saves!TakeSettings, Saves!SaveDone, Saves!SaveThrows,
     Saves!LookForMore, Saves!ghostVars
<1>7. CASE Saves!DoWrite \/ Saves!BeginMerge \/ Saves!ExtractMissing \/ Saves!CheckMerge
           \/ Saves!UpdateFileIndex
  BY <1>7 DEF Saves!DoWrite, Saves!BeginMerge, Saves!ExtractMissing, Saves!CheckMerge,
     Saves!UpdateFileIndex, Saves!ghostVars
<1>8. CASE UNCHANGED Saves!vars
  BY <1>8 DEF Saves!vars, Saves!ghostVars
<1>9. QED
  BY <1>1, <1>2, <1>3, <1>4, <1>5, <1>6, <1>7, <1>8 DEF Saves!Next, Saves!WorkerStep

(* The worker's place and what it has in hand go together.                  *)
LEMMA JobStep ==
  ASSUME Types, JobIsKnown, [Saves!Next]_(Saves!vars)
  PROVE  JobIsKnown'
<1> USE DEF JobIsKnown, Saves!poolVars, Saves!workerVars, Saves!callVars, Saves!ghostVars,
            Saves!settingsVars
<1>0. asked \in Nat /\ writes \in Nat /\ queue \in Seq(Saves!Task)
  BY Bounds DEF Types, CallTypes, PoolTypes
<1>1. CASE Saves!Start \/ Saves!HearSaveCompleted \/ UNCHANGED Saves!vars
  <2>1. owed' \in {owed, 0}
    BY <1>1 DEF Saves!Start, Saves!HearSaveCompleted, Saves!vars, Saves!Nothing
  <2>2. UNCHANGED <<saver, job, queue, pendingSettings, writes, settledWrites, asked>>
    BY <1>1 DEF Saves!Start, Saves!HearSaveCompleted, Saves!vars
  <2>3. QED
    BY <1>0, <2>1, <2>2
<1>2. CASE Saves!SaveSettings
  <2>1. asked' = asked + 1 /\ pendingSettings' = asked' /\ owed' \in {owed, asked'}
    BY <1>2 DEF Saves!SaveSettings
  <2>2. UNCHANGED <<saver, job, queue, writes, settledWrites>>
    BY <1>2 DEF Saves!SaveSettings
  <2>3. QED
    BY <1>0, <2>1, <2>2
<1>3. CASE Saves!SubmitSave
  <2>1. UNCHANGED <<saver, job, writes, settledWrites, asked>>
    BY <1>3 DEF Saves!SubmitSave
  <2>2. {owed', pendingSettings'} \subseteq 0 .. asked
    BY <1>0, <1>3 DEF Saves!SubmitSave, Saves!Nothing
  <2>3. queue' = queue \/ queue' = Append(queue, Saves!SaveTask)
    BY <1>3 DEF Saves!SubmitSave
  <2>4. \A i \in 1 .. Len(queue') : queue'[i].kind = "write" => queue'[i].id \in 1 .. writes
    BY <1>0, <2>3, QueueAppended, TasksToAdd
  <2>5. QED
    BY <2>1, <2>2, <2>4
<1>4. CASE Saves!Write
  <2>1. /\ UNCHANGED <<saver, job, settledWrites, asked, owed, pendingSettings>>
        /\ writes' = writes + 1
        /\ queue' = Append(queue, [kind |-> "write", id |-> writes'])
    BY <1>4 DEF Saves!Write
  <2>2. 1 .. writes \subseteq 1 .. writes' /\ writes' \in 1 .. writes'
    BY <1>0, <2>1
  <2>3. \A i \in 1 .. Len(queue') : queue'[i].kind = "write" => queue'[i].id \in 1 .. writes'
    BY <1>0, <2>1, <2>2, QueueAppended
  <2>4. QED
    BY <2>1, <2>2, <2>3
<1>5. CASE Saves!MergeFileIndex
  <2>1. /\ UNCHANGED <<saver, job, writes, settledWrites, asked, owed, pendingSettings>>
        /\ queue' = Append(queue, Saves!MergeTask)
    BY <1>5 DEF Saves!MergeFileIndex
  <2>2. \A i \in 1 .. Len(queue') : queue'[i].kind = "write" => queue'[i].id \in 1 .. writes
    BY <1>0, <2>1, QueueAppended, TasksToAdd
  <2>3. QED
    BY <2>1, <2>2
<1>6. CASE Saves!Stop
  <2>1. ASSUME NEW d \in BOOLEAN, Saves!StopDeferrable(d) PROVE JobIsKnown'
    BY <2>1 DEF Saves!StopDeferrable
  <2>2. CASE Saves!ShutdownDraining
    BY <2>2 DEF Saves!ShutdownDraining
  <2>3. CASE Saves!ShutdownCancelling
    BY <1>0, <2>3 DEF Saves!ShutdownCancelling, Saves!Nothing
  <2>4. CASE Saves!StopReturns
    BY <1>0, <2>4 DEF Saves!StopReturns, Saves!Nothing
  <2>5. QED
    BY <1>6, <2>1, <2>2, <2>3, <2>4 DEF Saves!Stop
<1>7. CASE Saves!Begin
  <2>1. /\ queue # <<>> /\ queue' = Tail(queue)
        /\ job' = Head(queue).id /\ saver' = Saves!FirstPhase[Head(queue).kind]
        /\ UNCHANGED <<writes, settledWrites, asked, owed, pendingSettings>>
    BY <1>7 DEF Saves!Begin
  <2>2. saver' # "saving" /\ (saver' = "write" => Head(queue).kind = "write")
    BY <1>0, <2>1, QueueTaken, TaskKinds DEF Saves!FirstPhase
  <2>3. \A i \in 1 .. Len(queue') : queue'[i].kind = "write" => queue'[i].id \in 1 .. writes
    BY <1>0, <2>1, QueueTaken
  <2>4. saver' = "write" => job' \in 1 .. writes
    <3>1. Head(queue) = queue[1] /\ 1 \in 1 .. Len(queue)
      BY <1>0, <2>1, QueueTaken
    <3>2. QED
      BY <2>1, <2>2, <3>1
  <2>5. QED
    BY <2>1, <2>2, <2>3, <2>4
<1>8. CASE Saves!SettingsSaveLoop
  <2>1. UNCHANGED <<queue, writes, settledWrites, asked, owed>>
    BY <1>8 DEF Saves!SettingsSaveLoop, Saves!TakeSettings, Saves!SaveDone, Saves!SaveThrows,
       Saves!LookForMore
  <2>2. saver' # "write" /\ pendingSettings' \in {pendingSettings, Saves!Nothing}
    BY <1>8 DEF Saves!SettingsSaveLoop, Saves!TakeSettings, Saves!SaveDone, Saves!SaveThrows,
       Saves!LookForMore
  <2>3. saver' = "saving" => job' = pendingSettings /\ pendingSettings # Saves!Nothing
    BY <1>8 DEF Saves!SettingsSaveLoop, Saves!TakeSettings, Saves!SaveDone, Saves!SaveThrows,
       Saves!LookForMore
  <2>4. saver' = "saving" => job' \in Saves!Versions
    BY <2>3 DEF Types, SettingsTypes
  <2>5. {owed', pendingSettings'} \subseteq 0 .. asked
    BY <1>0, <2>1, <2>2 DEF Saves!Nothing
  <2>6. QED
    BY <2>1, <2>2, <2>4, <2>5
<1>9. CASE Saves!DoWrite
  BY <1>9 DEF Saves!DoWrite
<1>10. CASE Saves!BeginMerge \/ Saves!ExtractMissing \/ Saves!CheckMerge \/ Saves!UpdateFileIndex
  BY <1>10 DEF Saves!BeginMerge, Saves!ExtractMissing, Saves!CheckMerge, Saves!UpdateFileIndex
<1>11. QED
  BY <1>1, <1>2, <1>3, <1>4, <1>5, <1>6, <1>7, <1>8, <1>9, <1>10 DEF Saves!Next, Saves!WorkerStep

(* The flag has one save task, or one call that will submit it.             *)
LEMMA OneSaveStep ==
  ASSUME Types, PoolIsUsed, OneSaveTask, [Saves!Next]_(Saves!vars)
  PROVE  OneSaveTask'
<1> USE DEF OneSaveTask, Saves!poolVars, Saves!workerVars, Saves!settingsVars
<1>0. queue \in Seq(Saves!Task)
  BY DEF Types, PoolTypes
<1>1. CASE Saves!Start \/ Saves!HearSaveCompleted \/ UNCHANGED Saves!vars
  BY <1>1 DEF Saves!Start, Saves!HearSaveCompleted, Saves!vars, Queued
<1>2. CASE Saves!SaveSettings
  <2>1. /\ UNCHANGED <<queue, saver>> /\ settingsSaveScheduled' = TRUE
        /\ ui' = "submitting" => ~settingsSaveScheduled
    BY <1>2 DEF Saves!SaveSettings, Saves!SubmitDue
  <2>2. Queued' = Queued
    BY <2>1 DEF Queued
  <2>3. QED
    BY <2>1, <2>2
<1>3. CASE Saves!SubmitSave
  <2>1. ui = "submitting" /\ ui' = "free" /\ UNCHANGED saver
    BY <1>3 DEF Saves!SubmitSave
  <2>2. CASE pool = "open"
    <3>1. queue' = Append(queue, Saves!SaveTask) /\ UNCHANGED settingsSaveScheduled
      BY <1>3, <2>2 DEF Saves!SubmitSave
    <3>2. \A i \in 1 .. Len(queue) : queue[i] # Saves!SaveTask
      BY <2>1 DEF Queued
    <3>3. \A i, j \in 1 .. Len(queue') :
            queue'[i] = Saves!SaveTask /\ queue'[j] = Saves!SaveTask => i = j
      BY <1>0, <3>1, <3>2, QueueAppended
    <3>4. QED
      BY <2>1, <3>1, <3>3
  <2>3. CASE pool # "open"
    <3>1. UNCHANGED queue
      BY <1>3, <2>3 DEF Saves!SubmitSave
    <3>2. Queued' = Queued
      BY <3>1 DEF Queued
    <3>3. QED
      BY <2>1, <3>1, <3>2
  <2>4. QED
    BY <2>2, <2>3
<1>4. CASE Saves!Write \/ Saves!MergeFileIndex
  <2>1. /\ UNCHANGED <<saver, ui, settingsSaveScheduled>>
        /\ \E t : t # Saves!SaveTask /\ queue' = Append(queue, t)
    BY <1>4, TasksToAdd DEF Saves!Write, Saves!MergeFileIndex, Saves!SaveTask
  <2>2. PICK t : t # Saves!SaveTask /\ queue' = Append(queue, t)
    BY <2>1
  <2>3. Saves!SaveTask \in Queued' <=> Saves!SaveTask \in Queued
    BY <1>0, <2>2, QueueAppended
  <2>4. \A i, j \in 1 .. Len(queue') :
          queue'[i] = Saves!SaveTask /\ queue'[j] = Saves!SaveTask => i = j
    BY <1>0, <2>2, QueueAppended
  <2>5. QED
    BY <2>1, <2>3, <2>4
<1>5. CASE Saves!Stop
  <2>1. ASSUME NEW d \in BOOLEAN, Saves!StopDeferrable(d) PROVE OneSaveTask'
    BY <2>1 DEF Saves!StopDeferrable, Queued
  <2>2. CASE Saves!ShutdownDraining
    BY <2>2 DEF Saves!ShutdownDraining, Queued
  <2>3. CASE Saves!ShutdownCancelling \/ Saves!StopReturns
    <3>1. /\ queue' = <<>> /\ UNCHANGED saver /\ ui' # "submitting"
          /\ saver \in Saves!SavePhases => UNCHANGED settingsSaveScheduled
      BY <2>3 DEF Saves!ShutdownCancelling, Saves!StopReturns, Saves!WorkerGone, Saves!SavePhases
    <3>2. Queued' = {}
      BY <3>1 DEF Queued
    <3>3. QED
      BY <3>1, <3>2
  <2>4. QED
    BY <1>5, <2>1, <2>2, <2>3 DEF Saves!Stop
<1>6. CASE Saves!Begin
  <2>1. /\ queue # <<>> /\ queue' = Tail(queue) /\ saver = "idle"
        /\ saver' = Saves!FirstPhase[Head(queue).kind]
        /\ UNCHANGED <<ui, settingsSaveScheduled>>
    BY <1>6 DEF Saves!Begin
  <2>2. saver' \in Saves!SavePhases => queue[1] = Saves!SaveTask
    BY <1>0, <2>1, QueueTaken, TaskKinds DEF Saves!FirstPhase, Saves!SavePhases
  <2>3. Saves!SaveTask \in Queued' => Saves!SaveTask \in Queued /\ queue[1] # Saves!SaveTask
    <3>1. ASSUME NEW i \in 1 .. Len(queue'), queue'[i] = Saves!SaveTask, queue[1] = Saves!SaveTask
          PROVE  FALSE
      <4>1. queue[i + 1] = Saves!SaveTask /\ i + 1 \in 1 .. Len(queue) /\ 1 \in 1 .. Len(queue)
        BY <1>0, <2>1, <3>1, QueueTaken
      <4>2. i + 1 = 1
        BY <3>1, <4>1
      <4>3. QED
        BY <4>2
    <3>2. QED
      BY <1>0, <2>1, <3>1, QueueTaken DEF Queued
  <2>4. \A i, j \in 1 .. Len(queue') :
          queue'[i] = Saves!SaveTask /\ queue'[j] = Saves!SaveTask => i = j
    <3>1. ASSUME NEW i \in 1 .. Len(queue'), NEW j \in 1 .. Len(queue'),
                 queue'[i] = Saves!SaveTask, queue'[j] = Saves!SaveTask
          PROVE  i = j
      <4>1. /\ queue[i + 1] = Saves!SaveTask /\ i + 1 \in 1 .. Len(queue)
            /\ queue[j + 1] = Saves!SaveTask /\ j + 1 \in 1 .. Len(queue)
        BY <1>0, <2>1, <3>1, QueueTaken
      <4>2. i + 1 = j + 1
        BY <4>1
      <4>3. QED
        BY <4>2
    <3>2. QED
      BY <3>1
  <2>5. queue[1] = Saves!SaveTask => Saves!SaveTask \in Queued
    BY <1>0, <2>1, QueueTaken
  <2>6. QED
    BY <2>1, <2>2, <2>3, <2>4, <2>5
<1>7. CASE Saves!SettingsSaveLoop
  <2>1. /\ UNCHANGED <<queue, ui>> /\ saver \in Saves!SavePhases
        /\ saver' \in Saves!SavePhases => UNCHANGED settingsSaveScheduled
    BY <1>7 DEF Saves!SettingsSaveLoop, Saves!TakeSettings, Saves!SaveDone, Saves!SaveThrows,
       Saves!LookForMore, Saves!SavePhases
  <2>2. Queued' = Queued
    BY <2>1 DEF Queued
  <2>3. Saves!SaveTask \notin Queued' /\ ui' # "submitting"
    BY <2>1, <2>2
  <2>4. CASE saver' \in Saves!SavePhases
    BY <2>1, <2>3, <2>4
  <2>5. CASE saver' \notin Saves!SavePhases
    BY <2>1, <2>3, <2>5
  <2>6. QED
    BY <2>4, <2>5
<1>8. CASE Saves!DoWrite \/ Saves!BeginMerge \/ Saves!ExtractMissing \/ Saves!CheckMerge
           \/ Saves!UpdateFileIndex
  <2>1. /\ UNCHANGED <<queue, ui, settingsSaveScheduled>>
        /\ saver' \notin Saves!SavePhases
    BY <1>8 DEF Saves!DoWrite, Saves!BeginMerge, Saves!ExtractMissing, Saves!CheckMerge,
       Saves!UpdateFileIndex, Saves!SavePhases
  <2>2. Queued' = Queued
    BY <2>1 DEF Queued
  <2>3. QED
    BY <2>1, <2>2
<1>9. QED
  BY <1>1, <1>2, <1>3, <1>4, <1>5, <1>6, <1>7, <1>8 DEF Saves!Next, Saves!WorkerStep

-----------------------------------------------------------------------------
(* A write that was accepted is queued, at the worker or settled.           *)
LEMMA WritesStep ==
  ASSUME Types, JobIsKnown, WritesAreKept, [Saves!Next]_(Saves!vars)
  PROVE  WritesAreKept'
<1> USE DEF WritesAreKept, Saves!poolVars, Saves!workerVars, Saves!callVars, Saves!ghostVars
<1>0. writes \in Nat /\ queue \in Seq(Saves!Task)
  BY Bounds DEF Types, CallTypes, PoolTypes
<1>1. CASE Saves!Start \/ Saves!SaveSettings \/ Saves!HearSaveCompleted \/ UNCHANGED Saves!vars
  BY <1>1 DEF Saves!Start, Saves!SaveSettings, Saves!HearSaveCompleted, Saves!vars
<1>2. ASSUME NEW t, queue' = Append(queue, t), UNCHANGED <<settledWrites, saver, job>>
      PROVE  \A n \in 1 .. writes :
               \/ n \in settledWrites'
               \/ \E i \in 1 .. Len(queue') : queue'[i].kind = "write" /\ queue'[i].id = n
               \/ saver' = "write" /\ job' = n
  <2>1. 1 .. Len(queue) \subseteq 1 .. Len(queue')
    BY <1>0, <1>2, QueueAppended
  <2>2. QED
    BY <1>0, <1>2, <2>1, QueueAppended
<1>3. CASE Saves!SubmitSave
  <2>1. UNCHANGED <<settledWrites, saver, job, writes>>
    BY <1>3 DEF Saves!SubmitSave
  <2>2. queue' = queue \/ queue' = Append(queue, Saves!SaveTask)
    BY <1>3 DEF Saves!SubmitSave
  <2>3. QED
    BY <1>2, <2>1, <2>2
<1>4. CASE Saves!MergeFileIndex
  BY <1>2, <1>4 DEF Saves!MergeFileIndex
<1>5. CASE Saves!Write
  <2> DEFINE t == [kind |-> "write", id |-> writes']
  <2>1. /\ UNCHANGED <<settledWrites, saver, job>> /\ writes' = writes + 1
        /\ queue' = Append(queue, t)
    BY <1>5 DEF Saves!Write
  <2>2. Len(queue) + 1 \in 1 .. Len(queue') /\ queue'[Len(queue) + 1] = t
    BY <1>0, <2>1, QueueAppended
  <2>3. \A n \in 1 .. writes' : n \in 1 .. writes \/ n = writes'
    BY <1>0, <2>1
  <2>4. t.kind = "write" /\ t.id = writes'
    OBVIOUS
  <2> HIDE DEF t
  <2>5. QED
    BY <1>2, <2>1, <2>2, <2>3, <2>4
<1>6. CASE Saves!Stop
  <2>1. ASSUME NEW d \in BOOLEAN, Saves!StopDeferrable(d) PROVE WritesAreKept'
    BY <2>1 DEF Saves!StopDeferrable
  <2>2. CASE Saves!ShutdownDraining
    BY <2>2 DEF Saves!ShutdownDraining
  <2>3. CASE Saves!ShutdownCancelling
    BY <2>3 DEF Saves!ShutdownCancelling
  <2>4. CASE Saves!StopReturns
    BY <2>4 DEF Saves!StopReturns, Saves!WorkerGone
  <2>5. QED
    BY <1>6, <2>1, <2>2, <2>3, <2>4 DEF Saves!Stop
<1>7. CASE Saves!Begin
  <2>1. /\ queue # <<>> /\ queue' = Tail(queue) /\ saver = "idle"
        /\ job' = Head(queue).id /\ saver' = Saves!FirstPhase[Head(queue).kind]
        /\ UNCHANGED <<writes, settledWrites>>
    BY <1>7 DEF Saves!Begin
  <2>2. Head(queue) = queue[1] /\ \A i \in 1 .. Len(queue) : i = 1 \/ i \in 2 .. Len(queue)
    BY <1>0, <2>1, QueueTaken
  <2>3. queue[1].kind = "write" => saver' = "write"
    BY <2>1, <2>2 DEF Saves!FirstPhase
  <2>4. ASSUME NEW n \in 1 .. writes, n \notin settledWrites
        PROVE  \/ \E i \in 1 .. Len(queue') : queue'[i].kind = "write" /\ queue'[i].id = n
               \/ saver' = "write" /\ job' = n
    <3>1. PICK i \in 1 .. Len(queue) : queue[i].kind = "write" /\ queue[i].id = n
      BY <2>1, <2>4
    <3>2. CASE i = 1
      BY <2>1, <2>2, <2>3, <3>1, <3>2
    <3>3. CASE i \in 2 .. Len(queue)
      BY <1>0, <2>1, <3>1, <3>3, QueueTaken
    <3>4. QED
      BY <2>2, <3>2, <3>3
  <2>5. QED
    BY <2>1, <2>4
<1>8. CASE Saves!SettingsSaveLoop
  <2>1. UNCHANGED <<queue, writes, settledWrites>> /\ saver # "write"
    BY <1>8 DEF Saves!SettingsSaveLoop, Saves!TakeSettings, Saves!SaveDone, Saves!SaveThrows,
       Saves!LookForMore
  <2>2. QED
    BY <2>1
<1>9. CASE Saves!DoWrite
  BY <1>9 DEF Saves!DoWrite
<1>10. CASE Saves!BeginMerge \/ Saves!ExtractMissing \/ Saves!CheckMerge \/ Saves!UpdateFileIndex
  BY <1>10 DEF Saves!BeginMerge, Saves!ExtractMissing, Saves!CheckMerge, Saves!UpdateFileIndex
<1>11. QED
  BY <1>1, <1>3, <1>4, <1>5, <1>6, <1>7, <1>8, <1>9, <1>10 DEF Saves!Next, Saves!WorkerStep

-----------------------------------------------------------------------------
(* The settings owed, as long as no save has thrown.                        *)
Kept == PendingIsTaken /\ OwedIsKept /\ LastWordIsTrue

(* What is owed is pending, being saved, in the file or reported.           *)
LEMMA KeptStep ==
  ASSUME Types, PoolIsUsed, JobIsKnown, OneSaveTask, Kept, [Saves!Next]_(Saves!vars),
         ~Saves!Start, ~threw'
  PROVE  Kept'
<1> USE DEF Saves!poolVars, Saves!workerVars, Saves!settingsVars, Saves!diskVars, Saves!uiVars,
            Saves!ghostVars, Saves!Nothing
<1>0. /\ queue \in Seq(Saves!Task) /\ asked \in Nat /\ events \in Seq(BOOLEAN)
      /\ owed \in 0 .. asked /\ pendingSettings \in 0 .. asked
  BY Bounds DEF Types, CallTypes, PoolTypes, EventTypes, JobIsKnown
(* Steps that leave the settings alone.                                     *)
<1>1. ASSUME UNCHANGED <<pendingSettings, settingsSaveScheduled, owed, file, failed, events,
                         settingsStatus, asked>>,
             saver' = saver \/ (saver \notin Saves!SavePhases /\ saver' \notin Saves!SavePhases),
             saver = "saving" => UNCHANGED job,
             Saves!SaveTask \in Queued => Saves!SaveTask \in Queued',
             ui' = "submitting" <=> ui = "submitting",
             pool' # "cancelled" => pool # "cancelled"
      PROVE  Kept'
  <2>1. saver' = "saving" <=> saver = "saving"
    BY <1>1 DEF Saves!SavePhases
  <2>2. saver \in Saves!SavePhases => saver' \in Saves!SavePhases
    BY <1>1
  <2>3. PendingIsTaken'
    BY <1>1, <2>2 DEF Kept, PendingIsTaken
  <2>4. OwedIsKept'
    BY <1>1, <2>1 DEF Kept, OwedIsKept
  <2>5. LastWordIsTrue'
    BY <1>1, <2>1 DEF Kept, LastWordIsTrue, OwedIsSettled
  <2>6. QED
    BY <2>3, <2>4, <2>5 DEF Kept
<1>2. CASE UNCHANGED Saves!vars
  <2>1. Queued' = Queued
    BY <1>2 DEF Saves!vars, Queued
  <2>2. QED
    BY <1>1, <1>2, <2>1 DEF Saves!vars, Saves!callVars
<1>3. CASE Saves!Write \/ Saves!MergeFileIndex
  <2>1. Queued \subseteq Queued'
    BY <1>0, <1>3, QueueAppended DEF Saves!Write, Saves!MergeFileIndex
  <2>2. QED
    BY <1>1, <1>3, <2>1 DEF Saves!Write, Saves!MergeFileIndex
<1>4. CASE Saves!SaveSettings
  <2>1. /\ UNCHANGED <<pool, queue, saver, job, file, failed, events>>
        /\ asked' = asked + 1 /\ pendingSettings' = asked' /\ settingsStatus' = "saving"
        /\ ui = "free" /\ ui' \in {"submitting", "free"}
        /\ ui' = "submitting" => ~settingsSaveScheduled /\ owed' = owed
        /\ ui' # "submitting" => settingsSaveScheduled /\ owed' = asked'
    BY <1>4 DEF Saves!SaveSettings, Saves!SubmitDue
  <2>2. Queued' = Queued
    BY <2>1 DEF Queued
  <2>3. owed # asked' /\ pendingSettings' # 0
    BY <1>0, <2>1
  <2>4. CASE ui' = "submitting"
    <3>1. saver \notin Saves!SavePhases /\ Saves!SaveTask \notin Queued
      BY <2>1, <2>4 DEF OneSaveTask
    <3>2. pool # "cancelled"
      BY <2>1 DEF PoolIsUsed
    <3>3. pendingSettings = 0
      BY <2>1, <3>1, <3>2 DEF Kept, PendingIsTaken
    <3>4. saver # "saving"
      BY <3>1 DEF Saves!SavePhases
    <3>5. owed # 0 => owed = file \/ owed \in failed
      BY <3>3, <3>4 DEF Kept, OwedIsKept
    <3>6. PendingIsTaken'
      BY <2>1, <2>3, <2>4 DEF PendingIsTaken
    <3>7. OwedIsKept'
      BY <2>1, <2>4, <3>4, <3>5 DEF OwedIsKept
    <3>8. LastWordIsTrue'
      BY <2>1, <2>4, <3>3, <3>4 DEF Kept, LastWordIsTrue, OwedIsSettled
    <3>9. QED
      BY <3>6, <3>7, <3>8 DEF Kept
  <2>5. CASE ui' # "submitting"
    <3>1. PendingIsTaken'
      BY <2>1, <2>2, <2>5 DEF Kept, PendingIsTaken
    <3>2. QED
      BY <2>1, <2>5, <3>1 DEF Kept, OwedIsKept, LastWordIsTrue, OwedIsSettled
  <2>6. QED
    BY <2>4, <2>5
<1>5. CASE Saves!SubmitSave
  <2>1. /\ ui = "submitting" /\ ui' = "free"
        /\ UNCHANGED <<pool, saver, job, file, failed, events, asked>>
    BY <1>5 DEF Saves!SubmitSave, Saves!callVars
  <2>2. /\ pendingSettings = asked /\ pendingSettings # owed
        /\ saver \notin Saves!SavePhases /\ saver # "saving"
    BY <2>1 DEF Kept, PendingIsTaken, OneSaveTask, Saves!SavePhases
  <2>3. CASE pool = "open"
    <3>1. /\ queue' = Append(queue, Saves!SaveTask)
          /\ owed' = asked /\ UNCHANGED <<pendingSettings, settingsStatus>>
      BY <1>5, <2>3 DEF Saves!SubmitSave
    <3>2. Saves!SaveTask \in Queued'
      BY <1>0, <3>1, QueueAppended
    <3>3. PendingIsTaken'
      BY <2>1, <2>2, <3>1, <3>2 DEF PendingIsTaken
    <3>4. OwedIsKept'
      BY <2>1, <2>2, <3>1 DEF OwedIsKept
    <3>5. LastWordIsTrue'
      BY <2>1, <2>2, <3>1 DEF LastWordIsTrue, OwedIsSettled
    <3>6. QED
      BY <3>3, <3>4, <3>5 DEF Kept
  <2>4. CASE pool # "open"
    <3>1. /\ pendingSettings' = 0 /\ settingsSaveScheduled' = FALSE
          /\ settingsStatus' = "error" /\ owed' = owed
      BY <1>5, <2>4 DEF Saves!SubmitSave
    <3>2. PendingIsTaken'
      BY <2>1, <3>1 DEF PendingIsTaken
    <3>3. OwedIsKept'
      BY <2>1, <2>2, <3>1 DEF Kept, OwedIsKept
    <3>4. LastWordIsTrue'
      BY <2>1, <2>2, <3>1 DEF Kept, LastWordIsTrue, OwedIsSettled
    <3>5. QED
      BY <3>2, <3>3, <3>4 DEF Kept
  <2>5. QED
    BY <2>3, <2>4
<1>6. CASE Saves!Stop
  <2>1. CASE Saves!ShutdownDraining \/ \E d \in BOOLEAN : Saves!StopDeferrable(d)
    <3>1. /\ UNCHANGED <<pendingSettings, settingsSaveScheduled, owed, file, failed, events,
                         settingsStatus, asked, saver, job, queue>>
          /\ ui # "submitting" /\ ui' # "submitting"
          /\ pool' # "cancelled" => pool # "cancelled"
      BY <2>1 DEF Saves!ShutdownDraining, Saves!StopDeferrable, Saves!callVars, PoolIsUsed
    <3>2. Queued' = Queued
      BY <3>1 DEF Queued
    <3>3. QED
      BY <1>1, <3>1, <3>2
  <2>2. CASE Saves!ShutdownCancelling
    <3>1. pool' = "cancelled" /\ owed' = 0 /\ ui' = "joining"
      BY <2>2 DEF Saves!ShutdownCancelling
    <3>2. QED
      BY <3>1 DEF Kept, PendingIsTaken, OwedIsKept, LastWordIsTrue, OwedIsSettled
  <2>3. CASE Saves!StopReturns
    <3>1. /\ ui = "joining" /\ ui' = "free" /\ saver = "idle" /\ queue = <<>>
          /\ pendingSettings' = 0 /\ settingsSaveScheduled' = FALSE
          /\ UNCHANGED <<saver, job, owed, file, failed, events, settingsStatus>>
      BY <2>3 DEF Saves!StopReturns, Saves!WorkerGone, Saves!ScheduledAfterStop
    <3>2. Saves!SaveTask \notin Queued /\ saver \notin Saves!SavePhases
      BY <3>1 DEF Queued, Saves!SavePhases
    <3>3. owed # 0 => pendingSettings = 0
      BY <3>1, <3>2 DEF Kept, PendingIsTaken, PoolIsUsed
    <3>4. PendingIsTaken'
      BY <3>1 DEF PendingIsTaken
    <3>5. OwedIsKept'
      BY <3>1, <3>3 DEF Kept, OwedIsKept
    <3>6. LastWordIsTrue'
      BY <3>1, <3>3 DEF Kept, LastWordIsTrue, OwedIsSettled
    <3>7. QED
      BY <3>4, <3>5, <3>6 DEF Kept
  <2>4. QED
    BY <1>6, <2>1, <2>2, <2>3 DEF Saves!Stop
<1>7. CASE Saves!HearSaveCompleted
  <2>1. /\ UNCHANGED <<pool, queue, pendingSettings, settingsSaveScheduled, ui, saver, job, file,
                       failed, owed, asked>>
        /\ events # <<>> /\ events' = Tail(events)
        /\ settingsStatus' = Saves!Heard(Head(events))
    BY <1>7 DEF Saves!HearSaveCompleted, Saves!callVars
  <2>2. Queued' = Queued
    BY <2>1 DEF Queued
  <2>3. PendingIsTaken' /\ OwedIsKept'
    BY <2>1, <2>2 DEF Kept, PendingIsTaken, OwedIsKept
  <2>4. /\ events' # <<>> => events'[Len(events')] = events[Len(events)]
        /\ events' = <<>> => Head(events) = events[Len(events)]
    <3>1. /\ Len(events) \in Nat /\ Len(events) # 0 /\ Head(events) = events[1]
          /\ Len(events') = Len(events) - 1
          /\ \A i \in 1 .. Len(events') : events'[i] = events[i + 1]
      BY <1>0, <2>1
    <3>2. events' \in Seq(BOOLEAN)
      BY <1>0, <2>1
    <3>3. events' # <<>> => Len(events') \in 1 .. Len(events')
      BY <3>2
    <3>4. events' # <<>> => events'[Len(events')] = events[Len(events)]
      <4>1. Len(events') + 1 = Len(events)
        BY <3>1
      <4>2. QED
        BY <3>1, <3>3, <4>1
    <3>5. events' = <<>> => Head(events) = events[Len(events)]
      <4>1. events' = <<>> => Len(events) = 1
        BY <3>1
      <4>2. QED
        BY <3>1, <4>1
    <3>6. QED
      BY <3>4, <3>5
  <2>5. settingsStatus' = "saved" => Head(events)
    BY <2>1 DEF Saves!Heard
  <2>6. LastWordIsTrue'
    BY <2>1, <2>4, <2>5 DEF Kept, LastWordIsTrue, OwedIsSettled
  <2>7. QED
    BY <2>3, <2>6 DEF Kept
<1>8. CASE Saves!Begin
  <2>1. /\ queue # <<>> /\ queue' = Tail(queue) /\ saver = "idle"
        /\ saver' = Saves!FirstPhase[Head(queue).kind]
        /\ UNCHANGED <<pool, pendingSettings, settingsSaveScheduled, ui, owed, file, failed,
                       events, settingsStatus, asked>>
    BY <1>8 DEF Saves!Begin, Saves!callVars
  <2>2. saver' # "saving"
    BY <1>0, <2>1, QueueTaken, TaskKinds DEF Saves!FirstPhase
  <2>3. Saves!SaveTask \in Queued => Saves!SaveTask \in Queued' \/ saver' \in Saves!SavePhases
    <3>1. SUFFICES ASSUME NEW i \in 1 .. Len(queue), queue[i] = Saves!SaveTask,
                          saver' \notin Saves!SavePhases
                   PROVE  Saves!SaveTask \in Queued'
      BY DEF Queued
    <3>2. i # 1
      <4>1. Head(queue) = queue[1]
        BY <1>0, <2>1, QueueTaken
      <4>2. QED
        BY <2>1, <3>1, <4>1, TasksToAdd DEF Saves!FirstPhase, Saves!SavePhases
    <3>3. i \in 2 .. Len(queue)
      BY <1>0, <2>1, <3>2, QueueTaken
    <3>4. queue'[i - 1] = Saves!SaveTask /\ i - 1 \in 1 .. Len(queue')
      BY <1>0, <2>1, <3>1, <3>3, QueueTaken
    <3>5. QED
      BY <3>4 DEF Queued
  <2>4. PendingIsTaken'
    BY <2>1, <2>3 DEF Kept, PendingIsTaken, Saves!SavePhases
  <2>5. OwedIsKept'
    BY <2>1, <2>2 DEF Kept, OwedIsKept
  <2>6. LastWordIsTrue'
    BY <2>1, <2>2 DEF Kept, LastWordIsTrue, OwedIsSettled
  <2>7. QED
    BY <2>4, <2>5, <2>6 DEF Kept
<1>9. CASE Saves!TakeSettings
  <2>1. /\ saver = "take" /\ saver # "saving" /\ saver \in Saves!SavePhases
        /\ UNCHANGED <<pool, queue, ui, owed, file, failed, events, settingsStatus, asked>>
    BY <1>9 DEF Saves!TakeSettings, Saves!callVars, Saves!SavePhases
  <2>2. ui # "submitting"
    BY <2>1 DEF OneSaveTask
  <2>3. CASE pendingSettings = 0 \/ Saves!Stopped
    <3>1. saver' = "idle" /\ settingsSaveScheduled' = FALSE /\ UNCHANGED <<pendingSettings, job>>
      BY <1>9, <2>3 DEF Saves!TakeSettings, Saves!FlagOnExit
    <3>2. PendingIsTaken'
      BY <2>1, <2>2, <2>3, <3>1 DEF PendingIsTaken, Saves!Stopped
    <3>3. QED
      BY <2>1, <3>1, <3>2 DEF Kept, OwedIsKept, LastWordIsTrue, OwedIsSettled
  <2>4. CASE ~(pendingSettings = 0 \/ Saves!Stopped)
    <3>1. job' = pendingSettings /\ pendingSettings' = 0 /\ saver' = "saving"
      BY <1>9, <2>4 DEF Saves!TakeSettings
    <3>2. owed \in {0, pendingSettings}
      BY <2>2, <2>4 DEF Kept, PendingIsTaken, Saves!Stopped
    <3>3. PendingIsTaken'
      BY <2>1, <2>2, <3>1 DEF PendingIsTaken, Saves!SavePhases
    <3>4. OwedIsKept'
      BY <2>1, <3>1, <3>2 DEF Kept, OwedIsKept
    <3>5. LastWordIsTrue'
      BY <3>1 DEF LastWordIsTrue, OwedIsSettled
    <3>6. QED
      BY <3>3, <3>4, <3>5 DEF Kept
  <2>5. QED
    BY <2>3, <2>4
<1>10. ASSUME NEW s \in BOOLEAN, Saves!SaveDone(s) PROVE Kept'
  <2>1. /\ saver = "saving" /\ saver' = "more"
        /\ saver \in Saves!SavePhases /\ saver' \in Saves!SavePhases
        /\ file' = IF s THEN job ELSE file
        /\ failed' = IF s THEN failed ELSE failed \cup {job}
        /\ events' = Append(events, s)
        /\ UNCHANGED <<pool, queue, pendingSettings, settingsSaveScheduled, ui, owed,
                       settingsStatus, asked>>
    BY <1>10 DEF Saves!SaveDone, Saves!callVars, Saves!SavePhases, Saves!EmitCompleted
  <2>2. owed \in {0, pendingSettings, job}
    BY <2>1 DEF Kept, OwedIsKept
  <2>3. events' # <<>> /\ events'[Len(events')] = s
    BY <1>0, <2>1
  <2>4. PendingIsTaken'
    BY <2>1 DEF Kept, PendingIsTaken
  <2>5. OwedIsKept'
    BY <2>1, <2>2 DEF OwedIsKept
  <2>6. LastWordIsTrue'
    BY <2>1, <2>2, <2>3 DEF LastWordIsTrue, OwedIsSettled
  <2>7. QED
    BY <2>4, <2>5, <2>6 DEF Kept
<1>11. CASE Saves!LookForMore
  <2>1. /\ saver = "more" /\ saver # "saving" /\ saver \in Saves!SavePhases
        /\ IF pendingSettings = 0 THEN saver' = "idle" /\ settingsSaveScheduled' = FALSE
                                   ELSE saver' = "take"
        /\ UNCHANGED <<pool, queue, pendingSettings, ui, owed, file, failed, events,
                       settingsStatus, asked>>
    BY <1>11 DEF Saves!LookForMore, Saves!NothingNewer, Saves!FlagOnExit, Saves!callVars,
                 Saves!SavePhases
  <2>2. settingsSaveScheduled' \/ pendingSettings # 0 => saver' \in Saves!SavePhases
    BY <2>1 DEF Saves!SavePhases
  <2>3. PendingIsTaken'
    BY <2>1, <2>2 DEF Kept, PendingIsTaken, OneSaveTask
  <2>4. QED
    BY <2>1, <2>3 DEF Kept, OwedIsKept, LastWordIsTrue, OwedIsSettled
<1>12. CASE Saves!DoWrite \/ Saves!BeginMerge \/ Saves!ExtractMissing \/ Saves!CheckMerge
            \/ Saves!UpdateFileIndex
  <2>1. /\ UNCHANGED <<pool, queue, pendingSettings, settingsSaveScheduled, ui, owed, file,
                       failed, events, settingsStatus, asked>>
        /\ saver \notin Saves!SavePhases /\ saver' \notin Saves!SavePhases
        /\ saver # "saving"
    BY <1>12 DEF Saves!DoWrite, Saves!BeginMerge, Saves!ExtractMissing, Saves!CheckMerge,
       Saves!UpdateFileIndex, Saves!SavePhases, Saves!callVars
  <2>2. Queued' = Queued
    BY <2>1 DEF Queued
  <2>3. QED
    BY <1>1, <2>1, <2>2
<1>13. ASSUME NEW r \in BOOLEAN, Saves!SaveThrows(r) PROVE FALSE
  BY <1>13 DEF Saves!SaveThrows
<1>14. QED
  BY <1>2, <1>3, <1>4, <1>5, <1>6, <1>7, <1>8, <1>9, <1>10, <1>11, <1>12, <1>13
     DEF Saves!Next, Saves!WorkerStep, Saves!SettingsSaveLoop

(* An exception is forgotten by the next Start only.                        *)
LEMMA ThrewStays == [Saves!Next]_(Saves!vars) /\ ~Saves!Start /\ threw => threw'
BY DEF Saves!Next, Saves!vars, Saves!ghostVars, Saves!SaveSettings, Saves!SubmitSave,
   Saves!Write, Saves!MergeFileIndex, Saves!Stop, Saves!StopDeferrable, Saves!ShutdownDraining,
   Saves!ShutdownCancelling, Saves!StopReturns, Saves!HearSaveCompleted, Saves!WorkerStep,
   Saves!Begin, Saves!SettingsSaveLoop, Saves!TakeSettings, Saves!SaveDone, Saves!SaveThrows,
   Saves!LookForMore, Saves!DoWrite, Saves!BeginMerge, Saves!ExtractMissing, Saves!CheckMerge,
   Saves!UpdateFileIndex

(* A Start finds nothing pending and nothing scheduled, so it can owe what  *)
(* was owed before it, or after an exception nothing.                       *)
LEMMA StartStep ==
  ASSUME PoolIsUsed, ~threw => Kept, Saves!Start
  PROVE  Kept'
<1>1. /\ ui = "free" /\ pool = "stopped" /\ pool' = "open"
      /\ owed' = IF threw THEN 0 ELSE owed
      /\ UNCHANGED <<queue, pendingSettings, settingsSaveScheduled, ui, saver, job, file, failed,
                     events, settingsStatus, asked>>
  BY DEF Saves!Start, Saves!Nothing, Saves!settingsVars, Saves!workerVars, Saves!diskVars,
     Saves!uiVars
<1>2. pendingSettings = 0 /\ ~settingsSaveScheduled /\ saver = "idle"
  BY <1>1 DEF PoolIsUsed, Saves!Nothing
<1>3. PendingIsTaken'
  BY <1>1, <1>2 DEF PendingIsTaken, Saves!Nothing
<1>4. CASE threw
  BY <1>1, <1>2, <1>3, <1>4 DEF Kept, OwedIsKept, LastWordIsTrue, OwedIsSettled, Saves!Nothing
<1>5. CASE ~threw
  BY <1>1, <1>2, <1>3, <1>5 DEF Kept, OwedIsKept, LastWordIsTrue, OwedIsSettled, Saves!Nothing
<1>6. QED
  BY <1>4, <1>5

(* All of the invariant of Persistence.                                     *)
LEMMA SavesStep == SavesInv /\ [Saves!Next]_(Saves!vars) => SavesInv'
<1> SUFFICES ASSUME SavesInv, [Saves!Next]_(Saves!vars)
             PROVE  SavesInv'
  OBVIOUS
<1>1. Types /\ PoolIsUsed /\ JobIsKnown /\ OneSaveTask /\ WritesAreKept /\ (~threw => Kept)
  BY TypesAreTypeOK DEF SavesInv, Kept
<1>2. Types'
  BY <1>1, SavesTypeStep
<1>3. Saves!TypeOK'
  BY <1>2 DEF Saves!TypeOK, Types, PoolTypes, SettingsTypes, UiTypes, WorkerTypes, DiskTypes,
     EventTypes, CallTypes, GhostTypes
<1>4. PoolIsUsed' /\ JobIsKnown' /\ OneSaveTask' /\ WritesAreKept'
  BY <1>1, PoolStep, JobStep, OneSaveStep, WritesStep
<1>5. ~threw' => Kept'
  BY <1>1, ThrewStays, KeptStep, StartStep
<1>6. QED
  BY <1>3, <1>4, <1>5 DEF SavesInv, Kept

(* Cut text is only held while the token that cut it is still stopped, and  *)
(* never by a merge that has passed its last question: a running task keeps *)
(* the executor from being stopped, so Start cannot clear the token.        *)
CutIsKnown ==
  /\ saver = "check" /\ cut => deferrableStop
  /\ saver = "update" => ~cut

MergeInv == PoolIsUsed /\ CutIsKnown /\ Saves!NoPartialMerge

(* The index of a cut merge is not written.                                 *)
LEMMA MergeStep ==
  ASSUME Types, MergeInv, [Saves!Next]_(Saves!vars)
  PROVE  MergeInv'
<1> USE DEF MergeInv, CutIsKnown, Saves!NoPartialMerge
<1>0. PoolIsUsed'
  BY PoolStep
<1>1. CASE Saves!Start
  BY <1>0, <1>1 DEF Saves!Start, Saves!workerVars, Saves!diskVars, PoolIsUsed
<1>2. CASE Saves!SaveSettings \/ Saves!SubmitSave \/ Saves!Write \/ Saves!MergeFileIndex
           \/ Saves!HearSaveCompleted
  BY <1>0, <1>2 DEF Saves!SaveSettings, Saves!SubmitSave, Saves!Write, Saves!MergeFileIndex,
     Saves!HearSaveCompleted, Saves!workerVars, Saves!diskVars
<1>3. CASE Saves!Stop
  BY <1>0, <1>3 DEF Saves!Stop, Saves!StopDeferrable, Saves!ShutdownDraining,
     Saves!ShutdownCancelling, Saves!StopReturns, Saves!workerVars, Saves!diskVars
<1>4. CASE Saves!Begin
  BY <1>0, <1>4 DEF Saves!Begin, Saves!diskVars
<1>5. CASE Saves!SettingsSaveLoop \/ Saves!DoWrite
  BY <1>0, <1>5 DEF Saves!SettingsSaveLoop, Saves!TakeSettings, Saves!SaveDone, Saves!SaveThrows,
     Saves!LookForMore, Saves!DoWrite, Saves!workerVars, Saves!diskVars
<1>6. CASE Saves!BeginMerge \/ Saves!ExtractMissing
  BY <1>0, <1>6 DEF Saves!BeginMerge, Saves!ExtractMissing, Saves!diskVars
<1>7. CASE Saves!CheckMerge
  BY <1>0, <1>7 DEF Saves!CheckMerge, Saves!Abandoned, Saves!diskVars
<1>8. CASE Saves!UpdateFileIndex
  BY <1>0, <1>8 DEF Saves!UpdateFileIndex
<1>9. CASE UNCHANGED Saves!vars
  BY <1>0, <1>9 DEF Saves!vars, Saves!workerVars, Saves!diskVars
<1>10. QED
  BY <1>1, <1>2, <1>3, <1>4, <1>5, <1>6, <1>7, <1>8, <1>9 DEF Saves!Next, Saves!WorkerStep

(* What a Stop that has returned leaves.                                    *)
LEMMA StopKeepsAccepted ==
  SavesInv /\ MergeInv => Saves!DrainKeepsAccepted /\ Saves!NoPartialMerge
<1> SUFFICES ASSUME SavesInv, ~threw, pool = "stopped", ui = "free"
             PROVE  /\ owed # 0 => owed = file \/ owed \in failed
                    /\ settledWrites = 1 .. writes
  BY DEF MergeInv, Saves!DrainKeepsAccepted, Saves!DrainIsDurable, Saves!Nothing
<1>1. saver = "idle" /\ queue = <<>> /\ pendingSettings = 0
  BY DEF SavesInv, PoolIsUsed, Saves!Nothing
<1>2. owed # 0 => owed = file \/ owed \in failed
  BY <1>1 DEF SavesInv, OwedIsKept, Saves!Nothing
<1>3. settledWrites = 1 .. writes
  <2>1. 1 .. Len(queue) = {}
    BY <1>1
  <2>2. QED
    BY <1>1, <2>1 DEF SavesInv, WritesAreKept, JobIsKnown
<1>4. QED
  BY <1>2, <1>3

-----------------------------------------------------------------------------
(* Both next to each other, as the run checks them: the inductive           *)
(* invariant, which holds also of the one that is over.                     *)
PoolInv  == IInv /\ TasksInv /\ WaitInv
BothInv  == PoolInv /\ SavesInv /\ MergeInv

(* A pool that was not started, with nobody left to call it.                *)
LEMMA OverPoolInv == PoolOver => PoolInv
<1> SUFFICES ASSUME PoolOver
             PROVE  PoolInv
    OBVIOUS
<1>1. owner \in Threads /\ owner # None
      BY ConstantsAssumption DEF PoolOver, Threads
<1>2. TypeOK
  <2>1. tasks \in Seq(Tasks)
        BY DEF PoolOver
  <2> QED
      BY <1>1, <2>1 DEF PoolOver, TypeOK, CallPhases, Threads
<1>3. JoinInv /\ BusyHoldsTask
      BY <1>1 DEF PoolOver, JoinInv, OthersExited, InShutdown, BusyHoldsTask
<1>4. TasksInv
  <2>1. Waiting = {} /\ Running = {}
        BY DEF PoolOver, Waiting, Running
  <2> QED
      BY <2>1 DEF PoolOver, TasksInv, QueueInOrder, NoTaskIsLost, NoTaskTwice, CancelEmpties
<1>5. WaitInv
  <2>1. Asleep = {}
        BY DEF PoolOver, Asleep
  <2>2. /\ owner # None /\ joined /\ ~stop /\ tasks = <<>>
        /\ \A t \in Threads : call[t] = "no"
        BY <1>1 DEF PoolOver
  <2>3. ShutdownKnown
        BY <2>2, ThreadKinds DEF ShutdownKnown
  <2> QED
      BY <2>1, <2>3 DEF WaitInv, NoWakeUpLost
<1> QED
    BY <1>2, <1>3, <1>4, <1>5 DEF PoolInv, IInv

(* They hold of a service that is over, next to the executor.               *)
LEMMA OverSavesInv == PersistenceOver => SavesInv /\ MergeInv
<1> SUFFICES ASSUME PersistenceOver
             PROVE  SavesInv /\ MergeInv
  OBVIOUS
<1> USE DEF PersistenceOver
<1>1. Saves!TypeOK
  <2>1. queue \in Seq(Saves!Task) /\ events \in Seq(BOOLEAN)
    OBVIOUS
  <2>2. asked \in 0 .. MaxSaves /\ writes \in 0 .. MaxWrites /\ merges \in 0 .. MaxMerges
        /\ starts \in 0 .. MaxStarts
    BY Bounds
  <2>3. QED
    BY <2>1, <2>2 DEF Saves!TypeOK, Saves!Nothing, Saves!WorkerPhases
<1>2. PoolIsUsed /\ JobIsKnown /\ OneSaveTask /\ WritesAreKept
  BY Bounds DEF PoolIsUsed, JobIsKnown, OneSaveTask, WritesAreKept, Queued, Saves!Nothing,
     Saves!SavePhases
<1>3. PendingIsTaken /\ OwedIsKept /\ LastWordIsTrue
  BY DEF PendingIsTaken, OwedIsKept, LastWordIsTrue, OwedIsSettled, Saves!Nothing
<1>4. MergeInv
  BY <1>2 DEF MergeInv, CutIsKnown, Saves!NoPartialMerge
<1>5. QED
  BY <1>1, <1>2, <1>3, <1>4 DEF SavesInv

(* They hold at first, whichever of the two is over ...                     *)
LEMMA InitBothInv == TasksInit => BothInv
<1>1. Saves!Init => MergeInv
  BY SavesInit DEF SavesInv, MergeInv, CutIsKnown, Saves!NoPartialMerge, Saves!Init
<1>2. Init => PoolInv
  BY InitIInv, InitTasksInv, InitWaitInv DEF PoolInv
<1>3. QED
  BY <1>1, <1>2, OverPoolInv, OverSavesInv, SavesInit DEF TasksInit, BothInv

(* ... and whichever of the two makes the next step.                        *)
LEMMA StepBothInv == BothInv /\ [TasksNext]_<<vars, persistence>> => BothInv'
<1> SUFFICES ASSUME BothInv, [TasksNext]_<<vars, persistence>>
             PROVE  BothInv'
  OBVIOUS
<1>1. UNCHANGED persistence => UNCHANGED Saves!vars
  BY DEF persistence, Saves!vars, Saves!poolVars, Saves!settingsVars, Saves!workerVars,
     Saves!diskVars, Saves!uiVars, Saves!callVars, Saves!ghostVars
<1>2. [Next]_vars /\ [Saves!Next]_(Saves!vars)
  BY <1>1 DEF TasksNext
<1>3. IInv' /\ TasksInv'
  BY <1>2, StepTypeOK, StepBusyHoldsTask, StepJoinInv, StepTasksInv DEF IInv, BothInv, PoolInv
<1>4. WaitInv'
  BY <1>2, StepShutdownKnown, StepNoWakeUpLost DEF WaitInv, BothInv, PoolInv
<1>5. SavesInv' /\ MergeInv'
  BY <1>2, SavesStep, MergeStep, TypesAreTypeOK DEF SavesInv, BothInv
<1>6. QED
  BY <1>3, <1>4, <1>5 DEF BothInv, PoolInv

LEMMA BothAreInvariant == TasksSpec => []BothInv
<1>1. TasksSpec => TasksInit /\ [][TasksNext]_<<vars, persistence>>
  BY DEF TasksSpec
<1>2. QED
  BY <1>1, InitBothInv, StepBothInv, PTL

(* The pool's and the persistence service's variables keep their types.     *)
THEOREM TypesAreKept == TasksSpec => []TasksTypeOK
<1>1. BothInv => TasksTypeOK
  BY DEF BothInv, PoolInv, IInv, SavesInv, TasksTypeOK
<1>2. QED
  BY <1>1, BothAreInvariant, PTL

(* While a call of Shutdown has not returned or a task is queued, some      *)
(* thread of the executor can take its next step, and no worker sleeps on a *)
(* task nobody will look at or wake it for, whichever threads submit, shut  *)
(* down and join, tasks of the pool among them (Submit, WorkerLoop and      *)
(* Shutdown, background_executor.hpp).                                      *)
THEOREM NobodyIsStuck == TasksSpec => []NeverStuck
<1>1. BothInv => NeverStuck
  BY SomeoneGoesOn DEF BothInv, PoolInv
<1>2. QED
  BY <1>1, BothAreInvariant, PTL

(* What a stop leaves.  Of a pool: an outside caller of Shutdown returns    *)
(* after the last worker, or all but the one that shuts down from inside a  *)
(* task, and then every accepted task has run, or a cancelling call has     *)
(* discarded it.  Of the persistence service: when a draining Stop has      *)
(* returned, the settings owed are in settings.json or were reported        *)
(* failed and every write was carried out or reported, unless a save threw  *)
(* since the last Start; and no Stop leaves the index of a merge whose text *)
(* it cut short (Shutdown, background_executor.hpp; Stop, SettingsSaveLoop  *)
(* and MergeFileIndex, persistence_service.cpp).                            *)
THEOREM NothingAcceptedIsLost == TasksSpec => []StopLeavesWhole
<1>1. BothInv => StopLeavesWhole
  BY ReturnsWhole, StopKeepsAccepted DEF BothInv, PoolInv, StopLeavesWhole
<1>2. QED
  BY <1>1, BothAreInvariant, PTL

(* "All changes saved." is true once no save is asked for, under way or     *)
(* unheard (SaveSettings, SettingsSaveLoop and the settings window's        *)
(* status).                                                                 *)
THEOREM SavedIsTrue == TasksSpec => []SavedIsTrueAtRest
<1>1. SavesInv => SavedIsTrueAtRest
  BY DEF SavesInv, LastWordIsTrue, OwedIsSettled, SavedIsTrueAtRest, Saves!SavedIsTrueAtRest,
     Saves!SavePhases
<1>2. QED
  BY <1>1, BothAreInvariant, PTL DEF BothInv
=============================================================================
