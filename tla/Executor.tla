------------------------------ MODULE Executor ------------------------------
(***************************************************************************)
(* native/src/background_executor.hpp: a pool of worker threads behind one *)
(* queue.  One State object is modelled, from Start on: the threads that   *)
(* submit, the workers, and Shutdown called once by any of them, external  *)
(* callers and tasks of the pool alike, draining or not, one after the     *)
(* other or at the same time.                                              *)
(*                                                                         *)
(* Every region under a mutex is one step; what happens after the unlock   *)
(* (notify_one, notify_all, the joins) is a step of its own.               *)
(***************************************************************************)
EXTENDS Naturals, Sequences, FiniteSets

CONSTANTS Workers,   \* the pool's threads
          Callers,   \* threads outside the pool
          MaxTasks,  \* bound on the tasks accepted in a behaviour
          None       \* no task, no owner

Threads == Workers \cup Callers
Tasks   == 1 .. MaxTasks

ASSUME ConstantsAssumption ==
  /\ Workers # {} /\ IsFiniteSet(Workers) /\ IsFiniteSet(Callers)
  /\ Workers \cap Callers = {}
  /\ MaxTasks \in Nat
  /\ None \notin Threads \cup Nat

VARIABLES
  tasks,      \* State::tasks
  stopping,   \* State::stopping
  drain,      \* State::drain
  stop,       \* State::stop was requested
  joined,     \* State::joined
  owner,      \* the Shutdown call that took state_ and the jthreads
  worker,     \* worker -> "looking", "asleep" in cv, "busy" with a task, "exited"
  current,    \* worker -> the task it runs
  call,       \* thread -> where it is in Submit or Shutdown
  drainCall,  \* thread -> the drainPending it passed
  returned,   \* threads whose Shutdown has returned
  accepted,   \* number of tasks queued so far
  finished,   \* tasks that ran to their end
  discarded   \* tasks a cancelling shutdown dropped

vars == <<tasks, stopping, drain, stop, joined, owner, worker, current, call,
          drainCall, returned, accepted, finished, discarded>>

(* call: "no"; Submit has read state_ ("submitting") or queued the task and *)
(* owes notify_one ("notifying"); Shutdown has taken the state ("closing"), *)
(* owes notify_all ("waking"), joins as the owner or waits for joinedCv     *)
(* ("joining"), or, the joins done, marks them ("marking").                 *)
CallPhases == {"no", "submitting", "notifying", "closing", "waking", "joining",
               "marking"}

InShutdown(t) == call[t] \in {"closing", "waking", "joining", "marking"}

TypeOK ==
  /\ tasks \in Seq(Tasks)
  /\ stopping \in BOOLEAN /\ drain \in BOOLEAN /\ stop \in BOOLEAN
  /\ joined \in BOOLEAN
  /\ owner \in Threads \cup {None}
  /\ worker \in [Workers -> {"looking", "asleep", "busy", "exited"}]
  /\ current \in [Workers -> Tasks \cup {None}]
  /\ call \in [Threads -> CallPhases]
  /\ drainCall \in [Threads -> BOOLEAN]
  /\ returned \subseteq Threads
  /\ accepted \in Tasks \cup {0}
  /\ finished \subseteq Tasks
  /\ discarded \subseteq Tasks

Init ==
  /\ tasks = <<>>
  /\ stopping = FALSE /\ drain = FALSE /\ stop = FALSE
  /\ joined = FALSE
  /\ owner = None
  /\ worker = [w \in Workers |-> "looking"]
  /\ current = [w \in Workers |-> None]
  /\ call = [t \in Threads |-> "no"]
  /\ drainCall = [t \in Threads |-> FALSE]
  /\ returned = {}
  /\ accepted = 0
  /\ finished = {}
  /\ discarded = {}

(* A worker only calls the executor from inside a task.                     *)
MayCall(t) == call[t] = "no" /\ (t \in Workers => worker[t] = "busy")

-----------------------------------------------------------------------------
(* Submit: state_ is read under the executor's mutex ...                    *)
ReadState(t) ==
  /\ MayCall(t)
  /\ owner = None
  /\ accepted < MaxTasks
  /\ call' = [call EXCEPT ![t] = "submitting"]
  /\ UNCHANGED <<tasks, stopping, drain, stop, joined, owner, worker, current,
                 drainCall, returned, accepted, finished, discarded>>

(* ... and the task is queued under the state's, unless shutdown has begun. *)
StaleTask == accepted   \* mutant: the number of the task before
NewTask == accepted + 1

QueueTask(t) ==
  /\ call[t] = "submitting"
  /\ IF stopping \/ accepted = MaxTasks
     THEN /\ call' = [call EXCEPT ![t] = "no"]
          /\ UNCHANGED <<tasks, accepted>>
     ELSE /\ accepted' = accepted + 1
          /\ tasks' = Append(tasks, NewTask)
          /\ call' = [call EXCEPT ![t] = "notifying"]
  /\ UNCHANGED <<stopping, drain, stop, joined, owner, worker, current,
                 drainCall, returned, finished, discarded>>

Asleep == {w \in Workers : worker[w] = "asleep"}

NotifyOne(t) ==
  /\ call[t] = "notifying"
  /\ call' = [call EXCEPT ![t] = "no"]
  /\ \/ Asleep = {} /\ UNCHANGED worker
     \/ \E w \in Asleep : worker' = [worker EXCEPT ![w] = "looking"]
  /\ UNCHANGED <<tasks, stopping, drain, stop, joined, owner, current,
                 drainCall, returned, accepted, finished, discarded>>

-----------------------------------------------------------------------------
(* WorkerLoop: one look at the state under its mutex.                       *)
MustExit == stop \/ (stopping /\ (~drain \/ tasks = <<>>))

Sleep(w) ==
  /\ worker[w] = "looking"
  /\ ~stopping /\ ~stop /\ tasks = <<>>
  /\ worker' = [worker EXCEPT ![w] = "asleep"]
  /\ UNCHANGED <<tasks, stopping, drain, stop, joined, owner, current, call,
                 drainCall, returned, accepted, finished, discarded>>

Exit(w) ==
  /\ worker[w] = "looking"
  /\ MustExit
  /\ worker' = [worker EXCEPT ![w] = "exited"]
  /\ UNCHANGED <<tasks, stopping, drain, stop, joined, owner, current, call,
                 drainCall, returned, accepted, finished, discarded>>

TakeTask(w) ==
  /\ worker[w] = "looking"
  /\ ~MustExit /\ tasks # <<>>
  /\ worker' = [worker EXCEPT ![w] = "busy"]
  /\ current' = [current EXCEPT ![w] = Head(tasks)]
  /\ tasks' = Tail(tasks)
  /\ UNCHANGED <<stopping, drain, stop, joined, owner, call, drainCall,
                 returned, accepted, finished, discarded>>

(* The task returns or throws; a failure is reported and never ends the     *)
(* worker.                                                                  *)
FinishTask(w) ==
  /\ worker[w] = "busy"
  /\ call[w] = "no"
  /\ worker' = [worker EXCEPT ![w] = "looking"]
  /\ finished' = finished \cup {current[w]}
  /\ current' = [current EXCEPT ![w] = None]
  /\ UNCHANGED <<tasks, stopping, drain, stop, joined, owner, call, drainCall,
                 returned, accepted, discarded>>

-----------------------------------------------------------------------------
(* Shutdown: the first call takes state_ and the threads, later ones find   *)
(* the same state through retiring_.  It has expired only when the owner    *)
(* has returned and every worker is gone, and then there is nothing to do.  *)
Expired == owner \in returned /\ \A w \in Workers : worker[w] = "exited"

EnterShutdown(t, drainPending) ==
  /\ MayCall(t)
  /\ t \notin returned
  /\ ~Expired
  /\ owner' = IF owner = None THEN t ELSE owner
  /\ call' = [call EXCEPT ![t] = "closing"]
  /\ drainCall' = [drainCall EXCEPT ![t] = drainPending]
  /\ UNCHANGED <<tasks, stopping, drain, stop, joined, worker, current,
                 returned, accepted, finished, discarded>>

(* The decision, under the state's mutex: the first caller chooses, a later *)
(* one can only turn draining into cancelling.                              *)
LastCallDecides(t) == drainCall[t]   \* mutant: a draining call undoes a cancel
Drains(t) == IF stopping THEN drain /\ drainCall[t] ELSE drainCall[t]

CloseState(t) ==
  /\ call[t] = "closing"
  /\ stopping' = TRUE
  /\ drain' = Drains(t)
  /\ IF drain'
     THEN UNCHANGED <<tasks, stop, discarded>>
     ELSE /\ discarded' = discarded \cup {tasks[i] : i \in DOMAIN tasks}
          /\ tasks' = <<>>
          /\ stop' = TRUE
  /\ call' = [call EXCEPT ![t] = "waking"]
  /\ UNCHANGED <<joined, owner, worker, current, drainCall, returned,
                 accepted, finished>>

(* notify_all; then a worker that is not the owner returns at once, since   *)
(* waiting would be for itself.                                             *)
NobodyWoken == worker   \* mutant: notify_all is missing
Woken == [w \in Workers |-> IF worker[w] = "asleep" THEN "looking" ELSE worker[w]]

WakeAll(t) ==
  /\ call[t] = "waking"
  /\ worker' = Woken
  /\ IF t \in Workers /\ owner # t
     THEN /\ call' = [call EXCEPT ![t] = "no"]
          /\ returned' = returned \cup {t}
     ELSE /\ call' = [call EXCEPT ![t] = "joining"]
          /\ UNCHANGED returned
  /\ UNCHANGED <<tasks, stopping, drain, stop, joined, owner, current,
                 drainCall, accepted, finished, discarded>>

(* The owner joins every worker but itself, which it detaches.              *)
JoinWorkers(t) ==
  /\ call[t] = "joining"
  /\ owner = t
  /\ \A w \in Workers \ {t} : worker[w] = "exited"
  /\ call' = [call EXCEPT ![t] = "marking"]
  /\ UNCHANGED <<tasks, stopping, drain, stop, joined, owner, worker, current,
                 drainCall, returned, accepted, finished, discarded>>

MarkJoined(t) ==
  /\ call[t] = "marking"
  /\ joined' = TRUE
  /\ call' = [call EXCEPT ![t] = "no"]
  /\ returned' = returned \cup {t}
  /\ UNCHANGED <<tasks, stopping, drain, stop, owner, worker, current,
                 drainCall, accepted, finished, discarded>>

(* Every other caller waits for joinedCv.                                   *)
JoinedOnceStopping == stopping   \* mutant: the wrong flag is waited for
JoinDone == joined

AwaitJoined(t) ==
  /\ call[t] = "joining"
  /\ owner # t
  /\ JoinDone
  /\ call' = [call EXCEPT ![t] = "no"]
  /\ returned' = returned \cup {t}
  /\ UNCHANGED <<tasks, stopping, drain, stop, joined, owner, worker, current,
                 drainCall, accepted, finished, discarded>>

-----------------------------------------------------------------------------
SubmitStep(t) == QueueTask(t) \/ NotifyOne(t)

WorkerStep(w) == Sleep(w) \/ Exit(w) \/ TakeTask(w) \/ FinishTask(w)

ShutdownStep(t) ==
  CloseState(t) \/ WakeAll(t) \/ JoinWorkers(t) \/ MarkJoined(t) \/ AwaitJoined(t)

Next ==
  \/ \E t \in Threads : ReadState(t) \/ SubmitStep(t) \/ ShutdownStep(t)
  \/ \E t \in Threads, drainPending \in BOOLEAN : EnterShutdown(t, drainPending)
  \/ \E w \in Workers : WorkerStep(w)

Spec == Init /\ [][Next]_vars

(* Threads keep running and tasks end; nobody has to call Shutdown.         *)
Fairness ==
  /\ \A t \in Threads : WF_vars(SubmitStep(t)) /\ WF_vars(ShutdownStep(t))
  /\ \A w \in Workers : WF_vars(WorkerStep(w))

FairSpec == Spec /\ Fairness

-----------------------------------------------------------------------------
(* The workers a Shutdown call may leave running when it returns: the one   *)
(* that owns the join and detached itself.                                  *)
Detached == IF owner \in Workers THEN {owner} ELSE {}

(* Every external caller of Shutdown returns only after all workers are     *)
(* gone and every task that was accepted has run or was discarded by a      *)
(* cancelling call, but for a worker that shut the pool down from inside a  *)
(* task and what it has still to run.                                       *)
ReturnsAfterJoin ==
  \A t \in returned \cap Callers :
    /\ \A w \in Workers \ Detached : worker[w] = "exited"
    /\ Detached = {} => 1 .. accepted = finished \cup discarded /\ (drain => discarded = {})

(* No wake-up is lost: a worker sleeps only while every queued task has a   *)
(* thread of its own that looks at the queue or is about to notify, and     *)
(* once shutdown has begun only while a notify_all is to come.              *)
NoWakeUpLost ==
  Asleep # {} =>
    /\ Len(tasks) <= Cardinality({t \in Threads : call[t] = "notifying"})
                       + Cardinality({w \in Workers : worker[w] = "looking"})
    /\ stopping => \E t \in Threads : call[t] = "waking"

(* Nobody waits for a thread that waits itself: while a call of Shutdown    *)
(* has not returned or a task is queued, some thread can take its next      *)
(* step.                                                                    *)
CanGoOn ==
  \/ \E t \in Threads : call[t] \in CallPhases \ {"no", "joining"}
  \/ \E w \in Workers : worker[w] = "looking" \/ (worker[w] = "busy" /\ call[w] = "no")
  \/ \E t \in Threads :
       /\ call[t] = "joining"
       /\ IF owner = t THEN \A w \in Workers \ {t} : worker[w] = "exited" ELSE joined

NeverStuck ==
  /\ NoWakeUpLost
  /\ tasks # <<>> \/ (\E t \in Threads : InShutdown(t)) => CanGoOn

(* Nobody waits for ever: concurrent, escalating and re-entrant calls of    *)
(* Shutdown all return, whichever thread made them.                         *)
EveryShutdownReturns == \A t \in Threads : InShutdown(t) ~> t \in returned

(* The detailed pool implements TaskPool.                                   *)
Status ==
  [k \in Tasks |->
     CASE k > accepted -> "new"
       [] \E i \in DOMAIN tasks : tasks[i] = k -> "queued"
       [] \E w \in Workers : current[w] = k -> "running"
       [] k \in discarded -> "discarded"
       [] k \in finished -> "done"]

Mode == CASE ~stopping -> "open" [] stopping /\ drain -> "draining"
          [] OTHER -> "cancelled"

Pool == INSTANCE TaskPool WITH status <- Status, mode <- Mode

(* Tasks begin in order, at most once, none after a cancelling shutdown;    *)
(* a draining one runs all of them; no accepted task is left behind.        *)
ImplementsTaskPool == Pool!PoolSpec
=============================================================================
