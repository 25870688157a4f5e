------------------------------ MODULE TaskPool ------------------------------
(***************************************************************************)
(* What native/src/background_executor.hpp promises its users: tasks begin *)
(* in the order they were accepted, each at most once; a draining shutdown *)
(* refuses new tasks but runs the queued ones; a cancelling one, which may *)
(* also follow a draining one, discards everything that has not begun.     *)
(***************************************************************************)
EXTENDS Naturals

CONSTANT MaxTasks   \* a natural number: bound on the tasks accepted in a behaviour

Tasks == 1 .. MaxTasks   \* in the order they are accepted

VARIABLES status,  \* task -> "new", "queued", "running", "done" or "discarded"
          mode     \* "open", "draining" or "cancelled"

poolVars == <<status, mode>>

PoolTypeOK ==
  /\ status \in [Tasks -> {"new", "queued", "running", "done", "discarded"}]
  /\ mode \in {"open", "draining", "cancelled"}

PoolInit ==
  /\ status = [k \in Tasks |-> "new"]
  /\ mode = "open"

Accept(k) ==
  /\ mode = "open"
  /\ status[k] = "new"
  /\ \A j \in 1 .. k - 1 : status[j] # "new"
  /\ status' = [status EXCEPT ![k] = "queued"]
  /\ UNCHANGED mode

Begin(k) ==
  /\ mode # "cancelled"
  /\ status[k] = "queued"
  /\ \A j \in 1 .. k - 1 : status[j] # "queued"
  /\ status' = [status EXCEPT ![k] = "running"]
  /\ UNCHANGED mode

Finish(k) ==
  /\ status[k] = "running"
  /\ status' = [status EXCEPT ![k] = "done"]
  /\ UNCHANGED mode

DrainAndStop ==
  /\ mode = "open"
  /\ mode' = "draining"
  /\ UNCHANGED status

Cancel ==
  /\ mode # "cancelled"
  /\ mode' = "cancelled"
  /\ status' = [k \in Tasks |->
                  IF status[k] = "queued" THEN "discarded" ELSE status[k]]

PoolNext ==
  \/ \E k \in Tasks : Accept(k) \/ Begin(k) \/ Finish(k)
  \/ DrainAndStop
  \/ Cancel

(* An accepted task is not left behind: it begins unless it is discarded.   *)
PoolSpec ==
  /\ PoolInit /\ [][PoolNext]_poolVars
  /\ \A k \in Tasks : WF_poolVars(Begin(k))
=============================================================================
