------------------------------ MODULE Previews ------------------------------
(***************************************************************************)
(* The preview pane: the worker of native/src/preview_service.cpp and the  *)
(* launcher that asks it for the selected file (main.cpp).                 *)
(*                                                                         *)
(* The pane follows the selection, which moves under the user's keys, when *)
(* a query starts over and when its results arrive.  Every change makes a  *)
(* new generation; a timer then asks the worker, whose answer counts only  *)
(* while its generation does.                                              *)
(*                                                                         *)
(* Every change of previewGeneration_ is passed to the service in the same *)
(* handler, so previewGeneration_ and generation_ are one variable.        *)
(***************************************************************************)
EXTENDS Naturals, Sequences

CONSTANTS Files,     \* what can be selected and previewed, without 0
          MaxMoves   \* bound on what the user does, changes of quality and failures

NoFile == 0   \* also a result that is not a file

VARIABLES
  open,          \* previewOpen_
  selected,      \* the selected result
  searching,     \* the results of the query are still to come
  timer,         \* TIMER_PREVIEW_LOAD is set
  rich,          \* allowRichPreview, the policy of the performance governor
  generation,    \* previewGeneration_ and generation_
  result,        \* file of previewResult_
  asked,         \* generation of the request made last
  pending,       \* the request waiting in the service
  worker,        \* [at, generation, path]
  previews,      \* previewEvents_
  answered,      \* generation of the answer given last
  lost,          \* no memory even for the answer that says so
  stopping,
  moves          \* how much of the bound is used

paneVars    == <<open, selected, searching, timer, rich, result>>
requestVars == <<generation, asked, pending>>
workerVars  == <<worker, previews, answered, lost>>
vars == <<paneVars, requestVars, workerVars, stopping, moves>>

NoRequest == [generation |-> 0, path |-> NoFile]
Idle      == [at |-> "idle", generation |-> 0, path |-> NoFile]
Exited    == [Idle EXCEPT !.at = "exited"]
Requests  == [generation : Nat, path : Files]

TypeOK ==
  /\ {open, searching, timer, rich, lost, stopping} \subseteq BOOLEAN
  /\ {selected, result} \subseteq Files \cup {NoFile}
  /\ generation \in Nat /\ {asked, answered} \subseteq 0 .. generation
  /\ pending \in Requests \cup {NoRequest}
  /\ worker \in [at : {"idle", "building", "answering", "exited"}, generation : Nat,
                 path : Files \cup {NoFile}]
  /\ previews \in Seq(Requests)
  /\ moves \in 0 .. MaxMoves

NothingYet ==
  /\ open = FALSE /\ selected = NoFile /\ searching = FALSE /\ timer = FALSE /\ rich = TRUE
  /\ generation = 0 /\ result = NoFile /\ asked = 0
  /\ pending = NoRequest
  /\ previews = <<>> /\ answered = 0
  /\ lost = FALSE /\ moves = 0

Init   == NothingYet /\ worker = Idle /\ stopping = FALSE
Absent == NothingYet /\ worker = Exited /\ stopping = TRUE   \* a service that is not started

Moves == ~stopping /\ moves < MaxMoves /\ moves' = moves + 1

-----------------------------------------------------------------------------
(* The launcher.  A generation ends with what was asked for it, and with    *)
(* what the pane shows.                                                     *)
Invalidate ==
  /\ generation' = generation + 1
  /\ pending' = NoRequest
  /\ result' = NoFile

Nothing == UNCHANGED <<generation, pending, result, timer>>

ScheduleSelectedPreview ==
  IF open' THEN Invalidate /\ timer' = TRUE ELSE Nothing

TogglePreview ==   \* the pane opens on a file only
  /\ Moves
  /\ open \/ selected # NoFile
  /\ open' = ~open
  /\ IF open THEN Invalidate /\ timer' = FALSE ELSE ScheduleSelectedPreview
  /\ UNCHANGED <<selected, searching, rich, asked, workerVars, stopping>>

SelectResult(file) ==
  /\ Moves
  /\ ~searching /\ (selected # file \/ file = NoFile)
  /\ selected' = file
  /\ UNCHANGED open
  /\ ScheduleSelectedPreview
  /\ UNCHANGED <<searching, rich, asked, workerVars, stopping>>

(* A query that changes selects the first row of the results it replaces    *)
(* and leaves the pane alone until its own arrive (ApplyResults).           *)
Search(file) ==
  /\ Moves
  /\ searching' = TRUE /\ selected' = file
  /\ UNCHANGED <<open, timer, rich, result, requestVars, workerVars, stopping>>

ApplyResults(file) ==
  /\ ~stopping /\ searching
  /\ searching' = FALSE /\ selected' = file
  /\ UNCHANGED open
  /\ ScheduleSelectedPreview
  /\ UNCHANGED <<rich, asked, workerVars, stopping, moves>>

HideOverlay ==   \* results that are still to come are dropped
  /\ Moves
  /\ open' = FALSE /\ searching' = FALSE
  /\ Invalidate /\ timer' = FALSE
  /\ UNCHANGED <<selected, rich, asked, workerVars, stopping>>

QualityChanges ==
  /\ Moves
  /\ rich' = ~rich
  /\ UNCHANGED <<open, selected, searching, timer, result, requestVars, workerVars, stopping>>

LoadSelectedPreview ==   \* the timer
  /\ ~stopping /\ timer
  /\ timer' = FALSE
  /\ IF rich /\ selected # NoFile
     THEN /\ generation' = generation + 1
          /\ asked' = generation'
          /\ pending' = [generation |-> generation', path |-> selected]
          /\ UNCHANGED result
     ELSE /\ IF rich THEN result' = NoFile /\ UNCHANGED <<generation, pending>> ELSE Invalidate
          /\ UNCHANGED asked
  /\ UNCHANGED <<open, selected, searching, rich, workerVars, stopping, moves>>

AnyPreview(event) == open   \* mutant: the generation is not compared
Wanted(event) == open /\ event.generation = generation

OnPreview ==
  /\ ~stopping /\ previews # <<>>
  /\ previews' = Tail(previews)
  /\ result' = IF Wanted(Head(previews)) THEN Head(previews).path ELSE result
  /\ UNCHANGED <<open, selected, searching, timer, rich, requestVars, worker, answered, lost,
                 stopping, moves>>

Stop ==   \* nobody handles what the worker still answers
  /\ ~stopping
  /\ stopping' = TRUE
  /\ pending' = NoRequest /\ previews' = <<>>
  /\ UNCHANGED <<paneVars, generation, asked, worker, answered, lost, moves>>

-----------------------------------------------------------------------------
(* PreviewService::WorkerLoop.  A build that fails answers too, with an     *)
(* error; only when there is no memory for that is there no answer.  The    *)
(* generation is compared before the sink is called.                        *)
TakeRequest ==
  /\ worker.at = "idle" /\ ~stopping /\ pending # NoRequest
  /\ worker' = [at |-> "building", generation |-> pending.generation, path |-> pending.path]
  /\ pending' = NoRequest
  /\ UNCHANGED <<paneVars, generation, asked, previews, answered, lost, stopping, moves>>

Build ==
  /\ worker.at = "building"
  /\ \/ /\ worker' = IF ~stopping /\ generation = worker.generation
                      THEN [worker EXCEPT !.at = "answering"] ELSE Idle
        /\ UNCHANGED <<lost, moves>>
     \/ /\ Moves
        /\ worker' = Idle /\ lost' = TRUE
  /\ UNCHANGED <<paneVars, requestVars, previews, answered, stopping>>

Answer ==
  /\ worker.at = "answering"
  /\ worker' = Idle
  /\ previews' = Append(previews, [generation |-> worker.generation, path |-> worker.path])
  /\ answered' = worker.generation
  /\ UNCHANGED <<paneVars, requestVars, lost, stopping, moves>>

Exit ==
  /\ worker.at = "idle" /\ stopping
  /\ worker' = Exited
  /\ UNCHANGED <<paneVars, requestVars, previews, answered, lost, stopping, moves>>

Next ==
  \/ TogglePreview \/ HideOverlay \/ QualityChanges
  \/ \E file \in Files \cup {NoFile} : SelectResult(file) \/ Search(file) \/ ApplyResults(file)
  \/ LoadSelectedPreview \/ OnPreview \/ Stop
  \/ TakeRequest \/ Build \/ Answer \/ Exit

Spec == Init /\ [][Next]_vars

-----------------------------------------------------------------------------

(* "A preview still loading for the previous selection must not be shown    *)
(* under the new one": unless a query has just started over, the pane shows *)
(* the selected file or nothing.  And "a failed build must still answer":   *)
(* it is not left empty once what was asked for has been dealt with.        *)
PaneShowsSelection ==
  open /\ ~searching =>
    /\ result # NoFile => result = selected
    /\ asked # 0 /\ asked = generation /\ ~lost /\ ~stopping
         /\ pending = NoRequest /\ worker = Idle /\ previews = <<>>
       => result # NoFile

(* Previews are built in the order they were asked for and shown at most    *)
(* once, although generations pass without a request.                       *)
LatestPreview == INSTANCE LatestAnswer
  WITH newest <- generation,
       serving <- IF worker.at \in {"building", "answering"} THEN worker.generation ELSE 0
ImplementsLatestAnswer == LatestPreview!Spec
=============================================================================
