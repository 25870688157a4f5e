--------------------------- MODULE CaptureService ---------------------------
(***************************************************************************)
(* Screenshots and recordings: native/src/capture_service.cpp and the part *)
(* of the UI thread that uses it (main.cpp, screenshot_editor.hpp,         *)
(* ui_state.hpp).                                                          *)
(*                                                                         *)
(* The service runs one operation at a time on a worker of its own.  The   *)
(* UI thread starts, pauses and stops it and keeps a picture of its state, *)
(* which only the events in captureEvents_ bring up to date.  A change of  *)
(* state and the events that announce it are published under eventMutex_,  *)
(* but state_ is read without it.                                          *)
(*                                                                         *)
(* A selected region is data; choosing it in the editor is left out, so    *)
(* Selecting and Editing are one phase, and so are Saving and Copying.     *)
(* Shutdown calls Stop before it stops the thread's token, so the token    *)
(* says nothing that stopRequested_ does not.                              *)
(***************************************************************************)
EXTENDS Sequences, FiniteSetsExt, Naturals

CONSTANT MaxActs   \* bound on captures, pauses and failures

Screenshot == "Screenshot"
Recording  == "Recording"

VARIABLES
  state,           \* state_
  stopRequested,   \* stopRequested_
  operation,       \* context_.operation
  worker,          \* worker_: [at, ending], where ending is what it will say at its end
  announcing,      \* eventMutex_: [by, events], its holder and what that has still to emit
  captureEvents,   \* captureEvents_
  closed,          \* captureEvents_.Close
  editor,          \* screenshotEditor_.phase
  phase,           \* captureUiState_.phase
  call,            \* the call of the service the UI thread is in: [to, at]
  acts             \* how much of the bound is used

serviceVars == <<state, stopRequested, operation>>
uiVars      == <<editor, phase, call>>
vars == <<serviceVars, worker, announcing, captureEvents, closed, uiVars, acts>>

States == {"Idle", "PreparingScreenshot", "ScreenshotEditing", "StartingScreenshot",
           "StartingRecording", "Recording", "Paused", "Stopping"}
(* A Completed event with neither a file nor the clipboard is Canceled.     *)
Kinds  == {"Started", "ScreenshotReady", "ScreenshotOutputFailed", "Paused", "Resumed",
           "Stopping", "Completed", "Canceled", "Failed"}
Events == [operation : {Screenshot, Recording}, kind : Kinds]
Places == {"starting", "copying", "handing", "rendering", "returning", "settingUp", "going",
           "recording", "finalizing", "ending", "leaving", "gone"}

NoEvent == [operation |-> Screenshot, kind |-> "Canceled"]
Gone    == [at |-> "gone", ending |-> NoEvent]
Free    == [by |-> "nobody", events |-> <<>>]
NoCall  == [to |-> "none", at |-> "none"]

TypeOK ==
  /\ state \in States /\ stopRequested \in BOOLEAN /\ operation \in {Screenshot, Recording}
  /\ worker \in [at : Places, ending : Events]
  /\ announcing \in [by : {"nobody", "ui", "worker"}, events : Seq(Events)]
  /\ announcing.by = "nobody" <=> announcing.events = <<>>
  /\ captureEvents \in Seq(Events) /\ closed \in BOOLEAN
  /\ editor \in {"Idle", "Preparing", "Editing", "Saving"}
  /\ phase \in {"Idle", "SelectingRecording", "StartingRecording", "Recording", "Paused",
                "Stopping"}
  /\ call \in [to : {"none", "prepare", "finalize", "record", "shutdown"},
               at : {"none", "checking", "joining"}]
  /\ acts \in 0 .. MaxActs

NothingYet ==
  /\ state = "Idle" /\ stopRequested = FALSE /\ operation = Screenshot
  /\ worker = Gone /\ announcing = Free /\ captureEvents = <<>>
  /\ editor = "Idle" /\ phase = "Idle" /\ call = NoCall /\ acts = 0

Init   == NothingYet /\ closed = FALSE
Absent == NothingYet /\ closed = TRUE   \* a service that is not started

Acts     == acts < MaxActs /\ acts' = acts + 1
UiWaits  == ~closed /\ call = NoCall /\ announcing.by # "ui"   \* in its message loop
LockFree == announcing = Free                                  \* eventMutex_ can be taken

Event(op, kind) == [operation |-> op, kind |-> kind]
Announces(who, events) == announcing' = [by |-> who, events |-> events]

-----------------------------------------------------------------------------
(* The UI thread starts an operation: it checks the state, joins the worker *)
(* of the operation before, claims the service and starts the next worker.  *)
BeginScreenshotCapture ==
  /\ UiWaits /\ editor = "Idle" /\ phase = "Idle" /\ Acts
  /\ editor' = "Preparing" /\ call' = [to |-> "prepare", at |-> "checking"]
  /\ UNCHANGED <<serviceVars, worker, announcing, captureEvents, closed, phase>>

FinalizeScreenshot ==
  /\ UiWaits /\ editor = "Editing" /\ Acts
  /\ editor' = "Saving" /\ call' = [to |-> "finalize", at |-> "checking"]
  /\ UNCHANGED <<serviceVars, worker, announcing, captureEvents, closed, phase>>

BeginRecording ==   \* of the whole screen, or of a region that has yet to be selected
  /\ UiWaits /\ editor = "Idle" /\ phase = "Idle" /\ Acts
  /\ \/ phase' = "StartingRecording" /\ call' = [to |-> "record", at |-> "checking"]
     \/ phase' = "SelectingRecording" /\ UNCHANGED call
  /\ UNCHANGED <<serviceVars, worker, announcing, captureEvents, closed, editor>>

CompleteCaptureSelection ==   \* a region of the wrong size, or a canceled one, ends it
  /\ UiWaits /\ phase = "SelectingRecording"
  /\ \/ phase' = "StartingRecording" /\ call' = [to |-> "record", at |-> "checking"]
     \/ phase' = "Idle" /\ UNCHANGED call
  /\ UNCHANGED <<serviceVars, worker, announcing, captureEvents, closed, editor, acts>>

Expected == IF call.to = "finalize" THEN "ScreenshotEditing" ELSE "Idle"
Starting == [prepare |-> "PreparingScreenshot", finalize |-> "StartingScreenshot",
             record |-> "StartingRecording"]
FirstStep == [prepare |-> "starting", finalize |-> "rendering", record |-> "settingUp"]

Refused ==
  /\ call' = NoCall
  /\ CASE call.to = "prepare"  -> editor' = "Idle" /\ UNCHANGED phase
       [] call.to = "finalize" -> editor' = "Editing" /\ UNCHANGED phase
       [] call.to = "record"   -> phase' = "Idle" /\ UNCHANGED editor

(* The first step of StartWorker and FinalizeScreenshot.  Before it, the    *)
(* windows that must not be recorded may refuse to be excluded.             *)
CheckState ==
  /\ call.to \in DOMAIN Starting /\ call.at = "checking"
  /\ \/ /\ state = Expected
        /\ call' = [call EXCEPT !.at = "joining"]
        /\ UNCHANGED <<editor, phase, acts>>
     \/ state # Expected /\ Refused /\ UNCHANGED acts
     \/ call.to = "record" /\ Acts /\ Refused
  /\ UNCHANGED <<serviceVars, worker, announcing, captureEvents, closed>>

BeginOperation ==
  /\ call.to \in DOMAIN Starting /\ call.at = "joining" /\ worker = Gone
  /\ IF state = Expected
     THEN /\ state' = Starting[call.to]
          /\ stopRequested' = FALSE
          /\ operation' = IF call.to = "record" THEN Recording ELSE Screenshot
          /\ worker' = [Gone EXCEPT !.at = FirstStep[call.to]]
          /\ call' = NoCall
          /\ UNCHANGED <<editor, phase>>
     ELSE Refused /\ UNCHANGED <<serviceVars, worker>>
  /\ UNCHANGED <<announcing, captureEvents, closed, acts>>

-----------------------------------------------------------------------------
(* The UI thread changes a running operation.  It waits for eventMutex_.    *)
PauseBlindly == TRUE   \* mutant: the state is not compared
CanPause == state = "Recording"

Pause ==   \* the bar's button, while the UI thread takes the recording to run
  /\ UiWaits /\ LockFree /\ phase = "Recording" /\ Acts
  /\ CanPause
  /\ state' = "Paused" /\ Announces("ui", <<Event(operation, "Paused")>>)
  /\ UNCHANGED <<stopRequested, operation, worker, captureEvents, closed, uiVars>>

Resume ==
  /\ UiWaits /\ LockFree /\ phase = "Paused" /\ Acts
  /\ state = "Paused"
  /\ state' = "Recording" /\ Announces("ui", <<Event(operation, "Resumed")>>)
  /\ UNCHANGED <<stopRequested, operation, worker, captureEvents, closed, uiVars>>

Stop ==
  IF state \in {"Idle", "Stopping"} THEN UNCHANGED <<state, stopRequested, announcing>>
  ELSE IF state = "ScreenshotEditing"   \* no worker is there to complete it
  THEN /\ state' = "Idle" /\ UNCHANGED stopRequested
       /\ Announces("ui", <<Event(operation, "Stopping"), Event(Screenshot, "Canceled")>>)
  ELSE /\ state' = "Stopping" /\ stopRequested' = TRUE
       /\ Announces("ui", <<Event(operation, "Stopping")>>)

CancelScreenshotEditor ==   \* Escape, the search shortcut, a right click, suspend
  /\ UiWaits /\ LockFree /\ editor # "Idle"
  /\ CASE state = "ScreenshotEditing" ->
            state' = "Idle" /\ UNCHANGED <<stopRequested, announcing>>
       [] state \in {"PreparingScreenshot", "StartingScreenshot"} -> Stop
       [] OTHER -> UNCHANGED <<state, stopRequested, announcing>>
  /\ editor' = "Idle"
  /\ UNCHANGED <<operation, worker, captureEvents, closed, phase, call, acts>>

StopRecording ==
  /\ UiWaits /\ LockFree
  /\ phase \in {"StartingRecording", "Recording", "Paused", "Stopping"}
  /\ phase' = "Stopping"
  /\ Stop
  /\ UNCHANGED <<operation, worker, captureEvents, closed, editor, call, acts>>

Shutdown ==   \* stop, join, close
  /\ UiWaits /\ LockFree
  /\ Stop
  /\ call' = [to |-> "shutdown", at |-> "joining"]
  /\ UNCHANGED <<operation, worker, captureEvents, closed, editor, phase, acts>>

EndShutdown ==
  /\ call.to = "shutdown" /\ announcing.by # "ui" /\ worker = Gone
  /\ state' = "Idle" /\ call' = NoCall
  /\ closed' = TRUE /\ captureEvents' = <<>>
  /\ UNCHANGED <<stopRequested, operation, worker, announcing, editor, phase, acts>>

-----------------------------------------------------------------------------
(* The UI thread hears what happened.  Events carry no identity: a handler  *)
(* knows its capture by the phase the UI is in.                             *)
HandleScreenshotEvent(kind, at) ==
  CASE kind = "ScreenshotReady" /\ at = "Preparing"     -> "Editing"
    [] kind = "ScreenshotOutputFailed" /\ at = "Saving" -> "Editing"
    [] kind = "Canceled" /\ at = "Preparing"            -> "Idle"
    [] kind \in {"Completed", "Failed"}                 -> "Idle"
    [] OTHER                                            -> at

HandleRecordingEvent(kind, at) ==
  CASE kind = "Started" /\ at = "StartingRecording"         -> "Recording"
    [] kind = "Paused" /\ at = "Recording"                  -> "Paused"
    [] kind = "Resumed" /\ at = "Paused"                    -> "Recording"
    [] /\ kind = "Stopping"
       /\ at \in {"StartingRecording", "Recording", "Paused"} -> "Stopping"
    [] kind \in {"Completed", "Canceled"} /\ at = "Stopping" -> "Idle"
    [] kind = "Failed"                                      -> "Idle"
    [] OTHER                                                -> at

ReceivedBy(surface, event) ==
  IF event.operation = Screenshot
  THEN [surface EXCEPT !.editor = HandleScreenshotEvent(event.kind, @)]
  ELSE [surface EXCEPT !.phase = HandleRecordingEvent(event.kind, @)]

(* The surface once it has received the events, one after the other.        *)
After(surface, events) ==
  LET after[i \in 0 .. Len(events)] ==
        IF i = 0 THEN surface ELSE ReceivedBy(after[i - 1], events[i])
  IN after[Len(events)]

(* One turn takes the first Batch events; handling them calls no service.   *)
Batch == 8

HearEvents ==
  /\ UiWaits /\ captureEvents # <<>>
  /\ LET taken == SubSeq(captureEvents, 1, Min({Batch, Len(captureEvents)}))
         after == After([editor |-> editor, phase |-> phase], taken)
     IN editor' = after.editor /\ phase' = after.phase
  /\ captureEvents' = SubSeq(captureEvents, Batch + 1, Len(captureEvents))
  /\ UNCHANGED <<serviceVars, worker, announcing, closed, call, acts>>

(* Emit, and the release of eventMutex_ after the last event.               *)
Announce ==
  /\ announcing.by # "nobody"
  /\ captureEvents' = IF closed THEN captureEvents
                      ELSE Append(captureEvents, Head(announcing.events))
  /\ announcing' = IF Len(announcing.events) = 1 THEN Free
                   ELSE [announcing EXCEPT !.events = Tail(@)]
  /\ UNCHANGED <<serviceVars, worker, closed, uiVars, acts>>

-----------------------------------------------------------------------------
(* The worker.  It ends with Complete or Fail, or hands its screenshot to   *)
(* the editor.                                                              *)
Ends(kind)   == worker' = [at |-> "ending", ending |-> Event(operation, kind)]
Goes(place)  == worker' = [worker EXCEPT !.at = place]
Fails        == Acts /\ Ends("Failed")

WorkerOnly == UNCHANGED <<serviceVars, announcing, captureEvents, closed, uiVars>>
AtLock(place) == worker.at = place /\ LockFree

Regardless(expected) == TRUE   \* mutant: a stop that came first is overwritten
Unchanged(expected) == state = expected

(* TryTransition and the event that announces it, under eventMutex_.        *)
Transition(next, kind) ==
  /\ state' = next /\ Announces("worker", <<Event(operation, kind)>>)
  /\ UNCHANGED <<stopRequested, operation>>
NoTransition == UNCHANGED <<serviceVars, announcing>>

AnnounceStart ==   \* PrepareScreenshotWorker
  /\ AtLock("starting")
  /\ IF state = "PreparingScreenshot" THEN Transition(state, "Started") ELSE NoTransition
  /\ Goes("copying")
  /\ UNCHANGED <<captureEvents, closed, uiVars, acts>>

CopyDesktop ==
  /\ worker.at = "copying"
  /\ \/ stopRequested /\ Ends("Canceled") /\ UNCHANGED acts
     \/ ~stopRequested /\ Goes("handing") /\ UNCHANGED acts
     \/ Fails
  /\ WorkerOnly

HandOver ==
  /\ AtLock("handing")
  /\ IF Unchanged("PreparingScreenshot")
     THEN Transition("ScreenshotEditing", "ScreenshotReady") /\ Goes("leaving")
     ELSE NoTransition /\ Ends("Canceled")
  /\ UNCHANGED <<captureEvents, closed, uiVars, acts>>

RenderOutput ==   \* ScreenshotOutputWorker: a finished output counts, stopped or not
  /\ worker.at = "rendering"
  /\ \/ stopRequested /\ Ends("Canceled") /\ UNCHANGED acts
     \/ Ends("Completed") /\ UNCHANGED acts
     \/ Acts /\ IF stopRequested THEN Ends("Canceled") ELSE Goes("returning")
  /\ WorkerOnly

LeavesUncompleted == Goes("leaving")   \* mutant: nobody completes what was stopped
CompletesStopped  == Ends("Canceled")

ReturnToEditor ==
  /\ AtLock("returning")
  /\ IF Unchanged("StartingScreenshot")
     THEN Transition("ScreenshotEditing", "ScreenshotOutputFailed") /\ Goes("leaving")
     ELSE NoTransition /\ CompletesStopped
  /\ UNCHANGED <<captureEvents, closed, uiVars, acts>>

SetUpRecording ==   \* RecordingWorker up to the first frame and the file
  /\ worker.at = "settingUp"
  /\ \/ stopRequested /\ Ends("Canceled") /\ UNCHANGED acts
     \/ ~stopRequested /\ Goes("going") /\ UNCHANGED acts
     \/ Fails
  /\ WorkerOnly

StartFrames ==
  /\ AtLock("going")
  /\ IF Unchanged("StartingRecording")
     THEN Transition("Recording", "Started") /\ Goes("recording") /\ UNCHANGED acts
     ELSE NoTransition /\ (Fails \/ (Ends("Canceled") /\ UNCHANGED acts))
  /\ UNCHANGED <<captureEvents, closed, uiVars>>

WriteFrames ==   \* a frame begun before a pause or a stop may still fail
  /\ worker.at = "recording"
  /\ \/ stopRequested /\ Goes("finalizing") /\ state' = "Stopping" /\ UNCHANGED acts
     \/ Fails /\ UNCHANGED state
  /\ UNCHANGED <<stopRequested, operation, announcing, captureEvents, closed, uiVars>>

FinalizeRecording ==
  /\ worker.at = "finalizing"
  /\ Fails \/ (Ends("Completed") /\ UNCHANGED acts)
  /\ WorkerOnly

End ==   \* Complete and Fail
  /\ AtLock("ending")
  /\ Goes("leaving")
  /\ state' = "Idle" /\ Announces("worker", <<worker.ending>>)
  /\ UNCHANGED <<stopRequested, operation, captureEvents, closed, uiVars, acts>>

Leave ==
  /\ worker.at = "leaving" /\ announcing.by # "worker"
  /\ worker' = Gone
  /\ WorkerOnly /\ UNCHANGED acts

Ui ==
  \/ BeginScreenshotCapture \/ FinalizeScreenshot \/ BeginRecording
  \/ CompleteCaptureSelection \/ CheckState \/ BeginOperation
  \/ Pause \/ Resume \/ CancelScreenshotEditor \/ StopRecording
  \/ Shutdown \/ EndShutdown \/ HearEvents
Worker ==
  \/ AnnounceStart \/ CopyDesktop \/ HandOver \/ RenderOutput \/ ReturnToEditor
  \/ SetUpRecording \/ StartFrames \/ WriteFrames \/ FinalizeRecording \/ End \/ Leave

Next == Ui \/ Worker \/ Announce

(* The UI thread returns from its calls and comes to its events; the worker *)
(* and whoever holds eventMutex_ go on.  Nothing has to fail.               *)
Fairness ==
  /\ WF_vars((CheckState \/ BeginOperation \/ EndShutdown) /\ UNCHANGED acts) /\ WF_vars(HearEvents)
  /\ WF_vars(Announce) /\ WF_vars(Worker /\ UNCHANGED acts)

Spec == Init /\ [][Next]_vars /\ Fairness

-----------------------------------------------------------------------------

(* "Never announce Started after a racing Stop": an operation that was      *)
(* stopped does not come back to life, whatever its worker was about to do. *)
StopIsFinal == [][state = "Stopping" => state' \in {"Stopping", "Idle"}]_vars

(* The recording bar shows the state of the service once the UI thread has  *)
(* heard everything: it neither offers to stop what has ended nor leaves a  *)
(* running recording without a bar.                                         *)
BarFollowsRecording ==
  UiWaits /\ LockFree /\ captureEvents = <<>> =>
    phase = IF state \in {"StartingRecording", "Recording", "Paused"} THEN state
            ELSE IF state = "Stopping" /\ operation = Recording THEN "Stopping"
            ELSE IF phase = "SelectingRecording" THEN phase ELSE "Idle"

(* What was stopped ends, what the editor waits for comes, and the UI       *)
(* thread returns from the service: the captures of a user who starts no    *)
(* more of them come to rest.                                               *)
Settled ==
  /\ state # "Stopping" /\ call = NoCall
  /\ closed \/ (phase # "Stopping" /\ editor \notin {"Preparing", "Saving"})
CapturesEnd == []<>Settled

(* "The running capture belongs to someone else, so it is not cancelled":   *)
(* a capture that makes the service refuse another one has a worker, or an  *)
(* editor in which it can be finished or canceled.                          *)
RunningBelongsToSomeone == state # "Idle" => worker # Gone \/ editor # "Idle"
=============================================================================
