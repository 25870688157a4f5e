# FeatherCast: a TLA+ verification project

FeatherCast is a Windows launcher (`native/src`, C++20) with a companion phone app
(`android/`). One UI thread owns all visible state; everything slow runs on workers, and
every worker hands its results back through an event queue. This directory models the
coordination code: what is shared between threads, in which order it is touched, and what
must hold whatever the order. TLC checks the modules on small instances; TLAPS proves their
safety properties for every value of the constants.

Paths below are relative to `src/`; `native/src` is the C++ program.

## 1. Inventory

### Parts, state, operations

| Part | State | Operations | Module |
| --- | --- | --- | --- |
| `ui_event_queue.hpp` `UiEventQueue` | deque, `notifier_`, `notificationPending_`, `closed_`, one mutex | `Push`, `Drain`, `SetNotifier`, `Close` | `UiEventQueue` |
| `main.cpp` event pump | 15 queues, `runtimeEventNotificationPending_`, `WM_APP_EVENTS`, `stopThreads_` | `NotifyRuntimeEvents`, `OnRuntimeEvents`, `ShutdownBackgroundWorkers` | `RuntimeEvents` |
| `background_executor.hpp` `Executor` | shared `State` (tasks, stopping, drain, stop source, joined), `state_`, `retiring_`, jthreads | `Start`, `Submit`, `Shutdown`, `WorkerLoop` | `Executor`, `TaskPool` |
| `persistence_service.cpp` | a one-worker executor, `pendingSettings_`, `settingsSaveScheduled_`, the deferrable token, settings.json, the database | `SaveSettings`, `SettingsSaveLoop`, writes, `MergeFileIndex`, `Stop` | `Persistence` |
| `search_coordinator.cpp`, `interaction_state.hpp`, the search part of `main.cpp` | `pending_` and `latest…` of two workers, the request/completed/displayed generations, the data, snapshot and scheduled revisions, the rendered results | `RequestSearch`, `ScheduleSnapshotBuild`, `ApplyResults`, `OnSnapshotReady`, `ShowOverlay`, hiding, `UpdateBackgroundState` | `SearchPresentation` |
| `phone_service.cpp`: pairing and connections | `sessions_`, `active_`, `devices_`, the invite, the slots of unauthenticated connections, phone-link.dat | `AcceptLoop`, `HandleConnection`, `HandlePlainFrame`, `SaveState`, `Forget`, `Start`, `Stop` | `PhoneSessions` |
| `phone_service.cpp` `Session` | `outgoing` with `outgoingBytes`, `sendFailed`, `sendCounter`, the writer and its stop, the promises of waiting senders | `Open`, `Enqueue`, `WriteLoop`, `Close`, the destructor | `SessionWriter` |
| `phone_service.cpp` requests | the tables of pending photo and storage requests, their deadlines; the launcher's spinners | `RequestPhoto`, `RequestStorage`, answers, the sweep, cancelling, the end of a connection | `PhoneDownloads` |
| `phone_service.cpp` and `main.cpp`: files sent to the phone | transfers, workers, receipts; the launcher's queue | `CanSendFile`, `SendFile`, receipts, cancelling, `OnPhoneFileDelivered` | `PhoneSends` |
| screen sharing: `phone_service.cpp`, `phone_screen_ui.cpp`, `phone_screen_playback.cpp` | the screen session with key and deadline, the media connection, inputs, the window | `StartScreen`, `StopScreen`, screen.state, media attach, input, `Begin`, `End` | `PhoneScreen` |
| `file_index_service.cpp` | mutex with pending rebuild, retries, pause, watchers, content records | `Start`, `Stop`, `Pause`, `Reconfigure`, `Rebuild`, watchers, `WorkerLoop` | `FileIndexWorker` |
| `file_search_service.cpp` and the demand-loaded index of `main.cpp` | pending query, two kinds of pending corpus, generations; load, merge, projection | `Query`, `UpdateFilesAsync`, `UpdateStorageFilesAsync`, `Invalidate`, `Stop`; loading, releasing | `FileSearch`, `LatestAnswer` |
| `discovery_service.cpp`, the app catalog of `main.cpp` | pending request, retries, the cached catalog | `Refresh`, `Stop`, `WorkerLoop`, `PerformDiscovery` | `AppDiscovery` |
| `preview_service.cpp`, the preview pane | pending preview, generation, the pane, its timer, the quality tier | `Load`, `Invalidate`, `Stop`; selection, hiding | `Previews`, `LatestAnswer` |
| `capture_service.cpp`, the capture editor and the recording bar of `main.cpp` | `state_`, `stopRequested_`, the worker, `eventMutex_`; the editor's and the bar's phase | `PrepareScreenshot`, `FinalizeScreenshot`, `CancelScreenshot`, `StartRecording`, `Pause`, `Resume`, `Stop`, `Shutdown`; capture events | `CaptureService` |
| `extension_manager.hpp`, `plugin_host.cpp`, their use in `main.cpp` | a plugin's process, pipes, `ioMutex`, strikes, `available`; `plugins_`; the result cache, pending and running query with generations; the launch executor's tasks | `Exchange`, `QueryPlugins`, `Reload`, `Activate`, `Shutdown`; `RequestQuery`, `CancelQuery`; `StartExtensionReload`, `ActivateExtension` | `PluginHosts`, `PluginQueries` |
| `storage.hpp`, `settings.hpp`, `search_pipeline.cpp`, the UI, the Android app, `third_party` | | | not modelled (section 7) |

### How the parts interact

* The UI thread calls a service (a short critical section, then it returns); the service's
  worker does the work outside its lock and pushes an event into a `UiEventQueue`.
* Every queue's notifier is `NotifyRuntimeEvents`, which posts one `WM_APP_EVENTS` for all
  queues; `OnRuntimeEvents` drains them in order within a budget.
* `Executor` is used by the persistence service (one worker) and others; `Persistence`
  relies on exactly what `TaskPool` states.
* Shutdown runs on the UI thread: it sets `stopThreads_`, closes queues, stops services one
  after the other, and ends with `persistence_.Stop(true)`.
* The phone service has a thread per connection, a writer thread per session and a timer,
  all sharing `mutex_`; the disk is written outside it.
* A search reads the plugins' result cache and leaves its query to their query thread; when
  the answer is in the cache a window message makes the launcher search again. Reloads and
  activations are tasks of the launch executor and meet the queries at a plugin's `ioMutex`.

### What is hard

Callbacks made after an unlock; flags set in one critical section and cleared in another;
requests superseded while a worker is past its last check; one message shared by many
queues; a shutdown that races work still being accepted; several threads writing one file;
connections replaced, forgotten or stopped while they are half way through a handshake;
failed posts, failed saves, exceptions; answers that outlive the request, the window or the
connection they belong to; message boxes that run a loop of their own inside a handler.
`PROJECT.json` lists the hazards at their lines,
with the properties that catch them.

## 2. Modules

**UiEventQueue.** One queue, the threads that push and the UI thread that drains, installs
and removes the notifier and closes. `calling` holds the threads that decided under the
lock to call the notifier and have not called it yet; `woken` says the UI has been told.
Events are counted, not told apart.

**RuntimeEvents.** Several such queues behind one message. `notifying[t]` is a thread's
place in `NotifyRuntimeEvents` (between the exchange, the post and the reset after a failed
post), `turn` the UI thread's place in `OnRuntimeEvents`: removing the message, clearing
the flag, draining queue after queue within the budget, counting what is left. A handler of
the last queue may show a message box (`ShowBox`); `outer` holds the turns that wait for
one while its loop takes the next message. Shutdown closes the queues one by one.

**TaskPool, Executor.** `TaskPool` is the abstract promise: tasks begin in the order
accepted, at most once; a drain runs them all; a cancel, also a later one, discards what
has not begun. `Executor` is the code at the granularity of its critical sections:
`Submit` reads `state_` and queues under two different mutexes, workers sleep on the
condition variable, `Shutdown` may be called by any thread, tasks included, once each.
`Executor` maps its state to `TaskPool`'s (`Status`, `Mode`) and implements it.

**Persistence.** The UI thread's calls against the one worker. `SaveSettings` and
`SubmitSave` are the two halves of one call (the flag under the lock, the submission after
it); `TakeSettings`, `SaveDone`/`SaveThrows` and `LookForMore` are the regions of
`SettingsSaveLoop`. A save succeeds, fails, or throws before or after the file was
replaced. The merge is its four steps between the questions whether to go on. `Stop` is
modelled in its steps because the worker runs between them.

**SearchPresentation.** The UI thread, the search worker and the snapshot worker. A request
carries the generation, the text and the revision of the snapshot it is computed from; the
records `search` and `build` are a coordinator's `pending_`, its latest key and its
worker. `turn` is one `OnRuntimeEvents`, at whose end the latest results are applied.

**PhoneSessions.** One record per connection with the place of its thread; a region under
`mutex_` is one step, the file is written between two of them. Link keys are named by the
invite they are derived from. A stop, a crash and a second start are included. The peers do
anything the protocol lets them, and leave at any time. Between two steps `mutex_` is free
(`MutexFree`), with one exception: after a save that failed, the worker that takes the pairing
back locks `mutex_` while it holds it (`relocking`). What that does is undefined; in the model
the worker stays there and no step under the lock is taken any more, or the process ends
(`Crash`).

**SessionWriter.** One session, any number of senders and its writer thread. A message is its
place in the order in which `Enqueue` accepted them; `outgoing` holds those not taken yet,
`promise` what was said of each. `pc[t]` is a thread's place: a sender that waits sleeps for
room first and then waits for its promise (`awaited`). The writer numbers a frame under the
lock (`item`) and writes it after the unlock; either may fail. `Close` takes the queue away
under the lock and settles the promises (`dropped`) after it; `Close` and the destructor are
the two ways the session ends. A `notify_all` is a step of its own.

**PhoneDownloads, PhoneSends.** What the launcher asks a phone for, and what it sends it,
each from the click to the spinner's end. In `PhoneDownloads` a request is in the launcher's
tables, in the service's, on the wire or answered; timeouts, cancellation, the end of the
connection and a repeated request for the same name may each find it anywhere. In
`PhoneSends` a file is in the launcher's queue, at a worker, waits for the phone's receipt,
or has a result on its way; the slot is counted by the service, the worker list is shared
with the connections.

**PhoneScreen.** A screen session on one or more connections of a phone, with the second
connection that carries the pictures, the inputs that go back, and the window that follows
the reports. Each region under `mutex_` is a step; what is called after the unlock (the stop
message, the end report) is a step of its own.

**FileSearch, AppDiscovery, Previews.** Three services with one worker and the launcher that
asks them. `FileSearch` also has the demand-loaded index (load, merge, projection, release)
with its generations; `AppDiscovery` the retries with their delays, the cached catalog and
the status line; `Previews` the pane that follows the selection, its timer and the quality
tier. **LatestAnswer** is the abstract service: requests have rising numbers, answers come in
that order, a cancelled or superseded request may be skipped. `FileSearch` and `Previews`
implement it.

**CaptureService.** One operation at a time on a worker of its own, and the UI thread that
starts, pauses and stops it and draws its editor and its bar from the events. A change of
state is published with its events under `eventMutex_`: `announcing` is its holder and what
that has still to emit. `call` is the UI thread's place between the check of the state, the
join of the worker before and the claim of the service. `worker.ending` is what a worker will
say at its end.

**PluginHosts.** A plugin is an object that a reload replaces: `[id, load]`. `exchange[t]` is
a thread's place in `Exchange` (waiting for `ioMutex`, starting the host, waiting for its ready
line, peeking, writing, reading), `host[o]` the object's process with the requests and the
lines in its two pipes; an answer is the number of its request. The host may answer, stay
silent or die at any time. The query thread's threads and the workers of the launch executor
are the callers; `task[l]` is a worker's place in a reload or an activation, and any task may
throw. **PluginQueries** is the other half, between a search and the cache: the two looks at
the cache, the query that runs and the one that waits, their generations, and the message that
makes the launcher search again. What it leaves out, how long a query takes and what it finds,
is what `PluginHosts` shows to end.

**FileIndexWorker.** The UI's calls, the index worker and one watcher thread per root.
`Configure` and `Reconfigure` are the two writes of one call (the generation before the
lock, the request under it), `BeginStop`, `StopWatchers` and `Join` the steps of `Stop`.
The worker's record holds the locals of one pass: `Take` copies the flags under the lock,
then it probes, restarts the watchers, crawls root by root, asks once more whether the
request is current, delivers and records the outcome. A root's content is the number of
changes made to it; a change is kept for a watcher once its first read is under way
(`Arm`). Delays of any length are one flag, `due`. The worker's delay loop and its passes
without a request change nothing and have no action.

Within a pass the content records of what was delivered last are kept root by root, with the
epoch that forgets them.

The modules `MC…` give the constants that a configuration cannot write. Seven of them check
several small systems in one run, *next to each other*: an initial state starts one of them
while the others are over, so that the runs stay separate questions to the same model checker,
and the states add up instead of multiplying. `MCUiEvents`: `UiEventQueue`, `RuntimeEvents`,
`CaptureService`, `PluginHosts` (for liveness, one task and one request). `MCSearch`:
`SearchPresentation`, `PluginQueries`, `PluginHosts`. `MCBackgroundTasks`: `Executor`,
`Persistence`. `MCPhoneSessions`: `PhoneSessions`, `PhoneScreen` (twice). `MCPhoneThreads`:
`SessionWriter` and `PhoneSessions` (for its Stop). `MCPhoneTransfers`: `PhoneDownloads`,
`PhoneSends`. `MCLauncherWorkers`: `FileSearch`, `AppDiscovery`, `Previews`. Every run's
configuration is named in `PROJECT.json`. The modules `…Proofs` hold the theorems about them
(section 5).

## 3. Runs

| Run | Configuration | What it shows |
| --- | --- | --- |
| `ui_events` | two pushers, batches 0, 1, 3, five pushes; next to it two services, three queues, budget 2, one failed post, one message box; next to it captures with four acts of the user or failures; next to it a plugin with one task and one request | no event is stranded, one message serves all queues, events reach the UI also while a box is open; a stop is final, the bar follows the recording, captures end; a plugin cannot keep the launcher from closing |
| `background_tasks` | two workers, two outside threads, two tasks; next to it three saves, a write, a merge, two starts | no wake-up is lost, nobody waits for a thread that waits itself, shutdowns return, with no accepted task left; the pool implements `TaskPool`; a draining stop leaves nothing unwritten and nothing partial; "All changes saved." is true at rest |
| `search` | one edit, two data revisions, two showings, two texts; next to it four acts of the user and a reload against the result cache; next to it one plugin, two reloads or activations, another task, two requests, two launch workers | what may be activated answers the last search; at rest the overlay shows it over current data, with what the plugins answered; no host process is left behind, no answer is taken for another's |
| `search_stale` | the same search | **violated**, see section 6 |
| `phone_sessions` | two connections, two phones, two addresses with one slot each, two invites, two starts; next to it a screen session with one connection and two media connections, and with two connections and one | single use, durability, unpairing, one phone and one viewer at a time, slots within their limits and returned once; every screen session ends at both sides, and a stop cuts every connection |
| `phone_threads` | two senders, a queue of two messages or three bytes; next to it two connections, one phone and a stop | the wire is in order, senders are told the truth, no wake-up is lost, nobody waits for a thread that waits itself, everybody returns (but for `Stop` after a failed save, section 6) |
| `phone_transfers` | two requests for one name over two connections; next to it two files for one slot | no spinner without an end in sight, one result per file, everything settles |
| `file_index` | one root that changes, goes or comes once; three generations, a rebuild, a stop; one retry of each kind | nothing partial is delivered, records describe the index, watched changes reach it, requests are served |
| `file_index_unwatched` | one root, one change | **violated**, see section 6 |
| `launcher_workers` | three acts of the user against each of the services; two attempts, two files, four moves of the selection | results follow the corpus, the catalog and the pane are current at rest, answers are of the latest request, no waiting without end |
| `file_search_emptied` | the same file search | **violated**, see section 6 |
| `capture_orphaned` | the same captures | **violated**, see section 6 |

Bounds. Every bound is a constant or a guard named in its module (`MaxPushes`,
`MaxFailures`, `MaxBoxes`, `MaxTasks`, `MaxSaves`, `MaxWrites`, `MaxMerges`, `MaxStarts`,
`MaxTyped`, `MaxData`, `MaxShows`, `MaxInvites`, `MaxMessages`, `MaxConns`, `MaxAnswers`,
`MaxRequests`, `MaxOthers`, `MaxSessions`, `MaxLinks`, `MaxMedia`, `MaxStatuses`,
`MaxCommands`, `MaxInputs`, `MaxGenerations`, `MaxRebuilds`, `MaxStops`, `MaxChanges`,
`MaxFlips`, `MaxActs`, `MaxAttempts`, `MaxMoves`, `MaxSearches`, `MaxReloads`). `MaxQueuedMessages`,
`MaxQueuedBytes`, `MaxConcurrent`, `MaxWorkers`, `MaxPending` and `MaxPerAddress` are limits
of the code at small values. They are chosen so that each race has its parties and a spare:
two pushers and a UI thread for a queue; a budget of one queue's cap, so that queues are
skipped; two outside callers of `Shutdown` and two workers, so that an owner, a waiter and a
worker calling from a task meet; three settings versions, so that one is being written, one
waits and one is asked for; two data revisions and two showings, which is what an outdated
snapshot takes; two connections of one phone for a replacement, and a second phone and invite
for overlapping saves; messages of sizes 1 and 2 against three bytes, so that either limit of
the queue is reached first; two files for one slot, so that one waits while the other's end is
reported; three acts of the user, which take a window through opening, hiding and opening
again; two tasks and another one, so that two reloads overlap, each with a query and its own
objects; three generations of the file index, for a crawl cut short by a pause and followed by a
new request. The file index is checked with one root: what relates two roots (a probe for one
while the other changes) is covered by the proofs, which hold for any set of roots. Symmetry
is used only in runs without liveness properties. Deadlock is not checked where the system
really may stop: after its bounded input it is idle.

Fairness. Workers, threads inside a call and the message loop keep running (weak fairness of
their own steps), timers fire and deadlines pass, writes to a socket end, in success or not.
Nobody has to push, call, type, pair, stop or close a message box. In `PhoneSessions` the read
loop of a connection that is closed or past its handshake deadline must end, even though
buffered frames may be handled first, hence strong fairness of that one step; a peer owes
nothing. In `PhoneSends` a phone that stays connected announces itself with a status and answers
a file it received whole. In `FileIndexWorker` time passes; watches need not fail, and files
need not change. In `CaptureService` the holder of `eventMutex_` goes on, a worker takes its
steps and the UI thread returns from its calls and comes to its events; nothing has to fail. In
`PluginHosts` the launcher's threads go on and a host owes nothing: the deadline of a read is
what ends it, and a write is taken to fit the pipe. `PhoneScreen` has no fairness: its invariant `EndsEverywhere` says in every state
that an end is in sight.

## 4. Properties

Each property has its statement above its definition. The ones to know, by run:

* `ui_events`: `NoStrandedEvents` (a queue with events and a notifier has a wake-up delivered
  or owed), `OneMessageSuffices` (one message outstanding, exactly while the flag is set, and
  no queue forgotten); `StopIsFinal`, `BarFollowsRecording`; `WaitingEnds` (events are served,
  captures end, the shutdown gets past the plugins).
* `background_tasks`: `NeverStuck` (no worker sleeps on a task or a stop it is not about to be
  woken for, and as long as anything is to be done some thread can go on), `StopLeavesWhole`
  (of a pool neither workers nor tasks, on disk what was accepted before a draining stop, no
  partial merge), `SavedIsTrueAtRest`; `ShutdownsReturn`, `ImplementsTaskPool`. Those about
  settings except a save that has thrown since the last `Start` (`DrainIsDurable` is the form
  without the exception, section 6).
* `search`: `ActivatesTheCurrent`, `ShownAtRest` (the last search over current data, with the
  plugins' answer), `HostsBelong`, `AnswersOwnRequest`. `ShownAtRest` excepts a search whose
  answer was stored between its two looks at the cache, `HostsBelong` what a second reload
  overwrote after a task threw: both are in section 6.
* `phone_sessions`: `SingleUse`, `ConfirmedIsDurable`, `ForgottenIsGone` (stays forgotten, is
  cut off), `LimitsHold` (one phone, one viewer, the slots of unauthenticated connections
  counted exactly and within both limits), `EndsEverywhere` (screen sessions at both sides;
  and while `Stop` joins the workers, every registered connection is cut).
* `phone_threads`: `WireInOrder`, `ToldTheTruth`, `NeverStuck` (nobody sleeps through the room,
  the message or the end it waits for, and not all of them wait), `EveryoneReturns`, which
  excepts `Stop` while a worker waits for itself after a failed save (section 6).
* `phone_transfers`: `EachEndsOnce` (no spinner without an end in sight, one result per file),
  `TransfersSettle`.
* `file_index`: `DeliveredIsComplete`, `RecordsDescribeIndex`, `WatchedIsIndexed`,
  `RequestsAreServed`. Those about the index at rest except a pass that threw, until the
  watchers are restarted: the code schedules nothing after it. A root that is missing while
  the watchers are restarted and back when it is crawled stays unwatched, and a worker
  overtaken by `Stop` may start watchers that run until the next restart; the model has both
  behaviours and no property forbids them.
* `launcher_workers`: `ShownIsCurrent` (results follow the corpus, the catalog is current, the
  pane shows the selection), `AnswersAreLatest`, `WaitingEnds`.

Every property of a passing run has a mutant: an operator just before the definition it
replaces, marked `\* mutant:`, with which TLC finds the property violated.

## 5. Proofs

Every safety invariant and every action property that a passing run checks is also a theorem
for all values of the constants, and so is the safety part of each refinement. The theorems
assume only what the modules assume of their constants (`ASSUME …`: that a bound is a natural
number, that the UI thread is no producer, that a null value is no value, that a limit of the
code is at least one), which TLC evaluates for the instances it checks. Systems that are
checked next to each other are proved next to each other: a step of one leaves the variables
of the others alone, so each has an inductive invariant of its own.

Each invariant was checked by TLC on the small instance before it was proved. What it adds to
the property is what a thread between two critical sections has already decided, and who has
to act on it; one lemma takes one of its conjuncts through all actions.

* **`UiEventsProofs`** (`NothingStranded`, `CloseIsFinal`, `OneMessageWakesAll`,
  `BarShowsTheRecording`, `StoppedStaysStopped`, `TypesAreKept`).
  A queue (`QueueInv`): a pending notification is a wake-up delivered, or owed by a thread in
  `calling`. All queues (`PumpInv`): the shared flag has at most one holder, a message, a
  thread posting one, or the handler before it clears the flag, and a thread that finds the
  flag set may leave because of it. A queue's own flag says that it holds events, so whoever
  keeps quiet about a push was preceded by somebody who did not. Within a turn every queue
  already passed is announced as long as there was budget left when it was passed, and the
  last queue, whose handler may show a message box, is only handled if there was.
  Captures (`CaptureInv`): what the bar shows, followed by the events still on their way to it,
  is what the service is in (`Agrees`). For that the worker must fit the service (`WorkerFits`:
  a worker that was stopped has a service that says Stopping), the end of a recording must be
  the last thing waiting that is said of it, and a recording that runs has no end on its way.
  `StopRecording` puts the bar ahead of its events, which the proof meets by showing that a
  bar that says Stopping stays there until an end comes.
* **`BackgroundTasksProofs`** (`NobodyIsStuck`, `ImplementsPoolSafely`, `NothingAcceptedIsLost`,
  `SavedIsTrue`, `TypesAreKept`). The pool: only the owner of a shutdown marks the join, and
  only after every worker but itself has exited; a worker never gets past `waking` unless it is
  the owner. An accepted task is queued, running, finished or discarded, and in one of these
  only, and a worker leaves only an empty queue that nothing can be added to any more
  (`TasksInv`), so a join leaves none. While workers sleep there is a thread about to notify, or
  one that looks, for every queued task (`NoWakeUpLost` is inductive with `ShutdownKnown`). Once
  a shutdown has begun, a worker only sleeps with a `notify_all` to come; so if nobody could go
  on, every worker but the owner would be gone, the owner would find them gone, and the others
  would find the join done. Every step maps to a step of `TaskPool` or to none. Persistence: the
  scheduled flag has one save task, from the call that set it to the task's last look; cut text
  is only held while the token that cut it is stopped, and `Start`, which clears the token,
  finds an idle worker; the settings owed are in the file, reported as failed, pending or being
  written, unless a save threw, and the last result on its way to the UI thread is theirs.
* **`PhoneSessionsProofs`** (`CodesAreUsedOnce`, `ToldIsDurable`, `UnpairingIsFinal`,
  `OneOfEach`, `EndsAreHeard`, `TypeCorrect`). Pairing: a connection's slot goes with the place
  of its thread; a token that has not been shown is nowhere; one thread saves at a time, and
  what it saves is the table as it was when it began, so a key that was told is in the table and
  in whatever is being written; a forgotten key is in no snapshot, and a session that
  authenticated with it is cut or knows that it has to go. What `Stop` has cut stays cut, and a
  thread that has not registered by then finds the service stopped, under the same lock. Screen
  sharing: a key that may still be presented has served nobody; a session number is nobody's
  before `StartScreen` gives it out; a thread reports one thing before it takes up the next; and
  the end of a session is on its way to its window, or to a window that has yet to be opened for
  it, or the session is orphaned as section 6 describes.
* **`SessionWriterProofs`** (`WireIsInOrder`, `CallersAreToldTheTruth`, `NobodyIsStuck`,
  `TypeCorrect`). A message's number is its place in the queue plus those taken out before it,
  so the queue holds the numbers that follow those taken, the frame being written is the last
  taken, and the counter of the session counts the frames taken; after a failed write the writer
  takes no other. A promise is answered by whoever has the message in hand, and told "sent" only
  by the writer past its write. The byte count is the sum over the queue. A promise without an
  answer has its message in the queue, in the writer's hand, or with a thread that is about to
  fail it (`UnsetIsUnderway`), and whoever sleeps although it need not has a `notify_all` to
  come (`MoveInv`). Were all threads waiting, none would be about to notify, so a sender that
  waits would have a message in the queue of a session that has not failed, which the writer
  would not sleep on; and the last owner, which waits for the writer, has closed the session,
  which it would not sleep through.
* **`PhoneTransfersProofs`** (`WhatIsAskedEndsOnce`, `TransfersAreWellTyped`).
  A request that is taken out of the pending tables leaves the event that ends it with the
  thread that took it, and such an event is only passed on: to the worker's list, the queue,
  the launcher. Of a file that is sent, one may say how it ended, whichever of the transfer's
  worker and the connection's takes its receipt out of the set; a session's slots are those of
  the workers that run on it.
* **`SearchProofs`** (`OnlyTheCurrentActivates`, `RestShowsWhatThereIs`, `ProcessesBelong`,
  `AnswersAreToTheRequest`, `SearchIsWellTyped`).
  The launcher (`PresentationInv`): no displayed generation is ahead of the requests; an
  overlay that waits has a request nobody will drop, and results of older data have a snapshot
  being built that will ask again, because a worker drops a job only when it is not the latest.
  Queries (`AskedInv`): a text without results has its query on its way. Hosts (`HostInv`): an
  exchange is the business of whoever holds `ioMutex`, so the pipes hold nothing but what that
  thread wrote and its answer; only objects that are listed, or that a reload is about to
  stop, can be given a process.
* **`FileIndexWorkerProofs`** (`NeverSpins`, `ProbesSwallowNothing`, `OnlyCompleteCrawls`,
  `RecordsAreDelivered`, `RestIsUpToDate`, `IndexIsWellTyped`).
  A pause and a stop withdraw the request together with what was pending, so what is pending
  has a request. A crawl that a pause has cut short could be delivered if the pause ended
  before the check; it is outdated by then, because `Reconfigure` stores the new generation
  before it clears `paused_`. The invariant therefore orders the generations of the UI, the
  service, the request and the worker. `WatchInv` adds what a change that was watched has left
  behind: a pass that is asked for, a read that the running pass has still to make, or a
  restart of the watchers that will ask for one.
* **`LauncherWorkersProofs`** (`WhatIsShownIsCurrent`, `LatestIsAnswered`, `TypesAreKept`).
  Generations are ordered: answered, being computed, waiting, current. What is of the current
  one is of the selected file, or of the overlay's query, and what was asked for in it waits,
  is computed, is answered or is shown, unless something that replaces it is on its way and
  will make the launcher ask again. `FileSearch` and `Previews` so implement `LatestAnswer`.

Induction. What the bar will show is a recursion over a queue of any length. The library's
induction theorems take an operator as a parameter and cannot be instantiated here, so
`UiEventsProofs` uses the well-founded order of the naturals in its set form instead: a set of
naturals that is not empty has a least element (`LeastExists`). From it follow that `After` is
the end of a path through the surfaces (`PathExists`, `AfterIsThePathsEnd`), what one more event
adds (`AfterOneMore`), that a queue may be heard in two parts (`AfterTheRest`), and that what no
event leaves is not left (`AfterStaysIn`). The sum of the bytes in a session's queue is treated
in `SessionWriterProofs` without recursion, as a function on the places of the queue.

Only model-checked: everything about liveness, whose proofs need ENABLED, which the prover
cannot handle (`WaitingEnds`, `ShutdownsReturn`, `EveryoneReturns`, `TransfersSettle`,
`RequestsAreServed`), and with it the fairness part of `ImplementsTaskPool`. What can be said of
it in one state is proved: no event is stranded, no wake-up lost, no promise forgotten, the
pool's threads and a session's never all wait, a stop cuts whom it waits for. Of what the runs
that expect a violation refute nothing is proved, of course.

## 6. Findings

* `search_stale`: `ApplyResults` stamps results with the data revision of the moment, so
  results of an older snapshot pass the check in `ShowOverlay` and are shown again.
* `file_search_emptied`: an empty corpus handed over when the last window closes is published
  after the index that a quick reopen has loaded in between, so Files searches find nothing
  until the index changes.
* `file_index_unwatched`: the crawl starts without waiting for the watcher threads' first
  read, so a change made in between may be in neither, although the comment in
  `Reconfigure` says that watching first retains the changes made during the crawl.

* `capture_orphaned`: capture events carry no identity, so the end of a screenshot canceled with
  Escape resets the editor of the next one begun before that end is heard; the service then
  waits in `ScreenshotEditing` for an editor that is gone, and every later capture is refused.

Met while modelling, and not the subject of a run; the models have these behaviours unless a
line says otherwise:

* An exception from a save leaves `settingsSaveScheduled_` set with no task
  (`persistence_service.cpp:321`), so later saves are accepted and never written, not even by a
  draining `Stop`, which resets the flag: after the next `Start` settings are kept again.
  `Persistence!DrainIsDurable` is false in such a behaviour, and `DrainKeepsAccepted` excepts it.
* A late `ScreenshotReady` of a canceled screenshot may show its picture under the next one.
* `fileIndexProjectionGeneration_` takes values of two counters (`main.cpp:9098`, `11279`,
  `4478`, by way of `4788` and `4799`), so a projection of an earlier session may be accepted
  after the last window closed. Disabling the index (`19949`-`19961`) leaves a projection or
  merge under way and the service's corpus as they are. A search that throws posts only
  `WM_BACKGROUND_TASK_ERROR`, no answer.
* `WM_BACKGROUND_TASK_ERROR` of any task clears `extensionReloadPending_` (`main.cpp:4332`), so
  two reloads can overlap although `main.cpp:19639`-`19640` says "never run two reloads at once";
  the plugins the later one overwrites are forgotten with their processes, which run until
  the launcher exits. An activation that throws leaves
  `extensionActivationPending_` set (`20326`), and later activations are ignored.
* A query stores its results between `CachedResultsFor` (`main.cpp:10577`) and the look of
  `RequestQuery` (`extension_manager.hpp:128`); if it is no longer the newest, nobody tells the
  launcher, which shows none of them until the next search. A query that fails or times out
  caches an empty list, and one that runs across a reload stores old results after the cache
  was cleared.
* In the Critical tier `LoadSelectedPreview` skips the load and nothing asks again when the
  quality recovers (`15180` precedes `15196`); the pane keeps saying "Loading preview...".
* `WM_DISCOVERY_FAILED` carries no generation, and a cached catalog is dropped if a newer
  request precedes its drain.
* `Disconnected` may be emitted after the `Connected` of the phone's next connection
  (`phone_service.cpp:1459`), and the launcher then shows a connected phone as offline
  (`phone_store.hpp:102`). A repeated request whose `Send` fails erases the deadline of the
  earlier one. A file that is refused leaves the launcher's queue without a result event,
  although `phone_service.hpp:215`-`216` promises one.
* A screen session that ends between the return of `StartScreen` and the window's `Begin`
  leaves the window waiting until the user presses Stop; screen.state "stopped" of an older
  session stops a newer one without a word (`phone_service.cpp:1730`).
* When a pairing cannot be saved, the worker takes it back under `mutex_`
  (`phone_service.cpp:1543`) and calls `reject` before the lock is given back; `reject` locks
  the same `std::mutex` (`1480`, `phone_service.hpp:281`), which is undefined. The worker waits
  for itself with the lock held, and with it `Forget`, `Stop` and every other connection, or the
  library throws and the process ends. The phone is told nothing and its slot is not given back,
  although the comment at `1479` says: "The connection ends here, so a client that retries at
  once finds its slot free." `PhoneSessions!RejectionReturns` states that comment and is false;
  `StopReturns` excepts what follows. The safety properties hold on that path too: the pairing
  is erased first, and nothing was confirmed.
* A failed save of a re-pairing (`phone_service.cpp:1542`) does not restore the pairing it
  replaced, and does not close a session that authenticated with the new key in between.
* The write of a request to a plugin (`extension_manager.hpp:593`) has no deadline, unlike the
  read of its answer: a host that does not read, and a request longer than its pipe's buffer,
  keep `ioMutex`, and the shutdown waits for it. Not in the model, in which requests fit the
  pipe; what `WaitingEnds` shows of plugins is about their answers.

## 7. Not modelled

* Of the extensions: manifests, permissions, JSON, ranking, and what Windows does for the host
  process (job limits, handles).
* Small sequential machines on one thread: the performance governor, hotkey tables, the
  keyboard hook of the input broker; unit tests reach what they do. Of the governor the models
  keep what others depend on: that the quality tier may change at any time (`Previews`).
* Background services other than those above: `SingleOperationService` and `IconResolver`
  repeat the pattern of `LatestAnswer`; `TimerService` hands a deadline to Windows and back.
* Updater and network client: one sequential task on a worker; its checks are of signatures.
* Storage: SQLite's transactions, taken as atomic. Settings and game discovery: parsing and
  reading, no shared state.
* Pure functions over text and scores (search pipeline, calculator, color, emoji): out of TLC's
  reach in any faithful form.
* Window procedures, layout, painting, accessibility, the capture editor's gestures.
* The Android app beyond what a peer may send, and vendored code.

Memory-model effects are not modelled either: mutexes and atomics are taken as sequentially
consistent.

## 8. Plan

What is left, in this order:

1. Proofs: `StopIsFinal` of the other services, what `PluginQueries` says of a reload, and the
   properties of whatever is modelled next.
2. A second root in `file_index`, three phones in `phone_sessions` and a second plugin in
   `search`, when a run has room.
3. The keyboard hook of the input broker against the shortcut being switched on and off.
