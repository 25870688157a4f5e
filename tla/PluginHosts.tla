---------------------------- MODULE PluginHosts ----------------------------
(***************************************************************************)
(* The host processes of the plugins: native/src/extension_manager.hpp,    *)
(* the host itself (native/src/plugin_host.cpp) and what the launcher does *)
(* with them on launchExecutor_ (main.cpp).                                *)
(*                                                                         *)
(* A plugin is an object that Reload replaces by a new one.  Its process   *)
(* is started by the first exchange, a request and the line that answers   *)
(* it, under the object's ioMutex.  Threads go on with the object they     *)
(* found in plugins_ after a reload has dropped it.                        *)
(*                                                                         *)
(* What a query asks the plugins, and what becomes of their answers, is    *)
(* PluginQueries.                                                          *)
(***************************************************************************)
EXTENDS Naturals, Sequences

CONSTANTS Ids,          \* the plugins that may be found in the plugin folders
          Queriers,     \* the threads of QueryPlugins
          Launchers,    \* the workers of launchExecutor_
          MaxRequests,  \* bound on the requests written
          MaxTasks,     \* bound on the reloads and activations
          MaxOthers,    \* bound on the other tasks of launchExecutor_
          Nobody

Callers == Queriers \cup Launchers
MaxLoads == MaxTasks + 1   \* the folders are read at the start and by tasks
Objects  == [id : Ids, load : 1 .. MaxLoads]

MaxStrikes == 3
Ready == 0   \* the line a host begins with; an answer is the number of its request

VARIABLES
  plugins,    \* plugins_
  loads,
  available, strikes, ioMutex,
  host,       \* the process of an object, with its two pipes
  exchange,   \* where a thread is in Exchange
  requests,
  query,      \* the query thread, with the objects its threads have yet to ask
  tasks,      \* what launchExecutor_ has queued
  task,       \* what each of its workers does
  submitted, others,
  reloadPending, activationPending,
  messages,   \* window messages posted by tasks
  ui,         \* where the UI thread is in ShutdownBackgroundWorkers
  failed,     \* a task has thrown
  overwritten \* a reload has put its plugins in place of others

pluginVars   == <<plugins, loads, overwritten>>
objectVars   == <<available, strikes, ioMutex, host>>
exchangeVars == <<exchange, requests>>
boundVars    == <<submitted, others>>
taskVars     == <<tasks, task, failed, boundVars>>
uiVars       == <<reloadPending, activationPending, messages, ui>>
vars == <<pluginVars, objectVars, exchangeVars, query, taskVars, uiVars>>

NoHost == [at |-> "none", in |-> <<>>, out |-> <<>>]
Out    == [at |-> "out"]
Free   == [at |-> "idle"]

Dropping(old) == [at |-> "dropping", old |-> old]
Stopping(old, o) == [at |-> "stopping", old |-> old, object |-> o]
OldOf(l) == IF task[l].at \in {"dropping", "stopping"} THEN task[l].old ELSE {}

TypeOK ==
  /\ plugins \subseteq Objects /\ loads \in 1 .. MaxLoads
  /\ available \in [Objects -> BOOLEAN] /\ strikes \in [Objects -> 0 .. MaxStrikes]
  /\ ioMutex \in [Objects -> Callers \cup {Nobody}]
  /\ host \in [Objects -> [at : {"none", "loading", "serving", "dead"},
                           in : Seq(1 .. MaxRequests), out : Seq(0 .. MaxRequests)]]
  /\ exchange \in [Callers ->
       {Out} \cup [at : {"locking", "starting", "waking", "peeking", "writing"}, object : Objects]
             \cup [at : {"reading"}, object : Objects, request : 1 .. MaxRequests]]
  /\ requests \in 0 .. MaxRequests
  /\ query \in [at : {"idle", "asking", "exited"}, todo : SUBSET Objects]
  /\ tasks \in Seq({"reload", "activate", "other"})
  /\ task \in [Launchers ->
       [at : {"idle", "reload", "activate", "other", "activating", "installing"}]
         \cup [at : {"dropping"}, old : SUBSET Objects]
         \cup [at : {"stopping"}, old : SUBSET Objects, object : Objects]]
  /\ submitted \in 0 .. MaxTasks /\ others \in 0 .. MaxOthers
  /\ {reloadPending, activationPending, failed, overwritten} \subseteq BOOLEAN
  /\ messages \in Seq({"error", "reloaded", "activated"})
  /\ ui \in {"running", "stopping", "joining", "stopped"}

Found(ids, load) == {[id |-> i, load |-> load] : i \in ids}

NothingYet ==
  /\ loads = 1
  /\ available = [o \in Objects |-> TRUE] /\ strikes = [o \in Objects |-> 0]
  /\ ioMutex = [o \in Objects |-> Nobody] /\ host = [o \in Objects |-> NoHost]
  /\ exchange = [t \in Callers |-> Out] /\ requests = 0
  /\ tasks = <<>> /\ task = [l \in Launchers |-> Free] /\ submitted = 0 /\ others = 0
  /\ reloadPending = FALSE /\ activationPending = FALSE /\ messages = <<>>
  /\ failed = FALSE /\ overwritten = FALSE

(* Initialize reads the folders before it starts the query thread.          *)
Init ==
  /\ NothingYet
  /\ plugins = Found(Ids, 1)
  /\ query = [at |-> "idle", todo |-> {}] /\ ui = "running"

Absent ==   \* the launcher has exited
  /\ NothingYet
  /\ plugins = {}
  /\ query = [at |-> "exited", todo |-> {}] /\ ui = "stopped"

Stopped  == ui # "running"                \* the stop token of launchExecutor_
stop     == ui \in {"joining", "stopped"} \* stop_
Running(o) == host[o].at \in {"loading", "serving"}

-----------------------------------------------------------------------------
(* Exchange, step by step as other threads can see it.                      *)
At(t, place) == exchange[t].at = place
Go(t, place) == exchange' = [exchange EXCEPT ![t].at = place]

Leave(t) ==
  /\ exchange' = [exchange EXCEPT ![t] = Out]
  /\ ioMutex' = [ioMutex EXCEPT ![exchange[t].object] = Nobody]

StopProcess(o) == host' = [host EXCEPT ![o] = NoHost]
KeepProcess(o) == UNCHANGED host   \* mutant: a failed request leaves the host to the next

(* RecordRequestFailure, and MarkUnavailable for what cannot ever work.     *)
HostAfterFailure(o) == StopProcess(o)

Fail(t) ==
  LET o == exchange[t].object
      n == IF strikes[o] < MaxStrikes THEN strikes[o] + 1 ELSE MaxStrikes
  IN /\ strikes' = [strikes EXCEPT ![o] = n]
     /\ available' = [available EXCEPT ![o] = @ /\ n < MaxStrikes]
     /\ HostAfterFailure(o)
     /\ Leave(t)

MarkUnavailable(t) ==
  LET o == exchange[t].object
  IN /\ strikes' = [strikes EXCEPT ![o] = MaxStrikes]
     /\ available' = [available EXCEPT ![o] = FALSE]
     /\ StopProcess(o)
     /\ Leave(t)

AnyObject(o) == TRUE   \* mutant: a plugin that was dropped may start a host
MayStart(o) == available[o]

EnsureProcess(t) ==
  /\ At(t, "locking")
  /\ LET o == exchange[t].object
     IN /\ ioMutex[o] = Nobody
        /\ \/ /\ ~MayStart(o)
              /\ exchange' = [exchange EXCEPT ![t] = Out]
              /\ UNCHANGED <<ioMutex, host>>
           \/ /\ MayStart(o) /\ ioMutex' = [ioMutex EXCEPT ![o] = t]
              /\ IF Running(o) THEN Go(t, "peeking") /\ UNCHANGED host
                               ELSE Go(t, "starting") /\ StopProcess(o)
  /\ UNCHANGED <<pluginVars, available, strikes, requests, query, taskVars, uiVars>>

StartHost(t) ==
  /\ At(t, "starting")
  /\ \/ /\ host' = [host EXCEPT ![exchange[t].object] = [NoHost EXCEPT !.at = "loading"]]
        /\ Go(t, "waking")
        /\ UNCHANGED <<available, strikes, ioMutex>>
     \/ MarkUnavailable(t)
  /\ UNCHANGED <<pluginVars, requests, query, taskVars, uiVars>>

Silent(o) == host[o].out = <<>>   \* so far, when the time is up; or for ever, when dead

WaitForReady(t) ==
  /\ At(t, "waking")
  /\ LET o == exchange[t].object
     IN \/ /\ host[o].out = <<Ready>>
           /\ host' = [host EXCEPT ![o].out = <<>>]
           /\ Go(t, "peeking")
           /\ UNCHANGED <<available, strikes, ioMutex>>
        \/ Silent(o) /\ Fail(t)
        \/ Silent(o) /\ ~Running(o) /\ MarkUnavailable(t)
  /\ UNCHANGED <<pluginVars, requests, query, taskVars, uiVars>>

Peek(t) ==
  /\ At(t, "peeking")
  /\ IF host[exchange[t].object].out # <<>>
     THEN Fail(t)
     ELSE Go(t, "writing") /\ UNCHANGED objectVars
  /\ UNCHANGED <<pluginVars, requests, query, taskVars, uiVars>>

(* A request is taken to fit what the pipe still holds; WriteFile would     *)
(* wait for the host, without a deadline, to take a longer one.             *)
WriteRequest(t) ==
  /\ At(t, "writing")
  /\ LET o == exchange[t].object
     IN \/ /\ Running(o) /\ requests < MaxRequests
           /\ requests' = requests + 1
           /\ host' = [host EXCEPT ![o].in = Append(@, requests')]
           /\ exchange' = [exchange EXCEPT ![t] =
                             [at |-> "reading", object |-> o, request |-> requests']]
           /\ UNCHANGED <<available, strikes, ioMutex>>
        \/ Fail(t) /\ UNCHANGED requests   \* the host has closed its end
  /\ UNCHANGED <<pluginVars, query, taskVars, uiVars>>

NeverInTime(o) == ~Running(o)   \* mutant: no deadline
GivesUp(o) == TRUE

(* One line, valid or not; more than a line; none in time, or none at all.  *)
ReadAnswer(t) ==
  /\ At(t, "reading")
  /\ LET o == exchange[t].object
     IN \/ /\ Len(host[o].out) = 1
           /\ host' = [host EXCEPT ![o].out = <<>>]
           /\ strikes' = [strikes EXCEPT ![o] = 0]
           /\ Leave(t)
           /\ UNCHANGED available
        \/ ~Silent(o) /\ Fail(t)
        \/ Silent(o) /\ GivesUp(o) /\ Fail(t)
  /\ UNCHANGED <<pluginVars, requests, query, taskVars, uiVars>>

ExchangeStep(t) ==
  \/ EnsureProcess(t) \/ StartHost(t) \/ WaitForReady(t) \/ Peek(t) \/ WriteRequest(t)
  \/ ReadAnswer(t)

(* plugin_host.cpp: a ready line, then a line for each request; the plugin  *)
(* may keep it waiting or end it.                                           *)
HostStep(o) ==
  /\ \/ /\ host[o].at = "loading"
        /\ host' = [host EXCEPT ![o] = [@ EXCEPT !.at = "serving", !.out = <<Ready>>]]
     \/ /\ host[o].at = "serving" /\ host[o].in # <<>>
        /\ host' = [host EXCEPT ![o].in = Tail(@), ![o].out = Append(@, Head(host[o].in))]
     \/ /\ Running(o)
        /\ host' = [host EXCEPT ![o].at = "dead"]
  /\ UNCHANGED <<pluginVars, available, strikes, ioMutex, exchangeVars, query, taskVars, uiVars>>

-----------------------------------------------------------------------------
(* The query thread: QueryPlugins asks the plugins of the moment.           *)
BeginQuery ==
  /\ query.at = "idle" /\ ~stop
  /\ requests < MaxRequests
  /\ query' = [at |-> "asking", todo |-> plugins]
  /\ UNCHANGED <<pluginVars, objectVars, exchangeVars, taskVars, uiVars>>

AskPlugin(t, o) ==
  /\ o \in query.todo /\ exchange[t] = Out
  /\ query' = [query EXCEPT !.todo = @ \ {o}]
  /\ exchange' = IF stop \/ ~available[o] THEN exchange
                 ELSE [exchange EXCEPT ![t] = [at |-> "locking", object |-> o]]
  /\ UNCHANGED <<pluginVars, objectVars, requests, taskVars, uiVars>>

EndQuery ==
  /\ \/ /\ query.at = "asking" /\ query.todo = {} /\ \A t \in Queriers : exchange[t] = Out
        /\ query' = [query EXCEPT !.at = "idle"]
     \/ /\ query.at = "idle" /\ stop
        /\ query' = [query EXCEPT !.at = "exited"]
  /\ UNCHANGED <<pluginVars, objectVars, exchangeVars, taskVars, uiVars>>

QueryStep ==
  EndQuery \/ \E t \in Queriers, o \in query.todo : AskPlugin(t, o)

-----------------------------------------------------------------------------
(* launchExecutor_.  A task that throws is reported to the UI thread.       *)
Works(l, work) == task' = [task EXCEPT ![l] = work]

Post(message) ==
  messages' = IF Stopped THEN messages ELSE Append(messages, message)

Ends(l, message) == Works(l, Free) /\ Post(message)
Throws(l) == Ends(l, "error") /\ failed' = TRUE

TakeTask(l) ==
  /\ task[l] = Free /\ tasks # <<>>
  /\ Works(l, [at |-> Head(tasks)])
  /\ tasks' = Tail(tasks)
  /\ UNCHANGED <<pluginVars, objectVars, exchangeVars, query, boundVars, failed, uiVars>>

OtherTask(l) ==   \* a launch, a link, a folder
  /\ task[l].at = "other"
  /\ \/ Works(l, Free) /\ UNCHANGED <<messages, failed>>
     \/ Throws(l)
  /\ UNCHANGED <<pluginVars, objectVars, exchangeVars, query, tasks, boundVars, reloadPending,
                 activationPending, ui>>

(* ActivateExtension: the plugin may be gone or unavailable by now.         *)
Activate(l) ==
  /\ task[l].at = "activate"
  /\ \/ /\ Stopped /\ Works(l, Free)
        /\ UNCHANGED <<exchange, messages, failed>>
     \/ /\ ~Stopped
        /\ \E i \in Ids :
             LET found == {o \in plugins : o.id = i /\ available[o]}
             IN \/ /\ found = {} /\ Ends(l, "activated")
                   /\ UNCHANGED <<exchange, failed>>
                \/ /\ Works(l, [at |-> "activating"])
                   /\ \E o \in found :
                        exchange' = [exchange EXCEPT ![l] = [at |-> "locking", object |-> o]]
                   /\ UNCHANGED <<messages, failed>>
     \/ /\ ~Stopped /\ Throws(l)
        /\ UNCHANGED exchange
  /\ UNCHANGED <<pluginVars, objectVars, requests, query, tasks, boundVars, reloadPending,
                 activationPending, ui>>

Activated(l) ==
  /\ task[l].at = "activating" /\ exchange[l] = Out
  /\ Ends(l, "activated")
  /\ UNCHANGED <<pluginVars, objectVars, exchangeVars, query, tasks, boundVars, failed,
                 reloadPending, activationPending, ui>>

(* Reload takes the plugins off the list, then makes each unavailable and,  *)
(* once no exchange is under way with it, stops its process.                *)
Swap(l) ==
  /\ task[l].at = "reload"
  /\ IF Stopped THEN Works(l, Free) /\ UNCHANGED plugins
                ELSE Works(l, Dropping(plugins)) /\ plugins' = {}
  /\ UNCHANGED <<loads, overwritten, objectVars, exchangeVars, query, tasks, boundVars, failed,
                 uiVars>>

DropPlugin(l) ==
  /\ task[l].at = "dropping"
  /\ \/ /\ task[l].old = {} /\ Works(l, [at |-> "installing"])
        /\ UNCHANGED available
     \/ \E o \in task[l].old :
          /\ Works(l, Stopping(task[l].old, o))
          /\ available' = [available EXCEPT ![o] = FALSE]
  /\ UNCHANGED <<pluginVars, strikes, ioMutex, host, exchangeVars, query, tasks, boundVars,
                 failed, uiVars>>

AnyTime(o) == TRUE   \* mutant: the exchange under way is not waited for
MayStop(o) == ioMutex[o] = Nobody

StopPlugin(l) ==
  /\ task[l].at = "stopping"
  /\ LET o == task[l].object
     IN /\ MayStop(o)
        /\ StopProcess(o)
        /\ Works(l, Dropping(task[l].old \ {o}))
  /\ UNCHANGED <<pluginVars, available, strikes, ioMutex, exchangeVars, query, tasks, boundVars,
                 failed, uiVars>>

InstallPlugins(l) ==
  /\ task[l].at = "installing"
  /\ \/ /\ loads' = loads + 1
        /\ \E ids \in SUBSET Ids : plugins' = Found(ids, loads')
        /\ overwritten' = (overwritten \/ plugins # {})
        /\ Ends(l, "reloaded")
        /\ UNCHANGED failed
     \/ Throws(l) /\ UNCHANGED pluginVars   \* reading the folders
  /\ UNCHANGED <<objectVars, exchangeVars, query, tasks, boundVars, reloadPending,
                 activationPending, ui>>

TaskStep(l) ==
  \/ TakeTask(l) \/ OtherTask(l) \/ Activate(l) \/ Activated(l)
  \/ Swap(l) \/ DropPlugin(l) \/ StopPlugin(l) \/ InstallPlugins(l)

-----------------------------------------------------------------------------
(* The UI thread.                                                           *)
Submit(kind) ==
  /\ ui = "running" /\ submitted < MaxTasks
  /\ submitted' = submitted + 1
  /\ tasks' = Append(tasks, kind)

AnyReload == TRUE   \* mutant: a reload under way is not looked at
MayReload == ~reloadPending

StartExtensionReload ==
  /\ MayReload
  /\ Submit("reload") /\ reloadPending' = TRUE
  /\ UNCHANGED <<pluginVars, objectVars, exchangeVars, query, task, others, failed, activationPending,
                 messages, ui>>

ActivateExtension ==
  /\ ~activationPending
  /\ Submit("activate") /\ activationPending' = TRUE
  /\ UNCHANGED <<pluginVars, objectVars, exchangeVars, query, task, others, failed, reloadPending,
                 messages, ui>>

SubmitOther ==
  /\ ui = "running" /\ others < MaxOthers
  /\ others' = others + 1 /\ tasks' = Append(tasks, "other")
  /\ UNCHANGED <<pluginVars, objectVars, exchangeVars, query, task, submitted, failed, uiVars>>

(* WM_EXTENSION_RELOAD_READY, WM_BACKGROUND_TASK_ERROR: whatever the task   *)
(* was, a reload no longer counts as pending; WM_EXTENSION_ACTIVATED.       *)
OnMessage ==
  /\ ui = "running" /\ messages # <<>>
  /\ messages' = Tail(messages)
  /\ IF Head(messages) = "activated"
     THEN activationPending' = FALSE /\ UNCHANGED reloadPending
     ELSE reloadPending' = FALSE /\ UNCHANGED activationPending
  /\ UNCHANGED <<pluginVars, objectVars, exchangeVars, query, taskVars, ui>>

StopLaunches ==   \* launchExecutor_.Stop: queued tasks are dropped, running ones joined
  /\ ui = "running"
  /\ ui' = "stopping" /\ tasks' = <<>>
  /\ UNCHANGED <<pluginVars, objectVars, exchangeVars, query, task, boundVars, failed,
                 reloadPending, activationPending, messages>>

StopQueries ==   \* Shutdown
  /\ ui = "stopping" /\ \A l \in Launchers : task[l] = Free
  /\ ui' = "joining"
  /\ UNCHANGED <<pluginVars, objectVars, exchangeVars, query, taskVars, reloadPending,
                 activationPending, messages>>

StopHosts ==
  /\ ui = "joining" /\ query.at = "exited" /\ \A o \in plugins : ioMutex[o] = Nobody
  /\ ui' = "stopped"
  /\ plugins' = {}
  /\ available' = [o \in Objects |-> available[o] /\ o \notin plugins]
  /\ host' = [o \in Objects |-> IF o \in plugins THEN NoHost ELSE host[o]]
  /\ UNCHANGED <<loads, overwritten, strikes, ioMutex, exchangeVars, query, taskVars,
                 reloadPending, activationPending, messages>>

Shutdown == StopQueries \/ StopHosts

Next ==
  \/ \E t \in Callers : ExchangeStep(t)
  \/ \E o \in Objects : HostStep(o)
  \/ BeginQuery \/ QueryStep
  \/ \E l \in Launchers : TaskStep(l)
  \/ StartExtensionReload \/ ActivateExtension \/ SubmitOther \/ OnMessage
  \/ StopLaunches \/ Shutdown

(* Every thread goes on; a host may never answer.                           *)
Fairness ==
  /\ \A t \in Callers : WF_vars(ExchangeStep(t))
  /\ \A l \in Launchers : WF_vars(TaskStep(l))
  /\ WF_vars(QueryStep) /\ WF_vars(Shutdown)

Spec == Init /\ [][Next]_vars /\ Fairness

-----------------------------------------------------------------------------
(* Nobody but the manager ends a host that goes on running, and it only     *)
(* ends those of the plugins it knows: a process belongs to a plugin of the *)
(* list, to one a reload is about to stop, or to an exchange under way.     *)
(* Plugins put on the list by a reload that ran beside another may be       *)
(* forgotten with their processes, but that takes a task that threw.        *)
HostsBelong ==
  /\ \A o \in Objects : host[o] # NoHost =>
       \/ o \in plugins \/ ioMutex[o] # Nobody
       \/ \E l \in Launchers : o \in OldOf(l)
       \/ overwritten
  /\ overwritten => failed

(* "Later responses are never read from a desynchronized pipe": a line that *)
(* is read answers the request that was written last, and there is nothing  *)
(* of an earlier request left when one is written.                          *)
AnswersOwnRequest ==
  \A t \in Callers :
    /\ At(t, "writing") => host[exchange[t].object].in = <<>>
    /\ At(t, "reading") => \A i \in 1 .. Len(host[exchange[t].object].out) :
                             host[exchange[t].object].out[i] = exchange[t].request

(* The launcher can be closed whatever the plugins do.                      *)
ShutdownReturns == ui = "stopping" ~> ui = "stopped"
=============================================================================
