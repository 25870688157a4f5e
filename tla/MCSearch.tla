----------------------------- MODULE MCSearch ------------------------------
(***************************************************************************)
(* A search and the plugins it asks, on small instances: the launcher's    *)
(* own results (SearchPresentation), those of plugins (PluginQueries) and  *)
(* the processes these come from (PluginHosts).  A search does not wait    *)
(* for plugins, and a query does not end otherwise for what the hosts do,  *)
(* so they are checked next to each other: an initial state starts one of  *)
(* them.                                                                   *)
(***************************************************************************)
EXTENDS SearchPresentation, FiniteSets

CONSTANTS Texts, CacheLimit, MaxSearches, MaxReloads

VARIABLES text, launcher, found, missed, cache, generation, pending, running, latest, worker,
          reload, rebuildPosted, stop, searches, reloads
queries == <<text, launcher, found, missed, cache, generation, pending, running, latest, worker,
             reload, rebuildPosted, stop, searches, reloads>>
Asked == INSTANCE PluginQueries
  WITH NoText <- None, shown <- found, rebuild <- rebuildPosted

CONSTANTS Ids, Queriers, Launchers, MaxRequests, MaxTasks, MaxOthers, Nobody

VARIABLES plugins, loads, available, strikes, ioMutex, host, exchange, requests, hostQuery,
          tasks, task, submitted, others, reloadPending, activationPending, messages, ui, failed,
          overwritten
processes == <<plugins, loads, available, strikes, ioMutex, host, exchange, requests, hostQuery,
               tasks, task, submitted, others, reloadPending, activationPending, messages, ui, failed,
               overwritten>>
Hosts == INSTANCE PluginHosts WITH query <- hostQuery

ASSUME SearchConstants ==
  /\ Queries # {}
  /\ None \notin Texts
  /\ Queriers \cap Launchers = {} /\ Nobody \notin Queriers \cup Launchers
  /\ IsFiniteSet(Launchers)
  /\ {MaxSearches, MaxReloads, MaxRequests, MaxTasks, MaxOthers} \subseteq Nat

SearchOver ==   \* hidden, and not shown again
  /\ visible = FALSE /\ otherSurface = FALSE /\ query = CHOOSE q \in Queries : TRUE
  /\ dataRevision = MaxData /\ snapshotRevision = 0 /\ snapshotScheduledRevision = 0
  /\ requested = 0 /\ completed = 0 /\ displayed = 0
  /\ hasRenderedResults = FALSE /\ shown = Blank(query) /\ warm = FALSE
  /\ rebuild = FALSE /\ unsearched = FALSE
  /\ turn = FALSE /\ latestResults = None /\ searchEvents = <<>>
  /\ search = Idle /\ build = Idle
  /\ typed = MaxTyped /\ shows = MaxShows /\ threw = FALSE

SearchInit ==
  \/ Init /\ Asked!Absent /\ Hosts!Absent
  \/ SearchOver /\ Asked!Init /\ Hosts!Absent
  \/ SearchOver /\ Asked!Absent /\ Hosts!Init

Asking  == worker.at # "exited"
Hosting == ui # "stopped"

SearchNext ==
  \/ Next /\ UNCHANGED <<queries, processes>>
  \/ Asking /\ Asked!Next /\ UNCHANGED <<vars, processes>>
  \/ Hosting /\ Hosts!Next /\ UNCHANGED <<vars, queries>>

SearchSpec == SearchInit /\ [][SearchNext]_<<vars, queries, processes>>

SearchTypeOK == TypeOK /\ (Asking => Asked!TypeOK) /\ (Hosting => Hosts!TypeOK)

(* At rest the launcher shows what there is: the results of the last search *)
(* over the current data, with those the plugins had for it.                *)
ShownAtRest == FreshAtRest /\ Asked!ResultsArrive

(* The processes of plugins: stated in PluginHosts.                         *)
HostsBelong       == Hosts!HostsBelong
AnswersOwnRequest == Hosts!AnswersOwnRequest
=============================================================================
