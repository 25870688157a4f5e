--------------------------- MODULE PluginQueries ---------------------------
(***************************************************************************)
(* How a search gets the plugins' results: RequestQuery, CancelQuery, the  *)
(* query thread and the result cache of native/src/extension_manager.hpp,  *)
(* and RequestSearch of main.cpp.                                          *)
(*                                                                         *)
(* A search never waits for plugins.  It takes what the cache has for its  *)
(* text and asks for the rest; when the answer to what was asked last is   *)
(* in the cache, a window message makes the launcher search once more.     *)
(* The cache is read for the results before it is looked at for whether to *)
(* ask, and the query thread may store between the two.                    *)
(*                                                                         *)
(* How a query gets its answer, if only an empty one, is PluginHosts.      *)
(***************************************************************************)
EXTENDS Naturals, FiniteSets

CONSTANTS Texts,        \* queries that plugins are asked about
          CacheLimit,   \* the size from which the cache is emptied
          MaxSearches,  \* bound on what the user does
          MaxReloads,   \* bound on the reloads of the plugins
          NoText        \* no search, or one that plugins have no part in

VARIABLES
  text,      \* the query of the last search
  launcher,  \* where the UI thread is in RequestSearch
  shown,     \* that search found results of plugins in the cache
  missed,    \* it did not, but no longer had to ask
  cache,     \* texts with results in cache_
  generation,
  pending,   \* pendingQuery_
  running,   \* runningQuery_, runningGeneration_
  latest,    \* latestRequestedGeneration_
  worker,    \* the query thread
  reload,    \* where a reload is
  rebuild,   \* WM_REBUILD_RESULTS is posted
  stop,      \* stop_
  searches, reloads

searchVars == <<text, launcher, shown, missed, generation>>
queryVars  == <<pending, running, latest>>
boundVars  == <<searches, reloads>>
vars == <<searchVars, queryVars, cache, worker, reload, rebuild, stop, boundVars>>

Query(t, g) == [text |-> t, generation |-> g]
NoQuery     == Query(NoText, 0)
Idle        == [at |-> "idle", text |-> NoText]

TypeOK ==
  /\ {text, worker.text} \subseteq Texts \cup {NoText} /\ cache \subseteq Texts
  /\ {shown, missed, rebuild, stop} \subseteq BOOLEAN
  /\ launcher \in {"idle", "gathered", "asking"}
  /\ generation \in Nat /\ latest \in Nat
  /\ {pending, running} \subseteq [text : Texts \cup {NoText}, generation : 0 .. generation]
  /\ worker.at \in {"idle", "querying", "publishing", "posting", "exited"}
  /\ reload \in {"no", "clearing", "posting"}
  /\ searches \in 0 .. MaxSearches /\ reloads \in 0 .. MaxReloads

NothingYet ==
  /\ text = NoText /\ launcher = "idle" /\ shown = FALSE /\ missed = FALSE
  /\ cache = {} /\ generation = 0
  /\ pending = NoQuery /\ running = NoQuery /\ latest = 0
  /\ reload = "no" /\ rebuild = FALSE /\ searches = 0 /\ reloads = 0

Init   == NothingYet /\ worker = Idle /\ stop = FALSE
Absent == NothingYet /\ worker = [Idle EXCEPT !.at = "exited"] /\ stop = TRUE

Acts == launcher = "idle" /\ ~stop /\ searches < MaxSearches /\ searches' = searches + 1

-----------------------------------------------------------------------------
(* RequestSearch: GatherRequest reads the cache ...                         *)
Gather(t) ==
  /\ generation' = generation + 1
  /\ text' = t
  /\ shown' = (t \in cache) /\ missed' = FALSE
  /\ launcher' = IF t = NoText THEN "idle" ELSE "gathered"

Search(t) ==   \* the user types, shows the launcher or changes what it searches
  /\ Acts
  /\ Gather(t)
  /\ UNCHANGED <<queryVars, cache, worker, reload, rebuild, stop, reloads>>

(* ... and RequestQuery asks unless it has the text by now, under one lock, *)

CheckCache ==
  /\ launcher = "gathered"
  /\ IF text \in cache
     THEN launcher' = "idle" /\ missed' = ~shown
     ELSE launcher' = "asking" /\ UNCHANGED missed
  /\ UNCHANGED <<text, shown, generation, queryVars, cache, worker, reload, rebuild, stop,
                 boundVars>>

(* and under another renews the query that runs, or the one that waits, or  *)
(* takes its place.                                                         *)
OldGeneration(query) == query   \* mutant: a query that runs keeps its generation
Renewed(query)       == [query EXCEPT !.generation = generation]

RequestQuery ==
  /\ launcher = "asking"
  /\ launcher' = "idle"
  /\ latest' = generation
  /\ IF running.text = text THEN running' = Renewed(running) /\ UNCHANGED pending
                            ELSE pending' = Query(text, generation) /\ UNCHANGED running
  /\ UNCHANGED <<text, shown, missed, generation, cache, worker, reload, rebuild, stop, boundVars>>

Hide ==   \* the last window closes: CancelQuery
  /\ Acts
  /\ text' = NoText /\ shown' = FALSE /\ missed' = FALSE
  /\ pending' = NoQuery
  /\ latest' = latest + 1
  /\ UNCHANGED <<launcher, generation, running, cache, worker, reload, rebuild, stop, reloads>>

RebuildResults ==
  /\ rebuild /\ launcher = "idle" /\ ~stop
  /\ rebuild' = FALSE
  /\ IF text = NoText THEN UNCHANGED searchVars ELSE Gather(text)
  /\ UNCHANGED <<queryVars, cache, worker, reload, stop, boundVars>>

Shutdown ==
  /\ launcher = "idle" /\ reload = "no" /\ ~stop
  /\ stop' = TRUE /\ pending' = NoQuery
  /\ UNCHANGED <<searchVars, running, latest, cache, worker, reload, rebuild,
                 boundVars>>

-----------------------------------------------------------------------------
(* The query thread.                                                        *)
Goes(place) == worker' = [worker EXCEPT !.at = place]

TakeQuery ==
  /\ worker = Idle
  /\ \/ /\ stop /\ Goes("exited")
        /\ UNCHANGED <<pending, running>>
     \/ /\ ~stop /\ pending # NoQuery
        /\ worker' = [at |-> "querying", text |-> pending.text]
        /\ running' = pending /\ pending' = NoQuery
  /\ UNCHANGED <<searchVars, latest, cache, reload, rebuild, stop, boundVars>>

Store ==
  /\ worker.at = "querying"
  /\ cache' = {worker.text} \cup IF Cardinality(cache) > CacheLimit THEN {} ELSE cache
  /\ Goes("publishing")
  /\ UNCHANGED <<searchVars, queryVars, reload, rebuild, stop, boundVars>>

Newest ==
  /\ running.text = worker.text /\ running.generation = latest

Publish ==
  /\ worker.at = "publishing"
  /\ worker' = IF Newest THEN [worker EXCEPT !.at = "posting"] ELSE Idle
  /\ running' = IF running.text = worker.text THEN [running EXCEPT !.text = NoText] ELSE running
  /\ UNCHANGED <<searchVars, pending, latest, cache, reload, rebuild, stop, boundVars>>

PostRebuild ==
  /\ worker.at = "posting"
  /\ worker' = Idle /\ rebuild' = TRUE
  /\ UNCHANGED <<searchVars, queryVars, cache, reload, stop, boundVars>>

QueryThread == TakeQuery \/ Store \/ Publish \/ PostRebuild

-----------------------------------------------------------------------------
(* A reload of the plugins, on launchExecutor_.                             *)
BeginReload ==
  /\ reload = "no" /\ ~stop /\ reloads < MaxReloads
  /\ reload' = "clearing" /\ reloads' = reloads + 1
  /\ UNCHANGED <<searchVars, queryVars, cache, worker, rebuild, stop, searches>>

ClearCache ==
  /\ reload = "clearing"
  /\ reload' = "posting" /\ cache' = {}
  /\ UNCHANGED <<searchVars, queryVars, worker, rebuild, stop, boundVars>>

EndReload ==
  /\ reload = "posting"
  /\ reload' = "no" /\ rebuild' = TRUE
  /\ UNCHANGED <<searchVars, queryVars, cache, worker, stop, boundVars>>

Next ==
  \/ \E t \in Texts \cup {NoText} : Search(t)
  \/ CheckCache \/ RequestQuery \/ Hide \/ RebuildResults \/ Shutdown
  \/ QueryThread
  \/ BeginReload \/ ClearCache \/ EndReload

Spec == Init /\ [][Next]_vars

-----------------------------------------------------------------------------
AtRest ==
  /\ launcher = "idle" /\ ~rebuild /\ ~stop
  /\ worker = Idle /\ pending = NoQuery /\ reload = "no"

(* "Extension results arrive after a short quiet period": with nothing      *)
(* under way, the results shown are of a search that found the plugins'     *)
(* answer in the cache, however the query came and went.  The one exception *)
(* is a search whose answer was stored between its two looks at the cache:  *)
(* if the query that stored it is no longer the newest, nobody tells the    *)
(* launcher.                                                                *)
ResultsArrive == text # NoText /\ AtRest => shown \/ missed
=============================================================================
