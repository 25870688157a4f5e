-------------------------- MODULE SearchPresentation --------------------------
(***************************************************************************)
(* How the launcher's results are computed and shown: the UI thread of     *)
(* native/src/main.cpp, the search worker and the snapshot worker of       *)
(* native/src/search_coordinator.cpp, and the request, completed and       *)
(* displayed generations of native/src/interaction_state.hpp.              *)
(*                                                                         *)
(* A search is computed from a snapshot of the data, which is rebuilt in   *)
(* the background when the data revision has moved on.  Each worker takes  *)
(* the newest request, works outside the lock, checks whether the request  *)
(* is still the latest and only then pushes its result, so a newer request *)
(* may arrive in between.  Results reach the UI through searchEvents_.     *)
(***************************************************************************)
EXTENDS Naturals, Sequences

CONSTANTS Queries,        \* texts the user may type
          CompactQueries, \* those compact mode answers at once, without data
          MaxTyped,       \* bound on the edits of the query
          MaxData,        \* bound on the data revision
          MaxShows,       \* bound on the times the overlay is shown
          None            \* no request

ASSUME CompactQueriesAreQueries == CompactQueries \subseteq Queries
ASSUME SearchBounds == {MaxTyped, MaxShows} \subseteq Nat /\ MaxData \in Nat \ {0}

VARIABLES
  visible, otherSurface,  \* the overlay, or another window of the app, is shown
  query,
  dataRevision, snapshotRevision, snapshotScheduledRevision,
  requested, completed, displayed,  \* SearchPresentationState
  hasRenderedResults,
  shown,         \* the results rendered last, with what renderedQuery_ and renderedDataRevision_ say
  warm,          \* the overlay reopened with them
  rebuild,       \* WM_REBUILD_RESULTS is posted
  unsearched,    \* the data changed and no search has been asked for since
  turn,          \* OnRuntimeEvents is handling search events ...
  latestResults, \* ... and has kept these results for its end
  searchEvents,
  search,        \* SearchCoordinator: pending_, latestGeneration_ and its worker
  build,         \* SnapshotCoordinator: pending_, latestRevision_ and its worker
  typed, shows,
  threw          \* a search or a snapshot build ended in an exception

windowVars   == <<visible, otherSurface>>
dataVars     == <<dataRevision, snapshotRevision, snapshotScheduledRevision>>
requestVars  == <<requested, completed, displayed>>
renderedVars == <<hasRenderedResults, shown, warm>>
turnVars     == <<turn, latestResults>>
vars == <<windowVars, query, dataVars, requestVars, renderedVars, rebuild, unsearched,
          turnVars, searchEvents, search, build, typed, shows, threw>>

Request == [generation : Nat, query : Queries, from : Nat]
Results == [generation : Nat, query : Queries, from : Nat, revision : Nat]
ASSUME NoneIsNoRequest == None \notin Request \cup Nat

Worker(J) == [pending : J \cup {None}, latest : Nat, job : J \cup {None},
              phase : {"idle", "working", "delivering"}]

TypeOK ==
  /\ visible \in BOOLEAN /\ otherSurface \in BOOLEAN
  /\ query \in Queries
  /\ dataRevision \in 1 .. MaxData
  /\ snapshotRevision \in 0 .. MaxData /\ snapshotScheduledRevision \in 0 .. MaxData
  /\ requested \in Nat /\ completed \in Nat /\ displayed \in Nat
  /\ hasRenderedResults \in BOOLEAN
  /\ shown \in Results
  /\ warm \in BOOLEAN /\ rebuild \in BOOLEAN /\ unsearched \in BOOLEAN /\ turn \in BOOLEAN
  /\ latestResults \in Request \cup {None}
  /\ searchEvents \in Seq([kind : {"results"}, results : Request]
                            \cup [kind : {"snapshot"}, revision : 1 .. MaxData])
  /\ search \in Worker(Request)
  /\ build \in Worker(1 .. MaxData)
  /\ typed \in 0 .. MaxTyped /\ shows \in 0 .. MaxShows /\ threw \in BOOLEAN

(* No rows.                                                                 *)
Blank(text) == [generation |-> 0, query |-> text, from |-> 0, revision |-> 0]

Idle == [pending |-> None, latest |-> 0, job |-> None, phase |-> "idle"]

Init ==
  /\ visible = FALSE /\ otherSurface = FALSE
  /\ query \in Queries
  /\ dataRevision = 1 /\ snapshotRevision = 0 /\ snapshotScheduledRevision = 0
  /\ requested = 0 /\ completed = 0 /\ displayed = 0
  /\ hasRenderedResults = FALSE /\ warm = FALSE
  /\ shown = Blank(query)
  /\ rebuild = FALSE /\ unsearched = FALSE
  /\ turn = FALSE /\ latestResults = None
  /\ searchEvents = <<>>
  /\ search = Idle /\ build = Idle
  /\ typed = 0 /\ shows = 0 /\ threw = FALSE

-----------------------------------------------------------------------------
(* SearchPresentationState.                                                 *)
Pending     == displayed # requested
CanActivate == ~Pending /\ displayed = completed

Publishes(generation) == generation = requested

SameGeneration == requested   \* mutant: the counter is read before it is advanced
NextGeneration == requested + 1

LaterOf(m, n) == IF m < n THEN n ELSE m

Render(generation, text, from) ==
  /\ hasRenderedResults' = TRUE /\ warm' = FALSE
  /\ shown' = [generation |-> generation, query |-> text, from |-> from,
               revision |-> dataRevision]

(* ApplyResults: rendered with the data revision of this moment.            *)
ApplyResults(results) ==
  IF visible /\ Publishes(results.generation)
  THEN /\ completed' = LaterOf(completed, results.generation)
       /\ displayed' = results.generation
       /\ Render(results.generation, query, results.from)
  ELSE UNCHANGED <<completed, displayed, renderedVars>>

-----------------------------------------------------------------------------
(* SnapshotCoordinator::UpdateCorpus and SearchCoordinator::Query: the      *)
(* newest request replaces the one no worker has taken.                     *)
Latest(worker, key, request) == [worker EXCEPT !.pending = request, !.latest = key]

(* ScheduleSnapshotBuild.                                                   *)
NeverScheduled(revision, have) == FALSE   \* mutant: a stale snapshot is kept
BuildDue(revision, have) == have # revision /\ snapshotScheduledRevision # revision

ScheduleSnapshotBuild(revision, have) ==
  IF BuildDue(revision, have)
  THEN /\ snapshotScheduledRevision' = revision
       /\ build' = Latest(build, revision, revision)
  ELSE UNCHANGED <<snapshotScheduledRevision, build>>

(* RequestSearch of a visible overlay, for query text and with the snapshot *)
(* of revision have: compact mode publishes an empty result at once, any    *)
(* other query goes to the worker.                                          *)
RequestSearch(text, have) ==
  /\ requested' = NextGeneration
  /\ unsearched' = FALSE
  /\ IF text \in CompactQueries
     THEN /\ completed' = requested' /\ displayed' = requested'
          /\ Render(requested', text, dataRevision)
          /\ UNCHANGED <<snapshotScheduledRevision, build, search>>
     ELSE /\ ScheduleSnapshotBuild(dataRevision, have)
          /\ search' = Latest(search, requested',
                              [generation |-> requested', query |-> text, from |-> have])
          /\ UNCHANGED <<completed, displayed>>

(* UpdateBackgroundState once no window of the app is left: work under way  *)
(* is invalidated, a large snapshot is dropped, and so is the file index,   *)
(* which makes a new data revision.                                         *)
EnterBackground ==
  /\ \E large, files \in BOOLEAN :
       /\ files => dataRevision < MaxData
       /\ dataRevision' = IF files THEN dataRevision + 1 ELSE dataRevision
       /\ snapshotRevision' = IF large \/ files THEN 0 ELSE snapshotRevision
  /\ snapshotScheduledRevision' = 0
  /\ build' = [build EXCEPT !.pending = None, !.latest = @ + 1]
  /\ requested' = NextGeneration
  /\ search' = [search EXCEPT !.pending = None, !.latest = requested']

-----------------------------------------------------------------------------
(* The UI thread; user input and messages are handled between the turns.    *)
Type(text) ==
  /\ visible /\ ~turn
  /\ typed < MaxTyped
  /\ typed' = typed + 1
  /\ query' = text
  /\ RequestSearch(text, snapshotRevision)
  /\ text \notin CompactQueries => UNCHANGED renderedVars
  /\ UNCHANGED <<windowVars, dataRevision, snapshotRevision, rebuild, turnVars, searchEvents,
                 shows, threw>>

(* Data changes on the UI thread or on a worker, which posts                *)
(* WM_REBUILD_RESULTS; some changes wait for the next search.               *)
ChangeData ==
  /\ dataRevision < MaxData
  /\ dataRevision' = dataRevision + 1
  /\ unsearched' = TRUE
  /\ rebuild' \in {rebuild, TRUE}
  /\ UNCHANGED <<windowVars, query, snapshotRevision, snapshotScheduledRevision, requestVars,
                 renderedVars, turnVars, searchEvents, search, build, typed, shows, threw>>

RebuildResults ==
  /\ rebuild /\ ~turn
  /\ rebuild' = FALSE
  /\ IF visible
     THEN /\ RequestSearch(query, snapshotRevision)
          /\ query \notin CompactQueries => UNCHANGED renderedVars
     ELSE UNCHANGED <<requestVars, unsearched, snapshotScheduledRevision, build, search,
                      renderedVars>>
  /\ UNCHANGED <<windowVars, query, dataRevision, snapshotRevision, turnVars, searchEvents,
                 typed, shows, threw>>

(* ShowOverlay keeps the rendered results as a warm snapshot when they      *)
(* belong to this query and data revision, and searches anew either way.    *)
(* The other windows close, at once or after their animation.               *)
Reusable(text) ==
  hasRenderedResults /\ shown.query = text /\ shown.revision = dataRevision

Show(text) ==
  /\ ~turn
  /\ shows < MaxShows
  /\ shows' = shows + 1
  /\ visible' = TRUE
  /\ otherSurface' \in {otherSurface, FALSE}
  /\ query' = text
  /\ RequestSearch(text, snapshotRevision)
  /\ text \notin CompactQueries =>
       /\ hasRenderedResults' = Reusable(text) /\ warm' = Reusable(text)
       /\ shown' = IF Reusable(text) THEN shown ELSE Blank(text)
  /\ UNCHANGED <<dataRevision, snapshotRevision, rebuild, turnVars, searchEvents, typed, threw>>

Hide ==
  /\ visible /\ ~turn
  /\ visible' = FALSE
  /\ IF otherSurface THEN UNCHANGED <<dataVars, requested, build, search>>
                     ELSE EnterBackground
  /\ UNCHANGED <<otherSurface, query, completed, displayed, renderedVars, rebuild, unsearched,
                 turnVars, searchEvents, typed, shows, threw>>

ShowOther ==
  /\ ~otherSurface /\ ~turn
  /\ shows < MaxShows
  /\ shows' = shows + 1
  /\ otherSurface' = TRUE
  /\ UNCHANGED <<visible, query, dataVars, requestVars, renderedVars, rebuild, unsearched,
                 turnVars, searchEvents, search, build, typed, threw>>

HideOther ==
  /\ otherSurface /\ ~turn
  /\ otherSurface' = FALSE
  /\ IF visible THEN UNCHANGED <<dataVars, requested, build, search>>
                ELSE EnterBackground
  /\ UNCHANGED <<visible, query, completed, displayed, renderedVars, rebuild, unsearched,
                 turnVars, searchEvents, typed, shows, threw>>

(* OnRuntimeEvents: results mark their generation completed and the current *)
(* ones are kept for the end of the turn.                                   *)
HearResults ==
  /\ searchEvents # <<>> /\ Head(searchEvents).kind = "results"
  /\ turn' = TRUE
  /\ searchEvents' = Tail(searchEvents)
  /\ LET results == Head(searchEvents).results
     IN /\ completed' = LaterOf(completed, results.generation)
        /\ latestResults' = IF results.generation = requested THEN results ELSE latestResults
  /\ UNCHANGED <<windowVars, query, dataVars, requested, displayed, renderedVars, rebuild,
                 unsearched, search, build, typed, shows, threw>>

(* OnSnapshotReady: a snapshot nobody sees is dropped and may be built      *)
(* again, an outdated one is built again, a current one searched at once.   *)
CountsDown(revision) == snapshotScheduledRevision - 1   \* mutant
AfterDiscard(revision) ==
  IF snapshotScheduledRevision = revision THEN 0 ELSE snapshotScheduledRevision

HearSnapshot ==
  /\ searchEvents # <<>> /\ Head(searchEvents).kind = "snapshot"
  /\ turn' = TRUE
  /\ searchEvents' = Tail(searchEvents)
  /\ LET revision == Head(searchEvents).revision
     IN \/ /\ ~visible
           /\ snapshotScheduledRevision' = AfterDiscard(revision)
           /\ UNCHANGED <<snapshotRevision, requestVars, renderedVars, unsearched, search, build>>
        \/ /\ visible /\ revision # dataRevision
           /\ ScheduleSnapshotBuild(dataRevision, snapshotRevision)
           /\ UNCHANGED <<snapshotRevision, requestVars, renderedVars, unsearched, search>>
        \/ /\ visible /\ revision = dataRevision
           /\ snapshotRevision' = revision
           /\ RequestSearch(query, revision)
           /\ query \notin CompactQueries => UNCHANGED renderedVars
  /\ UNCHANGED <<windowVars, query, dataRevision, rebuild, latestResults, typed, shows, threw>>

EndTurn ==
  /\ turn
  /\ turn' = FALSE /\ latestResults' = None
  /\ IF latestResults # None THEN ApplyResults(latestResults)
                             ELSE UNCHANGED <<completed, displayed, renderedVars>>
  /\ UNCHANGED <<windowVars, query, dataVars, requested, rebuild, unsearched, searchEvents,
                 search, build, typed, shows, threw>>

-----------------------------------------------------------------------------
(* The two WorkerLoops.                                                     *)
Takes(worker) ==
  [worker EXCEPT !.job = worker.pending, !.pending = None, !.phase = "working"]
Rests(worker) == [worker EXCEPT !.job = None, !.phase = "idle"]

(* The result of a request that is no longer the latest is dropped.         *)
Checks(worker, key) ==
  IF key = worker.latest THEN [worker EXCEPT !.phase = "delivering"] ELSE Rests(worker)

SearchWorker ==
  /\ \/ /\ search.phase = "idle" /\ search.pending # None
        /\ search' = Takes(search)
        /\ UNCHANGED <<searchEvents, threw>>
     \/ /\ search.phase = "working"
        /\ search' = Checks(search, search.job.generation)
        /\ UNCHANGED <<searchEvents, threw>>
     \/ /\ search.phase = "working"
        /\ search' = Rests(search) /\ threw' = TRUE
        /\ UNCHANGED searchEvents
     \/ /\ search.phase = "delivering"
        /\ search' = Rests(search)
        /\ searchEvents' = Append(searchEvents, [kind |-> "results", results |-> search.job])
        /\ UNCHANGED threw
  /\ UNCHANGED <<windowVars, query, dataVars, requestVars, renderedVars, rebuild, unsearched,
                 turnVars, build, typed, shows>>

SnapshotWorker ==
  /\ \/ /\ build.phase = "idle" /\ build.pending # None
        /\ build' = Takes(build)
        /\ UNCHANGED <<searchEvents, threw>>
     \/ /\ build.phase = "working"
        /\ build' = Checks(build, build.job)
        /\ UNCHANGED <<searchEvents, threw>>
     \/ /\ build.phase = "working"
        /\ build' = Rests(build) /\ threw' = TRUE
        /\ UNCHANGED searchEvents
     \/ /\ build.phase = "delivering"
        /\ build' = Rests(build)
        /\ searchEvents' = Append(searchEvents, [kind |-> "snapshot", revision |-> build.job])
        /\ UNCHANGED threw
  /\ UNCHANGED <<windowVars, query, dataVars, requestVars, renderedVars, rebuild, unsearched,
                 turnVars, search, typed, shows>>

HandleEvents == HearResults \/ HearSnapshot \/ EndTurn

Next ==
  \/ \E text \in Queries : Type(text) \/ Show(text)
  \/ ChangeData \/ RebuildResults
  \/ Hide \/ ShowOther \/ HideOther
  \/ HandleEvents
  \/ SearchWorker \/ SnapshotWorker

Spec == Init /\ [][Next]_vars

-----------------------------------------------------------------------------
AtRest ==
  /\ ~turn /\ ~rebuild /\ searchEvents = <<>>
  /\ search.phase = "idle" /\ search.pending = None
  /\ build.phase = "idle" /\ build.pending = None

(* What the user may activate are the results of the last search asked for, *)
(* computed for the text that is in the box.                                *)
ActivatesTheCurrent ==
  visible /\ CanActivate =>
    hasRenderedResults /\ shown.generation = requested /\ shown.query = query

(* Unless a search or a build has thrown, a visible overlay with nothing    *)
(* under way shows the results of the last search, computed from the        *)
(* current data if the change asked for a search: neither hiding, reopening *)
(* nor a newer request loses one or leaves the snapshot behind.             *)
FreshAtRest ==
  visible /\ AtRest /\ ~threw =>
    /\ ~Pending
    /\ ~unsearched => shown.from = dataRevision

(* The overlay reopens only with results of the data revision they are      *)
(* taken to be of.                                                          *)
NoStaleReuse == warm => shown.from = shown.revision
=============================================================================
