------------------------- MODULE MCLauncherWorkers -------------------------
(***************************************************************************)
(* The launcher's workers that answer with a generation, each with the     *)
(* part of the launcher that asks it, on a small instance: file search,    *)
(* app discovery, previews.  They share nothing, so they are checked next  *)
(* to each other: an initial state starts one of them.                     *)
(***************************************************************************)
EXTENDS FileSearch

CONSTANTS MaxAttempts, Files, MaxMoves

VARIABLES interactive, refreshPending, refreshTimer, apps, failed, latest, scanRequest, scanner,
          attempts, results, failures, installed, cache, scanStopping, scanActs
discovery == <<interactive, refreshPending, refreshTimer, apps, failed, latest, scanRequest,
               scanner, attempts, results, failures, installed, cache, scanStopping, scanActs>>
Discovery == INSTANCE AppDiscovery
  WITH pending <- scanRequest, worker <- scanner, stopping <- scanStopping, acts <- scanActs

VARIABLES open, selected, searching, timer, rich, previewGeneration, result, asked,
          previewRequest, previewer, previews, answered, lost, previewStopping, moves
pane == <<open, selected, searching, timer, rich, previewGeneration, result, asked,
          previewRequest, previewer, previews, answered, lost, previewStopping, moves>>
Pane == INSTANCE Previews
  WITH generation <- previewGeneration, pending <- previewRequest, worker <- previewer,
       stopping <- previewStopping

ASSUME WorkersConstants ==
  /\ MaxAttempts \in Nat \ {0} /\ MaxMoves \in Nat
  /\ Pane!NoFile \notin Files

WorkersInit ==
  \/ Init /\ Discovery!Absent /\ Pane!Absent
  \/ Absent /\ Discovery!Init /\ Pane!Absent
  \/ Absent /\ Discovery!Absent /\ Pane!Init

WorkersNext ==
  \/ Next /\ UNCHANGED <<discovery, pane>>
  \/ Discovery!Next /\ UNCHANGED <<vars, pane>>
  \/ Pane!Next /\ UNCHANGED <<vars, discovery>>

WorkersSpec ==
  /\ WorkersInit /\ [][WorkersNext]_<<vars, discovery, pane>>
  /\ Fairness /\ Discovery!Fairness

WorkersTypeOK == TypeOK /\ Discovery!TypeOK /\ Pane!TypeOK

(* File search and previews both answer the latest request.                 *)
AnswersAreLatest == ImplementsLatestAnswer /\ Pane!ImplementsLatestAnswer

(* Nothing the launcher says it is loading stays so for ever.               *)
WaitingEnds == LoadingEnds /\ SearchEnds /\ Discovery!LoadingAppsEnds

(* What the launcher shows, at rest, is current: Files searches have run on *)
(* the newest corpus, the catalog is what the last scan found, the pane     *)
(* shows the selected file.                                                 *)
ShownIsCurrent ==
  ResultsFollowCorpus /\ Discovery!CatalogIsCurrent /\ Pane!PaneShowsSelection
=============================================================================
