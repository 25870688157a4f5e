----------------------- MODULE LauncherWorkersProofs -----------------------
(***************************************************************************)
(* For any bounds on what the user does, on attempts, files and moves: the *)
(* three workers keep their types, what the launcher shows once they have  *)
(* settled is current, and file search and previews answer as LatestAnswer *)
(* promises, each request at most once and in the order they were made.    *)
(*                                                                         *)
(* Each worker has an inductive invariant of its own; they are kept        *)
(* together because a step of one leaves the others alone.                 *)
(*                                                                         *)
(* PaneInv orders the generations of the preview service (answered, being  *)
(* built, waiting, current) and says that whatever is of the current one   *)
(* is of the selected file, and that what was asked for in it waits, is    *)
(* built, is answered or is shown.                                         *)
(*                                                                         *)
(* DiscoveryInv bounds versions and generations, and says that the         *)
(* launcher shows what is installed, will be told of it, is looking for it *)
(* or remembers that it has to; it counts the attempts of a scan, because  *)
(* a scan is given up after the last one.                                  *)
(*                                                                         *)
(* SearchInv orders the generations of file search and says that a search  *)
(* of the overlay's files waits, or is computed, answered or shown from    *)
(* the corpus as it is, unless one that replaces it is on its way to a     *)
(* projection that will make the launcher search again.                    *)
(***************************************************************************)
EXTENDS MCLauncherWorkers, TLAPS

(* What taking from a queue, and adding to one, does at every place of it.  *)
LEMMA TailPoints ==
  ASSUME NEW S, NEW s \in Seq(S), s # <<>>
  PROVE  /\ Len(s) \in Nat /\ 1 \in 1 .. Len(s)
         /\ Head(s) = s[1] /\ Head(s) \in S
         /\ Tail(s) \in Seq(S) /\ Len(Tail(s)) = Len(s) - 1
         /\ \A i \in 1 .. Len(Tail(s)) : i + 1 \in 1 .. Len(s) /\ Tail(s)[i] = s[i + 1]
  BY Z3

(* What adding to the end of a queue does at every place of it.             *)
LEMMA AppendPoints ==
  ASSUME NEW S, NEW s \in Seq(S), NEW e \in S
  PROVE  /\ Len(s) \in Nat /\ Append(s, e) \in Seq(S) /\ Append(s, e) # <<>>
         /\ Len(Append(s, e)) = Len(s) + 1
         /\ Append(s, e)[Len(s) + 1] = e
         /\ \A i \in 1 .. Len(s) : Append(s, e)[i] = s[i]
  BY Z3

(* A length is a number.                                                    *)
LEMMA LenIsNat == ASSUME NEW S, NEW s \in Seq(S) PROVE Len(s) \in Nat
  OBVIOUS

(* A sequence of elements of T is one over T.                               *)
LEMMA SeqOfElements ==
  ASSUME NEW S, NEW T, NEW s \in Seq(S), \A i \in 1 .. Len(s) : s[i] \in T
  PROVE  s \in Seq(T)
  OBVIOUS

-----------------------------------------------------------------------------
(* Previews.  The types, each on its own.                                   *)
PaneWorkers == [at : {"idle", "building", "answering", "exited"}, generation : Nat,
                path : Files \cup {Pane!NoFile}]

PaneServing == previewer.at \in {"building", "answering"}

PaneTyped ==
  /\ open \in BOOLEAN /\ searching \in BOOLEAN /\ timer \in BOOLEAN /\ rich \in BOOLEAN
  /\ lost \in BOOLEAN /\ previewStopping \in BOOLEAN
  /\ selected \in Files \cup {Pane!NoFile} /\ result \in Files \cup {Pane!NoFile}
  /\ previewGeneration \in Nat /\ asked \in Nat /\ answered \in Nat
  /\ previewRequest \in Pane!Requests \cup {Pane!NoRequest}
  /\ previewer \in PaneWorkers /\ (PaneServing => previewer.path \in Files)
  /\ previews \in Seq(Pane!Requests)
  /\ moves \in 0 .. MaxMoves

(* Generations are in order: what was answered last is older than what is   *)
(* being answered, that is older than what waits, and what waits is of the  *)
(* current generation.                                                      *)
PaneOrder ==
  /\ {asked, answered} \subseteq 0 .. previewGeneration
  /\ previewRequest # Pane!NoRequest =>
       previewRequest.generation = previewGeneration /\ answered < previewGeneration
  /\ PaneServing =>
       /\ previewer.generation \in (answered + 1) .. previewGeneration
       /\ previewRequest # Pane!NoRequest => previewer.generation < previewGeneration
  /\ previewer.at = "idle" => previewer = Pane!Idle
  /\ \A i \in 1 .. Len(previews) : previews[i].generation \in 1 .. previewGeneration

(* Whatever is of the current generation is of the selected file.           *)
PaneFollows ==
  open /\ ~searching =>
    /\ result # Pane!NoFile => result = selected
    /\ previewRequest # Pane!NoRequest => previewRequest.path = selected
    /\ PaneServing /\ previewer.generation = previewGeneration => previewer.path = selected
    /\ \A i \in 1 .. Len(previews) :
         previews[i].generation = previewGeneration => previews[i].path = selected

(* What was asked for this generation waits, is built, is answered or is    *)
(* shown; the timer is set in generations nothing was asked for.            *)
PaneAnswers ==
  /\ timer => asked < previewGeneration
  /\ open /\ asked # 0 /\ asked = previewGeneration /\ ~lost /\ ~previewStopping =>
       \/ result # Pane!NoFile
       \/ previewRequest # Pane!NoRequest
       \/ PaneServing /\ previewer.generation = previewGeneration
       \/ \E i \in 1 .. Len(previews) : previews[i].generation = previewGeneration

PaneInv == PaneTyped /\ PaneOrder /\ PaneFollows /\ PaneAnswers

(* With the order of generations, the types of Previews.                    *)
LEMMA PaneTypesApart ==
  PaneTyped /\ {asked, answered} \subseteq 0 .. previewGeneration => Pane!TypeOK
  BY DEF Pane!TypeOK, PaneTyped, PaneWorkers

(* The fields of the worker that idles and of the one that has exited.      *)
LEMMA PaneWorkerStates ==
  /\ Pane!Idle \in PaneWorkers /\ Pane!Idle.at = "idle" /\ Pane!Idle.generation = 0
  /\ Pane!Exited \in PaneWorkers /\ Pane!Exited.at = "exited"
PROOF
  <1>1. Pane!Idle \in PaneWorkers /\ Pane!Idle.at = "idle" /\ Pane!Idle.generation = 0
    BY DEF Pane!Idle, PaneWorkers
  <1>2. Pane!Exited = [at |-> "exited", generation |-> 0, path |-> Pane!NoFile]
    BY DEF Pane!Idle, Pane!Exited
  <1>3. Pane!Exited \in PaneWorkers /\ Pane!Exited.at = "exited"
    BY <1>2 DEF PaneWorkers
  <1> QED BY <1>1, <1>3

(* The fields of the worker, one by one.                                    *)
LEMMA PaneWorkerFields ==
  ASSUME NEW w \in PaneWorkers
  PROVE  /\ w.at \in {"idle", "building", "answering", "exited"}
         /\ w.generation \in Nat /\ w.path \in Files \cup {Pane!NoFile}
         /\ [w EXCEPT !.at = "answering"] \in PaneWorkers
         /\ [w EXCEPT !.at = "answering"].at = "answering"
         /\ [w EXCEPT !.at = "answering"].generation = w.generation
         /\ [w EXCEPT !.at = "answering"].path = w.path
  BY DEF PaneWorkers

(* The invariant holds at the start, and while the service is absent.       *)
LEMMA PaneInit == Pane!Init \/ Pane!Absent => PaneInv
PROOF
  <1> SUFFICES ASSUME Pane!NothingYet, previewer \in {Pane!Idle, Pane!Exited},
                      previewStopping \in BOOLEAN
               PROVE  PaneInv
    BY DEF Pane!Init, Pane!Absent
  <1>1. PaneTyped
    <2>1. previewer \in PaneWorkers /\ ~PaneServing
      BY PaneWorkerStates DEF PaneServing
    <2>2. moves \in 0 .. MaxMoves
      BY WorkersConstants DEF Pane!NothingYet
    <2>3. previews \in Seq(Pane!Requests)
      BY DEF Pane!NothingYet
    <2> QED BY <2>1, <2>2, <2>3 DEF Pane!NothingYet, PaneTyped
  <1>2. PaneOrder
    BY PaneWorkerStates DEF Pane!NothingYet, PaneOrder, PaneServing
  <1>3. PaneFollows /\ PaneAnswers
    BY DEF Pane!NothingYet, PaneFollows, PaneAnswers
  <1> QED BY <1>1, <1>2, <1>3 DEF PaneInv

-----------------------------------------------------------------------------
(* What a step does to the generations and to what counts for them.         *)
PaneDrops ==   \* a new generation, without a request
  /\ previewGeneration' = previewGeneration + 1
  /\ previewRequest' = Pane!NoRequest /\ result' = Pane!NoFile
  /\ UNCHANGED <<asked, previewer, previews, answered, lost, previewStopping>>

PaneKeeps ==   \* and without a new selection, unless the pane is not shown
  /\ open' = open /\ (timer' => timer)
  /\ open' /\ ~searching' => ~searching /\ selected' = selected
  /\ UNCHANGED <<previewGeneration, previewRequest, result, asked, previewer, previews,
                 answered, lost, previewStopping>>

PaneAsks ==
  /\ timer' = FALSE /\ selected \in Files
  /\ previewGeneration' = previewGeneration + 1 /\ asked' = previewGeneration + 1
  /\ previewRequest' = [generation |-> previewGeneration + 1, path |-> selected]
  /\ UNCHANGED <<open, selected, searching, result, previewer, previews, answered, lost,
                 previewStopping>>

PaneEmpties ==   \* there is nothing to ask for
  /\ timer /\ timer' = FALSE /\ result' = Pane!NoFile
  /\ UNCHANGED <<open, selected, searching, previewGeneration, previewRequest, asked, previewer,
                 previews, answered, lost, previewStopping>>

PaneFails ==
  /\ previewer.at = "building" /\ previewer' = Pane!Idle /\ lost' = TRUE
  /\ UNCHANGED <<Pane!paneVars, Pane!requestVars, previews, answered, previewStopping>>

PaneStale ==
  /\ previewer.at = "building" /\ previewer' = Pane!Idle
  /\ previewStopping \/ previewer.generation # previewGeneration
  /\ UNCHANGED <<Pane!paneVars, Pane!requestVars, previews, answered, lost, previewStopping>>

PaneBuilt ==
  /\ previewer.at = "building" /\ previewer' = [previewer EXCEPT !.at = "answering"]
  /\ UNCHANGED <<Pane!paneVars, Pane!requestVars, previews, answered, lost, previewStopping>>

(* Every step of the pane and its service is one of these.                  *)
LEMMA PaneKinds ==
  ASSUME PaneTyped, [Pane!Next]_(Pane!vars)
  PROVE  \/ PaneDrops \/ PaneKeeps \/ PaneAsks \/ PaneEmpties
         \/ PaneFails \/ PaneStale \/ PaneBuilt
         \/ Pane!OnPreview \/ Pane!Stop \/ Pane!TakeRequest \/ Pane!Answer \/ Pane!Exit
PROOF
  <1> USE DEF PaneTyped, Pane!Moves, Pane!paneVars, Pane!requestVars, Pane!workerVars
  <1>1. CASE UNCHANGED Pane!vars
    BY <1>1 DEF Pane!vars, PaneKeeps
  <1>2. CASE Pane!TogglePreview
    BY <1>2 DEF Pane!TogglePreview, Pane!ScheduleSelectedPreview, Pane!Invalidate, PaneDrops
  <1>3. CASE Pane!HideOverlay
    BY <1>3 DEF Pane!HideOverlay, Pane!Invalidate, PaneDrops
  <1>4. CASE Pane!QualityChanges
    BY <1>4 DEF Pane!QualityChanges, PaneKeeps
  <1>5. ASSUME NEW file \in Files \cup {Pane!NoFile}, Pane!SelectResult(file)
        PROVE  PaneDrops \/ PaneKeeps
    BY <1>5 DEF Pane!SelectResult, Pane!ScheduleSelectedPreview, Pane!Invalidate, Pane!Nothing,
                PaneDrops, PaneKeeps
  <1>6. ASSUME NEW file \in Files \cup {Pane!NoFile}, Pane!Search(file)
        PROVE  PaneKeeps
    BY <1>6 DEF Pane!Search, PaneKeeps
  <1>7. ASSUME NEW file \in Files \cup {Pane!NoFile}, Pane!ApplyResults(file)
        PROVE  PaneDrops \/ PaneKeeps
    BY <1>7 DEF Pane!ApplyResults, Pane!ScheduleSelectedPreview, Pane!Invalidate, Pane!Nothing,
                PaneDrops, PaneKeeps
  <1>8. CASE Pane!LoadSelectedPreview
    BY <1>8 DEF Pane!LoadSelectedPreview, Pane!Invalidate, PaneDrops, PaneAsks, PaneEmpties,
                Pane!NoFile
  <1>9. CASE Pane!Build
    BY <1>9 DEF Pane!Build, PaneFails, PaneStale, PaneBuilt
  <1> QED BY <1>1, <1>2, <1>3, <1>4, <1>5, <1>6, <1>7, <1>8, <1>9 DEF Pane!Next

(* Types.                                                                   *)
LEMMA PaneSelectionTypes ==
  ASSUME PaneTyped, [Pane!Next]_(Pane!vars)
  PROVE  /\ open' \in BOOLEAN /\ searching' \in BOOLEAN /\ timer' \in BOOLEAN
         /\ rich' \in BOOLEAN /\ selected' \in Files \cup {Pane!NoFile}
         /\ moves' \in 0 .. MaxMoves
PROOF
  <1>0. Pane!Moves => moves' \in 0 .. MaxMoves
    BY WorkersConstants DEF PaneTyped, Pane!Moves
  <1> USE DEF PaneTyped, Pane!paneVars, Pane!requestVars, Pane!workerVars
  <1>1. CASE UNCHANGED Pane!vars
    BY <1>1 DEF Pane!vars
  <1>2. CASE Pane!TogglePreview
    BY <1>0, <1>2 DEF Pane!TogglePreview, Pane!ScheduleSelectedPreview, Pane!Nothing
  <1>3. CASE Pane!HideOverlay \/ Pane!QualityChanges
    BY <1>0, <1>3 DEF Pane!HideOverlay, Pane!QualityChanges
  <1>5. ASSUME NEW file \in Files \cup {Pane!NoFile},
               Pane!SelectResult(file) \/ Pane!Search(file) \/ Pane!ApplyResults(file)
        PROVE  /\ open' \in BOOLEAN /\ searching' \in BOOLEAN /\ timer' \in BOOLEAN
               /\ rich' \in BOOLEAN /\ selected' \in Files \cup {Pane!NoFile}
               /\ moves' \in 0 .. MaxMoves
    BY <1>0, <1>5 DEF Pane!SelectResult, Pane!Search, Pane!ApplyResults,
                      Pane!ScheduleSelectedPreview, Pane!Nothing
  <1>8. CASE Pane!LoadSelectedPreview \/ Pane!OnPreview \/ Pane!Stop
    BY <1>8 DEF Pane!LoadSelectedPreview, Pane!OnPreview, Pane!Stop
  <1>11. CASE Pane!TakeRequest \/ Pane!Build \/ Pane!Answer \/ Pane!Exit
    BY <1>0, <1>11 DEF Pane!TakeRequest, Pane!Build, Pane!Answer, Pane!Exit
  <1> QED BY <1>1, <1>2, <1>3, <1>5, <1>8, <1>11 DEF Pane!Next

(* Steps keep the types.                                                    *)
LEMMA PaneTypes ==
  ASSUME PaneTyped, [Pane!Next]_(Pane!vars)
  PROVE  PaneTyped'
PROOF
  <1>1. /\ open' \in BOOLEAN /\ searching' \in BOOLEAN /\ timer' \in BOOLEAN
        /\ rich' \in BOOLEAN /\ selected' \in Files \cup {Pane!NoFile}
        /\ moves' \in 0 .. MaxMoves
    BY PaneSelectionTypes
  <1> SUFFICES /\ lost' \in BOOLEAN /\ previewStopping' \in BOOLEAN
               /\ result' \in Files \cup {Pane!NoFile}
               /\ previewGeneration' \in Nat /\ asked' \in Nat /\ answered' \in Nat
               /\ previewRequest' \in Pane!Requests \cup {Pane!NoRequest}
               /\ previewer' \in PaneWorkers /\ (PaneServing' => previewer'.path \in Files)
               /\ previews' \in Seq(Pane!Requests)
    BY <1>1 DEF PaneTyped
  <1> HIDE <1>1
  <1> USE DEF PaneTyped, PaneServing, Pane!paneVars, Pane!requestVars, Pane!workerVars
  <1>2. CASE PaneDrops
    BY <1>2 DEF PaneDrops
  <1>3. CASE PaneKeeps
    BY <1>3 DEF PaneKeeps
  <1>4. CASE PaneAsks
    BY <1>4 DEF PaneAsks, Pane!Requests
  <1>5. CASE PaneEmpties
    BY <1>5 DEF PaneEmpties
  <1>6. CASE PaneFails \/ PaneStale
    BY <1>6, PaneWorkerStates DEF PaneFails, PaneStale
  <1>7. CASE PaneBuilt
    BY <1>7, PaneWorkerFields DEF PaneBuilt
  <1>8. CASE Pane!OnPreview
    <2>1. Head(previews) \in Pane!Requests /\ previews' \in Seq(Pane!Requests)
      BY <1>8, TailPoints DEF Pane!OnPreview
    <2> QED BY <1>8, <2>1 DEF Pane!OnPreview, Pane!Requests
  <1>9. CASE Pane!Stop
    BY <1>9 DEF Pane!Stop
  <1>10. CASE Pane!TakeRequest
    BY <1>10 DEF Pane!TakeRequest, Pane!Requests, PaneWorkers
  <1>11. CASE Pane!Answer
    <2>1. [generation |-> previewer.generation, path |-> previewer.path] \in Pane!Requests
      BY <1>11, PaneWorkerFields DEF Pane!Answer, Pane!Requests
    <2>2. previews' \in Seq(Pane!Requests)
      BY <1>11, <2>1, AppendPoints DEF Pane!Answer
    <2> QED BY <1>11, <2>2, PaneWorkerStates, PaneWorkerFields DEF Pane!Answer
  <1>12. CASE Pane!Exit
    BY <1>12, PaneWorkerStates DEF Pane!Exit
  <1> QED BY <1>2, <1>3, <1>4, <1>5, <1>6, <1>7, <1>8, <1>9, <1>10, <1>11, <1>12, PaneKinds

(* The order of the generations.                                            *)
LEMMA PaneOrderStep ==
  ASSUME PaneTyped, PaneOrder, [Pane!Next]_(Pane!vars)
  PROVE  PaneOrder'
PROOF
  <1>0. previewer.generation \in Nat /\ Len(previews) \in Nat
    BY PaneWorkerFields, LenIsNat DEF PaneTyped
  <1> USE DEF PaneTyped, PaneOrder, PaneServing, Pane!paneVars, Pane!requestVars, Pane!workerVars
  <1>2. CASE PaneDrops
    BY <1>2, <1>0 DEF PaneDrops
  <1>3. CASE PaneKeeps
    BY <1>3 DEF PaneKeeps
  <1>4. CASE PaneAsks
    BY <1>4, <1>0 DEF PaneAsks
  <1>5. CASE PaneEmpties
    BY <1>5 DEF PaneEmpties
  <1>6. CASE PaneFails \/ PaneStale
    BY <1>6, PaneWorkerStates DEF PaneFails, PaneStale
  <1>7. CASE PaneBuilt
    <2>1. /\ previewer'.at = "answering" /\ previewer'.generation = previewer.generation
          /\ previewer.at = "building"
          /\ UNCHANGED <<asked, answered, previewGeneration, previewRequest, previews>>
      BY <1>7, PaneWorkerFields DEF PaneBuilt
    <2> QED BY <2>1
  <1>8. CASE Pane!OnPreview
    <2>1. \A i \in 1 .. Len(previews') :
            i + 1 \in 1 .. Len(previews) /\ previews'[i] = previews[i + 1]
      BY <1>8, TailPoints DEF Pane!OnPreview
    <2>2. UNCHANGED <<asked, answered, previewGeneration, previewRequest, previewer>>
      BY <1>8 DEF Pane!OnPreview
    <2> QED BY <2>1, <2>2
  <1>9. CASE Pane!Stop
    BY <1>9 DEF Pane!Stop
  <1>10. CASE Pane!TakeRequest
    <2>1. /\ previewRequest # Pane!NoRequest /\ previewRequest' = Pane!NoRequest
          /\ previewer'.at = "building" /\ previewer'.generation = previewRequest.generation
          /\ UNCHANGED <<asked, answered, previewGeneration, previews>>
      BY <1>10 DEF Pane!TakeRequest
    <2> QED BY <2>1
  <1>11. CASE Pane!Answer
    <2>1. /\ previewer.at = "answering" /\ previewer' = Pane!Idle
          /\ answered' = previewer.generation
          /\ UNCHANGED <<asked, previewGeneration, previewRequest>>
      BY <1>11 DEF Pane!Answer
    <2>2. [generation |-> previewer.generation, path |-> previewer.path] \in Pane!Requests
      BY <1>11, PaneWorkerFields DEF Pane!Answer, Pane!Requests
    <2>3. /\ Len(previews') = Len(previews) + 1
          /\ previews'[Len(previews) + 1].generation = previewer.generation
          /\ \A i \in 1 .. Len(previews) : previews'[i] = previews[i]
      BY <1>11, <2>2, AppendPoints DEF Pane!Answer
    <2>4. \A i \in 1 .. Len(previews') : previews'[i].generation \in 1 .. previewGeneration'
      BY <1>0, <2>1, <2>3
    <2> QED BY <1>0, <2>1, <2>4, PaneWorkerStates
  <1>12. CASE Pane!Exit
    BY <1>12, PaneWorkerStates DEF Pane!Exit
  <1> QED BY <1>2, <1>3, <1>4, <1>5, <1>6, <1>7, <1>8, <1>9, <1>10, <1>11, <1>12, PaneKinds

(* The generations of the pane are in order whatever the user does.         *)
LEMMA PaneFollowsStep ==
  ASSUME PaneTyped, PaneOrder, PaneFollows, [Pane!Next]_(Pane!vars)
  PROVE  PaneFollows'
PROOF
  <1>0. previewer.generation \in Nat /\ Len(previews) \in Nat /\ previewGeneration \in Nat
    BY PaneWorkerFields, LenIsNat DEF PaneTyped
  <1> USE DEF PaneServing, Pane!paneVars, Pane!requestVars, Pane!workerVars
  <1>2. CASE PaneDrops
    <2>1. \A i \in 1 .. Len(previews) : previews[i].generation <= previewGeneration
      BY <1>0 DEF PaneOrder
    <2>2. PaneServing => previewer.generation <= previewGeneration
      BY <1>0 DEF PaneOrder
    <2> QED BY <1>2, <1>0, <2>1, <2>2 DEF PaneDrops, PaneFollows
  <1>3. CASE PaneKeeps
    BY <1>3 DEF PaneKeeps, PaneFollows
  <1>4. CASE PaneAsks
    <2>1. \A i \in 1 .. Len(previews) : previews[i].generation <= previewGeneration
      BY <1>0 DEF PaneOrder
    <2>2. PaneServing => previewer.generation <= previewGeneration
      BY <1>0 DEF PaneOrder
    <2> QED BY <1>4, <1>0, <2>1, <2>2 DEF PaneAsks, PaneFollows
  <1>5. CASE PaneEmpties
    BY <1>5 DEF PaneEmpties, PaneFollows
  <1>6. CASE PaneFails \/ PaneStale
    BY <1>6, PaneWorkerStates DEF PaneFails, PaneStale, PaneFollows
  <1>7. CASE PaneBuilt
    <2>1. /\ previewer'.generation = previewer.generation /\ previewer'.path = previewer.path
          /\ previewer.at = "building"
          /\ UNCHANGED <<Pane!paneVars, previewGeneration, previewRequest, previews>>
      BY <1>7, PaneWorkerFields DEF PaneBuilt, PaneTyped
    <2> QED BY <2>1 DEF PaneFollows
  <1>8. CASE Pane!OnPreview
    <2>1. /\ Head(previews) = previews[1] /\ 1 \in 1 .. Len(previews)
          /\ \A i \in 1 .. Len(previews') :
               i + 1 \in 1 .. Len(previews) /\ previews'[i] = previews[i + 1]
      BY <1>8, TailPoints DEF Pane!OnPreview, PaneTyped
    <2>2. UNCHANGED <<open, selected, searching, previewGeneration, previewRequest, previewer>>
      BY <1>8 DEF Pane!OnPreview
    <2>3. \/ result' = result
          \/ open /\ previews[1].generation = previewGeneration /\ result' = previews[1].path
      BY <1>8, <2>1 DEF Pane!OnPreview, Pane!Wanted
    <2> QED BY <2>1, <2>2, <2>3 DEF PaneFollows
  <1>9. CASE Pane!Stop
    BY <1>9 DEF Pane!Stop, PaneFollows
  <1>10. CASE Pane!TakeRequest
    <2>1. /\ previewRequest # Pane!NoRequest /\ previewRequest' = Pane!NoRequest
          /\ previewer'.path = previewRequest.path
          /\ UNCHANGED <<Pane!paneVars, previewGeneration, previews>>
      BY <1>10 DEF Pane!TakeRequest
    <2> QED BY <2>1 DEF PaneFollows
  <1>11. CASE Pane!Answer
    <2>1. /\ previewer.at = "answering" /\ previewer' = Pane!Idle
          /\ UNCHANGED <<Pane!paneVars, previewGeneration, previewRequest>>
      BY <1>11 DEF Pane!Answer
    <2>2. [generation |-> previewer.generation, path |-> previewer.path] \in Pane!Requests
      BY <1>11, PaneWorkerFields DEF Pane!Answer, Pane!Requests, PaneTyped
    <2>3. /\ Len(previews') = Len(previews) + 1
          /\ previews'[Len(previews) + 1].generation = previewer.generation
          /\ previews'[Len(previews) + 1].path = previewer.path
          /\ \A i \in 1 .. Len(previews) : previews'[i] = previews[i]
      BY <1>11, <2>2, AppendPoints DEF Pane!Answer, PaneTyped
    <2>4. open' /\ ~searching' =>
            \A i \in 1 .. Len(previews') :
               previews'[i].generation = previewGeneration' => previews'[i].path = selected'
      BY <1>0, <2>1, <2>3 DEF PaneFollows
    <2> QED BY <2>1, <2>4, PaneWorkerStates DEF PaneFollows
  <1>12. CASE Pane!Exit
    BY <1>12, PaneWorkerStates DEF Pane!Exit, PaneFollows
  <1> QED BY <1>2, <1>3, <1>4, <1>5, <1>6, <1>7, <1>8, <1>9, <1>10, <1>11, <1>12, PaneKinds

(* What was asked for in this generation is not lost.                       *)
LEMMA PaneAnswersStep ==
  ASSUME PaneTyped, PaneOrder, PaneAnswers, [Pane!Next]_(Pane!vars)
  PROVE  PaneAnswers'
PROOF
  <1>0. /\ previewer.generation \in Nat /\ Len(previews) \in Nat /\ previewGeneration \in Nat
        /\ asked \in 0 .. previewGeneration
    BY PaneWorkerFields, LenIsNat DEF PaneTyped, PaneOrder
  <1> USE DEF PaneServing, Pane!paneVars, Pane!requestVars, Pane!workerVars
  <1>2. CASE PaneDrops
    BY <1>2, <1>0 DEF PaneDrops, PaneAnswers
  <1>3. CASE PaneKeeps
    BY <1>3 DEF PaneKeeps, PaneAnswers
  <1>4. CASE PaneAsks
    <2>1. previewRequest' # Pane!NoRequest
      BY <1>4, <1>0 DEF PaneAsks, Pane!NoRequest
    <2> QED BY <1>4, <1>0, <2>1 DEF PaneAsks, PaneAnswers
  <1>5. CASE PaneEmpties
    BY <1>5, <1>0 DEF PaneEmpties, PaneAnswers
  <1>6. CASE PaneFails
    BY <1>6 DEF PaneFails, PaneAnswers
  <1>13. CASE PaneStale
    <2>1. /\ previewStopping \/ previewer.generation # previewGeneration
          /\ UNCHANGED <<Pane!paneVars, Pane!requestVars, previews, lost, previewStopping>>
      BY <1>13 DEF PaneStale
    <2> QED BY <2>1 DEF PaneAnswers
  <1>7. CASE PaneBuilt
    <2>1. /\ previewer'.generation = previewer.generation /\ previewer'.at = "answering"
          /\ previewer.at = "building"
          /\ UNCHANGED <<Pane!paneVars, Pane!requestVars, previews, lost, previewStopping>>
      BY <1>7, PaneWorkerFields DEF PaneBuilt, PaneTyped
    <2> QED BY <2>1 DEF PaneAnswers
  <1>8. CASE Pane!OnPreview
    <2>0. previews \in Seq(Pane!Requests) /\ previews # <<>> /\ previews' = Tail(previews)
      BY <1>8 DEF Pane!OnPreview, PaneTyped
    <2>5. previews[1].path \in Files
      <3>1. previews[1] \in Pane!Requests
        BY <2>0, TailPoints
      <3> QED BY <3>1 DEF Pane!Requests
    <2>1. /\ Head(previews) = previews[1]
          /\ Len(previews') = Len(previews) - 1
          /\ \A i \in 1 .. Len(previews') :
               i + 1 \in 1 .. Len(previews) /\ previews'[i] = previews[i + 1]
      BY <2>0, TailPoints
    <2>2. UNCHANGED <<open, timer, asked, lost, previewStopping, previewGeneration,
                      previewRequest, previewer>>
      BY <1>8 DEF Pane!OnPreview
    <2>3. /\ open /\ previews[1].generation = previewGeneration => result' = previews[1].path
          /\ result # Pane!NoFile => result' # Pane!NoFile
      BY <1>8, <2>1, <2>5, WorkersConstants DEF Pane!OnPreview, Pane!Wanted
    <2>4. ASSUME NEW i \in 1 .. Len(previews), i # 1,
                 previews[i].generation = previewGeneration
          PROVE  \E j \in 1 .. Len(previews') : previews'[j].generation = previewGeneration'
      <3>1. i - 1 \in 1 .. Len(previews') /\ (i - 1) + 1 = i
        BY <2>1, <2>4, <1>0
      <3>2. previews'[i - 1] = previews[i]
        BY <2>1, <3>1
      <3> QED BY <3>1, <3>2, <2>2, <2>4
    <2> QED BY <2>1, <2>2, <2>3, <2>4, <2>5, WorkersConstants DEF PaneAnswers
  <1>9. CASE Pane!Stop
    BY <1>9 DEF Pane!Stop, PaneAnswers
  <1>10. CASE Pane!TakeRequest
    <2>1. /\ previewRequest # Pane!NoRequest
          /\ previewer'.at = "building" /\ previewer'.generation = previewRequest.generation
          /\ UNCHANGED <<Pane!paneVars, previewGeneration, asked>>
      BY <1>10 DEF Pane!TakeRequest
    <2>2. PaneServing' /\ previewer'.generation = previewGeneration'
      BY <2>1 DEF PaneOrder
    <2> QED BY <2>1, <2>2 DEF PaneAnswers
  <1>11. CASE Pane!Answer
    <2>1. /\ previewer.at = "answering" /\ previewer' = Pane!Idle
          /\ UNCHANGED <<Pane!paneVars, Pane!requestVars, lost, previewStopping>>
      BY <1>11 DEF Pane!Answer
    <2>2. [generation |-> previewer.generation, path |-> previewer.path] \in Pane!Requests
      BY <1>11, PaneWorkerFields DEF Pane!Answer, Pane!Requests, PaneTyped
    <2>3. /\ Len(previews') = Len(previews) + 1
          /\ previews'[Len(previews) + 1].generation = previewer.generation
          /\ \A i \in 1 .. Len(previews) : previews'[i] = previews[i]
      BY <1>11, <2>2, AppendPoints DEF Pane!Answer, PaneTyped
    <2>4. /\ Len(previews) + 1 \in 1 .. Len(previews')
          /\ \A i \in 1 .. Len(previews) : i \in 1 .. Len(previews')
      BY <2>3, <1>0
    <2> QED BY <2>1, <2>3, <2>4 DEF PaneAnswers
  <1>12. CASE Pane!Exit
    BY <1>12 DEF Pane!Exit, PaneAnswers
  <1> QED BY <1>2, <1>3, <1>4, <1>5, <1>6, <1>7, <1>8, <1>9, <1>10, <1>11, <1>12, <1>13,
             PaneKinds

(* Every step keeps the invariant.                                          *)
LEMMA PaneStep == PaneInv /\ [Pane!Next]_(Pane!vars) => PaneInv'
  BY PaneTypes, PaneOrderStep, PaneFollowsStep, PaneAnswersStep DEF PaneInv

(* The invariant says what the run checks.                                  *)
LEMMA PaneIsRight == PaneInv => Pane!TypeOK /\ Pane!PaneShowsSelection
PROOF
  <1> SUFFICES ASSUME PaneInv PROVE Pane!TypeOK /\ Pane!PaneShowsSelection
    OBVIOUS
  <1>1. Pane!TypeOK
    BY PaneTypesApart DEF PaneInv, PaneOrder
  <1>2. ASSUME open, ~searching, result # Pane!NoFile PROVE result = selected
    BY <1>2 DEF PaneInv, PaneFollows
  <1>3. ASSUME open, asked # 0, asked = previewGeneration, ~lost, ~previewStopping,
               previewRequest = Pane!NoRequest, previewer = Pane!Idle, previews = <<>>
        PROVE  result # Pane!NoFile
    <2>1. ~PaneServing
      BY <1>3, PaneWorkerStates DEF PaneServing
    <2> QED BY <1>3, <2>1 DEF PaneInv, PaneAnswers
  <1> QED BY <1>1, <1>2, <1>3 DEF Pane!PaneShowsSelection

-----------------------------------------------------------------------------
(* The number served, as Pane!ImplementsLatestAnswer maps it.               *)
PaneServed ==
  IF previewer.at \in {"building", "answering"} THEN previewer.generation ELSE 0

(* Nothing is asked, built or answered at the start.                        *)
LEMMA PaneInitMaps == Pane!Init \/ Pane!Absent => Pane!LatestPreview!Init
  BY PaneWorkerStates
     DEF Pane!Init, Pane!Absent, Pane!NothingYet, Pane!LatestPreview!Init

(* Each step is one of LatestAnswer's, or none.                             *)
LEMMA PaneStepMaps ==
  PaneInv /\ [Pane!Next]_(Pane!vars) =>
    [Pane!LatestPreview!Ask \/ Pane!LatestPreview!Serve \/ Pane!LatestPreview!Finish]_
      <<previewGeneration, PaneServed, answered>>
PROOF
  <1> SUFFICES ASSUME PaneTyped, PaneOrder, [Pane!Next]_(Pane!vars)
               PROVE  [Pane!LatestPreview!Ask \/ Pane!LatestPreview!Serve
                       \/ Pane!LatestPreview!Finish]_<<previewGeneration, PaneServed, answered>>
    BY DEF PaneInv
  <1>0. previewer.generation \in Nat /\ previewGeneration \in Nat /\ answered \in Nat
    BY PaneWorkerFields DEF PaneTyped
  <1> USE DEF PaneServed, Pane!requestVars, Pane!workerVars
  <1>2. CASE PaneDrops
    BY <1>2, <1>0 DEF PaneDrops, Pane!LatestPreview!Ask
  <1>3. CASE PaneKeeps
    BY <1>3 DEF PaneKeeps
  <1>4. CASE PaneAsks
    BY <1>4, <1>0 DEF PaneAsks, Pane!LatestPreview!Ask
  <1>5. CASE PaneEmpties
    BY <1>5 DEF PaneEmpties
  <1>6. CASE PaneFails \/ PaneStale
    BY <1>6, <1>0, PaneWorkerStates
       DEF PaneFails, PaneStale, PaneOrder, PaneServing, Pane!LatestPreview!Finish
  <1>7. CASE PaneBuilt
    <2>1. /\ previewer'.generation = previewer.generation /\ previewer'.at = "answering"
          /\ previewer.at = "building" /\ UNCHANGED <<previewGeneration, answered>>
      BY <1>7, PaneWorkerFields DEF PaneBuilt, PaneTyped
    <2> QED BY <2>1
  <1>8. CASE Pane!OnPreview \/ Pane!Stop
    BY <1>8 DEF Pane!OnPreview, Pane!Stop
  <1>10. CASE Pane!TakeRequest
    <2>1. /\ previewRequest # Pane!NoRequest /\ previewer.at = "idle"
          /\ previewer'.at = "building" /\ previewer'.generation = previewRequest.generation
          /\ UNCHANGED <<previewGeneration, answered>>
      BY <1>10 DEF Pane!TakeRequest
    <2> QED BY <2>1, <1>0 DEF PaneOrder, Pane!LatestPreview!Serve
  <1>11. CASE Pane!Answer
    <2>1. /\ previewer.at = "answering" /\ previewer' = Pane!Idle
          /\ answered' = previewer.generation /\ UNCHANGED previewGeneration
      BY <1>11 DEF Pane!Answer
    <2> QED BY <2>1, <1>0, PaneWorkerStates
            DEF PaneOrder, PaneServing, Pane!LatestPreview!Finish
  <1>12. CASE Pane!Exit
    BY <1>12, PaneWorkerStates DEF Pane!Exit
  <1> QED BY <1>2, <1>3, <1>4, <1>5, <1>6, <1>7, <1>8, <1>10, <1>11, <1>12, PaneKinds

-----------------------------------------------------------------------------
(* App discovery.  The types, each on its own.                              *)
Scanners == [at : {"idle", "scanning", "found", "failed", "waiting", "exited"},
             generation : Nat, allowCache : BOOLEAN, restored : Nat, found : Nat]
Catalogs == [generation : Nat, apps : Nat]

DiscoveryTyped ==
  /\ interactive \in BOOLEAN /\ refreshPending \in BOOLEAN /\ refreshTimer \in BOOLEAN
  /\ failed \in BOOLEAN /\ scanStopping \in BOOLEAN
  /\ installed \in Nat /\ apps \in Nat /\ cache \in Nat /\ latest \in Nat /\ failures \in Nat
  /\ scanActs \in Nat
  /\ scanRequest \in [generation : Nat, allowCache : BOOLEAN]
  /\ scanner \in Scanners
  /\ attempts \in [generation : Nat, failures : Nat]
  /\ results \in Seq(Catalogs)

(* No version is newer than the installed one, no generation newer than the *)
(* latest; a request that waits is of the latest.                           *)
NothingIsNewer ==
  /\ installed \in 1 .. scanActs + 1 /\ scanActs <= MaxActs
  /\ apps <= installed /\ cache <= installed
  /\ latest >= 1 /\ (scanRequest # Discovery!NoRequest => scanRequest.generation = latest)
  /\ scanner.generation <= latest /\ scanner.restored <= installed
  /\ scanner.found <= installed
  /\ attempts.generation <= latest
  /\ \A i \in 1 .. Len(results) :
       results[i].generation \in 1 .. latest /\ results[i].apps \in 1 .. installed

ScanIsCurrent == scanner.generation = latest

(* Every attempt of a scan but the last may be repeated, by the scan itself *)
(* as long as nothing newer waits.                                          *)
AttemptsAreLeft ==
  /\ attempts.failures <= MaxAttempts
  /\ scanRequest # Discovery!NoRequest /\ scanRequest.generation = attempts.generation =>
       attempts.failures < MaxAttempts
  /\ scanner.at \in {"scanning", "found", "failed", "waiting"} =>
       /\ attempts.generation = scanner.generation
       /\ ScanIsCurrent => scanRequest = Discovery!NoRequest
  /\ scanner.at \in {"scanning", "found", "waiting"} => attempts.failures < MaxAttempts

ResultsInOrder ==
  \A i, j \in 1 .. Len(results) : i <= j => results[i].generation <= results[j].generation

(* The version the launcher shows once it has handled the results that have *)
(* been sent to it.                                                         *)
WillShow ==
  IF results # <<>> /\ results[Len(results)].generation = latest
  THEN results[Len(results)].apps ELSE apps

(* A scan that used the cache has shown what it found there.                *)
RestoredIsShown ==
  scanner.at \in {"scanning", "found"} /\ ScanIsCurrent /\ scanner.restored # 0 =>
    WillShow = scanner.restored

(* What a scan found is what is installed, unless a change since is to be   *)
(* looked at.                                                               *)
FoundIsInstalled ==
  scanner.at = "found" /\ ScanIsCurrent /\ ~scanStopping =>
    scanner.found # 0 /\ (scanner.found = installed \/ refreshPending)

(* The launcher shows the installed apps, will be told of them, is looking  *)
(* for them or remembers that it has to.                                    *)
CatalogIsSought ==
  ~scanStopping =>
    \/ refreshPending \/ failures > 0
    \/ scanRequest # Discovery!NoRequest
    \/ WillShow = installed
    \/ scanner.at \in {"scanning", "found", "failed", "waiting"} /\ ScanIsCurrent

DiscoveryInv ==
  /\ DiscoveryTyped /\ NothingIsNewer /\ AttemptsAreLeft
  /\ ResultsInOrder /\ RestoredIsShown /\ FoundIsInstalled /\ CatalogIsSought

(* Moving a scan on changes only where it is.                               *)
LEMMA ScannerMoves ==
  ASSUME NEW w \in Scanners, NEW at \in {"failed", "waiting", "exited"}
  PROVE  /\ [w EXCEPT !.at = at] \in Scanners
         /\ [w EXCEPT !.at = at].at = at
         /\ [w EXCEPT !.at = at].generation = w.generation
         /\ [w EXCEPT !.at = at].restored = w.restored
         /\ [w EXCEPT !.at = at].found = w.found
  BY DEF Scanners

(* The fields of the scanner that idles and of the one that has exited.     *)
LEMMA ScannerStates ==
  /\ Discovery!Idle \in Scanners /\ Discovery!Idle.at = "idle"
  /\ Discovery!Idle.generation = 0 /\ Discovery!Idle.restored = 0 /\ Discovery!Idle.found = 0
  /\ Discovery!Exited \in Scanners /\ Discovery!Exited.at = "exited"
  /\ Discovery!Exited.generation = 0 /\ Discovery!Exited.restored = 0
  /\ Discovery!Exited.found = 0
PROOF
  <1>1. /\ Discovery!Idle \in Scanners /\ Discovery!Idle.at = "idle"
        /\ Discovery!Idle.generation = 0 /\ Discovery!Idle.restored = 0
        /\ Discovery!Idle.found = 0
    BY DEF Discovery!Idle, Scanners
  <1>3. /\ Discovery!Exited \in Scanners /\ Discovery!Exited.at = "exited"
        /\ Discovery!Exited.generation = 0 /\ Discovery!Exited.restored = 0
        /\ Discovery!Exited.found = 0
    BY <1>1, ScannerMoves DEF Discovery!Exited
  <1> QED BY <1>1, <1>3

(* The fields of the scanner, one by one.                                   *)
LEMMA ScannerFields ==
  ASSUME NEW w \in Scanners
  PROVE  /\ w.at \in {"idle", "scanning", "found", "failed", "waiting", "exited"}
         /\ w.generation \in Nat /\ w.allowCache \in BOOLEAN
         /\ w.restored \in Nat /\ w.found \in Nat
  BY DEF Scanners

(* A scan that ends keeps its request and notes what it found.              *)
LEMMA ScannerFinds ==
  ASSUME NEW w \in Scanners, NEW n \in Nat
  PROVE  /\ [w EXCEPT !.at = "found", !.found = n] \in Scanners
         /\ [w EXCEPT !.at = "found", !.found = n].at = "found"
         /\ [w EXCEPT !.at = "found", !.found = n].generation = w.generation
         /\ [w EXCEPT !.at = "found", !.found = n].restored = w.restored
         /\ [w EXCEPT !.at = "found", !.found = n].found = n
  BY DEF Scanners

(* What a step does.  What the launcher does, but for handling results:     *)
ScanStarts ==
  /\ latest' = latest + 1
  /\ scanRequest' = [generation |-> latest + 1, allowCache |-> FALSE]
  /\ UNCHANGED <<apps, scanner, attempts, results, failures, cache, scanStopping>>

ScanWaits ==
  /\ refreshPending => refreshPending'
  /\ installed' # installed => refreshPending'
  /\ UNCHANGED <<latest, scanRequest, apps, scanner, attempts, results, failures, cache,
                 scanStopping>>

(* What the worker does.                                                    *)
ScannerKeeps == UNCHANGED <<latest, installed, refreshPending, apps, cache, scanStopping>>

ScanFinds ==
  /\ ScannerKeeps /\ UNCHANGED <<scanRequest, attempts, results, failures>>
  /\ scanner.at = "scanning"
  /\ scanner' = [scanner EXCEPT !.at = "found", !.found = installed]

ScanFails ==
  /\ ScannerKeeps /\ UNCHANGED <<scanRequest, results, failures>>
  /\ scanner.at = "scanning"
  /\ attempts' = [attempts EXCEPT !.failures = @ + 1]
  /\ \/ ~ScanIsCurrent /\ scanner' = Discovery!Idle
     \/ scanner' = [scanner EXCEPT !.at = "failed"]

ScanIsDropped ==
  /\ ScannerKeeps /\ UNCHANGED <<scanRequest, attempts, results, failures>>
  /\ scanner.at = "scanning" /\ scanner' = Discovery!Idle
  /\ scanStopping \/ ~ScanIsCurrent

(* Every step of discovery is one of these.                                 *)
LEMMA DiscoveryKinds ==
  ASSUME DiscoveryTyped, [Discovery!Next]_(Discovery!vars)
  PROVE  \/ ScanStarts \/ ScanWaits
         \/ Discovery!OnDiscoveryCompleted \/ Discovery!OnDiscoveryFailed \/ Discovery!Stop
         \/ ScanFinds \/ ScanFails \/ ScanIsDropped
         \/ Discovery!TakeRequest \/ Discovery!Found \/ Discovery!Failed
         \/ Discovery!Retry \/ Discovery!Exit
PROOF
  <1> USE DEF DiscoveryTyped, Discovery!uiVars, Discovery!serviceVars, Discovery!workerVars,
              Discovery!eventVars, Discovery!NoScan, Discovery!StartAppDiscovery
  <1>1. CASE UNCHANGED Discovery!vars
    BY <1>1 DEF Discovery!vars, ScanWaits
  <1>2. CASE Discovery!RefreshApps
    BY <1>2 DEF Discovery!RefreshApps, ScanStarts
  <1>3. CASE Discovery!OnShellChange
    BY <1>3 DEF Discovery!OnShellChange, ScanStarts, ScanWaits
  <1>4. CASE Discovery!OnRefreshTimer
    BY <1>4 DEF Discovery!OnRefreshTimer, Discovery!StillPending, ScanStarts, ScanWaits
  <1>5. CASE Discovery!ComeToFront
    BY <1>5 DEF Discovery!ComeToFront, ScanStarts, ScanWaits
  <1>6. CASE Discovery!GoToBackground
    BY <1>6 DEF Discovery!GoToBackground, ScanWaits
  <1>7. CASE Discovery!Scan
    BY <1>7 DEF Discovery!Scan, Discovery!Cancelled, Discovery!IsCurrent, ScanIsCurrent,
                ScannerKeeps, ScanFinds, ScanFails, ScanIsDropped
  <1> QED BY <1>1, <1>2, <1>3, <1>4, <1>5, <1>6, <1>7
          DEF Discovery!Next, Discovery!HandleEvents, Discovery!WorkerLoop

(* The invariant holds at the start, and while the service is absent.       *)
LEMMA DiscoveryInit == Discovery!Init \/ Discovery!Absent => DiscoveryInv
PROOF
  <1> SUFFICES ASSUME Discovery!NothingYet, scanner \in {Discovery!Idle, Discovery!Exited},
                      interactive \in BOOLEAN, scanStopping \in BOOLEAN, cache \in {0, 1}
               PROVE  DiscoveryInv
    BY DEF Discovery!Init, Discovery!Absent
  <1> USE DEF Discovery!NothingYet
  <1>0. MaxAttempts \in Nat \ {0} /\ MaxActs \in Nat
    BY WorkersConstants, MaxActsIsNatural
  <1>1. /\ scanner \in Scanners /\ scanner.at \in {"idle", "exited"}
        /\ scanner.generation = 0 /\ scanner.restored = 0 /\ scanner.found = 0
    BY ScannerStates
  <1>2. DiscoveryTyped
    <2>1. attempts \in [generation : Nat, failures : Nat]
      OBVIOUS
    <2>2. scanRequest \in [generation : Nat, allowCache : BOOLEAN]
      OBVIOUS
    <2>3. results \in Seq(Catalogs)
      OBVIOUS
    <2> QED BY <1>1, <2>1, <2>2, <2>3 DEF DiscoveryTyped
  <1>3. NothingIsNewer /\ AttemptsAreLeft
    BY <1>0, <1>1 DEF NothingIsNewer, AttemptsAreLeft
  <1>4. ResultsInOrder /\ RestoredIsShown /\ FoundIsInstalled
    BY <1>1 DEF ResultsInOrder, RestoredIsShown, FoundIsInstalled
  <1>5. CatalogIsSought
    BY DEF CatalogIsSought, Discovery!NoRequest
  <1> QED BY <1>2, <1>3, <1>4, <1>5 DEF DiscoveryInv

(* What taking a request sends: what the cache holds, if it may be used.    *)
LEMMA TakeRequestEffect ==
  ASSUME DiscoveryTyped, Discovery!TakeRequest
  PROVE  /\ ScannerKeeps /\ UNCHANGED failures
         /\ scanner.at = "idle" /\ ~scanStopping /\ scanRequest # Discovery!NoRequest
         /\ scanRequest' = Discovery!NoRequest
         /\ attempts' = IF attempts.generation = scanRequest.generation THEN attempts
                        ELSE [generation |-> scanRequest.generation, failures |-> 0]
         /\ scanner' \in Scanners /\ scanner'.at = "scanning"
         /\ scanner'.generation = scanRequest.generation /\ scanner'.found = 0
         /\ scanner'.restored \in {0, cache}
         /\ \/ scanner'.restored = 0 /\ results' = results
            \/ /\ scanner'.restored # 0
               /\ results' = Append(results, [generation |-> scanner'.generation,
                                              apps |-> scanner'.restored])
PROOF
  <1>1. /\ ScannerKeeps /\ UNCHANGED failures
        /\ scanner.at = "idle" /\ ~scanStopping /\ scanRequest # Discovery!NoRequest
        /\ scanRequest' = Discovery!NoRequest
        /\ attempts' = IF attempts.generation = scanRequest.generation THEN attempts
                        ELSE [generation |-> scanRequest.generation, failures |-> 0]
    BY DEF Discovery!TakeRequest, Discovery!uiVars, ScannerKeeps
  <1>2. PICK restored \in {0, cache} :
          /\ scanner' = [at |-> "scanning", generation |-> scanRequest.generation,
                         allowCache |-> scanRequest.allowCache, restored |-> restored,
                         found |-> 0]
          /\ results' = IF restored = 0 THEN results
                        ELSE Append(results, [generation |-> scanRequest.generation,
                                              apps |-> restored])
    BY DEF Discovery!TakeRequest
  <1>3. scanner' \in Scanners
    BY <1>2 DEF DiscoveryTyped, Scanners
  <1>4. /\ scanner'.at = "scanning" /\ scanner'.generation = scanRequest.generation
        /\ scanner'.restored = restored /\ scanner'.found = 0
    BY <1>2
  <1> QED BY <1>1, <1>2, <1>3, <1>4

(* What is found is shown, unless it is already or nobody waits for it.     *)
LEMMA FoundEffect ==
  ASSUME DiscoveryTyped, Discovery!Found
  PROVE  /\ UNCHANGED <<latest, scanRequest, installed, refreshPending, apps, scanStopping,
                        attempts, failures>>
         /\ scanner.at = "found" /\ scanner' = Discovery!Idle
         /\ \/ scanStopping \/ ~ScanIsCurrent \/ scanner.found = scanner.restored
            \/ /\ ScanIsCurrent /\ ~scanStopping /\ cache' = scanner.found
               /\ results' = Append(results, [generation |-> scanner.generation,
                                              apps |-> scanner.found])
         /\ \/ UNCHANGED <<cache, results>>
            \/ /\ ScanIsCurrent /\ ~scanStopping /\ cache' = scanner.found
               /\ results' = Append(results, [generation |-> scanner.generation,
                                              apps |-> scanner.found])
  BY DEF Discovery!Found, Discovery!Cancelled, Discovery!IsCurrent, ScanIsCurrent,
         Discovery!uiVars, Discovery!serviceVars

(* A scan that failed ends or waits to be repeated.                         *)
LEMMA FailedEffect ==
  ASSUME DiscoveryTyped, Discovery!Failed
  PROVE  /\ ScannerKeeps /\ UNCHANGED <<scanRequest, attempts, results>>
         /\ scanner.at = "failed" /\ failures' \in Nat /\ failures' >= failures
         /\ \/ /\ attempts.failures < MaxAttempts
               /\ scanner' = [scanner EXCEPT !.at = "waiting"]
            \/ scanner' = Discovery!Idle /\ (scanStopping \/ failures' > 0)
PROOF
  <1>0. MaxAttempts \in Nat
    BY WorkersConstants
  <1>1. /\ ScannerKeeps /\ UNCHANGED <<scanRequest, attempts, results>>
        /\ scanner.at = "failed"
    BY DEF Discovery!Failed, Discovery!uiVars, Discovery!serviceVars, ScannerKeeps
  <1>2. attempts.failures \in Nat /\ failures \in Nat
    BY DEF DiscoveryTyped
  <1>3. failures' \in {failures, failures + 1}
    BY DEF Discovery!Failed
  <1>4. CASE attempts.failures < MaxAttempts
    BY <1>0, <1>1, <1>2, <1>3, <1>4 DEF Discovery!Failed, Discovery!TriesAgain
  <1>5. CASE ~(attempts.failures < MaxAttempts)
    BY <1>0, <1>1, <1>2, <1>3, <1>5
       DEF Discovery!Failed, Discovery!TriesAgain, Discovery!TellsOfFailure
  <1> QED BY <1>4, <1>5

(* A scan that waited is repeated unless something newer is to be done.     *)
LEMMA RetryEffect ==
  ASSUME DiscoveryTyped, Discovery!Retry
  PROVE  /\ ScannerKeeps /\ UNCHANGED <<attempts, results, failures>>
         /\ scanner.at = "waiting" /\ scanner' = Discovery!Idle
         /\ \/ scanRequest' = scanRequest
            \/ scanRequest' = [generation |-> latest, allowCache |-> FALSE] /\ ScanIsCurrent
         /\ ScanIsCurrent /\ ~scanStopping =>
              \/ scanRequest # Discovery!NoRequest /\ scanRequest' = scanRequest
              \/ scanRequest' = [generation |-> latest, allowCache |-> FALSE]
  BY DEF Discovery!Retry, Discovery!uiVars, Discovery!eventVars, Discovery!IsCurrent,
         ScannerKeeps, ScanIsCurrent

(* The oldest result is handled; shown if it is of the latest request.      *)
LEMMA CompletedEffect ==
  ASSUME Discovery!OnDiscoveryCompleted
  PROVE  /\ UNCHANGED <<latest, scanRequest, installed, refreshPending, cache, scanner, attempts,
                        failures, scanStopping>>
         /\ results # <<>> /\ results' = Tail(results)
         /\ \/ Head(results).generation = latest /\ apps' = Head(results).apps
            \/ Head(results).generation # latest /\ apps' = apps
  BY DEF Discovery!OnDiscoveryCompleted, Discovery!serviceVars, Discovery!workerVars

(* Types.                                                                   *)
LEMMA DiscoveryWindowTypes ==
  ASSUME DiscoveryTyped, NothingIsNewer, [Discovery!Next]_(Discovery!vars)
  PROVE  /\ interactive' \in BOOLEAN /\ refreshPending' \in BOOLEAN
         /\ refreshTimer' \in BOOLEAN /\ failed' \in BOOLEAN /\ scanStopping' \in BOOLEAN
         /\ \/ installed' = installed /\ scanActs' \in {scanActs, scanActs + 1}
            \/ installed' = installed + 1 /\ scanActs' = scanActs + 1
         /\ scanActs' <= MaxActs
PROOF
  <1> DEFINE Flags == /\ interactive' \in BOOLEAN /\ refreshPending' \in BOOLEAN
                      /\ refreshTimer' \in BOOLEAN /\ failed' \in BOOLEAN
                      /\ scanStopping' \in BOOLEAN
             Counts == /\ \/ installed' = installed /\ scanActs' \in {scanActs, scanActs + 1}
                          \/ installed' = installed + 1 /\ scanActs' = scanActs + 1
                       /\ scanActs' <= MaxActs
  <1>0. scanActs \in Nat /\ scanActs <= MaxActs /\ MaxActs \in Nat
    BY MaxActsIsNatural DEF DiscoveryTyped, NothingIsNewer
  <1> USE DEF Discovery!uiVars, Discovery!serviceVars, Discovery!workerVars,
              Discovery!eventVars, Discovery!NoScan, Discovery!StartAppDiscovery
  <1>1. CASE UNCHANGED Discovery!vars
    BY <1>0, <1>1 DEF Discovery!vars, DiscoveryTyped
  <1>2. CASE Discovery!RefreshApps \/ Discovery!OnShellChange \/ Discovery!GoToBackground
    <2>1. Counts
      BY <1>0, <1>2 DEF Discovery!RefreshApps, Discovery!OnShellChange, Discovery!GoToBackground
    <2>2. Flags
      BY <1>2 DEF Discovery!RefreshApps, Discovery!OnShellChange, Discovery!GoToBackground,
                  DiscoveryTyped
    <2> QED BY <2>1, <2>2
  <1>3. CASE Discovery!OnRefreshTimer \/ Discovery!ComeToFront
    <2>1. Counts
      BY <1>0, <1>3 DEF Discovery!OnRefreshTimer, Discovery!ComeToFront
    <2>2. Flags
      BY <1>3 DEF Discovery!OnRefreshTimer, Discovery!ComeToFront, Discovery!StillPending,
                  DiscoveryTyped
    <2> QED BY <2>1, <2>2
  <1>4. CASE Discovery!HandleEvents \/ Discovery!Stop
    <2>1. Counts
      BY <1>0, <1>4 DEF Discovery!HandleEvents, Discovery!OnDiscoveryCompleted,
                        Discovery!OnDiscoveryFailed, Discovery!Stop
    <2>2. Flags
      BY <1>4 DEF Discovery!HandleEvents, Discovery!OnDiscoveryCompleted,
                  Discovery!OnDiscoveryFailed, Discovery!Stop, DiscoveryTyped
    <2> QED BY <2>1, <2>2
  <1>5. CASE Discovery!WorkerLoop
    BY <1>0, <1>5 DEF Discovery!WorkerLoop, Discovery!TakeRequest, Discovery!Scan,
            Discovery!Found, Discovery!Failed, Discovery!Retry, Discovery!Exit, DiscoveryTyped
  <1> QED BY <1>1, <1>2, <1>3, <1>4, <1>5 DEF Discovery!Next

(* Steps keep the types of what the service keeps.                          *)
LEMMA DiscoveryServiceTypes ==
  ASSUME DiscoveryTyped, NothingIsNewer, [Discovery!Next]_(Discovery!vars)
  PROVE  /\ apps' \in Nat /\ cache' \in Nat /\ latest' \in Nat /\ failures' \in Nat
         /\ scanRequest' \in [generation : Nat, allowCache : BOOLEAN]
         /\ scanner' \in Scanners
         /\ attempts' \in [generation : Nat, failures : Nat]
         /\ results' \in Seq(Catalogs)
PROOF
  <1> USE DEF DiscoveryTyped, ScannerKeeps
  <1>1. CASE ScanStarts
    BY <1>1 DEF ScanStarts
  <1>2. CASE ScanWaits
    BY <1>2 DEF ScanWaits
  <1>3. CASE Discovery!OnDiscoveryCompleted
    <2>1. Head(results) \in Catalogs /\ results' \in Seq(Catalogs)
      <3>1. results \in Seq(Catalogs) /\ results # <<>> /\ results' = Tail(results)
        BY <1>3, CompletedEffect
      <3> QED BY <3>1, TailPoints
    <2>2. Head(results).apps \in Nat
      BY <2>1 DEF Catalogs
    <2> QED BY <2>1, <2>2, <1>3, CompletedEffect
  <1>4. CASE Discovery!OnDiscoveryFailed
    BY <1>4 DEF Discovery!OnDiscoveryFailed, Discovery!serviceVars, Discovery!workerVars
  <1>5. CASE Discovery!Stop
    BY <1>5 DEF Discovery!Stop, Discovery!uiVars, Discovery!workerVars, Discovery!NoRequest
  <1>6. CASE ScanFinds
    BY <1>6, ScannerFinds DEF ScanFinds
  <1>7. CASE ScanFails
    <2>1. attempts' \in [generation : Nat, failures : Nat]
      BY <1>7 DEF ScanFails
    <2>2. scanner' \in Scanners
      BY <1>7, ScannerMoves, ScannerStates DEF ScanFails
    <2> QED BY <1>7, <2>1, <2>2 DEF ScanFails
  <1>8. CASE ScanIsDropped
    BY <1>8, ScannerStates DEF ScanIsDropped
  <1>9. CASE Discovery!TakeRequest
    <2>1. /\ ScannerKeeps /\ UNCHANGED failures /\ scanRequest' = Discovery!NoRequest
          /\ attempts' = IF attempts.generation = scanRequest.generation THEN attempts
                         ELSE [generation |-> scanRequest.generation, failures |-> 0]
          /\ scanner' \in Scanners
          /\ \/ results' = results
             \/ results' = Append(results, [generation |-> scanner'.generation,
                                            apps |-> scanner'.restored])
      BY <1>9, TakeRequestEffect
    <2>2. [generation |-> scanner'.generation, apps |-> scanner'.restored] \in Catalogs
      BY <2>1, ScannerFields DEF Catalogs
    <2>3. results' \in Seq(Catalogs)
      BY <2>1, <2>2, AppendPoints
    <2>4. attempts' \in [generation : Nat, failures : Nat]
      BY <2>1
    <2>5. scanRequest' \in [generation : Nat, allowCache : BOOLEAN]
      BY <2>1 DEF Discovery!NoRequest
    <2> QED BY <2>1, <2>3, <2>4, <2>5
  <1>10. CASE Discovery!Found
    <2> DEFINE catalog == [generation |-> scanner.generation, apps |-> scanner.found]
    <2>1. catalog \in Catalogs
      BY ScannerFields DEF Catalogs
    <2>0. \/ UNCHANGED <<cache, results>>
          \/ cache' = scanner.found /\ results' = Append(results, catalog)
      BY <1>10, FoundEffect
    <2> HIDE DEF catalog
    <2>2. results' \in Seq(Catalogs)
      <3>1. CASE results' = Append(results, catalog)
        BY <2>1, <3>1, AppendPoints
      <3>2. CASE results' = results
        BY <3>2
      <3> QED BY <2>0, <3>1, <3>2
    <2>3. cache' \in Nat
      BY <2>0, ScannerFields
    <2> QED BY <1>10, <2>2, <2>3, FoundEffect, ScannerStates
  <1>11. CASE Discovery!Failed
    BY <1>11, FailedEffect, ScannerMoves, ScannerStates
  <1>12. CASE Discovery!Retry
    <2>1. scanRequest' \in [generation : Nat, allowCache : BOOLEAN]
      <3>1. \/ scanRequest' = scanRequest
            \/ scanRequest' = [generation |-> latest, allowCache |-> FALSE]
        BY <1>12, RetryEffect
      <3>2. latest \in Nat /\ scanRequest \in [generation : Nat, allowCache : BOOLEAN]
        OBVIOUS
      <3>3. [generation |-> latest, allowCache |-> FALSE]
              \in [generation : Nat, allowCache : BOOLEAN]
        BY <3>2
      <3> QED BY <3>1, <3>2, <3>3
    <2> QED BY <1>12, <2>1, RetryEffect, ScannerStates
  <1>13. CASE Discovery!Exit
    BY <1>13, ScannerStates
       DEF Discovery!Exit, Discovery!uiVars, Discovery!serviceVars, Discovery!eventVars
  <1> QED BY <1>1, <1>2, <1>3, <1>4, <1>5, <1>6, <1>7, <1>8, <1>9, <1>10, <1>11, <1>12, <1>13,
             DiscoveryKinds

(* Steps keep the types.                                                    *)
LEMMA DiscoveryTypes ==
  ASSUME DiscoveryTyped, NothingIsNewer, [Discovery!Next]_(Discovery!vars)
  PROVE  DiscoveryTyped'
  BY DiscoveryWindowTypes, DiscoveryServiceTypes DEF DiscoveryTyped

(* Neither versions nor generations go ahead of their counts.               *)
LEMMA CountsOnlyRise ==
  ASSUME DiscoveryTyped, NothingIsNewer, [Discovery!Next]_(Discovery!vars)
  PROVE  /\ installed' \in Nat /\ installed' >= installed
         /\ installed' \in 1 .. scanActs' + 1 /\ scanActs' <= MaxActs
         /\ latest' \in {latest, latest + 1}
         /\ (latest' # latest => ScanStarts \/ Discovery!Stop)
PROOF
  <1>0. installed \in Nat /\ scanActs \in Nat /\ installed >= 1 /\ installed <= scanActs + 1
    BY DEF DiscoveryTyped, NothingIsNewer
  <1>1. /\ installed' \in Nat /\ installed' >= installed
        /\ installed' \in 1 .. scanActs' + 1 /\ scanActs' <= MaxActs
    BY <1>0, DiscoveryWindowTypes
  <1>2. /\ latest' \in {latest, latest + 1}
        /\ (latest' # latest => ScanStarts \/ Discovery!Stop)
    BY DiscoveryKinds, TakeRequestEffect, FoundEffect, FailedEffect, RetryEffect, CompletedEffect
       DEF ScanStarts, ScanWaits, ScannerKeeps, ScanFinds, ScanFails, ScanIsDropped,
           Discovery!OnDiscoveryFailed, Discovery!serviceVars, Discovery!Stop, Discovery!Exit
  <1> QED BY <1>1, <1>2

(* What the queue of results holds after a step.                            *)
LEMMA ResultsAfter ==
  ASSUME DiscoveryTyped, NothingIsNewer, [Discovery!Next]_(Discovery!vars)
  PROVE  \/ results' = results
         \/ results' = <<>>
         \/ results # <<>> /\ results' = Tail(results)
         \/ \E c \in Catalogs :
              /\ results' = Append(results, c)
              /\ c.generation = latest /\ latest' = latest /\ c.apps \in 0 .. installed
              /\ c.generation >= 1 /\ (c.apps # 0 \/ ~FoundIsInstalled)
PROOF
  <1>1. CASE Discovery!TakeRequest
    <2>1. /\ scanRequest.generation = latest /\ latest >= 1 /\ latest \in Nat /\ cache \in Nat
          /\ cache <= installed /\ installed \in Nat /\ latest' = latest
      BY <1>1, TakeRequestEffect DEF NothingIsNewer, DiscoveryTyped, ScannerKeeps
    <2>2. /\ scanner'.generation = latest /\ scanner'.restored \in {0, cache}
          /\ \/ results' = results
             \/ /\ scanner'.restored # 0
                /\ results' = Append(results, [generation |-> scanner'.generation,
                                               apps |-> scanner'.restored])
      BY <1>1, <2>1, TakeRequestEffect
    <2>3. [generation |-> scanner'.generation, apps |-> scanner'.restored] \in Catalogs
      BY <2>1, <2>2 DEF Catalogs
    <2> QED BY <2>1, <2>2, <2>3
  <1>2. CASE Discovery!Found
    <2>1. /\ latest' = latest /\ latest >= 1 /\ latest \in Nat /\ installed \in Nat
          /\ scanner.found \in Nat /\ scanner.found <= installed
      BY <1>2, FoundEffect, ScannerFields DEF NothingIsNewer, DiscoveryTyped
    <2>2. \/ results' = results
          \/ /\ scanner.generation = latest /\ (scanner.found # 0 \/ ~FoundIsInstalled)
             /\ results' = Append(results, [generation |-> scanner.generation,
                                            apps |-> scanner.found])
      BY <1>2, FoundEffect DEF ScanIsCurrent, FoundIsInstalled
    <2>3. scanner.generation = latest =>
            [generation |-> scanner.generation, apps |-> scanner.found] \in Catalogs
      BY <2>1 DEF Catalogs
    <2> QED BY <2>1, <2>2, <2>3
  <1>3. \/ Discovery!TakeRequest \/ Discovery!Found
        \/ results' = results \/ results' = <<>>
        \/ results # <<>> /\ results' = Tail(results)
    BY DiscoveryKinds, FailedEffect, RetryEffect, CompletedEffect
       DEF ScanStarts, ScanWaits, ScanFinds, ScanFails, ScanIsDropped,
           Discovery!OnDiscoveryFailed, Discovery!Stop, Discovery!Exit, Discovery!eventVars
  <1> QED BY <1>1, <1>2, <1>3

(* Results stay in order, of known generations and versions.                *)
LEMMA ResultsBounded ==
  ASSUME DiscoveryTyped, NothingIsNewer, ResultsInOrder, FoundIsInstalled,
         [Discovery!Next]_(Discovery!vars)
  PROVE  /\ \A i \in 1 .. Len(results') :
              results'[i].generation \in 1 .. latest' /\ results'[i].apps \in 1 .. installed'
         /\ ResultsInOrder'
PROOF
  <1>0. /\ latest' >= latest /\ installed' >= installed /\ latest \in Nat /\ installed \in Nat
        /\ latest' \in Nat /\ installed' \in Nat
        /\ results \in Seq(Catalogs) /\ Len(results) \in Nat
    BY CountsOnlyRise, LenIsNat DEF DiscoveryTyped
  <1>1. \A i \in 1 .. Len(results) :
          results[i].generation \in 1 .. latest /\ results[i].apps \in 1 .. installed
    BY DEF NothingIsNewer
  <1>2. \A i \in 1 .. Len(results) :
          results[i].generation \in 1 .. latest' /\ results[i].apps \in 1 .. installed'
    BY <1>0, <1>1
  <1>3. CASE results' = results
    BY <1>2, <1>3 DEF ResultsInOrder
  <1>4. CASE results' = <<>>
    BY <1>4 DEF ResultsInOrder
  <1>5. CASE results # <<>> /\ results' = Tail(results)
    <2>1. /\ Len(results') = Len(results) - 1
          /\ \A i \in 1 .. Len(results') :
               i + 1 \in 1 .. Len(results) /\ results'[i] = results[i + 1]
      BY <1>0, <1>5, TailPoints
    <2>2. ResultsInOrder'
      BY <1>0, <2>1 DEF ResultsInOrder
    <2> QED BY <1>2, <2>1, <2>2
  <1>6. ASSUME NEW c \in Catalogs, results' = Append(results, c),
               c.generation = latest, latest' = latest, c.apps \in 1 .. installed,
               c.generation >= 1
        PROVE  /\ \A i \in 1 .. Len(results') :
                    /\ results'[i].generation \in 1 .. latest'
                    /\ results'[i].apps \in 1 .. installed'
               /\ ResultsInOrder'
    <2>1. /\ Len(results') = Len(results) + 1 /\ results'[Len(results) + 1] = c
          /\ \A i \in 1 .. Len(results) : results'[i] = results[i]
      BY <1>0, <1>6, AppendPoints
    <2>2. \A i \in 1 .. Len(results') : i \in 1 .. Len(results) \/ i = Len(results) + 1
      BY <1>0, <2>1
    <2>3. c.generation \in 1 .. latest' /\ c.apps \in 1 .. installed'
      BY <1>0, <1>6
    <2>4. ASSUME NEW i \in 1 .. Len(results'), NEW j \in 1 .. Len(results'), i <= j
          PROVE  results'[i].generation <= results'[j].generation
      <3>1. CASE j \in 1 .. Len(results)
        <4>1. i \in 1 .. Len(results)
          BY <1>0, <2>4, <3>1
        <4> QED BY <2>1, <2>4, <3>1, <4>1 DEF ResultsInOrder
      <3>2. CASE j = Len(results) + 1
        BY <1>0, <1>1, <1>6, <2>1, <2>2, <3>2
      <3> QED BY <2>2, <3>1, <3>2
    <2> QED BY <1>2, <2>1, <2>2, <2>3, <2>4 DEF ResultsInOrder
  <1> QED BY <1>0, <1>3, <1>4, <1>5, <1>6, ResultsAfter

(* No step makes a version or a generation newer than it can be.            *)
LEMMA NothingIsNewerStep ==
  ASSUME DiscoveryTyped, NothingIsNewer, ResultsInOrder, FoundIsInstalled,
         [Discovery!Next]_(Discovery!vars)
  PROVE  NothingIsNewer'
PROOF
  <1> SUFFICES /\ apps' <= installed' /\ cache' <= installed'
               /\ latest' >= 1
               /\ (scanRequest' # Discovery!NoRequest => scanRequest'.generation = latest')
               /\ scanner'.generation <= latest' /\ scanner'.restored <= installed'
               /\ scanner'.found <= installed' /\ attempts'.generation <= latest'
    BY CountsOnlyRise, ResultsBounded DEF NothingIsNewer
  <1>0. /\ installed' \in Nat /\ installed' >= installed /\ latest' \in {latest, latest + 1}
        /\ (latest' # latest => ScanStarts \/ Discovery!Stop)
    BY CountsOnlyRise
  <1>1. /\ installed \in Nat /\ apps \in Nat /\ cache \in Nat /\ latest \in Nat
        /\ scanner.generation \in Nat /\ scanner.restored \in Nat /\ scanner.found \in Nat
        /\ attempts \in [generation : Nat, failures : Nat]
    BY ScannerFields DEF DiscoveryTyped
  <1>2. /\ apps <= installed /\ cache <= installed /\ latest >= 1 /\ installed >= 1
        /\ (scanRequest # Discovery!NoRequest => scanRequest.generation = latest)
        /\ scanner.generation <= latest /\ scanner.restored <= installed
        /\ scanner.found <= installed /\ attempts.generation <= latest
    BY DEF NothingIsNewer
  <1>3. CASE ScanStarts
    BY <1>0, <1>1, <1>2, <1>3 DEF ScanStarts
  <1>4. CASE ScanWaits
    BY <1>0, <1>1, <1>2, <1>4 DEF ScanWaits
  <1>5. CASE Discovery!OnDiscoveryCompleted
    <2>1. /\ results \in Seq(Catalogs) /\ results # <<>>
      BY <1>5, CompletedEffect DEF DiscoveryTyped
    <2>2. results[1].apps <= installed /\ Head(results) = results[1]
      BY <2>1, <1>1, TailPoints DEF NothingIsNewer
    <2>3. apps' <= installed
      BY <1>2, <1>5, <2>2, CompletedEffect
    <2>4. UNCHANGED <<installed, cache, latest, scanRequest, scanner, attempts>>
      BY <1>5, CompletedEffect
    <2> QED BY <1>2, <2>3, <2>4
  <1>6. CASE Discovery!OnDiscoveryFailed
    BY <1>2, <1>6
       DEF Discovery!OnDiscoveryFailed, Discovery!serviceVars, Discovery!workerVars
  <1>7. CASE Discovery!Stop
    BY <1>0, <1>1, <1>2, <1>7
       DEF Discovery!Stop, Discovery!uiVars, Discovery!workerVars
  <1>8. CASE ScanFinds
    <2>1. /\ scanner'.generation = scanner.generation /\ scanner'.restored = scanner.restored
          /\ scanner'.found = installed
      BY <1>1, <1>8, ScannerFinds DEF ScanFinds, DiscoveryTyped
    <2> QED BY <1>1, <1>2, <1>8, <2>1 DEF ScanFinds, ScannerKeeps
  <1>9. CASE ScanFails
    <2>1. attempts'.generation = attempts.generation
      BY <1>1, <1>9 DEF ScanFails
    <2>2. /\ scanner'.generation \in {0, scanner.generation}
          /\ scanner'.restored \in {0, scanner.restored}
          /\ scanner'.found \in {0, scanner.found}
      <3>1. CASE scanner' = Discovery!Idle
        BY <3>1, ScannerStates
      <3>2. CASE scanner' = [scanner EXCEPT !.at = "failed"]
        BY <3>2, ScannerMoves DEF DiscoveryTyped
      <3> QED BY <1>9, <3>1, <3>2 DEF ScanFails
    <2> QED BY <1>1, <1>2, <1>9, <2>1, <2>2 DEF ScanFails, ScannerKeeps
  <1>10. CASE ScanIsDropped
    BY <1>1, <1>2, <1>10, ScannerStates DEF ScanIsDropped, ScannerKeeps
  <1>11. CASE Discovery!TakeRequest
    <2>1. /\ ScannerKeeps /\ scanRequest # Discovery!NoRequest
          /\ scanRequest' = Discovery!NoRequest
          /\ attempts' = IF attempts.generation = scanRequest.generation THEN attempts
                         ELSE [generation |-> scanRequest.generation, failures |-> 0]
          /\ scanner'.generation = scanRequest.generation /\ scanner'.found = 0
          /\ scanner'.restored \in {0, cache}
      BY <1>11, TakeRequestEffect
    <2>2. attempts'.generation = latest
      BY <1>2, <2>1
    <2> QED BY <1>1, <1>2, <2>1, <2>2 DEF ScannerKeeps
  <1>12. CASE Discovery!Found
    <2>1. /\ UNCHANGED <<latest, scanRequest, installed, apps, attempts>>
          /\ scanner' = Discovery!Idle /\ cache' \in {cache, scanner.found}
      BY <1>12, FoundEffect
    <2> QED BY <1>1, <1>2, <2>1, ScannerStates
  <1>13. CASE Discovery!Failed
    <2>1. /\ ScannerKeeps /\ UNCHANGED <<scanRequest, attempts>>
          /\ \/ scanner' = Discovery!Idle
             \/ scanner' = [scanner EXCEPT !.at = "waiting"]
      BY <1>13, FailedEffect
    <2>2. /\ scanner'.generation \in {0, scanner.generation}
          /\ scanner'.restored \in {0, scanner.restored}
          /\ scanner'.found \in {0, scanner.found}
      <3>1. CASE scanner' = Discovery!Idle
        BY <3>1, ScannerStates
      <3>2. CASE scanner' = [scanner EXCEPT !.at = "waiting"]
        BY <3>2, ScannerMoves DEF DiscoveryTyped
      <3> QED BY <2>1, <3>1, <3>2
    <2> QED BY <1>1, <1>2, <2>1, <2>2 DEF ScannerKeeps
  <1>14. CASE Discovery!Retry
    <2>1. /\ ScannerKeeps /\ UNCHANGED attempts /\ scanner' = Discovery!Idle
          /\ \/ scanRequest' = scanRequest
             \/ scanRequest' = [generation |-> latest, allowCache |-> FALSE]
      BY <1>14, RetryEffect
    <2> QED BY <1>1, <1>2, <2>1, ScannerStates DEF ScannerKeeps
  <1>15. CASE Discovery!Exit
    BY <1>1, <1>2, <1>15, ScannerStates
       DEF Discovery!Exit, Discovery!uiVars, Discovery!serviceVars
  <1> QED BY <1>3, <1>4, <1>5, <1>6, <1>7, <1>8, <1>9, <1>10, <1>11, <1>12, <1>13, <1>14, <1>15,
             DiscoveryKinds

(* A scan under way has an attempt left.                                    *)
LEMMA AttemptsAreLeftStep ==
  ASSUME DiscoveryTyped, NothingIsNewer, AttemptsAreLeft, [Discovery!Next]_(Discovery!vars)
  PROVE  AttemptsAreLeft'
PROOF
  <1>0. MaxAttempts \in Nat /\ MaxAttempts >= 1
    BY WorkersConstants
  <1>1. /\ latest \in Nat /\ scanner.generation \in Nat /\ scanner \in Scanners
        /\ attempts \in [generation : Nat, failures : Nat]
        /\ attempts.generation \in Nat /\ attempts.failures \in Nat
    BY ScannerFields DEF DiscoveryTyped
  <1>2. /\ (scanRequest # Discovery!NoRequest => scanRequest.generation = latest)
        /\ attempts.generation <= latest
    BY DEF NothingIsNewer
  <1>3. CASE ScanStarts
    BY <1>1, <1>2, <1>3 DEF ScanStarts, AttemptsAreLeft, ScanIsCurrent, NothingIsNewer
  <1>4. CASE ScanWaits
    BY <1>4 DEF ScanWaits, AttemptsAreLeft, ScanIsCurrent
  <1>5. CASE Discovery!OnDiscoveryCompleted
    BY <1>5, CompletedEffect DEF AttemptsAreLeft, ScanIsCurrent
  <1>6. CASE Discovery!OnDiscoveryFailed
    BY <1>6 DEF Discovery!OnDiscoveryFailed, Discovery!serviceVars, Discovery!workerVars,
                AttemptsAreLeft, ScanIsCurrent
  <1>7. CASE Discovery!Stop
    BY <1>7 DEF Discovery!Stop, Discovery!uiVars, Discovery!workerVars, AttemptsAreLeft,
                ScanIsCurrent
  <1>8. CASE ScanFinds
    <2>1. /\ scanner'.generation = scanner.generation /\ scanner.at = "scanning"
          /\ UNCHANGED <<scanRequest, attempts, latest>>
      BY <1>1, <1>8, ScannerFinds DEF ScanFinds, DiscoveryTyped, ScannerKeeps
    <2> QED BY <2>1 DEF AttemptsAreLeft, ScanIsCurrent
  <1>9. CASE ScanFails
    <2>1. /\ attempts'.generation = attempts.generation
          /\ attempts'.failures = attempts.failures + 1
      BY <1>1, <1>9 DEF ScanFails
    <2>2. /\ scanner.at = "scanning" /\ scanRequest' = scanRequest
          /\ \/ ~ScanIsCurrent /\ scanner'.at = "idle"
             \/ scanner'.at = "failed" /\ scanner'.generation = scanner.generation
      <3>1. CASE scanner' = Discovery!Idle /\ ~ScanIsCurrent
        BY <1>9, <3>1, ScannerStates DEF ScanFails
      <3>2. CASE scanner' = [scanner EXCEPT !.at = "failed"]
        BY <1>1, <1>9, <3>2, ScannerMoves DEF ScanFails
      <3> QED BY <1>9, <3>1, <3>2 DEF ScanFails
    <2>3. attempts'.failures <= MaxAttempts
      BY <1>0, <1>1, <2>1, <2>2 DEF AttemptsAreLeft
    <2>4. latest' = latest
      BY <1>9 DEF ScanFails, ScannerKeeps
    <2>5. scanRequest # Discovery!NoRequest => scanRequest.generation # attempts.generation
      BY <1>2, <2>2 DEF AttemptsAreLeft, ScanIsCurrent
    <2> QED BY <2>1, <2>2, <2>3, <2>4, <2>5 DEF AttemptsAreLeft, ScanIsCurrent
  <1>10. CASE ScanIsDropped
    BY <1>10, ScannerStates DEF ScanIsDropped, AttemptsAreLeft
  <1>11. CASE Discovery!TakeRequest
    <2>1. /\ scanRequest # Discovery!NoRequest /\ scanRequest' = Discovery!NoRequest
          /\ attempts' = IF attempts.generation = scanRequest.generation THEN attempts
                         ELSE [generation |-> scanRequest.generation, failures |-> 0]
          /\ scanner'.at = "scanning" /\ scanner'.generation = scanRequest.generation
      BY <1>11, TakeRequestEffect
    <2>2. attempts'.generation = scanRequest.generation /\ attempts'.failures < MaxAttempts
      BY <1>0, <2>1 DEF AttemptsAreLeft
    <2> QED BY <1>0, <1>1, <2>1, <2>2 DEF AttemptsAreLeft
  <1>12. CASE Discovery!Found
    BY <1>12, FoundEffect, ScannerStates DEF AttemptsAreLeft
  <1>13. CASE Discovery!Failed
    <2>1. /\ UNCHANGED <<scanRequest, attempts, latest>> /\ scanner.at = "failed"
          /\ \/ scanner'.at = "idle"
             \/ /\ attempts.failures < MaxAttempts
                /\ scanner'.at = "waiting" /\ scanner'.generation = scanner.generation
      <3>1. CASE scanner' = Discovery!Idle
        BY <1>13, <3>1, FailedEffect, ScannerStates DEF ScannerKeeps
      <3>2. CASE attempts.failures < MaxAttempts /\ scanner' = [scanner EXCEPT !.at = "waiting"]
        BY <1>1, <1>13, <3>2, FailedEffect, ScannerMoves DEF ScannerKeeps
      <3> QED BY <1>13, <3>1, <3>2, FailedEffect
    <2> QED BY <2>1 DEF AttemptsAreLeft, ScanIsCurrent
  <1>14. CASE Discovery!Retry
    BY <1>1, <1>14, RetryEffect, ScannerStates DEF AttemptsAreLeft, ScannerKeeps, ScanIsCurrent
  <1>15. CASE Discovery!Exit
    BY <1>15, ScannerStates DEF Discovery!Exit, Discovery!serviceVars, AttemptsAreLeft
  <1> QED BY <1>3, <1>4, <1>5, <1>6, <1>7, <1>8, <1>9, <1>10, <1>11, <1>12, <1>13, <1>14, <1>15,
             DiscoveryKinds

(* Handling a result does not change what the launcher will show; a result  *)
(* that is sent does.                                                       *)
LEMMA WillShowAfterTaking ==
  ASSUME DiscoveryTyped, NothingIsNewer, ResultsInOrder, Discovery!OnDiscoveryCompleted
  PROVE  WillShow' = WillShow
PROOF
  <1>1. /\ results \in Seq(Catalogs) /\ results # <<>> /\ results' = Tail(results)
        /\ latest' = latest /\ latest \in Nat
        /\ \/ results[1].generation = latest /\ apps' = results[1].apps
           \/ results[1].generation # latest /\ apps' = apps
    <2>1. results \in Seq(Catalogs) /\ results # <<>>
      BY CompletedEffect DEF DiscoveryTyped
    <2>2. Head(results) = results[1]
      BY <2>1, TailPoints
    <2> QED BY <2>1, <2>2, CompletedEffect DEF DiscoveryTyped
  <1>2. /\ Len(results) \in Nat /\ Len(results) >= 1 /\ Len(results') = Len(results) - 1
        /\ \A i \in 1 .. Len(results') :
             i + 1 \in 1 .. Len(results) /\ results'[i] = results[i + 1]
    BY <1>1, TailPoints
  <1>3. CASE Len(results) = 1
    <2>1. results' = <<>>
      <3>1. results' \in Seq(Catalogs) /\ Len(results') = 0
        BY <1>1, <1>2, <1>3, TailPoints
      <3> QED BY <3>1
    <2> QED BY <1>1, <1>3, <2>1 DEF WillShow
  <1>4. CASE Len(results) # 1
    <2>1. results' # <<>> /\ Len(results') \in 1 .. Len(results')
      BY <1>2, <1>4
    <2>2. results'[Len(results')] = results[Len(results)]
      <3>1. results'[Len(results')] = results[Len(results') + 1]
        BY <1>2, <2>1
      <3>2. Len(results') + 1 = Len(results)
        BY <1>2
      <3> QED BY <3>1, <3>2
    <2>3. /\ 1 \in 1 .. Len(results) /\ Len(results) \in 1 .. Len(results)
          /\ 1 <= Len(results)
      BY <1>2
    <2>4. results[1].generation <= results[Len(results)].generation
      BY <2>3 DEF ResultsInOrder
    <2>5. /\ results[Len(results)].generation \in 1 .. latest
          /\ results[1].generation \in 1 .. latest
      BY <2>3 DEF NothingIsNewer
    <2>6. results[Len(results)].generation # latest => apps' = apps
      BY <1>1, <2>4, <2>5
    <2> QED BY <1>1, <2>1, <2>2, <2>6 DEF WillShow
  <1> QED BY <1>3, <1>4

(* A result of the latest request is what will be shown.                    *)
LEMMA WillShowAfterSending ==
  ASSUME DiscoveryTyped, NEW version \in Nat, ScanIsCurrent \/ scanner'.generation = latest,
         results' = Append(results, [generation |-> latest, apps |-> version]),
         latest' = latest
  PROVE  WillShow' = version
PROOF
  <1>1. [generation |-> latest, apps |-> version] \in Catalogs /\ results \in Seq(Catalogs)
    BY DEF DiscoveryTyped, Catalogs
  <1>2. /\ results' # <<>> /\ Len(results') = Len(results) + 1
        /\ results'[Len(results) + 1] = [generation |-> latest, apps |-> version]
    BY <1>1, AppendPoints
  <1> QED BY <1>2 DEF WillShow

(* What a scan found in the cache stays what will be shown.                 *)
LEMMA RestoredIsShownStep ==
  ASSUME DiscoveryTyped, NothingIsNewer, ResultsInOrder, RestoredIsShown,
         [Discovery!Next]_(Discovery!vars)
  PROVE  RestoredIsShown'
PROOF
  <1>1. /\ latest \in Nat /\ scanner.generation \in Nat /\ scanner \in Scanners
        /\ scanner.generation <= latest
        /\ scanner.restored \in Nat /\ scanner.found \in Nat /\ installed \in Nat
    BY ScannerFields DEF DiscoveryTyped, NothingIsNewer
  <1> USE DEF RestoredIsShown, ScanIsCurrent
  <1>3. CASE ScanStarts
    BY <1>1, <1>3 DEF ScanStarts
  <1>4. CASE ScanWaits
    BY <1>4 DEF ScanWaits, WillShow
  <1>5. CASE Discovery!OnDiscoveryCompleted
    BY <1>5, CompletedEffect, WillShowAfterTaking
  <1>6. CASE Discovery!OnDiscoveryFailed
    BY <1>6 DEF Discovery!OnDiscoveryFailed, Discovery!serviceVars, Discovery!workerVars, WillShow
  <1>7. CASE Discovery!Stop
    BY <1>1, <1>7 DEF Discovery!Stop, Discovery!workerVars
  <1>8. CASE ScanFinds
    <2>1. /\ scanner'.generation = scanner.generation /\ scanner.at = "scanning"
          /\ scanner'.restored = scanner.restored /\ WillShow' = WillShow /\ latest' = latest
      BY <1>1, <1>8, ScannerFinds DEF ScanFinds, ScannerKeeps, WillShow
    <2> QED BY <2>1
  <1>9. CASE ScanFails
    <2>1. scanner'.at \in {"idle", "failed"}
      <3>1. CASE scanner' = Discovery!Idle
        BY <3>1, ScannerStates
      <3>2. CASE scanner' = [scanner EXCEPT !.at = "failed"]
        BY <1>1, <3>2, ScannerMoves
      <3> QED BY <1>9, <3>1, <3>2 DEF ScanFails
    <2> QED BY <2>1
  <1>10. CASE ScanIsDropped
    BY <1>10, ScannerStates DEF ScanIsDropped
  <1>11. CASE Discovery!TakeRequest
    <2>1. /\ scanner' \in Scanners /\ ScannerKeeps
          /\ \/ scanner'.restored = 0
             \/ results' = Append(results, [generation |-> scanner'.generation,
                                            apps |-> scanner'.restored])
      BY <1>11, TakeRequestEffect
    <2>2. scanner'.restored \in Nat /\ latest' = latest
      BY <2>1, ScannerFields DEF ScannerKeeps
    <2>3. CASE scanner'.restored # 0 /\ scanner'.generation = latest'
      <3>1. WillShow' = scanner'.restored
        BY <2>1, <2>2, <2>3, WillShowAfterSending
      <3> QED BY <3>1
    <2> QED BY <2>3
  <1>12. CASE Discovery!Found
    BY <1>12, FoundEffect, ScannerStates
  <1>13. CASE Discovery!Failed
    <2>1. scanner'.at \in {"idle", "waiting"}
      <3>1. CASE scanner' = Discovery!Idle
        BY <3>1, ScannerStates
      <3>2. CASE scanner' = [scanner EXCEPT !.at = "waiting"]
        BY <1>1, <3>2, ScannerMoves
      <3> QED BY <1>13, <3>1, <3>2, FailedEffect
    <2> QED BY <2>1
  <1>14. CASE Discovery!Retry
    BY <1>14, RetryEffect, ScannerStates
  <1>15. CASE Discovery!Exit
    BY <1>15, ScannerStates DEF Discovery!Exit
  <1> QED BY <1>3, <1>4, <1>5, <1>6, <1>7, <1>8, <1>9, <1>10, <1>11, <1>12, <1>13, <1>14, <1>15,
             DiscoveryKinds

(* What a scan found stays what is installed, or is looked at again.        *)
LEMMA FoundIsInstalledStep ==
  ASSUME DiscoveryTyped, NothingIsNewer, FoundIsInstalled, [Discovery!Next]_(Discovery!vars)
  PROVE  FoundIsInstalled'
PROOF
  <1>1. /\ latest \in Nat /\ scanner.generation \in Nat /\ scanner \in Scanners
        /\ scanner.generation <= latest /\ installed \in Nat /\ installed >= 1
    BY ScannerFields DEF DiscoveryTyped, NothingIsNewer
  <1> USE DEF FoundIsInstalled, ScanIsCurrent
  <1>3. CASE ScanStarts
    BY <1>1, <1>3 DEF ScanStarts
  <1>4. CASE ScanWaits
    BY <1>4 DEF ScanWaits
  <1>5. CASE Discovery!OnDiscoveryCompleted
    BY <1>5, CompletedEffect
  <1>6. CASE Discovery!OnDiscoveryFailed
    BY <1>6 DEF Discovery!OnDiscoveryFailed, Discovery!serviceVars, Discovery!workerVars
  <1>7. CASE Discovery!Stop
    BY <1>7 DEF Discovery!Stop
  <1>8. CASE ScanFinds
    <2>1. scanner'.found = installed /\ installed' = installed
      BY <1>1, <1>8, ScannerFinds DEF ScanFinds, ScannerKeeps
    <2> QED BY <1>1, <2>1
  <1>9. CASE ScanFails
    <2>1. scanner'.at \in {"idle", "failed"}
      <3>1. CASE scanner' = Discovery!Idle
        BY <3>1, ScannerStates
      <3>2. CASE scanner' = [scanner EXCEPT !.at = "failed"]
        BY <1>1, <3>2, ScannerMoves
      <3> QED BY <1>9, <3>1, <3>2 DEF ScanFails
    <2> QED BY <2>1
  <1>10. CASE ScanIsDropped
    BY <1>10, ScannerStates DEF ScanIsDropped
  <1>11. CASE Discovery!TakeRequest
    BY <1>11, TakeRequestEffect
  <1>12. CASE Discovery!Found
    BY <1>12, FoundEffect, ScannerStates
  <1>13. CASE Discovery!Failed
    <2>1. scanner'.at \in {"idle", "waiting"}
      <3>1. CASE scanner' = Discovery!Idle
        BY <3>1, ScannerStates
      <3>2. CASE scanner' = [scanner EXCEPT !.at = "waiting"]
        BY <1>1, <3>2, ScannerMoves
      <3> QED BY <1>13, <3>1, <3>2, FailedEffect
    <2> QED BY <2>1
  <1>14. CASE Discovery!Retry
    BY <1>14, RetryEffect, ScannerStates
  <1>15. CASE Discovery!Exit
    BY <1>15, ScannerStates DEF Discovery!Exit
  <1> QED BY <1>3, <1>4, <1>5, <1>6, <1>7, <1>8, <1>9, <1>10, <1>11, <1>12, <1>13, <1>14, <1>15,
             DiscoveryKinds

(* What is installed is shown, on its way, looked for or remembered.        *)
LEMMA CatalogIsSoughtStep ==
  ASSUME DiscoveryTyped, NothingIsNewer, ResultsInOrder, RestoredIsShown, FoundIsInstalled,
         CatalogIsSought, [Discovery!Next]_(Discovery!vars)
  PROVE  CatalogIsSought'
PROOF
  <1>1. /\ latest \in Nat /\ latest >= 1 /\ scanner.generation \in Nat /\ scanner \in Scanners
        /\ scanner.found \in Nat /\ failures \in Nat
        /\ (scanRequest # Discovery!NoRequest => scanRequest.generation = latest)
    BY ScannerFields DEF DiscoveryTyped, NothingIsNewer
  <1>2. \A g \in Nat : g >= 1 =>
          [generation |-> g, allowCache |-> FALSE] # Discovery!NoRequest
    BY DEF Discovery!NoRequest
  <1> USE DEF CatalogIsSought, ScanIsCurrent
  <1>3. CASE ScanStarts
    BY <1>1, <1>2, <1>3 DEF ScanStarts
  <1>4. CASE ScanWaits
    BY <1>4 DEF ScanWaits, WillShow
  <1>5. CASE Discovery!OnDiscoveryCompleted
    BY <1>5, CompletedEffect, WillShowAfterTaking
  <1>6. CASE Discovery!OnDiscoveryFailed
    BY <1>6 DEF Discovery!OnDiscoveryFailed
  <1>7. CASE Discovery!Stop
    BY <1>7 DEF Discovery!Stop
  <1>8. CASE ScanFinds
    <2>1. /\ scanner'.generation = scanner.generation /\ scanner'.at = "found"
          /\ scanner.at = "scanning" /\ WillShow' = WillShow
          /\ UNCHANGED <<latest, installed, refreshPending, failures, scanRequest, scanStopping>>
      BY <1>1, <1>8, ScannerFinds DEF ScanFinds, ScannerKeeps, DiscoveryTyped, WillShow
    <2> QED BY <2>1
  <1>9. CASE ScanFails
    <2>1. /\ scanner.at = "scanning" /\ WillShow' = WillShow
          /\ UNCHANGED <<latest, installed, refreshPending, failures, scanRequest, scanStopping>>
      BY <1>9 DEF ScanFails, ScannerKeeps, WillShow
    <2>2. \/ ~ScanIsCurrent
          \/ scanner'.at = "failed" /\ scanner'.generation = scanner.generation
      <3>1. CASE scanner' = [scanner EXCEPT !.at = "failed"]
        BY <1>1, <3>1, ScannerMoves
      <3> QED BY <1>9, <3>1 DEF ScanFails
    <2> QED BY <2>1, <2>2
  <1>10. CASE ScanIsDropped
    BY <1>10 DEF ScanIsDropped, ScannerKeeps, WillShow
  <1>11. CASE Discovery!TakeRequest
    <2>1. scanner'.at = "scanning" /\ scanner'.generation = latest /\ latest' = latest
      BY <1>1, <1>11, TakeRequestEffect DEF ScannerKeeps
    <2> QED BY <2>1
  <1>12. CASE Discovery!Found
    <2>1. /\ UNCHANGED <<latest, installed, refreshPending, failures, scanRequest, scanStopping,
                         apps>>
          /\ scanner.at = "found"
      BY <1>12, FoundEffect
    <2>2. CASE ScanIsCurrent /\ ~scanStopping /\ ~refreshPending
      <3>1. scanner.found = installed /\ scanner.found # 0
        BY <2>1, <2>2 DEF FoundIsInstalled
      <3>2. CASE results' = Append(results, [generation |-> scanner.generation,
                                             apps |-> scanner.found])
        <4>1. WillShow' = installed
          BY <1>1, <2>1, <2>2, <3>1, <3>2, WillShowAfterSending
        <4> QED BY <2>1, <4>1
      <3>3. CASE results' = results /\ scanner.found = scanner.restored
        <4>1. WillShow = installed
          BY <2>1, <2>2, <3>1, <3>3 DEF RestoredIsShown
        <4> QED BY <2>1, <3>3, <4>1 DEF WillShow
      <3> QED BY <1>12, <2>2, <3>2, <3>3, FoundEffect
    <2>3. CASE ~ScanIsCurrent /\ ~scanStopping
      <3>1. results' = results
        BY <1>12, <2>3, FoundEffect
      <3> QED BY <2>1, <2>3, <3>1 DEF WillShow
    <2> QED BY <2>1, <2>2, <2>3
  <1>13. CASE Discovery!Failed
    <2>1. /\ WillShow' = WillShow /\ failures' \in Nat /\ failures' >= failures
          /\ UNCHANGED <<latest, installed, refreshPending, scanRequest, scanStopping>>
      BY <1>13, FailedEffect DEF ScannerKeeps, WillShow
    <2>2. \/ scanStopping \/ failures' > 0
          \/ scanner'.at = "waiting" /\ scanner'.generation = scanner.generation
      <3>1. CASE scanner' = [scanner EXCEPT !.at = "waiting"]
        BY <1>1, <3>1, ScannerMoves
      <3> QED BY <1>13, <3>1, FailedEffect
    <2> QED BY <1>1, <2>1, <2>2
  <1>14. CASE Discovery!Retry
    <2>1. /\ WillShow' = WillShow
          /\ UNCHANGED <<latest, installed, refreshPending, failures, scanStopping>>
          /\ scanner.at = "waiting"
      BY <1>14, RetryEffect DEF ScannerKeeps, WillShow
    <2>2. \/ scanRequest' = scanRequest
          \/ scanRequest' # Discovery!NoRequest
      BY <1>14, RetryEffect, <1>1, <1>2
    <2>3. ScanIsCurrent /\ ~scanStopping => scanRequest' # Discovery!NoRequest
      BY <1>14, RetryEffect, <1>1, <1>2
    <2> QED BY <2>1, <2>2, <2>3
  <1>15. CASE Discovery!Exit
    BY <1>15 DEF Discovery!Exit, Discovery!uiVars, Discovery!serviceVars, Discovery!eventVars,
                 WillShow
  <1> QED BY <1>3, <1>4, <1>5, <1>6, <1>7, <1>8, <1>9, <1>10, <1>11, <1>12, <1>13, <1>14, <1>15,
             DiscoveryKinds

(* Every step keeps the invariant.                                          *)
LEMMA DiscoveryStep == DiscoveryInv /\ [Discovery!Next]_(Discovery!vars) => DiscoveryInv'
  BY DiscoveryTypes, NothingIsNewerStep, AttemptsAreLeftStep, ResultsBounded,
     RestoredIsShownStep, FoundIsInstalledStep, CatalogIsSoughtStep DEF DiscoveryInv

(* The invariant says what the run checks.                                  *)
LEMMA DiscoveryIsRight == DiscoveryInv => Discovery!TypeOK /\ Discovery!CatalogIsCurrent
PROOF
  <1> SUFFICES ASSUME DiscoveryInv PROVE Discovery!TypeOK /\ Discovery!CatalogIsCurrent
    OBVIOUS
  <1> USE DEF DiscoveryInv
  <1>1. Discovery!CatalogIsCurrent
    BY DEF Discovery!CatalogIsCurrent, Discovery!AtRest, CatalogIsSought, WillShow,
           DiscoveryTyped
  <1>2. MaxActs \in Nat /\ MaxAttempts \in Nat
    BY MaxActsIsNatural, WorkersConstants
  <1>3. scanner \in [at : {"idle", "scanning", "found", "failed", "waiting", "exited"},
                     generation : 0 .. latest, allowCache : BOOLEAN,
                     restored : 0 .. installed, found : 0 .. installed]
    <2>1. /\ scanner \in Scanners /\ latest \in Nat /\ installed \in Nat
          /\ scanner.generation <= latest /\ scanner.restored <= installed
          /\ scanner.found <= installed
      BY DEF DiscoveryTyped, NothingIsNewer
    <2>2. /\ scanner.generation \in 0 .. latest /\ scanner.restored \in 0 .. installed
          /\ scanner.found \in 0 .. installed
      BY <2>1, ScannerFields
    <2> QED BY <2>1, <2>2 DEF Scanners
  <1>4. attempts \in [generation : 0 .. latest, failures : 0 .. MaxAttempts]
    <2>1. /\ attempts \in [generation : Nat, failures : Nat] /\ latest \in Nat
          /\ attempts.generation <= latest /\ attempts.failures <= MaxAttempts
      BY DEF DiscoveryTyped, NothingIsNewer, AttemptsAreLeft
    <2>2. attempts.generation \in 0 .. latest /\ attempts.failures \in 0 .. MaxAttempts
      BY <1>2, <2>1
    <2> QED BY <2>1, <2>2
  <1>5. results \in Seq([generation : 1 .. latest, apps : 1 .. installed])
    <2>1. results \in Seq(Catalogs) /\ Len(results) \in Nat
      BY LenIsNat DEF DiscoveryTyped
    <2>2. ASSUME NEW i \in 1 .. Len(results)
          PROVE  results[i] \in [generation : 1 .. latest, apps : 1 .. installed]
      <3>1. results[i] \in Catalogs
        BY <2>1
      <3>2. results[i].generation \in 1 .. latest /\ results[i].apps \in 1 .. installed
        BY DEF NothingIsNewer
      <3> QED BY <3>1, <3>2 DEF Catalogs
    <2> QED BY <2>1, <2>2, SeqOfElements
  <1>6. installed \in 1 .. (MaxActs + 1) /\ {apps, cache} \subseteq 0 .. installed
    BY <1>2 DEF DiscoveryTyped, NothingIsNewer
  <1>7. scanRequest.generation \in {0, latest} /\ scanRequest.allowCache \in BOOLEAN
    BY DEF DiscoveryTyped, NothingIsNewer, Discovery!NoRequest
  <1>8. latest \in Nat \ {0} /\ failures \in Nat /\ scanActs \in 0 .. MaxActs
    BY <1>2 DEF DiscoveryTyped, NothingIsNewer
  <1>9. {interactive, refreshPending, refreshTimer, failed, scanStopping} \subseteq BOOLEAN
    BY DEF DiscoveryTyped
  <1> QED BY <1>1, <1>3, <1>4, <1>5, <1>6, <1>7, <1>8, <1>9 DEF Discovery!TypeOK

-----------------------------------------------------------------------------
(* A query is being answered.                                               *)
Serving == worker.at \in {"computing", "delivering"}

(* The order of the four generations: answered, served, pending, current.   *)
OrderInv ==
  /\ requested \in Nat /\ generation \in 0 .. requested
  /\ pending \in 0 .. generation
  /\ delivered \in 0 .. generation
  /\ worker = [at |-> worker.at, generation |-> worker.generation, entries |-> worker.entries]
  /\ pending # NoQuery => delivered < pending
  /\ Serving => worker.generation \in (delivered + 1) .. generation
  /\ Serving /\ pending # NoQuery => worker.generation < pending

(* The order holds at the start, and while the service is absent.           *)
LEMMA OrderInit == Init \/ Absent => OrderInv
PROOF
  <1>1. Exited = [at |-> "exited", generation |-> 0, entries |-> 0]
    BY DEF Exited, Idle
  <1> QED BY <1>1 DEF Init, Absent, NothingYet, OrderInv, Idle, Serving, NoQuery

(* What a step does to the four generations.                                *)
Bystands == UNCHANGED <<requested, generation, pending, delivered, worker>>

Asks ==   \* a search, or a cancellation that counts as one
  /\ requested' = requested + 1
  /\ \/ generation' = requested' /\ pending' \in {requested', NoQuery}
     \/ UNCHANGED <<generation, pending>>
  /\ UNCHANGED <<delivered, worker>>

Forgets ==   \* the service stops
  /\ pending' = NoQuery
  /\ UNCHANGED <<requested, generation, delivered, worker>>

TakesOther ==   \* the worker turns to a corpus, away from one, or exits
  /\ ~Serving /\ ~Serving'
  /\ worker' = [at |-> worker'.at, generation |-> worker'.generation,
                entries |-> worker'.entries]
  /\ UNCHANGED <<requested, generation, pending, delivered>>

Abandons ==
  /\ worker.at = "computing" /\ worker' = Idle
  /\ UNCHANGED <<requested, generation, pending, delivered>>

Continues ==
  /\ worker.at = "computing" /\ worker' = [worker EXCEPT !.at = "delivering"]
  /\ UNCHANGED <<requested, generation, pending, delivered>>

Kinds == \/ Bystands \/ Asks \/ Forgets \/ TakesOther \/ TakeQuery
         \/ Abandons \/ Continues \/ Deliver

(* The launcher asks, waits or stops; it never touches the worker.          *)
LEMMA LauncherKinds ==
  ASSUME \/ \E files \in BOOLEAN : ShowOverlay(files) \/ Type(files)
         \/ \E privacy \in BOOLEAN : ShowSettings(privacy)
         \/ Disable \/ Enable \/ Hide
         \/ OnFileIndexReady \/ OnSnapshotTimer
         \/ HandleEvents
         \/ Stop
  PROVE  Bystands \/ Asks \/ Forgets
PROOF
  <1>0. ASSUME NEW files \in BOOLEAN, NEW missing, NEW queue,
               RequestSearch(files, missing, queue),
               UNCHANGED <<delivered, worker>>
        PROVE  Asks
    BY <1>0 DEF RequestSearch, Asks
  <1>1. ASSUME NEW queue, NoSearch(queue), UNCHANGED <<delivered, worker>>
        PROVE  Bystands
    BY <1>1 DEF NoSearch, Bystands, searchVars
  <1>2. ASSUME NEW files \in BOOLEAN, ShowOverlay(files) \/ Type(files) PROVE Asks
    BY <1>0, <1>2 DEF ShowOverlay, Type, eventVars
  <1>3. ASSUME NEW privacy \in BOOLEAN, ShowSettings(privacy) PROVE Bystands
    BY <1>3 DEF ShowSettings, Bystands, searchVars, serviceVars, eventVars
  <1>4. CASE Disable
    BY <1>4 DEF Disable, Bystands, searchVars, serviceVars, eventVars
  <1>5. CASE Enable
    BY <1>5 DEF Enable, Bystands, searchVars, serviceVars, eventVars
  <1>6. CASE Hide
    BY <1>6 DEF Hide, ReleaseIndex, Asks, eventVars
  <1>7. CASE OnFileIndexReady
    <2>1. UNCHANGED <<delivered, worker>>
      BY <1>7 DEF OnFileIndexReady, eventVars
    <2>2. \/ \E queue : RequestSearch(TRUE, NotLoaded, queue)
          \/ \E queue : NoSearch(queue)
      BY <1>7 DEF OnFileIndexReady
    <2> QED BY <2>1, <2>2, <1>0, <1>1
  <1>8. CASE OnSnapshotTimer
    <2>1. UNCHANGED <<delivered, worker>>
      BY <1>8 DEF OnSnapshotTimer, eventVars
    <2>2. RequestSearch(inFiles, NotLoaded, jobs) \/ NoSearch(jobs)
      BY <1>8 DEF OnSnapshotTimer
    <2>3. CASE RequestSearch(inFiles, NotLoaded, jobs)
      BY <2>1, <2>3 DEF RequestSearch, Asks
    <2> QED BY <2>1, <2>2, <2>3, <1>1
  <1>9. CASE OnLoaded
    BY <1>9 DEF OnLoaded, Bystands, searchVars, eventVars
  <1>10. CASE OnProjection
    <2>1. UNCHANGED <<delivered, worker>>
      BY <1>10 DEF OnProjection
    <2>2. RequestSearch(inFiles, FALSE, jobs) \/ NoSearch(jobs)
      BY <1>10 DEF OnProjection
    <2>3. CASE RequestSearch(inFiles, FALSE, jobs)
      BY <2>1, <2>3 DEF RequestSearch, Asks
    <2> QED BY <2>1, <2>2, <2>3, <1>1
  <1>11. CASE OnAnswer
    BY <1>11 DEF OnAnswer, Bystands, serviceVars
  <1>12. CASE Stop
    BY <1>12 DEF Stop, Forgets, searchVars
  <1> QED BY <1>2, <1>3, <1>4, <1>5, <1>6, <1>7, <1>8, <1>9, <1>10, <1>11, <1>12
          DEF HandleEvents

(* The worker changes the numbers only by taking or answering a query.      *)
LEMMA WorkerKinds == ASSUME WorkerLoop PROVE Kinds
PROOF
  <1> USE DEF Kinds, launcherVars, searchVars
  <1>1. CASE TakeStorage
    BY <1>1 DEF TakeStorage, Steps, TakesOther, Serving
  <1>2. CASE TakeFiles
    BY <1>2 DEF TakeFiles, Steps, TakesOther, Serving
  <1>3. CASE TakeQuery
    BY <1>3
  <1>4. CASE Publish
    BY <1>4 DEF Publish, Idle, TakesOther, Serving
  <1>5. CASE Compute
    BY <1>5 DEF Compute, Abandons, Continues
  <1>6. CASE Deliver
    BY <1>6
  <1>7. CASE Exit
    BY <1>7 DEF Exit, Exited, Idle, TakesOther, Serving
  <1> QED BY <1>1, <1>2, <1>3, <1>4, <1>5, <1>6, <1>7 DEF WorkerLoop

(* Every step of the program is of one of these kinds.                      *)
LEMMA StepKinds == [Next]_vars => Kinds
PROOF
  <1>1. CASE UNCHANGED vars
    BY <1>1 DEF vars, searchVars, serviceVars, eventVars, Kinds, Bystands
  <1>2. CASE WorkerLoop
    BY <1>2, WorkerKinds
  <1> QED BY <1>1, <1>2, LauncherKinds DEF Next, Kinds

(* Each kind keeps the order; only TakeQuery needs that of what is pending. *)
LEMMA OrderStep == OrderInv /\ [Next]_vars => OrderInv'
PROOF
  <1> SUFFICES ASSUME OrderInv, Kinds PROVE OrderInv'
    BY StepKinds
  <1> USE DEF OrderInv, Serving, NoQuery
  <1>1. CASE Bystands
    BY <1>1 DEF Bystands
  <1>2. CASE Asks
    BY <1>2 DEF Asks
  <1>3. CASE Forgets
    BY <1>3 DEF Forgets
  <1>4. CASE TakesOther
    BY <1>4 DEF TakesOther
  <1>5. CASE TakeQuery
    BY <1>5 DEF TakeQuery, QueryIsNext, NothingPending, Steps, launcherVars, searchVars
  <1>6. CASE Abandons
    BY <1>6 DEF Abandons, Idle
  <1>7. CASE Continues
    BY <1>7 DEF Continues
  <1>8. CASE Deliver
    BY <1>8 DEF Deliver, Idle, launcherVars, searchVars
  <1> QED BY <1>1, <1>2, <1>3, <1>4, <1>5, <1>6, <1>7, <1>8 DEF Kinds

-----------------------------------------------------------------------------
(* The refinement.  The number served, as ImplementsLatestAnswer maps it.   *)
ServedNow == IF worker.at \in {"computing", "delivering"} THEN worker.generation ELSE 0

(* Nothing is asked, served or answered at the start.                       *)
LEMMA InitMaps == Init \/ Absent => Answers!Init
PROOF
  <1>1. Exited.at = "exited"
    BY DEF Exited, Idle
  <1> QED BY <1>1 DEF Init, Absent, NothingYet, Idle, Answers!Init

(* Each kind of step is one of LatestAnswer's, or none.                     *)
LEMMA StepMaps ==
  OrderInv /\ [Next]_vars =>
    [Answers!Ask \/ Answers!Serve \/ Answers!Finish]_<<generation, ServedNow, delivered>>
PROOF
  <1> SUFFICES ASSUME OrderInv, Kinds
               PROVE  [Answers!Ask \/ Answers!Serve \/ Answers!Finish]_<<generation, ServedNow,
                                                                        delivered>>
    BY StepKinds
  <1> USE DEF OrderInv, Serving, NoQuery, ServedNow
  <1>1. CASE Bystands
    BY <1>1 DEF Bystands
  <1>2. CASE Asks
    BY <1>2 DEF Asks, Answers!Ask
  <1>3. CASE Forgets
    BY <1>3 DEF Forgets
  <1>4. CASE TakesOther
    BY <1>4 DEF TakesOther
  <1>5. CASE TakeQuery
    BY <1>5 DEF TakeQuery, QueryIsNext, Steps, Answers!Serve
  <1>6. CASE Abandons
    BY <1>6 DEF Abandons, Idle, Answers!Finish
  <1>7. CASE Continues
    BY <1>7 DEF Continues
  <1>8. CASE Deliver
    BY <1>8 DEF Deliver, Idle, Answers!Finish
  <1> QED BY <1>1, <1>2, <1>3, <1>4, <1>5, <1>6, <1>7, <1>8 DEF Kinds

-----------------------------------------------------------------------------
(* File search.  The types, each on its own.                                *)
Jobs == [kind : {"load", "merge"}, generation : Nat]
FileWorkers == [at : {"idle", "emptying", "building", "computing", "delivering", "exited"},
                generation : Nat, entries : Nat]

FlagsTyped ==
  /\ inFiles \in BOOLEAN /\ enabled \in BOOLEAN /\ configured \in BOOLEAN
  /\ loaded \in BOOLEAN /\ loadPending \in BOOLEAN /\ projectionPending \in BOOLEAN
  /\ snapshotTimer \in BOOLEAN /\ stopping \in BOOLEAN /\ threw \in BOOLEAN
  /\ pendingFiles \in BOOLEAN

CountsTyped ==
  /\ fileIndex \in Nat /\ corpus \in Nat /\ handed \in Nat /\ stored \in Nat
  /\ shown \subseteq Nat
  /\ loadGeneration \in Nat /\ indexGeneration \in Nat /\ projectionGeneration \in Nat
  /\ requested \in Nat /\ generation \in Nat /\ delivered \in Nat
  /\ acts \in 0 .. MaxActs

QueuesTyped ==
  /\ view \in {"background", "settings", "overlay"}
  /\ jobs \in Seq(Jobs) /\ projections \in Seq(Update) /\ answers \in Seq(Update)
  /\ pendingStorage \in Update /\ worker \in FileWorkers

SearchTyped == FlagsTyped /\ CountsTyped /\ QueuesTyped

(* What the persistence worker is to do was not asked for later than now,   *)
(* and is not wanted any more in the background.                            *)
Newest(job, load, index) == IF job.kind = "load" THEN load ELSE index

NoneIsLater(queue, load, index) ==
  \A i \in 1 .. Len(queue) : queue[i].generation <= Newest(queue[i], load, index)
AllAreEarlier(queue, load, index) ==
  \A i \in 1 .. Len(queue) : queue[i].generation < Newest(queue[i], load, index)

JobsAreOld ==
  /\ NoneIsLater(jobs, loadGeneration, indexGeneration)
  /\ view = "background" =>
       AllAreEarlier(jobs, loadGeneration, indexGeneration) /\ ~configured

(* Files that wait for the worker are wanted.                               *)
FilesAreWanted ==
  /\ pendingStorage # NoFiles =>
       pendingStorage.generation = projectionGeneration /\ view # "background"
  /\ stored > 0

(* In the background the worker has given its files up or is about to.      *)
FilesAreGivenUp ==
  /\ worker.at = "emptying" => worker.entries = 0
  /\ view = "background" /\ ~stopping =>
       pendingFiles \/ worker.at = "emptying" \/ (corpus = 0 /\ worker.at # "building")

(* A corpus whose projection will make the launcher search again.           *)
CorpusIsComing ==
  \/ pendingStorage # NoFiles
  \/ worker.at = "building" /\ worker.generation = projectionGeneration
  \/ \E i \in 1 .. Len(projections) : projections[i].generation = projectionGeneration

(* A search of the overlay's files is the current one; unless another will  *)
(* follow it waits, or the corpus does not change under it and it is        *)
(* answered, or its answer shown, from that corpus.                         *)
SearchIsDone ==
  /\ ~pendingFiles /\ worker.at \notin {"building", "emptying"}
  /\ \A i \in 1 .. Len(answers) :
       answers[i].generation = requested => answers[i].entries = corpus
  /\ Serving /\ worker.generation = requested => worker.entries = corpus
  /\ \/ Serving /\ worker.generation = requested
     \/ \E i \in 1 .. Len(answers) : answers[i].generation = requested
     \/ shown = {corpus}

SearchFollows ==
  /\ \A i \in 1 .. Len(answers) : answers[i].generation <= delivered
  /\ view = "overlay" /\ inFiles => generation = requested
  /\ view = "overlay" /\ inFiles /\ ~threw /\ ~stopping /\ ~CorpusIsComing =>
       (pending # NoQuery /\ pending = requested) \/ SearchIsDone

SearchInv ==
  OrderInv /\ SearchTyped /\ JobsAreOld /\ FilesAreWanted /\ FilesAreGivenUp /\ SearchFollows

(* The fields of the worker that idles and of the one that has exited.      *)
LEMMA FileWorkerStates ==
  /\ Idle \in FileWorkers /\ Idle.at = "idle" /\ Idle.generation = 0 /\ Idle.entries = 0
  /\ Exited \in FileWorkers /\ Exited.at = "exited"
PROOF
  <1>1. Idle \in FileWorkers /\ Idle.at = "idle" /\ Idle.generation = 0 /\ Idle.entries = 0
    BY DEF Idle, FileWorkers
  <1>2. Exited \in FileWorkers /\ Exited.at = "exited"
    BY <1>1 DEF Exited, FileWorkers
  <1> QED BY <1>1, <1>2

(* The fields of the worker, one by one.                                    *)
LEMMA FileWorkerFields ==
  ASSUME NEW w \in FileWorkers
  PROVE  /\ w.at \in {"idle", "emptying", "building", "computing", "delivering", "exited"}
         /\ w.generation \in Nat /\ w.entries \in Nat
         /\ [w EXCEPT !.at = "delivering"] \in FileWorkers
         /\ [w EXCEPT !.at = "delivering"].at = "delivering"
         /\ [w EXCEPT !.at = "delivering"].generation = w.generation
         /\ [w EXCEPT !.at = "delivering"].entries = w.entries
  BY DEF FileWorkers

(* The invariant holds at the start, and while the service is absent.       *)
LEMMA SearchInit == Init \/ Absent => SearchInv
PROOF
  <1> SUFFICES ASSUME Init \/ Absent PROVE SearchInv
    OBVIOUS
  <1>0. NothingYet /\ worker \in {Idle, Exited} /\ stopping \in BOOLEAN
    BY DEF Init, Absent
  <1>1. worker \in FileWorkers /\ worker.at \in {"idle", "exited"}
    BY <1>0, FileWorkerStates
  <1>2. SearchTyped
    <2>1. FlagsTyped
      BY <1>0 DEF NothingYet, FlagsTyped
    <2>2. CountsTyped
      BY <1>0, MaxActsIsNatural DEF NothingYet, CountsTyped
    <2>3. NoFiles \in Update
      BY DEF NoFiles, Update
    <2>4. QueuesTyped
      BY <1>0, <1>1, <2>3 DEF NothingYet, QueuesTyped
    <2> QED BY <2>1, <2>2, <2>4 DEF SearchTyped
  <1>3. JobsAreOld /\ FilesAreWanted /\ FilesAreGivenUp
    BY <1>0, <1>1
       DEF NothingYet, JobsAreOld, NoneIsLater, AllAreEarlier, FilesAreWanted, FilesAreGivenUp
  <1>4. SearchFollows
    BY <1>0 DEF NothingYet, SearchFollows
  <1> QED BY <1>2, <1>3, <1>4, OrderInit DEF SearchInv

-----------------------------------------------------------------------------
(* A load that is asked for is added to what the persistence worker is to   *)
(* do.                                                                      *)
LEMMA EnsureKeepsJobs ==
  ASSUME NEW queue \in Seq(Jobs), NEW index \in Nat, NEW missing,
         loadGeneration \in Nat, loadPending \in BOOLEAN,
         NoneIsLater(queue, loadGeneration, index),
         EnsureFileIndexLoaded(missing, queue)
  PROVE  /\ jobs' \in Seq(Jobs) /\ loadGeneration' \in Nat /\ loadPending' \in BOOLEAN
         /\ NoneIsLater(jobs', loadGeneration', index)
PROOF
  <1>1. CASE missing
    <2> DEFINE job == [kind |-> "load", generation |-> loadGeneration + 1]
    <2>1. /\ loadPending' = TRUE /\ loadGeneration' = loadGeneration + 1
          /\ jobs' = Append(queue, job)
      BY <1>1 DEF EnsureFileIndexLoaded
    <2>2. job \in Jobs /\ job.generation = loadGeneration + 1 /\ job.kind = "load"
      BY DEF Jobs
    <2> HIDE DEF job
    <2>3. /\ Len(queue) \in Nat /\ jobs' \in Seq(Jobs) /\ Len(jobs') = Len(queue) + 1
          /\ jobs'[Len(queue) + 1] = job
          /\ \A i \in 1 .. Len(queue) : jobs'[i] = queue[i]
      BY <2>1, <2>2, AppendPoints
    <2>4. ASSUME NEW i \in 1 .. Len(jobs')
          PROVE  jobs'[i].generation <= Newest(jobs'[i], loadGeneration', index)
      <3>1. CASE i = Len(queue) + 1
        BY <2>1, <2>2, <2>3, <3>1 DEF Newest
      <3>2. CASE i \in 1 .. Len(queue)
        <4>1. queue[i].generation \in Nat
          <5>1. queue[i] \in Jobs
            BY <3>2
          <5> QED BY <5>1 DEF Jobs
        <4>2. queue[i].generation <= Newest(queue[i], loadGeneration, index)
          BY <3>2 DEF NoneIsLater
        <4> QED BY <2>1, <2>3, <3>2, <4>1, <4>2 DEF Newest
      <3> QED BY <2>3, <3>1, <3>2
    <2> QED BY <2>1, <2>3, <2>4 DEF NoneIsLater
  <1>2. CASE ~missing
    BY <1>2 DEF EnsureFileIndexLoaded
  <1> QED BY <1>1, <1>2

(* What the launcher asks the persistence worker for does not get older.    *)
LEMMA LaterIsLater ==
  ASSUME NEW queue \in Seq(Jobs), NEW load \in Nat, NEW index \in Nat,
         NEW load2 \in Nat, NEW index2 \in Nat, load <= load2, index <= index2,
         NoneIsLater(queue, load, index)
  PROVE  /\ NoneIsLater(queue, load2, index2)
         /\ load < load2 /\ index < index2 => AllAreEarlier(queue, load2, index2)
PROOF
  <1>1. ASSUME NEW i \in 1 .. Len(queue)
        PROVE  /\ queue[i].generation \in Nat
               /\ queue[i].generation <= Newest(queue[i], load, index)
    <2>1. queue[i] \in Jobs
      OBVIOUS
    <2>2. queue[i].generation \in Nat
      BY <2>1 DEF Jobs
    <2> QED BY <2>2 DEF NoneIsLater
  <1> QED BY <1>1 DEF NoneIsLater, AllAreEarlier, Newest

(* A search asks for the newest generation, and may load the index.         *)
LEMMA RequestSearchEffect ==
  ASSUME NEW queue \in Seq(Jobs), NEW files \in BOOLEAN, NEW missing,
         SearchTyped, NoneIsLater(queue, loadGeneration, indexGeneration),
         RequestSearch(files, missing, queue)
  PROVE  /\ requested' = requested + 1 /\ shown' = {}
         /\ (files => generation' = requested + 1 /\ pending' = requested + 1)
         /\ (~files => UNCHANGED <<generation, pending>>)
         /\ jobs' \in Seq(Jobs) /\ loadGeneration' \in Nat /\ loadPending' \in BOOLEAN
         /\ indexGeneration' \in Nat /\ configured' \in BOOLEAN
         /\ NoneIsLater(jobs', loadGeneration', indexGeneration')
PROOF
  <1>1. /\ requested' = requested + 1 /\ shown' = {}
        /\ (files => generation' = requested + 1 /\ pending' = requested + 1)
        /\ (~files => UNCHANGED <<generation, pending>>)
    BY DEF RequestSearch
  <1>2. /\ indexGeneration \in Nat /\ loadGeneration \in Nat /\ loadPending \in BOOLEAN
        /\ configured \in BOOLEAN
    BY DEF SearchTyped, FlagsTyped, CountsTyped
  <1>3. indexGeneration' \in Nat /\ indexGeneration <= indexGeneration' /\ configured' \in BOOLEAN
    <2>1. configured' \in BOOLEAN
      BY <1>2 DEF RequestSearch, ConfigureFileIndex
    <2>2. indexGeneration' \in {indexGeneration, indexGeneration + 1}
      BY <1>2 DEF RequestSearch, ConfigureFileIndex
    <2> QED BY <1>2, <2>1, <2>2
  <1>4. NoneIsLater(queue, loadGeneration, indexGeneration')
    BY <1>2, <1>3, LaterIsLater
  <1>5. /\ jobs' \in Seq(Jobs) /\ loadGeneration' \in Nat /\ loadPending' \in BOOLEAN
        /\ NoneIsLater(jobs', loadGeneration', indexGeneration')
    BY <1>2, <1>3, <1>4, EnsureKeepsJobs DEF RequestSearch
  <1> QED BY <1>1, <1>3, <1>5

(* Without a search only the queue of the persistence worker may change.    *)
LEMMA NoSearchEffect ==
  ASSUME NEW queue \in Seq(Jobs), SearchTyped,
         NoneIsLater(queue, loadGeneration, indexGeneration), NoSearch(queue)
  PROVE  /\ UNCHANGED <<requested, shown, generation, pending, loadPending, loadGeneration,
                        indexGeneration, configured>>
         /\ jobs' = queue
  BY DEF NoSearch, searchVars

-----------------------------------------------------------------------------
(* What the launcher's handlers do to a search.                             *)
UnderWay == <<projectionGeneration, stored, pendingFiles, pendingStorage, corpus, handed, worker,
              answers, delivered, stopping, threw>>

ProjectionsTaken ==
  projections' = projections \/ (projections # <<>> /\ projections' = Tail(projections))

Searches ==   \* a window that is or comes in front searches
  /\ view' = "overlay" /\ inFiles' \in BOOLEAN
  /\ requested' = requested + 1 /\ shown' = {}
  /\ (inFiles' => generation' = requested + 1 /\ pending' = requested + 1)
  /\ (~inFiles' => UNCHANGED <<generation, pending>>)
  /\ jobs' \in Seq(Jobs) /\ NoneIsLater(jobs', loadGeneration', indexGeneration')
  /\ loadGeneration' \in Nat /\ indexGeneration' \in Nat
  /\ configured' \in BOOLEAN /\ loadPending' \in BOOLEAN
  /\ ProjectionsTaken
  /\ UNCHANGED UnderWay

Rests ==   \* nothing is searched; a window may come in front that does not search
  /\ view' = view \/ view' = "settings"
  /\ jobs' \in Seq(Jobs) /\ NoneIsLater(jobs', loadGeneration', indexGeneration')
  /\ loadGeneration' \in Nat /\ indexGeneration' \in Nat
  /\ configured' \in BOOLEAN /\ loadPending' \in BOOLEAN
  /\ view' = "background" =>
       UNCHANGED <<jobs, loadGeneration, indexGeneration, configured>>
  /\ \/ projections' = projections
     \/ /\ projections # <<>> /\ projections' = Tail(projections)
        /\ Head(projections).generation # projectionGeneration \/ view # "overlay"
  /\ UNCHANGED <<inFiles, requested, shown, generation, pending>>
  /\ UNCHANGED UnderWay

(* The launcher's steps that search.                                        *)
LEMMA SearchKinds ==
  ASSUME SearchTyped, JobsAreOld,
         \/ UNCHANGED vars
         \/ \E files \in BOOLEAN : ShowOverlay(files) \/ Type(files)
         \/ \E privacy \in BOOLEAN : ShowSettings(privacy)
         \/ Disable \/ Enable
         \/ OnFileIndexReady \/ OnSnapshotTimer \/ OnProjection
  PROVE  Searches \/ Rests
PROOF
  <1>0. /\ jobs \in Seq(Jobs) /\ loadGeneration \in Nat /\ indexGeneration \in Nat
        /\ configured \in BOOLEAN /\ loadPending \in BOOLEAN /\ inFiles \in BOOLEAN
        /\ NoneIsLater(jobs, loadGeneration, indexGeneration)
        /\ (view = "background" => ~configured)
    BY DEF SearchTyped, FlagsTyped, CountsTyped, QueuesTyped, JobsAreOld
  <1>1. CASE UNCHANGED vars
    BY <1>0, <1>1 DEF vars, windowVars, indexVars, genVars, searchVars, storeVars, serviceVars,
                      corpusVars, eventVars, Rests, UnderWay
  <1>2. ASSUME NEW files \in BOOLEAN, ShowOverlay(files) \/ Type(files)
        PROVE  Searches
    <2>1. /\ view' = "overlay" /\ inFiles' = files /\ RequestSearch(files, NotLoaded, jobs)
          /\ UNCHANGED <<projections, UnderWay>>
      BY <1>2 DEF ShowOverlay, Type, projectionVars, corpusVars, eventVars, UnderWay
    <2> QED BY <1>0, <2>1, RequestSearchEffect DEF Searches, ProjectionsTaken
  <1>3. ASSUME NEW privacy \in BOOLEAN, ShowSettings(privacy)
        PROVE  Rests
    <2>1. /\ view' = "settings"
          /\ EnsureFileIndexLoaded(privacy /\ enabled /\ NotLoaded, jobs)
          /\ UNCHANGED <<configured, indexGeneration, projections, UnderWay, inFiles, requested,
                         shown, generation, pending>>
      BY <1>3 DEF ShowSettings, projectionVars, serviceVars, searchVars, corpusVars, eventVars,
                  UnderWay
    <2>2. /\ jobs' \in Seq(Jobs) /\ loadGeneration' \in Nat /\ loadPending' \in BOOLEAN
          /\ NoneIsLater(jobs', loadGeneration', indexGeneration)
      BY <1>0, <2>1, EnsureKeepsJobs
    <2> QED BY <1>0, <2>1, <2>2 DEF Rests
  <1>4. CASE Disable
    <2>1. /\ view = "settings" /\ view' = view
          /\ configured' = FALSE /\ loadPending' = FALSE /\ loadGeneration' = loadGeneration + 1
          /\ UNCHANGED <<jobs, indexGeneration, projections, UnderWay, inFiles, requested,
                         shown, generation, pending>>
      BY <1>4 DEF Disable, windowVars, searchVars, storeVars, serviceVars, corpusVars, eventVars,
                  UnderWay
    <2>2. NoneIsLater(jobs, loadGeneration', indexGeneration)
      BY <1>0, <2>1, LaterIsLater
    <2>3. loadGeneration' \in Nat
      BY <1>0, <2>1
    <2>4. configured' \in BOOLEAN /\ loadPending' \in BOOLEAN
      BY <2>1
    <2> QED BY <1>0, <2>1, <2>2, <2>3, <2>4 DEF Rests
  <1>5. CASE Enable
    <2>1. /\ view = "settings" /\ view' = view /\ configured' = TRUE
          /\ indexGeneration' = indexGeneration + 1
          /\ EnsureFileIndexLoaded(NotLoaded, jobs)
          /\ UNCHANGED <<projections, UnderWay, inFiles, requested, shown, generation, pending>>
      BY <1>5 DEF Enable, ConfigureFileIndex, windowVars, searchVars, serviceVars,
                  projectionVars, corpusVars, eventVars, UnderWay
    <2>2. NoneIsLater(jobs, loadGeneration, indexGeneration + 1)
      BY <1>0, <2>1, LaterIsLater
    <2>3. /\ jobs' \in Seq(Jobs) /\ loadGeneration' \in Nat /\ loadPending' \in BOOLEAN
          /\ NoneIsLater(jobs', loadGeneration', indexGeneration + 1)
      BY <1>0, <2>1, <2>2, EnsureKeepsJobs
    <2> QED BY <1>0, <2>1, <2>3 DEF Rests
  <1>6. CASE OnFileIndexReady
    <2> DEFINE merge == [kind |-> "merge", generation |-> indexGeneration]
               queue == Append(jobs, merge)
    <2>1. /\ configured /\ view' = view /\ inFiles' = inFiles
          /\ UNCHANGED <<projections, UnderWay>>
      BY <1>6 DEF OnFileIndexReady, windowVars, projectionVars, corpusVars, eventVars, UnderWay
    <2>2. IF view = "overlay" /\ inFiles THEN RequestSearch(TRUE, NotLoaded, queue)
                                         ELSE NoSearch(queue)
      BY <1>6 DEF OnFileIndexReady
    <2>3. merge \in Jobs /\ merge.generation = indexGeneration /\ merge.kind = "merge"
      BY <1>0 DEF Jobs
    <2>4. /\ Len(jobs) \in Nat /\ queue \in Seq(Jobs) /\ Len(queue) = Len(jobs) + 1
          /\ queue[Len(jobs) + 1] = merge
          /\ \A i \in 1 .. Len(jobs) : queue[i] = jobs[i]
      <3> HIDE DEF merge
      <3> QED BY <1>0, <2>3, AppendPoints
    <2>5. NoneIsLater(queue, loadGeneration, indexGeneration)
      <3> HIDE DEF queue, merge
      <3>1. ASSUME NEW i \in 1 .. Len(queue)
            PROVE  queue[i].generation <= Newest(queue[i], loadGeneration, indexGeneration)
        <4>1. CASE i = Len(jobs) + 1
          BY <1>0, <2>3, <2>4, <4>1 DEF Newest
        <4>2. CASE i \in 1 .. Len(jobs)
          BY <1>0, <2>4, <4>2 DEF NoneIsLater
        <4> QED BY <2>4, <4>1, <4>2
      <3> QED BY <3>1 DEF NoneIsLater
    <2> HIDE DEF queue
    <2>6. CASE view = "overlay" /\ inFiles
      BY <1>0, <2>1, <2>2, <2>4, <2>5, <2>6, RequestSearchEffect DEF Searches, ProjectionsTaken
    <2>7. CASE ~(view = "overlay" /\ inFiles)
      BY <1>0, <2>1, <2>2, <2>4, <2>5, <2>7, NoSearchEffect DEF Rests
    <2> QED BY <2>6, <2>7
  <1>7. CASE OnSnapshotTimer
    <2>1. view' = view /\ inFiles' = inFiles /\ UNCHANGED <<projections, UnderWay>>
      BY <1>7 DEF OnSnapshotTimer, windowVars, projectionVars, corpusVars, eventVars, UnderWay
    <2>2. IF view = "overlay" THEN RequestSearch(inFiles, NotLoaded, jobs) ELSE NoSearch(jobs)
      BY <1>7 DEF OnSnapshotTimer
    <2>6. CASE view = "overlay"
      BY <1>0, <2>1, <2>2, <2>6, RequestSearchEffect DEF Searches, ProjectionsTaken
    <2>7. CASE view # "overlay"
      BY <1>0, <2>1, <2>2, <2>7, NoSearchEffect DEF Rests
    <2> QED BY <2>6, <2>7
  <1>8. CASE OnProjection
    <2>1. /\ view' = view /\ inFiles' = inFiles /\ UNCHANGED UnderWay
          /\ projections # <<>> /\ projections' = Tail(projections)
      BY <1>8 DEF OnProjection, windowVars, corpusVars, UnderWay
    <2>2. \/ view = "overlay" /\ RequestSearch(inFiles, FALSE, jobs)
          \/ /\ Head(projections).generation # projectionGeneration \/ view # "overlay"
             /\ NoSearch(jobs)
      BY <1>8 DEF OnProjection, Projected
    <2>6. CASE view = "overlay" /\ RequestSearch(inFiles, FALSE, jobs)
      BY <1>0, <2>1, <2>6, RequestSearchEffect DEF Searches, ProjectionsTaken
    <2>7. CASE /\ Head(projections).generation # projectionGeneration \/ view # "overlay"
               /\ NoSearch(jobs)
      BY <1>0, <2>1, <2>7, NoSearchEffect DEF Rests
    <2> QED BY <2>2, <2>6, <2>7
  <1> QED BY <1>1, <1>2, <1>3, <1>4, <1>5, <1>6, <1>7, <1>8

(* What a reply of the persistence worker hands to the file worker: nothing *)
(* in the background, where no reply is welcome.                            *)
LEMMA OnLoadedEffect ==
  ASSUME SearchTyped, JobsAreOld, FilesAreWanted, OnLoaded
  PROVE  /\ jobs # <<>> /\ jobs' = Tail(jobs)
         /\ UNCHANGED <<view, inFiles, configured, loadGeneration, indexGeneration, requested,
                        shown, generation, pending, pendingFiles, corpus, worker, projections,
                        answers, delivered, stopping, threw>>
         /\ stored' \in Nat /\ stored' > 0 /\ loadPending' \in BOOLEAN
         /\ \/ UNCHANGED <<pendingStorage, projectionGeneration, handed>>
            \/ /\ view # "background" /\ projectionGeneration' \in Nat /\ handed' = stored'
               /\ pendingStorage' = [generation |-> projectionGeneration', entries |-> stored']
PROOF
  <1> DEFINE job == Head(jobs)
  <1>1. /\ jobs # <<>> /\ jobs' = Tail(jobs) /\ (Loaded(job) \/ LoadFails(job))
        /\ UNCHANGED <<view, inFiles, configured, loadGeneration, indexGeneration, requested,
                       shown, generation, pending, pendingFiles, corpus, worker, projections,
                       answers, delivered, stopping, threw>>
    BY DEF OnLoaded, windowVars, searchVars, eventVars
  <1>2. /\ job = jobs[1] /\ job \in Jobs /\ 1 \in 1 .. Len(jobs)
    BY <1>1, TailPoints DEF SearchTyped, QueuesTyped
  <1>3. job.generation \in Nat
    BY <1>2 DEF Jobs
  <1>4. Welcome(job) => view # "background"
    <2>1. SUFFICES ASSUME Welcome(job), view = "background" PROVE FALSE
      OBVIOUS
    <2>2. job.generation < Newest(job, loadGeneration, indexGeneration)
      BY <1>2, <2>1 DEF JobsAreOld, AllAreEarlier
    <2> QED BY <1>3, <2>1, <2>2 DEF Welcome, Newest
  <1>5. stored \in Nat /\ stored > 0 /\ loadPending \in BOOLEAN
    BY DEF SearchTyped, CountsTyped, FlagsTyped, FilesAreWanted
  <1>6. stored' \in Nat /\ stored' > 0
    BY <1>1, <1>5 DEF Loaded, LoadFails
  <1>7. loadPending' \in BOOLEAN
    BY <1>1, <1>5 DEF Loaded, LoadFails, AfterFailedLoad
  <1>8. \/ UNCHANGED <<pendingStorage, projectionGeneration, handed>>
        \/ /\ Welcome(job) /\ projectionGeneration' = job.generation /\ handed' = stored'
           /\ pendingStorage' = [generation |-> job.generation, entries |-> stored']
    BY <1>1 DEF Loaded, LoadFails, UpdateStorageFilesAsync
  <1> QED BY <1>1, <1>3, <1>4, <1>6, <1>7, <1>8

(* The kinds of step the invariants of file search tell apart.              *)
ComputeThrows == /\ worker.at = "computing" /\ worker' = Idle /\ threw' = TRUE
                 /\ acts < MaxActs /\ acts' = acts + 1
                 /\ UNCHANGED <<launcherVars, generation, pending, corpusVars, projections,
                                answers, delivered>>
ComputeDrops == /\ worker.at = "computing" /\ worker' = Idle
                /\ stopping \/ generation # worker.generation
                /\ UNCHANGED <<launcherVars, generation, pending, corpusVars, projections,
                               answers, delivered, acts, threw>>
ComputeEnds == /\ worker.at = "computing" /\ worker' = [worker EXCEPT !.at = "delivering"]
               /\ UNCHANGED <<launcherVars, generation, pending, corpusVars, projections,
                              answers, delivered, acts, threw>>

(* Every step of file search is one of these.                               *)
LEMMA FileSearchKinds ==
  ASSUME SearchTyped, JobsAreOld, [Next]_vars
  PROVE  \/ Searches \/ Rests
         \/ Hide \/ OnLoaded \/ OnAnswer \/ Stop
         \/ TakeStorage \/ TakeFiles \/ TakeQuery \/ Publish
         \/ ComputeThrows \/ ComputeDrops \/ ComputeEnds \/ Deliver \/ Exit
PROOF
  <1>1. CASE Compute
    BY <1>1 DEF Compute, StillCurrent, Acts, ComputeThrows, ComputeDrops, ComputeEnds
  <1> QED BY <1>1, SearchKinds DEF Next, HandleEvents, WorkerLoop

(* No job is asked for ahead of its generation.                             *)
LEMMA JobsAreOldStep ==
  ASSUME SearchTyped, JobsAreOld, FilesAreWanted, [Next]_vars
  PROVE  JobsAreOld' /\ jobs' \in Seq(Jobs)
PROOF
  <1>0. /\ jobs \in Seq(Jobs) /\ loadGeneration \in Nat /\ indexGeneration \in Nat
    BY DEF SearchTyped, FlagsTyped, CountsTyped, QueuesTyped
  <1>1. CASE Searches
    BY <1>1 DEF Searches, JobsAreOld
  <1>2. CASE Rests
    BY <1>2 DEF Rests, JobsAreOld
  <1>3. CASE Hide
    <2>1. /\ view' = "background" /\ configured' = FALSE /\ jobs' = jobs
          /\ loadGeneration' = loadGeneration + 1 /\ indexGeneration' = indexGeneration + 1
      BY <1>3 DEF Hide, storeVars
    <2>2. /\ NoneIsLater(jobs, loadGeneration', indexGeneration')
          /\ AllAreEarlier(jobs, loadGeneration', indexGeneration')
      BY <1>0, <2>1, LaterIsLater DEF JobsAreOld
    <2> QED BY <1>0, <2>1, <2>2 DEF JobsAreOld
  <1>4. CASE OnLoaded
    <2>1. /\ jobs # <<>> /\ jobs' = Tail(jobs)
          /\ UNCHANGED <<view, configured, loadGeneration, indexGeneration>>
      BY <1>4, OnLoadedEffect
    <2>2. /\ jobs' \in Seq(Jobs)
          /\ \A i \in 1 .. Len(jobs') : i + 1 \in 1 .. Len(jobs) /\ jobs'[i] = jobs[i + 1]
      BY <1>0, <2>1, TailPoints
    <2>3. NoneIsLater(jobs', loadGeneration, indexGeneration)
      BY <2>2 DEF JobsAreOld, NoneIsLater
    <2>4. view = "background" => AllAreEarlier(jobs', loadGeneration, indexGeneration)
      BY <2>2 DEF JobsAreOld, AllAreEarlier
    <2> QED BY <2>1, <2>2, <2>3, <2>4 DEF JobsAreOld
  <1>5. CASE Stop
    <2>1. jobs' = <<>> /\ UNCHANGED <<view, configured, loadGeneration, indexGeneration>>
      BY <1>5 DEF Stop, windowVars, genVars
    <2> QED BY <2>1 DEF JobsAreOld, NoneIsLater, AllAreEarlier
  <1>6. CASE \/ OnAnswer \/ TakeStorage \/ TakeFiles \/ TakeQuery \/ Publish
             \/ ComputeThrows \/ ComputeDrops \/ ComputeEnds \/ Deliver \/ Exit
    <2>1. UNCHANGED <<jobs, view, configured, loadGeneration, indexGeneration>>
      BY <1>6 DEF OnAnswer, TakeStorage, TakeFiles, TakeQuery, Publish, ComputeThrows,
                  ComputeDrops, ComputeEnds, Deliver, Exit, launcherVars, windowVars, genVars,
                  storeVars
    <2> QED BY <1>0, <2>1 DEF JobsAreOld
  <1> QED BY <1>1, <1>2, <1>3, <1>4, <1>5, <1>6, FileSearchKinds

(* Files that wait for the worker stay wanted, or go.                       *)
LEMMA FilesAreWantedStep ==
  ASSUME SearchTyped, JobsAreOld, FilesAreWanted, [Next]_vars
  PROVE  FilesAreWanted'
PROOF
  <1> USE DEF FilesAreWanted
  <1>1. CASE Searches
    BY <1>1 DEF Searches, UnderWay
  <1>2. CASE Rests
    BY <1>2 DEF Rests, UnderWay
  <1>3. CASE Hide
    BY <1>3 DEF Hide, ReleaseIndex, storeVars
  <1>4. CASE OnLoaded
    BY <1>4, OnLoadedEffect
  <1>5. CASE Stop
    BY <1>5 DEF Stop
  <1>6. CASE TakeStorage
    BY <1>6 DEF TakeStorage, launcherVars, storeVars
  <1>7. CASE \/ OnAnswer \/ TakeFiles \/ TakeQuery \/ Publish
             \/ ComputeThrows \/ ComputeDrops \/ ComputeEnds \/ Deliver \/ Exit
    BY <1>7 DEF OnAnswer, TakeFiles, TakeQuery, Publish, ComputeThrows, ComputeDrops,
                ComputeEnds, Deliver, Exit, launcherVars, windowVars, genVars, storeVars,
                serviceVars, corpusVars
  <1> QED BY <1>1, <1>2, <1>3, <1>4, <1>5, <1>6, <1>7, FileSearchKinds

(* In the background the worker gives its files up.                         *)
LEMMA FilesAreGivenUpStep ==
  ASSUME SearchTyped, JobsAreOld, FilesAreWanted, FilesAreGivenUp, [Next]_vars
  PROVE  FilesAreGivenUp'
PROOF
  <1>0. worker \in FileWorkers
    BY DEF SearchTyped, QueuesTyped
  <1> USE DEF FilesAreGivenUp
  <1>1. CASE Searches
    BY <1>1 DEF Searches, UnderWay
  <1>2. CASE Rests
    BY <1>2 DEF Rests, UnderWay
  <1>3. CASE Hide
    BY <1>3 DEF Hide, ReleaseIndex
  <1>4. CASE OnLoaded
    BY <1>4, OnLoadedEffect
  <1>5. CASE Stop
    BY <1>5 DEF Stop
  <1>6. CASE TakeStorage
    <2>1. /\ worker'.at = "building" /\ view' = view /\ pendingStorage # NoFiles
      BY <1>6 DEF TakeStorage, Steps, launcherVars, windowVars
    <2> QED BY <2>1 DEF FilesAreWanted
  <1>7. CASE TakeFiles
    BY <1>7 DEF TakeFiles, Steps
  <1>8. CASE TakeQuery
    BY <1>8 DEF TakeQuery, Steps, launcherVars, windowVars
  <1>9. CASE Publish
    <2>1. /\ worker.at \in {"building", "emptying"} /\ corpus' = worker.entries
          /\ worker' = Idle /\ UNCHANGED <<view, pendingFiles, stopping>>
      BY <1>9 DEF Publish, launcherVars, windowVars
    <2> QED BY <2>1, FileWorkerStates
  <1>10. CASE ComputeThrows \/ ComputeDrops
    BY <1>10, FileWorkerStates DEF ComputeThrows, ComputeDrops, launcherVars, windowVars, corpusVars
  <1>11. CASE ComputeEnds
    BY <1>0, <1>11, FileWorkerFields DEF ComputeEnds, launcherVars, windowVars, corpusVars
  <1>12. CASE Deliver
    BY <1>12, FileWorkerStates DEF Deliver, launcherVars, windowVars, corpusVars
  <1>13. CASE Exit
    BY <1>13, FileWorkerStates DEF Exit, launcherVars, windowVars, corpusVars
  <1>14. CASE OnAnswer
    BY <1>14 DEF OnAnswer, windowVars, serviceVars, corpusVars
  <1> QED BY <1>1, <1>2, <1>3, <1>4, <1>5, <1>6, <1>7, <1>8, <1>9, <1>10, <1>11, <1>12, <1>13,
             <1>14, FileSearchKinds

(* No answer on its way is newer than the one given last.                   *)
LEMMA AnswersAreOld ==
  ASSUME OrderInv, SearchTyped, JobsAreOld, FilesAreWanted, SearchFollows, [Next]_vars
  PROVE  /\ answers' \in Seq(Update)
         /\ \A i \in 1 .. Len(answers') : answers'[i].generation <= delivered'
PROOF
  <1>0. /\ answers \in Seq(Update) /\ Len(answers) \in Nat /\ worker \in FileWorkers
        /\ delivered \in Nat /\ worker.generation \in Nat /\ worker.entries \in Nat
    BY LenIsNat, FileWorkerFields DEF SearchTyped, QueuesTyped, CountsTyped
  <1>1. \A i \in 1 .. Len(answers) : answers[i].generation <= delivered
    BY DEF SearchFollows
  <1>2. CASE OnAnswer
    <2>1. answers # <<>> /\ answers' = Tail(answers) /\ delivered' = delivered
      BY <1>2 DEF OnAnswer
    <2> QED BY <1>0, <1>1, <2>1, TailPoints
  <1>3. CASE Stop
    BY <1>3 DEF Stop
  <1>4. CASE Deliver
    <2> DEFINE answer == [generation |-> worker.generation, entries |-> worker.entries]
    <2>1. /\ answers' = Append(answers, answer) /\ delivered' = worker.generation
          /\ worker.at = "delivering"
      BY <1>4 DEF Deliver
    <2>2. answer \in Update /\ answer.generation = worker.generation
      BY <1>0 DEF Update
    <2>3. worker.generation > delivered
      BY <1>0, <2>1 DEF OrderInv, Serving
    <2> HIDE DEF answer
    <2>4. /\ answers' \in Seq(Update) /\ Len(answers') = Len(answers) + 1
          /\ answers'[Len(answers) + 1] = answer
          /\ \A i \in 1 .. Len(answers) : answers'[i] = answers[i]
      BY <1>0, <2>1, <2>2, AppendPoints
    <2>5. ASSUME NEW i \in 1 .. Len(answers')
          PROVE  answers'[i].generation <= delivered'
      <3>1. CASE i = Len(answers) + 1
        BY <1>0, <2>1, <2>2, <2>4, <3>1
      <3>2. CASE i \in 1 .. Len(answers)
        <4>1. answers[i].generation \in Nat
          <5>1. answers[i] \in Update
            BY <1>0, <3>2
          <5> QED BY <5>1 DEF Update
        <4> QED BY <1>0, <1>1, <2>1, <2>3, <2>4, <3>2, <4>1
      <3> QED BY <1>0, <2>4, <3>1, <3>2
    <2> QED BY <2>4, <2>5
  <1>5. CASE \/ Searches \/ Rests \/ Hide \/ OnLoaded \/ TakeStorage \/ TakeFiles \/ TakeQuery
             \/ Publish \/ ComputeThrows \/ ComputeDrops \/ ComputeEnds \/ Exit
    <2>1. UNCHANGED <<answers, delivered>>
      BY <1>5, OnLoadedEffect
         DEF Searches, Rests, UnderWay, Hide, eventVars, TakeStorage, TakeFiles, TakeQuery,
             Publish, ComputeThrows, ComputeDrops, ComputeEnds, Exit
    <2> QED BY <1>0, <1>1, <2>1
  <1> QED BY <1>2, <1>3, <1>4, <1>5, FileSearchKinds

(* The steps that leave searches alone.                                     *)
SearchStays ==
  /\ UNCHANGED <<view, inFiles, requested, generation, pending, pendingFiles, corpus, stopping,
                 shown, answers, delivered>>
  /\ threw => threw'

(* A search of the files that waits, is done or will be made keeps so.      *)
LEMMA SearchFollowsStep ==
  ASSUME SearchInv, [Next]_vars
  PROVE  SearchFollows'
PROOF
  <1> USE DEF SearchInv
  <1>0. /\ answers \in Seq(Update) /\ Len(answers) \in Nat /\ worker \in FileWorkers
        /\ worker.generation \in Nat /\ worker.entries \in Nat /\ requested \in Nat
        /\ pendingStorage \in Update /\ projections \in Seq(Update) /\ Len(projections) \in Nat
        /\ delivered \in Nat /\ generation \in Nat /\ corpus \in Nat
    BY LenIsNat, FileWorkerFields DEF SearchTyped, QueuesTyped, CountsTyped
  <1> DEFINE Wanted == view = "overlay" /\ inFiles /\ ~threw /\ ~stopping /\ ~CorpusIsComing
             Answered == (pending # NoQuery /\ pending = requested) \/ SearchIsDone
  <1>1. SUFFICES /\ view' = "overlay" /\ inFiles' => generation' = requested'
                 /\ Wanted' => Answered'
    BY AnswersAreOld DEF SearchFollows
  <1>2. (view = "overlay" /\ inFiles => generation = requested) /\ (Wanted => Answered)
    BY DEF SearchFollows
  <1>3. CASE Searches
    BY <1>0, <1>3 DEF Searches, NoQuery
  <1>4. CASE Rests
    <2>1. CASE view' # view \/ view # "overlay"
      BY <1>4, <2>1 DEF Rests
    <2>2. CASE view' = view /\ view = "overlay"
      <3>1. CorpusIsComing => CorpusIsComing'
        <4>1. CASE projections' = projections
          BY <1>4, <4>1 DEF Rests, UnderWay, CorpusIsComing
        <4>2. CASE /\ projections # <<>> /\ projections' = Tail(projections)
                   /\ Head(projections).generation # projectionGeneration
          <5>1. /\ Head(projections) = projections[1]
                /\ Len(projections') = Len(projections) - 1
                /\ \A i \in 1 .. Len(projections') :
                     i + 1 \in 1 .. Len(projections) /\ projections'[i] = projections[i + 1]
            BY <1>0, <4>2, TailPoints
          <5>2. ASSUME NEW i \in 1 .. Len(projections),
                       projections[i].generation = projectionGeneration
                PROVE  \E j \in 1 .. Len(projections') :
                         projections'[j].generation = projectionGeneration
            <6>1. i # 1
              BY <4>2, <5>1, <5>2
            <6>2. i - 1 \in 1 .. Len(projections') /\ (i - 1) + 1 = i
              BY <1>0, <5>1, <6>1
            <6>3. projections'[i - 1] = projections[i]
              BY <5>1, <6>2
            <6> QED BY <5>2, <6>2, <6>3
          <5> QED BY <1>4, <5>2 DEF Rests, UnderWay, CorpusIsComing
        <4> QED BY <1>4, <2>2, <4>1, <4>2 DEF Rests
      <3> QED BY <1>2, <1>4, <2>2, <3>1 DEF Rests, UnderWay, SearchIsDone, Serving
    <2> QED BY <2>1, <2>2
  <1>5. CASE Hide
    BY <1>5 DEF Hide
  <1>6. CASE OnLoaded
    <2>1. CASE UNCHANGED <<pendingStorage, projectionGeneration>>
      BY <1>2, <1>6, <2>1, OnLoadedEffect DEF CorpusIsComing, SearchIsDone, Serving
    <2>2. CASE pendingStorage' = [generation |-> projectionGeneration', entries |-> stored']
      <3>1. pendingStorage' # NoFiles
        <4>1. stored' > 0 /\ pendingStorage'.entries = stored'
          BY <1>6, <2>2, OnLoadedEffect
        <4>2. NoFiles.entries = 0
          BY DEF NoFiles
        <4> QED BY <4>1, <4>2
      <3> QED BY <1>2, <1>6, <3>1, OnLoadedEffect DEF CorpusIsComing
    <2> QED BY <1>6, <2>1, <2>2, OnLoadedEffect
  <1>7. CASE OnAnswer
    <2>1. /\ answers # <<>> /\ answers' = Tail(answers)
          /\ UNCHANGED <<view, inFiles, requested, generation, pending, pendingFiles, corpus,
                         stopping, delivered, threw, worker, pendingStorage, projections,
                         projectionGeneration>>
          /\ shown' = IF Head(answers).generation = requested
                      THEN {Head(answers).entries} ELSE shown
      BY <1>7 DEF OnAnswer, windowVars, genVars, serviceVars, corpusVars
    <2>2. /\ Head(answers) = answers[1] /\ Len(answers') = Len(answers) - 1
          /\ 1 \in 1 .. Len(answers)
          /\ \A i \in 1 .. Len(answers') :
               i + 1 \in 1 .. Len(answers) /\ answers'[i] = answers[i + 1]
      BY <1>0, <2>1, TailPoints
    <2>3. CASE Wanted /\ SearchIsDone
      <3>0. requested' = requested /\ corpus' = corpus
        BY <2>1
      <3>1. \A i \in 1 .. Len(answers) :
              answers[i].generation = requested => answers[i].entries = corpus
        BY <2>3 DEF SearchIsDone
      <3>2. \A i \in 1 .. Len(answers') :
              answers'[i].generation = requested => answers'[i].entries = corpus
        BY <2>2, <3>1
      <3>5. /\ ~pendingFiles' /\ worker'.at \notin {"building", "emptying"}
            /\ (Serving' /\ worker'.generation = requested' => worker'.entries = corpus')
            /\ (Serving' <=> Serving)
        BY <2>1, <2>3 DEF SearchIsDone, Serving
      <3>3. CASE answers[1].generation = requested
        <4>1. shown' = {corpus}
          BY <2>1, <2>2, <2>3, <3>1, <3>3
        <4>2. SearchIsDone'
          BY <3>0, <3>2, <3>5, <4>1 DEF SearchIsDone
        <4> QED BY <1>2, <2>1, <4>2
      <3>4. CASE answers[1].generation # requested
        <4>1. shown' = shown
          BY <2>1, <2>2, <3>4
        <4>2. ASSUME NEW i \in 1 .. Len(answers), answers[i].generation = requested
              PROVE  \E j \in 1 .. Len(answers') : answers'[j].generation = requested
          <5>1. i # 1
            BY <3>4, <4>2
          <5>2. i - 1 \in 1 .. Len(answers') /\ (i - 1) + 1 = i
            BY <1>0, <2>2, <5>1
          <5>3. answers'[i - 1] = answers[i]
            BY <2>2, <5>2
          <5> QED BY <4>2, <5>2, <5>3
        <4>3. \/ Serving' /\ worker'.generation = requested
              \/ \E i \in 1 .. Len(answers') : answers'[i].generation = requested
              \/ shown' = {corpus}
          <5>1. \/ Serving /\ worker.generation = requested
                \/ \E i \in 1 .. Len(answers) : answers[i].generation = requested
                \/ shown = {corpus}
            BY <2>3 DEF SearchIsDone
          <5> QED BY <2>1, <3>5, <4>1, <4>2, <5>1
        <4>4. SearchIsDone'
          BY <3>0, <3>2, <3>5, <4>3 DEF SearchIsDone
        <4> QED BY <1>2, <2>1, <4>4
      <3> QED BY <3>3, <3>4
    <2>4. CASE ~(Wanted /\ SearchIsDone)
      BY <1>2, <2>1, <2>4 DEF CorpusIsComing
    <2> QED BY <2>3, <2>4
  <1>8. CASE Stop
    BY <1>2, <1>8 DEF Stop, windowVars, searchVars
  <1>9. CASE TakeStorage
    <2>1. /\ SearchStays /\ UNCHANGED projectionGeneration
          /\ pendingStorage # NoFiles /\ worker'.at = "building"
          /\ worker'.generation = pendingStorage.generation
      BY <1>9 DEF TakeStorage, Steps, launcherVars, windowVars, searchVars, genVars, SearchStays
    <2>2. CorpusIsComing'
      BY <2>1 DEF CorpusIsComing, FilesAreWanted
    <2> QED BY <1>2, <2>1, <2>2 DEF SearchStays
  <1>10. CASE TakeFiles
    <2>1. /\ UNCHANGED <<view, inFiles, requested, generation, pending, threw, stopping,
                         pendingStorage, projections, projectionGeneration>>
          /\ pendingFiles /\ worker.at = "idle"
      BY <1>10 DEF TakeFiles, launcherVars, windowVars, searchVars, genVars
    <2>2. CorpusIsComing => CorpusIsComing'
      BY <2>1 DEF CorpusIsComing
    <2> QED BY <1>2, <2>1, <2>2 DEF SearchIsDone
  <1>11. CASE TakeQuery
    <2>1. /\ UNCHANGED <<view, inFiles, requested, generation, threw, stopping, corpus, shown,
                         answers, pendingFiles, pendingStorage, projections,
                         projectionGeneration>>
          /\ worker.at = "idle" /\ pending # NoQuery /\ ~pendingFiles
          /\ worker'.at = "computing" /\ worker'.generation = pending
          /\ worker'.entries = corpus
      BY <1>11 DEF TakeQuery, QueryIsNext, Steps, launcherVars, windowVars, searchVars, genVars
    <2>2. CorpusIsComing => CorpusIsComing'
      BY <2>1 DEF CorpusIsComing
    <2>3. CASE pending = requested
      <3>1. ASSUME NEW i \in 1 .. Len(answers) PROVE answers[i].generation # requested
        <4>1. answers[i] \in Update /\ answers[i].generation <= delivered
          BY <1>0 DEF SearchFollows
        <4>2. delivered < requested
          BY <2>1, <2>3 DEF OrderInv
        <4>3. answers[i].generation \in Nat
          BY <4>1 DEF Update
        <4> QED BY <1>0, <4>1, <4>2, <4>3
      <3> QED BY <1>2, <2>1, <2>2, <2>3, <3>1 DEF SearchIsDone, Serving
    <2>4. CASE pending # requested
      BY <1>2, <2>1, <2>2, <2>4 DEF SearchIsDone, Serving
    <2> QED BY <2>3, <2>4
  <1>12. CASE Publish
    <2>1. /\ UNCHANGED <<view, inFiles, requested, generation, pending, threw, stopping,
                         pendingStorage, projectionGeneration>>
          /\ worker.at \in {"building", "emptying"}
          /\ projections' = IF worker.at = "building"
                            THEN Append(projections, [generation |-> worker.generation,
                                                      entries |-> worker.entries])
                            ELSE projections
      BY <1>12 DEF Publish, launcherVars, windowVars, searchVars, genVars
    <2>2. CorpusIsComing => CorpusIsComing'
      <3>1. CASE worker.at = "emptying"
        BY <2>1, <3>1 DEF CorpusIsComing
      <3>2. CASE worker.at = "building"
        <4> DEFINE event == [generation |-> worker.generation, entries |-> worker.entries]
        <4>1. event \in Update /\ event.generation = worker.generation
          BY <1>0 DEF Update
        <4>2. projections' = Append(projections, event)
          BY <2>1, <3>2
        <4> HIDE DEF event
        <4>3. /\ Len(projections') = Len(projections) + 1
              /\ projections'[Len(projections) + 1] = event
              /\ \A i \in 1 .. Len(projections) : projections'[i] = projections[i]
          BY <1>0, <4>1, <4>2, AppendPoints
        <4>4. /\ Len(projections) + 1 \in 1 .. Len(projections')
              /\ \A i \in 1 .. Len(projections) : i \in 1 .. Len(projections')
          BY <1>0, <4>3
        <4> QED BY <2>1, <4>1, <4>3, <4>4 DEF CorpusIsComing
      <3> QED BY <2>1, <3>1, <3>2
    <2> QED BY <1>2, <2>1, <2>2 DEF SearchIsDone
  <1>13. CASE ComputeThrows
    BY <1>2, <1>13 DEF ComputeThrows, launcherVars, windowVars, searchVars
  <1>14. CASE ComputeDrops
    <2>1. /\ SearchStays /\ threw' = threw
          /\ UNCHANGED <<pendingStorage, projections, projectionGeneration>>
          /\ worker.at = "computing" /\ worker'.at = "idle"
          /\ stopping \/ generation # worker.generation
      BY <1>14, FileWorkerStates
         DEF ComputeDrops, launcherVars, windowVars, searchVars, genVars, corpusVars, SearchStays
    <2>2. CorpusIsComing => CorpusIsComing'
      BY <2>1 DEF CorpusIsComing
    <2> QED BY <1>2, <2>1, <2>2 DEF SearchStays, SearchIsDone, Serving
  <1>15. CASE ComputeEnds
    <2>1. /\ SearchStays /\ threw' = threw
          /\ UNCHANGED <<pendingStorage, projections, projectionGeneration>>
          /\ worker.at = "computing" /\ worker'.at = "delivering"
          /\ worker'.generation = worker.generation /\ worker'.entries = worker.entries
      BY <1>0, <1>15, FileWorkerFields
         DEF ComputeEnds, launcherVars, windowVars, searchVars, genVars, corpusVars, SearchStays
    <2>2. CorpusIsComing => CorpusIsComing'
      BY <2>1 DEF CorpusIsComing
    <2> QED BY <1>2, <2>1, <2>2 DEF SearchStays, SearchIsDone, Serving
  <1>16. CASE Deliver
    <2> DEFINE answer == [generation |-> worker.generation, entries |-> worker.entries]
    <2>1. /\ UNCHANGED <<view, inFiles, requested, generation, pending, threw, stopping, corpus,
                         shown, pendingFiles, pendingStorage, projections,
                         projectionGeneration>>
          /\ worker.at = "delivering" /\ worker'.at = "idle"
          /\ answers' = Append(answers, answer)
      BY <1>16, FileWorkerStates
         DEF Deliver, launcherVars, windowVars, searchVars, genVars, corpusVars
    <2>2. CorpusIsComing => CorpusIsComing'
      BY <2>1 DEF CorpusIsComing
    <2>3. /\ answer \in Update /\ answer.generation = worker.generation
          /\ answer.entries = worker.entries
      BY <1>0 DEF Update
    <2> HIDE DEF answer
    <2>4. /\ Len(answers') = Len(answers) + 1
          /\ answers'[Len(answers) + 1] = answer
          /\ \A i \in 1 .. Len(answers) : answers'[i] = answers[i]
      BY <1>0, <2>1, <2>3, AppendPoints
    <2>5. \A i \in 1 .. Len(answers') : i \in 1 .. Len(answers) \/ i = Len(answers) + 1
      BY <1>0, <2>4
    <2>8. /\ Len(answers) + 1 \in 1 .. Len(answers')
          /\ \A i \in 1 .. Len(answers) : i \in 1 .. Len(answers')
      BY <1>0, <2>4
    <2>6. CASE pending # NoQuery /\ pending = requested
      BY <1>2, <2>1, <2>2, <2>6
    <2>7. CASE Wanted /\ SearchIsDone
      <3>1. \A i \in 1 .. Len(answers) :
              answers[i].generation = requested => answers[i].entries = corpus
        BY <2>7 DEF SearchIsDone
      <3>2. worker.generation = requested => worker.entries = corpus
        BY <2>1, <2>7 DEF SearchIsDone, Serving
      <3>3. \A i \in 1 .. Len(answers') :
              answers'[i].generation = requested => answers'[i].entries = corpus
        BY <2>3, <2>4, <2>5, <3>1, <3>2
      <3>4. \/ \E i \in 1 .. Len(answers') : answers'[i].generation = requested
            \/ shown = {corpus}
        <4>1. CASE worker.generation = requested
          BY <2>3, <2>4, <2>8, <4>1
        <4>2. CASE worker.generation # requested
          BY <2>1, <2>4, <2>7, <2>8, <4>2 DEF SearchIsDone, Serving
        <4> QED BY <4>1, <4>2
      <3>5. ~pendingFiles' /\ worker'.at \notin {"building", "emptying"} /\ ~Serving'
        BY <2>1, <2>7 DEF SearchIsDone, Serving
      <3>6. requested' = requested /\ corpus' = corpus /\ shown' = shown
        BY <2>1
      <3>7. SearchIsDone'
        BY <3>3, <3>4, <3>5, <3>6 DEF SearchIsDone
      <3> QED BY <1>2, <2>1, <3>7
    <2> QED BY <1>2, <2>1, <2>2, <2>6, <2>7
  <1>17. CASE Exit
    <2>1. SearchStays /\ stopping
      BY <1>17 DEF Exit, launcherVars, windowVars, searchVars, corpusVars, SearchStays
    <2> QED BY <1>2, <2>1 DEF SearchStays
  <1> QED BY <1>3, <1>4, <1>5, <1>6, <1>7, <1>8, <1>9, <1>10, <1>11, <1>12, <1>13, <1>14, <1>15,
             <1>16, <1>17, FileSearchKinds

-----------------------------------------------------------------------------
(* Types of file search.                                                    *)
LEMMA FlagsTypes ==
  ASSUME SearchTyped, JobsAreOld, FilesAreWanted, [Next]_vars
  PROVE  FlagsTyped'
PROOF
  <1> FlagsTyped
    BY DEF SearchTyped
  <1> USE DEF FlagsTyped
  <1>0. configured' \in BOOLEAN /\ loadPending' \in BOOLEAN
    <2>1. CASE Hide
      BY <2>1 DEF Hide
    <2>2. CASE \/ OnAnswer \/ Stop \/ TakeStorage \/ TakeFiles \/ TakeQuery \/ Publish
               \/ ComputeThrows \/ ComputeDrops \/ ComputeEnds \/ Deliver \/ Exit
      BY <2>2 DEF OnAnswer, Stop, TakeStorage, TakeFiles, TakeQuery, Publish, ComputeThrows,
                  ComputeDrops, ComputeEnds, Deliver, Exit, launcherVars, indexVars
    <2> QED BY <2>1, <2>2, FileSearchKinds, OnLoadedEffect DEF Searches, Rests
  <1> SUFFICES /\ inFiles' \in BOOLEAN /\ enabled' \in BOOLEAN
               /\ loaded' \in BOOLEAN /\ projectionPending' \in BOOLEAN
               /\ snapshotTimer' \in BOOLEAN /\ stopping' \in BOOLEAN /\ threw' \in BOOLEAN
               /\ pendingFiles' \in BOOLEAN
    BY <1>0
  <1> USE DEF launcherVars, windowVars, indexVars, projectionVars, serviceVars, corpusVars
  <1>1. CASE UNCHANGED vars
    BY <1>1 DEF vars
  <1>2. ASSUME NEW files \in BOOLEAN, ShowOverlay(files) \/ Type(files)
        PROVE  FlagsTyped'
    BY <1>0, <1>2 DEF ShowOverlay, Type
  <1>3. ASSUME NEW privacy \in BOOLEAN, ShowSettings(privacy)
        PROVE  FlagsTyped'
    BY <1>0, <1>3 DEF ShowSettings
  <1>4. CASE Disable \/ Enable
    BY <1>4 DEF Disable, Enable
  <1>5. CASE Hide
    BY <1>5 DEF Hide, ReleaseIndex
  <1>6. CASE OnFileIndexReady \/ OnSnapshotTimer
    BY <1>6 DEF OnFileIndexReady, OnSnapshotTimer
  <1>7. CASE OnLoaded
    BY <1>7 DEF OnLoaded, Loaded, LoadFails
  <1>8. CASE OnProjection \/ OnAnswer \/ Stop
    BY <1>8 DEF OnProjection, OnAnswer, Stop
  <1>9. CASE WorkerLoop
    BY <1>9 DEF WorkerLoop, TakeStorage, TakeFiles, TakeQuery, Publish, Compute, Deliver, Exit
  <1> QED BY <1>1, <1>2, <1>3, <1>4, <1>5, <1>6, <1>7, <1>8, <1>9 DEF Next, HandleEvents

(* Every step keeps to the bound.                                           *)
LEMMA BoundKept ==
  ASSUME SearchTyped, [Next]_vars
  PROVE  acts' \in 0 .. MaxActs
PROOF
  <1>0. acts \in 0 .. MaxActs /\ (Acts => acts' \in 0 .. MaxActs)
    BY MaxActsIsNatural DEF SearchTyped, CountsTyped, Acts
  <1> QED BY <1>0
      DEF vars, Next, HandleEvents, WorkerLoop, ShowOverlay, Type, ShowSettings, Disable, Enable,
          Hide, OnFileIndexReady, OnSnapshotTimer, OnLoaded, Loaded, LoadFails, OnProjection,
          OnAnswer, Stop, TakeStorage, TakeFiles, TakeQuery, Publish, Compute, Deliver, Exit

(* Types of the counters and versions.                                      *)
LEMMA CountsTypes ==
  ASSUME SearchInv, [Next]_vars
  PROVE  CountsTyped'
PROOF
  <1> USE DEF SearchInv
  <1>0. /\ CountsTyped /\ QueuesTyped /\ worker.entries \in Nat
    BY FileWorkerFields DEF SearchTyped, QueuesTyped
  <1>1. requested' \in Nat /\ generation' \in Nat /\ delivered' \in Nat
    BY OrderStep DEF OrderInv
  <1>2. loadGeneration' \in Nat /\ indexGeneration' \in Nat
    <2>1. CASE Hide
      BY <1>0, <2>1 DEF Hide, CountsTyped
    <2>2. CASE \/ OnAnswer \/ Stop \/ TakeStorage \/ TakeFiles \/ TakeQuery \/ Publish
               \/ ComputeThrows \/ ComputeDrops \/ ComputeEnds \/ Deliver \/ Exit
      BY <1>0, <2>2
         DEF OnAnswer, Stop, TakeStorage, TakeFiles, TakeQuery, Publish, ComputeThrows,
             ComputeDrops, ComputeEnds, Deliver, Exit, launcherVars, genVars, CountsTyped
    <2> QED BY <1>0, <2>1, <2>2, FileSearchKinds, OnLoadedEffect
            DEF Searches, Rests, CountsTyped
  <1>3. projectionGeneration' \in Nat /\ corpus' \in Nat /\ stored' \in Nat /\ handed' \in Nat
    <2>1. CASE Hide
      BY <1>0, <2>1 DEF Hide, ReleaseIndex, storeVars, CountsTyped
    <2>3. CASE Publish
      BY <1>0, <2>3 DEF Publish, launcherVars, genVars, storeVars, CountsTyped
    <2>2. CASE \/ OnAnswer \/ Stop \/ TakeStorage \/ TakeFiles \/ TakeQuery
               \/ ComputeThrows \/ ComputeDrops \/ ComputeEnds \/ Deliver \/ Exit
      BY <1>0, <2>2
         DEF OnAnswer, Stop, TakeStorage, TakeFiles, TakeQuery, ComputeThrows,
             ComputeDrops, ComputeEnds, Deliver, Exit, launcherVars, genVars, storeVars,
             serviceVars, corpusVars, CountsTyped
    <2>4. CASE OnLoaded
      BY <1>0, <2>4, OnLoadedEffect DEF CountsTyped
    <2> QED BY <1>0, <2>1, <2>2, <2>3, <2>4, FileSearchKinds
            DEF Searches, Rests, UnderWay, CountsTyped
  <1>4. shown' \subseteq Nat
    <2>1. CASE OnAnswer
      <3>1. Head(answers) \in Update
        BY <1>0, <2>1, TailPoints DEF OnAnswer, QueuesTyped
      <3>2. Head(answers).entries \in Nat
        BY <3>1 DEF Update
      <3> QED BY <1>0, <2>1, <3>2 DEF OnAnswer, CountsTyped
    <2>2. CASE \/ Hide \/ Stop \/ TakeStorage \/ TakeFiles \/ TakeQuery \/ Publish
               \/ ComputeThrows \/ ComputeDrops \/ ComputeEnds \/ Deliver \/ Exit
      BY <1>0, <2>2
         DEF Hide, Stop, TakeStorage, TakeFiles, TakeQuery, Publish, ComputeThrows,
             ComputeDrops, ComputeEnds, Deliver, Exit, launcherVars, searchVars, CountsTyped
    <2> QED BY <1>0, <2>1, <2>2, FileSearchKinds, OnLoadedEffect
            DEF Searches, Rests, CountsTyped
  <1>5. fileIndex' \in Nat
    <2>1. CASE OnProjection
      <3>1. Head(projections) \in Update
        BY <1>0, <2>1, TailPoints DEF OnProjection, QueuesTyped
      <3>2. Head(projections).entries \in Nat
        BY <3>1 DEF Update
      <3> QED BY <1>0, <2>1, <3>2 DEF OnProjection, CountsTyped
    <2>2. CASE ~OnProjection
      <3>1. fileIndex' \in {fileIndex, 0}
        BY <2>2
           DEF vars, Next, HandleEvents, WorkerLoop, ShowOverlay, Type, ShowSettings, Disable,
               Enable, Hide, OnFileIndexReady, OnSnapshotTimer, OnLoaded, OnAnswer, Stop,
               TakeStorage, TakeFiles, TakeQuery, Publish, Compute, Deliver, Exit,
               launcherVars, indexVars, projectionVars
      <3> QED BY <1>0, <3>1 DEF CountsTyped
    <2> QED BY <2>1, <2>2
  <1> QED BY <1>1, <1>2, <1>3, <1>4, <1>5, BoundKept DEF CountsTyped

(* Types of the queues and of the worker.                                   *)
LEMMA QueuesTypes ==
  ASSUME SearchInv, [Next]_vars
  PROVE  QueuesTyped'
PROOF
  <1> USE DEF SearchInv
  <1>0. QueuesTyped /\ CountsTyped
    BY DEF SearchTyped
  <1>1. jobs' \in Seq(Jobs) /\ answers' \in Seq(Update)
    BY JobsAreOldStep, AnswersAreOld
  <1>2. view' \in {"background", "settings", "overlay"}
    BY <1>0 DEF vars, Next, HandleEvents, WorkerLoop, ShowOverlay, Type, ShowSettings, Disable,
           Enable, Hide, OnFileIndexReady, OnSnapshotTimer, OnLoaded, OnProjection, OnAnswer,
           Stop, TakeStorage, TakeFiles, TakeQuery, Publish, Compute, Deliver, Exit,
           launcherVars, windowVars, QueuesTyped
  <1>3. worker' \in FileWorkers
    <2>0. /\ pending \in Nat /\ corpus \in Nat /\ pendingStorage \in Update
          /\ worker \in FileWorkers
      BY <1>0 DEF OrderInv, CountsTyped, QueuesTyped
    <2>1. CASE TakeStorage
      BY <2>0, <2>1 DEF TakeStorage, Steps, Update, FileWorkers
    <2>2. CASE TakeFiles \/ TakeQuery
      BY <2>0, <2>2 DEF TakeFiles, TakeQuery, Steps, FileWorkers
    <2>3. CASE Publish \/ ComputeThrows \/ ComputeDrops \/ Deliver \/ Exit
      BY <2>3, FileWorkerStates DEF Publish, ComputeThrows, ComputeDrops, Deliver, Exit
    <2>4. CASE ComputeEnds
      BY <2>0, <2>4, FileWorkerFields DEF ComputeEnds
    <2>5. CASE Searches \/ Rests \/ Hide \/ OnLoaded \/ OnAnswer \/ Stop
      BY <2>0, <2>5, OnLoadedEffect
         DEF Searches, Rests, UnderWay, Hide, OnAnswer, serviceVars, Stop
    <2> QED BY <2>1, <2>2, <2>3, <2>4, <2>5, FileSearchKinds
  <1>4. pendingStorage' \in Update
    <2>0. NoFiles \in Update
      BY DEF NoFiles, Update
    <2>1. CASE OnLoaded
      BY <1>0, <2>1, OnLoadedEffect DEF QueuesTyped, Update
    <2>2. CASE \/ Searches \/ Rests \/ Hide \/ OnAnswer \/ Stop
               \/ TakeStorage \/ TakeFiles \/ TakeQuery \/ Publish
               \/ ComputeThrows \/ ComputeDrops \/ ComputeEnds \/ Deliver \/ Exit
      <3>1. pendingStorage' \in {NoFiles, pendingStorage}
        BY <2>2
           DEF Searches, Rests, UnderWay, Hide, ReleaseIndex, OnAnswer, Stop, TakeStorage,
               TakeFiles, TakeQuery, Publish, ComputeThrows, ComputeDrops, ComputeEnds, Deliver,
               Exit, serviceVars, corpusVars
      <3> QED BY <1>0, <2>0, <3>1 DEF QueuesTyped
    <2> QED BY <2>1, <2>2, FileSearchKinds
  <1>5. projections' \in Seq(Update)
    <2>0. projections \in Seq(Update) /\ worker \in FileWorkers
      BY <1>0 DEF QueuesTyped
    <2>1. CASE Publish
      <3>1. [generation |-> worker.generation, entries |-> worker.entries] \in Update
        BY <2>0, FileWorkerFields DEF Update
      <3> QED BY <2>0, <2>1, <3>1, AppendPoints DEF Publish
    <2>2. CASE \/ Searches \/ Rests \/ Hide \/ OnLoaded \/ OnAnswer \/ Stop
               \/ TakeStorage \/ TakeFiles \/ TakeQuery
               \/ ComputeThrows \/ ComputeDrops \/ ComputeEnds \/ Deliver \/ Exit
      <3>1. \/ projections' = projections \/ projections' = <<>>
            \/ projections # <<>> /\ projections' = Tail(projections)
        BY <2>2, OnLoadedEffect
           DEF Searches, Rests, ProjectionsTaken, Hide, OnAnswer, Stop, TakeStorage,
               TakeFiles, TakeQuery, ComputeThrows, ComputeDrops, ComputeEnds, Deliver,
               Exit, eventVars
      <3>2. CASE projections # <<>> /\ projections' = Tail(projections)
        BY <2>0, <3>2, TailPoints
      <3>3. CASE projections' = projections
        BY <2>0, <3>3
      <3>4. CASE projections' = <<>>
        BY <3>4
      <3> QED BY <3>1, <3>2, <3>3, <3>4
    <2> QED BY <2>1, <2>2, FileSearchKinds
  <1> QED BY <1>1, <1>2, <1>3, <1>4, <1>5 DEF QueuesTyped

(* Every step keeps the invariant.                                          *)
LEMMA SearchStep == SearchInv /\ [Next]_vars => SearchInv'
  BY OrderStep, FlagsTypes, CountsTypes, QueuesTypes, JobsAreOldStep, FilesAreWantedStep,
     FilesAreGivenUpStep, SearchFollowsStep DEF SearchInv, SearchTyped

(* The invariant says what the run checks.                                  *)
LEMMA SearchIsRight == SearchInv => TypeOK /\ ResultsFollowCorpus
PROOF
  <1> SUFFICES ASSUME SearchInv PROVE TypeOK /\ ResultsFollowCorpus
    OBVIOUS
  <1>1. TypeOK
    BY DEF SearchInv, SearchTyped, FlagsTyped, CountsTyped, QueuesTyped, OrderInv, TypeOK,
           FileWorkers, Jobs
  <1>2. ASSUME AtRest, ~stopping, view = "overlay", inFiles, ~threw PROVE shown = {corpus}
    BY <1>2 DEF SearchInv, AtRest, SearchFollows, SearchIsDone, Serving, CorpusIsComing
  <1>3. ASSUME AtRest, ~stopping, view = "background" PROVE corpus = 0
    BY <1>3 DEF SearchInv, AtRest, FilesAreGivenUp
  <1> QED BY <1>1, <1>2, <1>3 DEF ResultsFollowCorpus

-----------------------------------------------------------------------------
(* The three together.  Each is at its start or absent, and a step of one   *)
(* leaves the others alone.                                                 *)
WorkersInv == SearchInv /\ DiscoveryInv /\ PaneInv

(* Each worker is at its start, or absent.                                  *)
LEMMA WorkersInitially ==
  WorkersInit => /\ Init \/ Absent
                 /\ Discovery!Init \/ Discovery!Absent
                 /\ Pane!Init \/ Pane!Absent
  BY DEF WorkersInit

(* A step is one of each worker, or leaves it alone.                        *)
LEMMA EachSteps ==
  [WorkersNext]_<<vars, discovery, pane>> =>
    /\ [Next]_vars
    /\ [Discovery!Next]_(Discovery!vars)
    /\ [Pane!Next]_(Pane!vars)
PROOF
  <1>1. UNCHANGED discovery => UNCHANGED Discovery!vars
    BY DEF discovery, Discovery!vars, Discovery!uiVars, Discovery!serviceVars,
           Discovery!workerVars, Discovery!eventVars
  <1>2. UNCHANGED pane => UNCHANGED Pane!vars
    BY DEF pane, Pane!vars, Pane!paneVars, Pane!requestVars, Pane!workerVars
  <1> QED BY <1>1, <1>2 DEF WorkersNext

(* The three invariants hold in every state.                                *)
LEMMA Invariance == WorkersSpec => []WorkersInv
PROOF
  <1>1. WorkersInit => WorkersInv
    BY WorkersInitially, SearchInit, DiscoveryInit, PaneInit DEF WorkersInv
  <1>2. WorkersInv /\ [WorkersNext]_<<vars, discovery, pane>> => WorkersInv'
    BY EachSteps, SearchStep, DiscoveryStep, PaneStep DEF WorkersInv
  <1> QED BY <1>1, <1>2, PTL DEF WorkersSpec

(* The types of the three workers and of what the launcher keeps for them:  *)
(* requests that wait, answers under way, counters within their bounds.     *)
THEOREM TypesAreKept == WorkersSpec => []WorkersTypeOK
PROOF
  <1>1. WorkersInv => WorkersTypeOK
    BY SearchIsRight, DiscoveryIsRight, PaneIsRight DEF WorkersInv, WorkersTypeOK
  <1> QED BY <1>1, Invariance, PTL

(* What the launcher shows once everything has settled is current: the      *)
(* files come from the corpus published last and none is kept in the        *)
(* background, the catalog is what is installed unless discovery failed or  *)
(* is to look again, and the pane shows the file that is selected.          *)
THEOREM WhatIsShownIsCurrent == WorkersSpec => []ShownIsCurrent
PROOF
  <1>1. WorkersInv => ShownIsCurrent
    BY SearchIsRight, DiscoveryIsRight, PaneIsRight DEF WorkersInv, ShownIsCurrent
  <1> QED BY <1>1, Invariance, PTL

(* File search and previews implement LatestAnswer: the generations their   *)
(* workers serve rise, each is answered at most once, and none that was not *)
(* asked for, whatever replaces, cancels or fails them.                     *)
THEOREM LatestIsAnswered == WorkersSpec => AnswersAreLatest
PROOF
  <1>1. WorkersInit => Answers!Init /\ Pane!LatestPreview!Init
    BY WorkersInitially, InitMaps, PaneInitMaps
  <1>2. WorkersInv /\ [WorkersNext]_<<vars, discovery, pane>> =>
          /\ [Answers!Ask \/ Answers!Serve \/ Answers!Finish]_<<generation, ServedNow, delivered>>
          /\ [Pane!LatestPreview!Ask \/ Pane!LatestPreview!Serve \/ Pane!LatestPreview!Finish]_
               <<previewGeneration, PaneServed, answered>>
    BY EachSteps, StepMaps, PaneStepMaps DEF WorkersInv, SearchInv
  <1> QED BY <1>1, <1>2, Invariance, PTL
          DEF WorkersSpec, AnswersAreLatest, ImplementsLatestAnswer, Answers!Spec, ServedNow,
              Pane!ImplementsLatestAnswer, Pane!LatestPreview!Spec, PaneServed
=============================================================================
