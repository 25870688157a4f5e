--------------------------- MODULE PhoneDownloads ---------------------------
(***************************************************************************)
(* The photos and storage files the launcher asks the phone for: the       *)
(* tables of pending requests in native/src/phone_service.cpp, the         *)
(* downloading flags of native/src/phone_store.hpp and the launcher that   *)
(* sets them (main.cpp).  A request ends with its answer, with the         *)
(* connection that would have carried the answer, with its deadline or     *)
(* with CancelTransfers.                                                   *)
(*                                                                         *)
(* Requests are taken out of the tables under mutex_, and the events that  *)
(* tell the launcher are pushed afterwards, one by one, by the thread that *)
(* took them: the worker of a connection, the beacon thread, the UI.       *)
(* Connections follow one another as PhoneSessions lets them; the phone    *)
(* may answer anything or nothing.                                         *)
(***************************************************************************)
EXTENDS Naturals, Sequences, FiniteSets, SequencesExt

CONSTANTS Names,        \* photo ids and storage paths
          MaxConns,     \* bound on the connections
          MaxAnswers,   \* bound on the answers of the phone
          MaxRequests,  \* bound on the requests of the user
          NoRequest     \* no entry in the table

ASSUME DownloadConstants ==
  /\ MaxConns \in Nat /\ MaxAnswers \in Nat /\ MaxRequests \in Nat
  /\ NoRequest \notin Nat

Conns   == 1 .. MaxConns
Beacon  == 0                \* the thread that lets requests expire
Ui      == MaxConns + 1
Threads == 0 .. MaxConns + 1

VARIABLES
  active,       \* active_: the registered connection, 0 for none
  link,         \* connection -> "new", "up", "down"
  pending,      \* pendingPhotos_, pendingFiles_: name -> the connection that was
                \*   active when the request was registered
  saving,       \* connection -> the answer its worker is handling
  emit,         \* thread -> events it still has to push
  phoneEvents,  \* the queue to the UI
  ui,           \* where the UI thread is in RequestPhonePhoto
  name,         \* the name it asks for
  downloading,  \* names the launcher shows as downloading
  abandoned,    \* names whose deadline a failed repeat took away
  requests, answers   \* how many there were

vars == <<active, link, pending, saving, emit, phoneEvents, ui, name, downloading,
          abandoned, requests, answers>>

(* An event that ends the download of a name, or all of them.               *)
Ending(kind, n) == [kind |-> kind, name |-> n]
Plain(kind)     == [kind |-> kind]

Events ==
  [kind : {"saved", "error"}, name : Names]
    \cup [kind : {"Connected", "Disconnected"}]

NoAnswer == Plain("none")

TypeOK ==
  /\ active \in {0} \cup Conns
  /\ link \in [Conns -> {"new", "up", "down"}]
  /\ pending \in [Names -> {0, NoRequest} \cup Conns]
  /\ \A c \in Conns : saving[c] \in Events \cup {NoAnswer}
  /\ \A t \in Threads : \A i \in DOMAIN emit[t] : emit[t][i] \in Events
  /\ \A i \in DOMAIN phoneEvents : phoneEvents[i] \in Events
  /\ ui \in {"idle", "registering", "sending", "erasing"}
  /\ name \in Names \cup {NoRequest}
  /\ downloading \subseteq Names /\ abandoned \subseteq Names
  /\ requests \in 0 .. MaxRequests /\ answers \in 0 .. MaxAnswers

Init ==
  /\ active = 0
  /\ link = [c \in Conns |-> "new"]
  /\ pending = [n \in Names |-> NoRequest]
  /\ saving = [c \in Conns |-> NoAnswer]
  /\ emit = [t \in Threads |-> <<>>]
  /\ phoneEvents = <<>>
  /\ ui = "idle" /\ name = NoRequest
  /\ downloading = {} /\ abandoned = {}
  /\ requests = 0 /\ answers = 0

Pending == {n \in Names : pending[n] # NoRequest}

Without(ns) == [n \in Names |-> IF n \in ns THEN NoRequest ELSE pending[n]]

(* TakeExpiredLocked(true): everything pending ends with the connection.    *)
NothingUnanswered == <<>>   \* mutant: the requests vanish without an event
Unanswered == SetToSeq({Ending("error", n) : n \in Pending})

Launcher == <<ui, name, downloading, abandoned, requests>>

-----------------------------------------------------------------------------
(* Connections.  The one that authenticates replaces the active one, and    *)
(* the requests of that one will not be answered.                           *)
Connect(c) ==
  /\ link[c] = "new" /\ \A d \in Conns : d < c => link[d] # "new"
  /\ link' = [link EXCEPT ![c] = "up"]
  /\ active' = c
  /\ IF active # 0
     THEN /\ emit' = [emit EXCEPT ![c] = Append(Unanswered, Plain("Connected"))]
          /\ pending' = Without(Names)
     ELSE /\ emit' = [emit EXCEPT ![c] = <<Plain("Connected")>>]
          /\ UNCHANGED pending
  /\ UNCHANGED <<saving, phoneEvents, answers, Launcher>>

(* The worker of a connection is done with it; a connection that was        *)
(* replaced takes nothing along.                                            *)
EndsRequests(c) == active = c

End(c) ==
  /\ link[c] = "up" /\ emit[c] = <<>> /\ saving[c] = NoAnswer
  /\ link' = [link EXCEPT ![c] = "down"]
  /\ active' = IF active = c THEN 0 ELSE active
  /\ IF EndsRequests(c)
     THEN /\ emit' = [emit EXCEPT ![c] = Append(Unanswered, Plain("Disconnected"))]
          /\ pending' = Without(Names)
     ELSE UNCHANGED <<emit, pending>>
  /\ UNCHANGED <<saving, phoneEvents, answers, Launcher>>

(* HandleSessionFrame: an answer of the active connection, which may be     *)
(* replaced while its data is saved; then the request is settled.           *)
Answer(c, n, kind) ==
  /\ active = c /\ emit[c] = <<>> /\ saving[c] = NoAnswer
  /\ answers < MaxAnswers
  /\ answers' = answers + 1
  /\ saving' = [saving EXCEPT ![c] = Ending(kind, n)]
  /\ UNCHANGED <<active, link, pending, emit, phoneEvents, Launcher>>

SettleRequest(c) ==
  /\ saving[c] # NoAnswer
  /\ pending' = Without({saving[c].name})
  /\ emit' = [emit EXCEPT ![c] = <<saving[c]>>]
  /\ saving' = [saving EXCEPT ![c] = NoAnswer]
  /\ UNCHANGED <<active, link, phoneEvents, answers, Launcher>>

(* ExpireRequests: the beacon thread looks every few seconds.               *)
Expire(ns) ==
  /\ emit[Beacon] = <<>>
  /\ pending' = Without(ns)
  /\ emit' = [emit EXCEPT ![Beacon] = SetToSeq({Ending("error", n) : n \in ns})]
  /\ UNCHANGED <<active, link, saving, phoneEvents, answers, Launcher>>

Emit(t) ==
  /\ emit[t] # <<>>
  /\ phoneEvents' = Append(phoneEvents, Head(emit[t]))
  /\ emit' = [emit EXCEPT ![t] = Tail(@)]
  /\ UNCHANGED <<active, link, pending, saving, answers, Launcher>>

-----------------------------------------------------------------------------
(* The launcher, on the UI thread.  RequestPhonePhoto and RequestPhoneFile: *)
(* nothing stops a second request for the same name.                        *)
UiFree == ui = "idle" /\ emit[Ui] = <<>>

Service == <<active, link, saving, emit, phoneEvents, answers>>

Request(n) ==
  /\ UiFree
  /\ active # 0
  /\ requests < MaxRequests
  /\ requests' = requests + 1
  /\ ui' = "registering" /\ name' = n
  /\ UNCHANGED <<Service, pending, downloading, abandoned>>

Register ==
  /\ ui = "registering"
  /\ pending' = [pending EXCEPT ![name] = active]
  /\ abandoned' = abandoned \ {name}
  /\ ui' = "sending"
  /\ UNCHANGED <<Service, name, downloading, requests>>

(* Send queues the request on the active session; it fails without one, and *)
(* when the session has failed or its queue is full.                        *)
SendSucceeds ==
  /\ ui = "sending" /\ active # 0
  /\ ui' = "idle" /\ name' = NoRequest
  /\ downloading' = downloading \cup {name}
  /\ UNCHANGED <<Service, pending, abandoned, requests>>

SendFails ==
  /\ ui = "sending"
  /\ ui' = "erasing"
  /\ UNCHANGED <<Service, pending, name, downloading, abandoned, requests>>

(* The request is erased, whichever request for the name that is.           *)
EraseFailed ==
  /\ ui = "erasing"
  /\ pending' = Without({name})
  /\ abandoned' = abandoned \cup ({name} \cap downloading)
  /\ ui' = "idle" /\ name' = NoRequest
  /\ UNCHANGED <<Service, downloading, requests>>

CancelTransfers ==
  /\ UiFree
  /\ Pending # {}
  /\ pending' = Without(Names)
  /\ emit' = [emit EXCEPT ![Ui] = Unanswered]
  /\ UNCHANGED <<active, link, saving, phoneEvents, answers, Launcher>>

(* PhoneStore::Apply.                                                       *)
Ended(event) ==
  CASE event.kind \in {"saved", "error"} -> {event.name}
    [] event.kind = "Disconnected" -> Names
    [] OTHER -> {}

OnPhoneEvent ==
  /\ UiFree
  /\ phoneEvents # <<>>
  /\ downloading' = downloading \ Ended(Head(phoneEvents))
  /\ abandoned' = abandoned \ Ended(Head(phoneEvents))
  /\ phoneEvents' = Tail(phoneEvents)
  /\ UNCHANGED <<active, link, pending, saving, emit, answers, ui, name, requests>>

-----------------------------------------------------------------------------
UiStep ==
  \/ Register \/ SendSucceeds \/ SendFails \/ EraseFailed
  \/ Emit(Ui) \/ OnPhoneEvent

Next ==
  \/ \E c \in Conns : Connect(c) \/ End(c) \/ SettleRequest(c)
  \/ \E c \in Conns, n \in Names, kind \in {"saved", "error"} : Answer(c, n, kind)
  \/ \E ns \in SUBSET Pending \ {{}} : Expire(ns)
  \/ \E t \in Threads \ {Ui} : Emit(t)
  \/ \E n \in Names : Request(n)
  \/ CancelTransfers
  \/ UiStep

Spec == Init /\ [][Next]_vars

(* Threads keep running, and every deadline passes.  Neither an answer nor  *)
(* the end of a connection is owed.                                         *)
Fairness ==
  /\ WF_vars(UiStep)
  /\ \A t \in Threads \ {Ui} : WF_vars(Emit(t))
  /\ \A c \in Conns : WF_vars(SettleRequest(c))
  /\ \A n \in Names : WF_vars(\E ns \in SUBSET Pending : n \in ns /\ Expire(ns))

FairSpec == Spec /\ Fairness

-----------------------------------------------------------------------------
InSight(event, n) == event.kind # "none" /\ n \in Ended(event)

EndInSight(n) ==
  \/ pending[n] # NoRequest
  \/ \E c \in Conns : InSight(saving[c], n)
  \/ \E t \in Threads : \E i \in DOMAIN emit[t] : InSight(emit[t][i], n)
  \/ \E i \in DOMAIN phoneEvents : InSight(phoneEvents[i], n)

(* Whatever the launcher shows as downloading still has a request that can  *)
(* expire, or an event on its way that ends it, whichever threads took the  *)
(* request meanwhile; but for a name whose repeated request failed.         *)
NoEndlessSpinner == \A n \in downloading \ abandoned : EndInSight(n)

(* Every download ends in the launcher, whether or not the phone answers.   *)
DownloadsEnd ==
  \A n \in Names : n \in downloading \ abandoned ~> n \notin downloading \ abandoned

=============================================================================
