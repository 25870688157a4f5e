------------------------ MODULE PhoneTransfersProofs ------------------------
(***************************************************************************)
(* What the launcher and the phone ask of each other ends, and ends once,  *)
(* for any number of names, files, connections, requests and answers and   *)
(* any limits.                                                             *)
(*                                                                         *)
(* A request that is taken out of the pending tables leaves an event that  *)
(* ends it with the thread that took it, and such an event is only ever    *)
(* passed on: from the worker's hands to its list, from the list to the    *)
(* queue, from the queue to the launcher.                                  *)
(*                                                                         *)
(* Of the file that is sent, one may say how it ended: the worker of the   *)
(* transfer or the one of the connection, whichever takes its receipt out  *)
(* of the set.  The slots of a session are those of the workers that run   *)
(* on it.                                                                  *)
(***************************************************************************)
EXTENDS MCPhoneTransfers, FiniteSetTheorems, TLAPS

(* What the phone may answer.                                               *)
Outcomes == [kind : {"saved", "error"}, name : Names]

RequestTypes ==
  /\ active \in {0} \cup Conns
  /\ link \in [Conns -> {"new", "up", "down"}]
  /\ pending \in [Names -> {0, NoRequest} \cup Conns]
  /\ requests \in 0 .. MaxRequests /\ answers \in 0 .. MaxAnswers
EventTypes ==
  /\ saving \in [Conns -> Outcomes \cup {NoAnswer}]
  /\ emit \in [Threads -> Seq(Events)]
  /\ phoneEvents \in Seq(Events)
LauncherTypes ==
  /\ ui \in {"idle", "registering", "sending", "erasing"}
  /\ name \in Names \cup {NoRequest}
  /\ ui # "idle" => name \in Names
  /\ downloading \subseteq Names /\ abandoned \subseteq Names

(* A connection that has not begun, or that handles an answer, has nothing  *)
(* else to say; the active one is up.                                       *)
OneThingAtATime ==
  /\ \A c \in Conns : link[c] = "new" => emit[c] = <<>> /\ saving[c] = NoAnswer
  /\ \A c \in Conns : saving[c] # NoAnswer => emit[c] = <<>>
  /\ active # 0 => link[active] = "up"

(* The request that the UI thread has registered and not yet sent may have  *)
(* been taken out of the table again: then its end is on the way.           *)
SentIsInSight == ui = "sending" => EndInSight(name)

DownloadsInv ==
  /\ RequestTypes /\ EventTypes /\ LauncherTypes
  /\ OneThingAtATime /\ SentIsInSight /\ NoEndlessSpinner

(* A sequence of events holds one that ends the download of n.              *)
Holds(s, n) == \E i \in DOMAIN s : InSight(s[i], n)

-----------------------------------------------------------------------------
(* The errors that are queued for a set of requests end all of them.        *)
LEMMA ErrorsAreEvents ==
  ASSUME NEW ns \in SUBSET Names
  PROVE  LET s == SetToSeq({Ending("error", n) : n \in ns})
         IN  /\ s \in Seq(Events)
             /\ \A n \in ns : Holds(s, n)
PROOF
  <1> DEFINE T == {Ending("error", n) : n \in ns}
             s == SetToSeq(T)
             f == [n \in ns |-> Ending("error", n)]
  <1>1. IsFiniteSet(T)
    <2>1. IsFiniteSet(ns)
      BY TransferConstants, FS_Subset
    <2>2. f \in Surjection(ns, T)
      BY DEF Surjection
    <2> HIDE DEF f, T
    <2> QED BY <2>1, <2>2, FS_Surjection
  <1>2. Cardinality(T) \in Nat /\ ExistsBijection(1 .. Cardinality(T), T)
    <2> HIDE DEF T
    <2> QED BY <1>1, FS_CardinalityType
  <1>3. s \in [1 .. Cardinality(T) -> T] /\ IsInjective(s)
    <2> HIDE DEF T
    <2>1. \E g : g \in [1 .. Cardinality(T) -> T] /\ IsInjective(g)
      BY <1>2 DEF ExistsBijection, Bijection, Injection, IsInjective
    <2> QED BY <2>1 DEF SetToSeq
  <1>4. s \in Surjection(1 .. Cardinality(T), T)
    <2> DEFINE k == Cardinality(T)
    <2>1. IsFiniteSet(1 .. k) /\ Cardinality(1 .. k) = k
      BY <1>2, FS_Interval
    <2>2. s \in Injection(1 .. k, T)
      BY <1>3 DEF Injection
    <2> HIDE DEF T, s
    <2> QED BY <1>1, <2>1, <2>2, FS_Injection
  <1>5. T \subseteq Events
    BY DEF Events, Ending
  <1>6. s \in Seq(Events)
    <2> HIDE DEF T, s
    <2>1. s \in Seq(T)
      BY <1>2, <1>3
    <2> QED BY <1>5, <2>1
  <1>7. ASSUME NEW n \in ns PROVE Holds(s, n)
    <2>1. Ending("error", n) \in T
      OBVIOUS
    <2>2. PICK i \in 1 .. Cardinality(T) : s[i] = Ending("error", n)
      <3> HIDE DEF T, s
      <3> QED BY <1>4, <2>1 DEF Surjection
    <2>3. DOMAIN s = 1 .. Cardinality(T)
      <3> HIDE DEF T, s
      <3> QED BY <1>3
    <2>4. InSight(Ending("error", n), n)
      BY DEF InSight, Ending, Ended
    <2> HIDE DEF T, s
    <2> QED BY <2>2, <2>3, <2>4 DEF Holds
  <1> QED BY <1>6, <1>7

(* TakeExpiredLocked(true): so everything that was pending ends.            *)
LEMMA EndsUnanswered ==
  ASSUME RequestTypes
  PROVE  /\ Unanswered \in Seq(Events)
         /\ \A n \in Pending : Holds(Unanswered, n)
PROOF
  <1>1. Pending \in SUBSET Names
    BY DEF Pending
  <1> QED BY <1>1, ErrorsAreEvents DEF Unanswered

(* What a sequence holds it holds under another event.                      *)
LEMMA HoldsAppended ==
  ASSUME NEW s \in Seq(Events), NEW e \in Events
  PROVE  /\ Append(s, e) \in Seq(Events)
         /\ \A n : Holds(Append(s, e), n) <=> Holds(s, n) \/ InSight(e, n)
PROOF
  <1>1. Append(s, e) \in Seq(Events)
    OBVIOUS
  <1>2. Len(s) \in Nat /\ DOMAIN s = 1 .. Len(s)
    OBVIOUS
  <1>3. DOMAIN Append(s, e) = 1 .. Len(s) + 1
    OBVIOUS
  <1>4. Append(s, e)[Len(s) + 1] = e
    OBVIOUS
  <1>5. \A i \in 1 .. Len(s) : Append(s, e)[i] = s[i]
    OBVIOUS
  <1>6. ASSUME NEW n PROVE Holds(Append(s, e), n) <=> Holds(s, n) \/ InSight(e, n)
    <2>1. ASSUME Holds(s, n) PROVE Holds(Append(s, e), n)
      <3>1. PICK i \in 1 .. Len(s) : InSight(s[i], n)
        BY <1>2, <2>1 DEF Holds
      <3>2. i \in 1 .. Len(s) + 1 /\ InSight(Append(s, e)[i], n)
        BY <1>2, <1>5, <3>1
      <3> QED BY <1>3, <3>2 DEF Holds
    <2>2. ASSUME InSight(e, n) PROVE Holds(Append(s, e), n)
      <3>1. Len(s) + 1 \in 1 .. Len(s) + 1
        BY <1>2
      <3> QED BY <1>3, <1>4, <2>2, <3>1 DEF Holds
    <2>3. ASSUME Holds(Append(s, e), n) PROVE Holds(s, n) \/ InSight(e, n)
      <3>1. PICK i \in 1 .. Len(s) + 1 : InSight(Append(s, e)[i], n)
        BY <1>3, <2>3 DEF Holds
      <3>2. CASE i = Len(s) + 1
        BY <1>4, <3>1, <3>2
      <3>3. CASE i # Len(s) + 1
        <4>1. i \in 1 .. Len(s)
          BY <1>2, <3>3
        <4> QED BY <1>2, <1>5, <3>1, <4>1 DEF Holds
      <3> QED BY <3>2, <3>3
    <2> QED BY <2>1, <2>2, <2>3
  <1> QED BY <1>1, <1>6

(* It is the head or in the tail.                                           *)
LEMMA HoldsSplit ==
  ASSUME NEW s \in Seq(Events), s # <<>>
  PROVE  /\ Head(s) \in Events /\ Tail(s) \in Seq(Events)
         /\ \A n : Holds(s, n) => InSight(Head(s), n) \/ Holds(Tail(s), n)
PROOF
  <1>1. Head(s) \in Events /\ Tail(s) \in Seq(Events)
    BY Z3
  <1>2. Len(s) \in Nat /\ DOMAIN s = 1 .. Len(s) /\ Head(s) = s[1]
    OBVIOUS
  <1>3. DOMAIN Tail(s) = 1 .. Len(s) - 1 /\ \A i \in 1 .. Len(s) - 1 : Tail(s)[i] = s[i + 1]
    OBVIOUS
  <1>4. ASSUME NEW n, Holds(s, n) PROVE InSight(Head(s), n) \/ Holds(Tail(s), n)
    <2>1. PICK i \in 1 .. Len(s) : InSight(s[i], n)
      BY <1>2, <1>4 DEF Holds
    <2>2. CASE i = 1
      BY <1>2, <2>1, <2>2
    <2>3. CASE i # 1
      <3>1. i - 1 \in 1 .. Len(s) - 1 /\ (i - 1) + 1 = i
        BY <1>2, <2>3
      <3>2. InSight(Tail(s)[i - 1], n)
        BY <1>3, <2>1, <3>1
      <3> QED BY <1>3, <3>1, <3>2 DEF Holds
    <2> QED BY <2>2, <2>3
  <1> QED BY <1>1, <1>4

-----------------------------------------------------------------------------
(* Erasing names from the tables leaves the other names alone.              *)
LEMMA TableTypes ==
  ASSUME RequestTypes, NEW ns
  PROVE  /\ Without(ns) \in [Names -> {0, NoRequest} \cup Conns]
         /\ \A n \in Names \ ns : Without(ns)[n] = pending[n]
BY DEF RequestTypes, Without

(* The threads have numbers of their own.                                   *)
LEMMA Numbers ==
  /\ MaxConns \in Nat /\ MaxAnswers \in Nat /\ MaxRequests \in Nat /\ NoRequest \notin Nat
  /\ Conns \subseteq Nat \ {0} /\ Conns \subseteq Threads
  /\ Beacon \in Threads /\ Beacon \notin Conns /\ Ui \in Threads /\ Ui \notin Conns
BY DownloadConstants DEF Conns, Threads, Beacon, Ui

(* What the phone answers, and what a connection says of itself.            *)
LEMMA KnownEvents ==
  /\ Outcomes \subseteq Events /\ NoAnswer \notin Events
  /\ Plain("Connected") \in Events /\ Plain("Disconnected") \in Events
PROOF
  <1>1. Outcomes \subseteq Events
    BY DEF Outcomes, Events
  <1>2. \A e \in Events : e.kind \in {"saved", "error", "Connected", "Disconnected"}
    BY DEF Events
  <1>3. NoAnswer.kind = "none"
    BY DEF NoAnswer, Plain
  <1>4. NoAnswer \notin Events
    BY <1>2, <1>3
  <1>5. Plain("Connected") \in Events /\ Plain("Disconnected") \in Events
    BY DEF Plain, Events
  <1> QED BY <1>1, <1>4, <1>5

(* Every step keeps the types of the table ...                              *)
LEMMA StepRequestTypes == RequestTypes /\ LauncherTypes /\ [Next]_vars => RequestTypes'
PROOF
  <1> SUFFICES ASSUME RequestTypes, LauncherTypes, [Next]_vars PROVE RequestTypes'
    OBVIOUS
  <1> USE DEF RequestTypes
  <1>0. \A ns : Without(ns) \in [Names -> {0, NoRequest} \cup Conns]
    BY TableTypes
  <1>1. ASSUME NEW c \in Conns, Connect(c) PROVE RequestTypes'
    BY <1>0, <1>1 DEF Connect, Launcher
  <1>2. ASSUME NEW c \in Conns, End(c) PROVE RequestTypes'
    BY <1>0, <1>2 DEF End, Launcher
  <1>3. ASSUME NEW c \in Conns, SettleRequest(c) PROVE RequestTypes'
    BY <1>0, <1>3 DEF SettleRequest, Launcher
  <1>4. ASSUME NEW c \in Conns, NEW n \in Names, NEW kind, Answer(c, n, kind)
        PROVE  RequestTypes'
    BY <1>4, Numbers DEF Answer, Launcher
  <1>5. ASSUME NEW ns, Expire(ns) PROVE RequestTypes'
    BY <1>0, <1>5 DEF Expire, Launcher
  <1>6. ASSUME NEW t \in Threads, Emit(t) PROVE RequestTypes'
    BY <1>6 DEF Emit, Launcher
  <1>7. ASSUME NEW n \in Names, Request(n) PROVE RequestTypes'
    BY <1>7, Numbers DEF Request, Service
  <1>8. CASE CancelTransfers
    BY <1>0, <1>8 DEF CancelTransfers, Launcher
  <1>9. CASE Register
    BY <1>9 DEF Register, Service, LauncherTypes
  <1>10. CASE SendSucceeds \/ SendFails \/ OnPhoneEvent
    BY <1>10 DEF SendSucceeds, SendFails, OnPhoneEvent, Service
  <1>11. CASE EraseFailed
    BY <1>0, <1>11 DEF EraseFailed, Service
  <1>12. CASE UNCHANGED vars
    BY <1>12 DEF vars
  <1> QED BY <1>1, <1>2, <1>3, <1>4, <1>5, <1>6, <1>7, <1>8, <1>9, <1>10, <1>11, <1>12,
            Numbers DEF Next, UiStep

(* ... of the events on their way ...                                       *)
LEMMA StepEventTypes ==
  RequestTypes /\ EventTypes /\ [Next]_vars => EventTypes'
PROOF
  <1> SUFFICES ASSUME RequestTypes, EventTypes, [Next]_vars PROVE EventTypes'
    OBVIOUS
  <1>0. /\ saving \in [Conns -> Outcomes \cup {NoAnswer}] /\ emit \in [Threads -> Seq(Events)]
        /\ phoneEvents \in Seq(Events)
    BY DEF EventTypes
  <1>a. ASSUME UNCHANGED <<saving, phoneEvents>>, NEW t \in Threads, NEW s \in Seq(Events),
               emit' = [emit EXCEPT ![t] = s]
        PROVE  EventTypes'
    BY <1>0, <1>a DEF EventTypes
  <1>b. ASSUME UNCHANGED <<saving, emit, phoneEvents>> PROVE EventTypes'
    BY <1>b DEF EventTypes
  <1>c. Unanswered \in Seq(Events)
    BY EndsUnanswered
  <1>1. ASSUME NEW c \in Conns, Connect(c) PROVE EventTypes'
    <2>1. Append(Unanswered, Plain("Connected")) \in Seq(Events)
      BY <1>c, HoldsAppended, KnownEvents
    <2>2. <<Plain("Connected")>> \in Seq(Events)
      BY KnownEvents
    <2>3. PICK s \in Seq(Events) : emit' = [emit EXCEPT ![c] = s]
      BY <1>1, <2>1, <2>2 DEF Connect
    <2>4. UNCHANGED <<saving, phoneEvents>> /\ c \in Threads
      BY <1>1, Numbers DEF Connect
    <2> QED BY <1>a, <2>3, <2>4
  <1>2. ASSUME NEW c \in Conns, End(c) PROVE EventTypes'
    <2>1. Append(Unanswered, Plain("Disconnected")) \in Seq(Events)
      BY <1>c, HoldsAppended, KnownEvents
    <2>2. \/ UNCHANGED emit
          \/ emit' = [emit EXCEPT ![c] = Append(Unanswered, Plain("Disconnected"))]
      BY <1>2 DEF End
    <2>3. UNCHANGED <<saving, phoneEvents>> /\ c \in Threads
      BY <1>2, Numbers DEF End
    <2> QED BY <1>a, <1>b, <2>1, <2>2, <2>3
  <1>3. ASSUME NEW c \in Conns, SettleRequest(c) PROVE EventTypes'
    <2>1. /\ emit' = [emit EXCEPT ![c] = <<saving[c]>>]
          /\ saving' = [saving EXCEPT ![c] = NoAnswer]
          /\ UNCHANGED phoneEvents /\ saving[c] # NoAnswer
      BY <1>3 DEF SettleRequest
    <2>2. saving[c] \in Events
      BY <1>0, <2>1, KnownEvents
    <2>3. <<saving[c]>> \in Seq(Events)
      BY <2>2
    <2>4. saving' \in [Conns -> Outcomes \cup {NoAnswer}]
      BY <1>0, <2>1
    <2>5. emit' \in [Threads -> Seq(Events)]
      BY <1>0, <2>1, <2>3
    <2> QED BY <1>0, <2>1, <2>4, <2>5 DEF EventTypes
  <1>4. ASSUME NEW c \in Conns, NEW n \in Names, NEW kind \in {"saved", "error"},
               Answer(c, n, kind)
        PROVE  EventTypes'
    <2>1. Ending(kind, n) \in Outcomes
      BY DEF Ending, Outcomes
    <2>2. saving' = [saving EXCEPT ![c] = Ending(kind, n)] /\ UNCHANGED <<emit, phoneEvents>>
      BY <1>4 DEF Answer
    <2>3. saving' \in [Conns -> Outcomes \cup {NoAnswer}]
      BY <1>0, <2>1, <2>2
    <2> QED BY <1>0, <2>2, <2>3 DEF EventTypes
  <1>5. ASSUME NEW ns \in SUBSET Pending, Expire(ns) PROVE EventTypes'
    <2>1. SetToSeq({Ending("error", n) : n \in ns}) \in Seq(Events)
      BY ErrorsAreEvents DEF Pending
    <2> QED BY <1>5, <1>a, <2>1, Numbers DEF Expire
  <1>6. ASSUME NEW t \in Threads, Emit(t) PROVE EventTypes'
    <2>1. emit[t] \in Seq(Events) /\ emit[t] # <<>>
      BY <1>0, <1>6 DEF Emit
    <2>2. Head(emit[t]) \in Events /\ Tail(emit[t]) \in Seq(Events)
      BY <2>1, HoldsSplit
    <2>3. Append(phoneEvents, Head(emit[t])) \in Seq(Events)
      BY <1>0, <2>2
    <2>4. emit' \in [Threads -> Seq(Events)]
      BY <1>0, <1>6, <2>2 DEF Emit
    <2> QED BY <1>0, <1>6, <2>3, <2>4 DEF Emit, EventTypes
  <1>7. ASSUME NEW n \in Names, Request(n) PROVE EventTypes'
    BY <1>7, <1>b DEF Request, Service
  <1>8. CASE CancelTransfers
    BY <1>8, <1>a, <1>c, Numbers DEF CancelTransfers
  <1>9. CASE Register \/ SendSucceeds \/ SendFails \/ EraseFailed
    BY <1>9, <1>b DEF Register, SendSucceeds, SendFails, EraseFailed, Service
  <1>10. CASE OnPhoneEvent
    <2>1. Tail(phoneEvents) \in Seq(Events)
      BY <1>0, <1>10, HoldsSplit DEF OnPhoneEvent
    <2> QED BY <1>0, <1>10, <2>1 DEF OnPhoneEvent, EventTypes
  <1>11. CASE UNCHANGED vars
    BY <1>11, <1>b DEF vars
  <1> QED BY <1>1, <1>2, <1>3, <1>4, <1>5, <1>6, <1>7, <1>8, <1>9, <1>10, <1>11,
            Numbers DEF Next, UiStep

(* ... and of the launcher.                                                 *)
LEMMA StepLauncherTypes == LauncherTypes /\ [Next]_vars => LauncherTypes'
PROOF
  <1> SUFFICES ASSUME LauncherTypes, [Next]_vars PROVE LauncherTypes'
    OBVIOUS
  <1> USE DEF LauncherTypes
  <1>1. ASSUME UNCHANGED Launcher PROVE LauncherTypes'
    BY <1>1 DEF Launcher
  <1>2. ASSUME NEW n \in Names, Request(n) PROVE LauncherTypes'
    BY <1>2 DEF Request
  <1>3. CASE Register \/ SendFails
    BY <1>3 DEF Register, SendFails
  <1>4. CASE SendSucceeds
    BY <1>4 DEF SendSucceeds
  <1>5. CASE EraseFailed
    BY <1>5 DEF EraseFailed
  <1>6. CASE OnPhoneEvent
    BY <1>6 DEF OnPhoneEvent
  <1>7. CASE UNCHANGED vars
    BY <1>7 DEF vars, Launcher
  <1>8. ASSUME \/ \E c \in Conns : Connect(c) \/ End(c) \/ SettleRequest(c)
               \/ \E c \in Conns, n \in Names, kind \in {"saved", "error"} : Answer(c, n, kind)
               \/ \E ns \in SUBSET Pending \ {{}} : Expire(ns)
               \/ \E t \in Threads \cup {Ui} : Emit(t)
               \/ CancelTransfers
        PROVE  UNCHANGED Launcher
    BY <1>8 DEF Connect, End, SettleRequest, Answer, Expire, Emit, CancelTransfers
  <1> QED BY <1>1, <1>2, <1>3, <1>4, <1>5, <1>6, <1>7, <1>8 DEF Next, UiStep

-----------------------------------------------------------------------------
(* A worker takes the next answer, or ends, when its events are out.        *)
LEMMA StepOneThingAtATime ==
  RequestTypes /\ EventTypes /\ OneThingAtATime /\ [Next]_vars => OneThingAtATime'
PROOF
  <1> SUFFICES ASSUME RequestTypes, EventTypes, OneThingAtATime, [Next]_vars
               PROVE  OneThingAtATime'
    OBVIOUS
  <1>0. /\ saving \in [Conns -> Outcomes \cup {NoAnswer}]
        /\ link \in [Conns -> {"new", "up", "down"}] /\ active \in {0} \cup Conns
        /\ \A t \in Threads : emit[t] \in Seq(Events)
        /\ DOMAIN emit = Threads /\ emit \in [Threads -> Seq(Events)]
    BY DEF RequestTypes, EventTypes
  <1> USE DEF OneThingAtATime
  <1>a. ASSUME UNCHANGED <<active, link, saving>>, \A c \in Conns : emit[c] = <<>> => emit'[c] = <<>>
        PROVE  OneThingAtATime'
    BY <1>a
  <1>1. ASSUME NEW c \in Conns, Connect(c) PROVE OneThingAtATime'
    <2>1. /\ link[c] = "new" /\ saving[c] = NoAnswer
          /\ link' = [link EXCEPT ![c] = "up"] /\ active' = c /\ UNCHANGED saving
      BY <1>1 DEF Connect
    <2>2. \A d \in Conns \ {c} : emit'[d] = emit[d]
      BY <1>0, <1>1, Numbers DEF Connect
    <2> QED BY <1>0, <2>1, <2>2
  <1>2. ASSUME NEW c \in Conns, End(c) PROVE OneThingAtATime'
    <2>1. /\ link[c] = "up" /\ saving[c] = NoAnswer
          /\ link' = [link EXCEPT ![c] = "down"] /\ UNCHANGED saving
          /\ active' = IF active = c THEN 0 ELSE active
      BY <1>2 DEF End
    <2>2. \A d \in Conns \ {c} : emit'[d] = emit[d]
      BY <1>0, <1>2, Numbers DEF End
    <2> QED BY <1>0, <2>1, <2>2
  <1>3. ASSUME NEW c \in Conns, SettleRequest(c) PROVE OneThingAtATime'
    <2>1. /\ saving[c] # NoAnswer /\ saving' = [saving EXCEPT ![c] = NoAnswer]
          /\ emit' = [emit EXCEPT ![c] = <<saving[c]>>] /\ UNCHANGED <<active, link>>
      BY <1>3 DEF SettleRequest
    <2>2. link[c] # "new" /\ saving'[c] = NoAnswer
      BY <1>0, <2>1
    <2>3. \A d \in Conns \ {c} : emit'[d] = emit[d] /\ saving'[d] = saving[d]
      BY <1>0, <2>1, Numbers
    <2> QED BY <1>0, <2>1, <2>2, <2>3
  <1>4. ASSUME NEW c \in Conns, NEW n \in Names, NEW kind, Answer(c, n, kind)
        PROVE  OneThingAtATime'
    <2>1. /\ active = c /\ emit[c] = <<>> /\ UNCHANGED <<active, link, emit>>
          /\ saving' = [saving EXCEPT ![c] = Ending(kind, n)]
      BY <1>4 DEF Answer
    <2>2. link[c] = "up"
      BY <2>1, Numbers
    <2> QED BY <1>0, <2>1, <2>2
  <1>5. ASSUME NEW ns, Expire(ns) PROVE OneThingAtATime'
    <2>1. \A d \in Conns : emit'[d] = emit[d]
      BY <1>0, <1>5, Numbers DEF Expire
    <2> QED BY <1>5, <1>a, <2>1 DEF Expire
  <1>6. ASSUME NEW t \in Threads, Emit(t) PROVE OneThingAtATime'
    <2>1. \A d \in Conns : emit[d] = <<>> => emit'[d] = <<>>
      BY <1>0, <1>6, Numbers DEF Emit
    <2> QED BY <1>6, <1>a, <2>1 DEF Emit
  <1>7. ASSUME NEW n \in Names, Request(n) PROVE OneThingAtATime'
    BY <1>7, <1>a DEF Request, Service
  <1>8. CASE CancelTransfers
    <2>1. \A d \in Conns : emit'[d] = emit[d]
      BY <1>0, <1>8, Numbers DEF CancelTransfers
    <2> QED BY <1>8, <1>a, <2>1 DEF CancelTransfers
  <1>9. CASE Register \/ SendSucceeds \/ SendFails \/ EraseFailed \/ OnPhoneEvent
    BY <1>9, <1>a DEF Register, SendSucceeds, SendFails, EraseFailed, OnPhoneEvent, Service
  <1>10. CASE UNCHANGED vars
    BY <1>10, <1>a DEF vars
  <1> QED BY <1>1, <1>2, <1>3, <1>4, <1>5, <1>6, <1>7, <1>8, <1>9, <1>10,
            Numbers DEF Next, UiStep

-----------------------------------------------------------------------------
(* Where the end of a download can be.                                      *)
LEMMA InSightIs ==
  ASSUME NEW n
  PROVE  EndInSight(n) <=> \/ pending[n] # NoRequest
                           \/ \E c \in Conns : InSight(saving[c], n)
                           \/ \E t \in Threads : Holds(emit[t], n)
                           \/ Holds(phoneEvents, n)
BY DEF EndInSight, Holds

(* Who takes a request out of a table has an event for it, and who has an   *)
(* event passes it on.  Only the UI thread drops one: it erases the request *)
(* that could not be sent, or it hears the end.                             *)
LEMMA InSightStays ==
  ASSUME RequestTypes, EventTypes, LauncherTypes, OneThingAtATime, [Next]_vars,
         NEW n \in Names, EndInSight(n),
         EraseFailed => n # name,
         OnPhoneEvent => n \notin Ended(Head(phoneEvents))
  PROVE  EndInSight(n)'
PROOF
  <1> DEFINE Saved(c) == InSight(saving[c], n)
             Owed(t) == Holds(emit[t], n)
             Told == Holds(phoneEvents, n)
             Kept == pending'[n] = pending[n] \/ pending'[n] # NoRequest
  <1>0. /\ saving \in [Conns -> Outcomes \cup {NoAnswer}]
        /\ emit \in [Threads -> Seq(Events)] /\ phoneEvents \in Seq(Events)
        /\ pending[n] # NoRequest => n \in Pending
    BY DEF EventTypes, Pending
  <1>1. pending[n] # NoRequest \/ (\E c \in Conns : Saved(c)) \/ (\E t \in Threads : Owed(t))
          \/ Told
    BY InSightIs
  <1>2. SUFFICES pending'[n] # NoRequest \/ (\E c \in Conns : Saved(c)')
                   \/ (\E t \in Threads : Owed(t)') \/ Told'
    BY DEF EndInSight, Holds
  <1> DEFINE Goal == pending'[n] # NoRequest \/ (\E c \in Conns : Saved(c)')
                       \/ (\E t \in Threads : Owed(t)') \/ Told'
  (* An event that ends nothing is not lost with its thread.                 *)
  <1>a. ASSUME UNCHANGED <<saving, emit, phoneEvents>>, Kept PROVE Goal
    BY <1>1, <1>a
  <1>b. ASSUME NEW t \in Threads, NEW s, emit' = [emit EXCEPT ![t] = s],
               emit[t] = <<>>, UNCHANGED <<saving, phoneEvents>>,
               Kept \/ Holds(s, n)
        PROVE  Goal
    <2>1. ~Owed(t)
      BY <1>b DEF Holds
    <2>2. \A u \in Threads \ {t} : emit'[u] = emit[u]
      BY <1>0, <1>b
    <2>3. emit'[t] = s
      BY <1>0, <1>b
    <2> QED BY <1>1, <1>b, <2>1, <2>2, <2>3
  <1>c. n \in Pending => Holds(Unanswered, n)
    BY EndsUnanswered
  <1>d. ASSUME NEW e \in Events PROVE n \in Pending => Holds(Append(Unanswered, e), n)
    BY <1>c, EndsUnanswered, HoldsAppended
  <1>3. ASSUME NEW c \in Conns, Connect(c) PROVE Goal
    <2>1. emit[c] = <<>> /\ c \in Threads
      BY <1>3, Numbers DEF Connect, OneThingAtATime
    <2>2. CASE active # 0
      <3>1. emit' = [emit EXCEPT ![c] = Append(Unanswered, Plain("Connected"))]
        BY <1>3, <2>2 DEF Connect
      <3>2. pending[n] = NoRequest \/ Holds(Append(Unanswered, Plain("Connected")), n)
        BY <1>0, <1>d, KnownEvents
      <3>3. pending'[n] = NoRequest
        BY <1>3, <2>2 DEF Connect, Without
      <3> QED BY <1>3, <1>b, <2>1, <3>1, <3>2, <3>3 DEF Connect
    <2>3. CASE active = 0
      BY <1>3, <1>b, <2>1, <2>3 DEF Connect
    <2> QED BY <2>2, <2>3
  <1>4. ASSUME NEW c \in Conns, End(c) PROVE Goal
    <2>1. emit[c] = <<>> /\ c \in Threads
      BY <1>4, Numbers DEF End
    <2>2. CASE EndsRequests(c)
      <3>1. emit' = [emit EXCEPT ![c] = Append(Unanswered, Plain("Disconnected"))]
        BY <1>4, <2>2 DEF End
      <3>2. pending[n] = NoRequest \/ Holds(Append(Unanswered, Plain("Disconnected")), n)
        BY <1>0, <1>d, KnownEvents
      <3>3. pending'[n] = NoRequest
        BY <1>4, <2>2 DEF End, Without
      <3> QED BY <1>4, <1>b, <2>1, <3>1, <3>2, <3>3 DEF End
    <2>3. CASE ~EndsRequests(c)
      BY <1>4, <1>a, <2>3 DEF End
    <2> QED BY <2>2, <2>3
  <1>5. ASSUME NEW c \in Conns, SettleRequest(c) PROVE Goal
    <2>1. /\ saving[c] # NoAnswer /\ pending' = Without({saving[c].name})
          /\ emit' = [emit EXCEPT ![c] = <<saving[c]>>]
          /\ saving' = [saving EXCEPT ![c] = NoAnswer] /\ UNCHANGED phoneEvents
      BY <1>5 DEF SettleRequest
    <2>2. emit[c] = <<>> /\ c \in Threads
      BY <2>1, Numbers DEF OneThingAtATime
    <2>3. saving[c] \in Outcomes
      BY <1>0, <2>1
    <2>4. \A d \in Conns \ {c} : saving'[d] = saving[d]
      BY <1>0, <2>1
    <2>5. \A u \in Threads \ {c} : emit'[u] = emit[u]
      BY <1>0, <2>1
    <2>6. emit'[c] = <<saving[c]>>
      BY <1>0, <2>1, <2>2
    <2>7. InSight(saving[c], n) => Holds(<<saving[c]>>, n)
      BY DEF Holds
    <2>8. n = saving[c].name => InSight(saving[c], n)
      BY <2>3 DEF InSight, Outcomes, Ended
    <2>9. n # saving[c].name => pending'[n] = pending[n]
      BY <2>1 DEF Without
    <2>10. ~Owed(c)
      BY <2>2 DEF Holds
    <2> QED BY <1>1, <2>1, <2>2, <2>4, <2>5, <2>6, <2>7, <2>8, <2>9, <2>10
  <1>6. ASSUME NEW c \in Conns, NEW m \in Names, NEW kind, Answer(c, m, kind) PROVE Goal
    <2>1. /\ saving[c] = NoAnswer /\ UNCHANGED <<pending, emit, phoneEvents>>
          /\ saving' = [saving EXCEPT ![c] = Ending(kind, m)]
      BY <1>6 DEF Answer
    <2>2. ~Saved(c)
      BY <2>1 DEF InSight, NoAnswer, Plain
    <2>3. \A d \in Conns \ {c} : saving'[d] = saving[d]
      BY <1>0, <2>1
    <2> QED BY <1>1, <2>1, <2>2, <2>3
  <1>7. ASSUME NEW ns \in SUBSET Pending, Expire(ns) PROVE Goal
    <2>1. n \in ns => Holds(SetToSeq({Ending("error", m) : m \in ns}), n)
      BY ErrorsAreEvents DEF Pending
    <2>2. n \notin ns => pending'[n] = pending[n]
      BY <1>7 DEF Expire, Without
    <2> QED BY <1>7, <1>b, <2>1, <2>2, Numbers DEF Expire
  <1>8. ASSUME NEW t \in Threads, Emit(t) PROVE Goal
    <2>1. /\ emit[t] # <<>> /\ emit' = [emit EXCEPT ![t] = Tail(emit[t])]
          /\ phoneEvents' = Append(phoneEvents, Head(emit[t]))
          /\ UNCHANGED <<pending, saving>>
      BY <1>0, <1>8 DEF Emit
    <2>2. /\ Head(emit[t]) \in Events
          /\ Owed(t) => InSight(Head(emit[t]), n) \/ Holds(Tail(emit[t]), n)
      BY <1>0, <2>1, HoldsSplit
    <2>3. Told \/ InSight(Head(emit[t]), n) => Told'
      BY <1>0, <2>1, <2>2, HoldsAppended
    <2>4. \A u \in Threads \ {t} : emit'[u] = emit[u]
      BY <1>0, <2>1
    <2>5. emit'[t] = Tail(emit[t])
      BY <1>0, <2>1
    <2> QED BY <1>1, <2>1, <2>2, <2>3, <2>4, <2>5
  <1>9. ASSUME NEW m \in Names, Request(m) PROVE Goal
    BY <1>9, <1>a DEF Request, Service
  <1>10. CASE CancelTransfers
    <2>1. emit[Ui] = <<>> /\ emit' = [emit EXCEPT ![Ui] = Unanswered]
          /\ UNCHANGED <<saving, phoneEvents>>
      BY <1>10 DEF CancelTransfers, UiFree
    <2>2. pending[n] = NoRequest \/ Holds(Unanswered, n)
      BY <1>0, <1>c
    <2>3. pending'[n] = NoRequest
      BY <1>10 DEF CancelTransfers, Without
    <2> QED BY <1>b, <2>1, <2>2, <2>3, Numbers
  <1>11. CASE Register
    <2>1. pending' = [pending EXCEPT ![name] = active]
          /\ UNCHANGED <<saving, emit, phoneEvents>>
      BY <1>11 DEF Register, Service
    <2>2. active # NoRequest
      BY Numbers DEF RequestTypes
    <2> QED BY <1>a, <2>1, <2>2 DEF RequestTypes
  <1>12. CASE SendSucceeds \/ SendFails
    BY <1>12, <1>a DEF SendSucceeds, SendFails, Service
  <1>13. CASE EraseFailed
    <2>1. pending'[n] = pending[n]
      BY <1>13 DEF EraseFailed, Without
    <2> QED BY <1>13, <1>a, <2>1 DEF EraseFailed, Service
  <1>14. CASE OnPhoneEvent
    <2>1. /\ phoneEvents # <<>> /\ phoneEvents' = Tail(phoneEvents)
          /\ UNCHANGED <<pending, saving, emit>>
      BY <1>14 DEF OnPhoneEvent
    <2>2. ~InSight(Head(phoneEvents), n)
      BY <1>14 DEF InSight
    <2>3. Told => Told'
      BY <1>0, <2>1, <2>2, HoldsSplit
    <2> QED BY <1>1, <2>1, <2>3
  <1>15. CASE UNCHANGED vars
    BY <1>15, <1>a DEF vars
  <1> QED BY <1>3, <1>4, <1>5, <1>6, <1>7, <1>8, <1>9, <1>10, <1>11, <1>12, <1>13, <1>14,
            <1>15, Numbers DEF Next, UiStep

(* What the launcher shows as downloading, and is not abandoned.            *)
LEMMA Downloading ==
  ASSUME LauncherTypes, [Next]_vars, NEW n \in (downloading \ abandoned)'
  PROVE  \/ /\ n \in downloading \ abandoned
            /\ EraseFailed => n # name
            /\ OnPhoneEvent => n \notin Ended(Head(phoneEvents))
         \/ SendSucceeds /\ n = name
         \/ Register /\ n = name
PROOF
  <1>1. CASE Register
    BY <1>1 DEF Register, EraseFailed, OnPhoneEvent, UiFree
  <1>2. CASE SendSucceeds
    BY <1>2 DEF SendSucceeds, EraseFailed, OnPhoneEvent, UiFree
  <1>3. CASE EraseFailed
    BY <1>3 DEF EraseFailed, OnPhoneEvent, UiFree
  <1>4. CASE OnPhoneEvent
    BY <1>4 DEF EraseFailed, OnPhoneEvent, UiFree
  <1>5. ASSUME ~Register, ~SendSucceeds, ~EraseFailed, ~OnPhoneEvent
        PROVE  UNCHANGED <<downloading, abandoned>>
    BY <1>5 DEF Next, UiStep, Connect, End, SettleRequest, Answer, Expire, Emit, Request,
                CancelTransfers, SendFails, Launcher, vars
  <1> QED BY <1>1, <1>2, <1>3, <1>4, <1>5

(* What is shown as downloading came from a request that was sent.          *)
LEMMA StepNoEndlessSpinner == DownloadsInv /\ [Next]_vars => NoEndlessSpinner'
PROOF
  <1> SUFFICES ASSUME DownloadsInv, [Next]_vars, NEW n \in (downloading \ abandoned)'
               PROVE  EndInSight(n)'
    BY DEF NoEndlessSpinner
  <1>0. RequestTypes /\ EventTypes /\ LauncherTypes /\ OneThingAtATime /\ SentIsInSight
          /\ NoEndlessSpinner
    BY DEF DownloadsInv
  <1>n. n \in Names
    BY <1>0, StepLauncherTypes DEF LauncherTypes
  <1>1. ASSUME n \in downloading \ abandoned, EraseFailed => n # name,
               OnPhoneEvent => n \notin Ended(Head(phoneEvents))
        PROVE  EndInSight(n)'
    <2>1. EndInSight(n)
      BY <1>0, <1>1 DEF NoEndlessSpinner
    <2> QED BY <1>0, <1>1, <1>n, <2>1, InSightStays
  <1>2. ASSUME SendSucceeds, n = name PROVE EndInSight(n)'
    <2>1. EndInSight(n)
      BY <1>0, <1>2 DEF SendSucceeds, SentIsInSight
    <2>2. ~EraseFailed /\ ~OnPhoneEvent
      BY <1>2 DEF SendSucceeds, EraseFailed, OnPhoneEvent, UiFree
    <2> QED BY <1>0, <1>n, <2>1, <2>2, InSightStays
  <1>3. ASSUME Register, n = name PROVE EndInSight(n)'
    <2>1. pending'[n] = active /\ active # NoRequest
      BY <1>0, <1>3, <1>n, Numbers DEF Register, RequestTypes
    <2> QED BY <2>1 DEF EndInSight
  <1> QED BY <1>0, <1>1, <1>2, <1>3, Downloading

(* And that from one registered by the same call, during which the UI       *)
(* thread hears nothing.                                                    *)
LEMMA StepSentIsInSight == DownloadsInv /\ [Next]_vars => SentIsInSight'
PROOF
  <1> SUFFICES ASSUME DownloadsInv, [Next]_vars, ui' = "sending" PROVE EndInSight(name)'
    BY DEF SentIsInSight
  <1>0. RequestTypes /\ EventTypes /\ LauncherTypes /\ OneThingAtATime /\ SentIsInSight
    BY DEF DownloadsInv
  <1>1. CASE Register
    <2>1. name' = name /\ name \in Names
      BY <1>0, <1>1 DEF Register, LauncherTypes
    <2>2. pending'[name] = active /\ active # NoRequest
      BY <1>0, <1>1, <2>1, Numbers DEF Register, RequestTypes
    <2> QED BY <2>1, <2>2 DEF EndInSight
  <1>2. CASE ~Register
    <2>1. ui = "sending" /\ name' = name
      BY <1>2 DEF Next, UiStep, Connect, End, SettleRequest, Answer, Expire, Emit, Request,
                  CancelTransfers, SendSucceeds, SendFails, EraseFailed, OnPhoneEvent,
                  UiFree, Launcher, vars
    <2>2. EndInSight(name) /\ name \in Names
      BY <1>0, <2>1 DEF SentIsInSight, LauncherTypes
    <2>3. ~EraseFailed /\ ~OnPhoneEvent
      BY <2>1 DEF EraseFailed, OnPhoneEvent, UiFree
    <2>4. PICK n \in Names : n = name
      BY <2>2
    <2>5. EndInSight(n) /\ name' = n
      BY <2>1, <2>2, <2>4
    <2>6. EndInSight(n)'
      BY <1>0, <2>3, <2>5, InSightStays
    <2> QED BY <2>5, <2>6 DEF EndInSight
  <1> QED BY <1>1, <1>2

-----------------------------------------------------------------------------
(* The files that are sent.                                                 *)
SendStates == Sends!Live \cup {"new", "queued", "refused", "freed", "gone"}

QueueTypes ==
  /\ pendingSends \in Seq(Files)
  /\ sender \in {"idle", "checking", "sending"} /\ wake \in BOOLEAN
LinkTypes ==
  /\ last \in {0} \cup Conns /\ sendingOn \in {0, last} /\ greeted \in BOOLEAN
  /\ others \in 0 .. MaxOthers
TransferTypes ==
  /\ slots \in [Conns -> Nat]
  /\ send \in [Files -> SendStates]
  /\ conn \in [Files -> {0} \cup Conns]
  /\ cancelled \subseteq Files
ResultTypes ==
  /\ receipts \subseteq Files
  /\ received \in [Files -> {"nothing", "part", "all"}]
  /\ receipt \in [Conns -> Files \cup {Sends!NoFile}]
  /\ outcomes \in [Files -> Nat]

SendTypes == QueueTypes /\ LinkTypes /\ TransferTypes /\ ResultTypes

(* A file waits in the queue once, and is sent from there.                  *)
QueuedOnce ==
  /\ \A i, j \in DOMAIN pendingSends : pendingSends[i] = pendingSends[j] => i = j
  /\ \A i \in DOMAIN pendingSends : send[pendingSends[i]] = "queued"
  /\ sender = "sending" => pendingSends # <<>>

(* The one who may say how the transfer of a file ended: whoever takes the  *)
(* receipt out of the set, its worker or the connection's.                  *)
Reported(f) == \E c \in Conns : receipt[c] = f

OneReporter ==
  /\ \A f \in receipts : outcomes[f] = 0 /\ send[f] # "telling" /\ ~Reported(f)
  /\ \A f \in Files : send[f] = "telling" => outcomes[f] = 0 /\ ~Reported(f)
  /\ \A f \in Files, c \in Conns : receipt[c] = f => outcomes[f] = 0 /\ conn[f] = c
  /\ \A f \in Files : outcomes[f] <= 1

(* Nothing is known of a file before its transfer.                          *)
NothingBefore ==
  \A f \in Files : send[f] \in {"new", "queued", "refused"} =>
    f \notin receipts /\ outcomes[f] = 0 /\ ~Reported(f)

(* The slots of a session are taken by the workers that run on it.          *)
Holders(c) == {f \in Files : send[f] \in Sends!Live /\ conn[f] = c}

SlotsAreHeld ==
  /\ \A c \in Conns : slots[c] = Cardinality(Holders(c)) /\ slots[c] <= MaxConcurrent
  /\ \A f \in Files : send[f] \in Sends!Live => conn[f] # 0

SendsInv == SendTypes /\ QueuedOnce /\ OneReporter /\ NothingBefore /\ SlotsAreHeld

(* Steps in which no transfer takes part.                                   *)
LinkStep ==
  \/ Sends!OnEvent \/ Sends!Check \/ (\E fs \in SUBSET Files : Sends!Cancel(fs))
  \/ Sends!Connect \/ Sends!Status \/ Sends!Disconnect
  \/ Sends!WorkerStarts \/ Sends!WorkerEnds
  \/ UNCHANGED sends

(* They leave the transfers, the queue and the results alone ...            *)
LEMMA LinkStepLeaves ==
  ASSUME LinkStep
  PROVE  /\ UNCHANGED <<pendingSends, slots, send, conn, receipts, received, receipt, outcomes>>
         /\ sender' = "sending" => sender = "sending" \/ pendingSends # <<>>
BY DEF LinkStep, Sends!OnEvent, Sends!Check, Sends!Cancel, Sends!Connect, Sends!Status,
       Sends!Disconnect, Sends!WorkerStarts, Sends!WorkerEnds, Sends!launcher, Sends!link,
       Sends!transfers, Sends!results, sends

(* The constants of the transfers.                                          *)
LEMMA SendsNumbers ==
  /\ Sends!Conns = Conns /\ Conns \subseteq Nat \ {0} /\ MaxConns \in Nat
  /\ MaxOthers \in Nat /\ MaxConcurrent \in Nat
  /\ Sends!NoFile \notin Files
  /\ Sends!Live \subseteq SendStates
BY DownloadConstants, TransferConstants DEF Sends!Conns, Conns, SendStates

(* ... keep the types ...                                                   *)
LEMMA LinkStepTypes == SendTypes /\ LinkStep => SendTypes'
PROOF
  <1> SUFFICES ASSUME SendTypes, LinkStep PROVE SendTypes'
    OBVIOUS
  <1> USE DEF SendTypes
  <1>0. /\ UNCHANGED <<pendingSends, slots, send, conn, receipts, received, receipt, outcomes>>
    BY LinkStepLeaves
  <1>1. ResultTypes'
    BY <1>0 DEF ResultTypes
  <1>2. CASE Sends!OnEvent \/ Sends!Check
    BY <1>0, <1>1, <1>2 DEF Sends!OnEvent, Sends!Check, QueueTypes, LinkTypes, TransferTypes,
                            Sends!link, Sends!transfers
  <1>3. ASSUME NEW fs \in SUBSET Files, Sends!Cancel(fs) PROVE SendTypes'
    BY <1>0, <1>1, <1>3 DEF Sends!Cancel, QueueTypes, LinkTypes, TransferTypes, Sends!link,
                            Sends!launcher
  <1>4. CASE Sends!Connect
    <2>1. last' \in Conns /\ sendingOn' = last'
      BY <1>4, SendsNumbers DEF Sends!Connect, LinkTypes, Conns
    <2> QED BY <1>0, <1>1, <1>4, <2>1 DEF Sends!Connect, QueueTypes, LinkTypes, TransferTypes,
                                          Sends!launcher, Sends!transfers
  <1>5. CASE Sends!Status \/ Sends!Disconnect
    BY <1>0, <1>1, <1>5 DEF Sends!Status, Sends!Disconnect, QueueTypes, LinkTypes, TransferTypes,
                            Sends!launcher, Sends!transfers
  <1>6. CASE Sends!WorkerStarts \/ Sends!WorkerEnds
    <2>1. others' \in 0 .. MaxOthers
      BY <1>6, SendsNumbers DEF Sends!WorkerStarts, Sends!WorkerEnds, LinkTypes
    <2> QED BY <1>0, <1>1, <1>6, <2>1
            DEF Sends!WorkerStarts, Sends!WorkerEnds, QueueTypes, LinkTypes, TransferTypes,
                Sends!launcher, Sends!transfers
  <1>7. CASE UNCHANGED sends
    BY <1>0, <1>1, <1>7 DEF sends, QueueTypes, LinkTypes, TransferTypes
  <1> QED BY <1>2, <1>3, <1>4, <1>5, <1>6, <1>7 DEF LinkStep

(* ... and with them the invariant.                                         *)
LEMMA LinkStepInv == SendsInv /\ LinkStep => SendsInv'
PROOF
  <1> SUFFICES ASSUME SendsInv, LinkStep PROVE SendsInv'
    OBVIOUS
  <1>0. /\ UNCHANGED <<pendingSends, slots, send, conn, receipts, received, receipt, outcomes>>
        /\ sender' = "sending" => sender = "sending" \/ pendingSends # <<>>
    BY LinkStepLeaves
  <1>1. SendTypes'
    BY LinkStepTypes DEF SendsInv
  <1>2. QueuedOnce'
    BY <1>0 DEF SendsInv, QueuedOnce
  <1>3. OneReporter' /\ NothingBefore'
    BY <1>0 DEF SendsInv, OneReporter, NothingBefore, Reported
  <1>4. SlotsAreHeld'
    BY <1>0 DEF SendsInv, SlotsAreHeld, Holders
  <1> QED BY <1>1, <1>2, <1>3, <1>4 DEF SendsInv

-----------------------------------------------------------------------------
(* A file that is queued has not been seen before.                          *)
LEMMA QueueFileInv ==
  ASSUME SendsInv, NEW f \in Files, Sends!QueueFile(f)
  PROVE  SendsInv'
PROOF
  <1>0. /\ pendingSends \in Seq(Files) /\ sender = "idle" /\ send[f] = "new"
        /\ pendingSends' = Append(pendingSends, f)
        /\ send' = [send EXCEPT ![f] = "queued"] /\ send \in [Files -> SendStates]
        /\ sender' # "sending" /\ sender' \in {"idle", "checking"}
        /\ UNCHANGED <<wake, sendingOn, last, greeted, others, slots, conn, cancelled, receipts,
                       received, receipt, outcomes>>
    BY DEF Sends!QueueFile, SendsInv, SendTypes, QueueTypes, TransferTypes, Sends!link,
           Sends!results
  <1>1. SendTypes'
    <2>1. pendingSends' \in Seq(Files)
      BY <1>0
    <2>2. send' \in [Files -> SendStates]
      BY <1>0 DEF SendStates
    <2> QED BY <1>0, <2>1, <2>2 DEF SendsInv, SendTypes, QueueTypes, LinkTypes, TransferTypes,
                                    ResultTypes
  <1>2. QueuedOnce'
    <2> DEFINE n == Len(pendingSends)
    <2>1. n \in Nat /\ DOMAIN pendingSends = 1 .. n /\ DOMAIN pendingSends' = 1 .. n + 1
          /\ pendingSends'[n + 1] = f /\ \A i \in 1 .. n : pendingSends'[i] = pendingSends[i]
      BY <1>0
    <2>2. \A i \in 1 .. n : pendingSends[i] \in Files /\ send[pendingSends[i]] = "queued"
      BY <1>0, <2>1 DEF SendsInv, QueuedOnce
    <2>3. \A i \in 1 .. n : pendingSends[i] # f /\ send'[pendingSends[i]] = "queued"
      BY <1>0, <2>2
    <2>4. \A i, j \in 1 .. n : pendingSends[i] = pendingSends[j] => i = j
      BY <2>1 DEF SendsInv, QueuedOnce
    <2> HIDE DEF n
    <2>5. \A i \in 1 .. n + 1 : i = n + 1 \/ i \in 1 .. n
      BY <2>1
    <2>6. \A i, j \in 1 .. n + 1 : pendingSends'[i] = pendingSends'[j] => i = j
      BY <2>1, <2>3, <2>4, <2>5
    <2>7. \A i \in 1 .. n + 1 : send'[pendingSends'[i]] = "queued"
      BY <1>0, <2>1, <2>3, <2>5
    <2> QED BY <1>0, <2>1, <2>6, <2>7 DEF QueuedOnce
  <1>3. \A g \in Files : send'[g] = send[g] \/ g = f
    BY <1>0
  <1>4. OneReporter' /\ NothingBefore'
    BY <1>0, <1>3 DEF SendsInv, OneReporter, NothingBefore, Reported
  <1>5. SlotsAreHeld'
    <2>1. "queued" \notin Sends!Live /\ "new" \notin Sends!Live
      BY DEF Sends!Live, Sends!Writing
    <2>2. \A g \in Files : send'[g] \in Sends!Live <=> send[g] \in Sends!Live
      BY <1>0, <1>3, <2>1
    <2>3. \A c \in Conns : Holders(c)' = Holders(c)
      BY <1>0, <2>2 DEF Holders
    <2> QED BY <1>0, <2>2, <2>3 DEF SendsInv, SlotsAreHeld
  <1> QED BY <1>1, <1>2, <1>4, <1>5 DEF SendsInv

-----------------------------------------------------------------------------
(* The workers of a session can be counted.                                 *)
LEMMA HoldersAreFinite == \A c : IsFiniteSet(Holders(c))
PROOF
  <1>1. ASSUME NEW c PROVE IsFiniteSet(Holders(c))
    <2>1. Holders(c) \in SUBSET Files
      BY DEF Holders
    <2> QED BY <2>1, TransferConstants, FS_Subset
  <1> QED BY <1>1

(* SendFile decides under mutex_: the file leaves the queue, with a slot of *)
(* the session or without.                                                  *)
LEMMA SendFileInv == SendsInv /\ Sends!SendFile => SendsInv'
PROOF
  <1> SUFFICES ASSUME SendsInv, Sends!SendFile PROVE SendsInv'
    OBVIOUS
  <1> DEFINE f == Head(pendingSends)
  <1>0. /\ sender = "sending" /\ pendingSends' = Tail(pendingSends) /\ sender' = "checking"
        /\ UNCHANGED <<wake, sendingOn, last, greeted, others, cancelled, received, receipt,
                       outcomes>>
        /\ \/ /\ sendingOn # 0 /\ slots[sendingOn] < MaxConcurrent
              /\ \E first \in {"begin", "whole"} : send' = [send EXCEPT ![f] = first]
              /\ slots' = [slots EXCEPT ![sendingOn] = @ + 1]
              /\ conn' = [conn EXCEPT ![f] = sendingOn]
              /\ receipts' = receipts \cup {f}
           \/ /\ send' = [send EXCEPT ![f] = "refused"]
              /\ UNCHANGED <<slots, conn, receipts>>
    BY DEF Sends!SendFile, Sends!CanSendFile, Sends!link
  <1>1. /\ pendingSends \in Seq(Files) /\ pendingSends # <<>> /\ send \in [Files -> SendStates]
        /\ slots \in [Conns -> Nat] /\ conn \in [Files -> {0} \cup Conns]
        /\ receipts \subseteq Files
        /\ sendingOn # 0 => sendingOn \in Conns
    BY <1>0 DEF SendsInv, SendTypes, QueueTypes, LinkTypes, TransferTypes, ResultTypes, QueuedOnce
  <1>2. f \in Files /\ f = pendingSends[1] /\ 1 \in DOMAIN pendingSends
    BY <1>1
  <1>3. send[f] = "queued"
    BY <1>2 DEF SendsInv, QueuedOnce
  <1>4. f \notin receipts /\ outcomes[f] = 0 /\ ~Reported(f)
    BY <1>2, <1>3 DEF SendsInv, NothingBefore
  <1> HIDE DEF f
  <1>5. QueuedOnce'
    <2> DEFINE n == Len(pendingSends)
    <2>1. n \in Nat /\ n > 0 /\ DOMAIN pendingSends = 1 .. n /\ DOMAIN pendingSends' = 1 .. n - 1
          /\ \A i \in 1 .. n - 1 : pendingSends'[i] = pendingSends[i + 1]
      BY <1>0, <1>1
    <2>2. \A i, j \in 1 .. n : pendingSends[i] = pendingSends[j] => i = j
      BY <2>1 DEF SendsInv, QueuedOnce
    <2>3. \A i \in 1 .. n : pendingSends[i] \in Files /\ send[pendingSends[i]] = "queued"
      BY <1>1, <2>1 DEF SendsInv, QueuedOnce
    <2>s. \A g \in Files \ {f} : send'[g] = send[g]
      BY <1>0, <1>1
    <2> HIDE DEF n
    <2>4. \A i \in 1 .. n - 1 : i + 1 \in 1 .. n /\ i + 1 # 1
      BY <2>1
    <2>5. \A i, j \in 1 .. n - 1 : pendingSends'[i] = pendingSends'[j] => i = j
      BY <2>1, <2>2, <2>4
    <2>6. ASSUME NEW i \in 1 .. n - 1 PROVE send'[pendingSends'[i]] = "queued"
      <3>1. pendingSends[i + 1] # pendingSends[1]
        BY <2>1, <2>2, <2>4
      <3> QED BY <1>2, <2>1, <2>3, <2>4, <2>s, <3>1
    <2> QED BY <1>0, <2>1, <2>5, <2>6 DEF QueuedOnce
  <1>6. pendingSends' \in Seq(Files)
    BY <1>0, <1>1
  <1>7. CASE send' = [send EXCEPT ![f] = "refused"] /\ UNCHANGED <<slots, conn, receipts>>
    <2>1. \A g \in Files \ {f} : send'[g] = send[g]
      BY <1>1, <1>7
    <2>2. SendTypes'
      <3>1. send' \in [Files -> SendStates]
        BY <1>1, <1>7 DEF SendStates
      <3> QED BY <1>0, <1>6, <1>7, <3>1
              DEF SendsInv, SendTypes, QueueTypes, LinkTypes, TransferTypes, ResultTypes
    <2>3. send'[f] = "refused"
      BY <1>1, <1>2, <1>7
    <2>4. OneReporter' /\ NothingBefore'
      BY <1>0, <1>4, <1>7, <2>1, <2>3 DEF SendsInv, OneReporter, NothingBefore, Reported
    <2>5. SlotsAreHeld'
      <3>1. "queued" \notin Sends!Live /\ "refused" \notin Sends!Live
        BY DEF Sends!Live, Sends!Writing
      <3>2. \A g \in Files : send'[g] \in Sends!Live <=> send[g] \in Sends!Live
        BY <1>3, <2>1, <2>3, <3>1
      <3>3. \A c \in Conns : Holders(c)' = Holders(c)
        BY <1>7, <3>2 DEF Holders
      <3> QED BY <1>7, <3>2, <3>3 DEF SendsInv, SlotsAreHeld
    <2> QED BY <1>5, <2>2, <2>4, <2>5 DEF SendsInv
  <1>8. ASSUME sendingOn # 0, slots[sendingOn] < MaxConcurrent,
               NEW first \in {"begin", "whole"}, send' = [send EXCEPT ![f] = first],
               slots' = [slots EXCEPT ![sendingOn] = @ + 1],
               conn' = [conn EXCEPT ![f] = sendingOn], receipts' = receipts \cup {f}
        PROVE  SendsInv'
    <2>0. sendingOn \in Conns
      BY <1>1, <1>8
    <2>1. \A g \in Files \ {f} : send'[g] = send[g] /\ conn'[g] = conn[g]
      BY <1>1, <1>8
    <2>2. send'[f] = first /\ conn'[f] = sendingOn
      BY <1>1, <1>2, <1>8
    <2>3. first \in Sends!Live /\ first \notin {"new", "queued", "refused", "telling"}
      BY DEF Sends!Live, Sends!Writing
    <2>4. SendTypes'
      <3>1. send' \in [Files -> SendStates]
        BY <1>1, <1>8, <2>3, SendsNumbers
      <3>2. slots' \in [Conns -> Nat]
        BY <1>1, <1>8, <2>0
      <3>4. conn' \in [Files -> {0} \cup Conns]
        BY <1>1, <1>8, <2>0
      <3>3. receipts' \subseteq Files
        BY <1>1, <1>2, <1>8
      <3> QED BY <1>0, <1>6, <3>1, <3>2, <3>3, <3>4
              DEF SendsInv, SendTypes, QueueTypes, LinkTypes, TransferTypes, ResultTypes
    <2>5. OneReporter'
      <3>1. \A g \in receipts' : outcomes'[g] = 0 /\ send'[g] # "telling" /\ ~Reported(g)'
        BY <1>0, <1>1, <1>4, <1>8, <2>1, <2>2, <2>3 DEF SendsInv, OneReporter, Reported
      <3>2. \A g \in Files : send'[g] = "telling" => outcomes'[g] = 0 /\ ~Reported(g)'
        BY <1>0, <2>1, <2>2, <2>3 DEF SendsInv, OneReporter, Reported
      <3>3. \A g \in Files, c \in Conns : receipt'[c] = g => outcomes'[g] = 0 /\ conn'[g] = c
        BY <1>0, <1>4, <2>1 DEF SendsInv, OneReporter, Reported
      <3>4. \A g \in Files : outcomes'[g] <= 1
        BY <1>0 DEF SendsInv, OneReporter
      <3> QED BY <3>1, <3>2, <3>3, <3>4 DEF OneReporter
    <2>6. NothingBefore'
      BY <1>0, <1>8, <2>1, <2>2, <2>3 DEF SendsInv, NothingBefore, Reported
    <2>7. SlotsAreHeld'
      <3>0. "queued" \notin Sends!Live
        BY DEF Sends!Live, Sends!Writing
      <3>1. ASSUME NEW c \in Conns
            PROVE  (slots[c] = Cardinality(Holders(c)) /\ slots[c] <= MaxConcurrent)'
        <4>0. /\ slots[c] = Cardinality(Holders(c)) /\ slots[c] <= MaxConcurrent
              /\ slots[c] \in Nat /\ IsFiniteSet(Holders(c))
          BY <1>1, HoldersAreFinite DEF SendsInv, SlotsAreHeld
        <4>1. CASE c = sendingOn
          <5>1. f \notin Holders(c)
            BY <1>3, <3>0 DEF Holders
          <5>2. Holders(c)' = Holders(c) \cup {f}
            BY <1>2, <2>1, <2>2, <2>3, <4>1 DEF Holders
          <5>3. Cardinality(Holders(c) \cup {f}) = slots[c] + 1
            BY <4>0, <5>1, FS_AddElement
          <5>4. slots'[c] = slots[c] + 1
            BY <1>1, <1>8, <4>1
          <5> QED BY <1>8, <4>0, <4>1, <5>2, <5>3, <5>4, SendsNumbers
        <4>2. CASE c # sendingOn
          <5>1. Holders(c)' = Holders(c)
            BY <1>3, <2>1, <2>2, <3>0, <4>2 DEF Holders
          <5>2. slots'[c] = slots[c]
            BY <1>1, <1>8, <4>2
          <5> QED BY <4>0, <5>1, <5>2
        <4> QED BY <4>1, <4>2
      <3>2. \A g \in Files : send'[g] \in Sends!Live => conn'[g] # 0
        BY <1>8, <2>1, <2>2 DEF SendsInv, SlotsAreHeld
      <3> QED BY <3>1, <3>2 DEF SlotsAreHeld
    <2> QED BY <1>5, <2>4, <2>5, <2>6, <2>7 DEF SendsInv
  <1> QED BY <1>0, <1>7, <1>8

-----------------------------------------------------------------------------
Before == {"new", "queued", "refused"}

(* The worker of f goes on, and nobody else does.                           *)
Goes(f, place) ==
  /\ send[f] \notin Before
  /\ place \in SendStates \ Before /\ send' = [send EXCEPT ![f] = place]
  /\ UNCHANGED <<pendingSends, sender, sendingOn, last, greeted, others, conn, cancelled, receipt>>

(* A worker that goes on leaves the queue, which does not hold its file,    *)
(* alone.                                                                   *)
LEMMA GoesOn ==
  ASSUME SendsInv, NEW f \in Files, NEW place, Goes(f, place)
  PROVE  /\ send' \in [Files -> SendStates] /\ send'[f] = place
         /\ \A g \in Files \ {f} : send'[g] = send[g]
         /\ QueuedOnce'
         /\ (send[f] \in Sends!Live <=> place \in Sends!Live) => \A c : Holders(c)' = Holders(c)
PROOF
  <1>1. send \in [Files -> SendStates]
    BY DEF SendsInv, SendTypes, TransferTypes
  <1>2. /\ send' \in [Files -> SendStates] /\ send'[f] = place
        /\ \A g \in Files \ {f} : send'[g] = send[g]
    BY <1>1 DEF Goes
  <1>3. QueuedOnce'
    <2>1. ASSUME NEW i \in DOMAIN pendingSends PROVE send'[pendingSends[i]] = "queued"
      <3>1. send[pendingSends[i]] = "queued" /\ pendingSends[i] \in Files
        BY DEF SendsInv, QueuedOnce, SendTypes, QueueTypes
      <3> QED BY <1>2, <3>1 DEF Goes, Before
    <2> QED BY <2>1 DEF SendsInv, QueuedOnce, Goes
  <1>4. (send[f] \in Sends!Live <=> place \in Sends!Live) => \A c : Holders(c)' = Holders(c)
    BY <1>2 DEF Goes, Holders
  <1> QED BY <1>2, <1>3, <1>4

(* The steps of a worker up to the return of its slot.                      *)
WorkerStep(f) ==
  Sends!Write(f) \/ Sends!Fail(f) \/ Sends!Settle(f) \/ Sends!Tell(f)

(* What the steps of a worker do: write or fail, settle the receipt, tell   *)
(* the launcher.                                                            *)
LEMMA WorkerGoes ==
  ASSUME SendsInv, NEW f \in Files, WorkerStep(f)
  PROVE  \E place \in Sends!Live :
           /\ Goes(f, place) /\ send[f] \in Sends!Live
           /\ UNCHANGED <<slots, wake>>
           /\ received' \in [Files -> {"nothing", "part", "all"}]
           /\ \/ place # "telling" /\ UNCHANGED <<receipts, outcomes>>
              \/ /\ receipts' = receipts \ {f} /\ UNCHANGED outcomes
                 /\ place = "telling" => f \in receipts
              \/ /\ send[f] = "telling" /\ place # "telling" /\ UNCHANGED receipts
                 /\ outcomes' = [outcomes EXCEPT ![f] = @ + 1]
PROOF
  <1>0. /\ Sends!Live \cap Before = {} /\ Sends!Live \subseteq SendStates
        /\ Sends!Live = {"begin", "chunk", "end", "whole", "failed", "telling", "done"}
    BY DEF Sends!Live, Sends!Writing, Before, SendStates
  <1>1. received \in [Files -> {"nothing", "part", "all"}]
    BY DEF SendsInv, SendTypes, ResultTypes
  <1>2. CASE Sends!Write(f)
    <2> DEFINE place == Sends!NextWrite[send[f]]
    <2>1. send[f] \in {"begin", "chunk", "end", "whole"}
      BY <1>2 DEF Sends!Write, Sends!Writing
    <2>2. place \in {"chunk", "end", "done"}
      BY <2>1 DEF Sends!NextWrite
    <2>3. /\ send' = [send EXCEPT ![f] = place]
          /\ UNCHANGED <<pendingSends, sender, wake, sendingOn, last, greeted, others, slots, conn,
                         cancelled, receipts, receipt, outcomes>>
      BY <1>2 DEF Sends!Write, Sends!launcher, Sends!link
    <2>4. received' \in [Files -> {"nothing", "part", "all"}]
      BY <1>1, <1>2 DEF Sends!Write
    <2> HIDE DEF place
    <2> QED BY <1>0, <2>1, <2>2, <2>3, <2>4 DEF Goes
  <1>3. CASE Sends!Fail(f)
    <2>1. send[f] \in {"begin", "chunk", "end", "whole"} /\ send' = [send EXCEPT ![f] = "failed"]
          /\ UNCHANGED <<pendingSends, sender, wake, sendingOn, last, greeted, others, slots, conn,
                         cancelled, receipts, received, receipt, outcomes>>
      BY <1>3 DEF Sends!Fail, Sends!Writing, Sends!launcher, Sends!link, Sends!results
    <2> QED BY <1>0, <1>1, <2>1 DEF Goes
  <1>4. CASE Sends!Settle(f)
    <2>1. PICK place \in {"telling", "done"} :
            /\ send' = [send EXCEPT ![f] = place] /\ (place = "telling" => f \in receipts)
      BY <1>4 DEF Sends!Settle, Sends!AfterSettle
    <2>2. /\ send[f] = "failed" /\ receipts' = receipts \ {f}
          /\ UNCHANGED <<pendingSends, sender, wake, sendingOn, last, greeted, others, slots, conn,
                         cancelled, received, receipt, outcomes>>
      BY <1>4 DEF Sends!Settle, Sends!launcher, Sends!link
    <2> QED BY <1>0, <1>1, <2>1, <2>2 DEF Goes
  <1>5. CASE Sends!Tell(f)
    <2>1. /\ send[f] = "telling" /\ send' = [send EXCEPT ![f] = "done"]
          /\ outcomes' = [outcomes EXCEPT ![f] = @ + 1]
          /\ UNCHANGED <<pendingSends, sender, wake, sendingOn, last, greeted, others, slots, conn,
                         cancelled, receipts, received, receipt>>
      BY <1>5 DEF Sends!Tell, Sends!launcher, Sends!link
    <2> QED BY <1>0, <1>1, <2>1 DEF Goes
  <1> QED BY <1>2, <1>3, <1>4, <1>5 DEF WorkerStep

(* The worker tells the launcher only when it took the receipt itself.      *)
LEMMA WorkerStepInv ==
  ASSUME SendsInv, NEW f \in Files, WorkerStep(f)
  PROVE  SendsInv'
PROOF
  <1>1. PICK place \in Sends!Live :
           /\ Goes(f, place) /\ send[f] \in Sends!Live
           /\ UNCHANGED <<slots, wake>>
           /\ received' \in [Files -> {"nothing", "part", "all"}]
           /\ \/ place # "telling" /\ UNCHANGED <<receipts, outcomes>>
              \/ /\ receipts' = receipts \ {f} /\ UNCHANGED outcomes
                 /\ place = "telling" => f \in receipts
              \/ /\ send[f] = "telling" /\ place # "telling" /\ UNCHANGED receipts
                 /\ outcomes' = [outcomes EXCEPT ![f] = @ + 1]
    BY WorkerGoes
  <1>2. /\ send' \in [Files -> SendStates] /\ send'[f] = place
        /\ \A g \in Files \ {f} : send'[g] = send[g]
        /\ QueuedOnce' /\ \A c : Holders(c)' = Holders(c)
    BY <1>1, GoesOn
  <1>3. outcomes \in [Files -> Nat] /\ receipts \subseteq Files
    BY DEF SendsInv, SendTypes, ResultTypes
  <1>4. outcomes' \in [Files -> Nat] /\ receipts' \subseteq receipts
    <2>1. outcomes' = outcomes \/ outcomes' = [outcomes EXCEPT ![f] = @ + 1]
      BY <1>1
    <2>2. outcomes' \in [Files -> Nat]
      BY <1>3, <2>1
    <2> QED BY <1>1, <2>2
  <1>5. SendTypes'
    BY <1>1, <1>2, <1>3, <1>4
       DEF SendsInv, SendTypes, QueueTypes, LinkTypes, TransferTypes, ResultTypes, Goes
  <1>6. \A g \in Files \ {f} : outcomes'[g] = outcomes[g]
    BY <1>1, <1>3
  <1>7. send[f] = "telling" => outcomes[f] = 0 /\ ~Reported(f)
    BY DEF SendsInv, OneReporter
  <1>8. f \in receipts => outcomes[f] = 0 /\ send[f] # "telling" /\ ~Reported(f)
    BY DEF SendsInv, OneReporter
  <1>9. UNCHANGED <<receipt, conn>>
    BY <1>1 DEF Goes
  <1>10. OneReporter'
    <2>1. \/ place # "telling" /\ UNCHANGED <<receipts, outcomes>>
          \/ /\ receipts' = receipts \ {f} /\ UNCHANGED outcomes
             /\ place = "telling" => f \in receipts
          \/ /\ send[f] = "telling" /\ place # "telling" /\ UNCHANGED receipts
             /\ outcomes'[f] = outcomes[f] + 1
      BY <1>1, <1>3
    <2>2. \A g \in Files : Reported(g)' <=> Reported(g)
      BY <1>9 DEF Reported
    <2>3. outcomes'[f] # outcomes[f] =>
            outcomes'[f] = 1 /\ f \notin receipts /\ ~Reported(f) /\ place # "telling"
      BY <1>7, <1>8, <2>1
    <2>4. f \in receipts' => place # "telling" /\ f \in receipts
      BY <1>1, <1>8, <2>1
    <2>5. place = "telling" => outcomes'[f] = 0 /\ ~Reported(f)
      BY <1>8, <2>1
    <2>6. \A g \in receipts' : outcomes'[g] = 0 /\ send'[g] # "telling" /\ ~Reported(g)'
      BY <1>2, <1>3, <1>4, <1>6, <1>8, <2>2, <2>3, <2>4 DEF SendsInv, OneReporter
    <2>7. \A g \in Files : send'[g] = "telling" => outcomes'[g] = 0 /\ ~Reported(g)'
      BY <1>2, <1>6, <2>2, <2>5 DEF SendsInv, OneReporter
    <2>8. \A g \in Files, c \in Conns : receipt'[c] = g => outcomes'[g] = 0 /\ conn'[g] = c
      <3>1. \A c \in Conns : receipt[c] = f => Reported(f)
        BY DEF Reported
      <3> QED BY <1>6, <1>9, <2>3, <3>1 DEF SendsInv, OneReporter
    <2>9. \A g \in Files : outcomes'[g] <= 1
      BY <1>6, <2>3 DEF SendsInv, OneReporter
    <2> QED BY <2>6, <2>7, <2>8, <2>9 DEF OneReporter
  <1>11. NothingBefore'
    <2>1. place \notin Before
      BY <1>1 DEF Goes
    <2> QED BY <1>2, <1>4, <1>6, <1>9, <2>1 DEF SendsInv, NothingBefore, Reported, Before
  <1>12. SlotsAreHeld'
    BY <1>1, <1>2, <1>9 DEF SendsInv, SlotsAreHeld
  <1> QED BY <1>2, <1>5, <1>10, <1>11, <1>12 DEF SendsInv

(* The worker returns its slot and then says so.                            *)
LEMMA ReturnSlotInv ==
  ASSUME SendsInv, NEW f \in Files, Sends!ReturnSlot(f)
  PROVE  SendsInv'
PROOF
  <1>1. /\ send[f] = "done" /\ send' = [send EXCEPT ![f] = "freed"]
        /\ slots' = [slots EXCEPT ![conn[f]] = @ - 1]
        /\ UNCHANGED <<pendingSends, sender, wake, sendingOn, last, greeted, others, conn,
                       cancelled, receipts, received, receipt, outcomes>>
    BY DEF Sends!ReturnSlot, Sends!OneSlotLess, Sends!launcher, Sends!link, Sends!results
  <1>2. Goes(f, "freed") /\ "freed" \notin Sends!Live /\ "done" \in Sends!Live
    BY <1>1 DEF Goes, Before, SendStates, Sends!Live, Sends!Writing
  <1>3. /\ send' \in [Files -> SendStates] /\ send'[f] = "freed"
        /\ \A g \in Files \ {f} : send'[g] = send[g]
        /\ QueuedOnce'
    BY <1>2, GoesOn
  <1>4. slots \in [Conns -> Nat] /\ conn[f] \in Conns
    BY <1>1, <1>2 DEF SendsInv, SlotsAreHeld, SendTypes, TransferTypes
  <1>5. ASSUME NEW c \in Conns
        PROVE  (slots[c] = Cardinality(Holders(c)) /\ slots[c] <= MaxConcurrent
                  /\ slots[c] \in Nat)'
    <2>0. /\ slots[c] = Cardinality(Holders(c)) /\ slots[c] <= MaxConcurrent
          /\ slots[c] \in Nat /\ IsFiniteSet(Holders(c))
      BY <1>4, HoldersAreFinite DEF SendsInv, SlotsAreHeld
    <2>1. CASE c = conn[f]
      <3>1. f \in Holders(c)
        BY <1>1, <1>2, <2>1 DEF Holders
      <3>2. Holders(c)' = Holders(c) \ {f}
        BY <1>1, <1>2, <1>3 DEF Holders
      <3>3. Cardinality(Holders(c) \ {f}) = slots[c] - 1 /\ IsFiniteSet(Holders(c) \ {f})
        BY <2>0, <3>1, FS_RemoveElement
      <3>4. slots[c] - 1 \in Nat
        BY <3>3, FS_CardinalityType
      <3>5. slots'[c] = slots[c] - 1
        BY <1>1, <1>4, <2>1
      <3> QED BY <2>0, <3>2, <3>3, <3>4, <3>5, SendsNumbers
    <2>2. CASE c # conn[f]
      <3>1. Holders(c)' = Holders(c)
        BY <1>1, <1>3, <2>2 DEF Holders
      <3>2. slots'[c] = slots[c]
        BY <1>1, <1>4, <2>2
      <3> QED BY <2>0, <3>1, <3>2
    <2> QED BY <2>1, <2>2
  <1>6. slots' \in [Conns -> Nat]
    BY <1>1, <1>4, <1>5
  <1>7. SendTypes'
    BY <1>1, <1>3, <1>6 DEF SendsInv, SendTypes, QueueTypes, LinkTypes, TransferTypes, ResultTypes
  <1>8. OneReporter' /\ NothingBefore'
    BY <1>1, <1>3 DEF SendsInv, OneReporter, NothingBefore, Reported
  <1>9. SlotsAreHeld'
    <2>1. \A g \in Files : send'[g] \in Sends!Live => conn'[g] # 0
      BY <1>1, <1>2, <1>3 DEF SendsInv, SlotsAreHeld
    <2> QED BY <1>5, <2>1 DEF SlotsAreHeld
  <1> QED BY <1>3, <1>7, <1>8, <1>9 DEF SendsInv

(* The event that wakes the launcher for the next file.                     *)
LEMMA EmitSlotFreeInv ==
  ASSUME SendsInv, NEW f \in Files, Sends!EmitSlotFree(f)
  PROVE  SendsInv'
PROOF
  <1>1. /\ send[f] = "freed" /\ send' = [send EXCEPT ![f] = "gone"] /\ wake' = TRUE
        /\ UNCHANGED <<pendingSends, sender, sendingOn, last, greeted, others, slots, conn,
                       cancelled, receipts, received, receipt, outcomes>>
    BY DEF Sends!EmitSlotFree, Sends!SlotEvent, Sends!launcher, Sends!link, Sends!results
  <1>2. Goes(f, "gone") /\ "gone" \notin Sends!Live /\ "freed" \notin Sends!Live
    BY <1>1 DEF Goes, Before, SendStates, Sends!Live, Sends!Writing
  <1>3. /\ send' \in [Files -> SendStates] /\ send'[f] = "gone"
        /\ \A g \in Files \ {f} : send'[g] = send[g]
        /\ QueuedOnce' /\ \A c : Holders(c)' = Holders(c)
    BY <1>1, <1>2, GoesOn
  <1>4. SendTypes'
    BY <1>1, <1>3 DEF SendsInv, SendTypes, QueueTypes, LinkTypes, TransferTypes, ResultTypes
  <1>5. OneReporter' /\ NothingBefore'
    BY <1>1, <1>3 DEF SendsInv, OneReporter, NothingBefore, Reported
  <1>6. SlotsAreHeld'
    BY <1>1, <1>2, <1>3 DEF SendsInv, SlotsAreHeld
  <1> QED BY <1>3, <1>4, <1>5, <1>6 DEF SendsInv

(* A receipt is taken out of the set by the worker of the connection on     *)
(* which the file was sent.                                                 *)
LEMMA ReceiptInv ==
  ASSUME SendsInv, NEW f \in Files, NEW ok \in BOOLEAN, Sends!Receipt(f, ok)
  PROVE  SendsInv'
PROOF
  <1>1. PICK c \in Conns : c = conn[f] /\ receipt[c] = Sends!NoFile
    BY DEF Sends!Receipt, SendsInv, SendTypes, TransferTypes
  <1>2. /\ f \in receipts /\ receipts' = receipts \ {f}
        /\ receipt' = [receipt EXCEPT ![c] = f]
        /\ cancelled' = cancelled \/ cancelled' = cancelled \cup {f}
        /\ UNCHANGED <<pendingSends, sender, wake, sendingOn, last, greeted, others, slots, send,
                       conn, received, outcomes>>
    BY <1>1 DEF Sends!Receipt, Sends!launcher, Sends!link
  <1>3. outcomes[f] = 0 /\ send[f] # "telling" /\ ~Reported(f)
    BY <1>2 DEF SendsInv, OneReporter
  <1>4. receipt \in [Conns -> Files \cup {Sends!NoFile}]
    BY DEF SendsInv, SendTypes, ResultTypes
  <1>5. receipt'[c] = f /\ \A d \in Conns \ {c} : receipt'[d] = receipt[d]
    BY <1>2, <1>4
  <1>6. SendTypes'
    <2>1. receipt' \in [Conns -> Files \cup {Sends!NoFile}] /\ cancelled' \subseteq Files
      BY <1>2, <1>4 DEF SendsInv, SendTypes, TransferTypes
    <2> QED BY <1>2, <2>1 DEF SendsInv, SendTypes, QueueTypes, LinkTypes, TransferTypes,
                              ResultTypes
  <1>7. \A g \in Files \ {f} : Reported(g)' => Reported(g)
    BY <1>5 DEF Reported
  <1>8. OneReporter'
    <2>1. \A g \in receipts' : outcomes'[g] = 0 /\ send'[g] # "telling" /\ ~Reported(g)'
      BY <1>2, <1>7 DEF SendsInv, OneReporter, SendTypes, ResultTypes
    <2>2. \A g \in Files : send'[g] = "telling" => outcomes'[g] = 0 /\ ~Reported(g)'
      BY <1>2, <1>3, <1>7 DEF SendsInv, OneReporter
    <2>3. \A g \in Files, d \in Conns : receipt'[d] = g => outcomes'[g] = 0 /\ conn'[g] = d
      BY <1>1, <1>2, <1>3, <1>5 DEF SendsInv, OneReporter
    <2>4. \A g \in Files : outcomes'[g] <= 1
      BY <1>2 DEF SendsInv, OneReporter
    <2> QED BY <2>1, <2>2, <2>3, <2>4 DEF OneReporter
  <1>9. NothingBefore'
    BY <1>2, <1>7 DEF SendsInv, NothingBefore
  <1>10. QueuedOnce' /\ SlotsAreHeld'
    BY <1>2 DEF SendsInv, QueuedOnce, SlotsAreHeld, Holders
  <1> QED BY <1>6, <1>8, <1>9, <1>10 DEF SendsInv

(* Its worker reports what it took, and nobody else has the file.           *)
LEMMA ReportReceiptInv ==
  ASSUME SendsInv, NEW c \in Conns, Sends!ReportReceipt(c)
  PROVE  SendsInv'
PROOF
  <1>0. /\ receipt \in [Conns -> Files \cup {Sends!NoFile}] /\ outcomes \in [Files -> Nat]
        /\ receipts \subseteq Files
    BY DEF SendsInv, SendTypes, ResultTypes
  <1>1. PICK f \in Files : receipt[c] = f
    BY <1>0 DEF Sends!ReportReceipt
  <1>2. /\ outcomes' = [outcomes EXCEPT ![f] = @ + 1]
        /\ receipt' = [receipt EXCEPT ![c] = Sends!NoFile]
        /\ UNCHANGED <<pendingSends, sender, wake, sendingOn, last, greeted, others, slots, send,
                       conn, cancelled, receipts, received>>
    BY <1>1 DEF Sends!ReportReceipt, Sends!launcher, Sends!link, Sends!transfers
  <1>3. outcomes[f] = 0 /\ conn[f] = c
    BY <1>1 DEF SendsInv, OneReporter
  <1>4. Reported(f)
    BY <1>1 DEF Reported
  <1>5. f \notin receipts /\ send[f] \notin {"telling", "new", "queued", "refused"}
    BY <1>4 DEF SendsInv, OneReporter, NothingBefore
  <1>6. \A d \in Conns \ {c} : receipt[d] # f /\ receipt'[d] = receipt[d]
    BY <1>0, <1>2, <1>3 DEF SendsInv, OneReporter
  <1>7. receipt'[c] = Sends!NoFile
    BY <1>0, <1>2
  <1>8. ~Reported(f)' /\ \A g \in Files \ {f} : Reported(g)' => Reported(g)
    BY <1>6, <1>7, SendsNumbers DEF Reported
  <1>9. outcomes'[f] = 1 /\ \A g \in Files \ {f} : outcomes'[g] = outcomes[g]
    BY <1>0, <1>2, <1>3
  <1>10. SendTypes'
    <2>1. outcomes' \in [Files -> Nat]
      BY <1>0, <1>2
    <2>2. receipt' \in [Conns -> Files \cup {Sends!NoFile}]
      BY <1>0, <1>2
    <2> QED BY <1>2, <2>1, <2>2 DEF SendsInv, SendTypes, QueueTypes, LinkTypes, TransferTypes,
                                    ResultTypes
  <1>11. OneReporter'
    <2>1. \A g \in receipts' : outcomes'[g] = 0 /\ send'[g] # "telling" /\ ~Reported(g)'
      BY <1>0, <1>2, <1>5, <1>8, <1>9 DEF SendsInv, OneReporter
    <2>2. \A g \in Files : send'[g] = "telling" => outcomes'[g] = 0 /\ ~Reported(g)'
      BY <1>2, <1>5, <1>8, <1>9 DEF SendsInv, OneReporter
    <2>3. \A g \in Files, d \in Conns : receipt'[d] = g => outcomes'[g] = 0 /\ conn'[g] = d
      BY <1>2, <1>6, <1>7, <1>9, SendsNumbers DEF SendsInv, OneReporter
    <2>4. \A g \in Files : outcomes'[g] <= 1
      BY <1>9 DEF SendsInv, OneReporter
    <2> QED BY <2>1, <2>2, <2>3, <2>4 DEF OneReporter
  <1>12. NothingBefore'
    BY <1>2, <1>5, <1>8, <1>9 DEF SendsInv, NothingBefore
  <1>13. QueuedOnce' /\ SlotsAreHeld'
    BY <1>2 DEF SendsInv, QueuedOnce, SlotsAreHeld, Holders
  <1> QED BY <1>10, <1>11, <1>12, <1>13 DEF SendsInv

-----------------------------------------------------------------------------
(* Every step of the transfers keeps the invariant.                         *)
LEMMA SendsStep == SendsInv /\ [Sends!Next]_sends => SendsInv'
PROOF
  <1> SUFFICES ASSUME SendsInv, [Sends!Next]_sends PROVE SendsInv'
    OBVIOUS
  <1>1. ASSUME NEW f \in Files, Sends!SendStep(f) PROVE SendsInv'
    BY <1>1, WorkerStepInv, ReturnSlotInv, EmitSlotFreeInv DEF Sends!SendStep, WorkerStep
  <1>2. ASSUME NEW f \in Files, Sends!QueueFile(f) PROVE SendsInv'
    BY <1>2, QueueFileInv
  <1>3. ASSUME NEW f \in Files, NEW ok \in BOOLEAN, Sends!Receipt(f, ok) PROVE SendsInv'
    BY <1>3, ReceiptInv
  <1>4. ASSUME NEW c \in Conns, Sends!ReportReceipt(c) PROVE SendsInv'
    BY <1>4, ReportReceiptInv
  <1>5. CASE Sends!SendFile
    BY <1>5, SendFileInv
  <1>6. CASE LinkStep
    BY <1>6, LinkStepInv
  <1> QED BY <1>1, <1>2, <1>3, <1>4, <1>5, <1>6, SendsNumbers DEF Sends!Next, Sends!UiStep, LinkStep

(* Every step of the downloads keeps theirs.                                *)
LEMMA DownloadsStep == DownloadsInv /\ [Next]_vars => DownloadsInv'
BY StepRequestTypes, StepEventTypes, StepLauncherTypes, StepOneThingAtATime,
   StepNoEndlessSpinner, StepSentIsInSight DEF DownloadsInv

(* Before the first connection, and after the last.                         *)
LEMMA DownloadsInit == Init \/ DownloadsOver => DownloadsInv
PROOF
  <1> SUFFICES ASSUME Init \/ DownloadsOver PROVE DownloadsInv
    OBVIOUS
  <1>1. /\ active = 0 /\ \E l \in {"new", "down"} : link = [c \in Conns |-> l]
        /\ pending = [n \in Names |-> NoRequest] /\ saving = [c \in Conns |-> NoAnswer]
        /\ emit = [t \in Threads |-> <<>>] /\ phoneEvents = <<>>
        /\ ui = "idle" /\ name = NoRequest /\ downloading = {} /\ abandoned = {}
        /\ requests = 0 /\ answers = 0
    BY DEF Init, DownloadsOver
  <1>2. RequestTypes
    BY <1>1, Numbers DEF RequestTypes
  <1>3. EventTypes
    BY <1>1 DEF EventTypes
  <1>4. LauncherTypes
    BY <1>1 DEF LauncherTypes
  <1>5. OneThingAtATime
    BY <1>1, Numbers DEF OneThingAtATime
  <1>6. SentIsInSight /\ NoEndlessSpinner
    BY <1>1 DEF SentIsInSight, NoEndlessSpinner
  <1> QED BY <1>2, <1>3, <1>4, <1>5, <1>6 DEF DownloadsInv

(* Before the first file is queued, and after the last is gone.             *)
LEMMA SendsInit == Sends!Init \/ SendsOver => SendsInv
PROOF
  <1> SUFFICES ASSUME Sends!Init \/ SendsOver PROVE SendsInv
    OBVIOUS
  <1>1. /\ pendingSends = <<>> /\ sender = "idle" /\ wake = FALSE
        /\ sendingOn = 0 /\ last \in {0, MaxConns} /\ greeted \in BOOLEAN /\ others = 0
        /\ slots = [c \in Conns |-> 0]
        /\ \E p \in {"new", "gone"} : send = [f \in Files |-> p]
        /\ conn = [f \in Files |-> 0] /\ cancelled = {} /\ receipts = {}
        /\ received = [f \in Files |-> "nothing"]
        /\ receipt = [c \in Conns |-> Sends!NoFile]
        /\ outcomes = [f \in Files |-> 0]
    BY SendsNumbers DEF Sends!Init, SendsOver, Sends!NoFile
  <1>2. "new" \notin Sends!Live /\ "gone" \notin Sends!Live
    BY DEF Sends!Live, Sends!Writing
  <1>3. QueueTypes
    <2>1. <<>> \in Seq(Files)
      OBVIOUS
    <2>2. pendingSends \in Seq(Files)
      BY <1>1, <2>1
    <2> QED BY <1>1, <2>2 DEF QueueTypes
  <1>4. LinkTypes
    BY <1>1, SendsNumbers DEF LinkTypes, Conns
  <1>5. TransferTypes
    BY <1>1 DEF TransferTypes, SendStates
  <1>6. ResultTypes
    BY <1>1 DEF ResultTypes
  <1>7. QueuedOnce
    BY <1>1 DEF QueuedOnce
  <1>8. OneReporter /\ NothingBefore
    BY <1>1, SendsNumbers DEF OneReporter, NothingBefore, Reported
  <1>9. SlotsAreHeld
    <2>1. \A c \in Conns : Holders(c) = {}
      BY <1>1, <1>2 DEF Holders
    <2>2. Cardinality({}) = 0
      BY FS_EmptySet
    <2>3. \A c \in Conns : slots[c] = 0
      BY <1>1
    <2>4. \A f \in Files : send[f] \notin Sends!Live
      BY <1>1, <1>2
    <2> QED BY <2>1, <2>2, <2>3, <2>4, SendsNumbers DEF SlotsAreHeld
  <1> QED BY <1>3, <1>4, <1>5, <1>6, <1>7, <1>8, <1>9 DEF SendsInv, SendTypes

(* Both inductive invariants hold in every behaviour.                       *)
THEOREM Invariance == TransfersSpec => [](DownloadsInv /\ SendsInv)
PROOF
  <1>1. TransfersInit => DownloadsInv /\ SendsInv
    BY DownloadsInit, SendsInit DEF TransfersInit
  <1>2. DownloadsInv /\ SendsInv /\ [TransfersNext]_<<vars, sends>> => (DownloadsInv /\ SendsInv)'
    <2> SUFFICES ASSUME DownloadsInv, SendsInv, [TransfersNext]_<<vars, sends>>
                 PROVE  DownloadsInv' /\ SendsInv'
      OBVIOUS
    <2>1. [Next]_vars /\ [Sends!Next]_sends
      BY DEF TransfersNext
    <2> QED BY <2>1, DownloadsStep, SendsStep
  <1> QED BY <1>1, <1>2, PTL DEF TransfersSpec

(* PhoneService and the launcher: whatever the launcher shows as            *)
(* downloading still has a request that can expire or an event on its way   *)
(* that ends it; a file that is sent has one result at most; and the slots  *)
(* of a session are those of the workers that run on it, never more than    *)
(* its limit.                                                               *)
THEOREM WhatIsAskedEndsOnce == TransfersSpec => []EachEndsOnce
PROOF
  <1>1. DownloadsInv /\ SendsInv => EachEndsOnce
    <2> SUFFICES ASSUME DownloadsInv, SendsInv PROVE NoEndlessSpinner /\ Sends!EachEndsOnce
      BY DEF EachEndsOnce
    <2>1. NoEndlessSpinner
      BY DEF DownloadsInv
    <2>2. \A S : Sends!Cardinality(S) = Cardinality(S)
      BY DEF Sends!Cardinality, Cardinality
    <2>3. \A f \in Files : outcomes[f] <= 1
      BY DEF SendsInv, OneReporter
    <2>4. \A c \in Conns : slots[c] = Sends!Cardinality(Holders(c)) /\ slots[c] <= MaxConcurrent
      BY <2>2 DEF SendsInv, SlotsAreHeld
    <2> QED BY <2>1, <2>3, <2>4, SendsNumbers DEF Sends!EachEndsOnce, Holders
  <1> QED BY <1>1, Invariance, PTL

(* The tables, the queues and the threads' hands keep their types.          *)
THEOREM TransfersAreWellTyped == TransfersSpec => []TransfersTypeOK
PROOF
  <1>1. DownloadsInv => TypeOK
    <2> SUFFICES ASSUME RequestTypes, EventTypes, LauncherTypes PROVE TypeOK
      BY DEF DownloadsInv
    <2>1. \A c \in Conns : saving[c] \in Events \cup {NoAnswer}
      BY KnownEvents DEF EventTypes
    <2>2. /\ \A t \in Threads : \A i \in DOMAIN emit[t] : emit[t][i] \in Events
          /\ \A i \in DOMAIN phoneEvents : phoneEvents[i] \in Events
      BY DEF EventTypes
    <2> QED BY <2>1, <2>2 DEF TypeOK, RequestTypes, LauncherTypes
  <1>2. SendsInv => Sends!TypeOK
    BY SendsNumbers DEF SendsInv, SendTypes, QueueTypes, LinkTypes, TransferTypes, ResultTypes,
       SendStates, Sends!TypeOK
  <1>3. DownloadsInv /\ SendsInv => TransfersTypeOK
    BY <1>1, <1>2 DEF TransfersTypeOK
  <1> QED BY <1>3, Invariance, PTL
=============================================================================
