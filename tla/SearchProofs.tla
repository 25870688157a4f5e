---------------------------- MODULE SearchProofs ----------------------------
(***************************************************************************)
(* A search and the plugins it asks, for any texts, plugins, threads and   *)
(* bounds.  The three parts of MCSearch do not touch each other's state,   *)
(* so each has an invariant of its own: HostInv of the plugin processes,   *)
(* AskedInv of the queries made to plugins, PresentationInv of the         *)
(* launcher's own results.  The properties follow from these.              *)
(*                                                                         *)
(* HostInv: the exchange with a process is the business of whoever holds   *)
(* its mutex, so the pipe holds nothing but what that thread has written;  *)
(* and only objects that are listed, or that a reload is about to stop,    *)
(* can be given a process, so that none is left when a reload has ended.   *)
(* There is one reload at a time because the UI thread submits the next    *)
(* after it has heard of the last.                                         *)
(*                                                                         *)
(* AskedInv: a text without results has its query still on its way.        *)
(*                                                                         *)
(* PresentationInv: a visible overlay that waits has a request that nobody *)
(* will drop (Awaited), and results of older data have a snapshot being    *)
(* built that asks again (Current, Building).  A worker drops a job only   *)
(* when it is not the latest, which is what Coming and BeingBuilt say.     *)
(***************************************************************************)
EXTENDS MCSearch, FiniteSetTheorems, TLAPS
-----------------------------------------------------------------------------
(* Plugin hosts.  The types, by what holds them.                            *)
Objects == Hosts!Objects
Threads == Hosts!Callers

Exchanges ==
  {Hosts!Out}
    \cup [at : {"locking", "starting", "waking", "peeking", "writing"}, object : Objects]
    \cup [at : {"reading"}, object : Objects, request : 1 .. MaxRequests]

Processes == [at : {"none", "loading", "serving", "dead"},
              in : Seq(1 .. MaxRequests), out : Seq(0 .. MaxRequests)]

Tasks ==
  [at : {"idle", "reload", "activate", "other", "activating", "installing"}]
    \cup [at : {"dropping"}, old : SUBSET Objects]
    \cup [at : {"stopping"}, old : SUBSET Objects, object : Objects]

ListTyped ==
  /\ plugins \subseteq Objects /\ loads \in 1 .. Hosts!MaxLoads
  /\ submitted \in 0 .. MaxTasks /\ others \in 0 .. MaxOthers

ObjectsTyped ==
  /\ available \in [Objects -> BOOLEAN]
  /\ strikes \in [Objects -> 0 .. Hosts!MaxStrikes]
  /\ ioMutex \in [Objects -> Threads \cup {Nobody}]
  /\ host \in [Objects -> Processes]

ExchangesTyped ==
  /\ exchange \in [Threads -> Exchanges]
  /\ requests \in 0 .. MaxRequests
  /\ hostQuery \in [at : {"idle", "asking", "exited"}, todo : SUBSET Objects]

TasksTyped ==
  /\ tasks \in Seq({"reload", "activate", "other"})
  /\ task \in [Launchers -> Tasks]

FlagsTyped ==
  /\ reloadPending \in BOOLEAN /\ activationPending \in BOOLEAN
  /\ failed \in BOOLEAN /\ overwritten \in BOOLEAN
  /\ messages \in Seq({"error", "reloaded", "activated"})
  /\ ui \in {"running", "stopping", "joining", "stopped"}

HostTypes == ListTyped /\ ObjectsTyped /\ ExchangesTyped /\ TasksTyped /\ FlagsTyped

(* The groups together are the type invariant of PluginHosts.               *)
LEMMA HostTypesAreTypeOK == HostTypes => Hosts!TypeOK
BY DEF HostTypes, ListTyped, ObjectsTyped, ExchangesTyped, TasksTyped, FlagsTyped, Hosts!TypeOK,
       Exchanges, Processes, Tasks, Objects, Threads

(* The fields of an exchange, and what becomes of them.                     *)
LEMMA ExchangeFields ==
  ASSUME NEW e \in Exchanges
  PROVE  /\ e.at \in {"out", "locking", "starting", "waking", "peeking", "writing", "reading"}
         /\ e.at = "out" <=> e = Hosts!Out
         /\ e.at # "out" => e.object \in Objects
         /\ e.at = "reading" => e.request \in 1 .. MaxRequests
<1>1. CASE e = Hosts!Out
  BY <1>1 DEF Hosts!Out
<1>2. CASE e \in [at : {"locking", "starting", "waking", "peeking", "writing"},
                  object : Objects]
  BY <1>2 DEF Hosts!Out
<1>3. CASE e \in [at : {"reading"}, object : Objects, request : 1 .. MaxRequests]
  BY <1>3 DEF Hosts!Out
<1>4. QED
  BY <1>1, <1>2, <1>3 DEF Exchanges

(* An exchange that moves on within the mutex stays an exchange.            *)
LEMMA ExchangeGoesOn ==
  ASSUME NEW e \in Exchanges, e.at \in {"locking", "starting", "waking", "peeking"},
         NEW p \in {"starting", "waking", "peeking", "writing"}
  PROVE  /\ [e EXCEPT !.at = p] \in Exchanges
         /\ [e EXCEPT !.at = p].at = p /\ [e EXCEPT !.at = p].object = e.object
<1>1. e \in [at : {"locking", "starting", "waking", "peeking", "writing"}, object : Objects]
  BY DEF Exchanges, Hosts!Out
<1>2. QED
  BY <1>1 DEF Exchanges

(* The records that ExchangeStep puts in exchange.                          *)
LEMMA ExchangeStates ==
  ASSUME NEW o \in Objects
  PROVE  /\ Hosts!Out \in Exchanges /\ Hosts!Out.at = "out"
         /\ [at |-> "locking", object |-> o] \in Exchanges
         /\ \A n \in 1 .. MaxRequests :
              [at |-> "reading", object |-> o, request |-> n] \in Exchanges
BY DEF Exchanges, Hosts!Out

(* The fields a launcher's task has, by where it is.                        *)
LEMMA TaskFields ==
  ASSUME NEW w \in Tasks
  PROVE  /\ w.at \in {"idle", "reload", "activate", "other", "activating", "installing",
                      "dropping", "stopping"}
         /\ w.at = "idle" <=> w = Hosts!Free
         /\ w.at \in {"dropping", "stopping"} => w.old \subseteq Objects
         /\ w.at = "stopping" => w.object \in Objects
<1>1. CASE w \in [at : {"idle", "reload", "activate", "other", "activating", "installing"}]
  BY <1>1 DEF Hosts!Free
<1>2. CASE w \in [at : {"dropping"}, old : SUBSET Objects]
  BY <1>2 DEF Hosts!Free
<1>3. CASE w \in [at : {"stopping"}, old : SUBSET Objects, object : Objects]
  BY <1>3 DEF Hosts!Free
<1>4. QED
  BY <1>1, <1>2, <1>3 DEF Tasks

(* The records that TaskStep puts in task.                                  *)
LEMMA TaskStates ==
  /\ Hosts!Free \in Tasks /\ Hosts!Free.at = "idle"
  /\ \A k \in {"reload", "activate", "other", "activating", "installing"} : [at |-> k] \in Tasks
  /\ \A s \in SUBSET Objects :
       /\ Hosts!Dropping(s) \in Tasks /\ Hosts!Dropping(s).at = "dropping"
       /\ Hosts!Dropping(s).old = s
       /\ \A o \in Objects : /\ Hosts!Stopping(s, o) \in Tasks
                             /\ Hosts!Stopping(s, o).at = "stopping"
                             /\ Hosts!Stopping(s, o).old = s /\ Hosts!Stopping(s, o).object = o
BY DEF Tasks, Hosts!Free, Hosts!Dropping, Hosts!Stopping

(* The fields of a host process.                                            *)
LEMMA ProcessFields ==
  ASSUME NEW h \in Processes
  PROVE  /\ h.at \in {"none", "loading", "serving", "dead"}
         /\ h.in \in Seq(1 .. MaxRequests) /\ h.out \in Seq(0 .. MaxRequests)
         /\ \A x \in {"none", "loading", "serving", "dead"}, q \in Seq(1 .. MaxRequests),
               r \in Seq(0 .. MaxRequests) :
              [at |-> x, in |-> q, out |-> r] \in Processes
BY DEF Processes

-----------------------------------------------------------------------------
(* The exchanges, seen from what they do to the plugin they are with.       *)
LEMMA NoHostFields ==
  /\ Hosts!NoHost \in Processes
  /\ Hosts!NoHost.at = "none" /\ Hosts!NoHost.in = <<>> /\ Hosts!NoHost.out = <<>>
<1>1. <<>> \in Seq(1 .. MaxRequests) /\ <<>> \in Seq(0 .. MaxRequests)
  OBVIOUS
<1>2. QED
  BY <1>1 DEF Hosts!NoHost, Processes

Working == {"starting", "waking", "peeking", "writing", "reading"}
Holds(t, o) == exchange[t].at \in Working /\ exchange[t].object = o

OthersStay(t) ==
  /\ \A u \in Threads : u # t => exchange'[u] = exchange[u]
  /\ \A o \in Objects : o # exchange[t].object =>
       host'[o] = host[o] /\ ioMutex'[o] = ioMutex[o] /\ available'[o] = available[o]
  /\ available'[exchange[t].object] => available[exchange[t].object]

GivesUp(t) ==
  /\ exchange[t].at = "locking" /\ ioMutex[exchange[t].object] = Nobody
  /\ exchange'[t] = Hosts!Out
  /\ UNCHANGED <<ioMutex, host, available>>

Locks(t) ==
  LET o == exchange[t].object
  IN /\ exchange[t].at = "locking" /\ ioMutex[o] = Nobody /\ available[o]
     /\ ioMutex'[o] = t /\ exchange'[t].object = o
     /\ \/ exchange'[t].at = "peeking" /\ host'[o] = host[o]
        \/ exchange'[t].at = "starting" /\ host'[o] = Hosts!NoHost

GoesOn(t) ==
  LET o == exchange[t].object
  IN /\ ioMutex'[o] = ioMutex[o] /\ exchange'[t].object = o
     /\ \/ /\ exchange[t].at = "starting" /\ exchange'[t].at = "waking"
           /\ host'[o].in = <<>> /\ host'[o].out = <<>>
        \/ /\ exchange[t].at = "waking" /\ exchange'[t].at = "peeking"
           /\ host[o].out = <<Hosts!Ready>>
           /\ host'[o].at = host[o].at /\ host'[o].in = host[o].in /\ host'[o].out = <<>>
        \/ /\ exchange[t].at = "peeking" /\ exchange'[t].at = "writing"
           /\ host'[o] = host[o]
        \/ /\ exchange[t].at = "writing" /\ exchange'[t].at = "reading"
           /\ host'[o].at = host[o].at /\ host'[o].out = host[o].out
           /\ host'[o].in = Append(host[o].in, exchange'[t].request)

Leaves(t) ==
  LET o == exchange[t].object
  IN /\ exchange[t].at \in Working
     /\ ioMutex'[o] = Nobody /\ exchange'[t] = Hosts!Out
     /\ \/ host'[o] = Hosts!NoHost
        \/ /\ exchange[t].at = "reading" /\ Len(host[o].out) = 1
           /\ host'[o].at = host[o].at /\ host'[o].in = host[o].in /\ host'[o].out = <<>>

(* A failure: the process is ended, whatever was in its pipes.              *)
LEMMA FailureLeaves ==
  ASSUME HostTypes, NEW t \in Threads, exchange[t].at \in Working,
         Hosts!Fail(t) \/ Hosts!MarkUnavailable(t)
  PROVE  /\ OthersStay(t) /\ Leaves(t)
         /\ ObjectsTyped' /\ exchange' \in [Threads -> Exchanges]
<1> DEFINE o == exchange[t].object
<1>1. exchange \in [Threads -> Exchanges] /\ exchange[t] \in Exchanges
  BY DEF HostTypes, ExchangesTyped
<1>2. o \in Objects
  BY <1>1, ExchangeFields DEF Working
<1>3. /\ available \in [Objects -> BOOLEAN] /\ strikes \in [Objects -> 0 .. 3]
      /\ ioMutex \in [Objects -> Threads \cup {Nobody}] /\ host \in [Objects -> Processes]
  BY DEF HostTypes, ObjectsTyped, Hosts!MaxStrikes
<1>4. PICK n \in 0 .. 3, b \in BOOLEAN :
        /\ strikes' = [strikes EXCEPT ![o] = n]
        /\ available' = [available EXCEPT ![o] = b] /\ (b => available[o])
        /\ host' = [host EXCEPT ![o] = Hosts!NoHost]
        /\ exchange' = [exchange EXCEPT ![t] = Hosts!Out]
        /\ ioMutex' = [ioMutex EXCEPT ![o] = Nobody]
  <2>1. CASE Hosts!Fail(t)
    <3> DEFINE k == IF strikes[o] < 3 THEN strikes[o] + 1 ELSE 3
    <3>1. k \in 0 .. 3
      BY <1>2, <1>3
    <3>2. (available[o] /\ k < 3) \in BOOLEAN
      OBVIOUS
    <3>3. /\ strikes' = [strikes EXCEPT ![o] = k]
          /\ available' = [available EXCEPT ![o] = available[o] /\ k < 3]
          /\ host' = [host EXCEPT ![o] = Hosts!NoHost]
          /\ exchange' = [exchange EXCEPT ![t] = Hosts!Out]
          /\ ioMutex' = [ioMutex EXCEPT ![o] = Nobody]
      BY <2>1 DEF Hosts!Fail, Hosts!MaxStrikes, Hosts!HostAfterFailure, Hosts!StopProcess,
                  Hosts!Leave
    <3> HIDE DEF k
    <3>4. QED
      BY <3>1, <3>2, <3>3
  <2>2. CASE Hosts!MarkUnavailable(t)
    <3>1. /\ strikes' = [strikes EXCEPT ![o] = 3]
          /\ available' = [available EXCEPT ![o] = FALSE]
          /\ host' = [host EXCEPT ![o] = Hosts!NoHost]
          /\ exchange' = [exchange EXCEPT ![t] = Hosts!Out]
          /\ ioMutex' = [ioMutex EXCEPT ![o] = Nobody]
      BY <2>2 DEF Hosts!MarkUnavailable, Hosts!MaxStrikes, Hosts!StopProcess, Hosts!Leave
    <3>2. 3 \in 0 .. 3 /\ FALSE \in BOOLEAN
      OBVIOUS
    <3> HIDE DEF o
    <3>3. QED
      BY <3>1, <3>2
  <2>3. QED
    BY <2>1, <2>2
<1> HIDE DEF o
<1>5. OthersStay(t)
  BY <1>1, <1>2, <1>3, <1>4 DEF OthersStay, o
<1>6. Leaves(t)
  BY <1>1, <1>2, <1>3, <1>4 DEF Leaves, o
<1>7. ObjectsTyped'
  BY <1>2, <1>3, <1>4, NoHostFields DEF ObjectsTyped, Hosts!MaxStrikes
<1>8. exchange' \in [Threads -> Exchanges]
  BY <1>1, <1>2, <1>4, ExchangeStates
<1>9. QED
  BY <1>5, <1>6, <1>7, <1>8

(* A process whose pipes are changed.                                       *)
LEMMA ProcessMoves ==
  ASSUME NEW h \in Processes
  PROVE  /\ [h EXCEPT !.out = <<>>] \in Processes
         /\ [h EXCEPT !.out = <<>>].at = h.at /\ [h EXCEPT !.out = <<>>].in = h.in
         /\ [h EXCEPT !.out = <<>>].out = <<>>
         /\ \A n \in 1 .. MaxRequests :
              /\ [h EXCEPT !.in = Append(h.in, n)] \in Processes
              /\ [h EXCEPT !.in = Append(h.in, n)].at = h.at
              /\ [h EXCEPT !.in = Append(h.in, n)].in = Append(h.in, n)
              /\ [h EXCEPT !.in = Append(h.in, n)].out = h.out
         /\ [h EXCEPT !.at = "loading"] \in Processes
         /\ [h EXCEPT !.at = "loading"].in = h.in /\ [h EXCEPT !.at = "loading"].out = h.out
<1>1. <<>> \in Seq(0 .. MaxRequests)
  OBVIOUS
<1>2. \A n \in 1 .. MaxRequests : Append(h.in, n) \in Seq(1 .. MaxRequests)
  BY DEF Processes
<1>3. QED
  BY <1>1, <1>2 DEF Processes

(* Every step of an exchange is one of four kinds.                          *)
LEMMA ExchangeKinds ==
  ASSUME HostTypes, NEW t \in Threads, Hosts!ExchangeStep(t)
  PROVE  /\ exchange[t] # Hosts!Out /\ exchange[t].object \in Objects
         /\ OthersStay(t)
         /\ GivesUp(t) \/ Locks(t) \/ GoesOn(t) \/ Leaves(t)
         /\ ObjectsTyped' /\ ExchangesTyped'
<1> DEFINE o == exchange[t].object
<1>1. exchange \in [Threads -> Exchanges] /\ exchange[t] \in Exchanges
  BY DEF HostTypes, ExchangesTyped
<1>2. /\ exchange[t].at \in {"locking"} \cup Working
      /\ UNCHANGED hostQuery
  BY DEF Hosts!ExchangeStep, Hosts!EnsureProcess, Hosts!StartHost, Hosts!WaitForReady,
         Hosts!Peek, Hosts!WriteRequest, Hosts!ReadAnswer, Hosts!At, Working
<1>3. exchange[t] # Hosts!Out /\ o \in Objects
  BY <1>1, <1>2, ExchangeFields DEF Working
<1>4. /\ available \in [Objects -> BOOLEAN] /\ ioMutex \in [Objects -> Threads \cup {Nobody}]
      /\ host \in [Objects -> Processes] /\ host[o] \in Processes
  BY <1>3 DEF HostTypes, ObjectsTyped
<1>5. \A p : Hosts!Go(t, p) => exchange' = [exchange EXCEPT ![t] = [exchange[t] EXCEPT !.at = p]]
  BY DEF Hosts!Go
<1>6. ASSUME NEW p \in {"starting", "waking", "peeking", "writing"}, Hosts!Go(t, p),
             exchange[t].at \in {"locking", "starting", "waking", "peeking"}
      PROVE  /\ exchange' \in [Threads -> Exchanges]
             /\ exchange'[t].at = p /\ exchange'[t].object = o
             /\ \A u \in Threads : u # t => exchange'[u] = exchange[u]
  <2>1. exchange' = [exchange EXCEPT ![t] = [exchange[t] EXCEPT !.at = p]]
    BY <1>5, <1>6
  <2>2. /\ [exchange[t] EXCEPT !.at = p] \in Exchanges
        /\ [exchange[t] EXCEPT !.at = p].at = p
        /\ [exchange[t] EXCEPT !.at = p].object = o
    BY <1>1, <1>6, ExchangeGoesOn
  <2>3. QED
    BY <1>1, <2>1, <2>2
<1>7. requests \in 0 .. MaxRequests
  BY DEF HostTypes, ExchangesTyped
<1>8. hostQuery' \in [at : {"idle", "asking", "exited"}, todo : SUBSET Objects]
  BY <1>2 DEF HostTypes, ExchangesTyped
<1>9. ObjectsTyped
  BY DEF HostTypes
<1> HIDE DEF o
<1> DEFINE Goal == /\ OthersStay(t)
                   /\ GivesUp(t) \/ Locks(t) \/ GoesOn(t) \/ Leaves(t)
                   /\ ObjectsTyped' /\ exchange' \in [Threads -> Exchanges]
                   /\ requests' \in 0 .. MaxRequests
<1>10. ASSUME Hosts!Fail(t) \/ Hosts!MarkUnavailable(t), exchange[t].at \in Working,
              requests' = requests
       PROVE  Goal
  BY <1>7, <1>10, FailureLeaves
<1>11. ASSUME Hosts!EnsureProcess(t) PROVE Goal
  <2>1. /\ exchange[t].at = "locking" /\ ioMutex[o] = Nobody
        /\ UNCHANGED <<available, strikes, requests>>
    BY <1>11 DEF Hosts!EnsureProcess, Hosts!At, o
  <2>2. CASE /\ exchange' = [exchange EXCEPT ![t] = Hosts!Out]
             /\ UNCHANGED <<ioMutex, host>>
    <3>1. exchange' \in [Threads -> Exchanges]
      BY <1>1, <1>3, <2>2, ExchangeStates
    <3>2. OthersStay(t)
      BY <1>1, <2>1, <2>2 DEF OthersStay
    <3>3. GivesUp(t)
      BY <1>1, <2>1, <2>2 DEF GivesUp, o
    <3>4. QED
      BY <1>7, <1>9, <2>1, <2>2, <3>1, <3>2, <3>3 DEF ObjectsTyped
  <2>3. CASE /\ available[o] /\ ioMutex' = [ioMutex EXCEPT ![o] = t]
             /\ Hosts!Go(t, "peeking") /\ UNCHANGED host
    <3>1. OthersStay(t)
      BY <1>3, <1>4, <1>6, <2>1, <2>3 DEF OthersStay, o
    <3>2. Locks(t)
      BY <1>3, <1>4, <1>6, <2>1, <2>3 DEF Locks, o
    <3>3. ObjectsTyped'
      BY <1>4, <1>9, <2>1, <2>3 DEF ObjectsTyped
    <3>4. QED
      BY <1>6, <1>7, <2>1, <2>3, <3>1, <3>2, <3>3
  <2>4. CASE /\ available[o] /\ ioMutex' = [ioMutex EXCEPT ![o] = t]
             /\ Hosts!Go(t, "starting") /\ Hosts!StopProcess(o)
    <3>0. host' = [host EXCEPT ![o] = Hosts!NoHost]
      BY <2>4 DEF Hosts!StopProcess
    <3>1. OthersStay(t)
      BY <1>3, <1>4, <1>6, <2>1, <2>4, <3>0 DEF OthersStay, o
    <3>2. Locks(t)
      BY <1>3, <1>4, <1>6, <2>1, <2>4, <3>0 DEF Locks, o
    <3>3. ObjectsTyped'
      BY <1>4, <1>9, <2>1, <2>4, <3>0, NoHostFields DEF ObjectsTyped
    <3>4. QED
      BY <1>6, <1>7, <2>1, <2>4, <3>1, <3>2, <3>3
  <2>5. QED
    BY <1>11, <2>2, <2>3, <2>4 DEF Hosts!EnsureProcess, Hosts!MayStart, o
<1>12. ASSUME Hosts!StartHost(t) PROVE Goal
  <2>1. exchange[t].at = "starting" /\ requests' = requests
    BY <1>12 DEF Hosts!StartHost, Hosts!At
  <2>2. CASE /\ host' = [host EXCEPT ![o] = [Hosts!NoHost EXCEPT !.at = "loading"]]
             /\ Hosts!Go(t, "waking") /\ UNCHANGED <<available, strikes, ioMutex>>
    <3>1. /\ [Hosts!NoHost EXCEPT !.at = "loading"] \in Processes
          /\ [Hosts!NoHost EXCEPT !.at = "loading"].in = <<>>
          /\ [Hosts!NoHost EXCEPT !.at = "loading"].out = <<>>
      BY NoHostFields, ProcessMoves
    <3>2. OthersStay(t)
      BY <1>3, <1>4, <1>6, <2>1, <2>2 DEF OthersStay, o
    <3>3. GoesOn(t)
      BY <1>3, <1>4, <1>6, <2>1, <2>2, <3>1 DEF GoesOn, o
    <3>4. ObjectsTyped'
      BY <1>4, <1>9, <2>2, <3>1 DEF ObjectsTyped
    <3>5. QED
      BY <1>6, <1>7, <2>1, <2>2, <3>2, <3>3, <3>4
  <2>3. QED
    BY <1>10, <1>12, <2>1, <2>2 DEF Hosts!StartHost, Working, o
<1>13. ASSUME Hosts!WaitForReady(t) PROVE Goal
  <2>1. exchange[t].at = "waking" /\ requests' = requests
    BY <1>13 DEF Hosts!WaitForReady, Hosts!At
  <2>2. CASE /\ host[o].out = <<Hosts!Ready>>
             /\ host' = [host EXCEPT ![o].out = <<>>]
             /\ Hosts!Go(t, "peeking") /\ UNCHANGED <<available, strikes, ioMutex>>
    <3>0. host' = [host EXCEPT ![o] = [host[o] EXCEPT !.out = <<>>]]
      BY <2>2
    <3>1. /\ [host[o] EXCEPT !.out = <<>>] \in Processes
          /\ [host[o] EXCEPT !.out = <<>>].at = host[o].at
          /\ [host[o] EXCEPT !.out = <<>>].in = host[o].in
          /\ [host[o] EXCEPT !.out = <<>>].out = <<>>
      BY <1>4, ProcessMoves
    <3>2. OthersStay(t)
      BY <1>3, <1>4, <1>6, <2>1, <2>2, <3>0 DEF OthersStay, o
    <3>3. GoesOn(t)
      BY <1>3, <1>4, <1>6, <2>1, <2>2, <3>0, <3>1 DEF GoesOn, o
    <3>4. ObjectsTyped'
      BY <1>4, <1>9, <2>2, <3>0, <3>1 DEF ObjectsTyped
    <3>5. QED
      BY <1>6, <1>7, <2>1, <2>2, <3>2, <3>3, <3>4
  <2>3. QED
    BY <1>10, <1>13, <2>1, <2>2 DEF Hosts!WaitForReady, Working, o
<1>14. ASSUME Hosts!Peek(t) PROVE Goal
  <2>1. exchange[t].at = "peeking" /\ requests' = requests
    BY <1>14 DEF Hosts!Peek, Hosts!At
  <2>2. CASE Hosts!Go(t, "writing") /\ UNCHANGED <<available, strikes, ioMutex, host>>
    <3>1. OthersStay(t)
      BY <1>6, <2>1, <2>2 DEF OthersStay
    <3>2. GoesOn(t)
      BY <1>6, <2>1, <2>2 DEF GoesOn, o
    <3>3. QED
      BY <1>6, <1>7, <1>9, <2>1, <2>2, <3>1, <3>2 DEF ObjectsTyped
  <2>3. QED
    BY <1>10, <1>14, <2>1, <2>2 DEF Hosts!Peek, Hosts!objectVars, Working
<1>15. ASSUME Hosts!WriteRequest(t) PROVE Goal
  <2>1. exchange[t].at = "writing"
    BY <1>15 DEF Hosts!WriteRequest, Hosts!At
  <2>2. CASE /\ requests < MaxRequests /\ requests' = requests + 1
             /\ host' = [host EXCEPT ![o].in = Append(@, requests')]
             /\ exchange' = [exchange EXCEPT ![t] =
                               [at |-> "reading", object |-> o, request |-> requests']]
             /\ UNCHANGED <<available, strikes, ioMutex>>
    <3>0. host' = [host EXCEPT ![o] = [host[o] EXCEPT !.in = Append(host[o].in, requests')]]
      BY <2>2
    <3>1. requests' \in 1 .. MaxRequests
      BY <1>7, <2>2, SearchConstants
    <3>2. /\ [host[o] EXCEPT !.in = Append(host[o].in, requests')] \in Processes
          /\ [host[o] EXCEPT !.in = Append(host[o].in, requests')].at = host[o].at
          /\ [host[o] EXCEPT !.in = Append(host[o].in, requests')].in
               = Append(host[o].in, requests')
          /\ [host[o] EXCEPT !.in = Append(host[o].in, requests')].out = host[o].out
      BY <1>4, <3>1, ProcessMoves
    <3>3. exchange' \in [Threads -> Exchanges]
      BY <1>1, <1>3, <2>2, <3>1, ExchangeStates
    <3>4. OthersStay(t)
      BY <1>1, <1>3, <1>4, <2>2, <3>0 DEF OthersStay, o
    <3>5. exchange'[t] = [at |-> "reading", object |-> o, request |-> requests']
      BY <1>1, <2>2
    <3>6. GoesOn(t)
      BY <1>3, <1>4, <2>1, <2>2, <3>0, <3>2, <3>5 DEF GoesOn, o
    <3>7. ObjectsTyped'
      BY <1>4, <1>9, <2>2, <3>0, <3>2 DEF ObjectsTyped
    <3>8. QED
      BY <3>1, <3>3, <3>4, <3>6, <3>7
  <2>3. QED
    BY <1>10, <1>15, <2>1, <2>2 DEF Hosts!WriteRequest, Working, o
<1>16. ASSUME Hosts!ReadAnswer(t) PROVE Goal
  <2>1. exchange[t].at = "reading" /\ requests' = requests
    BY <1>16 DEF Hosts!ReadAnswer, Hosts!At
  <2>2. CASE /\ Len(host[o].out) = 1
             /\ host' = [host EXCEPT ![o].out = <<>>]
             /\ strikes' = [strikes EXCEPT ![o] = 0]
             /\ Hosts!Leave(t) /\ UNCHANGED available
    <3>0. /\ host' = [host EXCEPT ![o] = [host[o] EXCEPT !.out = <<>>]]
          /\ exchange' = [exchange EXCEPT ![t] = Hosts!Out]
          /\ ioMutex' = [ioMutex EXCEPT ![o] = Nobody]
      BY <2>2 DEF Hosts!Leave, o
    <3>1. /\ [host[o] EXCEPT !.out = <<>>] \in Processes
          /\ [host[o] EXCEPT !.out = <<>>].at = host[o].at
          /\ [host[o] EXCEPT !.out = <<>>].in = host[o].in
          /\ [host[o] EXCEPT !.out = <<>>].out = <<>>
      BY <1>4, ProcessMoves
    <3>2. OthersStay(t)
      BY <1>1, <1>3, <1>4, <2>2, <3>0 DEF OthersStay, o
    <3>3. Leaves(t)
      BY <1>1, <1>3, <1>4, <2>1, <2>2, <3>0, <3>1 DEF Leaves, Working, o
    <3>4. ObjectsTyped'
      <4>1. 0 \in 0 .. Hosts!MaxStrikes
        BY DEF Hosts!MaxStrikes
      <4>2. strikes' \in [Objects -> 0 .. Hosts!MaxStrikes]
        BY <1>9, <2>2, <4>1 DEF ObjectsTyped
      <4>3. host' \in [Objects -> Processes]
        BY <1>4, <3>0, <3>1
      <4>4. ioMutex' \in [Objects -> Threads \cup {Nobody}]
        BY <1>4, <3>0
      <4>5. QED
        BY <1>4, <2>2, <4>2, <4>3, <4>4 DEF ObjectsTyped
    <3>5. exchange' \in [Threads -> Exchanges]
      BY <1>1, <1>3, <3>0, ExchangeStates
    <3>6. QED
      BY <1>7, <2>1, <3>2, <3>3, <3>4, <3>5
  <2>3. QED
    BY <1>10, <1>16, <2>1, <2>2 DEF Hosts!ReadAnswer, Working, o
<1>17. Goal
  BY <1>11, <1>12, <1>13, <1>14, <1>15, <1>16 DEF Hosts!ExchangeStep
<1>18. QED
  BY <1>3, <1>8, <1>17 DEF ExchangesTyped, o

-----------------------------------------------------------------------------
(* The mutex belongs to the thread that works on the plugin.                *)
MutexInv ==
  \A t \in Threads, o \in Objects : ioMutex[o] = t <=> Holds(t, o)

(* A request is written to empty pipes, and nothing but its answer follows. *)
Quiet(o) == host[o].in = <<>> /\ host[o].out = <<>> /\ host[o].at # "loading"

Starts(o) ==
  /\ host[o].in = <<>>
  /\ host[o].out = <<>> \/ (host[o].out = <<Hosts!Ready>> /\ host[o].at # "loading")

Answers(o, n) ==
  /\ host[o].at # "loading"
  /\ \/ host[o].in = <<n>> /\ host[o].out = <<>>
     \/ host[o].in = <<>> /\ host[o].out = <<n>>

PipesOf(t) ==
  /\ exchange[t].at = "waking" => Starts(exchange[t].object)
  /\ exchange[t].at \in {"starting", "peeking", "writing"} => Quiet(exchange[t].object)
  /\ exchange[t].at = "reading" => Answers(exchange[t].object, exchange[t].request)

PipesInv ==
  /\ \A o \in Objects : ioMutex[o] = Nobody => Quiet(o)
  /\ \A t \in Threads : PipesOf(t)

(* Who does not hold the mutex of a plugin does not depend on its process.  *)
LEMMA PipesDepend ==
  ASSUME NEW t \in Threads, PipesOf(t), exchange'[t] = exchange[t],
         exchange[t].at \in Working => host'[exchange[t].object] = host[exchange[t].object]
  PROVE  PipesOf(t)'
BY DEF PipesOf, Starts, Quiet, Answers, Working

(* Where the mutex is free, no thread is within an exchange.                *)
LEMMA NobodyWorks ==
  ASSUME HostTypes, MutexInv, NEW o \in Objects, ioMutex[o] = Nobody, NEW t \in Threads
  PROVE  ~Holds(t, o)
BY SearchConstants DEF MutexInv, Threads, Hosts!Callers

(* An exchange keeps the mutex: it works only where it has locked.          *)
LEMMA ExchangeMutex ==
  ASSUME HostTypes, MutexInv, NEW t \in Threads, Hosts!ExchangeStep(t),
         NEW o, o = exchange[t].object
  PROVE  MutexInv'
<1>1. /\ o \in Objects /\ OthersStay(t)
      /\ GivesUp(t) \/ Locks(t) \/ GoesOn(t) \/ Leaves(t)
  BY ExchangeKinds
<1>2. Nobody \notin Threads
  BY SearchConstants DEF Threads, Hosts!Callers
<1>3. Hosts!Out.at = "out" /\ "out" \notin Working /\ "locking" \notin Working
  BY DEF Hosts!Out, Working
<1>4. ASSUME NEW u \in Threads, NEW p \in Objects, p # o
      PROVE  ioMutex'[p] = u <=> Holds(u, p)'
  <2>1. ioMutex'[p] = ioMutex[p] /\ (ioMutex[p] = u <=> Holds(u, p))
    BY <1>1, <1>4 DEF OthersStay, MutexInv
  <2>2. CASE u # t
    BY <1>1, <2>1, <2>2 DEF OthersStay, Holds
  <2>3. CASE u = t
    <3>1. ~Holds(t, p)
      BY <1>4 DEF Holds
    <3>2. exchange'[t] = Hosts!Out \/ exchange'[t].object = o
      BY <1>1 DEF GivesUp, Locks, GoesOn, Leaves
    <3>3. ~Holds(t, p)'
      BY <1>3, <1>4, <3>2 DEF Holds
    <3>4. QED
      BY <2>1, <2>3, <3>1, <3>3
  <2>4. QED
    BY <2>2, <2>3
<1>5. ASSUME NEW u \in Threads PROVE ioMutex'[o] = u <=> Holds(u, o)'
  <2>1. /\ ioMutex[o] = u <=> Holds(u, o)
        /\ ioMutex[o] = t <=> Holds(t, o)
    BY <1>1 DEF MutexInv
  <2>2. u # t => (Holds(u, o)' <=> Holds(u, o))
    BY <1>1 DEF OthersStay, Holds
  <2>3. CASE GivesUp(t)
    <3>1. ioMutex'[o] = Nobody /\ ioMutex[o] = Nobody /\ ~Holds(t, o)'
      BY <1>3, <2>3 DEF GivesUp, Holds
    <3>2. QED
      BY <1>2, <2>1, <2>2, <3>1
  <2>4. CASE Locks(t)
    <3>1. ioMutex'[o] = t /\ ioMutex[o] = Nobody /\ Holds(t, o)'
      BY <2>4 DEF Locks, Holds, Working
    <3>2. QED
      BY <1>2, <2>1, <2>2, <3>1
  <2>5. CASE GoesOn(t)
    <3>1. ioMutex'[o] = ioMutex[o] /\ Holds(t, o)' /\ Holds(t, o)
      BY <2>5 DEF GoesOn, Holds, Working
    <3>2. QED
      BY <2>1, <2>2, <3>1
  <2>6. CASE Leaves(t)
    <3>1. ioMutex'[o] = Nobody /\ ~Holds(t, o)' /\ Holds(t, o)
      BY <1>3, <2>6 DEF Leaves, Holds
    <3>2. QED
      BY <1>2, <2>1, <2>2, <3>1
  <2>7. QED
    BY <1>1, <2>3, <2>4, <2>5, <2>6
<1>6. QED
  BY <1>4, <1>5 DEF MutexInv

(* An exchange keeps the pipes: it writes where nothing is left to be read. *)
LEMMA ExchangePipes ==
  ASSUME HostTypes, MutexInv, PipesInv, NEW t \in Threads, Hosts!ExchangeStep(t),
         NEW o, o = exchange[t].object
  PROVE  PipesInv'
<1>1. /\ o \in Objects /\ OthersStay(t)
      /\ GivesUp(t) \/ Locks(t) \/ GoesOn(t) \/ Leaves(t)
      /\ exchange[t].at \in Working \cup {"locking"}
  BY ExchangeKinds DEF GivesUp, Locks, GoesOn, Leaves, Working
<1>2. Nobody \notin Threads
  BY SearchConstants DEF Threads, Hosts!Callers
<1>3. /\ Hosts!Out.at = "out"
      /\ Hosts!NoHost.at = "none" /\ Hosts!NoHost.in = <<>> /\ Hosts!NoHost.out = <<>>
  BY DEF Hosts!Out, Hosts!NoHost
<1>4. exchange[t].at \in Working <=> ioMutex[o] = t
  BY <1>1 DEF MutexInv, Holds
<1>5. ASSUME NEW u \in Threads, u # t PROVE PipesOf(u)'
  <2>1. exchange'[u] = exchange[u] /\ PipesOf(u)
    BY <1>1, <1>5 DEF OthersStay, PipesInv
  <2>2. ASSUME exchange[u].at \in Working
        PROVE  host'[exchange[u].object] = host[exchange[u].object]
    <3>0. exchange[u].object \in Objects
      <4>1. exchange[u] \in Exchanges
        BY DEF HostTypes, ExchangesTyped
      <4>2. QED
        BY <2>2, <4>1, ExchangeFields DEF Working
    <3>1. CASE exchange[u].object = o
      <4>1. Holds(u, o)
        BY <2>2, <3>1 DEF Holds
      <4>2. ioMutex[o] = u
        BY <1>1, <4>1 DEF MutexInv
      <4>3. ioMutex[o] # Nobody /\ exchange[t].at = "locking"
        BY <1>1, <1>2, <1>4, <1>5, <4>2
      <4>4. FALSE
        BY <1>1, <4>3 DEF GivesUp, Locks, GoesOn, Leaves, Working
      <4>5. QED
        BY <4>4
    <3>2. CASE exchange[u].object # o
      BY <1>1, <3>0, <3>2 DEF OthersStay
    <3>3. QED
      BY <3>1, <3>2
  <2>3. QED
    BY <2>1, <2>2, PipesDepend
<1>6. ASSUME NEW p \in Objects, p # o, ioMutex'[p] = Nobody PROVE Quiet(p)'
  BY <1>1, <1>6 DEF OthersStay, PipesInv, Quiet
<1>7. CASE GivesUp(t)
  <2>1. Quiet(o)' /\ PipesOf(t)'
    BY <1>1, <1>3, <1>7 DEF GivesUp, PipesInv, PipesOf, Quiet
  <2>2. QED
    BY <1>5, <1>6, <2>1 DEF PipesInv
<1>8. CASE Locks(t)
  <2>1. Quiet(o)
    BY <1>1, <1>8 DEF Locks, PipesInv
  <2>2. Quiet(o)' /\ ioMutex'[o] # Nobody
    BY <1>2, <1>3, <1>8, <2>1 DEF Locks, Quiet
  <2>3. PipesOf(t)'
    BY <1>8, <2>2 DEF Locks, PipesOf, Quiet
  <2>4. QED
    BY <1>5, <1>6, <2>2, <2>3 DEF PipesInv
<1>9. CASE GoesOn(t)
  <2>1. exchange'[t].object = o /\ ioMutex'[o] # Nobody
    BY <1>2, <1>4, <1>9 DEF GoesOn, Working
  <2>2. PipesOf(t)
    BY DEF PipesInv
  <2>3. ASSUME exchange[t].at = "starting" PROVE PipesOf(t)'
    <3>1. exchange'[t].at = "waking" /\ host'[o].in = <<>> /\ host'[o].out = <<>>
      BY <1>9, <2>3 DEF GoesOn
    <3>2. QED
      BY <2>1, <3>1 DEF PipesOf, Starts
  <2>4. ASSUME exchange[t].at = "waking" PROVE PipesOf(t)'
    <3>1. /\ exchange'[t].at = "peeking" /\ host[o].out = <<Hosts!Ready>>
          /\ host'[o].at = host[o].at /\ host'[o].in = host[o].in /\ host'[o].out = <<>>
      BY <1>9, <2>4 DEF GoesOn
    <3>2. Starts(o) /\ <<Hosts!Ready>> # <<>>
      BY <2>2, <2>4 DEF PipesOf
    <3>3. Quiet(o)'
      BY <3>1, <3>2 DEF Starts, Quiet
    <3>4. QED
      BY <2>1, <3>1, <3>3 DEF PipesOf, Quiet
  <2>5. ASSUME exchange[t].at = "peeking" PROVE PipesOf(t)'
    <3>1. exchange'[t].at = "writing" /\ host'[o] = host[o]
      BY <1>9, <2>5 DEF GoesOn
    <3>2. QED
      BY <2>1, <2>2, <2>5, <3>1 DEF PipesOf, Quiet
  <2>6. ASSUME exchange[t].at = "writing" PROVE PipesOf(t)'
    <3>1. /\ exchange'[t].at = "reading"
          /\ host'[o].at = host[o].at /\ host'[o].out = host[o].out
          /\ host'[o].in = Append(host[o].in, exchange'[t].request)
      BY <1>9, <2>6 DEF GoesOn
    <3>2. Quiet(o)
      BY <2>2, <2>6 DEF PipesOf
    <3>3. Append(<<>>, exchange'[t].request) = <<exchange'[t].request>>
      OBVIOUS
    <3>4. Answers(o, exchange[t].request)'
      BY <3>1, <3>2, <3>3 DEF Quiet, Answers
    <3>5. QED
      BY <2>1, <3>1, <3>4 DEF PipesOf, Answers
  <2>7. PipesOf(t)'
    BY <1>9, <2>3, <2>4, <2>5, <2>6 DEF GoesOn
  <2>8. QED
    BY <1>5, <1>6, <2>1, <2>7 DEF PipesInv
<1>10. CASE Leaves(t)
  <2>1. PipesOf(t)'
    BY <1>3, <1>10 DEF Leaves, PipesOf
  <2>2. Quiet(o)'
    <3>1. CASE host'[o] = Hosts!NoHost
      BY <1>3, <3>1 DEF Quiet
    <3>2. CASE host'[o] # Hosts!NoHost
      <4>1. /\ exchange[t].at = "reading" /\ Len(host[o].out) = 1
            /\ host'[o].at = host[o].at /\ host'[o].in = host[o].in /\ host'[o].out = <<>>
        BY <1>10, <3>2 DEF Leaves
      <4>2. Answers(o, exchange[t].request)
        BY <4>1 DEF PipesInv, PipesOf
      <4>3. QED
        BY <4>1, <4>2 DEF Answers, Quiet
    <3>3. QED
      BY <3>1, <3>2
  <2>3. QED
    BY <1>5, <1>6, <2>1, <2>2 DEF PipesInv
<1>11. QED
  BY <1>1, <1>7, <1>8, <1>9, <1>10

(* Threads that begin an exchange, and those that are done with it.         *)
LEMMA PipesRest ==
  ASSUME HostTypes, MutexInv, PipesInv, UNCHANGED <<ioMutex, host>>,
         \A t \in Threads :
           \/ exchange'[t] = exchange[t]
           \/ exchange[t].at \notin Working /\ exchange'[t].at \notin Working
  PROVE  MutexInv' /\ PipesInv'
<1>1. MutexInv'
  <2> SUFFICES ASSUME NEW t \in Threads, NEW o \in Objects
      PROVE  ioMutex[o] = t <=> Holds(t, o)'
    BY DEF MutexInv
  <2>1. Holds(t, o)' <=> Holds(t, o)
    BY DEF Holds
  <2>2. QED
    BY <2>1 DEF MutexInv
<1>2. ASSUME NEW t \in Threads PROVE PipesOf(t)'
  <2>1. CASE exchange'[t] = exchange[t]
    BY <2>1, PipesDepend DEF PipesInv
  <2>2. CASE exchange'[t].at \notin Working
    BY <2>2 DEF PipesOf, Working
  <2>3. QED
    BY <2>1, <2>2
<1>3. QED
  BY <1>1, <1>2 DEF PipesInv, Quiet

(* The manager ends processes nobody works with.                            *)
LEMMA PipesStopped ==
  ASSUME HostTypes, MutexInv, PipesInv, UNCHANGED <<ioMutex, exchange>>,
         \A o \in Objects : \/ host'[o] = host[o]
                            \/ ioMutex[o] = Nobody /\ host'[o] = Hosts!NoHost
  PROVE  MutexInv' /\ PipesInv'
<1>1. MutexInv'
  BY DEF MutexInv, Holds
<1>2. ASSUME NEW o \in Objects, ioMutex[o] = Nobody PROVE Quiet(o)'
  <2>1. Hosts!NoHost.at = "none" /\ Hosts!NoHost.in = <<>> /\ Hosts!NoHost.out = <<>>
    BY DEF Hosts!NoHost
  <2>2. Quiet(o)
    BY <1>2 DEF PipesInv
  <2>3. QED
    BY <2>1, <2>2 DEF Quiet
<1>3. ASSUME NEW t \in Threads PROVE PipesOf(t)'
  <2>1. ASSUME exchange[t].at \in Working
        PROVE  host'[exchange[t].object] = host[exchange[t].object]
    <3>1. exchange[t] \in Exchanges
      BY DEF HostTypes, ExchangesTyped
    <3>2. exchange[t].object \in Objects
      BY <2>1, <3>1, ExchangeFields DEF Working
    <3>3. ioMutex[exchange[t].object] # Nobody
      BY <2>1, <3>2, NobodyWorks DEF Holds
    <3>4. QED
      BY <3>2, <3>3
  <2>2. QED
    BY <2>1, PipesDepend DEF PipesInv
<1>4. QED
  BY <1>1, <1>2, <1>3 DEF PipesInv

(* A host that says it is ready, answers or ends.                           *)
HostActs(o) ==
  \/ /\ host[o].at = "loading" /\ host'[o].at = "serving"
     /\ host'[o].in = host[o].in /\ host'[o].out = <<Hosts!Ready>>
  \/ /\ host[o].at = "serving" /\ host'[o].at = "serving" /\ host[o].in # <<>>
     /\ host'[o].in = Tail(host[o].in) /\ host'[o].out = Append(host[o].out, Head(host[o].in))
  \/ /\ host'[o].at = "dead"
     /\ host'[o].in = host[o].in /\ host'[o].out = host[o].out

(* A host that answers moves one request from its input to its output.      *)
LEMMA ProcessAnswers ==
  ASSUME NEW h \in Processes, h.in # <<>>
  PROVE  LET g == [h EXCEPT !.in = Tail(h.in), !.out = Append(h.out, Head(h.in))]
         IN /\ g \in Processes /\ g.at = h.at
            /\ g.in = Tail(h.in) /\ g.out = Append(h.out, Head(h.in))
<1>1. h.in \in Seq(1 .. MaxRequests) /\ h.out \in Seq(0 .. MaxRequests)
  BY ProcessFields
<1>2. Tail(h.in) \in Seq(1 .. MaxRequests) /\ Head(h.in) \in 1 .. MaxRequests
  <2>1. \A S : \A q \in Seq(S) : q # <<>> => Tail(q) \in Seq(S) /\ Head(q) \in S
    BY Z3
  <2>2. QED
    BY <1>1, <2>1
<1>3. Head(h.in) \in 0 .. MaxRequests
  BY <1>2, SearchConstants
<1>4. Append(h.out, Head(h.in)) \in Seq(0 .. MaxRequests)
  BY <1>1, <1>3
<1>5. QED
  BY <1>2, <1>4 DEF Processes

(* Every step of a host process is one of the kinds of HostActs.            *)
LEMMA HostKinds ==
  ASSUME HostTypes, NEW o \in Objects, Hosts!HostStep(o)
  PROVE  /\ \A p \in Objects : p # o => host'[p] = host[p]
         /\ host[o] # Hosts!NoHost /\ HostActs(o) /\ ObjectsTyped'
<1>1. host \in [Objects -> Processes] /\ host[o] \in Processes /\ ObjectsTyped
  BY DEF HostTypes, ObjectsTyped
<1>2. PICK h : host' = [host EXCEPT ![o] = h]
  BY DEF Hosts!HostStep
<1>3. host'[o] = h /\ \A p \in Objects : p # o => host'[p] = host[p]
  BY <1>1, <1>2
<1>4. host[o] # Hosts!NoHost
  BY DEF Hosts!HostStep, Hosts!Running, Hosts!NoHost
<1>5. host[o].in \in Seq(1 .. MaxRequests) /\ host[o].out \in Seq(0 .. MaxRequests)
  BY <1>1, ProcessFields
<1>6. HostActs(o) /\ h \in Processes
  <2>1. CASE /\ host[o].at = "loading"
             /\ host' = [host EXCEPT ![o] = [@ EXCEPT !.at = "serving", !.out = <<Hosts!Ready>>]]
    <3>1. h = [host[o] EXCEPT !.at = "serving", !.out = <<Hosts!Ready>>]
      BY <1>1, <1>3, <2>1
    <3>2. /\ h = [at |-> "serving", in |-> host[o].in, out |-> <<Hosts!Ready>>]
      BY <1>1, <3>1 DEF Processes
    <3>3. <<Hosts!Ready>> \in Seq(0 .. MaxRequests)
      <4>1. 0 \in 0 .. MaxRequests
        BY SearchConstants
      <4>2. QED
        BY <4>1 DEF Hosts!Ready
    <3>4. h \in Processes
      BY <1>1, <3>2, <3>3, ProcessFields
    <3>5. QED
      BY <1>3, <2>1, <3>2, <3>4 DEF HostActs
  <2>2. CASE /\ host[o].at = "serving" /\ host[o].in # <<>>
             /\ host' = [host EXCEPT ![o].in = Tail(@),
                                     ![o].out = Append(@, Head(host[o].in))]
    <3>2. host'[o] = [host[o] EXCEPT !.in = Tail(host[o].in),
                                     !.out = Append(host[o].out, Head(host[o].in))]
      BY <1>1, <2>2
    <3>3. /\ host'[o] \in Processes /\ host'[o].at = host[o].at
          /\ host'[o].in = Tail(host[o].in)
          /\ host'[o].out = Append(host[o].out, Head(host[o].in))
      BY <1>1, <2>2, <3>2, ProcessAnswers
    <3>4. QED
      BY <1>3, <2>2, <3>3 DEF HostActs
  <2>3. CASE host' = [host EXCEPT ![o].at = "dead"]
    <3>1. h = [host[o] EXCEPT !.at = "dead"]
      BY <1>1, <1>3, <2>3
    <3>2. h = [at |-> "dead", in |-> host[o].in, out |-> host[o].out]
      BY <1>1, <3>1 DEF Processes
    <3>3. h \in Processes
      BY <1>1, <1>5, <3>2, ProcessFields
    <3>4. QED
      BY <1>3, <3>2, <3>3 DEF HostActs
  <2>4. QED
    BY <2>1, <2>2, <2>3 DEF Hosts!HostStep
<1>7. ObjectsTyped'
  BY <1>1, <1>2, <1>6 DEF Hosts!HostStep, ObjectsTyped
<1>8. QED
  BY <1>3, <1>4, <1>6, <1>7

(* A host process answers in the order it was asked, or dies.               *)
LEMMA HostPipes ==
  ASSUME HostTypes, MutexInv, PipesInv, NEW o \in Objects, Hosts!HostStep(o)
  PROVE  MutexInv' /\ PipesInv'
<1>1. /\ \A p \in Objects : p # o => host'[p] = host[p]
      /\ HostActs(o)
  BY HostKinds
<1>2. UNCHANGED <<ioMutex, exchange>>
  BY DEF Hosts!HostStep, Hosts!exchangeVars
<1>3. MutexInv'
  BY <1>2 DEF MutexInv, Holds
<1>4. Quiet(o) => Quiet(o)'
  BY <1>1 DEF Quiet, HostActs
<1>5. Starts(o) => Starts(o)'
  BY <1>1 DEF Starts, HostActs
<1>6. ASSUME NEW n, Answers(o, n)
      PROVE  host'[o].at # "loading" /\ (\/ host'[o].in = <<n>> /\ host'[o].out = <<>>
                                         \/ host'[o].in = <<>> /\ host'[o].out = <<n>>)
  <2>1. CASE host[o].in = <<n>> /\ host[o].out = <<>>
    <3>1. Tail(<<n>>) = <<>> /\ Head(<<n>>) = n /\ Append(<<>>, n) = <<n>>
      OBVIOUS
    <3>2. QED
      BY <1>1, <1>6, <2>1, <3>1 DEF HostActs, Answers
  <2>2. CASE host[o].in = <<>> /\ host[o].out = <<n>>
    BY <1>1, <1>6, <2>2 DEF HostActs, Answers
  <2>3. QED
    BY <1>6, <2>1, <2>2 DEF Answers
<1>7. ASSUME NEW t \in Threads PROVE PipesOf(t)'
  <2>1. exchange'[t] = exchange[t] /\ PipesOf(t)
    BY <1>2 DEF PipesInv
  <2>2. CASE exchange[t].at \in Working /\ exchange[t].object = o
    <3>1. CASE exchange[t].at = "waking"
      BY <1>5, <2>1, <2>2, <3>1 DEF PipesOf, Starts
    <3>2. CASE exchange[t].at \in {"starting", "peeking", "writing"}
      BY <1>4, <2>1, <2>2, <3>2 DEF PipesOf, Quiet
    <3>3. CASE exchange[t].at = "reading"
      <4>1. Answers(o, exchange[t].request)
        BY <2>1, <2>2, <3>3 DEF PipesOf
      <4>2. QED
        BY <1>6, <2>1, <2>2, <3>3, <4>1 DEF PipesOf, Answers
    <3>4. QED
      BY <2>2, <3>1, <3>2, <3>3 DEF Working
  <2>3. CASE ~(exchange[t].at \in Working /\ exchange[t].object = o)
    <3>1. exchange[t].at \in Working => exchange[t].object \in Objects
      <4>1. exchange[t] \in Exchanges
        BY DEF HostTypes, ExchangesTyped
      <4>2. QED
        BY <4>1, ExchangeFields DEF Working
    <3>2. QED
      BY <1>1, <2>1, <2>3, <3>1, PipesDepend
  <2>4. QED
    BY <2>2, <2>3
<1>8. ASSUME NEW p \in Objects, ioMutex'[p] = Nobody PROVE Quiet(p)'
  <2>1. Quiet(p)
    BY <1>2, <1>8 DEF PipesInv
  <2>2. CASE p = o
    BY <1>4, <2>1, <2>2
  <2>3. CASE p # o
    BY <1>1, <2>1, <2>3 DEF Quiet
  <2>4. QED
    BY <2>2, <2>3
<1>9. QED
  BY <1>3, <1>7, <1>8 DEF PipesInv

-----------------------------------------------------------------------------
(* A plugin is known while the manager may still stop its process.          *)
Known(o) ==
  \/ o \in plugins
  \/ \E l \in Launchers : o \in Hosts!OldOf(l)
  \/ overwritten

Left(o) == host[o] # Hosts!NoHost \/ ioMutex[o] # Nobody

LauncherKnown(l) ==
  /\ task[l].at = "stopping" => task[l].object \in task[l].old /\ ~available[task[l].object]
  /\ task[l].at # "activating" => exchange[l] = Hosts!Out

(* What is not known has no process, and cannot be given one any more.      *)
KnownInv ==
  /\ \A o \in Objects : Left(o) => Known(o)
  /\ \A o \in hostQuery.todo : Known(o) \/ ~available[o]
  /\ \A t \in Threads : exchange[t] # Hosts!Out =>
       Known(exchange[t].object) \/ ~available[exchange[t].object]
  /\ \A l \in Launchers : LauncherKnown(l)

(* KnownInv follows from what a step does to the objects and who knows      *)
(* them.                                                                    *)
LEMMA KnownStays ==
  ASSUME HostTypes, KnownInv,
         \A o \in Objects : available'[o] => available[o],
         \A o \in Objects : Known(o) => Known(o)' \/ (~Left(o)' /\ ~available'[o]),
         \A o \in Objects : Left(o)' => Left(o) \/ Known(o),
         hostQuery'.todo \subseteq hostQuery.todo \cup plugins,
         \A t \in Threads : exchange'[t] # Hosts!Out =>
           \/ exchange[t] # Hosts!Out /\ exchange'[t].object = exchange[t].object
           \/ exchange'[t].object \in plugins \cup hostQuery.todo,
         \A l \in Launchers : LauncherKnown(l)'
  PROVE  KnownInv'
<1>0. hostQuery.todo \subseteq Objects /\ plugins \subseteq Objects
  BY DEF HostTypes, ExchangesTyped, ListTyped
<1>1. ASSUME NEW o \in Objects, Known(o) \/ ~available[o] PROVE Known(o)' \/ ~available'[o]
  BY <1>1
<1>2. ASSUME NEW o \in Objects, Left(o)' PROVE Known(o)'
  BY <1>2 DEF KnownInv
<1>3. ASSUME NEW o \in hostQuery'.todo PROVE Known(o)' \/ ~available'[o]
  <2>1. o \in Objects /\ (Known(o) \/ ~available[o])
    BY <1>0 DEF KnownInv, Known
  <2>2. QED
    BY <1>1, <2>1
<1>4. ASSUME NEW t \in Threads, exchange'[t] # Hosts!Out, NEW o, o = exchange'[t].object
      PROVE  Known(o)' \/ ~available'[o]
  <2>1. CASE exchange[t] # Hosts!Out /\ exchange'[t].object = exchange[t].object
    <3>1. exchange[t] \in Exchanges
      BY DEF HostTypes, ExchangesTyped
    <3>2. o \in Objects /\ (Known(o) \/ ~available[o])
      BY <1>4, <2>1, <3>1, ExchangeFields DEF KnownInv
    <3>3. QED
      BY <1>1, <3>2
  <2>2. CASE o \in plugins \cup hostQuery.todo
    <3>1. o \in Objects /\ (Known(o) \/ ~available[o])
      BY <1>0, <2>2 DEF KnownInv, Known
    <3>2. QED
      BY <1>1, <3>1
  <2>3. QED
    BY <1>4, <2>1, <2>2
<1>5. QED
  BY <1>2, <1>3, <1>4 DEF KnownInv

(* An object stays known while the list and the old objects do.             *)
LEMMA KnownDepends ==
  ASSUME NEW o, Known(o), plugins' = plugins, overwritten' = overwritten,
         \A l \in Launchers : Hosts!OldOf(l) \subseteq Hosts!OldOf(l)'
  PROVE  Known(o)'
BY DEF Known

(* An exchange gives a process only to an object that is known.             *)
LEMMA ExchangeKnown ==
  ASSUME HostTypes, MutexInv, KnownInv, NEW t \in Threads, Hosts!ExchangeStep(t)
  PROVE  KnownInv'
<1> USE DEF Threads, Hosts!Callers
<1> DEFINE o == exchange[t].object
<1>1. /\ exchange[t] # Hosts!Out /\ o \in Objects
      /\ OthersStay(t)
      /\ GivesUp(t) \/ Locks(t) \/ GoesOn(t) \/ Leaves(t)
  BY ExchangeKinds
<1>2. UNCHANGED <<plugins, overwritten, task, hostQuery>>
  BY DEF Hosts!ExchangeStep, Hosts!EnsureProcess, Hosts!StartHost, Hosts!WaitForReady,
         Hosts!Peek, Hosts!WriteRequest, Hosts!ReadAnswer, Hosts!pluginVars, Hosts!taskVars
<1>3. \A p \in Objects : available'[p] => available[p]
  BY <1>1 DEF OthersStay
<1>4. \A p : Known(p) => Known(p)'
  BY <1>2 DEF Known, Hosts!OldOf
<1>5. ASSUME NEW p \in Objects, Left(p)' PROVE Left(p) \/ Known(p)
  <2>1. CASE p # o
    BY <1>1, <1>5, <2>1 DEF OthersStay, Left
  <2>2. CASE p = o
    <3>1. CASE GivesUp(t)
      BY <1>5, <3>1 DEF GivesUp, Left
    <3>2. CASE Locks(t)
      <4>1. available[o]
        BY <3>2 DEF Locks
      <4>2. QED
        BY <1>1, <2>2, <4>1 DEF KnownInv
    <3>3. CASE ~GivesUp(t) /\ ~Locks(t)
      <4>1. Holds(t, o)
        BY <1>1, <3>3 DEF GoesOn, Leaves, Holds, Working
      <4>2. ioMutex[o] # Nobody
        BY <1>1, <4>1, SearchConstants DEF MutexInv
      <4>3. QED
        BY <2>2, <4>2 DEF Left
    <3>4. QED
      BY <3>1, <3>2, <3>3
  <2>3. QED
    BY <2>1, <2>2
<1>6. \A u \in Threads : exchange'[u] # Hosts!Out =>
        exchange[u] # Hosts!Out /\ exchange'[u].object = exchange[u].object
  BY <1>1 DEF OthersStay, GivesUp, Locks, GoesOn, Leaves
<1>7. ASSUME NEW l \in Launchers PROVE LauncherKnown(l)'
  <2>1. task[l] \in Tasks
    BY DEF HostTypes, TasksTyped
  <2>2. LauncherKnown(l) /\ task'[l] = task[l]
    BY <1>2 DEF KnownInv
  <2>3. task[l].at = "stopping" => task[l].object \in Objects
    BY <2>1, TaskFields
  <2>4. exchange[l] = Hosts!Out => exchange'[l] = Hosts!Out
    BY <1>6
  <2>5. QED
    BY <1>3, <2>2, <2>3, <2>4 DEF LauncherKnown
<1>8. QED
  BY <1>2, <1>3, <1>4, <1>5, <1>6, <1>7, KnownStays

(* A host process gives no object to anybody.                               *)
LEMMA HostKnown ==
  ASSUME HostTypes, KnownInv, NEW o \in Objects, Hosts!HostStep(o)
  PROVE  KnownInv'
<1>1. /\ \A p \in Objects : p # o => host'[p] = host[p]
      /\ host[o] # Hosts!NoHost
  BY HostKinds
<1>2. UNCHANGED <<plugins, overwritten, available, ioMutex, exchange, hostQuery, task>>
  BY DEF Hosts!HostStep, Hosts!pluginVars, Hosts!exchangeVars, Hosts!taskVars
<1>3. \A p : Known(p) => Known(p)'
  BY <1>2 DEF Known, Hosts!OldOf
<1>4. \A p \in Objects : Left(p)' => Left(p)
  BY <1>1, <1>2 DEF Left
<1>5. \A l \in Launchers : LauncherKnown(l)'
  BY <1>2 DEF KnownInv, LauncherKnown
<1>6. QED
  BY <1>2, <1>3, <1>4, <1>5, KnownStays

(* The query thread takes what is on the list.                              *)
LEMMA QueryKnown ==
  ASSUME HostTypes, KnownInv, Hosts!BeginQuery \/ Hosts!QueryStep
  PROVE  KnownInv'
<1> USE DEF Threads, Hosts!Callers
<1>1. UNCHANGED <<plugins, overwritten, available, ioMutex, host, task>>
  BY DEF Hosts!BeginQuery, Hosts!QueryStep, Hosts!AskPlugin, Hosts!EndQuery, Hosts!pluginVars,
         Hosts!objectVars, Hosts!taskVars
<1>2. \A p : Known(p) => Known(p)'
  BY <1>1 DEF Known, Hosts!OldOf
<1>3. \A p \in Objects : Left(p)' => Left(p)
  BY <1>1 DEF Left
<1>4. hostQuery \in [at : {"idle", "asking", "exited"}, todo : SUBSET Objects]
  BY DEF HostTypes, ExchangesTyped
<1>5. exchange \in [Threads -> Exchanges]
  BY DEF HostTypes, ExchangesTyped
<1>6. CASE Hosts!BeginQuery \/ Hosts!EndQuery
  <2>1. exchange' = exchange /\ hostQuery'.todo \subseteq hostQuery.todo \cup plugins
    BY <1>4, <1>6 DEF Hosts!BeginQuery, Hosts!EndQuery, Hosts!exchangeVars
  <2>2. \A l \in Launchers : LauncherKnown(l)'
    BY <1>1, <2>1 DEF KnownInv, LauncherKnown
  <2>3. QED
    BY <1>1, <1>2, <1>3, <2>1, <2>2, KnownStays
<1>7. ASSUME NEW t \in Queriers, NEW o \in hostQuery.todo, Hosts!AskPlugin(t, o) PROVE KnownInv'
  <2>1. hostQuery'.todo \subseteq hostQuery.todo
    BY <1>4, <1>7 DEF Hosts!AskPlugin
  <2>2. \A u \in Threads : \/ exchange'[u] = exchange[u]
                           \/ u = t /\ exchange'[u].object = o
    BY <1>5, <1>7 DEF Hosts!AskPlugin
  <2>3. ASSUME NEW l \in Launchers PROVE LauncherKnown(l)'
    <3>1. l # t /\ exchange'[l] = exchange[l]
      BY <2>2, SearchConstants
    <3>2. QED
      BY <1>1, <3>1 DEF KnownInv, LauncherKnown
  <2>4. QED
    BY <1>1, <1>2, <1>3, <2>1, <2>2, <2>3, KnownStays
<1>8. QED
  BY <1>6, <1>7 DEF Hosts!QueryStep

-----------------------------------------------------------------------------
(* What the workers of launchExecutor_ do, by kinds.                        *)
TakesOne(l, w) ==
  /\ task[l] = Hosts!Free /\ tasks # <<>> /\ w = [at |-> Head(tasks)]
  /\ tasks' = Tail(tasks)
  /\ UNCHANGED <<plugins, loads, overwritten, available, host, exchange, failed, messages>>

Reports ==
  \/ failed' = failed /\ messages' \in {messages, Append(messages, "activated")}
  \/ failed' = TRUE /\ messages' \in {messages, Append(messages, "error")}

CarriesOut(l, w) ==
  /\ task[l].at \in {"other", "activate", "activating"}
  /\ \/ /\ w = Hosts!Free /\ exchange' = exchange
        /\ task[l].at = "activating" => exchange[l] = Hosts!Out
     \/ /\ w = [at |-> "activating"] /\ task[l].at # "activating"
        /\ \E o \in plugins : exchange' = [exchange EXCEPT ![l] = [at |-> "locking", object |-> o]]
  /\ Reports
  /\ UNCHANGED <<tasks, plugins, loads, overwritten, available, host>>

Swaps(l, w) ==
  /\ task[l].at = "reload"
  /\ \/ w = Hosts!Free /\ plugins' = plugins
     \/ w = Hosts!Dropping(plugins) /\ plugins' = {}
  /\ UNCHANGED <<tasks, loads, overwritten, available, host, exchange, failed, messages>>

Drops(l, w) ==
  /\ task[l].at = "dropping"
  /\ \/ task[l].old = {} /\ w = [at |-> "installing"] /\ available' = available
     \/ \E o \in task[l].old : /\ w = Hosts!Stopping(task[l].old, o)
                               /\ available' = [available EXCEPT ![o] = FALSE]
  /\ UNCHANGED <<tasks, plugins, loads, overwritten, host, exchange, failed, messages>>

StopsOne(l, w) ==
  LET o == task[l].object
  IN /\ task[l].at = "stopping" /\ ioMutex[o] = Nobody
     /\ host' = [host EXCEPT ![o] = Hosts!NoHost]
     /\ w = Hosts!Dropping(task[l].old \ {o})
     /\ UNCHANGED <<tasks, plugins, loads, overwritten, available, exchange, failed, messages>>

Installs(l, w) ==
  /\ task[l].at = "installing" /\ w = Hosts!Free
  /\ \/ /\ loads' = loads + 1 /\ \E ids \in SUBSET Ids : plugins' = Hosts!Found(ids, loads')
        /\ overwritten' = (overwritten \/ plugins # {})
        /\ failed' = failed /\ messages' \in {messages, Append(messages, "reloaded")}
     \/ /\ UNCHANGED <<plugins, loads, overwritten>>
        /\ failed' = TRUE /\ messages' \in {messages, Append(messages, "error")}
  /\ UNCHANGED <<tasks, available, host, exchange>>

TaskRest ==
  UNCHANGED <<strikes, ioMutex, requests, hostQuery, submitted, others, reloadPending,
              activationPending, ui>>

(* Every step of a launcher is one of six kinds.                            *)
LEMMA TaskKinds ==
  ASSUME HostTypes, NEW l \in Launchers, Hosts!TaskStep(l)
  PROVE  /\ TaskRest
         /\ \E w \in Tasks :
              /\ task' = [task EXCEPT ![l] = w]
              /\ \/ TakesOne(l, w) \/ CarriesOut(l, w) \/ Swaps(l, w) \/ Drops(l, w)
                 \/ StopsOne(l, w) \/ Installs(l, w)
<1> DEFINE Goal(w) == /\ w \in Tasks /\ task' = [task EXCEPT ![l] = w]
                      /\ \/ TakesOne(l, w) \/ CarriesOut(l, w) \/ Swaps(l, w) \/ Drops(l, w)
                         \/ StopsOne(l, w) \/ Installs(l, w)
<1>0. /\ plugins \subseteq Objects /\ task[l] \in Tasks
      /\ tasks \in Seq({"reload", "activate", "other"})
  BY DEF HostTypes, ListTyped, TasksTyped
<1>1. TaskRest
  BY DEF Hosts!TaskStep, Hosts!TakeTask, Hosts!OtherTask, Hosts!Activate, Hosts!Activated,
         Hosts!Swap, Hosts!DropPlugin, Hosts!StopPlugin, Hosts!InstallPlugins, TaskRest,
         Hosts!objectVars, Hosts!exchangeVars, Hosts!boundVars, Hosts!uiVars
<1>2. ASSUME Hosts!TakeTask(l) PROVE \E w : Goal(w)
  <2> DEFINE w == [at |-> Head(tasks)]
  <2>1. /\ task[l] = Hosts!Free /\ tasks # <<>> /\ task' = [task EXCEPT ![l] = w]
        /\ tasks' = Tail(tasks)
        /\ UNCHANGED <<plugins, loads, overwritten, available, host, exchange, failed, messages>>
    BY <1>2 DEF Hosts!TakeTask, Hosts!Works, Hosts!pluginVars, Hosts!objectVars,
                Hosts!exchangeVars, Hosts!uiVars
  <2>2. Head(tasks) \in {"reload", "activate", "other"}
    BY <1>0, <2>1
  <2>3. w \in Tasks
    BY <2>2, TaskStates
  <2>4. TakesOne(l, w)
    BY <2>1 DEF TakesOne
  <2>5. Goal(w)
    BY <2>1, <2>3, <2>4
  <2>6. QED
    BY <2>5
<1>3. ASSUME Hosts!OtherTask(l) \/ Hosts!Activate(l) \/ Hosts!Activated(l)
      PROVE \E w : Goal(w)
  <2>1. UNCHANGED <<tasks, plugins, loads, overwritten, available, host>>
    BY <1>3 DEF Hosts!OtherTask, Hosts!Activate, Hosts!Activated, Hosts!pluginVars,
                Hosts!objectVars
  <2>2. ASSUME Hosts!Throws(l)
        PROVE  task' = [task EXCEPT ![l] = Hosts!Free] /\ Reports
    BY <2>2 DEF Hosts!Throws, Hosts!Ends, Hosts!Works, Hosts!Post, Reports
  <2>3. ASSUME Hosts!Ends(l, "activated"), failed' = failed
        PROVE  task' = [task EXCEPT ![l] = Hosts!Free] /\ Reports
    BY <2>3 DEF Hosts!Ends, Hosts!Works, Hosts!Post, Reports
  <2>4. ASSUME Hosts!Works(l, Hosts!Free), failed' = failed, messages' = messages
        PROVE  task' = [task EXCEPT ![l] = Hosts!Free] /\ Reports
    BY <2>4 DEF Hosts!Works, Reports
  <2>5. ASSUME task' = [task EXCEPT ![l] = Hosts!Free] /\ Reports, exchange' = exchange,
               task[l].at \in {"other", "activate", "activating"},
               task[l].at = "activating" => exchange[l] = Hosts!Out
        PROVE  \E w : Goal(w)
    <3>1. CarriesOut(l, Hosts!Free)
      BY <2>1, <2>5 DEF CarriesOut
    <3>2. Goal(Hosts!Free)
      BY <2>5, <3>1, TaskStates
    <3>3. QED
      BY <3>2
  <2>6. CASE Hosts!OtherTask(l)
    <3>1. /\ task[l].at = "other" /\ exchange' = exchange
          /\ \/ Hosts!Works(l, Hosts!Free) /\ messages' = messages /\ failed' = failed
             \/ Hosts!Throws(l)
      BY <2>6 DEF Hosts!OtherTask, Hosts!exchangeVars
    <3>2. QED
      BY <2>2, <2>4, <2>5, <3>1
  <2>7. CASE Hosts!Activated(l)
    <3>1. /\ task[l].at = "activating" /\ exchange[l] = Hosts!Out /\ exchange' = exchange
          /\ Hosts!Ends(l, "activated") /\ failed' = failed
      BY <2>7 DEF Hosts!Activated, Hosts!exchangeVars
    <3>2. QED
      BY <2>3, <2>5, <3>1
  <2>8. CASE Hosts!Activate(l)
    <3>1. /\ task[l].at = "activate"
          /\ \/ Hosts!Works(l, Hosts!Free) /\ UNCHANGED <<exchange, messages, failed>>
             \/ Hosts!Ends(l, "activated") /\ UNCHANGED <<exchange, failed>>
             \/ /\ Hosts!Works(l, [at |-> "activating"])
                /\ \E o \in plugins :
                     exchange' = [exchange EXCEPT ![l] = [at |-> "locking", object |-> o]]
                /\ UNCHANGED <<messages, failed>>
             \/ Hosts!Throws(l) /\ UNCHANGED exchange
      BY <2>8 DEF Hosts!Activate
    <3>2. CASE /\ Hosts!Works(l, [at |-> "activating"])
               /\ \E o \in plugins :
                    exchange' = [exchange EXCEPT ![l] = [at |-> "locking", object |-> o]]
               /\ UNCHANGED <<messages, failed>>
      <4> DEFINE w == [at |-> "activating"]
      <4>1. CarriesOut(l, w)
        BY <2>1, <3>1, <3>2 DEF CarriesOut, Reports
      <4>2. w \in Tasks /\ task' = [task EXCEPT ![l] = w]
        BY <3>2, TaskStates DEF Hosts!Works
      <4>3. Goal(w)
        BY <4>1, <4>2
      <4>4. QED
        BY <4>3
    <3>3. QED
      BY <2>2, <2>3, <2>4, <2>5, <3>1, <3>2
  <2>9. QED
    BY <1>3, <2>6, <2>7, <2>8
<1>4. ASSUME Hosts!Swap(l) PROVE \E w : Goal(w)
  <2>1. /\ task[l].at = "reload"
        /\ UNCHANGED <<tasks, loads, overwritten, available, host, exchange, failed, messages>>
        /\ \/ task' = [task EXCEPT ![l] = Hosts!Free] /\ plugins' = plugins
           \/ task' = [task EXCEPT ![l] = Hosts!Dropping(plugins)] /\ plugins' = {}
    BY <1>4 DEF Hosts!Swap, Hosts!Works, Hosts!objectVars, Hosts!exchangeVars, Hosts!uiVars
  <2>2. Hosts!Free \in Tasks /\ Hosts!Dropping(plugins) \in Tasks
    BY <1>0, TaskStates
  <2>3. Goal(Hosts!Free) \/ Goal(Hosts!Dropping(plugins))
    BY <2>1, <2>2 DEF Swaps
  <2>4. QED
    BY <2>3
<1>5. ASSUME Hosts!DropPlugin(l) PROVE \E w : Goal(w)
  <2>1. /\ task[l].at = "dropping"
        /\ UNCHANGED <<tasks, plugins, loads, overwritten, host, exchange, failed, messages>>
    BY <1>5 DEF Hosts!DropPlugin, Hosts!pluginVars, Hosts!exchangeVars, Hosts!uiVars
  <2>2. CASE task[l].old = {} /\ Hosts!Works(l, [at |-> "installing"]) /\ available' = available
    <3>1. Goal([at |-> "installing"])
      BY <2>1, <2>2, TaskStates DEF Drops, Hosts!Works
    <3>2. QED
      BY <3>1
  <2>3. ASSUME NEW o \in task[l].old, Hosts!Works(l, Hosts!Stopping(task[l].old, o)),
               available' = [available EXCEPT ![o] = FALSE]
        PROVE  \E w : Goal(w)
    <3>1. task[l].old \subseteq Objects /\ o \in Objects
      BY <1>0, <2>1, <2>3, TaskFields
    <3>2. Goal(Hosts!Stopping(task[l].old, o))
      BY <2>1, <2>3, <3>1, TaskStates DEF Drops, Hosts!Works
    <3>3. QED
      BY <3>2
  <2>4. QED
    BY <1>5, <2>2, <2>3 DEF Hosts!DropPlugin
<1>6. ASSUME Hosts!StopPlugin(l) PROVE \E w : Goal(w)
  <2> DEFINE w == Hosts!Dropping(task[l].old \ {task[l].object})
  <2>1. StopsOne(l, w) /\ task' = [task EXCEPT ![l] = w]
    BY <1>6 DEF Hosts!StopPlugin, Hosts!MayStop, Hosts!StopProcess, Hosts!Works, StopsOne,
                Hosts!pluginVars, Hosts!exchangeVars, Hosts!uiVars
  <2>2. w \in Tasks
    <3>1. task[l].old \ {task[l].object} \subseteq Objects
      BY <1>0, <2>1, TaskFields DEF StopsOne
    <3>2. QED
      BY <3>1, TaskStates
  <2>3. Goal(w)
    BY <2>1, <2>2
  <2>4. QED
    BY <2>3
<1>7. ASSUME Hosts!InstallPlugins(l) PROVE \E w : Goal(w)
  <2>1. Installs(l, Hosts!Free) /\ task' = [task EXCEPT ![l] = Hosts!Free]
    BY <1>7 DEF Hosts!InstallPlugins, Hosts!Ends, Hosts!Throws, Hosts!Post, Hosts!Works, Installs,
                Hosts!pluginVars, Hosts!objectVars, Hosts!exchangeVars
  <2>2. Goal(Hosts!Free)
    BY <2>1, TaskStates
  <2>3. QED
    BY <2>2
<1>8. QED
  BY <1>1, <1>2, <1>3, <1>4, <1>5, <1>6, <1>7 DEF Hosts!TaskStep

(* The old objects of a task that has none.                                 *)
LEMMA OldFields ==
  ASSUME NEW w \in Tasks
  PROVE  /\ w.at \notin {"dropping", "stopping"} =>
              (IF w.at \in {"dropping", "stopping"} THEN w.old ELSE {}) = {}
         /\ Hosts!Free.at = "idle" /\ [at |-> "activating"].at = "activating"
         /\ [at |-> "installing"].at = "installing"
BY DEF Hosts!Free

(* One worker goes on, the others stay.                                     *)
LEMMA WorkGoesOn ==
  ASSUME HostTypes, NEW l \in Launchers, NEW w \in Tasks, task' = [task EXCEPT ![l] = w]
  PROVE  /\ task'[l] = w /\ \A m \in Launchers : m # l => task'[m] = task[m]
         /\ Hosts!OldOf(l)' = IF w.at \in {"dropping", "stopping"} THEN w.old ELSE {}
         /\ \A m \in Launchers : m # l => Hosts!OldOf(m)' = Hosts!OldOf(m)
BY DEF HostTypes, TasksTyped, Hosts!OldOf

(* A reload stops every old object before it forgets it.                    *)
LEMMA TaskKnown ==
  ASSUME HostTypes, MutexInv, KnownInv, NEW l \in Launchers, Hosts!TaskStep(l)
  PROVE  KnownInv'
<1> USE DEF Threads, Hosts!Callers
<1>1. UNCHANGED <<ioMutex, hostQuery>>
  BY TaskKinds DEF TaskRest
<1>2. PICK w \in Tasks :
        /\ task' = [task EXCEPT ![l] = w]
        /\ \/ TakesOne(l, w) \/ CarriesOut(l, w) \/ Swaps(l, w) \/ Drops(l, w)
           \/ StopsOne(l, w) \/ Installs(l, w)
  BY TaskKinds
<1>3. /\ task'[l] = w /\ \A m \in Launchers : m # l => task'[m] = task[m]
      /\ Hosts!OldOf(l)' = IF w.at \in {"dropping", "stopping"} THEN w.old ELSE {}
      /\ \A m \in Launchers : m # l => Hosts!OldOf(m)' = Hosts!OldOf(m)
  BY <1>2, WorkGoesOn
<1>4. /\ task[l] \in Tasks /\ plugins \subseteq Objects
      /\ available \in [Objects -> BOOLEAN] /\ host \in [Objects -> Processes]
      /\ exchange \in [Threads -> Exchanges]
      /\ \A m \in Launchers : task[m] \in Tasks
  BY DEF HostTypes, TasksTyped, ListTyped, ObjectsTyped, ExchangesTyped
<1>5. \A m \in Launchers : LauncherKnown(m)
  BY DEF KnownInv
<1>6. ASSUME \A o \in Objects : available'[o] => available[o], exchange' = exchange,
             w.at # "activating", task[l].at # "activating",
             w.at = "stopping" => w.object \in w.old /\ ~available'[w.object]
      PROVE  \A m \in Launchers : LauncherKnown(m)'
  <2>1. LauncherKnown(l)'
    BY <1>3, <1>5, <1>6 DEF LauncherKnown
  <2>2. ASSUME NEW m \in Launchers, m # l PROVE LauncherKnown(m)'
    <3>1. task'[m] = task[m] /\ (task[m].at = "stopping" => task[m].object \in Objects)
      BY <1>3, <1>4, <2>2, TaskFields
    <3>2. QED
      BY <1>5, <1>6, <3>1 DEF LauncherKnown
  <2>3. QED
    BY <2>1, <2>2
<1>7. ASSUME w.at \notin {"dropping", "stopping"}, task[l].at \notin {"dropping", "stopping"},
             UNCHANGED <<plugins, overwritten, available, host>>
      PROVE  /\ \A o : Known(o) => Known(o)'
             /\ \A o \in Objects : available'[o] => available[o]
             /\ \A o \in Objects : Left(o)' => Left(o)
  <2>1. Hosts!OldOf(l) = {}
    BY <1>7 DEF Hosts!OldOf
  <2>2. \A m \in Launchers : Hosts!OldOf(m) \subseteq Hosts!OldOf(m)'
    BY <1>3, <2>1
  <2>3. QED
    BY <1>1, <1>7, <2>2, KnownDepends DEF Left
<1>8. CASE TakesOne(l, w)
  <2>1. /\ w.at \notin {"dropping", "stopping", "activating"} /\ task[l].at = "idle"
        /\ UNCHANGED <<plugins, overwritten, available, host, exchange>>
    <3>1. tasks # <<>> /\ tasks \in Seq({"reload", "activate", "other"}) /\ w.at = Head(tasks)
      BY <1>8 DEF TakesOne, HostTypes, TasksTyped
    <3>2. Head(tasks) \in {"reload", "activate", "other"}
      BY <3>1
    <3>3. QED
      BY <1>8, <3>1, <3>2 DEF TakesOne, Hosts!Free
  <2>2. QED
    BY <1>1, <1>6, <1>7, <2>1, KnownStays
<1>9. CASE CarriesOut(l, w)
  <2>1. /\ task[l].at \in {"other", "activate", "activating"} /\ w.at \in {"idle", "activating"}
        /\ UNCHANGED <<plugins, overwritten, available, host>>
    BY <1>9, OldFields DEF CarriesOut
  <2>2. CASE w = Hosts!Free
    <3>1. exchange' = exchange /\ (task[l].at = "activating" => exchange[l] = Hosts!Out)
      BY <1>9, <2>2 DEF CarriesOut, Hosts!Free
    <3>2. LauncherKnown(l)'
      BY <1>3, <1>5, <2>2, <3>1, OldFields DEF LauncherKnown
    <3>3. \A m \in Launchers : m # l => LauncherKnown(m)'
      BY <1>3, <1>5, <2>1, <3>1 DEF LauncherKnown
    <3>4. QED
      BY <1>1, <1>7, <2>1, <3>1, <3>2, <3>3, KnownStays
  <2>3. CASE w # Hosts!Free
    <3>1. w.at = "activating"
      BY <1>9, <2>3 DEF CarriesOut
    <3>2. PICK o \in plugins : exchange' = [exchange EXCEPT ![l] = [at |-> "locking", object |-> o]]
      BY <1>9, <2>3 DEF CarriesOut
    <3>3. /\ exchange'[l].object = o /\ \A u \in Threads : u # l => exchange'[u] = exchange[u]
      BY <1>4, <3>2
    <3>4. LauncherKnown(l)'
      BY <1>3, <3>1 DEF LauncherKnown
    <3>5. \A m \in Launchers : m # l => LauncherKnown(m)'
      BY <1>3, <1>5, <2>1, <3>3 DEF LauncherKnown
    <3>6. \A t \in Threads : exchange'[t] # Hosts!Out =>
            \/ exchange[t] # Hosts!Out /\ exchange'[t].object = exchange[t].object
            \/ exchange'[t].object \in plugins \cup hostQuery.todo
      BY <3>3
    <3>7. QED
      BY <1>1, <1>7, <2>1, <3>4, <3>5, <3>6, KnownStays
  <2>4. QED
    BY <2>2, <2>3
<1>10. CASE Swaps(l, w)
  <2>1. /\ task[l].at = "reload" /\ UNCHANGED <<overwritten, available, host, exchange>>
        /\ w.at \in {"idle", "dropping"}
    BY <1>4, <1>10, TaskStates DEF Swaps
  <2>2. \A o \in Objects : Known(o) => Known(o)'
    <3>1. CASE plugins' = plugins
      BY <1>3, <2>1, <3>1 DEF Known, Hosts!OldOf
    <3>2. CASE w = Hosts!Dropping(plugins)
      <4>1. Hosts!OldOf(l)' = plugins /\ Hosts!OldOf(l) = {}
        BY <1>3, <1>4, <2>1, <3>2, TaskStates DEF Hosts!OldOf
      <4>2. QED
        BY <1>3, <2>1, <4>1 DEF Known
    <3>3. QED
      BY <1>10, <3>1, <3>2 DEF Swaps
  <2>3. \A o \in Objects : Left(o)' => Left(o)
    BY <1>1, <2>1 DEF Left
  <2>4. QED
    BY <1>1, <1>6, <2>1, <2>2, <2>3, KnownStays
<1>11. CASE Drops(l, w)
  <2>1. /\ task[l].at = "dropping" /\ UNCHANGED <<plugins, overwritten, host, exchange>>
        /\ task[l].old \subseteq Objects
    BY <1>4, <1>11, TaskFields DEF Drops
  <2>2. /\ w.at \in {"installing", "stopping"}
        /\ w.at = "stopping" => w.object \in w.old /\ ~available'[w.object]
        /\ \A o \in Objects : available'[o] => available[o]
        /\ Hosts!OldOf(l) \subseteq Hosts!OldOf(l)'
    <3>1. CASE task[l].old = {} /\ w = [at |-> "installing"] /\ available' = available
      BY <2>1, <3>1 DEF Hosts!OldOf
    <3>2. ASSUME NEW o \in task[l].old, w = Hosts!Stopping(task[l].old, o),
                 available' = [available EXCEPT ![o] = FALSE]
          PROVE  /\ w.at = "stopping" /\ w.object \in w.old /\ ~available'[w.object]
                 /\ \A p \in Objects : available'[p] => available[p]
                 /\ Hosts!OldOf(l) \subseteq Hosts!OldOf(l)'
      <4>1. w.at = "stopping" /\ w.old = task[l].old /\ w.object = o
        BY <2>1, <3>2, TaskStates
      <4>2. QED
        BY <1>3, <1>4, <2>1, <3>2, <4>1 DEF Hosts!OldOf
    <3>3. QED
      BY <1>11, <3>1, <3>2 DEF Drops
  <2>3. \A o : Known(o) => Known(o)'
    BY <1>3, <2>1, <2>2, KnownDepends
  <2>4. \A o \in Objects : Left(o)' => Left(o)
    BY <1>1, <2>1 DEF Left
  <2>5. QED
    BY <1>1, <1>6, <2>1, <2>2, <2>3, <2>4, KnownStays
<1>12. ASSUME StopsOne(l, w), NEW o, o = task[l].object PROVE KnownInv'
  <2>1. /\ task[l].at = "stopping" /\ ioMutex[o] = Nobody
        /\ host' = [host EXCEPT ![o] = Hosts!NoHost]
        /\ w = Hosts!Dropping(task[l].old \ {o})
        /\ UNCHANGED <<plugins, overwritten, available, exchange>>
    BY <1>12 DEF StopsOne
  <2>2. o \in Objects /\ task[l].old \subseteq Objects /\ ~available[o]
    BY <1>4, <1>5, <1>12, <2>1, TaskFields DEF LauncherKnown
  <2>3. w.at = "dropping" /\ w.old = task[l].old \ {o}
    <3>1. task[l].old \ {o} \subseteq Objects
      BY <2>2
    <3>2. QED
      BY <2>1, <3>1, TaskStates
  <2>4. ~Left(o)' /\ \A p \in Objects : Left(p)' => Left(p)
    BY <1>1, <1>4, <2>1, <2>2 DEF Left
  <2>5. ASSUME NEW p \in Objects, Known(p), p # o PROVE Known(p)'
    <3>1. p \in Hosts!OldOf(l) => p \in Hosts!OldOf(l)'
      BY <1>3, <2>1, <2>3, <2>5 DEF Hosts!OldOf
    <3>2. QED
      BY <1>3, <2>1, <2>5, <3>1 DEF Known
  <2>6. QED
    BY <1>1, <1>6, <2>1, <2>2, <2>3, <2>4, <2>5, KnownStays
<1>13. CASE Installs(l, w)
  <2>1. /\ task[l].at = "installing" /\ w.at = "idle"
        /\ UNCHANGED <<available, host, exchange>>
        /\ \/ overwritten' = (overwritten \/ plugins # {})
           \/ UNCHANGED <<plugins, overwritten>>
    BY <1>13, OldFields DEF Installs
  <2>2. \A m \in Launchers : Hosts!OldOf(m) \subseteq Hosts!OldOf(m)'
    BY <1>3, <2>1 DEF Hosts!OldOf
  <2>3. \A o \in Objects : Known(o) => Known(o)'
    BY <2>1, <2>2 DEF Known
  <2>4. \A o \in Objects : Left(o)' => Left(o)
    BY <1>1, <2>1 DEF Left
  <2>5. QED
    BY <1>1, <1>6, <2>1, <2>3, <2>4, KnownStays
<1>14. QED
  BY <1>2, <1>8, <1>9, <1>10, <1>11, <1>12, <1>13

(* A reload leaves the exchanges of others alone.                           *)
LEMMA TaskPipes ==
  ASSUME HostTypes, MutexInv, PipesInv, KnownInv, NEW l \in Launchers, Hosts!TaskStep(l)
  PROVE  MutexInv' /\ PipesInv'
<1> USE DEF Threads, Hosts!Callers
<1>1. UNCHANGED <<ioMutex, hostQuery>>
  BY TaskKinds DEF TaskRest
<1>2. PICK w \in Tasks :
        /\ task' = [task EXCEPT ![l] = w]
        /\ \/ TakesOne(l, w) \/ CarriesOut(l, w) \/ Swaps(l, w) \/ Drops(l, w)
           \/ StopsOne(l, w) \/ Installs(l, w)
  BY TaskKinds
<1>3. CASE StopsOne(l, w)
  <2>1. task[l] \in Tasks /\ host \in [Objects -> Processes]
    BY DEF HostTypes, TasksTyped, ObjectsTyped
  <2>2. task[l].object \in Objects
    BY <1>3, <2>1, TaskFields DEF StopsOne
  <2>3. /\ exchange' = exchange
        /\ \A o \in Objects : \/ host'[o] = host[o]
                              \/ ioMutex[o] = Nobody /\ host'[o] = Hosts!NoHost
    BY <1>3, <2>1, <2>2 DEF StopsOne
  <2>4. QED
    BY <1>1, <2>3, PipesStopped
<1>4. CASE CarriesOut(l, w)
  <2>1. host' = host /\ exchange \in [Threads -> Exchanges]
    BY <1>4 DEF CarriesOut, HostTypes, ExchangesTyped
  <2>2. CASE exchange' = exchange
    BY <1>1, <2>1, <2>2, PipesRest
  <2>3. CASE exchange' # exchange
    <3>1. /\ task[l].at \in {"other", "activate"}
          /\ \E o \in plugins :
               exchange' = [exchange EXCEPT ![l] = [at |-> "locking", object |-> o]]
      BY <1>4, <2>3 DEF CarriesOut
    <3>2. exchange[l] = Hosts!Out /\ exchange[l].at \notin Working
      BY <3>1 DEF KnownInv, LauncherKnown, Hosts!Out, Working
    <3>3. exchange'[l].at \notin Working /\ \A t \in Threads : t # l => exchange'[t] = exchange[t]
      BY <2>1, <3>1 DEF Working
    <3>4. QED
      BY <1>1, <2>1, <3>2, <3>3, PipesRest
  <2>4. QED
    BY <2>2, <2>3
<1>5. CASE TakesOne(l, w) \/ Swaps(l, w) \/ Drops(l, w) \/ Installs(l, w)
  <2>1. UNCHANGED <<host, exchange>>
    BY <1>5 DEF TakesOne, Swaps, Drops, Installs
  <2>2. QED
    BY <1>1, <2>1, PipesRest
<1>6. QED
  BY <1>2, <1>3, <1>4, <1>5

(* A query asks no host before the exchange it starts.                      *)
LEMMA QueryPipes ==
  ASSUME HostTypes, MutexInv, PipesInv, Hosts!BeginQuery \/ Hosts!QueryStep
  PROVE  MutexInv' /\ PipesInv'
<1> USE DEF Threads, Hosts!Callers
<1>1. UNCHANGED <<ioMutex, host>> /\ exchange \in [Threads -> Exchanges]
  BY DEF Hosts!BeginQuery, Hosts!QueryStep, Hosts!AskPlugin, Hosts!EndQuery, Hosts!objectVars,
         HostTypes, ExchangesTyped
<1>2. CASE Hosts!BeginQuery \/ Hosts!EndQuery
  <2>1. exchange' = exchange
    BY <1>2 DEF Hosts!BeginQuery, Hosts!EndQuery, Hosts!exchangeVars
  <2>2. QED
    BY <1>1, <2>1, PipesRest
<1>3. ASSUME NEW t \in Queriers, NEW o \in hostQuery.todo, Hosts!AskPlugin(t, o)
      PROVE  MutexInv' /\ PipesInv'
  <2>1. /\ exchange[t].at \notin Working
        /\ \/ exchange' = exchange
           \/ exchange' = [exchange EXCEPT ![t] = [at |-> "locking", object |-> o]]
    BY <1>3 DEF Hosts!AskPlugin, Hosts!Out, Working
  <2>2. \A u \in Threads : \/ exchange'[u] = exchange[u]
                           \/ exchange[u].at \notin Working /\ exchange'[u].at \notin Working
    BY <1>1, <2>1 DEF Working
  <2>3. QED
    BY <1>1, <2>2, PipesRest
<1>4. QED
  BY <1>2, <1>3 DEF Hosts!QueryStep

-----------------------------------------------------------------------------
(* What the UI thread does.                                                 *)
UiStep ==
  \/ Hosts!StartExtensionReload \/ Hosts!ActivateExtension \/ Hosts!SubmitOther \/ Hosts!OnMessage
  \/ Hosts!StopLaunches \/ Hosts!StopQueries

(* The UI thread touches no process.                                        *)
LEMMA UiLeavesHosts ==
  ASSUME UiStep
  PROVE  /\ UNCHANGED <<plugins, loads, overwritten, available, strikes, ioMutex, host>>
         /\ UNCHANGED <<exchange, requests, hostQuery, task, failed>>
BY DEF UiStep, Hosts!StartExtensionReload, Hosts!ActivateExtension, Hosts!SubmitOther,
       Hosts!OnMessage, Hosts!StopLaunches, Hosts!StopQueries, Hosts!pluginVars,
       Hosts!objectVars, Hosts!exchangeVars, Hosts!taskVars

(* A step that leaves the processes alone keeps what is said of them.       *)
LEMMA HostsLeft ==
  ASSUME HostTypes, MutexInv, PipesInv, KnownInv,
         UNCHANGED <<plugins, overwritten, available, ioMutex, host, exchange, hostQuery, task>>
  PROVE  MutexInv' /\ PipesInv' /\ KnownInv'
<1>1. MutexInv' /\ PipesInv'
  BY PipesRest
<1>2. \A o : (Known(o) => Known(o)') /\ (Left(o)' => Left(o))
  BY DEF Known, Left, Hosts!OldOf
<1>3. \A l \in Launchers : LauncherKnown(l)'
  BY DEF KnownInv, LauncherKnown
<1>4. KnownInv'
  BY <1>2, <1>3, KnownStays
<1>5. QED
  BY <1>1, <1>4

(* The destructor of the manager stops the plugins of its list.             *)
LEMMA StopHostsKeeps ==
  ASSUME HostTypes, MutexInv, PipesInv, KnownInv, Hosts!StopHosts
  PROVE  MutexInv' /\ PipesInv' /\ KnownInv'
<1>1. /\ UNCHANGED <<overwritten, ioMutex, exchange, hostQuery, task>>
      /\ plugins' = {} /\ \A o \in plugins : ioMutex[o] = Nobody
      /\ available' = [o \in Objects |-> available[o] /\ o \notin plugins]
      /\ host' = [o \in Objects |-> IF o \in plugins THEN Hosts!NoHost ELSE host[o]]
  BY DEF Hosts!StopHosts, Hosts!exchangeVars, Hosts!taskVars, Objects
<1>2. plugins \subseteq Objects
  BY DEF HostTypes, ListTyped
<1>3. \A o \in Objects : \/ host'[o] = host[o]
                         \/ ioMutex[o] = Nobody /\ host'[o] = Hosts!NoHost
  BY <1>1
<1>4. MutexInv' /\ PipesInv'
  BY <1>1, <1>3, PipesStopped
<1>5. \A o \in Objects : available'[o] => available[o]
  BY <1>1
<1>6. ASSUME NEW o \in Objects, Known(o) PROVE Known(o)' \/ (~Left(o)' /\ ~available'[o])
  <2>1. CASE o \in plugins
    BY <1>1, <2>1 DEF Left
  <2>2. CASE o \notin plugins
    BY <1>1, <1>6, <2>2 DEF Known, Hosts!OldOf
  <2>3. QED
    BY <2>1, <2>2
<1>7. \A o \in Objects : Left(o)' => Left(o)
  BY <1>1, <1>3 DEF Left
<1>8. ASSUME NEW l \in Launchers PROVE LauncherKnown(l)'
  <2>1. task[l] \in Tasks /\ LauncherKnown(l)
    BY DEF HostTypes, TasksTyped, KnownInv
  <2>2. task[l].at = "stopping" => task[l].object \in Objects
    BY <2>1, TaskFields
  <2>3. QED
    BY <1>1, <1>5, <2>1, <2>2 DEF LauncherKnown
<1>9. QED
  BY <1>1, <1>4, <1>5, <1>6, <1>7, <1>8, KnownStays

(* Every step keeps what is said of mutexes, pipes and processes.           *)
LEMMA HostsKept ==
  ASSUME HostTypes, MutexInv, PipesInv, KnownInv, Hosts!Next
  PROVE  MutexInv' /\ PipesInv' /\ KnownInv'
<1>1. ASSUME NEW t \in Threads, Hosts!ExchangeStep(t)
      PROVE  MutexInv' /\ PipesInv' /\ KnownInv'
  BY <1>1, ExchangeMutex, ExchangePipes, ExchangeKnown
<1>2. ASSUME NEW o \in Objects, Hosts!HostStep(o)
      PROVE  MutexInv' /\ PipesInv' /\ KnownInv'
  BY <1>2, HostPipes, HostKnown
<1>3. CASE Hosts!BeginQuery \/ Hosts!QueryStep
  BY <1>3, QueryPipes, QueryKnown
<1>4. ASSUME NEW l \in Launchers, Hosts!TaskStep(l)
      PROVE  MutexInv' /\ PipesInv' /\ KnownInv'
  BY <1>4, TaskPipes, TaskKnown
<1>5. CASE UiStep
  BY <1>5, UiLeavesHosts, HostsLeft
<1>6. CASE Hosts!StopHosts
  BY <1>6, StopHostsKeeps
<1>7. QED
  BY <1>1, <1>2, <1>3, <1>4, <1>5, <1>6 DEF Hosts!Next, Hosts!Shutdown, UiStep, Threads, Objects

-----------------------------------------------------------------------------
(* Queues: whether something is in one, and once only.                      *)
Has(q, m)  == \E i \in 1 .. Len(q) : q[i] = m
Once(q, m) == \A i, j \in 1 .. Len(q) : q[i] = m /\ q[j] = m => i = j

(* What a queue holds after an append.                                      *)
LEMMA AppendHas ==
  ASSUME NEW S, NEW q \in Seq(S), NEW x, NEW m
  PROVE  /\ Has(Append(q, x), m) <=> Has(q, m) \/ x = m
         /\ Once(q, m) /\ (x = m => ~Has(q, m)) => Once(Append(q, x), m)
<1>1. /\ Len(Append(q, x)) = Len(q) + 1 /\ Len(q) \in Nat
      /\ Append(q, x)[Len(q) + 1] = x
      /\ \A i \in 1 .. Len(q) : Append(q, x)[i] = q[i]
  OBVIOUS
<1>2. Has(Append(q, x), m) => Has(q, m) \/ x = m
  BY <1>1 DEF Has
<1>3. Has(q, m) => Has(Append(q, x), m)
  <2>1. ASSUME NEW i \in 1 .. Len(q), q[i] = m PROVE Has(Append(q, x), m)
    <3>1. i \in 1 .. Len(q) + 1 /\ Append(q, x)[i] = m
      BY <1>1, <2>1
    <3>2. QED
      BY <1>1, <3>1 DEF Has
  <2>2. QED
    BY <2>1 DEF Has
<1>4. x = m => Has(Append(q, x), m)
  <2>1. Len(q) + 1 \in 1 .. Len(q) + 1
    BY <1>1
  <2>2. QED
    BY <1>1, <2>1 DEF Has
<1>5. ASSUME Once(q, m), x = m => ~Has(q, m) PROVE Once(Append(q, x), m)
  <2> SUFFICES ASSUME NEW i \in 1 .. Len(q) + 1, NEW j \in 1 .. Len(q) + 1,
                      Append(q, x)[i] = m, Append(q, x)[j] = m
      PROVE  i = j
    BY <1>1 DEF Once
  <2>1. \A k \in 1 .. Len(q) + 1 : k \in 1 .. Len(q) \/ k = Len(q) + 1
    BY <1>1
  <2>2. CASE i \in 1 .. Len(q) /\ j \in 1 .. Len(q)
    BY <1>1, <1>5, <2>2 DEF Once
  <2>3. CASE ~(i \in 1 .. Len(q) /\ j \in 1 .. Len(q))
    <3>1. CASE x = m
      <4>1. i \notin 1 .. Len(q) /\ j \notin 1 .. Len(q)
        BY <1>1, <1>5, <3>1 DEF Has
      <4>2. QED
        BY <2>1, <4>1
    <3>2. CASE x # m
      <4>1. i # Len(q) + 1 /\ j # Len(q) + 1
        BY <1>1, <3>2
      <4>2. QED
        BY <2>1, <2>3, <4>1
    <3>3. QED
      BY <3>1, <3>2
  <2>4. QED
    BY <2>2, <2>3
<1>6. QED
  BY <1>2, <1>3, <1>4, <1>5

(* What a queue holds without its head.                                     *)
LEMMA TailHas ==
  ASSUME NEW S, NEW q \in Seq(S), q # <<>>, NEW m
  PROVE  /\ Has(Tail(q), m) => Has(q, m)
         /\ Head(q) = m => Has(q, m)
         /\ Has(q, m) => Head(q) = m \/ Has(Tail(q), m)
         /\ Once(q, m) => Once(Tail(q), m)
         /\ Once(q, m) /\ Head(q) = m => ~Has(Tail(q), m)
<1>1. /\ Len(q) \in Nat /\ Len(q) >= 1 /\ Len(Tail(q)) = Len(q) - 1 /\ Head(q) = q[1]
      /\ \A i \in 1 .. Len(Tail(q)) : Tail(q)[i] = q[i + 1]
  BY Z3
<1>2. \A i \in 1 .. Len(Tail(q)) : i + 1 \in 1 .. Len(q) /\ i + 1 # 1
  BY <1>1
<1>3. 1 \in 1 .. Len(q)
  BY <1>1
<1>4. Has(Tail(q), m) => Has(q, m)
  BY <1>1, <1>2 DEF Has
<1>5. Head(q) = m => Has(q, m)
  BY <1>1, <1>3 DEF Has
<1>6. ASSUME Once(q, m) PROVE Once(Tail(q), m)
  <2> SUFFICES ASSUME NEW i \in 1 .. Len(Tail(q)), NEW j \in 1 .. Len(Tail(q)),
                      Tail(q)[i] = m, Tail(q)[j] = m
      PROVE  i = j
    BY DEF Once
  <2>1. i + 1 = j + 1
    BY <1>1, <1>2, <1>6 DEF Once
  <2>2. QED
    BY <2>1
<1>7. ASSUME Once(q, m), Head(q) = m PROVE ~Has(Tail(q), m)
  BY <1>1, <1>2, <1>3, <1>7 DEF Once, Has
<1>8. ASSUME Has(q, m), Head(q) # m PROVE Has(Tail(q), m)
  <2>1. PICK i \in 1 .. Len(q) : q[i] = m
    BY <1>8 DEF Has
  <2>2. i # 1
    BY <1>1, <1>8, <2>1
  <2>3. i - 1 \in 1 .. Len(Tail(q)) /\ (i - 1) + 1 = i
    BY <1>1, <2>2
  <2>4. Tail(q)[i - 1] = m
    BY <1>1, <2>1, <2>3
  <2>5. QED
    BY <2>3, <2>4 DEF Has
<1>9. QED
  BY <1>4, <1>5, <1>6, <1>7, <1>8

(* The reloads that wait, counted from the end of the queue.                *)
Counts(f, q) ==
  /\ f \in [1 .. Len(q) + 1 -> Nat] /\ f[Len(q) + 1] = 0
  /\ \A i \in 1 .. Len(q) : f[i] = IF q[i] = "reload" THEN f[i + 1] + 1 ELSE f[i + 1]

(* The empty queue holds no reload.                                         *)
LEMMA CountsNothing ==
  \E f : Counts(f, <<>>) /\ f[1] = 0
<1> DEFINE f == [i \in 1 .. 1 |-> 0]
<1>1. Len(<<>>) = 0
  OBVIOUS
<1>2. Counts(f, <<>>) /\ f[1] = 0
  BY <1>1 DEF Counts
<1>3. QED
  BY <1>2

(* An append counts one more reload, if it is one.                          *)
LEMMA CountsAppend ==
  ASSUME NEW S, NEW q \in Seq(S), NEW f, Counts(f, q), NEW x
  PROVE  \E g : /\ Counts(g, Append(q, x))
                /\ g[1] = IF x = "reload" THEN f[1] + 1 ELSE f[1]
<1>1. /\ Len(Append(q, x)) = Len(q) + 1 /\ Len(q) \in Nat
      /\ Append(q, x)[Len(q) + 1] = x
      /\ \A i \in 1 .. Len(q) : Append(q, x)[i] = q[i]
  OBVIOUS
<1>2. PICK d \in {0, 1} : d = IF x = "reload" THEN 1 ELSE 0
  OBVIOUS
<1>3. /\ \A i \in 1 .. Len(q) + 1 : f[i] \in Nat
      /\ f[Len(q) + 1] = 0
      /\ \A i \in 1 .. Len(q) : f[i] = IF q[i] = "reload" THEN f[i + 1] + 1 ELSE f[i + 1]
  BY DEF Counts
<1> DEFINE g == [i \in 1 .. Len(q) + 2 |-> IF i = Len(q) + 2 THEN 0 ELSE f[i] + d]
<1>4. /\ \A i \in 1 .. Len(q) + 1 : g[i] = f[i] + d
      /\ g[Len(q) + 2] = 0
  BY <1>1
<1>5. g \in [1 .. Len(q) + 2 -> Nat]
  <2>1. \A i \in 1 .. Len(q) + 2 : (IF i = Len(q) + 2 THEN 0 ELSE f[i] + d) \in Nat
    BY <1>1, <1>3
  <2>2. QED
    BY <2>1
<1> HIDE DEF g
<1>6. ASSUME NEW i \in 1 .. Len(q) + 1
      PROVE  g[i] = IF Append(q, x)[i] = "reload" THEN g[i + 1] + 1 ELSE g[i + 1]
  <2>1. CASE i = Len(q) + 1
    <3>1. i + 1 = Len(q) + 2 /\ g[i + 1] = 0 /\ g[i] = d /\ Append(q, x)[i] = x
      BY <1>1, <1>2, <1>3, <1>4, <2>1
    <3>2. QED
      BY <1>2, <3>1
  <2>2. CASE i # Len(q) + 1
    <3>1. i \in 1 .. Len(q) /\ i + 1 \in 1 .. Len(q) + 1
      BY <1>1, <2>2
    <3>2. g[i] = f[i] + d /\ g[i + 1] = f[i + 1] + d /\ Append(q, x)[i] = q[i]
      BY <1>1, <1>4, <3>1
    <3>3. f[i] \in Nat /\ f[i + 1] \in Nat
      BY <1>3, <3>1
    <3>4. QED
      BY <1>2, <1>3, <3>1, <3>2, <3>3
  <2>3. QED
    BY <2>1, <2>2
<1>7. Len(q) + 1 + 1 = Len(q) + 2 /\ 1 \in 1 .. Len(q) + 1
  BY <1>1
<1>8. Counts(g, Append(q, x))
  BY <1>1, <1>4, <1>5, <1>6, <1>7 DEF Counts
<1>9. g[1] = IF x = "reload" THEN f[1] + 1 ELSE f[1]
  <2>1. g[1] = f[1] + d /\ f[1] \in Nat
    BY <1>3, <1>4, <1>7
  <2>2. QED
    BY <1>2, <2>1
<1>10. QED
  BY <1>8, <1>9

(* A head taken counts one reload less, if it was one.                      *)
LEMMA CountsTail ==
  ASSUME NEW S, NEW q \in Seq(S), q # <<>>, NEW f, Counts(f, q)
  PROVE  \E g : /\ Counts(g, Tail(q)) /\ g[1] \in Nat
                /\ f[1] = IF Head(q) = "reload" THEN g[1] + 1 ELSE g[1]
<1>1. /\ Len(q) \in Nat /\ Len(q) >= 1 /\ Len(Tail(q)) = Len(q) - 1 /\ Head(q) = q[1]
      /\ \A i \in 1 .. Len(Tail(q)) : Tail(q)[i] = q[i + 1]
  BY Z3
<1>2. /\ f \in [1 .. Len(q) + 1 -> Nat] /\ f[Len(q) + 1] = 0
      /\ \A i \in 1 .. Len(q) : f[i] = IF q[i] = "reload" THEN f[i + 1] + 1 ELSE f[i + 1]
  BY DEF Counts
<1> DEFINE g == [i \in 1 .. Len(q) |-> f[i + 1]]
<1>3. \A i \in 1 .. Len(q) : g[i] = f[i + 1] /\ i + 1 \in 1 .. Len(q) + 1
  BY <1>1
<1>4. g \in [1 .. Len(q) -> Nat]
  BY <1>2, <1>3
<1> HIDE DEF g
<1>5. Len(Tail(q)) + 1 = Len(q) /\ Len(q) \in 1 .. Len(q) /\ 1 \in 1 .. Len(q)
  BY <1>1
<1>6. g[Len(q)] = 0
  BY <1>2, <1>3, <1>5
<1>7. ASSUME NEW i \in 1 .. Len(Tail(q))
      PROVE  g[i] = IF Tail(q)[i] = "reload" THEN g[i + 1] + 1 ELSE g[i + 1]
  <2>1. i \in 1 .. Len(q) /\ i + 1 \in 1 .. Len(q)
    BY <1>1
  <2>2. g[i] = f[i + 1] /\ g[i + 1] = f[(i + 1) + 1] /\ Tail(q)[i] = q[i + 1]
    BY <1>1, <1>3, <2>1
  <2>3. QED
    BY <1>2, <2>1, <2>2
<1>8. Counts(g, Tail(q))
  BY <1>4, <1>5, <1>6, <1>7 DEF Counts
<1>9. g[1] \in Nat /\ f[1] = IF Head(q) = "reload" THEN g[1] + 1 ELSE g[1]
  <2>1. g[1] = f[1 + 1] /\ g[1] \in Nat
    BY <1>3, <1>4, <1>5
  <2>2. QED
    BY <1>1, <1>2, <1>5, <2>1
<1>10. QED
  BY <1>8, <1>9

-----------------------------------------------------------------------------
(* Unless a task has thrown, there is one reload at a time, and it is       *)
(* pending from its start to its message.                                   *)
Reloading(l) == task[l].at \in {"reload", "dropping", "stopping", "installing"}
Replacing(l) == task[l].at \in {"dropping", "stopping", "installing"}

NoneReloading == \A l \in Launchers : ~Reloading(l)

OneReload ==
  /\ Once(tasks, "reload") /\ Once(messages, "reloaded") /\ ~Has(messages, "error")
  /\ \A l, m \in Launchers : Reloading(l) /\ Reloading(m) => l = m
  /\ Has(tasks, "reload") => NoneReloading
  /\ Has(messages, "reloaded") => NoneReloading /\ ~Has(tasks, "reload")
  /\ ~reloadPending =>
       NoneReloading /\ ~Has(messages, "reloaded") /\ ~Has(tasks, "reload")

ReloadInv ==
  ~failed => /\ OneReload /\ ~overwritten
             /\ \A l \in Launchers : Replacing(l) => plugins = {}

(* A launcher that replaces the list is reloading, and no other task is.    *)
LEMMA ReloadingFields ==
  ASSUME NEW l
  PROVE  /\ Replacing(l) => Reloading(l)
         /\ Reloading(l) => task[l].at \notin {"idle", "other", "activate", "activating"}
BY DEF Reloading, Replacing

(* ReloadInv is about these variables only.                                 *)
LEMMA ReloadDepends ==
  ASSUME ReloadInv,
         UNCHANGED <<tasks, messages, task, reloadPending, failed, overwritten, plugins>>
  PROVE  ReloadInv'
BY DEF ReloadInv, OneReload, NoneReloading, Reloading, Replacing

(* A launcher's step keeps the one reload: it hands it on or ends it.       *)
LEMMA TaskReload ==
  ASSUME HostTypes, ReloadInv, NEW l \in Launchers, Hosts!TaskStep(l)
  PROVE  ReloadInv'
<1>1. reloadPending' = reloadPending
  BY TaskKinds DEF TaskRest
<1>2. PICK w \in Tasks :
        /\ task' = [task EXCEPT ![l] = w]
        /\ \/ TakesOne(l, w) \/ CarriesOut(l, w) \/ Swaps(l, w) \/ Drops(l, w)
           \/ StopsOne(l, w) \/ Installs(l, w)
  BY TaskKinds
<1>3. /\ task'[l] = w /\ \A m \in Launchers : m # l => task'[m] = task[m]
  BY <1>2, WorkGoesOn
<1>4. /\ task[l] \in Tasks
      /\ tasks \in Seq({"reload", "activate", "other"})
      /\ messages \in Seq({"error", "reloaded", "activated"})
  BY DEF HostTypes, TasksTyped, FlagsTyped
<1>5. SUFFICES ASSUME ~failed'
      PROVE  /\ OneReload' /\ ~overwritten'
             /\ \A m \in Launchers : Replacing(m)' => plugins' = {}
  BY DEF ReloadInv
<1>6. ~failed
  BY <1>2, <1>5 DEF TakesOne, CarriesOut, Swaps, Drops, StopsOne, Installs, Reports
<1>7. /\ OneReload /\ ~overwritten /\ \A m \in Launchers : Replacing(m) => plugins = {}
  BY <1>6 DEF ReloadInv
<1>8. \A m \in Launchers : m # l =>
        (Reloading(m)' <=> Reloading(m)) /\ (Replacing(m)' <=> Replacing(m))
  BY <1>3 DEF Reloading, Replacing
<1>9. /\ Hosts!Free.at = "idle" /\ \A k : [at |-> k].at = k
  BY DEF Hosts!Free
<1>10. CASE TakesOne(l, w)
  <2>1. /\ tasks # <<>> /\ tasks' = Tail(tasks) /\ w.at = Head(tasks) /\ messages' = messages
        /\ overwritten' = overwritten /\ plugins' = plugins /\ ~Reloading(l)
    BY <1>9, <1>10 DEF TakesOne, Reloading
  <2>2. /\ Has(tasks', "reload") => Has(tasks, "reload")
        /\ Head(tasks) = "reload" => Has(tasks, "reload") /\ ~Has(tasks', "reload")
        /\ Once(tasks', "reload")
    BY <1>4, <1>7, <2>1, TailHas DEF OneReload
  <2>3. Head(tasks) \in {"reload", "activate", "other"}
    BY <1>4, <2>1
  <2>4. /\ Reloading(l)' <=> Head(tasks) = "reload"
        /\ ~Replacing(l)'
    BY <1>3, <2>1, <2>3 DEF Reloading, Replacing
  <2>5. Once(messages', "reloaded") /\ ~Has(messages', "error")
    BY <1>7, <2>1 DEF OneReload
  <2>6. /\ \A m \in Launchers : Replacing(m)' => plugins' = {}
        /\ ~overwritten'
    BY <1>7, <1>8, <2>1, <2>4
  <2>7. Has(messages', "reloaded") <=> Has(messages, "reloaded")
    BY <2>1
  <2>8. CASE Head(tasks) = "reload"
    <3>1. /\ NoneReloading /\ ~Has(messages, "reloaded") /\ reloadPending
      BY <1>7, <2>2, <2>8 DEF OneReload
    <3>2. \A m \in Launchers : Reloading(m)' => m = l
      BY <1>8, <3>1 DEF NoneReloading
    <3>3. QED
      BY <1>1, <2>2, <2>5, <2>6, <2>7, <2>8, <3>1, <3>2 DEF OneReload
  <2>9. CASE Head(tasks) # "reload"
    <3>1. \A m \in Launchers : Reloading(m)' <=> Reloading(m)
      BY <1>8, <2>1, <2>4, <2>9
    <3>2. NoneReloading' <=> NoneReloading
      BY <3>1 DEF NoneReloading
    <3>3. QED
      BY <1>1, <1>7, <2>2, <2>5, <2>6, <2>7, <3>1, <3>2 DEF OneReload
  <2>10. QED
    BY <2>8, <2>9
<1>11. CASE CarriesOut(l, w)
  <2>1. /\ ~Reloading(l) /\ ~Reloading(l)' /\ ~Replacing(l)'
        /\ UNCHANGED <<tasks, plugins, overwritten>>
        /\ messages' \in {messages, Append(messages, "activated")}
    BY <1>3, <1>5, <1>9, <1>11 DEF CarriesOut, Reports, Reloading, Replacing
  <2>2. \A m \in Launchers : Reloading(m)' <=> Reloading(m)
    BY <1>8, <2>1
  <2>3. /\ Has(messages', "reloaded") <=> Has(messages, "reloaded")
        /\ Once(messages', "reloaded") /\ ~Has(messages', "error")
    <3>1. CASE messages' = messages
      BY <1>7, <3>1 DEF OneReload
    <3>2. CASE messages' = Append(messages, "activated")
      BY <1>4, <1>7, <3>2, AppendHas DEF OneReload
    <3>3. QED
      BY <2>1, <3>1, <3>2
  <2>4. NoneReloading' <=> NoneReloading
    BY <2>2 DEF NoneReloading
  <2>5. OneReload'
    BY <1>1, <1>7, <2>1, <2>2, <2>3, <2>4 DEF OneReload
  <2>6. QED
    BY <1>7, <1>8, <2>1, <2>5
<1>12. CASE Swaps(l, w) \/ Drops(l, w) \/ StopsOne(l, w)
  <2>1. UNCHANGED <<tasks, overwritten, messages>> /\ Reloading(l)
    BY <1>12 DEF Swaps, Drops, StopsOne, Reloading
  <2>2. \A m \in Launchers : Reloading(m)' => Reloading(m)
    BY <1>8, <2>1
  <2>3. \A m \in Launchers : Reloading(m) => m = l
    BY <1>7, <2>1 DEF OneReload
  <2>4. NoneReloading => NoneReloading'
    BY <2>2 DEF NoneReloading
  <2>5. OneReload'
    BY <1>1, <1>7, <2>1, <2>2, <2>4 DEF OneReload
  <2>6. Replacing(l)' => plugins' = {}
    <3>1. CASE Swaps(l, w)
      BY <1>3, <1>9, <3>1 DEF Swaps, Replacing
    <3>2. CASE Drops(l, w) \/ StopsOne(l, w)
      BY <1>7, <3>2 DEF Drops, StopsOne, Replacing
    <3>3. QED
      BY <1>12, <3>1, <3>2
  <2>7. \A m \in Launchers : Replacing(m)' => m = l
    BY <2>2, <2>3 DEF Replacing, Reloading
  <2>8. QED
    BY <1>7, <2>1, <2>5, <2>6, <2>7
<1>13. CASE Installs(l, w)
  <2>1. /\ task[l].at = "installing" /\ w.at = "idle" /\ tasks' = tasks
        /\ overwritten' = (overwritten \/ plugins # {})
        /\ messages' \in {messages, Append(messages, "reloaded")}
    BY <1>5, <1>9, <1>13 DEF Installs
  <2>2. Reloading(l) /\ Replacing(l) /\ ~Reloading(l)'
    BY <1>3, <2>1 DEF Reloading, Replacing
  <2>3. /\ reloadPending /\ ~Has(tasks, "reload") /\ ~Has(messages, "reloaded")
        /\ plugins = {} /\ \A m \in Launchers : Reloading(m) => m = l
    BY <1>7, <2>2 DEF OneReload, NoneReloading
  <2>4. NoneReloading'
    BY <1>8, <2>2, <2>3 DEF NoneReloading
  <2>5. Once(messages', "reloaded") /\ ~Has(messages', "error")
    <3>1. CASE messages' = messages
      BY <1>7, <3>1 DEF OneReload
    <3>2. CASE messages' = Append(messages, "reloaded")
      BY <1>4, <1>7, <2>3, <3>2, AppendHas DEF OneReload
    <3>3. QED
      BY <2>1, <3>1, <3>2
  <2>6. OneReload'
    BY <1>1, <1>7, <2>1, <2>3, <2>4, <2>5 DEF OneReload, NoneReloading
  <2>7. \A m \in Launchers : ~Replacing(m)'
    BY <2>4 DEF NoneReloading, Reloading, Replacing
  <2>8. QED
    BY <1>7, <2>1, <2>3, <2>6, <2>7
<1>14. QED
  BY <1>2, <1>10, <1>11, <1>12, <1>13

(* The UI thread submits a reload only when none is pending.                *)
LEMMA UiReload ==
  ASSUME HostTypes, ReloadInv, UiStep
  PROVE  ReloadInv'
<1>1. UNCHANGED <<plugins, overwritten, task, failed>>
  BY UiLeavesHosts
<1>2. /\ tasks \in Seq({"reload", "activate", "other"})
      /\ messages \in Seq({"error", "reloaded", "activated"})
  BY DEF HostTypes, TasksTyped, FlagsTyped
<1>3. SUFFICES ASSUME ~failed, OneReload PROVE OneReload'
  BY <1>1 DEF ReloadInv, Replacing
<1>4. /\ NoneReloading' <=> NoneReloading
      /\ \A m \in Launchers : Reloading(m)' <=> Reloading(m)
  BY <1>1 DEF NoneReloading, Reloading
<1>5. CASE Hosts!StartExtensionReload
  <2>1. /\ ~reloadPending /\ reloadPending' /\ messages' = messages
        /\ tasks' = Append(tasks, "reload")
    BY <1>5 DEF Hosts!StartExtensionReload, Hosts!MayReload, Hosts!Submit
  <2>2. NoneReloading /\ ~Has(messages, "reloaded") /\ ~Has(tasks, "reload")
    BY <1>3, <2>1 DEF OneReload
  <2>3. Once(tasks', "reload")
    BY <1>2, <1>3, <2>1, <2>2, AppendHas DEF OneReload
  <2>4. QED
    BY <1>3, <1>4, <2>1, <2>2, <2>3 DEF OneReload
<1>6. CASE Hosts!ActivateExtension \/ Hosts!SubmitOther
  <2>1. /\ reloadPending' = reloadPending /\ messages' = messages
        /\ tasks' = Append(tasks, "activate") \/ tasks' = Append(tasks, "other")
    BY <1>6 DEF Hosts!ActivateExtension, Hosts!SubmitOther, Hosts!Submit, Hosts!uiVars
  <2>2. Once(tasks', "reload") /\ (Has(tasks', "reload") <=> Has(tasks, "reload"))
    <3>1. Once(tasks, "reload")
      BY <1>3 DEF OneReload
    <3>2. ASSUME NEW k \in {"activate", "other"}
          PROVE  /\ Once(Append(tasks, k), "reload")
                 /\ Has(Append(tasks, k), "reload") <=> Has(tasks, "reload")
      BY <1>2, <3>1, AppendHas
    <3>3. QED
      BY <2>1, <3>2
  <2>3. QED
    BY <1>3, <1>4, <2>1, <2>2 DEF OneReload
<1>7. CASE Hosts!OnMessage
  <2>1. /\ tasks' = tasks /\ messages # <<>> /\ messages' = Tail(messages)
        /\ \/ Head(messages) = "activated" /\ reloadPending' = reloadPending
           \/ Head(messages) # "activated" /\ reloadPending' = FALSE
    BY <1>7 DEF Hosts!OnMessage, Hosts!taskVars
  <2>2. Head(messages) \in {"error", "reloaded", "activated"}
    BY <1>2, <2>1
  <2>3. /\ Head(messages) # "error"
        /\ Head(messages) = "reloaded" => Has(messages, "reloaded") /\ ~Has(messages', "reloaded")
        /\ Has(messages', "reloaded") => Has(messages, "reloaded")
        /\ Once(messages', "reloaded") /\ ~Has(messages', "error")
    BY <1>2, <1>3, <2>1, TailHas DEF OneReload
  <2>4. CASE Head(messages) = "activated"
    BY <1>3, <1>4, <2>1, <2>3, <2>4 DEF OneReload
  <2>5. CASE Head(messages) = "reloaded"
    <3>1. NoneReloading /\ ~Has(tasks, "reload") /\ ~Has(messages', "reloaded")
      BY <1>3, <2>3, <2>5 DEF OneReload
    <3>2. QED
      BY <1>3, <1>4, <2>1, <2>3, <3>1 DEF OneReload
  <2>6. QED
    BY <2>2, <2>3, <2>4, <2>5
<1>8. CASE Hosts!StopLaunches \/ Hosts!StopQueries
  <2>1. /\ reloadPending' = reloadPending /\ messages' = messages
        /\ tasks' = <<>> \/ tasks' = tasks
    BY <1>8 DEF Hosts!StopLaunches, Hosts!StopQueries, Hosts!taskVars
  <2>2. ~Has(<<>>, "reload") /\ Once(<<>>, "reload")
    BY DEF Has, Once
  <2>3. Once(tasks', "reload") /\ (Has(tasks', "reload") => Has(tasks, "reload"))
    BY <1>3, <2>1, <2>2 DEF OneReload
  <2>4. QED
    BY <1>3, <1>4, <2>1, <2>3 DEF OneReload
<1>9. QED
  BY <1>5, <1>6, <1>7, <1>8 DEF UiStep

-----------------------------------------------------------------------------
(* Every reload that will still read the folders was submitted.             *)
ReloadingNow == {l \in Launchers : Reloading(l)}

LoadsInv ==
  \E f : /\ Counts(f, tasks)
         /\ loads + f[1] + Cardinality(ReloadingNow) <= submitted + 1

(* A count of reloads is a natural number.                                  *)
LEMMA CountIsNat ==
  ASSUME NEW S, NEW q \in Seq(S), NEW f, Counts(f, q)
  PROVE  f[1] \in Nat
<1>1. 1 \in 1 .. Len(q) + 1
  OBVIOUS
<1>2. QED
  BY <1>1 DEF Counts

(* The launchers that reload are finitely many.                             *)
LEMMA ReloadersCount ==
  /\ IsFiniteSet(ReloadingNow) /\ Cardinality(ReloadingNow) \in Nat
  /\ \A l \in ReloadingNow : Cardinality(ReloadingNow) >= 1
<1>1. IsFiniteSet(ReloadingNow)
  <2>1. ReloadingNow \subseteq Launchers
    BY DEF ReloadingNow
  <2>2. QED
    BY <2>1, SearchConstants, FS_Subset
<1>2. Cardinality(ReloadingNow) \in Nat
  BY <1>1, FS_CardinalityType
<1>3. ASSUME NEW l \in ReloadingNow PROVE Cardinality(ReloadingNow) >= 1
  <2>1. Cardinality(ReloadingNow) # 0
    BY <1>1, FS_EmptySet
  <2>2. QED
    BY <1>2, <2>1
<1>4. QED
  BY <1>1, <1>2, <1>3

(* A worker begins a reload, ends one, or neither.                          *)
LEMMA ReloadersChange ==
  ASSUME NEW l \in Launchers, NEW S, NEW T, IsFiniteSet(S),
         \A m : m # l => (m \in T <=> m \in S)
  PROVE  /\ IsFiniteSet(T) /\ Cardinality(T) \in Nat /\ Cardinality(S) \in Nat
         /\ l \in S /\ l \notin T => Cardinality(T) = Cardinality(S) - 1
         /\ l \notin S /\ l \in T => Cardinality(T) = Cardinality(S) + 1
         /\ (l \in S <=> l \in T) => Cardinality(T) = Cardinality(S)
<1>0. Cardinality(S) \in Nat
  BY FS_CardinalityType
<1>1. CASE l \in S /\ l \notin T
  <2>1. T = S \ {l}
    BY <1>1
  <2>2. QED
    BY <1>0, <1>1, <2>1, FS_RemoveElement, FS_CardinalityType
<1>2. CASE l \notin S /\ l \in T
  <2>1. T = S \cup {l}
    BY <1>2
  <2>2. QED
    BY <1>0, <1>2, <2>1, FS_AddElement, FS_CardinalityType
<1>3. CASE l \in S <=> l \in T
  <2>1. T = S
    BY <1>3
  <2>2. QED
    BY <1>0, <1>3, <2>1
<1>4. QED
  BY <1>1, <1>2, <1>3

(* LoadsInv is about these variables only.                                  *)
LEMMA LoadsDepend ==
  ASSUME LoadsInv, UNCHANGED <<loads, tasks, task, submitted>>
  PROVE  LoadsInv'
<1>1. ReloadingNow' = ReloadingNow
  BY DEF ReloadingNow, Reloading
<1>2. PICK f : /\ Counts(f, tasks)
               /\ loads + f[1] + Cardinality(ReloadingNow) <= submitted + 1
  BY DEF LoadsInv
<1>3. Counts(f, tasks')
  BY <1>2
<1>4. loads' + f[1] + Cardinality(ReloadingNow') <= submitted' + 1
  BY <1>1, <1>2
<1>5. QED
  BY <1>3, <1>4 DEF LoadsInv

(* A reload that reads the folders was submitted, so the loads are bounded. *)
LEMMA TaskLoads ==
  ASSUME HostTypes, LoadsInv, NEW l \in Launchers, Hosts!TaskStep(l)
  PROVE  /\ LoadsInv'
         /\ task[l].at = "installing" => loads + 1 <= Hosts!MaxLoads
<1>1. submitted' = submitted /\ submitted \in 0 .. MaxTasks /\ loads \in 1 .. Hosts!MaxLoads
  BY TaskKinds DEF TaskRest, HostTypes, ListTyped
<1>2. PICK w \in Tasks :
        /\ task' = [task EXCEPT ![l] = w]
        /\ \/ TakesOne(l, w) \/ CarriesOut(l, w) \/ Swaps(l, w) \/ Drops(l, w)
           \/ StopsOne(l, w) \/ Installs(l, w)
  BY TaskKinds
<1>3. /\ task'[l] = w /\ \A m \in Launchers : m # l => task'[m] = task[m]
  BY <1>2, WorkGoesOn
<1>4. task[l] \in Tasks /\ tasks \in Seq({"reload", "activate", "other"})
  BY DEF HostTypes, TasksTyped
<1>5. PICK f : /\ Counts(f, tasks)
               /\ loads + f[1] + Cardinality(ReloadingNow) <= submitted + 1
  BY DEF LoadsInv
<1>6. f[1] \in Nat
  BY <1>4, <1>5, CountIsNat
<1>7. IsFiniteSet(ReloadingNow) /\ Cardinality(ReloadingNow) \in Nat
  BY ReloadersCount
<1>8. /\ Cardinality(ReloadingNow') \in Nat
      /\ l \in ReloadingNow /\ l \notin ReloadingNow'
           => Cardinality(ReloadingNow') = Cardinality(ReloadingNow) - 1
      /\ l \notin ReloadingNow /\ l \in ReloadingNow'
           => Cardinality(ReloadingNow') = Cardinality(ReloadingNow) + 1
      /\ (l \in ReloadingNow <=> l \in ReloadingNow')
           => Cardinality(ReloadingNow') = Cardinality(ReloadingNow)
  <2>1. \A m : m # l => (m \in ReloadingNow' <=> m \in ReloadingNow)
    BY <1>3 DEF ReloadingNow, Reloading
  <2> HIDE DEF ReloadingNow
  <2>2. QED
    BY <1>7, <2>1, ReloadersChange
<1>9. /\ l \in ReloadingNow <=> task[l].at \in {"reload", "dropping", "stopping", "installing"}
      /\ l \in ReloadingNow' <=> w.at \in {"reload", "dropping", "stopping", "installing"}
  BY <1>3 DEF ReloadingNow, Reloading
<1>10. /\ Hosts!Free.at = "idle" /\ \A k : [at |-> k].at = k
       /\ \A s : Hosts!Dropping(s).at = "dropping" /\ \A o : Hosts!Stopping(s, o).at = "stopping"
  BY DEF Hosts!Free, Hosts!Dropping, Hosts!Stopping
<1>11. ASSUME tasks' = tasks, loads' \in Nat,
              loads' + Cardinality(ReloadingNow') <= loads + Cardinality(ReloadingNow)
       PROVE  LoadsInv'
  <2>1. Counts(f, tasks')
    BY <1>5, <1>11
  <2>2. loads' + f[1] + Cardinality(ReloadingNow') <= submitted' + 1
    BY <1>1, <1>5, <1>6, <1>7, <1>8, <1>11
  <2>3. QED
    BY <2>1, <2>2 DEF LoadsInv
<1>12. CASE TakesOne(l, w)
  <2>1. /\ tasks # <<>> /\ tasks' = Tail(tasks) /\ w.at = Head(tasks) /\ loads' = loads
        /\ l \notin ReloadingNow /\ task[l].at = "idle"
    BY <1>9, <1>10, <1>12 DEF TakesOne
  <2>2. PICK g : /\ Counts(g, Tail(tasks)) /\ g[1] \in Nat
                 /\ f[1] = IF Head(tasks) = "reload" THEN g[1] + 1 ELSE g[1]
    BY <1>4, <1>5, <2>1, CountsTail
  <2>3. Head(tasks) \in {"reload", "activate", "other"}
    BY <1>4, <2>1
  <2>4. l \in ReloadingNow' <=> Head(tasks) = "reload"
    BY <1>9, <2>1, <2>3
  <2>5. loads' + g[1] + Cardinality(ReloadingNow') <= submitted' + 1
    BY <1>1, <1>5, <1>6, <1>7, <1>8, <2>1, <2>2, <2>4
  <2>6. LoadsInv'
    BY <2>1, <2>2, <2>5 DEF LoadsInv
  <2>7. QED
    BY <2>1, <2>6
<1>13. CASE CarriesOut(l, w)
  <2>1. /\ tasks' = tasks /\ loads' = loads
        /\ task[l].at \in {"other", "activate", "activating"} /\ w.at \in {"idle", "activating"}
    BY <1>10, <1>13 DEF CarriesOut
  <2>2. QED
    BY <1>1, <1>7, <1>8, <1>9, <1>11, <2>1
<1>14. CASE Swaps(l, w) \/ Drops(l, w) \/ StopsOne(l, w)
  <2>1. tasks' = tasks /\ loads' = loads /\ task[l].at \in {"reload", "dropping", "stopping"}
    BY <1>14 DEF Swaps, Drops, StopsOne
  <2>2. l \in ReloadingNow
    BY <1>9, <2>1
  <2>3. Cardinality(ReloadingNow') <= Cardinality(ReloadingNow)
    BY <1>7, <1>8, <2>2
  <2>4. QED
    BY <1>1, <1>7, <1>8, <1>11, <2>1, <2>3
<1>15. CASE Installs(l, w)
  <2>1. /\ task[l].at = "installing" /\ w.at = "idle" /\ tasks' = tasks
        /\ loads' = loads + 1 \/ loads' = loads
    BY <1>10, <1>15 DEF Installs
  <2>2. l \in ReloadingNow /\ l \notin ReloadingNow'
    BY <1>9, <2>1
  <2>3. Cardinality(ReloadingNow') = Cardinality(ReloadingNow) - 1
    BY <1>8, <2>2
  <2>4. LoadsInv'
    BY <1>1, <1>7, <1>8, <1>11, <2>1, <2>3
  <2>5. Cardinality(ReloadingNow) >= 1
    BY <2>2, ReloadersCount
  <2>6. loads + 1 <= submitted + 1
    BY <1>1, <1>5, <1>6, <1>7, <2>5
  <2>7. loads + 1 <= MaxTasks + 1
    BY <1>1, <2>6, SearchConstants
  <2>8. QED
    BY <2>4, <2>7 DEF Hosts!MaxLoads
<1>16. QED
  BY <1>2, <1>10, <1>12, <1>13, <1>14, <1>15

(* What the UI thread submits is counted.                                   *)
LEMMA UiLoads ==
  ASSUME HostTypes, LoadsInv, UiStep
  PROVE  LoadsInv'
<1>1. UNCHANGED <<loads, task>> /\ ReloadingNow' = ReloadingNow
  BY UiLeavesHosts DEF ReloadingNow, Reloading
<1>2. /\ submitted \in 0 .. MaxTasks /\ loads \in 1 .. Hosts!MaxLoads
      /\ tasks \in Seq({"reload", "activate", "other"}) /\ Hosts!MaxLoads \in Nat
  BY SearchConstants DEF HostTypes, ListTyped, TasksTyped, Hosts!MaxLoads
<1>3. PICK f : /\ Counts(f, tasks)
               /\ loads + f[1] + Cardinality(ReloadingNow) <= submitted + 1
  BY DEF LoadsInv
<1>4. f[1] \in Nat /\ Cardinality(ReloadingNow) \in Nat
  BY <1>2, <1>3, CountIsNat, ReloadersCount
<1>5. ASSUME NEW g, Counts(g, tasks'), g[1] \in Nat, submitted' \in Nat,
             g[1] <= f[1] + (submitted' - submitted)
      PROVE  LoadsInv'
  <2>1. loads' + g[1] + Cardinality(ReloadingNow') <= submitted' + 1
    BY <1>1, <1>2, <1>3, <1>4, <1>5
  <2>2. QED
    BY <1>5, <2>1 DEF LoadsInv
<1>6. ASSUME NEW x, tasks' = Append(tasks, x),
             submitted' = submitted + 1 \/ (x # "reload" /\ submitted' = submitted)
      PROVE  LoadsInv'
  <2>1. PICK g : /\ Counts(g, Append(tasks, x))
                 /\ g[1] = IF x = "reload" THEN f[1] + 1 ELSE f[1]
    BY <1>2, <1>3, CountsAppend
  <2>2. Counts(g, tasks')
    BY <1>6, <2>1
  <2>3. /\ g[1] \in Nat /\ submitted' \in Nat
        /\ g[1] <= f[1] + (submitted' - submitted)
    BY <1>2, <1>4, <1>6, <2>1
  <2>4. QED
    BY <1>5, <2>2, <2>3
<1>7. CASE Hosts!StartExtensionReload
  <2>1. tasks' = Append(tasks, "reload") /\ submitted' = submitted + 1
    BY <1>7 DEF Hosts!StartExtensionReload, Hosts!Submit
  <2>2. QED
    BY <1>6, <2>1
<1>8. CASE Hosts!ActivateExtension
  <2>1. tasks' = Append(tasks, "activate") /\ submitted' = submitted + 1
    BY <1>8 DEF Hosts!ActivateExtension, Hosts!Submit
  <2>2. QED
    BY <1>6, <2>1
<1>9. CASE Hosts!SubmitOther
  <2>1. tasks' = Append(tasks, "other") /\ submitted' = submitted
    BY <1>9 DEF Hosts!SubmitOther
  <2>2. QED
    BY <1>6, <2>1
<1>10. CASE Hosts!OnMessage \/ Hosts!StopQueries
  <2>1. tasks' = tasks /\ submitted' = submitted
    BY <1>10 DEF Hosts!OnMessage, Hosts!StopQueries, Hosts!taskVars, Hosts!boundVars
  <2>2. QED
    BY <1>1, <2>1, LoadsDepend
<1>11. CASE Hosts!StopLaunches
  <2>1. tasks' = <<>> /\ submitted' = submitted
    BY <1>11 DEF Hosts!StopLaunches, Hosts!boundVars
  <2>2. PICK g : Counts(g, <<>>) /\ g[1] = 0
    BY CountsNothing
  <2>3. Counts(g, tasks')
    BY <2>1, <2>2
  <2>4. g[1] \in Nat /\ submitted' \in Nat /\ g[1] <= f[1] + (submitted' - submitted)
    BY <1>2, <1>4, <2>1, <2>2
  <2>5. QED
    BY <1>5, <2>3, <2>4
<1>12. QED
  BY <1>7, <1>8, <1>9, <1>10, <1>11 DEF UiStep

-----------------------------------------------------------------------------
(* The types, step by step.                                                 *)
LEMMA MessageTypes ==
  ASSUME NEW q \in Seq({"error", "reloaded", "activated"}),
         NEW m \in {"error", "reloaded", "activated"}
  PROVE  Append(q, m) \in Seq({"error", "reloaded", "activated"})
OBVIOUS

(* The queue of tasks holds tasks.                                          *)
LEMMA KindTypes ==
  ASSUME NEW q \in Seq({"reload", "activate", "other"}),
         NEW m \in {"reload", "activate", "other"}
  PROVE  Append(q, m) \in Seq({"reload", "activate", "other"})
OBVIOUS

(* The tail of a sequence is one.                                           *)
LEMMA TailTypes ==
  ASSUME NEW S, NEW q \in Seq(S), q # <<>>
  PROVE  Tail(q) \in Seq(S)
BY Z3

(* What a reload finds are plugin objects.                                  *)
LEMMA FoundObjects ==
  ASSUME NEW ids \in SUBSET Ids, NEW n \in 1 .. Hosts!MaxLoads
  PROVE  Hosts!Found(ids, n) \subseteq Objects
BY DEF Hosts!Found, Objects, Hosts!Objects

(* A launcher's step keeps the types.                                       *)
LEMMA TaskTypes ==
  ASSUME HostTypes, LoadsInv, NEW l \in Launchers, Hosts!TaskStep(l)
  PROVE  HostTypes'
<1>1. TaskRest
  BY TaskKinds
<1>2. PICK w \in Tasks :
        /\ task' = [task EXCEPT ![l] = w]
        /\ \/ TakesOne(l, w) \/ CarriesOut(l, w) \/ Swaps(l, w) \/ Drops(l, w)
           \/ StopsOne(l, w) \/ Installs(l, w)
  BY TaskKinds
<1>3. ListTyped /\ ObjectsTyped /\ ExchangesTyped /\ TasksTyped /\ FlagsTyped
  BY DEF HostTypes
<1>4. TasksTyped'
  <2>1. task' \in [Launchers -> Tasks]
    BY <1>2, <1>3 DEF TasksTyped
  <2>2. tasks' \in Seq({"reload", "activate", "other"})
    <3>1. CASE TakesOne(l, w)
      BY <1>3, <3>1, TailTypes DEF TakesOne, TasksTyped
    <3>2. CASE ~TakesOne(l, w)
      <4>1. tasks' = tasks
        BY <1>2, <3>2 DEF CarriesOut, Swaps, Drops, StopsOne, Installs
      <4>2. QED
        BY <1>3, <4>1 DEF TasksTyped
    <3>3. QED
      BY <3>1, <3>2
  <2>3. QED
    BY <2>1, <2>2 DEF TasksTyped
<1>5. FlagsTyped'
  <2>1. UNCHANGED <<reloadPending, activationPending, ui>>
    BY <1>1 DEF TaskRest
  <2>2. messages' \in {messages, Append(messages, "error"), Append(messages, "reloaded"),
                       Append(messages, "activated")}
    BY <1>2 DEF TakesOne, CarriesOut, Swaps, Drops, StopsOne, Installs, Reports
  <2>3. messages' \in Seq({"error", "reloaded", "activated"})
    BY <1>3, <2>2, MessageTypes DEF FlagsTyped
  <2>4. failed' \in {failed, TRUE}
    BY <1>2 DEF TakesOne, CarriesOut, Swaps, Drops, StopsOne, Installs, Reports
  <2>5. overwritten' \in BOOLEAN
    <3>1. CASE overwritten' = overwritten
      BY <1>3, <3>1 DEF FlagsTyped
    <3>2. CASE overwritten' = (overwritten \/ plugins # {})
      BY <3>2
    <3>3. QED
      BY <1>2, <3>1, <3>2 DEF TakesOne, CarriesOut, Swaps, Drops, StopsOne, Installs
  <2>6. QED
    BY <1>3, <2>1, <2>3, <2>4, <2>5 DEF FlagsTyped
<1>6. ListTyped'
  <2>1. UNCHANGED <<submitted, others>>
    BY <1>1 DEF TaskRest
  <2>2. CASE UNCHANGED <<plugins, loads>>
    BY <1>3, <2>1, <2>2 DEF ListTyped
  <2>3. CASE plugins' = {} /\ loads' = loads
    BY <1>3, <2>1, <2>3 DEF ListTyped
  <2>4. CASE /\ task[l].at = "installing" /\ loads' = loads + 1
             /\ \E ids \in SUBSET Ids : plugins' = Hosts!Found(ids, loads')
    <3>1. loads + 1 <= Hosts!MaxLoads /\ loads \in 1 .. Hosts!MaxLoads
      BY <1>3, <2>4, TaskLoads DEF ListTyped
    <3>2. loads' \in 1 .. Hosts!MaxLoads
      BY <2>4, <3>1, SearchConstants DEF Hosts!MaxLoads
    <3>3. plugins' \subseteq Objects
      BY <2>4, <3>2, FoundObjects
    <3>4. QED
      BY <1>3, <2>1, <3>2, <3>3 DEF ListTyped
  <2>5. QED
    BY <1>2, <2>2, <2>3, <2>4 DEF TakesOne, CarriesOut, Swaps, Drops, StopsOne, Installs
<1>7. ObjectsTyped'
  <2>1. UNCHANGED <<strikes, ioMutex>>
    BY <1>1 DEF TaskRest
  <2>2. \/ available' = available
        \/ \E o : available' = [available EXCEPT ![o] = FALSE]
    BY <1>2 DEF TakesOne, CarriesOut, Swaps, Drops, StopsOne, Installs
  <2>3. \/ host' = host
        \/ \E o : host' = [host EXCEPT ![o] = Hosts!NoHost]
    BY <1>2 DEF TakesOne, CarriesOut, Swaps, Drops, StopsOne, Installs
  <2>4. available' \in [Objects -> BOOLEAN]
    BY <1>3, <2>2 DEF ObjectsTyped
  <2>5. host' \in [Objects -> Processes]
    BY <1>3, <2>3, NoHostFields DEF ObjectsTyped
  <2>6. QED
    BY <1>3, <2>1, <2>4, <2>5 DEF ObjectsTyped
<1>8. ExchangesTyped'
  <2>1. UNCHANGED <<requests, hostQuery>>
    BY <1>1 DEF TaskRest
  <2>2. \/ exchange' = exchange
        \/ \E o \in plugins : exchange' = [exchange EXCEPT ![l] = [at |-> "locking", object |-> o]]
    BY <1>2 DEF TakesOne, CarriesOut, Swaps, Drops, StopsOne, Installs
  <2>3. \A o \in plugins : [at |-> "locking", object |-> o] \in Exchanges
    BY <1>3, ExchangeStates DEF ListTyped
  <2>4. exchange' \in [Threads -> Exchanges]
    BY <1>3, <2>2, <2>3 DEF ExchangesTyped
  <2>5. QED
    BY <1>3, <2>1, <2>4 DEF ExchangesTyped
<1>9. QED
  BY <1>4, <1>5, <1>6, <1>7, <1>8 DEF HostTypes

(* A step of the UI thread keeps the types.                                 *)
LEMMA UiTypes ==
  ASSUME HostTypes, UiStep
  PROVE  HostTypes'
<1>1. /\ UNCHANGED <<plugins, loads, overwritten, available, strikes, ioMutex, host>>
      /\ UNCHANGED <<exchange, requests, hostQuery, task, failed>>
  BY UiLeavesHosts
<1>2. ListTyped /\ ObjectsTyped /\ ExchangesTyped /\ TasksTyped /\ FlagsTyped
  BY DEF HostTypes
<1>3. ObjectsTyped' /\ ExchangesTyped'
  BY <1>1, <1>2 DEF ObjectsTyped, ExchangesTyped
<1>4. submitted' \in 0 .. MaxTasks /\ others' \in 0 .. MaxOthers
  BY <1>2, SearchConstants DEF ListTyped, UiStep, Hosts!StartExtensionReload,
         Hosts!ActivateExtension, Hosts!SubmitOther, Hosts!OnMessage, Hosts!StopLaunches,
         Hosts!StopQueries, Hosts!Submit, Hosts!taskVars, Hosts!boundVars
<1>5. ListTyped'
  BY <1>1, <1>2, <1>4 DEF ListTyped
<1>6. tasks' \in Seq({"reload", "activate", "other"})
  <2>1. tasks' \in {tasks, <<>>, Append(tasks, "reload"), Append(tasks, "activate"),
                    Append(tasks, "other")}
    BY DEF UiStep, Hosts!StartExtensionReload, Hosts!ActivateExtension, Hosts!SubmitOther,
           Hosts!OnMessage, Hosts!StopLaunches, Hosts!StopQueries, Hosts!Submit, Hosts!taskVars
  <2>2. <<>> \in Seq({"reload", "activate", "other"})
    OBVIOUS
  <2>3. QED
    BY <1>2, <2>1, <2>2, KindTypes DEF TasksTyped
<1>7. TasksTyped'
  BY <1>1, <1>2, <1>6 DEF TasksTyped
<1>8. messages' \in Seq({"error", "reloaded", "activated"})
  <2>1. messages' = messages \/ (messages # <<>> /\ messages' = Tail(messages))
    BY DEF UiStep, Hosts!StartExtensionReload, Hosts!ActivateExtension, Hosts!SubmitOther,
           Hosts!OnMessage, Hosts!StopLaunches, Hosts!StopQueries, Hosts!uiVars
  <2>2. QED
    BY <1>2, <2>1, TailTypes DEF FlagsTyped
<1>9. /\ reloadPending' \in {reloadPending, TRUE, FALSE}
      /\ activationPending' \in {activationPending, TRUE, FALSE}
      /\ ui' \in {ui, "stopping", "joining"}
  BY DEF UiStep, Hosts!StartExtensionReload, Hosts!ActivateExtension, Hosts!SubmitOther,
         Hosts!OnMessage, Hosts!StopLaunches, Hosts!StopQueries, Hosts!Submit, Hosts!uiVars
<1>10. FlagsTyped'
  BY <1>1, <1>2, <1>8, <1>9 DEF FlagsTyped
<1>11. QED
  BY <1>3, <1>5, <1>7, <1>10 DEF HostTypes

(* A step of a query keeps the types.                                       *)
LEMMA QueryTypes ==
  ASSUME HostTypes, Hosts!BeginQuery \/ Hosts!QueryStep
  PROVE  HostTypes'
<1>1. /\ UNCHANGED <<plugins, loads, overwritten, available, strikes, ioMutex, host, requests>>
      /\ UNCHANGED <<tasks, task, failed, submitted, others>>
      /\ UNCHANGED <<reloadPending, activationPending, messages, ui>>
  BY DEF Hosts!BeginQuery, Hosts!QueryStep, Hosts!AskPlugin, Hosts!EndQuery, Hosts!pluginVars,
         Hosts!objectVars, Hosts!exchangeVars, Hosts!taskVars, Hosts!boundVars, Hosts!uiVars
<1>2. ListTyped /\ ObjectsTyped /\ ExchangesTyped /\ TasksTyped /\ FlagsTyped
  BY DEF HostTypes
<1>3. ListTyped' /\ ObjectsTyped' /\ TasksTyped' /\ FlagsTyped'
  BY <1>1, <1>2 DEF ListTyped, ObjectsTyped, TasksTyped, FlagsTyped
<1>4. ExchangesTyped'
  <2>1. /\ exchange \in [Threads -> Exchanges]
        /\ hostQuery \in [at : {"idle", "asking", "exited"}, todo : SUBSET Objects]
        /\ plugins \subseteq Objects
    BY <1>2 DEF ExchangesTyped, ListTyped
  <2>2. CASE Hosts!BeginQuery
    <3>1. hostQuery' = [at |-> "asking", todo |-> plugins] /\ exchange' = exchange
      BY <2>2 DEF Hosts!BeginQuery, Hosts!exchangeVars
    <3>2. QED
      BY <1>1, <1>2, <2>1, <3>1 DEF ExchangesTyped
  <2>3. CASE Hosts!EndQuery
    <3>1. /\ exchange' = exchange
          /\ hostQuery' = [hostQuery EXCEPT !.at = "idle"]
               \/ hostQuery' = [hostQuery EXCEPT !.at = "exited"]
      BY <2>3 DEF Hosts!EndQuery, Hosts!exchangeVars
    <3>2. QED
      BY <1>1, <1>2, <2>1, <3>1 DEF ExchangesTyped
  <2>4. ASSUME NEW t \in Queriers, NEW o \in hostQuery.todo, Hosts!AskPlugin(t, o)
        PROVE  ExchangesTyped'
    <3>1. [at |-> "locking", object |-> o] \in Exchanges
      BY <2>1, ExchangeStates
    <3>2. /\ hostQuery' = [hostQuery EXCEPT !.todo = hostQuery.todo \ {o}]
          /\ \/ exchange' = exchange
             \/ exchange' = [exchange EXCEPT ![t] = [at |-> "locking", object |-> o]]
      BY <2>4 DEF Hosts!AskPlugin
    <3>3. exchange' \in [Threads -> Exchanges]
      BY <2>1, <3>1, <3>2
    <3>4. hostQuery' \in [at : {"idle", "asking", "exited"}, todo : SUBSET Objects]
      BY <2>1, <3>2
    <3>5. QED
      BY <1>1, <1>2, <3>3, <3>4 DEF ExchangesTyped
  <2>5. QED
    BY <2>2, <2>3, <2>4 DEF Hosts!QueryStep
<1>5. QED
  BY <1>2, <1>3, <1>4 DEF HostTypes

-----------------------------------------------------------------------------
(* What holds of the plugin hosts in every state, and why.                  *)
HostInv == HostTypes /\ MutexInv /\ PipesInv /\ KnownInv /\ ReloadInv /\ LoadsInv

(* Every step of the plugin hosts keeps the invariant.                      *)
LEMMA HostSteps ==
  ASSUME HostInv, Hosts!Next
  PROVE  HostInv'
<1>1. HostTypes /\ MutexInv /\ PipesInv /\ KnownInv /\ ReloadInv /\ LoadsInv
  BY DEF HostInv
<1>2. MutexInv' /\ PipesInv' /\ KnownInv'
  BY <1>1, HostsKept
<1>3. ASSUME UNCHANGED <<plugins, loads, overwritten, submitted, others, tasks, task, failed,
                         reloadPending, activationPending, messages, ui>>,
             ObjectsTyped' /\ ExchangesTyped'
      PROVE  HostTypes' /\ ReloadInv' /\ LoadsInv'
  <2>1. ListTyped' /\ TasksTyped' /\ FlagsTyped'
    BY <1>1, <1>3 DEF HostTypes, ListTyped, TasksTyped, FlagsTyped
  <2>2. QED
    BY <1>1, <1>3, <2>1, ReloadDepends, LoadsDepend DEF HostTypes
<1>4. ASSUME NEW t \in Threads, Hosts!ExchangeStep(t)
      PROVE  HostTypes' /\ ReloadInv' /\ LoadsInv'
  <2>1. UNCHANGED <<plugins, loads, overwritten, submitted, others, tasks, task, failed,
                    reloadPending, activationPending, messages, ui>>
    BY <1>4 DEF Hosts!ExchangeStep, Hosts!EnsureProcess, Hosts!StartHost, Hosts!WaitForReady,
           Hosts!Peek, Hosts!WriteRequest, Hosts!ReadAnswer, Hosts!pluginVars, Hosts!taskVars,
           Hosts!boundVars, Hosts!uiVars
  <2>2. QED
    BY <1>1, <1>3, <1>4, <2>1, ExchangeKinds
<1>5. ASSUME NEW o \in Objects, Hosts!HostStep(o)
      PROVE  HostTypes' /\ ReloadInv' /\ LoadsInv'
  <2>1. /\ UNCHANGED <<plugins, loads, overwritten, submitted, others, tasks, task, failed,
                       reloadPending, activationPending, messages, ui>>
        /\ UNCHANGED <<exchange, requests, hostQuery>>
    BY <1>5 DEF Hosts!HostStep, Hosts!pluginVars, Hosts!taskVars, Hosts!exchangeVars,
                Hosts!boundVars, Hosts!uiVars
  <2>2. ExchangesTyped'
    BY <1>1, <2>1 DEF HostTypes, ExchangesTyped
  <2>3. QED
    BY <1>1, <1>3, <1>5, <2>1, <2>2, HostKinds
<1>6. ASSUME Hosts!BeginQuery \/ Hosts!QueryStep
      PROVE  HostTypes' /\ ReloadInv' /\ LoadsInv'
  <2>1. UNCHANGED <<plugins, loads, overwritten, submitted, tasks, task, failed, reloadPending,
                    messages>>
    BY <1>6 DEF Hosts!BeginQuery, Hosts!QueryStep, Hosts!AskPlugin, Hosts!EndQuery,
                Hosts!pluginVars, Hosts!taskVars, Hosts!boundVars, Hosts!uiVars
  <2>2. QED
    BY <1>1, <1>6, <2>1, QueryTypes, ReloadDepends, LoadsDepend
<1>7. ASSUME NEW l \in Launchers, Hosts!TaskStep(l)
      PROVE  HostTypes' /\ ReloadInv' /\ LoadsInv'
  BY <1>1, <1>7, TaskTypes, TaskReload, TaskLoads
<1>8. ASSUME UiStep
      PROVE  HostTypes' /\ ReloadInv' /\ LoadsInv'
  BY <1>1, <1>8, UiTypes, UiReload, UiLoads
<1>9. ASSUME Hosts!StopHosts
      PROVE  HostTypes' /\ ReloadInv' /\ LoadsInv'
  <2>1. /\ UNCHANGED <<loads, overwritten, strikes, ioMutex, exchange, requests, hostQuery>>
        /\ UNCHANGED <<submitted, others, tasks, task, failed, reloadPending, activationPending,
                       messages>>
        /\ plugins' = {} /\ ui' = "stopped"
        /\ available' = [o \in Objects |-> available[o] /\ o \notin plugins]
        /\ host' = [o \in Objects |-> IF o \in plugins THEN Hosts!NoHost ELSE host[o]]
    BY <1>9 DEF Hosts!StopHosts, Hosts!exchangeVars, Hosts!taskVars, Hosts!boundVars, Objects
  <2>2. ListTyped' /\ ExchangesTyped' /\ TasksTyped' /\ FlagsTyped'
    BY <1>1, <2>1 DEF HostTypes, ListTyped, ExchangesTyped, TasksTyped, FlagsTyped
  <2>3. ObjectsTyped'
    <3>1. host' \in [Objects -> Processes]
      BY <1>1, <2>1, NoHostFields DEF HostTypes, ObjectsTyped
    <3>2. available' \in [Objects -> BOOLEAN]
      BY <2>1
    <3>3. QED
      BY <1>1, <2>1, <3>1, <3>2 DEF HostTypes, ObjectsTyped
  <2>4. ReloadInv'
    BY <1>1, <2>1 DEF ReloadInv, OneReload, NoneReloading, Reloading, Replacing
  <2>5. LoadsInv'
    BY <1>1, <2>1, LoadsDepend
  <2>6. QED
    BY <2>2, <2>3, <2>4, <2>5 DEF HostTypes
<1>10. HostTypes' /\ ReloadInv' /\ LoadsInv'
  BY <1>4, <1>5, <1>6, <1>7, <1>8, <1>9
     DEF Hosts!Next, Hosts!Shutdown, UiStep, Threads, Objects
<1>11. QED
  BY <1>2, <1>10 DEF HostInv

(* Steps of the other parts leave the hosts alone.                          *)
LEMMA HostStutters ==
  ASSUME HostInv, UNCHANGED processes
  PROVE  HostInv'
<1>1. HostTypes /\ MutexInv /\ PipesInv /\ KnownInv /\ ReloadInv /\ LoadsInv
  BY DEF HostInv
<1>2. HostTypes'
  BY <1>1 DEF processes, HostTypes, ListTyped, ObjectsTyped, ExchangesTyped, TasksTyped, FlagsTyped
<1>3. QED
  BY <1>1, <1>2, HostsLeft, ReloadDepends, LoadsDepend DEF HostInv, processes

(* The invariant holds before the first step.                               *)
LEMMA HostsBegin ==
  ASSUME Hosts!Init \/ Hosts!Absent
  PROVE  HostInv
<1> USE SearchConstants DEF Threads, Hosts!Callers
<1>1. /\ Hosts!NothingYet
      /\ \/ plugins = Hosts!Found(Ids, 1) /\ ui = "running"
            /\ hostQuery = [at |-> "idle", todo |-> {}]
         \/ plugins = {} /\ ui = "stopped" /\ hostQuery = [at |-> "exited", todo |-> {}]
  BY DEF Hosts!Init, Hosts!Absent
<1>2. 1 \in 1 .. Hosts!MaxLoads
  BY DEF Hosts!MaxLoads
<1>3. ListTyped
  <2>1. plugins \subseteq Objects
    BY <1>1, <1>2, FoundObjects
  <2>2. QED
    BY <1>1, <1>2, <2>1 DEF ListTyped, Hosts!NothingYet
<1>4. ObjectsTyped
  <2>1. 0 \in 0 .. Hosts!MaxStrikes
    BY DEF Hosts!MaxStrikes
  <2>2. QED
    BY <1>1, <2>1, NoHostFields DEF ObjectsTyped, Hosts!NothingYet, Objects
<1>5. ExchangesTyped
  <2>1. Hosts!Out \in Exchanges
    BY DEF Exchanges
  <2>2. QED
    BY <1>1, <2>1 DEF ExchangesTyped, Hosts!NothingYet
<1>6. TasksTyped
  <2>1. <<>> \in Seq({"reload", "activate", "other"})
    OBVIOUS
  <2>2. QED
    BY <1>1, <2>1, TaskStates DEF TasksTyped, Hosts!NothingYet
<1>7. FlagsTyped
  <2>1. <<>> \in Seq({"error", "reloaded", "activated"})
    OBVIOUS
  <2>2. QED
    BY <1>1, <2>1 DEF FlagsTyped, Hosts!NothingYet
<1>8. /\ Hosts!Out.at = "out" /\ Hosts!Free.at = "idle"
      /\ \A t \in Threads : exchange[t] = Hosts!Out
      /\ \A l \in Launchers : task[l] = Hosts!Free
      /\ \A o \in Objects : host[o] = Hosts!NoHost /\ ioMutex[o] = Nobody
      /\ tasks = <<>> /\ messages = <<>> /\ ~failed /\ ~overwritten /\ ~reloadPending
      /\ loads = 1 /\ submitted = 0 /\ hostQuery.todo = {}
  BY <1>1 DEF Hosts!NothingYet, Hosts!Out, Hosts!Free, Objects
<1>9. MutexInv
  BY <1>8 DEF MutexInv, Holds, Working
<1>10. PipesInv
  BY <1>8, NoHostFields DEF PipesInv, PipesOf, Quiet
<1>11. KnownInv
  BY <1>8 DEF KnownInv, LauncherKnown, Left
<1>12. ReloadInv
  BY <1>8 DEF ReloadInv, OneReload, NoneReloading, Reloading, Replacing, Has, Once
<1>13. LoadsInv
  <2>1. ReloadingNow = {}
    BY <1>8 DEF ReloadingNow, Reloading
  <2>2. Cardinality(ReloadingNow) = 0
    BY <2>1, FS_EmptySet
  <2>3. PICK f : Counts(f, <<>>) /\ f[1] = 0
    BY CountsNothing
  <2>4. Counts(f, tasks)
    BY <1>8, <2>3
  <2>5. loads + f[1] + Cardinality(ReloadingNow) <= submitted + 1
    BY <1>8, <2>2, <2>3
  <2>6. QED
    BY <2>4, <2>5 DEF LoadsInv
<1>14. QED
  BY <1>3, <1>4, <1>5, <1>6, <1>7, <1>9, <1>10, <1>11, <1>12, <1>13 DEF HostInv, HostTypes

(* The invariant is strong enough for what the runs check.                  *)
LEMMA HostsDoBelong ==
  ASSUME HostInv
  PROVE  HostsBelong
<1>1. \A o \in Objects : host[o] # Hosts!NoHost => Known(o)
  BY DEF HostInv, KnownInv, Left
<1>2. overwritten => failed
  BY DEF HostInv, ReloadInv
<1>3. QED
  BY <1>1, <1>2 DEF HostsBelong, Hosts!HostsBelong, Known, Objects

(* With the pipes as they are kept, what a reader reads is its own answer.  *)
LEMMA AnswersAreOwn ==
  ASSUME HostInv
  PROVE  AnswersOwnRequest
<1>1. SUFFICES ASSUME NEW t \in Threads
      PROVE  /\ exchange[t].at = "writing" => host[exchange[t].object].in = <<>>
             /\ exchange[t].at = "reading" =>
                  \A i \in 1 .. Len(host[exchange[t].object].out) :
                    host[exchange[t].object].out[i] = exchange[t].request
  BY DEF AnswersOwnRequest, Hosts!AnswersOwnRequest, Hosts!At, Threads
<1>2. PipesOf(t)
  BY DEF HostInv, PipesInv
<1>3. exchange[t].at = "writing" => host[exchange[t].object].in = <<>>
  BY <1>2 DEF PipesOf, Quiet
<1>4. ASSUME exchange[t].at = "reading", NEW q, q = host[exchange[t].object].out,
             NEW i \in 1 .. Len(q)
      PROVE  q[i] = exchange[t].request
  <2>1. q = <<>> \/ q = <<exchange[t].request>>
    BY <1>2, <1>4 DEF PipesOf, Answers
  <2>2. QED
    BY <1>4, <2>1
<1>5. QED
  BY <1>3, <1>4

(* The invariant of the plugin hosts holds in every state.                  *)
LEMMA HostInvariance ==
  SearchSpec => []HostInv
<1>1. SearchInit => HostInv
  BY HostsBegin DEF SearchInit
<1>2. HostInv /\ [SearchNext]_<<vars, queries, processes>> => HostInv'
  <2>1. ASSUME HostInv, SearchNext PROVE HostInv'
    BY <2>1, HostSteps, HostStutters DEF SearchNext
  <2>2. ASSUME HostInv, UNCHANGED <<vars, queries, processes>> PROVE HostInv'
    BY <2>2, HostStutters
  <2>3. QED
    BY <2>1, <2>2
<1>3. QED
  BY <1>1, <1>2, PTL DEF SearchSpec

-----------------------------------------------------------------------------
(* What plugins are asked.  The query thread works on a query as long as    *)
(* its text is the one that runs.                                           *)
Words == Texts \cup {None}

AskedTyped ==
  /\ text \in Words /\ cache \subseteq Texts
  /\ found \in BOOLEAN /\ missed \in BOOLEAN /\ rebuildPosted \in BOOLEAN /\ stop \in BOOLEAN
  /\ launcher \in {"idle", "gathered", "asking"}
  /\ generation \in Nat /\ latest \in Nat
  /\ pending \in [text : Words, generation : 0 .. generation]
  /\ running \in [text : Words, generation : 0 .. generation]
  /\ worker \in [at : {"idle", "querying", "publishing", "posting", "exited"}, text : Words]
  /\ reload \in {"no", "clearing", "posting"}
  /\ searches \in 0 .. MaxSearches /\ reloads \in 0 .. MaxReloads

Serves ==
  /\ worker.at \in {"querying", "publishing"} =>
       running.text = worker.text /\ running.text \in Texts
  /\ worker.at \notin {"querying", "publishing"} => running.text = None
  /\ worker.at = "idle" => worker.text = None
  /\ pending = Asked!NoQuery \/ pending.text \in Texts
  /\ launcher # "idle" => text \in Texts

(* Unless the search found the plugins' results, or missed them, something  *)
(* under way makes the launcher search once more.                           *)
OnItsWay ==
  text # None /\ ~stop /\ ~found /\ ~missed =>
    \/ launcher # "idle" \/ rebuildPosted \/ reload # "no" \/ worker.at = "posting"
    \/ pending.text = text /\ pending.generation = latest
    \/ running.text = text /\ running.generation = latest

AskedInv == AskedTyped /\ Serves /\ OnItsWay

(* The invariant holds before the first step.                               *)
LEMMA AskedBegins ==
  ASSUME Asked!Init \/ Asked!Absent
  PROVE  AskedInv
<1>1. /\ Asked!NothingYet
      /\ worker \in {[at |-> "idle", text |-> None], [at |-> "exited", text |-> None]}
      /\ stop \in BOOLEAN
  BY DEF Asked!Init, Asked!Absent, Asked!Idle
<1>2. AskedTyped
  <2>1. Asked!NoQuery \in [text : Words, generation : 0 .. 0]
    BY DEF Asked!NoQuery, Asked!Query, Words
  <2>2. 0 \in 0 .. MaxSearches /\ 0 \in 0 .. MaxReloads
    BY SearchConstants
  <2>3. /\ pending \in [text : Words, generation : 0 .. generation]
        /\ running \in [text : Words, generation : 0 .. generation]
    BY <1>1, <2>1 DEF Asked!NothingYet
  <2>4. worker \in [at : {"idle", "querying", "publishing", "posting", "exited"}, text : Words]
    BY <1>1 DEF Words
  <2>5. QED
    BY <1>1, <2>2, <2>3, <2>4 DEF AskedTyped, Asked!NothingYet, Words
<1>3. Serves /\ OnItsWay
  BY <1>1 DEF Serves, OnItsWay, Asked!NothingYet, Asked!NoQuery, Asked!Query
<1>4. QED
  BY <1>2, <1>3 DEF AskedInv

(* The queries that are made, and the empty one.                            *)
LEMMA QueryMade ==
  ASSUME NEW n \in Nat, NEW w \in Words
  PROVE  /\ Asked!Query(w, n) \in [text : Words, generation : 0 .. n]
         /\ Asked!Query(w, n).text = w /\ Asked!Query(w, n).generation = n
         /\ Asked!NoQuery \in [text : Words, generation : 0 .. n]
         /\ Asked!NoQuery.text = None
BY DEF Asked!Query, Asked!NoQuery, Words

(* A query taken or outdated stays a query.                                 *)
LEMMA QueryRecords ==
  ASSUME NEW n \in Nat, NEW m \in 0 .. n,
         NEW q \in [text : Words, generation : 0 .. n]
  PROVE  /\ [q EXCEPT !.generation = m] \in [text : Words, generation : 0 .. n]
         /\ [q EXCEPT !.generation = m].text = q.text
         /\ [q EXCEPT !.generation = m].generation = m
         /\ [q EXCEPT !.text = None] \in [text : Words, generation : 0 .. n]
         /\ [q EXCEPT !.text = None].text = None
         /\ q \in [text : Words, generation : 0 .. n + 1]
         /\ q.text \in Words /\ q.generation \in 0 .. n
BY DEF Words

(* The query thread's records.                                              *)
LEMMA WorkerRecords ==
  ASSUME NEW w \in [at : {"idle", "querying", "publishing", "posting", "exited"}, text : Words]
  PROVE  /\ w.text \in Words
         /\ w.at \in {"idle", "querying", "publishing", "posting", "exited"}
         /\ \A p \in {"publishing", "posting", "exited"} :
              /\ [w EXCEPT !.at = p] \in [at : {"idle", "querying", "publishing", "posting",
                                                "exited"}, text : Words]
              /\ [w EXCEPT !.at = p].at = p /\ [w EXCEPT !.at = p].text = w.text
         /\ Asked!Idle \in [at : {"idle", "querying", "publishing", "posting", "exited"},
                            text : Words]
         /\ Asked!Idle.at = "idle" /\ Asked!Idle.text = None
BY DEF Asked!Idle, Words

(* Every step of a plugin query keeps the invariant.                        *)
LEMMA AskedSteps ==
  ASSUME AskedInv, Asked!Next
  PROVE  AskedInv'
<1> USE SearchConstants
<1>1. AskedTyped /\ Serves /\ OnItsWay
  BY DEF AskedInv
<1>2. /\ text \in Words /\ generation \in Nat /\ latest \in Nat
      /\ pending \in [text : Words, generation : 0 .. generation]
      /\ running \in [text : Words, generation : 0 .. generation]
      /\ worker \in [at : {"idle", "querying", "publishing", "posting", "exited"}, text : Words]
      /\ pending.text \in Words /\ worker.text \in Words
      /\ generation \in 0 .. generation /\ Asked!NoQuery.text = None
  BY <1>1 DEF AskedTyped, Asked!NoQuery, Asked!Query
<1>3. ASSUME NEW t \in Words, Asked!Gather(t),
             UNCHANGED <<pending, running, latest, cache, worker, reload, stop, reloads>>,
             rebuildPosted' \in BOOLEAN, searches' \in 0 .. MaxSearches
      PROVE  AskedInv'
  <2>1. /\ generation' = generation + 1 /\ text' = t /\ found' = (t \in cache) /\ missed' = FALSE
        /\ launcher' = IF t = None THEN "idle" ELSE "gathered"
    BY <1>3 DEF Asked!Gather
  <2>2. /\ pending' \in [text : Words, generation : 0 .. generation']
        /\ running' \in [text : Words, generation : 0 .. generation']
    BY <1>2, <1>3, <2>1
  <2>6. /\ generation' \in Nat /\ found' \in BOOLEAN /\ missed' \in BOOLEAN /\ text' \in Words
        /\ launcher' \in {"idle", "gathered", "asking"}
    <3>1. generation' \in Nat /\ text' \in Words
      BY <1>2, <1>3, <2>1
    <3>2. found' \in BOOLEAN /\ missed' \in BOOLEAN
      <4>1. found' = (t \in cache) /\ missed' = FALSE
        BY <2>1
      <4>2. (t \in cache) = TRUE \/ (t \in cache) = FALSE
        OBVIOUS
      <4>3. QED
        BY <4>1, <4>2
    <3>3. launcher' \in {"idle", "gathered", "asking"}
      BY <2>1
    <3>4. QED
      BY <3>1, <3>2, <3>3
  <2>3. AskedTyped'
    BY <1>1, <1>3, <2>2, <2>6 DEF AskedTyped
  <2>4. Serves' /\ OnItsWay'
    BY <1>1, <1>3, <2>1 DEF Serves, OnItsWay, Words, Asked!NoQuery
  <2>5. QED
    BY <2>3, <2>4 DEF AskedInv
<1>4. ASSUME NEW t \in Words, Asked!Search(t) PROVE AskedInv'
  <2>1. /\ Asked!Gather(t)
        /\ UNCHANGED <<pending, running, latest, cache, worker, reload, stop, reloads>>
        /\ rebuildPosted' = rebuildPosted /\ searches < MaxSearches /\ searches' = searches + 1
    BY <1>4 DEF Asked!Search, Asked!Acts, Asked!queryVars
  <2>2. rebuildPosted' \in BOOLEAN /\ searches' \in 0 .. MaxSearches
    BY <1>1, <2>1 DEF AskedTyped
  <2>3. QED
    BY <1>3, <2>1, <2>2
<1>5. ASSUME Asked!CheckCache PROVE AskedInv'
  <2>1. /\ launcher = "gathered"
        /\ \/ launcher' = "idle" /\ missed' = ~found
           \/ launcher' = "asking" /\ missed' = missed
        /\ UNCHANGED <<text, found, generation, pending, running, latest, cache, worker, reload,
                       rebuildPosted, stop, searches, reloads>>
    BY <1>5 DEF Asked!CheckCache, Asked!queryVars, Asked!boundVars
  <2>2. AskedTyped'
    BY <1>1, <2>1 DEF AskedTyped
  <2>3. Serves' /\ OnItsWay'
    BY <1>1, <2>1 DEF Serves, OnItsWay, Asked!NoQuery
  <2>4. QED
    BY <2>2, <2>3 DEF AskedInv
<1>6. ASSUME Asked!RequestQuery PROVE AskedInv'
  <2>1. /\ launcher = "asking" /\ launcher' = "idle" /\ latest' = generation
        /\ UNCHANGED <<text, found, missed, generation, cache, worker, reload, rebuildPosted, stop,
                       searches, reloads>>
    BY <1>6 DEF Asked!RequestQuery, Asked!boundVars
  <2>2. text \in Texts /\ text # None
    BY <1>1, <2>1 DEF Serves
  <2>3. CASE /\ running.text = text /\ pending' = pending
             /\ running' = [running EXCEPT !.generation = generation]
    <3>1. /\ running' \in [text : Words, generation : 0 .. generation]
          /\ running'.text = text /\ running'.generation = generation
      BY <1>2, <2>3, QueryRecords
    <3>2. AskedTyped'
      BY <1>1, <2>1, <2>3, <3>1 DEF AskedTyped
    <3>3. Serves' /\ OnItsWay'
      BY <1>1, <2>1, <2>2, <2>3, <3>1 DEF Serves, OnItsWay, Asked!NoQuery
    <3>4. QED
      BY <3>2, <3>3 DEF AskedInv
  <2>4. CASE pending' = Asked!Query(text, generation) /\ running' = running
    <3>1. /\ pending' \in [text : Words, generation : 0 .. generation]
          /\ pending'.text = text /\ pending'.generation = generation
      BY <1>2, <2>4, QueryMade
    <3>2. AskedTyped'
      BY <1>1, <2>1, <2>4, <3>1 DEF AskedTyped
    <3>3. Serves' /\ OnItsWay'
      BY <1>1, <2>1, <2>2, <2>4, <3>1 DEF Serves, OnItsWay
    <3>4. QED
      BY <3>2, <3>3 DEF AskedInv
  <2>5. QED
    BY <1>6, <2>3, <2>4 DEF Asked!RequestQuery, Asked!Renewed
<1>7. ASSUME Asked!Hide PROVE AskedInv'
  <2>1. /\ launcher = "idle" /\ searches < MaxSearches /\ searches' = searches + 1
        /\ text' = None /\ found' = FALSE /\ missed' = FALSE
        /\ pending' = Asked!NoQuery /\ latest' = latest + 1
        /\ UNCHANGED <<launcher, generation, running, cache, worker, reload, rebuildPosted, stop,
                       reloads>>
    BY <1>7 DEF Asked!Hide, Asked!Acts
  <2>2. pending' \in [text : Words, generation : 0 .. generation]
    BY <1>2, <2>1, QueryMade
  <2>6. latest' \in Nat /\ searches' \in 0 .. MaxSearches
    BY <1>1, <1>2, <2>1 DEF AskedTyped
  <2>3. AskedTyped'
    BY <1>1, <2>1, <2>2, <2>6 DEF AskedTyped, Words
  <2>4. Serves' /\ OnItsWay'
    BY <1>1, <2>1 DEF Serves, OnItsWay, Asked!NoQuery
  <2>5. QED
    BY <2>3, <2>4 DEF AskedInv
<1>8. ASSUME Asked!RebuildResults PROVE AskedInv'
  <2>1. /\ rebuildPosted' = FALSE /\ launcher = "idle"
        /\ UNCHANGED <<pending, running, latest, cache, worker, reload, stop, searches, reloads>>
    BY <1>8 DEF Asked!RebuildResults, Asked!queryVars, Asked!boundVars
  <2>2. CASE text = None /\ UNCHANGED <<text, launcher, found, missed, generation>>
    <3>1. AskedTyped'
      BY <1>1, <2>1, <2>2 DEF AskedTyped
    <3>2. Serves' /\ OnItsWay'
      BY <1>1, <2>1, <2>2 DEF Serves, OnItsWay, Asked!NoQuery
    <3>3. QED
      BY <3>1, <3>2 DEF AskedInv
  <2>3. CASE Asked!Gather(text)
    <3>1. searches' \in 0 .. MaxSearches
      BY <1>1, <2>1 DEF AskedTyped
    <3>2. QED
      BY <1>2, <1>3, <2>1, <2>3, <3>1
  <2>4. QED
    BY <1>8, <2>2, <2>3 DEF Asked!RebuildResults, Asked!searchVars
<1>9. ASSUME Asked!Shutdown PROVE AskedInv'
  <2>1. /\ stop' = TRUE /\ pending' = Asked!NoQuery
        /\ UNCHANGED <<text, launcher, found, missed, generation, running, latest, cache, worker,
                       reload, rebuildPosted, searches, reloads>>
    BY <1>9 DEF Asked!Shutdown, Asked!searchVars, Asked!boundVars
  <2>2. pending' \in [text : Words, generation : 0 .. generation]
    BY <1>2, <2>1, QueryMade
  <2>3. AskedTyped'
    BY <1>1, <2>1, <2>2 DEF AskedTyped
  <2>4. Serves' /\ OnItsWay'
    BY <1>1, <2>1 DEF Serves, OnItsWay, Asked!NoQuery
  <2>5. QED
    BY <2>3, <2>4 DEF AskedInv
<1>10. ASSUME Asked!TakeQuery PROVE AskedInv'
  <2>1. /\ worker = Asked!Idle
        /\ UNCHANGED <<text, launcher, found, missed, generation, latest, cache, reload,
                       rebuildPosted, stop, searches, reloads>>
    BY <1>10 DEF Asked!TakeQuery, Asked!searchVars, Asked!boundVars
  <2>2. worker.at = "idle" /\ running.text = None
    BY <1>1, <2>1 DEF Serves, Asked!Idle
  <2>3. CASE /\ stop /\ worker' = [worker EXCEPT !.at = "exited"]
             /\ UNCHANGED <<pending, running>>
    <3>1. /\ worker' \in [at : {"idle", "querying", "publishing", "posting", "exited"},
                          text : Words]
          /\ worker'.at = "exited"
      BY <1>2, <2>3, WorkerRecords
    <3>2. AskedTyped'
      BY <1>1, <2>1, <2>3, <3>1 DEF AskedTyped
    <3>3. Serves' /\ OnItsWay'
      BY <1>1, <2>1, <2>2, <2>3, <3>1 DEF Serves, OnItsWay, Asked!NoQuery
    <3>4. QED
      BY <3>2, <3>3 DEF AskedInv
  <2>4. CASE /\ pending # Asked!NoQuery
             /\ worker' = [at |-> "querying", text |-> pending.text]
             /\ running' = pending /\ pending' = Asked!NoQuery
    <3>1. /\ worker' \in [at : {"idle", "querying", "publishing", "posting", "exited"},
                          text : Words]
          /\ worker'.at = "querying" /\ worker'.text = pending.text
      BY <1>2, <2>4
    <3>2. pending.text \in Texts
      BY <1>1, <2>4 DEF Serves
    <3>3. pending' \in [text : Words, generation : 0 .. generation]
      BY <1>2, <2>4, QueryMade
    <3>4. AskedTyped'
      BY <1>1, <2>1, <2>4, <3>1, <3>3 DEF AskedTyped
    <3>5. Serves' /\ OnItsWay'
      BY <1>1, <2>1, <2>2, <2>4, <3>1, <3>2 DEF Serves, OnItsWay, Asked!NoQuery
    <3>6. QED
      BY <3>4, <3>5 DEF AskedInv
  <2>5. QED
    BY <1>10, <2>3, <2>4 DEF Asked!TakeQuery, Asked!Goes
<1>11. ASSUME Asked!Store PROVE AskedInv'
  <2>1. /\ worker.at = "querying" /\ worker' = [worker EXCEPT !.at = "publishing"]
        /\ cache' \subseteq cache \cup {worker.text}
        /\ UNCHANGED <<text, launcher, found, missed, generation, pending, running, latest, reload,
                       rebuildPosted, stop, searches, reloads>>
    BY <1>11 DEF Asked!Store, Asked!Goes, Asked!searchVars, Asked!queryVars, Asked!boundVars
  <2>2. /\ worker' \in [at : {"idle", "querying", "publishing", "posting", "exited"},
                        text : Words]
        /\ worker'.at = "publishing" /\ worker'.text = worker.text
    BY <1>2, <2>1, WorkerRecords
  <2>3. cache' \subseteq Texts
    BY <1>1, <2>1 DEF AskedTyped, Serves
  <2>4. AskedTyped'
    BY <1>1, <2>1, <2>2, <2>3 DEF AskedTyped
  <2>5. Serves' /\ OnItsWay'
    BY <1>1, <2>1, <2>2 DEF Serves, OnItsWay, Asked!NoQuery
  <2>6. QED
    BY <2>4, <2>5 DEF AskedInv
<1>12. ASSUME Asked!Publish PROVE AskedInv'
  <2>1. /\ worker.at = "publishing"
        /\ UNCHANGED <<text, launcher, found, missed, generation, pending, latest, cache, reload,
                       rebuildPosted, stop, searches, reloads>>
    BY <1>12 DEF Asked!Publish, Asked!searchVars, Asked!boundVars
  <2>2. running.text = worker.text
    BY <1>1, <2>1 DEF Serves
  <2>3. /\ running' = [running EXCEPT !.text = None]
        /\ \/ running.generation = latest /\ worker' = [worker EXCEPT !.at = "posting"]
           \/ running.generation # latest /\ worker' = Asked!Idle
    BY <1>12, <2>2 DEF Asked!Publish, Asked!Newest
  <2>4. /\ running' \in [text : Words, generation : 0 .. generation] /\ running'.text = None
        /\ worker' \in [at : {"idle", "querying", "publishing", "posting", "exited"},
                        text : Words]
        /\ \/ running.generation = latest /\ worker'.at = "posting"
           \/ running.generation # latest /\ worker'.at = "idle" /\ worker'.text = None
    <3>1. /\ [running EXCEPT !.text = None] \in [text : Words, generation : 0 .. generation]
          /\ [running EXCEPT !.text = None].text = None
      BY <1>2, QueryRecords
    <3>2. /\ [worker EXCEPT !.at = "posting"].at = "posting"
          /\ [worker EXCEPT !.at = "posting"]
               \in [at : {"idle", "querying", "publishing", "posting", "exited"}, text : Words]
      BY <1>2, WorkerRecords
    <3>3. /\ Asked!Idle.at = "idle" /\ Asked!Idle.text = None
          /\ Asked!Idle
               \in [at : {"idle", "querying", "publishing", "posting", "exited"}, text : Words]
      BY <1>2, WorkerRecords
    <3>4. QED
      BY <2>3, <3>1, <3>2, <3>3
  <2>5. AskedTyped'
    BY <1>1, <2>1, <2>4 DEF AskedTyped
  <2>6. Serves' /\ OnItsWay'
    BY <1>1, <2>1, <2>4 DEF Serves, OnItsWay, Asked!NoQuery
  <2>7. QED
    BY <2>5, <2>6 DEF AskedInv
<1>13. ASSUME Asked!PostRebuild PROVE AskedInv'
  <2>1. /\ worker.at = "posting" /\ worker' = Asked!Idle /\ rebuildPosted' = TRUE
        /\ UNCHANGED <<text, launcher, found, missed, generation, pending, running, latest, cache,
                       reload, stop, searches, reloads>>
    BY <1>13 DEF Asked!PostRebuild, Asked!searchVars, Asked!queryVars, Asked!boundVars
  <2>2. /\ worker' \in [at : {"idle", "querying", "publishing", "posting", "exited"},
                        text : Words]
        /\ worker'.at = "idle" /\ worker'.text = None
    BY <1>2, <2>1, WorkerRecords
  <2>3. AskedTyped'
    BY <1>1, <2>1, <2>2 DEF AskedTyped
  <2>4. Serves' /\ OnItsWay'
    BY <1>1, <2>1, <2>2 DEF Serves, OnItsWay, Asked!NoQuery
  <2>5. QED
    BY <2>3, <2>4 DEF AskedInv
<1>14. ASSUME Asked!BeginReload \/ Asked!ClearCache \/ Asked!EndReload PROVE AskedInv'
  <2>1. /\ \/ reload' \in {"clearing", "posting"} /\ rebuildPosted' = rebuildPosted
           \/ reload' = "no" /\ rebuildPosted' = TRUE
        /\ cache' \subseteq cache
        /\ reloads' = reloads \/ (reloads < MaxReloads /\ reloads' = reloads + 1)
        /\ UNCHANGED <<text, launcher, found, missed, generation, pending, running, latest, worker,
                       stop, searches>>
    BY <1>14 DEF Asked!BeginReload, Asked!ClearCache, Asked!EndReload, Asked!searchVars,
                 Asked!queryVars, Asked!boundVars
  <2>2. reloads' \in 0 .. MaxReloads
    BY <1>1, <2>1 DEF AskedTyped
  <2>3. AskedTyped'
    BY <1>1, <2>1, <2>2 DEF AskedTyped
  <2>4. Serves' /\ OnItsWay'
    BY <1>1, <2>1 DEF Serves, OnItsWay, Asked!NoQuery
  <2>5. QED
    BY <2>3, <2>4 DEF AskedInv
<1>15. QED
  BY <1>4, <1>5, <1>6, <1>7, <1>8, <1>9, <1>10, <1>11, <1>12, <1>13, <1>14
     DEF Asked!Next, Asked!QueryThread, Words

(* Steps of the other parts leave the plugin queries alone.                 *)
LEMMA AskedStutters ==
  ASSUME AskedInv, UNCHANGED queries
  PROVE  AskedInv'
BY DEF AskedInv, AskedTyped, Serves, OnItsWay, queries, Asked!NoQuery

(* The groups together are the type invariant of PluginQueries.             *)
LEMMA AskedIsTyped ==
  ASSUME AskedInv
  PROVE  Asked!TypeOK
BY DEF AskedInv, AskedTyped, Asked!TypeOK, Words

(* At rest nothing is on its way, so the answer is there or was missed.     *)
LEMMA ResultsDoArrive ==
  ASSUME AskedInv
  PROVE  Asked!ResultsArrive
<1>1. AskedTyped /\ Serves /\ OnItsWay
  BY DEF AskedInv
<1>2. SUFFICES ASSUME text # None, Asked!AtRest PROVE found \/ missed
  BY DEF Asked!ResultsArrive
<1>3. /\ launcher = "idle" /\ ~rebuildPosted /\ ~stop /\ reload = "no"
      /\ worker.at = "idle" /\ pending.text = None
  BY <1>2 DEF Asked!AtRest, Asked!Idle, Asked!NoQuery, Asked!Query
<1>4. running.text = None
  BY <1>1, <1>3 DEF Serves
<1>5. QED
  BY <1>1, <1>2, <1>3, <1>4 DEF OnItsWay

(* The invariant of the plugin queries holds in every state.                *)
LEMMA AskedInvariance ==
  SearchSpec => []AskedInv
<1>1. SearchInit => AskedInv
  BY AskedBegins DEF SearchInit
<1>2. AskedInv /\ [SearchNext]_<<vars, queries, processes>> => AskedInv'
  <2>1. ASSUME AskedInv, SearchNext PROVE AskedInv'
    BY <2>1, AskedSteps, AskedStutters DEF SearchNext
  <2>2. ASSUME AskedInv, UNCHANGED <<vars, queries, processes>> PROVE AskedInv'
    BY <2>2, AskedStutters
  <2>3. QED
    BY <2>1, <2>2
<1>3. QED
  BY <1>1, <1>2, PTL DEF SearchSpec

-----------------------------------------------------------------------------
(* The presentation of a search.  The types, by what holds them.            *)
Events == [kind : {"results"}, results : Request]
            \cup [kind : {"snapshot"}, revision : 1 .. MaxData]

FoundResults(r) == [kind |-> "results", results |-> r]
Snapshot(n)     == [kind |-> "snapshot", revision |-> n]

ScreenTyped ==
  /\ visible \in BOOLEAN /\ otherSurface \in BOOLEAN /\ query \in Queries
  /\ rebuild \in BOOLEAN /\ unsearched \in BOOLEAN /\ turn \in BOOLEAN /\ threw \in BOOLEAN
  /\ typed \in 0 .. MaxTyped /\ shows \in 0 .. MaxShows

RevisionsTyped ==
  /\ dataRevision \in 1 .. MaxData
  /\ snapshotRevision \in 0 .. MaxData /\ snapshotScheduledRevision \in 0 .. MaxData

ShownTyped ==
  /\ requested \in Nat /\ completed \in Nat /\ displayed \in Nat
  /\ hasRenderedResults \in BOOLEAN /\ warm \in BOOLEAN /\ shown \in Results
  /\ latestResults \in Request \cup {None}

WorkersTyped ==
  /\ searchEvents \in Seq(Events)
  /\ search \in Worker(Request) /\ build \in Worker(1 .. MaxData)

SearchTyped == ScreenTyped /\ RevisionsTyped /\ ShownTyped /\ WorkersTyped

(* The groups together are the type invariant of SearchPresentation.        *)
LEMMA SearchIsTyped == SearchTyped => TypeOK
BY DEF SearchTyped, ScreenTyped, RevisionsTyped, ShownTyped, WorkersTyped, TypeOK, Events

(* An event is of one of two kinds, and what it carries.                    *)
LEMMA EventFields ==
  ASSUME NEW e \in Events
  PROVE  /\ e.kind = "results" => e.results \in Request /\ e = FoundResults(e.results)
         /\ e.kind = "snapshot" => e.revision \in 1 .. MaxData /\ e = Snapshot(e.revision)
         /\ e.kind \in {"results", "snapshot"}
<1>1. CASE e \in [kind : {"results"}, results : Request]
  BY <1>1 DEF FoundResults
<1>2. CASE e \in [kind : {"snapshot"}, revision : 1 .. MaxData]
  BY <1>2 DEF Snapshot
<1>3. QED
  BY <1>1, <1>2 DEF Events

(* The two kinds of events.                                                 *)
LEMMA EventKinds ==
  /\ \A r \in Request : /\ FoundResults(r) \in Events /\ FoundResults(r).kind = "results"
                        /\ FoundResults(r).results = r
  /\ \A n \in 1 .. MaxData : /\ Snapshot(n) \in Events /\ Snapshot(n).kind = "snapshot"
                             /\ Snapshot(n).revision = n
BY DEF Events, FoundResults, Snapshot

(* The records of requests and results, and their fields.                   *)
LEMMA RequestFields ==
  /\ \A g, f \in Nat, q \in Queries :
       [generation |-> g, query |-> q, from |-> f] \in Request
  /\ \A r \in Request : r.generation \in Nat /\ r.query \in Queries /\ r.from \in Nat /\ r # None
  /\ \A g, f, n \in Nat, q \in Queries :
       [generation |-> g, query |-> q, from |-> f, revision |-> n] \in Results
BY NoneIsNoRequest DEF Request, Results

(* The fields of a worker.                                                  *)
LEMMA WorkerFields ==
  ASSUME NEW J, NEW w \in Worker(J)
  PROVE  /\ w.pending \in J \cup {None} /\ w.job \in J \cup {None} /\ w.latest \in Nat
         /\ w.phase \in {"idle", "working", "delivering"}
         /\ \A p, j \in J \cup {None}, n \in Nat, x \in {"idle", "working", "delivering"} :
              [pending |-> p, latest |-> n, job |-> j, phase |-> x] \in Worker(J)
         /\ Idle \in Worker(J)
BY DEF Worker, Idle

(* A worker that is asked: the newest request replaces the one before.      *)
LEMMA WorkerAsked ==
  ASSUME NEW J, NEW w \in Worker(J), NEW n \in Nat, NEW r \in J \cup {None},
         NEW v, v = Latest(w, n, r)
  PROVE  /\ v \in Worker(J) /\ v.pending = r /\ v.latest = n
         /\ v.job = w.job /\ v.phase = w.phase
BY DEF Worker, Latest

(* A worker that takes its request.                                         *)
LEMMA WorkerTakes ==
  ASSUME NEW J, NEW w \in Worker(J), w.pending # None, NEW v, v = Takes(w)
  PROVE  /\ v \in Worker(J) /\ v.pending = None /\ v.latest = w.latest
         /\ v.job = w.pending /\ v.phase = "working"
BY DEF Worker, Takes

(* A worker that has ended or dropped its job.                              *)
LEMMA WorkerRests ==
  ASSUME NEW J, NEW w \in Worker(J), NEW v, v = Rests(w)
  PROVE  /\ v \in Worker(J) /\ v.pending = w.pending /\ v.latest = w.latest
         /\ v.job = None /\ v.phase = "idle"
BY DEF Worker, Rests

(* A worker that goes on to deliver.                                        *)
LEMMA WorkerDelivers ==
  ASSUME NEW J, NEW w \in Worker(J), NEW v, v = [w EXCEPT !.phase = "delivering"]
  PROVE  /\ v \in Worker(J) /\ v.pending = w.pending /\ v.latest = w.latest
         /\ v.job = w.job /\ v.phase = "delivering"
BY DEF Worker

(* An event appended keeps the queue one of events.                         *)
LEMMA EventTypes ==
  ASSUME NEW e \in Events, NEW q \in Seq(Events)
  PROVE  Append(q, e) \in Seq(Events)
OBVIOUS

-----------------------------------------------------------------------------
(* What a search asked for does: an answer at once, or a request for the    *)
(* worker and, when the snapshot is behind, for a new one.                  *)
AnswersAtOnce(words) ==
  /\ completed' = requested + 1 /\ displayed' = requested + 1
  /\ hasRenderedResults' = TRUE /\ warm' = FALSE
  /\ shown' = [generation |-> requested + 1, query |-> words, from |-> dataRevision,
               revision |-> dataRevision]
  /\ UNCHANGED <<snapshotScheduledRevision, build, search>>

SchedulesFor(have) ==
  \/ /\ have # dataRevision /\ snapshotScheduledRevision' = dataRevision
     /\ build' = Latest(build, dataRevision, dataRevision)
  \/ /\ have = dataRevision \/ snapshotScheduledRevision = dataRevision
     /\ UNCHANGED <<snapshotScheduledRevision, build>>

AsksTheWorker(words, have) ==
  /\ search' = Latest(search, requested + 1,
                      [generation |-> requested + 1, query |-> words, from |-> have])
  /\ UNCHANGED <<completed, displayed>>
  /\ SchedulesFor(have)

(* ScheduleSnapshotBuild, with its condition.                               *)
LEMMA ScheduleCases ==
  ASSUME NEW have, ScheduleSnapshotBuild(dataRevision, have)
  PROVE  SchedulesFor(have)
BY DEF ScheduleSnapshotBuild, BuildDue, SchedulesFor

(* RequestSearch, by the two ways it answers.                               *)
LEMMA SearchCases ==
  ASSUME NEW words, NEW have, RequestSearch(words, have)
  PROVE  /\ requested' = requested + 1 /\ unsearched' = FALSE
         /\ \/ AnswersAtOnce(words)
            \/ words \notin CompactQueries /\ AsksTheWorker(words, have)
<1>1. requested' = requested + 1 /\ unsearched' = FALSE
  BY DEF RequestSearch, NextGeneration
<1>2. CASE words \in CompactQueries
  BY <1>1, <1>2 DEF RequestSearch, Render, AnswersAtOnce
<1>3. CASE words \notin CompactQueries
  BY <1>1, <1>3, ScheduleCases DEF RequestSearch, AsksTheWorker
<1>4. QED
  BY <1>1, <1>2, <1>3

(* A build scheduled keeps the types.                                       *)
LEMMA ScheduleTypes ==
  ASSUME RevisionsTyped, WorkersTyped, NEW have, SchedulesFor(have)
  PROVE  snapshotScheduledRevision' \in 0 .. MaxData /\ build' \in Worker(1 .. MaxData)
<1>1. dataRevision \in 0 .. MaxData /\ dataRevision \in Nat
      /\ dataRevision \in (1 .. MaxData) \cup {None}
  BY SearchBounds DEF RevisionsTyped
<1>2. build \in Worker(1 .. MaxData) /\ snapshotScheduledRevision \in 0 .. MaxData
  BY DEF WorkersTyped, RevisionsTyped
<1>3. Latest(build, dataRevision, dataRevision) \in Worker(1 .. MaxData)
  BY <1>1, <1>2, WorkerAsked
<1>4. QED
  BY <1>1, <1>2, <1>3 DEF SchedulesFor

(* A search asked for keeps the types of what is shown and of the workers.  *)
LEMMA SearchTypes ==
  ASSUME SearchTyped, NEW words \in Queries, NEW have \in 0 .. MaxData,
         RequestSearch(words, have),
         words \notin CompactQueries =>
           hasRenderedResults' \in BOOLEAN /\ warm' \in BOOLEAN /\ shown' \in Results,
         latestResults' = latestResults
  PROVE  /\ ShownTyped' /\ unsearched' \in BOOLEAN
         /\ snapshotScheduledRevision' \in 0 .. MaxData
         /\ search' \in Worker(Request) /\ build' \in Worker(1 .. MaxData)
<1>1. ShownTyped /\ RevisionsTyped /\ WorkersTyped
  BY DEF SearchTyped
<1>2. /\ requested + 1 \in Nat /\ have \in Nat /\ dataRevision \in Nat
      /\ requested' = requested + 1 /\ unsearched' = FALSE
  <2>1. requested' = requested + 1 /\ unsearched' = FALSE
    BY SearchCases
  <2>2. requested + 1 \in Nat
    BY <1>1 DEF ShownTyped
  <2>3. have \in Nat /\ dataRevision \in Nat
    BY <1>1, SearchBounds DEF RevisionsTyped
  <2>4. QED
    BY <2>1, <2>2, <2>3
<1>3. ASSUME AnswersAtOnce(words) PROVE ShownTyped'
  <2>1. shown' \in Results
    BY <1>2, <1>3, RequestFields DEF AnswersAtOnce
  <2>2. QED
    BY <1>1, <1>2, <1>3, <2>1 DEF ShownTyped, AnswersAtOnce
<1>4. ASSUME words \notin CompactQueries, AsksTheWorker(words, have)
      PROVE  ShownTyped' /\ search' \in Worker(Request)
  <2>1. [generation |-> requested + 1, query |-> words, from |-> have] \in Request
    BY <1>2, RequestFields
  <2>2. search' \in Worker(Request)
    BY <1>1, <1>2, <1>4, <2>1, WorkerAsked DEF AsksTheWorker, WorkersTyped
  <2>3. ShownTyped'
    BY <1>1, <1>2, <1>4 DEF ShownTyped, AsksTheWorker
  <2>4. QED
    BY <2>2, <2>3
<1>5. ASSUME AnswersAtOnce(words)
      PROVE  /\ snapshotScheduledRevision' \in 0 .. MaxData
             /\ search' \in Worker(Request) /\ build' \in Worker(1 .. MaxData)
  BY <1>1, <1>5 DEF AnswersAtOnce, RevisionsTyped, WorkersTyped
<1>6. ASSUME AsksTheWorker(words, have)
      PROVE  snapshotScheduledRevision' \in 0 .. MaxData /\ build' \in Worker(1 .. MaxData)
  BY <1>1, <1>6, ScheduleTypes DEF AsksTheWorker
<1>7. QED
  BY <1>2, <1>3, <1>4, <1>5, <1>6, SearchCases

(* EnterBackground, as the other proofs use it.                             *)
LEMMA BackgroundFacts ==
  ASSUME SearchTyped, EnterBackground
  PROVE  /\ requested' = requested + 1
         /\ dataRevision' \in 1 .. MaxData /\ dataRevision <= dataRevision'
         /\ snapshotRevision' \in {0, snapshotRevision} /\ snapshotScheduledRevision' = 0
         /\ search' = Latest(search, requested + 1, None)
         /\ build' = Latest(build, build.latest + 1, None)
         /\ search' \in Worker(Request) /\ build' \in Worker(1 .. MaxData)
<1>1. dataRevision \in 1 .. MaxData /\ requested \in Nat
      /\ search \in Worker(Request) /\ build \in Worker(1 .. MaxData)
  BY DEF SearchTyped, RevisionsTyped, ShownTyped, WorkersTyped
<1>2. build.latest + 1 \in Nat /\ requested + 1 \in Nat
  BY <1>1, WorkerFields
<1>3. /\ requested' = requested + 1 /\ snapshotScheduledRevision' = 0
      /\ search' = Latest(search, requested + 1, None)
      /\ build' = Latest(build, build.latest + 1, None)
  BY DEF EnterBackground, NextGeneration, Latest
<1>4. /\ dataRevision' \in 1 .. MaxData /\ dataRevision <= dataRevision'
      /\ snapshotRevision' \in {0, snapshotRevision}
  <2>1. PICK large \in BOOLEAN, files \in BOOLEAN :
          /\ files => dataRevision < MaxData
          /\ dataRevision' = IF files THEN dataRevision + 1 ELSE dataRevision
          /\ snapshotRevision' = IF large \/ files THEN 0 ELSE snapshotRevision
    BY DEF EnterBackground
  <2>2. dataRevision' = dataRevision \/ (dataRevision < MaxData /\ dataRevision' = dataRevision + 1)
    BY <2>1
  <2>3. QED
    BY <1>1, <2>1, <2>2, SearchBounds
<1>5. search' \in Worker(Request) /\ build' \in Worker(1 .. MaxData)
  BY <1>1, <1>2, <1>3, WorkerAsked
<1>6. QED
  BY <1>3, <1>4, <1>5

-----------------------------------------------------------------------------
(* The types are kept by every step.                                        *)
LEMMA SearchTypesBegin == Init \/ SearchOver => SearchTyped
<1> SUFFICES ASSUME Init \/ SearchOver PROVE SearchTyped
  OBVIOUS
<1>1. query \in Queries
  BY SearchConstants DEF Init, SearchOver
<1>2. shown = Blank(query) /\ Blank(query) \in Results
  BY <1>1, RequestFields DEF Init, SearchOver, Blank
<1>3. 0 \in 0 .. MaxTyped /\ 0 \in 0 .. MaxShows /\ MaxTyped \in 0 .. MaxTyped
      /\ MaxShows \in 0 .. MaxShows /\ 0 \in 0 .. MaxData
      /\ 1 \in 1 .. MaxData /\ MaxData \in 1 .. MaxData
  BY SearchBounds
<1>4. ScreenTyped
  BY <1>1, <1>3 DEF Init, SearchOver, ScreenTyped
<1>5. RevisionsTyped
  BY <1>3 DEF Init, SearchOver, RevisionsTyped
<1>6. ShownTyped
  <2>1. /\ requested = 0 /\ completed = 0 /\ displayed = 0
        /\ hasRenderedResults = FALSE /\ warm = FALSE /\ latestResults = None
    BY DEF Init, SearchOver
  <2>2. shown \in Results
    BY <1>2
  <2>3. QED
    BY <2>1, <2>2 DEF ShownTyped
<1>7. search = Idle /\ build = Idle /\ searchEvents = <<>>
  BY DEF Init, SearchOver
<1>8. Idle \in Worker(Request) /\ Idle \in Worker(1 .. MaxData) /\ <<>> \in Seq(Events)
  BY DEF Idle, Worker
<1>9. WorkersTyped
  BY <1>7, <1>8 DEF WorkersTyped
<1>10. QED
  BY <1>4, <1>5, <1>6, <1>9 DEF SearchTyped

(* The steps that ask for a search: an edit, the overlay shown, data        *)
(* rebuilt for it, a snapshot that is current.                              *)
LEMMA AskingTypes ==
  ASSUME SearchTyped, NEW words \in Queries, NEW have \in 0 .. MaxData,
         RequestSearch(words, have),
         words \notin CompactQueries =>
           hasRenderedResults' \in BOOLEAN /\ warm' \in BOOLEAN /\ shown' \in Results,
         latestResults' = latestResults,
         query' = words, snapshotRevision' = have, dataRevision' = dataRevision,
         {visible', otherSurface', rebuild', turn', threw'} \subseteq BOOLEAN,
         typed' \in 0 .. MaxTyped, shows' \in 0 .. MaxShows,
         searchEvents' \in Seq(Events)
  PROVE  SearchTyped'
<1>1. /\ ShownTyped' /\ unsearched' \in BOOLEAN
      /\ snapshotScheduledRevision' \in 0 .. MaxData
      /\ search' \in Worker(Request) /\ build' \in Worker(1 .. MaxData)
  BY SearchTypes
<1>2. ScreenTyped'
  BY <1>1 DEF ScreenTyped
<1>3. RevisionsTyped'
  BY <1>1 DEF SearchTyped, RevisionsTyped
<1>4. WorkersTyped'
  BY <1>1 DEF WorkersTyped
<1>5. QED
  BY <1>1, <1>2, <1>3, <1>4 DEF SearchTyped

(* An edit of the text keeps the types.                                     *)
LEMMA TypeTypes ==
  ASSUME SearchTyped, NEW words \in Queries, Type(words)
  PROVE  SearchTyped'
<1>1. /\ typed < MaxTyped /\ typed' = typed + 1 /\ query' = words
      /\ RequestSearch(words, snapshotRevision)
      /\ words \notin CompactQueries => UNCHANGED <<hasRenderedResults, shown, warm>>
      /\ UNCHANGED <<visible, otherSurface, dataRevision, snapshotRevision, rebuild, turn,
                     latestResults, searchEvents, shows, threw>>
  BY DEF Type, windowVars, turnVars, renderedVars
<1>2. ScreenTyped /\ RevisionsTyped /\ ShownTyped /\ WorkersTyped
  BY DEF SearchTyped
<1>3. typed' \in 0 .. MaxTyped
  BY <1>1, <1>2, SearchBounds DEF ScreenTyped
<1>4. {visible', otherSurface', rebuild', turn', threw'} \subseteq BOOLEAN
      /\ shows' \in 0 .. MaxShows
  BY <1>1, <1>2 DEF ScreenTyped
<1>5. words \notin CompactQueries =>
        hasRenderedResults' \in BOOLEAN /\ warm' \in BOOLEAN /\ shown' \in Results
  BY <1>1, <1>2 DEF ShownTyped
<1>6. snapshotRevision \in 0 .. MaxData /\ searchEvents' \in Seq(Events)
  BY <1>1, <1>2 DEF RevisionsTyped, WorkersTyped
<1>7. QED
  BY <1>1, <1>3, <1>4, <1>5, <1>6, AskingTypes

(* The overlay shown keeps the types.                                       *)
LEMMA ShowTypes ==
  ASSUME SearchTyped, NEW words \in Queries, Show(words)
  PROVE  SearchTyped'
<1>1. /\ shows < MaxShows /\ shows' = shows + 1 /\ query' = words /\ visible' = TRUE
      /\ otherSurface' \in {otherSurface, FALSE}
      /\ RequestSearch(words, snapshotRevision)
      /\ words \notin CompactQueries =>
           /\ hasRenderedResults' = Reusable(words) /\ warm' = Reusable(words)
           /\ shown' = IF Reusable(words) THEN shown ELSE Blank(words)
      /\ UNCHANGED <<dataRevision, snapshotRevision, rebuild, turn, latestResults, searchEvents,
                     typed, threw>>
  BY DEF Show, turnVars
<1>2. ScreenTyped /\ RevisionsTyped /\ ShownTyped /\ WorkersTyped
  BY DEF SearchTyped
<1>3. shows' \in 0 .. MaxShows
  BY <1>1, <1>2, SearchBounds DEF ScreenTyped
<1>4. {visible', otherSurface', rebuild', turn', threw'} \subseteq BOOLEAN
      /\ typed' \in 0 .. MaxTyped
  BY <1>1, <1>2 DEF ScreenTyped
<1>5. words \notin CompactQueries =>
        hasRenderedResults' \in BOOLEAN /\ warm' \in BOOLEAN /\ shown' \in Results
  <2>1. Reusable(words) \in BOOLEAN
    BY <1>2 DEF Reusable, ShownTyped
  <2>2. Blank(words) \in Results /\ shown \in Results
    BY <1>2, RequestFields DEF Blank, ShownTyped
  <2>3. QED
    BY <1>1, <2>1, <2>2
<1>6. snapshotRevision \in 0 .. MaxData /\ searchEvents' \in Seq(Events)
  BY <1>1, <1>2 DEF RevisionsTyped, WorkersTyped
<1>7. QED
  BY <1>1, <1>3, <1>4, <1>5, <1>6, AskingTypes

(* WM_REBUILD_RESULTS keeps the types.                                      *)
LEMMA RebuildTypes ==
  ASSUME SearchTyped, RebuildResults
  PROVE  SearchTyped'
<1>1. /\ rebuild' = FALSE
      /\ UNCHANGED <<visible, otherSurface, query, dataRevision, snapshotRevision, turn,
                     latestResults, searchEvents, typed, shows, threw>>
  BY DEF RebuildResults, windowVars, turnVars
<1>2. ScreenTyped /\ RevisionsTyped /\ ShownTyped /\ WorkersTyped
  BY DEF SearchTyped
<1>3. ASSUME visible PROVE SearchTyped'
  <2>1. /\ RequestSearch(query, snapshotRevision)
        /\ query \notin CompactQueries => UNCHANGED <<hasRenderedResults, shown, warm>>
    BY <1>3 DEF RebuildResults, renderedVars
  <2>2. {visible', otherSurface', rebuild', turn', threw'} \subseteq BOOLEAN
        /\ shows' \in 0 .. MaxShows /\ typed' \in 0 .. MaxTyped /\ query \in Queries
    BY <1>1, <1>2 DEF ScreenTyped
  <2>3. query \notin CompactQueries =>
          hasRenderedResults' \in BOOLEAN /\ warm' \in BOOLEAN /\ shown' \in Results
    BY <2>1, <1>2 DEF ShownTyped
  <2>4. snapshotRevision \in 0 .. MaxData /\ searchEvents' \in Seq(Events)
    BY <1>1, <1>2 DEF RevisionsTyped, WorkersTyped
  <2>5. QED
    BY <1>1, <2>1, <2>2, <2>3, <2>4, AskingTypes
<1>4. ASSUME ~visible PROVE SearchTyped'
  <2>1. UNCHANGED <<requested, completed, displayed, unsearched, snapshotScheduledRevision, build,
                    search, hasRenderedResults, shown, warm>>
    BY <1>4 DEF RebuildResults, requestVars, renderedVars
  <2>2. ScreenTyped' /\ RevisionsTyped' /\ ShownTyped' /\ WorkersTyped'
    BY <1>1, <1>2, <2>1 DEF ScreenTyped, RevisionsTyped, ShownTyped, WorkersTyped
  <2>3. QED
    BY <2>2 DEF SearchTyped
<1>5. QED
  BY <1>3, <1>4

(* Data that changes and windows that open and close keep the types.        *)
LEMMA WindowTypes ==
  ASSUME SearchTyped, ChangeData \/ Hide \/ ShowOther \/ HideOther
  PROVE  SearchTyped'
<1>1. ScreenTyped /\ RevisionsTyped /\ ShownTyped /\ WorkersTyped
  BY DEF SearchTyped
<1>2. ASSUME ChangeData PROVE SearchTyped'
  <2>1. /\ dataRevision < MaxData /\ dataRevision' = dataRevision + 1
        /\ unsearched' = TRUE /\ rebuild' \in {rebuild, TRUE}
        /\ UNCHANGED <<visible, otherSurface, query, snapshotRevision, snapshotScheduledRevision,
                       requested, completed, displayed, hasRenderedResults, shown, warm, turn,
                       latestResults, searchEvents, search, build, typed, shows, threw>>
    BY <1>2 DEF ChangeData, windowVars, requestVars, renderedVars, turnVars
  <2>2. dataRevision' \in 1 .. MaxData
    BY <1>1, <2>1, SearchBounds DEF RevisionsTyped
  <2>3. ScreenTyped' /\ RevisionsTyped' /\ ShownTyped' /\ WorkersTyped'
    BY <1>1, <2>1, <2>2 DEF ScreenTyped, RevisionsTyped, ShownTyped, WorkersTyped
  <2>4. QED
    BY <2>3 DEF SearchTyped
<1>3. ASSUME ShowOther PROVE SearchTyped'
  <2>1. /\ shows < MaxShows /\ shows' = shows + 1 /\ otherSurface' = TRUE
        /\ UNCHANGED <<visible, query, dataRevision, snapshotRevision, snapshotScheduledRevision,
                       requested, completed, displayed, hasRenderedResults, shown, warm, rebuild,
                       unsearched, turn, latestResults, searchEvents, search, build, typed,
                       threw>>
    BY <1>3 DEF ShowOther, dataVars, requestVars, renderedVars, turnVars
  <2>2. shows' \in 0 .. MaxShows
    BY <1>1, <2>1, SearchBounds DEF ScreenTyped
  <2>3. ScreenTyped' /\ RevisionsTyped' /\ ShownTyped' /\ WorkersTyped'
    BY <1>1, <2>1, <2>2 DEF ScreenTyped, RevisionsTyped, ShownTyped, WorkersTyped
  <2>4. QED
    BY <2>3 DEF SearchTyped
<1>4. ASSUME Hide \/ HideOther PROVE SearchTyped'
  <2>1. /\ visible' \in {visible, FALSE} /\ otherSurface' \in {otherSurface, FALSE}
        /\ \/ EnterBackground
           \/ UNCHANGED <<dataRevision, snapshotRevision, snapshotScheduledRevision, requested,
                          build, search>>
        /\ UNCHANGED <<query, completed, displayed, hasRenderedResults, shown, warm, rebuild,
                       unsearched, turn, latestResults, searchEvents, typed, shows, threw>>
    BY <1>4 DEF Hide, HideOther, dataVars, renderedVars, turnVars
  <2>2. ScreenTyped'
    BY <1>1, <2>1 DEF ScreenTyped
  <2>3. ASSUME EnterBackground PROVE RevisionsTyped' /\ ShownTyped' /\ WorkersTyped'
    <3>1. /\ requested' = requested + 1
          /\ dataRevision' \in 1 .. MaxData
          /\ snapshotRevision' \in {0, snapshotRevision} /\ snapshotScheduledRevision' = 0
          /\ search' \in Worker(Request) /\ build' \in Worker(1 .. MaxData)
      BY <2>3, BackgroundFacts
    <3>2. 0 \in 0 .. MaxData
      BY SearchBounds
    <3>3. RevisionsTyped'
      BY <1>1, <3>1, <3>2 DEF RevisionsTyped
    <3>4. requested' \in Nat
      BY <1>1, <3>1 DEF ShownTyped
    <3>5. ShownTyped' /\ WorkersTyped'
      BY <1>1, <2>1, <3>1, <3>4 DEF ShownTyped, WorkersTyped
    <3>6. QED
      BY <3>3, <3>5
  <2>4. ASSUME UNCHANGED <<dataRevision, snapshotRevision, snapshotScheduledRevision, requested,
                           build, search>>
        PROVE  RevisionsTyped' /\ ShownTyped' /\ WorkersTyped'
    BY <1>1, <2>1, <2>4 DEF RevisionsTyped, ShownTyped, WorkersTyped
  <2>5. QED
    BY <2>1, <2>2, <2>3, <2>4 DEF SearchTyped
<1>5. QED
  BY <1>2, <1>3, <1>4

(* The later of two generations is a generation.                            *)
LEMMA LaterOfIsNat == \A m, n \in Nat : LaterOf(m, n) \in Nat
BY DEF LaterOf

(* Results heard of keep the types; what is heard is a request.             *)
LEMMA HearResultsTypes ==
  ASSUME SearchTyped, HearResults
  PROVE  /\ SearchTyped' /\ Head(searchEvents) \in Events
         /\ Head(searchEvents) = FoundResults(Head(searchEvents).results)
         /\ Head(searchEvents).results \in Request
<1>1. ScreenTyped /\ RevisionsTyped /\ ShownTyped /\ WorkersTyped
  BY DEF SearchTyped
<1>2. /\ searchEvents # <<>> /\ Head(searchEvents).kind = "results"
      /\ turn' = TRUE /\ searchEvents' = Tail(searchEvents)
      /\ completed' = LaterOf(completed, Head(searchEvents).results.generation)
      /\ latestResults' \in {Head(searchEvents).results, latestResults}
      /\ UNCHANGED <<visible, otherSurface, query, dataRevision, snapshotRevision,
                     snapshotScheduledRevision, requested, displayed, hasRenderedResults, shown,
                     warm, rebuild, unsearched, search, build, typed, shows, threw>>
  BY DEF HearResults, windowVars, dataVars, renderedVars
<1>3. Head(searchEvents) \in Events /\ Tail(searchEvents) \in Seq(Events)
  BY <1>1, <1>2, Z3 DEF WorkersTyped
<1>4. /\ Head(searchEvents) = FoundResults(Head(searchEvents).results)
      /\ Head(searchEvents).results \in Request
  BY <1>2, <1>3, EventFields
<1>5. Head(searchEvents).results.generation \in Nat
  BY <1>4, RequestFields
<1>6. completed' \in Nat
  BY <1>1, <1>2, <1>5, LaterOfIsNat DEF ShownTyped
<1>7. latestResults' \in Request \cup {None}
  BY <1>1, <1>2, <1>4 DEF ShownTyped
<1>8. ScreenTyped' /\ RevisionsTyped'
  BY <1>1, <1>2 DEF ScreenTyped, RevisionsTyped
<1>9. ShownTyped'
  BY <1>1, <1>2, <1>6, <1>7 DEF ShownTyped
<1>10. WorkersTyped'
  BY <1>1, <1>2, <1>3 DEF WorkersTyped
<1>11. QED
  BY <1>3, <1>4, <1>8, <1>9, <1>10 DEF SearchTyped

(* A snapshot heard of keeps the types; what is heard is a revision.        *)
LEMMA HearSnapshotTypes ==
  ASSUME SearchTyped, HearSnapshot
  PROVE  /\ SearchTyped' /\ Head(searchEvents) \in Events
         /\ Head(searchEvents) = Snapshot(Head(searchEvents).revision)
         /\ Head(searchEvents).revision \in 1 .. MaxData
<1>1. ScreenTyped /\ RevisionsTyped /\ ShownTyped /\ WorkersTyped
  BY DEF SearchTyped
<1>2. /\ searchEvents # <<>> /\ Head(searchEvents).kind = "snapshot"
      /\ turn' = TRUE /\ searchEvents' = Tail(searchEvents)
      /\ UNCHANGED <<visible, otherSurface, query, dataRevision, rebuild, latestResults, typed,
                     shows, threw>>
  BY DEF HearSnapshot, windowVars
<1>3. Head(searchEvents) \in Events /\ Tail(searchEvents) \in Seq(Events)
  BY <1>1, <1>2, Z3 DEF WorkersTyped
<1>4. /\ Head(searchEvents) = Snapshot(Head(searchEvents).revision)
      /\ Head(searchEvents).revision \in 1 .. MaxData
  BY <1>2, <1>3, EventFields
<1>5. Head(searchEvents).revision \in 0 .. MaxData /\ 0 \in 0 .. MaxData
  BY <1>4, SearchBounds
<1>6. ASSUME visible, snapshotRevision' = Head(searchEvents).revision,
             Head(searchEvents).revision = dataRevision,
             RequestSearch(query, Head(searchEvents).revision),
             query \notin CompactQueries => UNCHANGED renderedVars
      PROVE  SearchTyped'
  <2>1. query \in Queries
    BY <1>1 DEF ScreenTyped
  <2>2. query \notin CompactQueries =>
          hasRenderedResults' \in BOOLEAN /\ warm' \in BOOLEAN /\ shown' \in Results
    BY <1>6, <1>1 DEF ShownTyped, renderedVars
  <2>3. {visible', otherSurface', rebuild', turn', threw'} \subseteq BOOLEAN
        /\ shows' \in 0 .. MaxShows /\ typed' \in 0 .. MaxTyped
    BY <1>1, <1>2 DEF ScreenTyped
  <2>4. searchEvents' \in Seq(Events)
    BY <1>2, <1>3
  <2>5. QED
    BY <1>2, <1>5, <1>6, <2>1, <2>2, <2>3, <2>4, AskingTypes
<1>7. ASSUME UNCHANGED <<snapshotRevision, requested, completed, displayed, hasRenderedResults,
                         shown, warm, unsearched, search>>,
             snapshotScheduledRevision' \in 0 .. MaxData, build' \in Worker(1 .. MaxData)
      PROVE  SearchTyped'
  <2>1. ScreenTyped' /\ RevisionsTyped'
    BY <1>1, <1>2, <1>7 DEF ScreenTyped, RevisionsTyped
  <2>2. ShownTyped' /\ WorkersTyped'
    BY <1>1, <1>2, <1>3, <1>7 DEF ShownTyped, WorkersTyped
  <2>3. QED
    BY <2>1, <2>2 DEF SearchTyped
<1>8. ASSUME snapshotScheduledRevision' = AfterDiscard(Head(searchEvents).revision),
             UNCHANGED <<snapshotRevision, requestVars, renderedVars, unsearched, search, build>>
      PROVE  SearchTyped'
  <2>1. snapshotScheduledRevision' \in 0 .. MaxData
    BY <1>1, <1>5, <1>8 DEF AfterDiscard, RevisionsTyped
  <2>2. build' \in Worker(1 .. MaxData)
    BY <1>1, <1>8 DEF WorkersTyped
  <2>3. QED
    BY <1>7, <1>8, <2>1, <2>2 DEF requestVars, renderedVars
<1>9. ASSUME ScheduleSnapshotBuild(dataRevision, snapshotRevision),
             UNCHANGED <<snapshotRevision, requestVars, renderedVars, unsearched, search>>
      PROVE  SearchTyped'
  <2>1. snapshotScheduledRevision' \in 0 .. MaxData /\ build' \in Worker(1 .. MaxData)
    BY <1>1, <1>9, ScheduleCases, ScheduleTypes
  <2>2. QED
    BY <1>7, <1>9, <2>1 DEF requestVars, renderedVars
<1>10. SearchTyped'
  BY <1>6, <1>8, <1>9 DEF HearSnapshot
<1>11. QED
  BY <1>3, <1>4, <1>10

(* The end of a turn keeps the types.                                       *)
LEMMA EndTurnTypes ==
  ASSUME SearchTyped, EndTurn
  PROVE  SearchTyped'
<1>1. ScreenTyped /\ RevisionsTyped /\ ShownTyped /\ WorkersTyped
  BY DEF SearchTyped
<1>2. /\ turn' = FALSE /\ latestResults' = None
      /\ IF latestResults # None THEN ApplyResults(latestResults)
                                 ELSE UNCHANGED <<completed, displayed, renderedVars>>
      /\ UNCHANGED <<visible, otherSurface, query, dataRevision, snapshotRevision,
                     snapshotScheduledRevision, requested, rebuild, unsearched, searchEvents,
                     search, build, typed, shows, threw>>
  BY DEF EndTurn, windowVars, dataVars
<1>3. ScreenTyped' /\ RevisionsTyped' /\ WorkersTyped'
  BY <1>1, <1>2 DEF ScreenTyped, RevisionsTyped, WorkersTyped
<1>4. ASSUME UNCHANGED <<completed, displayed, renderedVars>> PROVE ShownTyped'
  BY <1>1, <1>2, <1>4 DEF ShownTyped, renderedVars
<1>5. ASSUME latestResults # None, completed' = LaterOf(completed, latestResults.generation),
             displayed' = latestResults.generation,
             Render(latestResults.generation, query, latestResults.from)
      PROVE  ShownTyped'
  <2>1. latestResults.generation \in Nat /\ latestResults.from \in Nat
    BY <1>1, <1>5, RequestFields DEF ShownTyped
  <2>2. dataRevision \in Nat /\ query \in Queries
    BY <1>1, SearchBounds DEF RevisionsTyped, ScreenTyped
  <2>3. shown' \in Results /\ hasRenderedResults' = TRUE /\ warm' = FALSE
    BY <1>5, <2>1, <2>2, RequestFields DEF Render
  <2>4. completed' \in Nat
    BY <1>1, <1>5, <2>1, LaterOfIsNat DEF ShownTyped
  <2>5. QED
    BY <1>1, <1>2, <1>5, <2>1, <2>3, <2>4 DEF ShownTyped
<1>6. ShownTyped'
  BY <1>2, <1>4, <1>5 DEF ApplyResults
<1>7. QED
  BY <1>3, <1>6 DEF SearchTyped

(* A worker's step, whichever worker it is.                                 *)
Works(w, v, key) ==
  \/ w.phase = "idle" /\ w.pending # None /\ v = Takes(w)
  \/ w.phase = "working" /\ key # w.latest /\ v = Rests(w)
  \/ w.phase = "working" /\ key = w.latest /\ v = [w EXCEPT !.phase = "delivering"]

(* The search worker takes, checks, throws or delivers.                     *)
LEMMA SearchWorkerFacts ==
  ASSUME SearchWorker
  PROVE  /\ UNCHANGED <<visible, otherSurface, query, dataRevision, snapshotRevision,
                        snapshotScheduledRevision, requested, completed, displayed,
                        hasRenderedResults, shown, warm, rebuild, unsearched, turn,
                        latestResults, build, typed, shows>>
         /\ \/ /\ Works(search, search', search.job.generation)
               /\ searchEvents' = searchEvents /\ threw' = threw
            \/ /\ search.phase = "working" /\ search' = Rests(search)
               /\ threw' = TRUE /\ searchEvents' = searchEvents
            \/ /\ search.phase = "delivering" /\ search' = Rests(search)
               /\ searchEvents' = Append(searchEvents, FoundResults(search.job))
               /\ threw' = threw
BY DEF SearchWorker, Works, Checks, FoundResults, windowVars, dataVars, requestVars,
       renderedVars, turnVars

(* The snapshot worker takes, checks, throws or delivers.                   *)
LEMMA SnapshotWorkerFacts ==
  ASSUME SnapshotWorker
  PROVE  /\ UNCHANGED <<visible, otherSurface, query, dataRevision, snapshotRevision,
                        snapshotScheduledRevision, requested, completed, displayed,
                        hasRenderedResults, shown, warm, rebuild, unsearched, turn,
                        latestResults, search, typed, shows>>
         /\ \/ /\ Works(build, build', build.job)
               /\ searchEvents' = searchEvents /\ threw' = threw
            \/ /\ build.phase = "working" /\ build' = Rests(build)
               /\ threw' = TRUE /\ searchEvents' = searchEvents
            \/ /\ build.phase = "delivering" /\ build' = Rests(build)
               /\ searchEvents' = Append(searchEvents, Snapshot(build.job))
               /\ threw' = threw
BY DEF SnapshotWorker, Works, Checks, Snapshot, windowVars, dataVars, requestVars,
       renderedVars, turnVars

(* A worker's step keeps it a worker.                                       *)
LEMMA WorkTypes ==
  ASSUME NEW J, NEW w \in Worker(J), NEW key, NEW v, Works(w, v, key)
  PROVE  v \in Worker(J)
BY WorkerTakes, WorkerRests, WorkerDelivers DEF Works

-----------------------------------------------------------------------------
(* The inductive invariant of the presentation.  A request is in flight     *)
(* from RequestSearch to the end of the turn that hears its results; it is  *)
(* coming if nothing will drop it on the way.                               *)
InFlight(r) ==
  \/ search.pending = r \/ search.job = r
  \/ latestResults = r \/ Has(searchEvents, FoundResults(r))

Coming(r) ==
  \/ /\ search.latest = requested
     /\ search.pending = r \/ (search.phase = "working" /\ search.job = r)
  \/ search.phase = "delivering" /\ search.job = r
  \/ latestResults = r \/ Has(searchEvents, FoundResults(r))

BeingBuilt(n) ==
  \/ /\ build.latest = n
     /\ build.pending = n \/ (build.phase = "working" /\ build.job = n)
  \/ build.phase = "delivering" /\ build.job = n
  \/ Has(searchEvents, Snapshot(n))

(* Stronger than ActivatesTheCurrent in that completed plays no part.       *)
DisplayedIsRendered ==
  visible /\ displayed = requested =>
    hasRenderedResults /\ shown.generation = requested /\ shown.query = query

Busy ==
  /\ search.phase = "idle" <=> search.job = None
  /\ build.phase = "idle" <=> build.job = None

OnlyInTurn == latestResults # None => turn

(* Nothing is ahead of the requests, and no snapshot of the data.           *)
NoneAhead ==
  /\ displayed <= requested
  /\ \A r \in Request : InFlight(r) => r.generation <= requested
  /\ snapshotRevision <= dataRevision /\ snapshotScheduledRevision <= dataRevision

(* A visible overlay that waits has a request that will be answered.        *)
Awaited ==
  visible /\ displayed # requested /\ ~threw =>
    \E r \in Request : r.generation = requested /\ Coming(r)

(* A snapshot that is needed and scheduled is being built.                  *)
Building ==
  snapshotScheduledRevision = dataRevision /\ snapshotRevision # dataRevision /\ ~threw =>
    BeingBuilt(dataRevision)

(* Results of the last search are of the current data, or a snapshot that   *)
(* will ask for them again is scheduled.                                    *)
Current ==
  visible /\ ~unsearched /\ ~threw =>
    \/ /\ displayed = requested => shown.from = dataRevision
       /\ \A r \in Request : InFlight(r) /\ r.generation = requested => r.from = dataRevision
    \/ snapshotScheduledRevision = dataRevision /\ snapshotRevision # dataRevision

PresentationInv ==
  /\ SearchTyped /\ DisplayedIsRendered /\ Busy /\ OnlyInTurn /\ NoneAhead
  /\ Awaited /\ Building /\ Current

(* WorkerAsked of the snapshot worker, whose requests are revisions.        *)
LEMMA BuildAsked ==
  ASSUME NEW w \in Worker(1 .. MaxData), NEW n \in 1 .. MaxData, NEW v, v = Latest(w, n, n)
  PROVE  v.pending = n /\ v.latest = n /\ v.job = w.job /\ v.phase = w.phase
BY DEF Worker, Latest

(* Nothing the invariant is about changes.                                  *)
LEMMA NothingMoves ==
  ASSUME PresentationInv, SearchTyped',
         UNCHANGED <<visible, query, displayed, requested, threw, search, build, searchEvents,
                     latestResults, snapshotScheduledRevision, dataRevision, snapshotRevision,
                     unsearched, shown, hasRenderedResults>>,
         latestResults # None => turn'
  PROVE  PresentationInv'
<1>1. UNCHANGED <<DisplayedIsRendered, Busy, NoneAhead>>
  BY DEF DisplayedIsRendered, Busy, NoneAhead, InFlight, FoundResults, Has
<1>2. UNCHANGED Awaited
  BY DEF Awaited, Coming, FoundResults, Has
<1>3. UNCHANGED Building
  BY DEF Building, BeingBuilt, Snapshot, Has
<1>4. UNCHANGED Current
  BY DEF Current, InFlight, FoundResults, Has
<1>5. OnlyInTurn'
  BY DEF OnlyInTurn
<1>6. QED
  BY <1>1, <1>2, <1>3, <1>4, <1>5 DEF PresentationInv

(* A search asked for, with the snapshot of this moment or a current one    *)
(* just heard of.                                                           *)
LEMMA AskingKeeps ==
  ASSUME PresentationInv, SearchTyped', NEW words \in Queries, NEW have \in 0 .. MaxData,
         RequestSearch(words, have), visible' = TRUE, query' = words, snapshotRevision' = have,
         UNCHANGED <<dataRevision, latestResults, threw>>,
         latestResults # None => turn',
         \A e \in Events : Has(searchEvents', e) => Has(searchEvents, e),
         \/ have = snapshotRevision /\ searchEvents' = searchEvents
         \/ have = dataRevision
  PROVE  PresentationInv'
<1>1. /\ SearchTyped /\ DisplayedIsRendered /\ Busy /\ OnlyInTurn /\ NoneAhead
      /\ Awaited /\ Building /\ Current
  BY DEF PresentationInv
<1>2. /\ requested \in Nat /\ displayed \in Nat /\ dataRevision \in 1 .. MaxData
      /\ snapshotScheduledRevision \in 0 .. MaxData
      /\ search \in Worker(Request) /\ build \in Worker(1 .. MaxData)
  BY <1>1 DEF SearchTyped, ShownTyped, RevisionsTyped, WorkersTyped
<1>3. requested' = requested + 1 /\ displayed <= requested /\ requested + 1 \in Nat
      /\ unsearched' = FALSE
  <2>1. requested' = requested + 1 /\ unsearched' = FALSE
    BY SearchCases
  <2>2. QED
    BY <1>1, <1>2, <2>1 DEF NoneAhead
<1>4. have <= dataRevision
  BY <1>1 DEF NoneAhead
<1>5. \A r \in Request : Has(searchEvents', FoundResults(r)) => Has(searchEvents, FoundResults(r))
  BY EventKinds
<1>6. OnlyInTurn'
  BY DEF OnlyInTurn
<1>7. ASSUME AnswersAtOnce(words) PROVE PresentationInv'
  <2>1. /\ displayed' = requested' /\ hasRenderedResults' = TRUE
        /\ shown'.generation = requested' /\ shown'.query = words /\ shown'.from = dataRevision
        /\ UNCHANGED <<snapshotScheduledRevision, build, search>>
    BY <1>3, <1>7 DEF AnswersAtOnce
  <2>2. DisplayedIsRendered' /\ Awaited'
    BY <2>1 DEF DisplayedIsRendered, Awaited
  <2>3. Busy'
    BY <1>1, <2>1 DEF Busy
  <2>4. \A r \in Request : InFlight(r)' => r.generation <= requested
    BY <1>1, <1>5, <2>1 DEF InFlight, NoneAhead
  <2>5. \A r \in Request : r.generation <= requested =>
          r.generation <= requested + 1 /\ r.generation # requested + 1
    BY <1>2, RequestFields
  <2>6. NoneAhead'
    <3>1. displayed' <= requested'
      BY <1>3, <2>1
    <3>2. \A r \in Request : InFlight(r)' => r.generation <= requested'
      BY <1>3, <2>4, <2>5
    <3>3. snapshotRevision' <= dataRevision' /\ snapshotScheduledRevision' <= dataRevision'
      BY <1>1, <1>4, <2>1 DEF NoneAhead
    <3>4. QED
      BY <3>1, <3>2, <3>3 DEF NoneAhead
  <2>7. Building'
    <3>1. CASE have = dataRevision
      BY <3>1 DEF Building
    <3>2. CASE have = snapshotRevision /\ searchEvents' = searchEvents
      BY <1>1, <2>1, <3>2 DEF Building, BeingBuilt, Snapshot, Has
    <3>3. QED
      BY <3>1, <3>2
  <2>8. Current'
    <3>1. \A r \in Request : InFlight(r)' => r.generation # requested'
      BY <1>3, <2>4, <2>5
    <3>2. QED
      BY <2>1, <3>1 DEF Current
  <2>9. QED
    BY <1>6, <2>2, <2>3, <2>6, <2>7, <2>8 DEF PresentationInv
<1>8. ASSUME AsksTheWorker(words, have) PROVE PresentationInv'
  <2> DEFINE new == [generation |-> requested + 1, query |-> words, from |-> have]
  <2>1. have \in Nat
    BY SearchBounds
  <2>2. /\ new \in Request /\ new # None
        /\ new.generation = requested + 1 /\ new.from = have
    BY <1>3, <2>1, RequestFields
  <2> HIDE DEF new
  <2>3. search' = Latest(search, requested + 1, new)
        /\ displayed' = displayed /\ SchedulesFor(have)
    BY <1>8 DEF AsksTheWorker, new
  <2>4. /\ search'.pending = new /\ search'.latest = requested + 1
        /\ search'.job = search.job /\ search'.phase = search.phase
    BY <1>2, <1>3, <2>2, <2>3, WorkerAsked
  <2>5. \/ /\ have # dataRevision /\ snapshotScheduledRevision' = dataRevision
           /\ build'.pending = dataRevision /\ build'.latest = dataRevision
           /\ build'.job = build.job /\ build'.phase = build.phase
        \/ /\ have = dataRevision \/ snapshotScheduledRevision = dataRevision
           /\ UNCHANGED <<snapshotScheduledRevision, build>>
    <3>2. ASSUME build' = Latest(build, dataRevision, dataRevision)
          PROVE  /\ build'.pending = dataRevision /\ build'.latest = dataRevision
                 /\ build'.job = build.job /\ build'.phase = build.phase
      BY <1>2, <3>2, BuildAsked
    <3>3. QED
      BY <2>3, <3>2 DEF SchedulesFor
  <2>6. displayed' # requested'
    BY <1>2, <1>3, <2>3
  <2>7. DisplayedIsRendered'
    BY <2>6 DEF DisplayedIsRendered
  <2>8. Busy'
    BY <1>1, <2>4, <2>5 DEF Busy
  <2>9. \A r \in Request : InFlight(r)' => r.generation <= requested \/ r = new
    BY <1>1, <1>5, <2>4 DEF InFlight, NoneAhead
  <2>10. \A r \in Request : r.generation <= requested =>
           r.generation <= requested + 1 /\ r.generation # requested + 1
    BY <1>2, RequestFields
  <2>11. NoneAhead'
    <3>1. displayed' <= requested'
      BY <1>2, <1>3, <2>3
    <3>2. requested + 1 <= requested + 1
      BY <1>2
    <3>3. \A r \in Request : InFlight(r)' => r.generation <= requested'
      BY <1>3, <2>2, <2>9, <2>10, <3>2
    <3>4. dataRevision <= dataRevision
      BY <1>2
    <3>5. snapshotRevision' <= dataRevision' /\ snapshotScheduledRevision' <= dataRevision'
      BY <1>1, <1>4, <2>5, <3>4 DEF NoneAhead
    <3>6. QED
      BY <3>1, <3>3, <3>5 DEF NoneAhead
  <2>12. Awaited'
    BY <1>3, <2>2, <2>4 DEF Awaited, Coming
  <2>13. Building'
    <3>1. CASE have = dataRevision
      BY <3>1 DEF Building
    <3>2. CASE have # dataRevision /\ build'.pending = dataRevision /\ build'.latest = dataRevision
      BY <3>2 DEF Building, BeingBuilt
    <3>3. CASE have # dataRevision /\ UNCHANGED <<snapshotScheduledRevision, build>>
      BY <1>1, <3>3 DEF Building, BeingBuilt, Snapshot, Has
    <3>4. QED
      BY <2>5, <3>1, <3>2, <3>3
  <2>14. Current'
    <3>1. CASE have = dataRevision
      <4>1. \A r \in Request : InFlight(r)' /\ r.generation = requested' => r.from = dataRevision
        BY <1>3, <2>2, <2>9, <2>10, <3>1
      <4>2. QED
        BY <2>6, <4>1 DEF Current
    <3>2. CASE have # dataRevision
      BY <2>5, <3>2 DEF Current
    <3>3. QED
      BY <3>1, <3>2
  <2>15. QED
    BY <1>6, <2>7, <2>8, <2>11, <2>12, <2>13, <2>14 DEF PresentationInv
<1>9. QED
  BY <1>7, <1>8, SearchCases

(* The steps that ask: the guards and frames that AskingKeeps needs.        *)
LEMMA TypeKeeps ==
  ASSUME PresentationInv, NEW words \in Queries, Type(words)
  PROVE  PresentationInv'
<1>1. SearchTyped' /\ snapshotRevision \in 0 .. MaxData /\ OnlyInTurn
  BY TypeTypes DEF PresentationInv, SearchTyped, RevisionsTyped
<1>2. /\ RequestSearch(words, snapshotRevision) /\ visible' = TRUE /\ query' = words
      /\ snapshotRevision' = snapshotRevision /\ searchEvents' = searchEvents
      /\ UNCHANGED <<dataRevision, latestResults, threw>> /\ ~turn
  <2>1. visible \in BOOLEAN
    BY DEF PresentationInv, SearchTyped, ScreenTyped
  <2>2. QED
    BY <2>1 DEF Type, windowVars, turnVars
<1>3. /\ latestResults # None => turn'
      /\ \A e \in Events : Has(searchEvents', e) => Has(searchEvents, e)
  BY <1>1, <1>2 DEF OnlyInTurn
<1>4. QED
  BY <1>1, <1>2, <1>3, AskingKeeps

(* The overlay shown searches anew.                                         *)
LEMMA ShowKeeps ==
  ASSUME PresentationInv, NEW words \in Queries, Show(words)
  PROVE  PresentationInv'
<1>1. SearchTyped' /\ snapshotRevision \in 0 .. MaxData /\ OnlyInTurn
  BY ShowTypes DEF PresentationInv, SearchTyped, RevisionsTyped
<1>2. /\ RequestSearch(words, snapshotRevision) /\ visible' = TRUE /\ query' = words
      /\ snapshotRevision' = snapshotRevision /\ searchEvents' = searchEvents
      /\ UNCHANGED <<dataRevision, latestResults, threw>> /\ ~turn
  BY DEF Show, turnVars
<1>3. /\ latestResults # None => turn'
      /\ \A e \in Events : Has(searchEvents', e) => Has(searchEvents, e)
  BY <1>1, <1>2 DEF OnlyInTurn
<1>4. QED
  BY <1>1, <1>2, <1>3, AskingKeeps

(* WM_REBUILD_RESULTS searches anew if the overlay is visible.              *)
LEMMA RebuildKeeps ==
  ASSUME PresentationInv, RebuildResults
  PROVE  PresentationInv'
<1>1. SearchTyped' /\ snapshotRevision \in 0 .. MaxData /\ OnlyInTurn /\ query \in Queries
      /\ visible \in BOOLEAN
  BY RebuildTypes DEF PresentationInv, SearchTyped, RevisionsTyped, ScreenTyped
<1>2. /\ visible' = visible /\ query' = query
      /\ snapshotRevision' = snapshotRevision /\ searchEvents' = searchEvents
      /\ UNCHANGED <<dataRevision, latestResults, threw>> /\ ~turn
  BY DEF RebuildResults, windowVars, turnVars
<1>3. /\ latestResults # None => turn'
      /\ \A e \in Events : Has(searchEvents', e) => Has(searchEvents, e)
  BY <1>1, <1>2 DEF OnlyInTurn
<1>4. ASSUME visible PROVE PresentationInv'
  <2>1. RequestSearch(query, snapshotRevision) /\ visible' = TRUE
    BY <1>1, <1>2, <1>4 DEF RebuildResults
  <2>2. QED
    BY <1>1, <1>2, <1>3, <2>1, AskingKeeps
<1>5. ASSUME ~visible PROVE PresentationInv'
  <2>1. UNCHANGED <<requested, displayed, unsearched, snapshotScheduledRevision, build, search,
                    hasRenderedResults, shown>>
    BY <1>5 DEF RebuildResults, requestVars, renderedVars
  <2>2. QED
    BY <1>1, <1>2, <1>3, <2>1, NothingMoves
<1>6. QED
  BY <1>4, <1>5

(* Data that changes waits for a search; the overlay that hides for none.   *)
LEMMA ChangeKeeps ==
  ASSUME PresentationInv, ChangeData
  PROVE  PresentationInv'
<1>1. SearchTyped' /\ dataRevision \in 1 .. MaxData /\ snapshotRevision \in 0 .. MaxData
      /\ snapshotScheduledRevision \in 0 .. MaxData
  BY WindowTypes DEF PresentationInv, SearchTyped, RevisionsTyped
<1>2. /\ DisplayedIsRendered /\ Busy /\ OnlyInTurn /\ NoneAhead /\ Awaited
  BY DEF PresentationInv
<1>3. /\ dataRevision' = dataRevision + 1 /\ unsearched' = TRUE
      /\ UNCHANGED <<visible, query, snapshotRevision, snapshotScheduledRevision, requested,
                     displayed, hasRenderedResults, shown, turn, latestResults, searchEvents,
                     search, build, threw>>
  BY DEF ChangeData, windowVars, requestVars, renderedVars, turnVars
<1>4. DisplayedIsRendered' /\ Busy' /\ OnlyInTurn'
  BY <1>2, <1>3 DEF DisplayedIsRendered, Busy, OnlyInTurn
<1>5. Awaited'
  BY <1>2, <1>3 DEF Awaited, Coming, FoundResults, Has
<1>6. snapshotRevision' <= dataRevision' /\ snapshotScheduledRevision' <= dataRevision'
      /\ snapshotScheduledRevision' # dataRevision'
  BY <1>1, <1>2, <1>3, SearchBounds DEF NoneAhead
<1>7. NoneAhead'
  BY <1>2, <1>3, <1>6 DEF NoneAhead, InFlight, FoundResults, Has
<1>8. Building' /\ Current'
  BY <1>3, <1>6 DEF Building, Current
<1>9. QED
  BY <1>1, <1>4, <1>5, <1>7, <1>8 DEF PresentationInv

(* Windows that open and close; the last one invalidates work under way.    *)
LEMMA HidingKeeps ==
  ASSUME PresentationInv, Hide \/ ShowOther \/ HideOther
  PROVE  PresentationInv'
<1>1. SearchTyped' /\ SearchTyped
      /\ DisplayedIsRendered /\ Busy /\ OnlyInTurn /\ NoneAhead /\ Building
  BY WindowTypes DEF PresentationInv
<1>2. /\ UNCHANGED <<query, displayed, hasRenderedResults, shown, unsearched, turn, latestResults,
                     searchEvents, threw>>
      /\ \/ /\ visible' = visible
            /\ UNCHANGED <<dataRevision, snapshotRevision, snapshotScheduledRevision, requested,
                           build, search>>
         \/ /\ visible' = FALSE
            /\ UNCHANGED <<dataRevision, snapshotRevision, snapshotScheduledRevision, requested,
                           build, search>>
         \/ visible' = FALSE /\ EnterBackground
  <2>1. visible \in BOOLEAN
    BY <1>1 DEF SearchTyped, ScreenTyped
  <2>2. QED
    BY <2>1 DEF Hide, ShowOther, HideOther, dataVars, requestVars, renderedVars, turnVars
<1>3. latestResults # None => turn'
  BY <1>1, <1>2 DEF OnlyInTurn
<1>4. ASSUME visible' = visible,
             UNCHANGED <<dataRevision, snapshotRevision, snapshotScheduledRevision, requested,
                         build, search>>
      PROVE  PresentationInv'
  BY <1>1, <1>2, <1>3, <1>4, NothingMoves
<1>5. OnlyInTurn'
  BY <1>2, <1>3 DEF OnlyInTurn
<1>6. visible' = FALSE => DisplayedIsRendered' /\ Awaited' /\ Current'
  BY DEF DisplayedIsRendered, Awaited, Current
<1>7. ASSUME visible' = FALSE,
             UNCHANGED <<dataRevision, snapshotRevision, snapshotScheduledRevision, requested,
                         build, search>>
      PROVE  PresentationInv'
  <2>1. Busy' /\ NoneAhead'
    BY <1>1, <1>2, <1>7 DEF Busy, NoneAhead, InFlight, FoundResults, Has
  <2>2. Building'
    BY <1>1, <1>2, <1>7 DEF Building, BeingBuilt, Snapshot, Has
  <2>3. QED
    BY <1>1, <1>5, <1>6, <1>7, <2>1, <2>2 DEF PresentationInv
<1>8. ASSUME visible' = FALSE, EnterBackground PROVE PresentationInv'
  <2>1. /\ requested' = requested + 1
        /\ dataRevision' \in 1 .. MaxData /\ dataRevision <= dataRevision'
        /\ snapshotRevision' \in {0, snapshotRevision} /\ snapshotScheduledRevision' = 0
        /\ search' = Latest(search, requested + 1, None)
        /\ build' = Latest(build, build.latest + 1, None)
    BY <1>1, <1>8, BackgroundFacts
  <2>2. /\ requested \in Nat /\ displayed \in Nat /\ dataRevision \in 1 .. MaxData
        /\ snapshotRevision \in 0 .. MaxData
        /\ search \in Worker(Request) /\ build \in Worker(1 .. MaxData)
    BY <1>1 DEF SearchTyped, ShownTyped, RevisionsTyped, WorkersTyped
  <2>3. build.latest + 1 \in Nat /\ requested + 1 \in Nat
    BY <2>2, WorkerFields
  <2>4. search'.pending = None /\ search'.job = search.job /\ search'.phase = search.phase
    BY <2>1, <2>2, <2>3, WorkerAsked
  <2>5. build'.job = build.job /\ build'.phase = build.phase
    BY <2>1, <2>2, <2>3, WorkerAsked
  <2>6. Busy'
    BY <1>1, <2>4, <2>5 DEF Busy
  <2>7. 0 <= dataRevision' /\ snapshotScheduledRevision' # dataRevision'
        /\ snapshotRevision' <= dataRevision'
    BY <1>1, <2>1, <2>2, SearchBounds DEF NoneAhead
  <2>8. \A r \in Request : InFlight(r)' => r.generation <= requested'
    <3>1. \A r \in Request : InFlight(r)' => InFlight(r)
      BY <1>2, <2>4, RequestFields DEF InFlight, FoundResults, Has
    <3>2. \A r \in Request : r.generation <= requested => r.generation <= requested + 1
      BY <2>2, RequestFields
    <3>3. QED
      BY <1>1, <2>1, <3>1, <3>2 DEF NoneAhead
  <2>9. displayed' <= requested'
    BY <1>1, <1>2, <2>1, <2>2 DEF NoneAhead
  <2>10. NoneAhead'
    BY <2>1, <2>7, <2>8, <2>9 DEF NoneAhead
  <2>11. Building'
    BY <2>7 DEF Building
  <2>12. QED
    BY <1>1, <1>5, <1>6, <1>8, <2>6, <2>10, <2>11 DEF PresentationInv
<1>9. QED
  BY <1>2, <1>4, <1>7, <1>8

(* The turns of the UI thread that hear of results and snapshots.           *)
LEMMA HearResultsKeeps ==
  ASSUME PresentationInv, HearResults
  PROVE  PresentationInv'
<1> DEFINE heard == Head(searchEvents).results
<1>1. /\ SearchTyped' /\ heard \in Request /\ Head(searchEvents) = FoundResults(heard)
  BY HearResultsTypes DEF PresentationInv
<1>2. /\ searchEvents # <<>> /\ searchEvents' = Tail(searchEvents) /\ turn' = TRUE
      /\ latestResults' = IF heard.generation = requested THEN heard ELSE latestResults
      /\ UNCHANGED <<visible, query, dataRevision, snapshotRevision, snapshotScheduledRevision,
                     requested, displayed, hasRenderedResults, shown, unsearched, search, build,
                     threw>>
  BY DEF HearResults, windowVars, dataVars, renderedVars
<1> HIDE DEF heard
<1>3. /\ DisplayedIsRendered /\ Busy /\ OnlyInTurn /\ NoneAhead /\ Awaited /\ Building /\ Current
      /\ searchEvents \in Seq(Events)
  BY DEF PresentationInv, SearchTyped, WorkersTyped
<1>4. \A r \in Request :
        /\ Has(searchEvents', FoundResults(r)) => Has(searchEvents, FoundResults(r))
        /\ Has(searchEvents, FoundResults(r)) =>
             r = heard \/ Has(searchEvents', FoundResults(r))
  <2>1. \A r \in Request : FoundResults(r) = FoundResults(heard) => r = heard
    BY <1>1, EventKinds
  <2>2. QED
    BY <1>1, <1>2, <1>3, <2>1, TailHas
<1>5. Has(searchEvents, FoundResults(heard))
  BY <1>1, <1>2, <1>3, TailHas
<1>6. \A n \in 1 .. MaxData : Has(searchEvents, Snapshot(n)) => Has(searchEvents', Snapshot(n))
  <2>1. \A n \in 1 .. MaxData : Snapshot(n) # FoundResults(heard)
    BY <1>1, EventKinds
  <2>2. QED
    BY <1>1, <1>2, <1>3, <2>1, TailHas
<1>7. DisplayedIsRendered' /\ Busy' /\ OnlyInTurn'
  BY <1>2, <1>3 DEF DisplayedIsRendered, Busy, OnlyInTurn
<1>8. \A r \in Request : InFlight(r)' => InFlight(r)
  BY <1>2, <1>4, <1>5 DEF InFlight
<1>9. NoneAhead'
  BY <1>2, <1>3, <1>8 DEF NoneAhead
<1>10. \A r \in Request : r.generation = requested /\ Coming(r) => \E s \in Request :
         s.generation = requested /\ Coming(s)'
  <2> TAKE r \in Request
  <2>1. SUFFICES ASSUME r.generation = requested, Coming(r)
        PROVE  \E s \in Request : s.generation = requested /\ Coming(s)'
    OBVIOUS
  <2>2. CASE heard.generation = requested
    BY <1>1, <1>2, <2>2 DEF Coming
  <2>3. CASE heard.generation # requested
    <3>1. r # heard
      BY <2>1, <2>3
    <3>2. Coming(r)'
      BY <1>2, <1>4, <2>1, <2>3, <3>1 DEF Coming
    <3>3. QED
      BY <2>1, <3>2
  <2>4. QED
    BY <2>2, <2>3
<1>11. Awaited'
  BY <1>2, <1>3, <1>10 DEF Awaited
<1>12. Building'
  <2>1. dataRevision \in 1 .. MaxData
    BY DEF PresentationInv, SearchTyped, RevisionsTyped
  <2>2. QED
    BY <1>2, <1>3, <1>6, <2>1 DEF Building, BeingBuilt
<1>13. Current'
  BY <1>2, <1>3, <1>8 DEF Current
<1>14. QED
  BY <1>1, <1>7, <1>9, <1>11, <1>12, <1>13 DEF PresentationInv

(* A snapshot heard of is dropped, built again or searched.                 *)
LEMMA HearSnapshotKeeps ==
  ASSUME PresentationInv, HearSnapshot
  PROVE  PresentationInv'
<1> DEFINE heard == Head(searchEvents).revision
<1>1. /\ SearchTyped' /\ heard \in 1 .. MaxData /\ Head(searchEvents) = Snapshot(heard)
  BY HearSnapshotTypes DEF PresentationInv
<1>2. /\ searchEvents # <<>> /\ searchEvents' = Tail(searchEvents) /\ turn' = TRUE
      /\ UNCHANGED <<visible, query, dataRevision, latestResults, threw>>
  BY DEF HearSnapshot, windowVars
<1>3. \/ /\ ~visible
         /\ snapshotScheduledRevision' = AfterDiscard(heard)
         /\ UNCHANGED <<snapshotRevision, requestVars, renderedVars, unsearched, search, build>>
      \/ /\ visible /\ heard # dataRevision
         /\ ScheduleSnapshotBuild(dataRevision, snapshotRevision)
         /\ UNCHANGED <<snapshotRevision, requestVars, renderedVars, unsearched, search>>
      \/ /\ visible /\ heard = dataRevision
         /\ snapshotRevision' = heard
         /\ RequestSearch(query, heard)
  BY DEF HearSnapshot
<1> HIDE DEF heard
<1>4. /\ SearchTyped /\ DisplayedIsRendered /\ Busy /\ OnlyInTurn /\ NoneAhead
      /\ Awaited /\ Building /\ Current /\ searchEvents \in Seq(Events)
      /\ dataRevision \in 1 .. MaxData /\ query \in Queries
      /\ snapshotScheduledRevision \in 0 .. MaxData /\ visible \in BOOLEAN
      /\ build \in Worker(1 .. MaxData)
  BY DEF PresentationInv, SearchTyped, WorkersTyped, RevisionsTyped, ScreenTyped
<1>5. \A e \in Events : /\ Has(searchEvents', e) => Has(searchEvents, e)
                        /\ e # Snapshot(heard) => (Has(searchEvents, e) <=> Has(searchEvents', e))
  BY <1>1, <1>2, <1>4, TailHas
<1>6. \A r \in Request : Has(searchEvents', FoundResults(r)) <=> Has(searchEvents, FoundResults(r))
  <2>1. \A r \in Request : FoundResults(r) \in Events /\ FoundResults(r) # Snapshot(heard)
    BY <1>1, EventKinds
  <2>2. QED
    BY <1>5, <2>1
<1>7. dataRevision # heard =>
        (Has(searchEvents, Snapshot(dataRevision)) => Has(searchEvents', Snapshot(dataRevision)))
  <2>1. Snapshot(dataRevision) \in Events
        /\ (dataRevision # heard => Snapshot(dataRevision) # Snapshot(heard))
    BY <1>1, <1>4, EventKinds
  <2>2. QED
    BY <1>5, <2>1
<1>8. OnlyInTurn'
  BY <1>2 DEF OnlyInTurn
<1>9. ASSUME visible, heard = dataRevision, snapshotRevision' = heard, RequestSearch(query, heard)
      PROVE  PresentationInv'
  <2>1. heard \in 0 .. MaxData
    BY <1>1
  <2>2. visible' = TRUE /\ query' = query
    BY <1>2, <1>4, <1>9
  <2>3. QED
    BY <1>1, <1>2, <1>4, <1>5, <1>9, <2>1, <2>2, AskingKeeps
<1>10. ASSUME UNCHANGED <<snapshotRevision, requestVars, renderedVars, unsearched, search>>
       PROVE  /\ DisplayedIsRendered' /\ Awaited'
              /\ snapshotScheduledRevision' <= dataRevision' => NoneAhead'
              /\ build'.phase = build.phase /\ build'.job = build.job => Busy'
              /\ snapshotScheduledRevision' = snapshotScheduledRevision => Current'
  <2>1. UNCHANGED <<snapshotRevision, requested, displayed, hasRenderedResults, shown, unsearched,
                    search>>
    BY <1>10 DEF requestVars, renderedVars
  <2>2. DisplayedIsRendered'
    BY <1>2, <1>4, <2>1 DEF DisplayedIsRendered
  <2>3. Awaited'
    <3>1. \A r \in Request : Coming(r) => Coming(r)'
      BY <1>2, <1>6, <2>1 DEF Coming
    <3>2. QED
      BY <1>2, <1>4, <2>1, <3>1 DEF Awaited
  <2>4. \A r \in Request : InFlight(r)' => InFlight(r)
    BY <1>2, <1>6, <2>1 DEF InFlight
  <2>5. snapshotScheduledRevision' <= dataRevision' => NoneAhead'
    BY <1>2, <1>4, <2>1, <2>4 DEF NoneAhead
  <2>6. build'.phase = build.phase /\ build'.job = build.job => Busy'
    BY <1>4, <2>1 DEF Busy
  <2>7. snapshotScheduledRevision' = snapshotScheduledRevision => Current'
    BY <1>2, <1>4, <2>1, <2>4 DEF Current
  <2>8. QED
    BY <2>2, <2>3, <2>5, <2>6, <2>7
<1>11. ASSUME ~visible, snapshotScheduledRevision' = AfterDiscard(heard),
              UNCHANGED <<snapshotRevision, requestVars, renderedVars, unsearched, search, build>>
       PROVE  PresentationInv'
  <2>1. \/ snapshotScheduledRevision' = 0
        \/ snapshotScheduledRevision' = snapshotScheduledRevision
           /\ snapshotScheduledRevision # heard
    BY <1>11 DEF AfterDiscard
  <2>2. snapshotScheduledRevision' <= dataRevision'
    BY <1>2, <1>4, <2>1, SearchBounds DEF NoneAhead
  <2>3. Building'
    <3>1. CASE snapshotScheduledRevision' = 0
      BY <1>2, <1>4, <3>1, SearchBounds DEF Building
    <3>2. CASE snapshotScheduledRevision' = snapshotScheduledRevision
               /\ snapshotScheduledRevision # heard
      BY <1>2, <1>4, <1>7, <1>11, <3>2 DEF Building, BeingBuilt
    <3>3. QED
      BY <2>1, <3>1, <3>2
  <2>4. Current'
    BY <1>2, <1>11 DEF Current
  <2>5. QED
    BY <1>1, <1>8, <1>10, <1>11, <2>2, <2>3, <2>4 DEF PresentationInv
<1>12. ASSUME visible, heard # dataRevision,
              ScheduleSnapshotBuild(dataRevision, snapshotRevision),
              UNCHANGED <<snapshotRevision, requestVars, renderedVars, unsearched, search>>
       PROVE  PresentationInv'
  <2>1. SchedulesFor(snapshotRevision)
    BY <1>12, ScheduleCases
  <2>2. ASSUME snapshotRevision # dataRevision, snapshotScheduledRevision' = dataRevision,
               build' = Latest(build, dataRevision, dataRevision)
        PROVE  PresentationInv'
    <3>1. /\ build'.pending = dataRevision /\ build'.latest = dataRevision
          /\ build'.job = build.job /\ build'.phase = build.phase
      BY <1>4, <2>2, BuildAsked
    <3>2. snapshotScheduledRevision' <= dataRevision'
      BY <1>2, <1>4, <2>2
    <3>3. Building'
      BY <1>2, <3>1 DEF Building, BeingBuilt
    <3>4. Current'
      BY <1>2, <1>12, <2>2 DEF Current
    <3>5. QED
      BY <1>1, <1>8, <1>10, <1>12, <3>1, <3>2, <3>3, <3>4 DEF PresentationInv
  <2>3. ASSUME UNCHANGED <<snapshotScheduledRevision, build>> PROVE PresentationInv'
    <3>1. snapshotScheduledRevision' <= dataRevision'
      BY <1>2, <1>4, <2>3 DEF NoneAhead
    <3>2. Building'
      BY <1>2, <1>4, <1>7, <1>12, <2>3 DEF Building, BeingBuilt
    <3>3. build'.phase = build.phase /\ build'.job = build.job
      BY <2>3
    <3>4. QED
      BY <1>1, <1>8, <1>10, <1>12, <2>3, <3>1, <3>2, <3>3 DEF PresentationInv
  <2>4. QED
    BY <2>1, <2>2, <2>3 DEF SchedulesFor
<1>13. QED
  BY <1>3, <1>9, <1>11, <1>12

(* The results kept by the turn are shown, or were outdated by then.        *)
LEMMA EndTurnKeeps ==
  ASSUME PresentationInv, EndTurn
  PROVE  PresentationInv'
<1>1. /\ SearchTyped' /\ latestResults \in Request \cup {None} /\ dataRevision \in 1 .. MaxData
      /\ DisplayedIsRendered /\ Busy /\ NoneAhead /\ Awaited /\ Building /\ Current
      /\ visible \in BOOLEAN /\ requested \in Nat
  BY EndTurnTypes DEF PresentationInv, SearchTyped, ShownTyped, RevisionsTyped, ScreenTyped
<1>2. /\ turn' = FALSE /\ latestResults' = None
      /\ IF latestResults # None THEN ApplyResults(latestResults)
                                 ELSE UNCHANGED <<completed, displayed, renderedVars>>
      /\ UNCHANGED <<visible, query, dataRevision, snapshotRevision, snapshotScheduledRevision,
                     requested, unsearched, searchEvents, search, build, threw>>
  BY DEF EndTurn, windowVars, dataVars
<1>3. OnlyInTurn' /\ Busy' /\ Building'
  BY <1>1, <1>2 DEF OnlyInTurn, Busy, Building, BeingBuilt, Snapshot, Has
<1>4. \A r \in Request : InFlight(r)' => InFlight(r)
  BY <1>2, RequestFields DEF InFlight, FoundResults, Has
<1>5. ASSUME latestResults # None, visible, latestResults.generation = requested,
             displayed' = latestResults.generation,
             Render(latestResults.generation, query, latestResults.from)
      PROVE  PresentationInv'
  <2>1. /\ hasRenderedResults' = TRUE /\ displayed' = requested' /\ shown'.query = query'
        /\ shown'.generation = requested' /\ shown'.from = latestResults.from
    BY <1>2, <1>5 DEF Render
  <2>2. DisplayedIsRendered' /\ Awaited'
    BY <2>1 DEF DisplayedIsRendered, Awaited
  <2>3. displayed' <= requested'
    BY <1>1, <1>2, <2>1
  <2>4. NoneAhead'
    BY <1>1, <1>2, <1>4, <2>3 DEF NoneAhead
  <2>5. InFlight(latestResults) /\ latestResults \in Request
    BY <1>1, <1>5 DEF InFlight
  <2>6. Current'
    BY <1>1, <1>2, <1>4, <1>5, <2>1, <2>5 DEF Current
  <2>7. QED
    BY <1>1, <1>3, <2>2, <2>4, <2>6 DEF PresentationInv
<1>6. ASSUME UNCHANGED <<completed, displayed, renderedVars>>,
             latestResults = None \/ ~visible \/ latestResults.generation # requested
      PROVE  PresentationInv'
  <2>1. UNCHANGED <<displayed, hasRenderedResults, shown>>
    BY <1>6 DEF renderedVars
  <2>2. DisplayedIsRendered' /\ NoneAhead'
    BY <1>1, <1>2, <1>4, <2>1 DEF DisplayedIsRendered, NoneAhead
  <2>3. Current'
    BY <1>1, <1>2, <1>4, <2>1 DEF Current
  <2>4. Awaited'
    <3>1. visible => \A r \in Request : r.generation = requested /\ Coming(r) => Coming(r)'
      BY <1>2, <1>6, RequestFields DEF Coming, FoundResults, Has
    <3>2. QED
      BY <1>1, <1>2, <2>1, <3>1 DEF Awaited
  <2>5. QED
    BY <1>1, <1>3, <2>2, <2>3, <2>4 DEF PresentationInv
<1>7. QED
  BY <1>2, <1>5, <1>6 DEF ApplyResults, Publishes

-----------------------------------------------------------------------------
(* The workers.  What a step makes of a worker's request and job, and that  *)
(* the job of a worker at work is a request.                                *)
LEMMA WorkFacts ==
  ASSUME NEW J, None \notin J, NEW w \in Worker(J), NEW key, NEW v, Works(w, v, key),
         w.phase = "idle" <=> w.job = None
  PROVE  /\ v \in Worker(J) /\ v.latest = w.latest /\ (v.phase = "idle" <=> v.job = None)
         /\ \/ /\ w.job = None /\ v.pending = None /\ v.job = w.pending /\ v.phase = "working"
            \/ /\ w.phase = "working" /\ key # w.latest /\ v.pending = w.pending /\ v.job = None
               /\ v.phase = "idle"
            \/ /\ w.phase = "working" /\ v.pending = w.pending /\ v.job = w.job
               /\ v.phase = "delivering"
<1>1. v \in Worker(J)
  BY WorkTypes
<1>2. CASE w.phase = "idle" /\ w.pending # None /\ v = Takes(w)
  BY <1>1, <1>2, WorkerTakes
<1>3. CASE w.phase = "working" /\ key # w.latest /\ v = Rests(w)
  BY <1>1, <1>3, WorkerRests
<1>4. CASE w.phase = "working" /\ key = w.latest /\ v = [w EXCEPT !.phase = "delivering"]
  BY <1>1, <1>4, WorkerDelivers
<1>5. QED
  BY <1>2, <1>3, <1>4 DEF Works

(* WorkFacts of the snapshot worker, whose requests are revisions.          *)
LEMMA BuildWorkFacts ==
  ASSUME NEW w \in Worker(1 .. MaxData), None \notin 1 .. MaxData, NEW key, NEW v, Works(w, v, key),
         w.phase = "idle" <=> w.job = None
  PROVE  /\ v \in Worker(1 .. MaxData) /\ v.latest = w.latest /\ (v.phase = "idle" <=> v.job = None)
         /\ \/ /\ w.job = None /\ v.pending = None /\ v.job = w.pending /\ v.phase = "working"
            \/ /\ w.phase = "working" /\ key # w.latest /\ v.pending = w.pending /\ v.job = None
               /\ v.phase = "idle"
            \/ /\ w.phase = "working" /\ v.pending = w.pending /\ v.job = w.job
               /\ v.phase = "delivering"
<1> DEFINE J == 1 .. MaxData
<1>1. None \notin J /\ w \in Worker(J)
  OBVIOUS
<1> HIDE DEF J
<1>2. v \in Worker(J)
  BY <1>1, WorkFacts
<1>3. /\ v.latest = w.latest /\ (v.phase = "idle" <=> v.job = None)
      /\ \/ /\ w.job = None /\ v.pending = None /\ v.job = w.pending /\ v.phase = "working"
         \/ /\ w.phase = "working" /\ key # w.latest /\ v.pending = w.pending /\ v.job = None
            /\ v.phase = "idle"
         \/ /\ w.phase = "working" /\ v.pending = w.pending /\ v.job = w.job
            /\ v.phase = "delivering"
  BY <1>1, WorkFacts
<1>4. QED
  BY <1>2, <1>3 DEF J

(* A step of a worker keeps the types if what it delivers is an event.      *)
LEMMA WorkerStepTypes ==
  ASSUME SearchTyped,
         UNCHANGED <<visible, otherSurface, query, dataRevision, snapshotRevision,
                     snapshotScheduledRevision, requested, completed, displayed,
                     hasRenderedResults, shown, warm, rebuild, unsearched, turn,
                     latestResults, typed, shows>>,
         threw' \in BOOLEAN, searchEvents' \in Seq(Events),
         search' \in Worker(Request), build' \in Worker(1 .. MaxData)
  PROVE  SearchTyped'
<1>1. ScreenTyped /\ RevisionsTyped /\ ShownTyped
  BY DEF SearchTyped
<1>2. ScreenTyped' /\ RevisionsTyped' /\ ShownTyped'
  BY <1>1 DEF ScreenTyped, RevisionsTyped, ShownTyped
<1>3. QED
  BY <1>2 DEF SearchTyped, WorkersTyped

(* A step of a worker that leaves what is in flight in flight, what is      *)
(* coming or being built so, or has thrown.                                 *)
LEMMA WorkerKeeps ==
  ASSUME PresentationInv, SearchTyped', Busy',
         UNCHANGED <<visible, otherSurface, query, dataRevision, snapshotRevision,
                     snapshotScheduledRevision, requested, completed, displayed,
                     hasRenderedResults, shown, warm, rebuild, unsearched, turn,
                     latestResults, typed, shows>>,
         ~threw' => ~threw,
         \A r \in Request : InFlight(r)' => InFlight(r),
         ~threw' => \A r \in Request : r.generation = requested /\ Coming(r) => Coming(r)',
         ~threw' => (BeingBuilt(dataRevision) => BeingBuilt(dataRevision)')
  PROVE  PresentationInv'
<1>1. /\ DisplayedIsRendered /\ OnlyInTurn /\ NoneAhead /\ Awaited /\ Building /\ Current
  BY DEF PresentationInv
<1>2. DisplayedIsRendered' /\ OnlyInTurn'
  BY <1>1 DEF DisplayedIsRendered, OnlyInTurn
<1>3. NoneAhead'
  BY <1>1 DEF NoneAhead
<1>4. Awaited'
  BY <1>1 DEF Awaited
<1>6. Building'
  BY <1>1 DEF Building
<1>7. Current'
  BY <1>1 DEF Current
<1>8. QED
  BY <1>2, <1>3, <1>4, <1>6, <1>7 DEF PresentationInv

(* The search worker drops only what is no longer the latest.               *)
LEMMA SearchWorkerKeeps ==
  ASSUME PresentationInv, SearchWorker
  PROVE  PresentationInv'
<1>1. /\ SearchTyped /\ Busy /\ search \in Worker(Request) /\ build \in Worker(1 .. MaxData)
      /\ searchEvents \in Seq(Events) /\ threw \in BOOLEAN /\ None \notin Request
  BY NoneIsNoRequest DEF PresentationInv, SearchTyped, WorkersTyped, ScreenTyped
<1>2. /\ UNCHANGED <<visible, otherSurface, query, dataRevision, snapshotRevision,
                     snapshotScheduledRevision, requested, completed, displayed,
                     hasRenderedResults, shown, warm, rebuild, unsearched, turn,
                     latestResults, build, typed, shows>>
      /\ \/ /\ Works(search, search', search.job.generation)
            /\ searchEvents' = searchEvents /\ threw' = threw
         \/ /\ search.phase = "working" /\ search' = Rests(search)
            /\ threw' = TRUE /\ searchEvents' = searchEvents
         \/ /\ search.phase = "delivering" /\ search' = Rests(search)
            /\ searchEvents' = Append(searchEvents, FoundResults(search.job))
            /\ threw' = threw
  BY SearchWorkerFacts
<1>3. ASSUME Works(search, search', search.job.generation), searchEvents' = searchEvents,
             threw' = threw
      PROVE  PresentationInv'
  <2>1. /\ search' \in Worker(Request) /\ search'.latest = search.latest
        /\ search'.phase = "idle" <=> search'.job = None
        /\ \/ /\ search.job = None /\ search'.pending = None /\ search'.job = search.pending
              /\ search'.phase = "working"
           \/ /\ search.phase = "working" /\ search.job.generation # search.latest
              /\ search'.pending = search.pending /\ search'.job = None /\ search'.phase = "idle"
           \/ /\ search.phase = "working" /\ search'.pending = search.pending
              /\ search'.job = search.job /\ search'.phase = "delivering"
    BY <1>1, <1>3, WorkFacts DEF Busy
  <2>2. SearchTyped'
    BY <1>1, <1>2, <1>3, <2>1, WorkerStepTypes
  <2>3. Busy'
    BY <1>1, <1>2, <2>1 DEF Busy
  <2>4. \A r \in Request : InFlight(r)' => InFlight(r)
    BY <1>1, <1>2, <1>3, <2>1 DEF InFlight, FoundResults, Has
  <2>5. \A r \in Request : r.generation = requested /\ Coming(r) => Coming(r)'
    <3> TAKE r \in Request
    <3>1. Has(searchEvents, FoundResults(r)) => Has(searchEvents, FoundResults(r))'
      BY <1>3 DEF Has, FoundResults
    <3>2. r # None /\ (search.job = None => search.phase = "idle")
      BY <1>1 DEF Busy
    <3>3. QED
      BY <1>2, <2>1, <3>1, <3>2 DEF Coming
  <2>6. BeingBuilt(dataRevision) => BeingBuilt(dataRevision)'
    BY <1>2, <1>3 DEF BeingBuilt, Snapshot, Has
  <2>7. QED
    BY <1>2, <1>3, <2>2, <2>3, <2>4, <2>5, <2>6, WorkerKeeps
<1>4. ASSUME search.phase = "working", search' = Rests(search), threw' = TRUE,
             searchEvents' = searchEvents
      PROVE  PresentationInv'
  <2>1. /\ search' \in Worker(Request) /\ search'.pending = search.pending
        /\ search'.job = None /\ search'.phase = "idle"
    BY <1>1, <1>4, WorkerRests
  <2>2. SearchTyped'
    BY <1>1, <1>2, <1>4, <2>1, WorkerStepTypes
  <2>3. Busy'
    BY <1>1, <1>2, <2>1 DEF Busy
  <2>4. \A r \in Request : InFlight(r)' => InFlight(r)
    BY <1>1, <1>2, <1>4, <2>1 DEF InFlight, FoundResults, Has
  <2>5. QED
    BY <1>2, <1>4, <2>2, <2>3, <2>4, WorkerKeeps
<1>5. ASSUME search.phase = "delivering", search' = Rests(search),
             searchEvents' = Append(searchEvents, FoundResults(search.job)), threw' = threw
      PROVE  PresentationInv'
  <2>1. /\ search' \in Worker(Request) /\ search'.pending = search.pending
        /\ search'.latest = search.latest /\ search'.job = None /\ search'.phase = "idle"
    BY <1>1, <1>5, WorkerRests
  <2>2. search.job \in Request
    BY <1>1, <1>5, WorkerFields DEF Busy
  <2>3. FoundResults(search.job) \in Events /\ searchEvents' \in Seq(Events)
    BY <1>1, <1>5, <2>2, EventKinds, EventTypes
  <2>4. \A e : Has(searchEvents', e) <=> Has(searchEvents, e) \/ e = FoundResults(search.job)
    BY <1>1, <1>5, AppendHas
  <2>5. \A r \in Request :
          Has(searchEvents, FoundResults(r))' <=>
            Has(searchEvents, FoundResults(r)) \/ r = search.job
    <3>1. \A r \in Request : FoundResults(r) = FoundResults(search.job) <=> r = search.job
      BY <2>2, EventKinds
    <3>2. QED
      BY <2>4, <3>1 DEF FoundResults
  <2>6. SearchTyped'
    BY <1>1, <1>2, <1>5, <2>1, <2>3, WorkerStepTypes
  <2>7. Busy'
    BY <1>1, <1>2, <2>1 DEF Busy
  <2>8. \A r \in Request : InFlight(r)' => InFlight(r)
    BY <1>1, <1>2, <2>1, <2>5 DEF InFlight
  <2>9. \A r \in Request : r.generation = requested /\ Coming(r) => Coming(r)'
    BY <1>2, <1>5, <2>1, <2>5 DEF Coming
  <2>10. BeingBuilt(dataRevision) => BeingBuilt(dataRevision)'
    BY <1>2, <2>4 DEF BeingBuilt, Snapshot
  <2>11. QED
    BY <1>2, <1>5, <2>6, <2>7, <2>8, <2>9, <2>10, WorkerKeeps
<1>6. QED
  BY <1>2, <1>3, <1>4, <1>5

(* The snapshot worker drops only what is no longer the latest.             *)
LEMMA SnapshotWorkerKeeps ==
  ASSUME PresentationInv, SnapshotWorker
  PROVE  PresentationInv'
<1>1. /\ SearchTyped /\ Busy /\ search \in Worker(Request) /\ build \in Worker(1 .. MaxData)
      /\ searchEvents \in Seq(Events) /\ threw \in BOOLEAN /\ dataRevision \in 1 .. MaxData
  BY DEF PresentationInv, SearchTyped, WorkersTyped, ScreenTyped, RevisionsTyped
<1>2. None \notin 1 .. MaxData
  BY NoneIsNoRequest, SearchBounds
<1>3. /\ UNCHANGED <<visible, otherSurface, query, dataRevision, snapshotRevision,
                     snapshotScheduledRevision, requested, completed, displayed,
                     hasRenderedResults, shown, warm, rebuild, unsearched, turn,
                     latestResults, search, typed, shows>>
      /\ \/ /\ Works(build, build', build.job)
            /\ searchEvents' = searchEvents /\ threw' = threw
         \/ /\ build.phase = "working" /\ build' = Rests(build)
            /\ threw' = TRUE /\ searchEvents' = searchEvents
         \/ /\ build.phase = "delivering" /\ build' = Rests(build)
            /\ searchEvents' = Append(searchEvents, Snapshot(build.job))
            /\ threw' = threw
  BY SnapshotWorkerFacts
<1>4. ASSUME \A r \in Request : Has(searchEvents, FoundResults(r))' <=>
                                  Has(searchEvents, FoundResults(r))
      PROVE  /\ \A r \in Request : InFlight(r)' => InFlight(r)
             /\ \A r \in Request : r.generation = requested /\ Coming(r) => Coming(r)'
  BY <1>3, <1>4 DEF InFlight, Coming
<1>5. searchEvents' = searchEvents =>
        \A r \in Request : Has(searchEvents, FoundResults(r))' <=>
                             Has(searchEvents, FoundResults(r))
  BY DEF Has, FoundResults
<1>6. ASSUME Works(build, build', build.job), searchEvents' = searchEvents, threw' = threw
      PROVE  PresentationInv'
  <2>1. /\ build' \in Worker(1 .. MaxData) /\ build'.latest = build.latest
        /\ build'.phase = "idle" <=> build'.job = None
        /\ \/ /\ build.job = None /\ build'.pending = None /\ build'.job = build.pending
              /\ build'.phase = "working"
           \/ /\ build.phase = "working" /\ build.job # build.latest
              /\ build'.pending = build.pending /\ build'.job = None /\ build'.phase = "idle"
           \/ /\ build.phase = "working" /\ build'.pending = build.pending
              /\ build'.job = build.job /\ build'.phase = "delivering"
    <3>1. build.phase = "idle" <=> build.job = None
      BY <1>1 DEF Busy
    <3>2. QED
      BY <1>1, <1>2, <1>6, <3>1, BuildWorkFacts
  <2>2. SearchTyped'
    BY <1>1, <1>3, <1>6, <2>1, WorkerStepTypes
  <2>3. Busy'
    BY <1>1, <1>3, <2>1 DEF Busy
  <2>4. BeingBuilt(dataRevision) => BeingBuilt(dataRevision)'
    <3>1. Has(searchEvents, Snapshot(dataRevision)) => Has(searchEvents, Snapshot(dataRevision))'
      BY <1>3, <1>6 DEF Has, Snapshot
    <3>2. dataRevision # None /\ (build.job = None => build.phase = "idle")
      BY <1>1, <1>2 DEF Busy
    <3>3. QED
      BY <1>3, <2>1, <3>1, <3>2 DEF BeingBuilt
  <2>5. QED
    BY <1>3, <1>4, <1>5, <1>6, <2>2, <2>3, <2>4, WorkerKeeps
<1>7. ASSUME build.phase = "working", build' = Rests(build), threw' = TRUE,
             searchEvents' = searchEvents
      PROVE  PresentationInv'
  <2>1. /\ build' \in Worker(1 .. MaxData) /\ build'.job = None /\ build'.phase = "idle"
    BY <1>1, <1>7, WorkerRests
  <2>2. SearchTyped'
    BY <1>1, <1>3, <1>7, <2>1, WorkerStepTypes
  <2>3. Busy'
    BY <1>1, <1>3, <2>1 DEF Busy
  <2>4. QED
    BY <1>3, <1>4, <1>5, <1>7, <2>2, <2>3, WorkerKeeps
<1>8. ASSUME build.phase = "delivering", build' = Rests(build),
             searchEvents' = Append(searchEvents, Snapshot(build.job)), threw' = threw
      PROVE  PresentationInv'
  <2>1. /\ build' \in Worker(1 .. MaxData) /\ build'.pending = build.pending
        /\ build'.latest = build.latest /\ build'.job = None /\ build'.phase = "idle"
    BY <1>1, <1>8, WorkerRests
  <2>2. build.job \in 1 .. MaxData
    BY <1>1, <1>8, WorkerFields DEF Busy
  <2>3. Snapshot(build.job) \in Events /\ searchEvents' \in Seq(Events)
    BY <1>1, <1>8, <2>2, EventKinds, EventTypes
  <2>4. \A e : Has(searchEvents', e) <=> Has(searchEvents, e) \/ e = Snapshot(build.job)
    BY <1>1, <1>8, AppendHas
  <2>5. \A r \in Request : Has(searchEvents, FoundResults(r))' <=>
                             Has(searchEvents, FoundResults(r))
    <3>1. \A r \in Request : FoundResults(r) # Snapshot(build.job)
      BY <2>2, EventKinds
    <3>2. QED
      BY <2>4, <3>1 DEF FoundResults
  <2>6. SearchTyped'
    BY <1>1, <1>3, <1>8, <2>1, <2>3, WorkerStepTypes
  <2>7. Busy'
    BY <1>1, <1>3, <2>1 DEF Busy
  <2>8. BeingBuilt(dataRevision) => BeingBuilt(dataRevision)'
    BY <1>3, <1>8, <2>1, <2>4 DEF BeingBuilt, Snapshot
  <2>9. QED
    BY <1>3, <1>4, <1>8, <2>5, <2>6, <2>7, <2>8, WorkerKeeps
<1>9. QED
  BY <1>3, <1>6, <1>7, <1>8

(* The invariant holds before the first step.                               *)
LEMMA PresentationBegins == Init \/ SearchOver => PresentationInv
<1> SUFFICES ASSUME Init \/ SearchOver PROVE PresentationInv
  OBVIOUS
<1>1. SearchTyped
  BY SearchTypesBegin
<1>2. /\ visible = FALSE /\ displayed = 0 /\ requested = 0 /\ latestResults = None
      /\ searchEvents = <<>> /\ search = Idle /\ build = Idle
      /\ snapshotRevision = 0 /\ snapshotScheduledRevision = 0
  BY DEF Init, SearchOver
<1>3. dataRevision \in 1 .. MaxData
  BY <1>1 DEF SearchTyped, RevisionsTyped
<1>4. Idle.pending = None /\ Idle.job = None /\ Idle.phase = "idle"
  BY DEF Idle
<1>5. \A r \in Request : ~InFlight(r)
  BY <1>2, <1>4, RequestFields DEF InFlight, Has
<1>6. NoneAhead
  BY <1>2, <1>3, <1>5, SearchBounds DEF NoneAhead
<1>7. Busy /\ OnlyInTurn
  BY <1>2, <1>4 DEF Busy, OnlyInTurn
<1>8. DisplayedIsRendered /\ Awaited /\ Current
  BY <1>2 DEF DisplayedIsRendered, Awaited, Current
<1>9. Building
  BY <1>2, <1>3, SearchBounds DEF Building
<1>10. QED
  BY <1>1, <1>6, <1>7, <1>8, <1>9 DEF PresentationInv

(* Steps of the other parts leave the presentation alone.                   *)
LEMMA PresentationStutters ==
  ASSUME PresentationInv, UNCHANGED vars
  PROVE  PresentationInv'
<1>1. ScreenTyped /\ RevisionsTyped /\ ShownTyped /\ WorkersTyped /\ OnlyInTurn
  BY DEF PresentationInv, SearchTyped
<1>2. UNCHANGED <<visible, otherSurface, query, dataRevision, snapshotRevision,
                  snapshotScheduledRevision, requested, completed, displayed,
                  hasRenderedResults, shown, warm, rebuild, unsearched, turn, latestResults,
                  searchEvents, search, build, typed, shows, threw>>
  BY DEF vars, windowVars, dataVars, requestVars, renderedVars, turnVars
<1>3. ScreenTyped' /\ RevisionsTyped' /\ ShownTyped' /\ WorkersTyped'
  BY <1>1, <1>2 DEF ScreenTyped, RevisionsTyped, ShownTyped, WorkersTyped
<1>4. SearchTyped' /\ (latestResults # None => turn')
  BY <1>1, <1>2, <1>3 DEF SearchTyped, OnlyInTurn
<1>5. QED
  BY <1>2, <1>4, NothingMoves

(* Every step of the presentation keeps the invariant.                      *)
LEMMA PresentationSteps ==
  ASSUME PresentationInv, Next
  PROVE  PresentationInv'
BY TypeKeeps, ShowKeeps, ChangeKeeps, RebuildKeeps, HidingKeeps, HearResultsKeeps,
   HearSnapshotKeeps, EndTurnKeeps, SearchWorkerKeeps, SnapshotWorkerKeeps
   DEF Next, HandleEvents

(* The invariant of the presentation holds in every state.                  *)
LEMMA PresentationInvariance == SearchSpec => []PresentationInv
<1>1. SearchInit => PresentationInv
  BY PresentationBegins DEF SearchInit
<1>2. PresentationInv /\ [SearchNext]_<<vars, queries, processes>> => PresentationInv'
  <2>1. ASSUME PresentationInv, SearchNext PROVE PresentationInv'
    BY <2>1, PresentationSteps, PresentationStutters DEF SearchNext
  <2>2. ASSUME PresentationInv, UNCHANGED <<vars, queries, processes>> PROVE PresentationInv'
    BY <2>2, PresentationStutters
  <2>3. QED
    BY <2>1, <2>2
<1>3. QED
  BY <1>1, <1>2, PTL DEF SearchSpec

(* At rest nothing is coming and nothing is being built.                    *)
LEMMA RestIsFresh ==
  ASSUME PresentationInv
  PROVE  FreshAtRest
<1>1. SUFFICES ASSUME visible, AtRest, ~threw
      PROVE  displayed = requested /\ (~unsearched => shown.from = dataRevision)
  BY DEF FreshAtRest, Pending
<1>2. OnlyInTurn /\ Awaited /\ Building /\ Current /\ dataRevision \in 1 .. MaxData
  BY DEF PresentationInv, SearchTyped, RevisionsTyped
<1>3. /\ ~turn /\ searchEvents = <<>>
      /\ search.phase = "idle" /\ search.pending = None
      /\ build.phase = "idle" /\ build.pending = None
  BY <1>1 DEF AtRest
<1>4. latestResults = None /\ \A e : ~Has(searchEvents, e)
  BY <1>2, <1>3 DEF OnlyInTurn, Has
<1>5. \A r \in Request : ~Coming(r)
  BY <1>3, <1>4, RequestFields DEF Coming
<1>6. None # dataRevision
  BY <1>2, NoneIsNoRequest, SearchBounds
<1>7. ~BeingBuilt(dataRevision)
  BY <1>3, <1>4, <1>6 DEF BeingBuilt
<1>8. displayed = requested
  BY <1>1, <1>2, <1>5 DEF Awaited
<1>9. QED
  BY <1>1, <1>2, <1>7, <1>8 DEF Building, Current

-----------------------------------------------------------------------------
(* What the user may activate is the answer to the last search, for the     *)
(* text in the box (SearchPresentationState, interaction_state.hpp:94-125). *)
THEOREM OnlyTheCurrentActivates == SearchSpec => []ActivatesTheCurrent
<1>1. PresentationInv => ActivatesTheCurrent
  BY DEF PresentationInv, DisplayedIsRendered, ActivatesTheCurrent, CanActivate, Pending
<1>2. QED
  BY <1>1, PresentationInvariance, PTL

(* At rest the results shown are those of the last search over the current  *)
(* data, and the plugins' answers are there too: no search, build, plugin   *)
(* query or notification is lost between the threads                        *)
(* (search_coordinator.cpp, main.cpp RequestSearch and OnSnapshotReady).    *)
THEOREM RestShowsWhatThereIs == SearchSpec => []ShownAtRest
<1>1. PresentationInv /\ AskedInv => ShownAtRest
  BY RestIsFresh, ResultsDoArrive DEF ShownAtRest
<1>2. QED
  BY <1>1, PresentationInvariance, AskedInvariance, PTL

(* The three parts keep their types.                                        *)
THEOREM SearchIsWellTyped == SearchSpec => []SearchTypeOK
<1>1. PresentationInv /\ AskedInv /\ HostInv => SearchTypeOK
  <2>1. PresentationInv => TypeOK
    BY SearchIsTyped DEF PresentationInv
  <2>2. HostInv => Hosts!TypeOK
    BY HostTypesAreTypeOK DEF HostInv
  <2>3. QED
    BY <2>1, <2>2, AskedIsTyped DEF SearchTypeOK
<1>2. QED
  BY <1>1, PresentationInvariance, AskedInvariance, HostInvariance, PTL

(* A plugin process belongs to a plugin that is listed, that a reload is    *)
(* about to stop, or that an exchange under way has: none is left behind,   *)
(* unless a task threw (extension_manager.hpp:91-100 Reload, 301-312        *)
(* QueryPlugins, 580-606 Exchange).                                         *)
THEOREM ProcessesBelong == SearchSpec => []HostsBelong
<1>1. HostInv => HostsBelong
  BY HostsDoBelong DEF HostsBelong
<1>2. QED
  BY <1>1, HostInvariance, PTL

(* Nobody takes another request's line for the answer to its own            *)
(* (extension_manager.hpp:580-606, Exchange under ioMutex).                 *)
THEOREM AnswersAreToTheRequest == SearchSpec => []AnswersOwnRequest
<1>1. HostInv => AnswersOwnRequest
  BY AnswersAreOwn DEF AnswersOwnRequest
<1>2. QED
  BY <1>1, HostInvariance, PTL
=============================================================================
