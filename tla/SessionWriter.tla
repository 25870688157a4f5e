---------------------------- MODULE SessionWriter ----------------------------
(***************************************************************************)
(* native/src/phone_service.cpp, PhoneService::Session: the outgoing side  *)
(* of one phone connection.  Callers queue messages, one writer thread     *)
(* numbers, seals and writes them, anybody may close the session at any    *)
(* moment, and the last owner destroys it.                                 *)
(*                                                                         *)
(* Every region under sendMutex is one step, every notify_all after it     *)
(* another.  SendFrame and the set_value that follows it are one step: the *)
(* only thread that could tell them apart is blocked on the promise.       *)
(***************************************************************************)
EXTENDS Naturals, Sequences

CONSTANTS Callers,            \* threads that send on the session or close it
          Writer,             \* the writer thread
          Sizes,              \* sizes a message may have
          MaxQueuedMessages,  \* kMaxQueuedMessages
          MaxQueuedBytes,     \* kMaxQueuedBytes
          MaxMessages,        \* no call of Enqueue once more are queued
          Nobody              \* no owner

ASSUME SessionConstants ==
  /\ Writer \notin Callers /\ Nobody \notin Callers \cup {Writer}
  /\ Sizes \subseteq Nat
  /\ MaxQueuedMessages \in Nat \ {0} /\ MaxQueuedBytes \in Nat
  /\ MaxMessages \in Nat

VARIABLES
  outgoing,       \* Session::outgoing
  outgoingBytes,  \* Session::outgoingBytes
  sendFailed,     \* Session::sendFailed
  sendCounter,    \* Session::sendCounter
  item,           \* WriteLoop's item and counter
  stop,           \* the writer's stop was requested
  pc,             \* where each thread is
  request,        \* caller -> the size and wait of its Enqueue
  awaited,        \* caller -> the number of the message it waits for
  promise,        \* the promise of every message queued so far, in their order
  dropped,        \* thread in Close -> its local dropped
  shut,           \* the socket was shut down
  wire,           \* frames written, as the phone reads them
  owner           \* the last holder, once it destroys the session

queue   == <<outgoing, outgoingBytes, sendFailed>>
loop    == <<sendCounter, item, stop>>
calls   == <<request, awaited>>
answers == <<promise, dropped>>
socket  == <<shut, wire>>
vars    == <<queue, loop, pc, calls, answers, socket, owner>>

Threads == Callers \cup {Writer}

(* Messages are numbered in the order the queue took them.                  *)
Outgoing == [n : Nat, size : Nat, waits : BOOLEAN, plain : BOOLEAN]
Items    == [n : Nat, waits : BOOLEAN, plain : BOOLEAN, counter : Nat]
Frames   == [n : Nat, plain : BOOLEAN, counter : Nat]
Requests == [size : Nat, wait : BOOLEAN]
Values   == {"none", "unset", "written", "failed", "twice"}   \* of a promise
NoItem   == [n |-> 0, waits |-> FALSE, plain |-> FALSE, counter |-> 0]

(* A thread is "looking" at the queue under the lock, or waits in sendWake  *)
(* ("asleep"); it owes notify_all ("notifying").  A caller waits for its    *)
(* promise ("awaiting"), the writer is in SendFrame ("sending").  Close:    *)
(* before the lock ("closing"), before notify_all and the shutdown          *)
(* ("waking"), before it fails what it dropped ("failing").  The owner then *)
(* joins the writer ("joining").                                            *)
Phases == {"unstarted", "idle", "looking", "asleep", "notifying",
           "awaiting", "sending", "closing", "waking", "failing", "joining",
           "exited"}

TypeOK ==
  /\ outgoing \in Seq(Outgoing) /\ outgoingBytes \in Nat /\ sendFailed \in BOOLEAN
  /\ sendCounter \in Nat /\ item \in Items /\ stop \in BOOLEAN
  /\ pc \in [Threads -> Phases]
  /\ request \in [Callers -> Requests]
  /\ awaited \in [Callers -> Nat]
  /\ promise \in Seq(Values)
  /\ dropped \in [Threads -> Seq(Outgoing)]
  /\ shut \in BOOLEAN /\ wire \in Seq(Frames)
  /\ owner \in Callers \cup {Nobody}

(* A session in its handshake: no writer yet, and nobody can send on it.    *)
Init ==
  /\ outgoing = <<>> /\ outgoingBytes = 0 /\ sendFailed = FALSE
  /\ sendCounter = 0 /\ item = NoItem /\ stop = FALSE
  /\ pc = [t \in Threads |-> IF t = Writer THEN "unstarted" ELSE "idle"]
  /\ request = [t \in Callers |-> [size |-> 0, wait |-> FALSE]]
  /\ awaited = [t \in Callers |-> 0]
  /\ promise = <<>>
  /\ dropped = [t \in Threads |-> <<>>]
  /\ shut = FALSE /\ wire = <<>>
  /\ owner = Nobody

(* Senders and the connection thread retain the session while they use it.  *)
Held == owner = Nobody

Goto(t, phase) == pc' = [pc EXCEPT ![t] = phase]

(* notify_all, after which t goes on: the sleepers look again.              *)
NobodyWoken(t, phase) == [pc EXCEPT ![t] = phase]   \* mutant: notify_all is missing
Woken(t, phase) ==
  [u \in Threads |-> IF u = t THEN phase
                     ELSE IF pc[u] = "asleep" THEN "looking" ELSE pc[u]]

-----------------------------------------------------------------------------
(* Open: the welcome is the first message, then the writer starts.  Stop    *)
(* may have closed the session before.                                      *)
Welcome == [n |-> 1, size |-> 1, waits |-> FALSE, plain |-> TRUE]

Open ==
  /\ pc[Writer] = "unstarted" /\ Held
  /\ outgoing' = Append(outgoing, Welcome)
  /\ outgoingBytes' = outgoingBytes + Welcome.size
  /\ promise' = <<"none">>
  /\ Goto(Writer, "looking")
  /\ UNCHANGED <<sendFailed, loop, calls, dropped, socket, owner>>

-----------------------------------------------------------------------------
(* Enqueue, called on an open session.                                      *)
CallEnqueue(t, size, wait) ==
  /\ pc[t] = "idle" /\ Held /\ pc[Writer] # "unstarted"
  /\ Len(promise) <= MaxMessages
  /\ request' = [request EXCEPT ![t] = [size |-> size, wait |-> wait]]
  /\ Goto(t, "looking")
  /\ UNCHANGED <<queue, loop, awaited, answers, socket, owner>>

Fits(size) ==
  \/ outgoing = <<>>
  \/ /\ Len(outgoing) < MaxQueuedMessages
     /\ outgoingBytes + size <= MaxQueuedBytes

BytesUncounted(size) == outgoingBytes   \* mutant: a queued message is not counted
BytesWith(size) == outgoingBytes + size

Queue(t) ==
  /\ pc[t] = "looking"
  /\ ~sendFailed /\ Fits(request[t].size)
  /\ outgoing' = Append(outgoing,
       [n |-> Len(promise) + 1, size |-> request[t].size,
        waits |-> request[t].wait, plain |-> FALSE])
  /\ outgoingBytes' = BytesWith(request[t].size)
  /\ promise' = Append(promise, IF request[t].wait THEN "unset" ELSE "none")
  /\ awaited' = [awaited EXCEPT ![t] =
                   IF request[t].wait THEN Len(promise) + 1 ELSE 0]
  /\ Goto(t, "notifying")
  /\ UNCHANGED <<sendFailed, loop, request, dropped, socket, owner>>

(* No room: a waiting caller sleeps, another returns false; both return     *)
(* false once the session has failed.                                       *)
NoRoom(t) ==
  /\ pc[t] = "looking"
  /\ sendFailed \/ ~Fits(request[t].size)
  /\ Goto(t, IF ~sendFailed /\ request[t].wait THEN "asleep" ELSE "idle")
  /\ UNCHANGED <<queue, loop, calls, answers, socket, owner>>

NotifyQueued(t) ==
  /\ pc[t] = "notifying"
  /\ pc' = Woken(t, IF awaited[t] # 0 THEN "awaiting" ELSE "idle")
  /\ UNCHANGED <<queue, loop, calls, answers, socket, owner>>

GetResult(t) ==
  /\ pc[t] = "awaiting"
  /\ promise[awaited[t]] # "unset"
  /\ awaited' = [awaited EXCEPT ![t] = 0]
  /\ Goto(t, "idle")
  /\ UNCHANGED <<queue, loop, request, answers, socket, owner>>

-----------------------------------------------------------------------------
(* Close, called by anybody, by ~Session and by the writer.                 *)
CallClose(t) ==
  /\ pc[t] = "idle" /\ Held
  /\ Goto(t, "closing")
  /\ UNCHANGED <<queue, loop, calls, answers, socket, owner>>

(* Whoever swaps the queue out has its messages to fail.                    *)
Close(t) ==
  /\ pc[t] = "closing"
  /\ sendFailed' = TRUE
  /\ dropped' = [dropped EXCEPT ![t] = outgoing]
  /\ outgoing' = <<>> /\ outgoingBytes' = 0
  /\ Goto(t, "waking")
  /\ UNCHANGED <<loop, calls, promise, socket, owner>>

WakeAndShut(t) ==
  /\ pc[t] = "waking"
  /\ shut' = TRUE
  /\ pc' = Woken(t, "failing")
  /\ UNCHANGED <<queue, loop, calls, answers, wire, owner>>

(* A promise takes one value; a second one would throw.                     *)
SetValue(n, value) == IF promise[n] = "unset" THEN value ELSE "twice"

FailDropped(t) ==
  /\ pc[t] = "failing"
  /\ promise' = [n \in 1 .. Len(promise) |->
       IF \E i \in DOMAIN dropped[t] : dropped[t][i].n = n /\ dropped[t][i].waits
       THEN SetValue(n, "failed") ELSE promise[n]]
  /\ dropped' = [dropped EXCEPT ![t] = <<>>]
  /\ stop' = (stop \/ owner = t)
  /\ pc' = IF owner = t THEN Woken(t, "joining")
           ELSE [pc EXCEPT ![t] = IF t = Writer THEN "exited" ELSE "idle"]
  /\ UNCHANGED <<queue, sendCounter, item, calls, socket, owner>>

(* ~Session: the last one to let go of it closes it and joins the writer.   *)
Destroy(t) ==
  /\ Held /\ \A u \in Callers : pc[u] = "idle"
  /\ owner' = t
  /\ Goto(t, "closing")
  /\ UNCHANGED <<queue, loop, calls, answers, socket>>

JoinWriter(t) ==
  /\ pc[t] = "joining"
  /\ pc[Writer] \in {"unstarted", "exited"}
  /\ Goto(t, "exited")
  /\ UNCHANGED <<queue, loop, calls, answers, socket, owner>>

-----------------------------------------------------------------------------
(* WriteLoop.                                                               *)
Rest ==
  /\ pc[Writer] = "looking"
  /\ sendFailed \/ outgoing = <<>>
  /\ Goto(Writer, IF sendFailed \/ stop THEN "exited" ELSE "asleep")
  /\ UNCHANGED <<queue, loop, calls, answers, socket, owner>>

(* The front of the queue, numbered under the lock unless it is plain.      *)
CountEveryFrame == sendCounter + 1   \* mutant: the welcome takes a number too
NextCounter == IF Head(outgoing).plain THEN sendCounter ELSE sendCounter + 1

Take ==
  /\ pc[Writer] = "looking"
  /\ ~sendFailed /\ outgoing # <<>>
  /\ item' = [n |-> Head(outgoing).n, waits |-> Head(outgoing).waits,
              plain |-> Head(outgoing).plain,
              counter |-> IF Head(outgoing).plain THEN 0 ELSE sendCounter]
  /\ outgoing' = Tail(outgoing)
  /\ outgoingBytes' = outgoingBytes - Head(outgoing).size
  /\ sendCounter' = NextCounter
  /\ Goto(Writer, "notifying")
  /\ UNCHANGED <<sendFailed, stop, calls, answers, socket, owner>>

NotifyRoom ==
  /\ pc[Writer] = "notifying"
  /\ pc' = Woken(Writer, "sending")
  /\ UNCHANGED <<queue, loop, calls, answers, socket, owner>>

(* SendFrame returns, and whoever waits for the item hears of it.           *)
Tell(value) ==
  promise' = IF item.waits
             THEN [promise EXCEPT ![item.n] = SetValue(item.n, value)] ELSE promise

Written ==
  /\ pc[Writer] = "sending" /\ ~shut
  /\ wire' = Append(wire, [n |-> item.n, plain |-> item.plain,
                           counter |-> item.counter])
  /\ Tell("written")
  /\ item' = NoItem
  /\ Goto(Writer, "looking")
  /\ UNCHANGED <<queue, sendCounter, stop, calls, dropped, shut, owner>>

(* A failed or partial write leaves the stream unusable.                    *)
CarryOn == "looking"   \* mutant: the next message follows a failed one
AfterFailure == "closing"

WriteFails ==
  /\ pc[Writer] = "sending"
  /\ Tell("failed")
  /\ item' = NoItem
  /\ Goto(Writer, AfterFailure)
  /\ UNCHANGED <<queue, sendCounter, stop, calls, dropped, socket, owner>>

-----------------------------------------------------------------------------
CloseStep(t) == Close(t) \/ WakeAndShut(t) \/ FailDropped(t)

CallerStep(t) ==
  \/ Queue(t) \/ NoRoom(t) \/ NotifyQueued(t) \/ GetResult(t)
  \/ CloseStep(t) \/ JoinWriter(t)

WriterStep ==
  Rest \/ Take \/ NotifyRoom \/ Written \/ WriteFails \/ CloseStep(Writer)

Next ==
  \/ Open
  \/ \E t \in Callers, size \in Sizes, wait \in BOOLEAN : CallEnqueue(t, size, wait)
  \/ \E t \in Callers : CallClose(t) \/ Destroy(t) \/ CallerStep(t)
  \/ WriterStep

Spec == Init /\ [][Next]_vars

(* Threads keep running, and a write ends: the phone reads, or the          *)
(* connection is lost or closed.  Nobody has to send, close or let go.      *)
Fairness == WF_vars(WriterStep) /\ \A t \in Callers : WF_vars(CallerStep(t))

FairSpec == Spec /\ Fairness

-----------------------------------------------------------------------------
(* What the phone reads: the welcome, then every accepted message in the    *)
(* order of acceptance, none missing, sealed with consecutive counters.     *)
(* The phone opens each frame with the counter it expects, so a gap or a    *)
(* swap would end the connection.                                           *)
WireInOrder ==
  \A i \in DOMAIN wire :
    /\ wire[i].n = i
    /\ wire[i].plain = (i = 1)
    /\ i > 1 => wire[i].counter = i - 2

(* A caller that waited is told the truth, once: "written" only if its      *)
(* message is on the wire, "failed" only if it is not and cannot follow.    *)
ToldTheTruth ==
  \A n \in DOMAIN promise :
    /\ promise[n] # "twice"
    /\ promise[n] = "written" => n \in DOMAIN wire
    /\ promise[n] = "failed" => n \notin DOMAIN wire

(* No wake-up is lost: while a thread sleeps in sendWake although what it   *)
(* waits for has come, room or a message or the end of the session, a       *)
(* notify_all is still to come.                                             *)
NoWakeUpLost ==
  \A t \in Threads :
    /\ pc[t] = "asleep"
    /\ sendFailed \/ IF t = Writer THEN outgoing # <<>> ELSE Fits(request[t].size)
    => \E u \in Threads : pc[u] \in {"notifying", "waking"}

(* Nobody waits for a thread that waits itself: while a call of Enqueue,    *)
(* Close or ~Session is under way, some thread can take its next step.      *)
Waits(t) ==
  CASE pc[t] = "awaiting" -> promise[awaited[t]] = "unset"
    [] pc[t] = "joining" -> pc[Writer] \notin {"unstarted", "exited"}
    [] OTHER -> pc[t] \in {"unstarted", "idle", "asleep", "exited"}

NeverStuck ==
  /\ NoWakeUpLost
  /\ (\E t \in Callers : pc[t] \notin {"idle", "exited"}) => \E t \in Threads : ~Waits(t)

(* Every caller of Enqueue and Close returns, waiting for room and for the  *)
(* write included, and so does ~Session.                                    *)
EveryCallReturns ==
  \A t \in Callers : pc[t] \notin {"idle", "exited"} ~> pc[t] \in {"idle", "exited"}
=============================================================================
