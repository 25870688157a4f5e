-------------------------- MODULE SessionWriterProofs --------------------------
(***************************************************************************)
(* For any callers, messages and limits: what the phone reads on one       *)
(* connection is a prefix of what the session accepted, in that order, and *)
(* the counters it is sealed with are consecutive (WireIsInOrder); callers *)
(* are told the truth of it (CallersAreToldTheTruth); every variable keeps *)
(* its type, the byte count included (TypeCorrect); and no wake-up is lost *)
(* and the threads never all wait for one another (NobodyIsStuck).         *)
(*                                                                         *)
(* The argument follows one message.  Its number is its place in the queue *)
(* plus the messages taken before it; numbers and counters are given under *)
(* the lock while the session has not failed; and after a failed write the *)
(* writer never takes another message, so the one that is missing is the   *)
(* last.                                                                   *)
(***************************************************************************)
EXTENDS SessionWriter, TLAPS

(* What the proof needs of the types.                                       *)
Types ==
  /\ outgoing \in Seq(Outgoing) /\ wire \in Seq(Frames)
  /\ item \in Items /\ sendCounter \in Nat
  /\ promise \in Seq(Values)
  /\ request \in [Callers -> Requests]
  /\ sendFailed \in BOOLEAN
  /\ pc \in [Threads -> Phases]

(* The writer runs its loop, and may hold a message.                        *)
Working == pc[Writer] \in {"looking", "asleep", "notifying", "sending"}
InHand  == pc[Writer] \in {"notifying", "sending"}
Taken   == IF InHand THEN Len(wire) + 1 ELSE Len(wire)

(* Before Open nobody uses the session, but for closing it.                 *)
NothingBefore ==
  pc[Writer] = "unstarted" =>
    /\ outgoing = <<>> /\ wire = <<>> /\ sendCounter = 0 /\ Len(promise) = 0
    /\ \A t \in Callers : pc[t] \notin {"looking", "asleep"}

(* The queue continues what was taken.                                      *)
QueueContinues ==
  Working /\ ~sendFailed =>
    /\ Len(promise) = Taken + Len(outgoing) /\ Len(promise) # 0
    /\ \A i \in 1 .. Len(outgoing) :
         outgoing[i].n = Taken + i /\ (outgoing[i].plain <=> Taken + i = 1)
    /\ Taken = 0 => sendCounter = 0
    /\ Taken # 0 => sendCounter = Taken - 1

(* The message in hand is the next on the wire.                             *)
ItemIsNext ==
  InHand => /\ item.n = Len(wire) + 1
            /\ item.plain <=> item.n = 1
            /\ item.n > 1 => item.counter = item.n - 2

WireInv == Types /\ NothingBefore /\ QueueContinues /\ ItemIsNext /\ WireInOrder

-----------------------------------------------------------------------------
(* A session that has not been opened has written nothing.                  *)
LEMMA WireInit == Init => WireInv
<1> SUFFICES ASSUME Init PROVE WireInv
  OBVIOUS
<1>1. Writer \in Threads /\ \A t \in Callers : t \in Threads /\ t # Writer
  BY SessionConstants DEF Threads
<1>2. pc[Writer] = "unstarted" /\ \A t \in Callers : pc[t] = "idle"
  BY <1>1 DEF Init
<1>3. Types
  <2>1. item \in Items /\ sendCounter \in Nat /\ sendFailed \in BOOLEAN
    BY DEF Init, NoItem, Items
  <2>2. outgoing \in Seq(Outgoing) /\ wire \in Seq(Frames) /\ promise \in Seq(Values)
    BY DEF Init
  <2>3. request \in [Callers -> Requests]
    BY DEF Init, Requests
  <2>4. pc \in [Threads -> Phases]
    BY DEF Init, Phases
  <2>5. QED
    BY <2>1, <2>2, <2>3, <2>4 DEF Types
<1>4. NothingBefore /\ WireInOrder
  BY <1>2 DEF Init, NothingBefore, WireInOrder
<1>5. QueueContinues /\ ItemIsNext
  BY <1>2 DEF QueueContinues, ItemIsNext, Working, InHand
<1>6. QED
  BY <1>3, <1>4, <1>5 DEF WireInv

(* Steps that only move threads about, and those that close the session.    *)
LEMMA Moves ==
  ASSUME WireInv,
         UNCHANGED <<wire, sendCounter>>,
         request' \in [Callers -> Requests],
         item' \in Items, pc'[Writer] # "closing" => item' = item,
         promise' \in Seq(Values),
         Len(promise') = Len(promise),
         \/ UNCHANGED <<outgoing, sendFailed>>
         \/ outgoing' = <<>> /\ sendFailed' = TRUE,
         pc' \in [Threads -> Phases],
         \/ pc'[Writer] = pc[Writer]
         \/ pc[Writer] \in {"looking", "asleep"} /\ pc'[Writer] \in {"looking", "asleep"}
         \/ pc[Writer] = "notifying" /\ pc'[Writer] = "sending"
         \/ pc'[Writer] \in {"closing", "waking", "failing", "joining", "exited"},
         pc'[Writer] = "unstarted" =>
           \A t \in Callers : pc'[t] \notin {"looking", "asleep"}
  PROVE  WireInv'
<1> USE DEF WireInv
<1>1. Types'
  <2>1. outgoing' \in Seq(Outgoing) /\ sendFailed' \in BOOLEAN
    <3>1. CASE UNCHANGED <<outgoing, sendFailed>>
      BY <3>1 DEF Types
    <3>2. CASE outgoing' = <<>> /\ sendFailed' = TRUE
      BY <3>2
    <3>3. QED
      BY <3>1, <3>2
  <2>2. wire' \in Seq(Frames) /\ sendCounter' \in Nat
    BY DEF Types
  <2>3. QED
    BY <2>1, <2>2 DEF Types
<1>2. InHand' => InHand
  BY DEF InHand
<1>3. Working' => Working /\ (InHand' <=> InHand)
  BY DEF Working, InHand
<1>4. NothingBefore'
  BY DEF NothingBefore
<1>5. QueueContinues'
  BY <1>3 DEF QueueContinues, Taken
<1>6. ItemIsNext'
  <2>1. InHand' => item' = item
    BY DEF InHand
  <2>2. QED
    BY <1>2, <2>1 DEF ItemIsNext
<1>6a. WireInOrder'
  BY DEF WireInOrder
<1>7. QED
  BY <1>1, <1>4, <1>5, <1>6, <1>6a

(* notify_all moves sleepers only.                                          *)
LEMMA WokenMoves ==
  ASSUME pc \in [Threads -> Phases], NEW t \in Threads, NEW p \in Phases
  PROVE  /\ Woken(t, p) \in [Threads -> Phases]
         /\ Woken(t, p)[t] = p
         /\ \A u \in Threads \ {t} :
              /\ pc[u] # "asleep" => Woken(t, p)[u] = pc[u]
              /\ pc[u] = "asleep" => Woken(t, p)[u] = "looking"
BY DEF Woken, Phases

(* The writer starts on an empty queue.                                     *)
LEMMA OpenKeeps == WireInv /\ Open => WireInv'
<1> SUFFICES ASSUME WireInv, Open PROVE WireInv'
  OBVIOUS
<1> USE DEF WireInv
<1>1. Writer \in Threads /\ \A t \in Callers : t \in Threads /\ t # Writer
  BY SessionConstants DEF Threads
<1>2. /\ outgoing = <<>> /\ wire = <<>> /\ sendCounter = 0
      /\ pc[Writer] = "unstarted"
  BY DEF Open, NothingBefore
<1>3. pc' \in [Threads -> Phases] /\ pc'[Writer] = "looking"
  BY <1>1 DEF Open, Goto, Types, Phases
<1>4. Welcome \in Outgoing
  BY DEF Welcome, Outgoing
<1>5. /\ outgoing' \in Seq(Outgoing) /\ Len(outgoing') = 1
      /\ outgoing'[1] = Welcome
  BY <1>2, <1>4 DEF Open
<1>6. Len(promise') = 1 /\ promise' \in Seq(Values)
  BY DEF Open, Values
<1>7a. UNCHANGED <<wire, sendCounter, item, request, sendFailed>>
  BY DEF Open, loop, socket, calls
<1>7. Types'
  BY <1>3, <1>5, <1>6, <1>7a DEF Types
<1>8. QueueContinues'
  <2>1. Taken' = 0
    BY <1>2, <1>3, <1>7a DEF Taken, InHand
  <2>2. \A i \in 1 .. Len(outgoing') : outgoing'[i].n = i /\ (outgoing'[i].plain <=> i = 1)
    BY <1>5 DEF Welcome
  <2>3. QED
    BY <1>2, <1>5, <1>6, <1>7a, <2>1, <2>2 DEF QueueContinues
<1>9. NothingBefore' /\ ItemIsNext' /\ WireInOrder'
  BY <1>3, <1>7a DEF NothingBefore, ItemIsNext, InHand, WireInOrder
<1>10. QED
  BY <1>7, <1>8, <1>9

(* A queued message gets the next number.                                   *)
LEMMA QueueKeeps == ASSUME WireInv, NEW t \in Callers, Queue(t) PROVE WireInv'
<1> USE DEF WireInv
<1>1. t \in Threads /\ t # Writer /\ Writer \in Threads
  BY SessionConstants DEF Threads
<1>2. /\ pc' \in [Threads -> Phases] /\ pc'[Writer] = pc[Writer]
      /\ pc[Writer] # "unstarted"
  BY <1>1 DEF Queue, Goto, Types, Phases, NothingBefore
<1> DEFINE new == [n |-> Len(promise) + 1, size |-> request[t].size,
                   waits |-> request[t].wait, plain |-> FALSE]
<1>3. outgoing' = Append(outgoing, new) /\ Len(promise') = Len(promise) + 1
  <2>1. outgoing' = Append(outgoing, new)
    BY DEF Queue
  <2>2. promise' = Append(promise, IF request[t].wait THEN "unset" ELSE "none")
    BY DEF Queue
  <2>3. QED
    BY <2>1, <2>2 DEF Types
<1>4. UNCHANGED <<wire, item, sendCounter, sendFailed, request>> /\ ~sendFailed
  BY DEF Queue, loop, socket
<1>5. new \in Outgoing
  BY DEF Outgoing, Types, Requests
<1>6. Types'
  <2>1. promise' \in Seq(Values)
    <3>1. promise' = Append(promise, IF request[t].wait THEN "unset" ELSE "none")
      BY DEF Queue
    <3>2. (IF request[t].wait THEN "unset" ELSE "none") \in Values
      BY DEF Values
    <3>3. QED
      BY <3>1, <3>2 DEF Types
  <2>2. outgoing' \in Seq(Outgoing)
    BY <1>3, <1>5 DEF Types
  <2>3. QED
    BY <1>2, <1>4, <2>1, <2>2 DEF Types
<1>7. Taken' = Taken /\ Working' = Working /\ InHand' = InHand
  BY <1>2, <1>4 DEF Taken, Working, InHand
<1>8. QueueContinues'
  <2> SUFFICES ASSUME Working, ~sendFailed PROVE QueueContinues'
    BY <1>4, <1>7 DEF QueueContinues
  <2>1. /\ Len(promise) = Taken + Len(outgoing) /\ Len(promise) # 0
        /\ \A i \in 1 .. Len(outgoing) :
             outgoing[i].n = Taken + i /\ (outgoing[i].plain <=> Taken + i = 1)
    BY DEF QueueContinues
  <2>2. /\ Taken = 0 => sendCounter = 0
        /\ Taken # 0 => sendCounter = Taken - 1
    BY DEF QueueContinues
  <2>3. Taken \in Nat
    BY DEF Taken, Types
  <2>4. /\ Len(outgoing') = Len(outgoing) + 1
        /\ \A i \in 1 .. Len(outgoing) : outgoing'[i] = outgoing[i]
        /\ outgoing'[Len(outgoing) + 1] = new
    BY <1>3, <1>5 DEF Types
  <2>5. new.n = Taken + (Len(outgoing) + 1) /\ Taken + (Len(outgoing) + 1) # 1 /\ ~new.plain
    BY <2>1, <2>3 DEF Types
  <2>6. \A i \in 1 .. Len(outgoing') :
          outgoing'[i].n = Taken + i /\ (outgoing'[i].plain <=> Taken + i = 1)
    <3>1. TAKE i \in 1 .. Len(outgoing')
    <3>2. CASE i = Len(outgoing) + 1
      BY <2>4, <2>5, <3>2
    <3>3. CASE i \in 1 .. Len(outgoing)
      BY <2>1, <2>4, <3>3
    <3>4. i = Len(outgoing) + 1 \/ i \in 1 .. Len(outgoing)
      BY <2>4 DEF Types
    <3>5. QED
      BY <3>2, <3>3, <3>4
  <2>7. Len(promise') = Taken + Len(outgoing') /\ Len(promise') # 0
    BY <1>3, <2>1, <2>3, <2>4 DEF Types
  <2>8. QED
    BY <1>4, <1>7, <2>2, <2>6, <2>7 DEF QueueContinues
<1>9. NothingBefore' /\ ItemIsNext' /\ WireInOrder'
  BY <1>2, <1>4, <1>7 DEF NothingBefore, ItemIsNext, WireInOrder
<1>10. QED
  BY <1>6, <1>8, <1>9

(* The message at the head is the next one, and its counter the next too.   *)
LEMMA TakeKeeps == WireInv /\ Take => WireInv'
<1> SUFFICES ASSUME WireInv, Take PROVE WireInv'
  OBVIOUS
<1> USE DEF WireInv
<1>1. Writer \in Threads /\ pc[Writer] = "looking" /\ ~sendFailed /\ outgoing # <<>>
  BY DEF Take, Threads
<1>2. pc' \in [Threads -> Phases] /\ pc'[Writer] = "notifying"
  BY <1>1 DEF Take, Goto, Types, Phases
<1>3. UNCHANGED <<wire, promise, sendFailed, request>>
  BY DEF Take, calls, answers, socket
<1>4. Working /\ ~InHand /\ Taken = Len(wire) /\ Taken \in Nat
  BY <1>1 DEF Working, InHand, Taken, Types
<1>5. InHand' /\ Taken' = Taken + 1
  BY <1>2, <1>3, <1>4 DEF InHand, Taken
<1>6. /\ Len(promise) = Taken + Len(outgoing) /\ Len(promise) # 0
      /\ \A i \in 1 .. Len(outgoing) :
           outgoing[i].n = Taken + i /\ (outgoing[i].plain <=> Taken + i = 1)
  BY <1>1, <1>4 DEF QueueContinues
<1>7. /\ Taken = 0 => sendCounter = 0
      /\ Taken # 0 => sendCounter = Taken - 1
  BY <1>1, <1>4 DEF QueueContinues
<1>8. /\ Head(outgoing) = outgoing[1] /\ Head(outgoing) \in Outgoing
      /\ 1 \in 1 .. Len(outgoing)
      /\ outgoing' = Tail(outgoing) /\ outgoing' \in Seq(Outgoing)
      /\ Len(outgoing') = Len(outgoing) - 1
      /\ \A i \in 1 .. Len(outgoing') : outgoing'[i] = outgoing[i + 1]
  BY <1>1 DEF Take, Types
<1>9. Head(outgoing).n = Taken + 1 /\ (Head(outgoing).plain <=> Taken = 0)
  BY <1>4, <1>6, <1>8
<1>10. item' = [n |-> Head(outgoing).n, waits |-> Head(outgoing).waits,
                plain |-> Head(outgoing).plain,
                counter |-> IF Head(outgoing).plain THEN 0 ELSE sendCounter]
  BY DEF Take
<1>11. sendCounter' = IF Head(outgoing).plain THEN sendCounter ELSE sendCounter + 1
  BY DEF Take, NextCounter
<1>12. Types'
  <2>1. item' \in Items
    BY <1>8, <1>10 DEF Items, Outgoing, Types
  <2>2. sendCounter' \in Nat
    BY <1>11 DEF Types
  <2>3. QED
    BY <1>2, <1>3, <1>8, <2>1, <2>2 DEF Types
<1>13. sendCounter' = Taken
  BY <1>4, <1>7, <1>9, <1>11
<1>14. QueueContinues'
  <2>1. \A i \in 1 .. Len(outgoing') :
          outgoing'[i].n = Taken' + i /\ (outgoing'[i].plain <=> Taken' + i = 1)
    <3>1. TAKE i \in 1 .. Len(outgoing')
    <3>2. i + 1 \in 1 .. Len(outgoing) /\ outgoing'[i] = outgoing[i + 1]
      BY <1>8 DEF Types
    <3>3. /\ outgoing[i + 1].n = Taken + (i + 1)
          /\ outgoing[i + 1].plain <=> Taken + (i + 1) = 1
      BY <1>6, <3>2
    <3>4. Taken + (i + 1) = Taken' + i
      BY <1>4, <1>5
    <3>5. QED
      BY <3>2, <3>3, <3>4
  <2>2. Len(promise') = Taken' + Len(outgoing') /\ Len(promise') # 0
    BY <1>3, <1>4, <1>5, <1>6, <1>8 DEF Types
  <2>3. Taken' # 0 /\ sendCounter' = Taken' - 1
    BY <1>4, <1>5, <1>13
  <2>4. QED
    BY <2>1, <2>2, <2>3 DEF QueueContinues
<1>15. ItemIsNext'
  <2>1. item'.n = Len(wire') + 1
    BY <1>3, <1>4, <1>9, <1>10
  <2>2. item'.plain <=> item'.n = 1
    BY <1>4, <1>9, <1>10
  <2>3. item'.n > 1 => item'.counter = item'.n - 2
    BY <1>4, <1>7, <1>9, <1>10
  <2>4. QED
    BY <2>1, <2>2, <2>3 DEF ItemIsNext
<1>16. NothingBefore' /\ WireInOrder'
  BY <1>2, <1>3 DEF NothingBefore, WireInOrder
<1>17. QED
  BY <1>12, <1>14, <1>15, <1>16

(* Telling whoever waits changes one value.                                 *)
LEMMA TellKeepsLength ==
  ASSUME Types, NEW value \in {"written", "failed"}, Tell(value)
  PROVE  /\ promise' \in Seq(Values)
         /\ Len(promise') = Len(promise)
<1>1. CASE item.waits
  <2>1. SetValue(item.n, value) \in Values
    BY DEF SetValue, Values
  <2>2. promise' = [promise EXCEPT ![item.n] = SetValue(item.n, value)]
    BY <1>1 DEF Tell
  <2>3. /\ promise \in [1 .. Len(promise) -> Values]
        /\ Len(promise) \in Nat
    BY DEF Types
  <2>4. promise' \in [1 .. Len(promise) -> Values]
    BY <2>1, <2>2, <2>3
  <2>5. QED
    BY <2>3, <2>4
<1>2. CASE ~item.waits
  BY <1>2 DEF Tell, Types
<1>3. QED
  BY <1>1, <1>2

(* The frame written is the next the phone reads.                           *)
LEMMA WrittenKeeps == WireInv /\ Written => WireInv'
<1> SUFFICES ASSUME WireInv, Written PROVE WireInv'
  OBVIOUS
<1> USE DEF WireInv
<1> DEFINE frame == [n |-> item.n, plain |-> item.plain, counter |-> item.counter]
<1>1. Writer \in Threads /\ pc[Writer] = "sending" /\ InHand
  BY DEF Written, Threads, InHand
<1>2. pc' \in [Threads -> Phases] /\ pc'[Writer] = "looking"
  BY <1>1 DEF Written, Goto, Types, Phases
<1>3. UNCHANGED <<outgoing, sendFailed, sendCounter, request>>
  BY DEF Written, queue, calls
<1>4. /\ promise' \in Seq(Values)
      /\ Len(promise') = Len(promise)
  BY TellKeepsLength DEF Written
<1>5. wire' = Append(wire, frame) /\ frame \in Frames
  BY DEF Written, Types, Items, Frames
<1>6. /\ wire' \in Seq(Frames) /\ Len(wire') = Len(wire) + 1
      /\ DOMAIN wire' = 1 .. Len(wire) + 1 /\ DOMAIN wire = 1 .. Len(wire)
      /\ \A i \in 1 .. Len(wire) : wire'[i] = wire[i]
      /\ wire'[Len(wire) + 1] = frame
  BY <1>5 DEF Types
<1>7. Types'
  BY <1>2, <1>3, <1>4, <1>6 DEF Written, Types, NoItem, Items
<1>8. Working /\ Working' /\ ~InHand' /\ Taken' = Taken
  BY <1>1, <1>2, <1>6 DEF Working, InHand, Taken
<1>9. QueueContinues'
  BY <1>3, <1>4, <1>8 DEF QueueContinues
<1>10. WireInOrder'
  <2>1. /\ item.n = Len(wire) + 1
        /\ item.plain <=> item.n = 1
        /\ item.n > 1 => item.counter = item.n - 2
    BY <1>1 DEF ItemIsNext
  <2>2. item.plain \in BOOLEAN
    BY DEF Types, Items
  <2>3. item.plain = (item.n = 1)
    BY <2>1, <2>2
  <2>4. SUFFICES ASSUME NEW i \in 1 .. Len(wire) + 1
        PROVE  /\ wire'[i].n = i
               /\ wire'[i].plain = (i = 1)
               /\ i > 1 => wire'[i].counter = i - 2
    BY <1>6 DEF WireInOrder
  <2>5. CASE i = Len(wire) + 1
    BY <1>6, <2>1, <2>3, <2>5
  <2>6. CASE i \in 1 .. Len(wire)
    BY <1>6, <2>6 DEF WireInOrder
  <2>7. i = Len(wire) + 1 \/ i \in 1 .. Len(wire)
    BY DEF Types
  <2>8. QED
    BY <2>5, <2>6, <2>7
<1>11. NothingBefore' /\ ItemIsNext'
  BY <1>2, <1>8 DEF NothingBefore, ItemIsNext
<1>12. QED
  BY <1>7, <1>9, <1>10, <1>11

-----------------------------------------------------------------------------
(* The other steps of a caller leave queue and wire alone.                  *)
LEMMA CallerMoves ==
  ASSUME WireInv, NEW t \in Callers,
         \/ \E size \in Sizes, wait \in BOOLEAN : CallEnqueue(t, size, wait)
         \/ NoRoom(t) \/ NotifyQueued(t) \/ GetResult(t)
         \/ CallClose(t) \/ Destroy(t) \/ JoinWriter(t)
  PROVE  WireInv'
<1> USE DEF WireInv
<1>1. t \in Threads /\ t # Writer /\ Writer \in Threads /\ pc \in [Threads -> Phases]
      /\ Callers \subseteq Threads
  BY SessionConstants DEF Threads, Types
<1>2. UNCHANGED <<wire, sendCounter, item, promise, outgoing, sendFailed>>
  BY DEF CallEnqueue, NoRoom, NotifyQueued, GetResult, CallClose, Destroy,
         JoinWriter, queue, loop, answers, socket
<1>3. request' \in [Callers -> Requests]
  <2>1. ASSUME NEW size \in Sizes, NEW wait \in BOOLEAN, CallEnqueue(t, size, wait)
        PROVE  request' \in [Callers -> Requests]
    <3>1. [size |-> size, wait |-> wait] \in Requests
      BY SessionConstants DEF Requests
    <3>2. QED
      BY <2>1, <3>1 DEF CallEnqueue, Types
  <2>2. CASE ~\E size \in Sizes, wait \in BOOLEAN : CallEnqueue(t, size, wait)
    BY <2>2 DEF NoRoom, NotifyQueued, GetResult, CallClose, Destroy, JoinWriter,
         calls, Types
  <2>3. QED
    BY <2>1, <2>2
<1>4. CASE NotifyQueued(t)
  <2>1. PICK p \in Phases : p \in {"awaiting", "idle"} /\ pc' = Woken(t, p)
    BY <1>4 DEF NotifyQueued, Phases
  <2>2. /\ pc' \in [Threads -> Phases] /\ pc'[t] = p
        /\ \A u \in Threads \ {t} :
             /\ pc[u] # "asleep" => pc'[u] = pc[u]
             /\ pc[u] = "asleep" => pc'[u] = "looking"
    BY <1>1, <2>1, WokenMoves
  <2>3. \/ pc'[Writer] = pc[Writer]
        \/ pc[Writer] = "asleep" /\ pc'[Writer] = "looking"
    BY <1>1, <2>2
  <2>4. pc'[Writer] = "unstarted" => \A u \in Callers : pc'[u] \notin {"looking", "asleep"}
    BY <1>1, <2>1, <2>2 DEF NothingBefore
  <2>5. QED
    BY <1>2, <1>3, <2>2, <2>3, <2>4, Moves DEF Types
<1>5. CASE ~NotifyQueued(t)
  <2>1. PICK p \in Phases :
          /\ Goto(t, p)
          /\ p \in {"looking", "asleep"} => pc[Writer] # "unstarted"
    <3>1. CASE NoRoom(t)
      BY <3>1, <1>1 DEF NoRoom, Phases, NothingBefore
    <3>2. CASE ~NoRoom(t)
      BY <1>5, <3>2 DEF CallEnqueue, GetResult, CallClose, Destroy, JoinWriter, Phases
    <3>3. QED
      BY <3>1, <3>2
  <2>2. /\ pc' \in [Threads -> Phases] /\ pc'[Writer] = pc[Writer] /\ pc'[t] = p
        /\ \A u \in Threads \ {t} : pc'[u] = pc[u]
    BY <1>1, <2>1 DEF Goto
  <2>3. pc'[Writer] = "unstarted" => \A u \in Callers : pc'[u] \notin {"looking", "asleep"}
    BY <1>1, <2>1, <2>2 DEF NothingBefore
  <2>4. QED
    BY <1>2, <1>3, <2>2, <2>3, Moves DEF Types
<1>6. QED
  BY <1>4, <1>5

(* Closing drops the queue and marks the session for good.                  *)
LEMMA CloseMoves == ASSUME WireInv, NEW t \in Threads, CloseStep(t) PROVE WireInv'
<1> USE DEF WireInv
<1>1. Writer \in Threads /\ pc \in [Threads -> Phases] /\ Callers \subseteq Threads
  BY DEF Threads, Types
<1>2. UNCHANGED <<wire, sendCounter, item, request>>
  BY DEF CloseStep, Close, WakeAndShut, FailDropped, loop, calls, socket
<1>3. \/ UNCHANGED <<outgoing, sendFailed>>
      \/ outgoing' = <<>> /\ sendFailed' = TRUE
  BY DEF CloseStep, Close, WakeAndShut, FailDropped, queue
<1>4. /\ promise' \in Seq(Values)
      /\ Len(promise') = Len(promise)
  <2>1. CASE FailDropped(t)
    <3>1. \A n \in 1 .. Len(promise) :
            (IF \E i \in DOMAIN dropped[t] : dropped[t][i].n = n /\ dropped[t][i].waits
             THEN SetValue(n, "failed") ELSE promise[n])
            \in Values
      BY DEF SetValue, Types, Values
    <3>2. promise' \in [1 .. Len(promise) -> Values]
      BY <2>1, <3>1 DEF FailDropped
    <3>3. Len(promise) \in Nat
      BY DEF Types
    <3>4. QED
      BY <3>2, <3>3
  <2>2. CASE ~FailDropped(t)
    BY <2>2 DEF CloseStep, Close, WakeAndShut, answers, Types
  <2>3. QED
    BY <2>1, <2>2
<1>5. PICK p \in Phases :
        /\ p \in {"waking", "failing", "joining", "exited", "idle"}
        /\ p = "idle" => t # Writer
        /\ Goto(t, p) \/ pc' = Woken(t, p)
  <2>1. CASE Close(t)
    BY <2>1 DEF Close, Phases
  <2>2. CASE WakeAndShut(t)
    BY <2>2 DEF WakeAndShut, Phases
  <2>3. CASE FailDropped(t)
    <3>1. CASE owner = t
      BY <2>3, <3>1 DEF FailDropped, Phases
    <3>2. CASE owner # t
      BY <2>3, <3>2 DEF FailDropped, Phases, Goto
    <3>3. QED
      BY <3>1, <3>2
  <2>4. QED
    BY <2>1, <2>2, <2>3 DEF CloseStep
<1>6. /\ pc' \in [Threads -> Phases] /\ pc'[t] = p
      /\ \A u \in Threads \ {t} :
           \/ pc'[u] = pc[u]
           \/ pc[u] = "asleep" /\ pc'[u] = "looking"
  <2>1. CASE Goto(t, p)
    BY <1>1, <2>1 DEF Goto
  <2>2. CASE pc' = Woken(t, p)
    BY <1>1, <2>2, WokenMoves
  <2>3. QED
    BY <1>5, <2>1, <2>2
<1>7. \/ pc'[Writer] = pc[Writer]
      \/ pc[Writer] = "asleep" /\ pc'[Writer] = "looking"
      \/ pc'[Writer] \in {"waking", "failing", "joining", "exited"}
  BY <1>1, <1>5, <1>6
<1>8. pc'[Writer] = "unstarted" => \A u \in Callers : pc'[u] \notin {"looking", "asleep"}
  <2> SUFFICES ASSUME pc'[Writer] = "unstarted", NEW u \in Callers
      PROVE  pc'[u] \notin {"looking", "asleep"}
    OBVIOUS
  <2>1. pc[Writer] = "unstarted"
    BY <1>7
  <2>2. pc[u] \notin {"looking", "asleep"} /\ u \in Threads
    BY <1>1, <2>1 DEF NothingBefore
  <2>3. QED
    BY <1>5, <1>6, <2>2
<1>9. request' \in [Callers -> Requests] /\ item' \in Items
  BY <1>2 DEF Types
<1>10. QED
  BY <1>2, <1>3, <1>4, <1>6, <1>7, <1>8, <1>9, Moves

(* So do the other steps of the writer.                                     *)
LEMMA WriterMoves == WireInv /\ (Rest \/ NotifyRoom \/ WriteFails) => WireInv'
<1> SUFFICES ASSUME WireInv, Rest \/ NotifyRoom \/ WriteFails PROVE WireInv'
  OBVIOUS
<1> USE DEF WireInv
<1>1. /\ Writer \in Threads /\ pc \in [Threads -> Phases]
      /\ Callers \subseteq Threads \ {Writer}
  BY SessionConstants DEF Threads, Types
<1>2. UNCHANGED <<wire, sendCounter, outgoing, sendFailed, request>>
  BY DEF Rest, NotifyRoom, WriteFails, queue, loop, calls, socket
<1>3. /\ promise' \in Seq(Values)
      /\ Len(promise') = Len(promise)
  <2>1. CASE WriteFails
    BY <2>1, TellKeepsLength DEF WriteFails
  <2>2. CASE ~WriteFails
    BY <2>2 DEF Rest, NotifyRoom, answers, Types
  <2>3. QED
    BY <2>1, <2>2
<1>4. /\ pc' \in [Threads -> Phases] /\ pc'[Writer] # "unstarted"
      /\ \/ pc'[Writer] = pc[Writer]
         \/ pc[Writer] \in {"looking", "asleep"} /\ pc'[Writer] \in {"looking", "asleep"}
         \/ pc[Writer] = "notifying" /\ pc'[Writer] = "sending"
         \/ pc'[Writer] \in {"closing", "waking", "failing", "joining", "exited"}
      /\ item' \in Items /\ (pc'[Writer] # "closing" => item' = item)
  <2>1. CASE Rest
    BY <1>1, <2>1 DEF Rest, Goto, Phases, loop, Types
  <2>2. CASE NotifyRoom
    <3>1. "sending" \in Phases
      BY DEF Phases
    <3>2. QED
      BY <1>1, <2>2, <3>1, WokenMoves DEF NotifyRoom, loop, Types
  <2>3. CASE WriteFails
    BY <1>1, <2>3 DEF WriteFails, Goto, AfterFailure, Phases, NoItem, Items
  <2>4. QED
    BY <2>1, <2>2, <2>3
<1>5. request' \in [Callers -> Requests]
  BY <1>2 DEF Types
<1>6. QED
  BY <1>2, <1>3, <1>4, <1>5, Moves

(* Every step keeps the wire in order.                                      *)
LEMMA WireStep == WireInv /\ [Next]_vars => WireInv'
<1> SUFFICES ASSUME WireInv, [Next]_vars PROVE WireInv'
  OBVIOUS
<1>1. CASE Open
  BY <1>1, OpenKeeps
<1>2. ASSUME NEW t \in Callers, NEW size \in Sizes, NEW wait \in BOOLEAN,
             CallEnqueue(t, size, wait)
      PROVE  WireInv'
  BY <1>2, CallerMoves
<1>3. ASSUME NEW t \in Callers, CallClose(t) \/ Destroy(t) \/ CallerStep(t)
      PROVE  WireInv'
  <2>1. t \in Threads
    BY DEF Threads
  <2>2. CASE Queue(t)
    BY <2>2, QueueKeeps
  <2>3. CASE CloseStep(t)
    BY <2>1, <2>3, CloseMoves
  <2>4. CASE NoRoom(t) \/ NotifyQueued(t) \/ GetResult(t) \/ CallClose(t) \/ Destroy(t)
             \/ JoinWriter(t)
    BY <2>4, CallerMoves
  <2>5. QED
    BY <1>3, <2>2, <2>3, <2>4 DEF CallerStep
<1>4. CASE WriterStep
  <2>1. Writer \in Threads
    BY DEF Threads
  <2>2. CASE CloseStep(Writer)
    BY <2>1, <2>2, CloseMoves
  <2>3. CASE Take
    BY <2>3, TakeKeeps
  <2>4. CASE Written
    BY <2>4, WrittenKeeps
  <2>5. CASE Rest \/ NotifyRoom \/ WriteFails
    BY <2>5, WriterMoves
  <2>6. QED
    BY <1>4, <2>2, <2>3, <2>4, <2>5 DEF WriterStep
<1>5. CASE UNCHANGED vars
  BY <1>5 DEF vars, queue, loop, calls, answers, socket, WireInv, Types,
     NothingBefore, QueueContinues, ItemIsNext, WireInOrder, Working, InHand, Taken
<1>6. QED
  BY <1>1, <1>2, <1>3, <1>4, <1>5 DEF Next

(* The phone reads the welcome and then every accepted message, none        *)
(* missing, none twice, in the order of acceptance and with the counter it  *)
(* expects, however many callers and whenever the session is closed.        *)
THEOREM WireIsInOrder == Spec => []WireInOrder
<1>1. Init => WireInv
  BY WireInit
<1>2. WireInv /\ [Next]_vars => WireInv'
  BY WireStep
<1>3. WireInv => WireInOrder
  BY DEF WireInv
<1>4. QED
  BY <1>1, <1>2, <1>3, PTL DEF Spec
-----------------------------------------------------------------------------
(* What callers are told.  A message nobody has taken is on its way to the  *)
(* wire or to failure, and its promise has no value yet.                    *)
Undecided(m) ==
  /\ m.n \in Taken + 1 .. Len(promise)
  /\ m.waits => promise[m.n] = "unset"

QueuedAreUndecided ==
  /\ Taken <= Len(promise)
  /\ \A i \in 1 .. Len(outgoing) : Undecided(outgoing[i])
  /\ \A t \in Threads : \A i \in 1 .. Len(dropped[t]) : Undecided(dropped[t][i])
  /\ InHand /\ item.waits => promise[item.n] = "unset"

(* Promises that have a value have the right one, and none is failed while  *)
(* the writer may still send what follows.                                  *)
ValuesAreTrue ==
  \A n \in 1 .. Len(promise) :
    /\ promise[n] # "twice"
    /\ promise[n] = "written" => n <= Len(wire)
    /\ promise[n] = "failed" => n > Taken /\ (sendFailed \/ ~Working)

(* Whoever dropped a message that is waited for is the only one: the first  *)
(* Close finds it in the queue, and none is queued afterwards.              *)
NoneWaits(s) == \A i \in 1 .. Len(s) : ~s[i].waits

OneFails ==
  /\ ~sendFailed => \A t \in Threads : dropped[t] = <<>>
  /\ sendFailed => NoneWaits(outgoing)
  /\ \A t, u \in Threads : t # u => NoneWaits(dropped[t]) \/ NoneWaits(dropped[u])

TruthInv == QueuedAreUndecided /\ ValuesAreTrue /\ OneFails

(* The types of the rest.                                                   *)
OtherTypes ==
  /\ stop \in BOOLEAN /\ shut \in BOOLEAN
  /\ owner \in Callers \cup {Nobody}
  /\ awaited \in [Callers -> Nat]
  /\ dropped \in [Threads -> Seq(Outgoing)]

(* Nobody was told anything yet.                                            *)
LEMMA TruthInit == Init => TruthInv
<1> SUFFICES ASSUME Init PROVE TruthInv
  OBVIOUS
<1>1. /\ Writer \in Threads /\ pc[Writer] = "unstarted"
      /\ outgoing = <<>> /\ promise = <<>> /\ wire = <<>> /\ ~sendFailed
      /\ \A t \in Threads : dropped[t] = <<>>
  BY DEF Init, Threads
<1>2. ~InHand /\ Taken = 0
  BY <1>1 DEF InHand, Taken
<1>3. QueuedAreUndecided
  BY <1>1, <1>2 DEF QueuedAreUndecided
<1>4. ValuesAreTrue
  BY <1>1 DEF ValuesAreTrue
<1>5. OneFails
  BY <1>1 DEF OneFails, NoneWaits
<1>6. QED
  BY <1>3, <1>4, <1>5 DEF TruthInv

-----------------------------------------------------------------------------
(* Where the writer is matters only through what it holds and whether it    *)
(* may still take something: a caller's step changes neither.               *)
WriterStays == (InHand' <=> InHand) /\ (Working' => Working)

(* A caller that moves, or wakes the others, leaves the writer where it is. *)
LEMMA CallerLeavesTheWriter ==
  ASSUME pc \in [Threads -> Phases], NEW t \in Callers, NEW p \in Phases,
         Goto(t, p) \/ pc' = Woken(t, p)
  PROVE  WriterStays
<1>1. t \in Threads /\ Writer \in Threads /\ t # Writer
  BY SessionConstants DEF Threads
<1>2. \/ pc'[Writer] = pc[Writer]
      \/ pc[Writer] = "asleep" /\ pc'[Writer] = "looking"
  <2>1. CASE Goto(t, p)
    BY <1>1, <2>1 DEF Goto
  <2>2. CASE pc' = Woken(t, p)
    BY <1>1, <2>2, WokenMoves
  <2>3. QED
    BY <2>1, <2>2
<1>3. QED
  BY <1>2 DEF WriterStays, InHand, Working

(* Nor does closing, by which the writer leaves its loop for good.          *)
LEMMA ClosingLeavesTheWriter ==
  ASSUME pc \in [Threads -> Phases], NEW t \in Threads, CloseStep(t)
  PROVE  WriterStays
<1>1. Writer \in Threads /\ pc[t] \in {"closing", "waking", "failing"}
  BY DEF CloseStep, Close, WakeAndShut, FailDropped, Threads
<1>2. PICK p \in Phases :
        /\ p \in {"waking", "failing", "joining", "exited", "idle"}
        /\ Goto(t, p) \/ pc' = Woken(t, p)
  <2>1. CASE Close(t)
    BY <2>1 DEF Close, Phases
  <2>2. CASE WakeAndShut(t)
    BY <2>2 DEF WakeAndShut, Phases
  <2>3. CASE FailDropped(t)
    <3>1. CASE owner = t
      BY <2>3, <3>1 DEF FailDropped, Phases
    <3>2. CASE owner # t
      BY <2>3, <3>2 DEF FailDropped, Phases, Goto
    <3>3. QED
      BY <3>1, <3>2
  <2>4. QED
    BY <2>1, <2>2, <2>3 DEF CloseStep
<1>3. CASE t \in Callers
  BY <1>2, <1>3, CallerLeavesTheWriter
<1>4. CASE t = Writer
  <2>1. pc'[Writer] = p
    BY <1>1, <1>2, <1>4, WokenMoves DEF Goto
  <2>2. QED
    BY <1>1, <1>2, <1>4, <2>1 DEF WriterStays, InHand, Working
<1>5. QED
  BY <1>3, <1>4 DEF Threads

(* The counts are natural numbers.                                          *)
LEMMA TakenIsNatural == Types => Taken \in Nat /\ Len(promise) \in Nat /\ Len(wire) \in Nat
BY DEF Types, Taken

-----------------------------------------------------------------------------
(* Steps that change nothing of a message.                                  *)
LEMMA QuietTruth ==
  ASSUME TruthInv, WriterStays,
         UNCHANGED <<outgoing, sendFailed, promise, dropped, wire, item>>
  PROVE  TruthInv'
<1>1. Taken' = Taken /\ (InHand' => InHand) /\ (Working' => Working)
  BY DEF WriterStays, Taken
<1>2. QueuedAreUndecided'
  BY <1>1 DEF TruthInv, QueuedAreUndecided, Undecided
<1>3. ValuesAreTrue'
  BY <1>1 DEF TruthInv, ValuesAreTrue
<1>4. OneFails'
  BY DEF TruthInv, OneFails, NoneWaits
<1>5. QED
  BY <1>2, <1>3, <1>4 DEF TruthInv

(* The writer starts before anything was accepted.                          *)
LEMMA OpenTruth == WireInv /\ TruthInv /\ OtherTypes /\ Open => TruthInv'
<1> SUFFICES ASSUME WireInv, TruthInv, OtherTypes, Open PROVE TruthInv'
  OBVIOUS
<1>1. /\ pc[Writer] = "unstarted" /\ pc \in [Threads -> Phases] /\ Writer \in Threads
      /\ pc' = [pc EXCEPT ![Writer] = "looking"]
  BY DEF Open, Goto, WireInv, Types, Threads
<1>2. ~InHand /\ ~InHand'
  BY <1>1 DEF InHand
<1>3. outgoing = <<>> /\ wire = <<>> /\ Len(promise) = 0
  BY <1>1 DEF WireInv, NothingBefore
<1>4. UNCHANGED <<sendFailed, dropped, wire, item>>
  BY DEF Open, loop, socket
<1>5. Taken = 0 /\ Taken' = 0 /\ Len(wire') = 0
  BY <1>2, <1>3, <1>4 DEF Taken
<1>6. promise' = <<"none">> /\ outgoing' = <<Welcome>>
  BY <1>3 DEF Open
<1>7. Len(promise') = 1 /\ promise'[1] = "none" /\ Len(outgoing') = 1
      /\ outgoing'[1] = Welcome
  BY <1>6
<1>8. ASSUME NEW t \in Threads, NEW i \in 1 .. Len(dropped'[t]) PROVE FALSE
  <2>1. Undecided(dropped[t][i])
    BY <1>4, <1>8 DEF TruthInv, QueuedAreUndecided
  <2>2. dropped[t][i].n \in Taken + 1 .. Len(promise)
    BY <2>1 DEF Undecided
  <2>3. QED
    BY <1>3, <1>5, <2>2
<1>9. QueuedAreUndecided'
  <2>1. \A i \in 1 .. Len(outgoing') : Undecided(outgoing[i])'
    BY <1>5, <1>7 DEF Undecided, Welcome
  <2>2. \A t \in Threads : \A i \in 1 .. Len(dropped'[t]) : Undecided(dropped[t][i])'
    BY <1>8
  <2>3. Taken' <= Len(promise')
    BY <1>5, <1>7
  <2>4. QED
    BY <1>2, <2>1, <2>2, <2>3 DEF QueuedAreUndecided
<1>10. ValuesAreTrue'
  BY <1>7 DEF ValuesAreTrue
<1>11. OneFails'
  <2>1. NoneWaits(outgoing)'
    BY <1>7 DEF NoneWaits, Welcome
  <2>2. QED
    BY <1>4, <2>1 DEF TruthInv, OneFails, NoneWaits
<1>12. QED
  BY <1>9, <1>10, <1>11 DEF TruthInv

(* A queued message is the last, and nobody has failed one yet.             *)
LEMMA QueueTruth ==
  ASSUME WireInv, TruthInv, OtherTypes, NEW t \in Callers, Queue(t)
  PROVE  TruthInv'
<1> DEFINE m == [n |-> Len(promise) + 1, size |-> request[t].size,
                 waits |-> request[t].wait, plain |-> FALSE]
           v == IF request[t].wait THEN "unset" ELSE "none"
<1>1. /\ ~sendFailed /\ outgoing' = Append(outgoing, m) /\ promise' = Append(promise, v)
      /\ UNCHANGED <<sendFailed, dropped, wire, item>>
  BY DEF Queue, loop, socket
<1>2. WriterStays
  <2>1. "notifying" \in Phases /\ Goto(t, "notifying")
    BY DEF Phases, Queue
  <2>2. QED
    BY <2>1, CallerLeavesTheWriter DEF WireInv, Types
<1>3. Taken' = Taken /\ (InHand' => InHand) /\ (Working' => Working)
  BY <1>1, <1>2 DEF WriterStays, Taken
<1>4. Taken \in Nat /\ Len(promise) \in Nat /\ Taken <= Len(promise)
  BY TakenIsNatural DEF WireInv, TruthInv, QueuedAreUndecided
<1>5. m \in Outgoing /\ m.n = Len(promise) + 1 /\ (m.waits <=> request[t].wait)
  BY <1>4 DEF Outgoing, WireInv, Types, Requests
<1>6. v \in Values /\ v \in {"unset", "none"} /\ (m.waits => v = "unset")
  BY <1>5 DEF Values
<1>7. outgoing \in Seq(Outgoing) /\ promise \in Seq(Values)
  BY DEF WireInv, Types
<1> HIDE DEF m, v
<1>8. /\ Len(promise') = Len(promise) + 1
      /\ \A n \in 1 .. Len(promise) : promise'[n] = promise[n]
      /\ promise'[Len(promise) + 1] = v
  BY <1>1, <1>6, <1>7
<1>9. /\ Len(outgoing') = Len(outgoing) + 1 /\ Len(outgoing) \in Nat
      /\ \A i \in 1 .. Len(outgoing) : outgoing'[i] = outgoing[i]
      /\ outgoing'[Len(outgoing) + 1] = m
  BY <1>1, <1>5, <1>7
<1>10. ASSUME NEW x, Undecided(x)
       PROVE  Undecided(x)'
  <2>1. x.n \in Taken + 1 .. Len(promise) /\ (x.waits => promise[x.n] = "unset")
    BY <1>10 DEF Undecided
  <2>2. x.n \in 1 .. Len(promise) /\ x.n \in Taken' + 1 .. Len(promise')
    BY <1>3, <1>4, <1>8, <2>1
  <2>3. QED
    BY <1>8, <2>1, <2>2 DEF Undecided
<1>11. QueuedAreUndecided'
  <2>1. ASSUME NEW i \in 1 .. Len(outgoing') PROVE Undecided(outgoing[i])'
    <3>1. CASE i = Len(outgoing) + 1
      <4>1. outgoing'[i].n \in Taken' + 1 .. Len(promise')
        BY <1>3, <1>4, <1>5, <1>8, <1>9, <3>1
      <4>2. outgoing'[i].waits => promise'[outgoing'[i].n] = "unset"
        BY <1>5, <1>6, <1>8, <1>9, <3>1
      <4>3. QED
        BY <4>1, <4>2 DEF Undecided
    <3>2. CASE i \in 1 .. Len(outgoing)
      <4>1. Undecided(outgoing[i]) /\ outgoing'[i] = outgoing[i]
        BY <1>9, <3>2 DEF TruthInv, QueuedAreUndecided
      <4>2. QED
        BY <1>10, <4>1 DEF Undecided
    <3>3. QED
      BY <1>9, <2>1, <3>1, <3>2
  <2>2. ASSUME NEW u \in Threads, NEW i \in 1 .. Len(dropped'[u])
        PROVE  Undecided(dropped[u][i])'
    BY <1>1, <2>2 DEF TruthInv, OneFails
  <2>3. InHand' /\ item'.waits => promise'[item'.n] = "unset"
    <3> SUFFICES ASSUME InHand', item'.waits PROVE promise'[item'.n] = "unset"
      OBVIOUS
    <3>1. InHand /\ item.waits /\ promise[item.n] = "unset"
      BY <1>1, <1>3 DEF TruthInv, QueuedAreUndecided
    <3>2. item.n = Taken
      BY <3>1 DEF WireInv, ItemIsNext, Taken
    <3>3. item.n \in 1 .. Len(promise)
      BY <1>4, <3>1, <3>2, TakenIsNatural DEF Taken, WireInv
    <3>4. QED
      BY <1>1, <1>8, <3>1, <3>3
  <2>4. Taken' <= Len(promise')
    BY <1>3, <1>4, <1>8
  <2>5. QED
    BY <2>1, <2>2, <2>3, <2>4 DEF QueuedAreUndecided
<1>12. ValuesAreTrue'
  <2> SUFFICES ASSUME NEW n \in 1 .. Len(promise')
      PROVE  /\ promise'[n] # "twice"
             /\ promise'[n] = "written" => n <= Len(wire')
             /\ promise'[n] = "failed" => n > Taken' /\ (sendFailed' \/ ~Working')
    BY DEF ValuesAreTrue
  <2>1. CASE n = Len(promise) + 1
    BY <1>6, <1>8, <2>1
  <2>2. CASE n \in 1 .. Len(promise)
    <3>1. promise'[n] = promise[n]
      BY <1>8, <2>2
    <3>2. QED
      BY <1>1, <1>3, <2>2, <3>1 DEF TruthInv, ValuesAreTrue
  <2>3. QED
    BY <1>4, <1>8, <2>1, <2>2
<1>13. OneFails'
  BY <1>1 DEF TruthInv, OneFails, NoneWaits
<1>14. QED
  BY <1>11, <1>12, <1>13 DEF TruthInv

(* Close takes the queue as it is.                                          *)
LEMMA CloseTruth ==
  ASSUME WireInv, TruthInv, OtherTypes, NEW t \in Threads, Close(t)
  PROVE  TruthInv'
<1>1. /\ outgoing' = <<>> /\ sendFailed' = TRUE
      /\ dropped' = [dropped EXCEPT ![t] = outgoing]
      /\ UNCHANGED <<promise, wire, item>>
  BY DEF Close, loop, socket
<1>2. WriterStays
  BY ClosingLeavesTheWriter DEF CloseStep, WireInv, Types
<1>3. Taken' = Taken /\ (InHand' => InHand) /\ (Working' => Working)
  BY <1>1, <1>2 DEF WriterStays, Taken
<1>4. /\ dropped'[t] = outgoing
      /\ \A u \in Threads \ {t} : dropped'[u] = dropped[u]
  BY <1>1 DEF OtherTypes
<1>5. QueuedAreUndecided'
  <2>1. ASSUME NEW u \in Threads, NEW i \in 1 .. Len(dropped'[u])
        PROVE  Undecided(dropped[u][i])'
    <3>1. Undecided(dropped'[u][i])
      BY <1>4, <2>1 DEF TruthInv, QueuedAreUndecided
    <3>2. QED
      BY <1>1, <1>3, <3>1 DEF Undecided
  <2>2. Len(outgoing') = 0
    BY <1>1
  <2>3. QED
    BY <1>1, <1>3, <2>1, <2>2 DEF TruthInv, QueuedAreUndecided
<1>6. ValuesAreTrue'
  BY <1>1, <1>3 DEF TruthInv, ValuesAreTrue
<1>7. OneFails'
  <2>1. \A u \in Threads : u # t => NoneWaits(outgoing) \/ NoneWaits(dropped[u])
    BY DEF TruthInv, OneFails, NoneWaits
  <2>2. \A u, v \in Threads : u # v => NoneWaits(dropped'[u]) \/ NoneWaits(dropped'[v])
    BY <1>4, <2>1 DEF TruthInv, OneFails
  <2>3. NoneWaits(outgoing)'
    BY <1>1 DEF NoneWaits
  <2>4. QED
    BY <1>1, <2>2, <2>3 DEF OneFails, NoneWaits
<1>8. QED
  BY <1>5, <1>6, <1>7 DEF TruthInv

(* Failing what was dropped sets promises that had no value, of messages    *)
(* that are not on the wire and that no other thread has to fail.           *)
LEMMA FailTruth ==
  ASSUME WireInv, TruthInv, OtherTypes, NEW t \in Threads, FailDropped(t)
  PROVE  TruthInv'
<1> DEFINE Mine(n) == \E i \in DOMAIN dropped[t] :
                        dropped[t][i].n = n /\ dropped[t][i].waits
<1>1. /\ promise' = [n \in 1 .. Len(promise) |->
             IF Mine(n) THEN SetValue(n, "failed") ELSE promise[n]]
      /\ dropped' = [dropped EXCEPT ![t] = <<>>]
      /\ UNCHANGED <<outgoing, sendFailed, wire, item>>
  BY DEF FailDropped, queue, socket
<1>2. WriterStays
  BY ClosingLeavesTheWriter DEF CloseStep, WireInv, Types
<1>3. Taken' = Taken /\ (InHand' => InHand) /\ (Working' => Working)
  BY <1>1, <1>2 DEF WriterStays, Taken
<1>4. /\ dropped'[t] = <<>>
      /\ \A u \in Threads \ {t} : dropped'[u] = dropped[u]
      /\ DOMAIN dropped[t] = 1 .. Len(dropped[t])
  BY <1>1 DEF OtherTypes
<1>5. Taken \in Nat /\ Len(promise) \in Nat
  BY TakenIsNatural DEF WireInv
<1>6. ASSUME NEW n, Mine(n)
      PROVE  /\ n \in Taken + 1 .. Len(promise) /\ promise[n] = "unset"
             /\ sendFailed
  <2>1. PICK i \in 1 .. Len(dropped[t]) : dropped[t][i].n = n /\ dropped[t][i].waits
    BY <1>4, <1>6
  <2>2. Undecided(dropped[t][i])
    BY <2>1 DEF TruthInv, QueuedAreUndecided
  <2>3. dropped[t] # <<>>
    BY <2>1
  <2>4. sendFailed
    BY <2>3 DEF TruthInv, OneFails
  <2>5. QED
    BY <2>1, <2>2, <2>4 DEF Undecided
<1>7. /\ Len(promise') = Len(promise)
      /\ \A n \in 1 .. Len(promise) :
           promise'[n] = IF Mine(n) THEN SetValue(n, "failed") ELSE promise[n]
  BY <1>1, <1>5
<1>8. \A n \in 1 .. Len(promise) :
        promise'[n] = IF Mine(n) THEN "failed" ELSE promise[n]
  BY <1>6, <1>7 DEF SetValue
<1>9. ASSUME NEW m, Undecided(m), m.waits => ~Mine(m.n)
      PROVE  Undecided(m)'
  <2>1. m.n \in Taken + 1 .. Len(promise) /\ (m.waits => promise[m.n] = "unset")
    BY <1>9 DEF Undecided
  <2>2. m.n \in 1 .. Len(promise)
    BY <1>5, <2>1
  <2>3. QED
    BY <1>3, <1>7, <1>8, <1>9, <2>1, <2>2 DEF Undecided
<1> HIDE DEF Mine
<1>10. CASE NoneWaits(dropped[t])
  <2>1. \A n : ~Mine(n)
    BY <1>4, <1>10 DEF NoneWaits, Mine
  <2>2. \A n \in 1 .. Len(promise) : promise'[n] = promise[n]
    BY <1>8, <2>1
  <2>3. QueuedAreUndecided'
    <3>1. ASSUME NEW u \in Threads, NEW i \in 1 .. Len(dropped'[u])
          PROVE  Undecided(dropped[u][i])'
      <4>1. u # t /\ dropped'[u] = dropped[u]
        BY <1>4, <3>1
      <4>2. Undecided(dropped[u][i])
        BY <3>1, <4>1 DEF TruthInv, QueuedAreUndecided
      <4>3. QED
        BY <1>9, <2>1, <4>1, <4>2 DEF Undecided
    <3>2. ASSUME NEW i \in 1 .. Len(outgoing') PROVE Undecided(outgoing[i])'
      <4>1. Undecided(outgoing[i])
        BY <1>1, <3>2 DEF TruthInv, QueuedAreUndecided
      <4>2. QED
        BY <1>1, <1>9, <2>1, <4>1 DEF Undecided
    <3>3. InHand' /\ item'.waits => promise'[item'.n] = "unset"
      <4> SUFFICES ASSUME InHand', item'.waits PROVE promise'[item'.n] = "unset"
        OBVIOUS
      <4>1. InHand /\ item.waits /\ promise[item.n] = "unset" /\ Taken <= Len(promise)
        BY <1>1, <1>3 DEF TruthInv, QueuedAreUndecided
      <4>2. item.n = Taken /\ Taken # 0
        BY <4>1, TakenIsNatural DEF WireInv, ItemIsNext, Taken
      <4>3. item.n \in 1 .. Len(promise)
        BY <1>5, <4>1, <4>2
      <4>4. QED
        BY <1>1, <2>2, <4>1, <4>3
    <3>4. Taken' <= Len(promise')
      BY <1>3, <1>7 DEF TruthInv, QueuedAreUndecided
    <3>5. QED
      BY <3>1, <3>2, <3>3, <3>4 DEF QueuedAreUndecided
  <2>4. ValuesAreTrue'
    BY <1>1, <1>3, <1>7, <2>2 DEF TruthInv, ValuesAreTrue
  <2>5. OneFails'
    BY <1>1, <1>4 DEF TruthInv, OneFails, NoneWaits
  <2>6. QED
    BY <2>3, <2>4, <2>5 DEF TruthInv
<1>11. CASE ~NoneWaits(dropped[t])
  <2>1. \A u \in Threads \ {t} : NoneWaits(dropped[u])
    BY <1>11 DEF TruthInv, OneFails
  <2>2. sendFailed /\ NoneWaits(outgoing)
    <3>1. dropped[t] # <<>>
      BY <1>11 DEF NoneWaits
    <3>2. QED
      BY <3>1 DEF TruthInv, OneFails
  <2>3. QueuedAreUndecided'
    <3>1. ASSUME NEW u \in Threads, NEW i \in 1 .. Len(dropped'[u])
          PROVE  Undecided(dropped[u][i])'
      <4>1. u # t /\ dropped'[u] = dropped[u]
        BY <1>4, <3>1
      <4>2. Undecided(dropped[u][i]) /\ ~dropped[u][i].waits
        BY <2>1, <3>1, <4>1 DEF TruthInv, QueuedAreUndecided, NoneWaits
      <4>3. QED
        BY <1>9, <4>1, <4>2 DEF Undecided
    <3>2. ASSUME NEW i \in 1 .. Len(outgoing') PROVE Undecided(outgoing[i])'
      <4>1. Undecided(outgoing[i]) /\ ~outgoing[i].waits
        BY <1>1, <2>2, <3>2 DEF TruthInv, QueuedAreUndecided, NoneWaits
      <4>2. QED
        BY <1>1, <1>9, <4>1 DEF Undecided
    <3>3. InHand' /\ item'.waits => promise'[item'.n] = "unset"
      <4> SUFFICES ASSUME InHand', item'.waits PROVE promise'[item'.n] = "unset"
        OBVIOUS
      <4>1. InHand /\ item.waits /\ promise[item.n] = "unset" /\ Taken <= Len(promise)
        BY <1>1, <1>3 DEF TruthInv, QueuedAreUndecided
      <4>2. item.n = Taken /\ Taken # 0
        BY <4>1, TakenIsNatural DEF WireInv, ItemIsNext, Taken
      <4>3. item.n \in 1 .. Len(promise) /\ item.n \notin Taken + 1 .. Len(promise)
        BY <1>5, <4>1, <4>2
      <4>4. ~Mine(item.n)
        BY <1>6, <4>3
      <4>5. QED
        BY <1>1, <1>8, <4>1, <4>3, <4>4
    <3>4. Taken' <= Len(promise')
      BY <1>3, <1>7 DEF TruthInv, QueuedAreUndecided
    <3>5. QED
      BY <3>1, <3>2, <3>3, <3>4 DEF QueuedAreUndecided
  <2>4. ValuesAreTrue'
    <3> SUFFICES ASSUME NEW n \in 1 .. Len(promise')
        PROVE  /\ promise'[n] # "twice"
               /\ promise'[n] = "written" => n <= Len(wire')
               /\ promise'[n] = "failed" => n > Taken' /\ (sendFailed' \/ ~Working')
      BY DEF ValuesAreTrue
    <3>1. CASE Mine(n)
      <4>1. n \in Taken + 1 .. Len(promise) /\ promise'[n] = "failed"
        BY <1>6, <1>7, <1>8, <3>1
      <4>2. QED
        BY <1>1, <1>3, <1>5, <2>2, <4>1
    <3>2. CASE ~Mine(n)
      <4>1. n \in 1 .. Len(promise) /\ promise'[n] = promise[n]
        BY <1>7, <1>8, <3>2
      <4>2. QED
        BY <1>1, <1>3, <4>1 DEF TruthInv, ValuesAreTrue
    <3>3. QED
      BY <3>1, <3>2
  <2>5. OneFails'
    BY <1>1, <1>4, <2>2 DEF TruthInv, OneFails, NoneWaits
  <2>6. QED
    BY <2>3, <2>4, <2>5 DEF TruthInv
<1>12. QED
  BY <1>10, <1>11

-----------------------------------------------------------------------------
(* The writer takes the first undecided message.                            *)
LEMMA TakeTruth == WireInv /\ TruthInv /\ OtherTypes /\ Take => TruthInv'
<1> SUFFICES ASSUME WireInv, TruthInv, OtherTypes, Take PROVE TruthInv'
  OBVIOUS
<1>1. /\ pc[Writer] = "looking" /\ ~sendFailed /\ outgoing # <<>>
      /\ item'.n = Head(outgoing).n /\ item'.waits = Head(outgoing).waits
      /\ outgoing' = Tail(outgoing)
      /\ UNCHANGED <<sendFailed, promise, dropped, wire>>
  BY DEF Take, answers, socket
<1>2. pc'[Writer] = "notifying"
  BY DEF Take, Goto, WireInv, Types, Threads
<1>3. Working /\ ~InHand /\ Working' /\ InHand'
  BY <1>1, <1>2 DEF Working, InHand
<1>4. Taken \in Nat /\ Taken' = Taken + 1
  BY <1>1, <1>3, TakenIsNatural DEF Taken, WireInv
<1>5. /\ Len(promise) = Taken + Len(outgoing)
      /\ \A i \in 1 .. Len(outgoing) : outgoing[i].n = Taken + i
  BY <1>1, <1>3 DEF WireInv, QueueContinues
<1>6. /\ Head(outgoing) = outgoing[1] /\ 1 \in 1 .. Len(outgoing)
      /\ Len(outgoing') = Len(outgoing) - 1 /\ Len(outgoing) \in Nat
      /\ \A i \in 1 .. Len(outgoing') : outgoing'[i] = outgoing[i + 1]
  BY <1>1 DEF WireInv, Types
<1>7. \A t \in Threads : dropped[t] = <<>>
  BY <1>1 DEF TruthInv, OneFails
<1>8. QueuedAreUndecided'
  <2>1. ASSUME NEW i \in 1 .. Len(outgoing') PROVE Undecided(outgoing[i])'
    <3>1. i + 1 \in 1 .. Len(outgoing) /\ outgoing'[i] = outgoing[i + 1]
      BY <1>6
    <3>2. Undecided(outgoing[i + 1]) /\ outgoing[i + 1].n = Taken + (i + 1)
      BY <1>5, <3>1 DEF TruthInv, QueuedAreUndecided
    <3>3. outgoing[i + 1].n \in Taken' + 1 .. Len(promise')
      BY <1>1, <1>4, <1>5, <1>6, <3>2
    <3>4. QED
      BY <1>1, <3>1, <3>2, <3>3 DEF Undecided
  <2>2. Taken' <= Len(promise')
    BY <1>1, <1>4, <1>5, <1>6
  <2>3. item'.waits => promise'[item'.n] = "unset"
    <3>1. Undecided(outgoing[1])
      BY <1>6 DEF TruthInv, QueuedAreUndecided
    <3>2. QED
      BY <1>1, <1>6, <3>1 DEF Undecided
  <2>4. QED
    BY <1>1, <1>7, <2>1, <2>2, <2>3 DEF QueuedAreUndecided
<1>9. ValuesAreTrue'
  BY <1>1, <1>3 DEF TruthInv, ValuesAreTrue
<1>10. OneFails'
  BY <1>1, <1>7 DEF OneFails, NoneWaits
<1>11. QED
  BY <1>8, <1>9, <1>10 DEF TruthInv

(* What it tells is said of the message in hand, and only once.             *)
LEMMA TellTruth ==
  ASSUME WireInv, TruthInv, InHand, NEW value \in {"written", "failed"}, Tell(value)
  PROVE  /\ Taken \in 1 .. Len(promise) /\ item.n = Taken /\ Taken = Len(wire) + 1
         /\ Len(promise') = Len(promise)
         /\ \A n \in 1 .. Len(promise) :
              promise'[n] = promise[n] \/ (n = Taken /\ promise'[n] = value)
<1>1. /\ Taken \in Nat /\ Len(promise) \in Nat /\ Len(wire) \in Nat
      /\ Taken = Len(wire) + 1 /\ Taken <= Len(promise)
  BY TakenIsNatural DEF WireInv, Taken, TruthInv, QueuedAreUndecided
<1>2. item.n = Taken /\ Taken \in 1 .. Len(promise)
  BY <1>1 DEF WireInv, ItemIsNext
<1>3. Len(promise') = Len(promise)
  BY TellKeepsLength DEF WireInv
<1>4. CASE item.waits
  <2>1. promise[item.n] = "unset"
    BY <1>4 DEF TruthInv, QueuedAreUndecided
  <2>2. promise' = [promise EXCEPT ![item.n] = value]
    BY <1>4, <2>1 DEF Tell, SetValue
  <2>3. DOMAIN promise = 1 .. Len(promise)
    BY DEF WireInv, Types
  <2>4. QED
    BY <1>1, <1>2, <1>3, <2>2, <2>3
<1>5. CASE ~item.waits
  BY <1>1, <1>2, <1>3, <1>5 DEF Tell
<1>6. QED
  BY <1>4, <1>5

(* After it has told, the writer has nothing in hand; the others' messages  *)
(* come after the one it told of.                                           *)
LEMMA ToldTruth ==
  ASSUME WireInv, TruthInv, OtherTypes, Written \/ WriteFails
  PROVE  TruthInv'
<1>1. /\ pc[Writer] = "sending" /\ Writer \in Threads /\ pc \in [Threads -> Phases]
      /\ UNCHANGED <<outgoing, sendFailed, dropped>>
  BY DEF Written, WriteFails, queue, WireInv, Types, Threads
<1>2. InHand /\ ~InHand'
  BY <1>1 DEF InHand, Written, WriteFails, Goto, AfterFailure
<1>3. PICK value \in {"written", "failed"} :
        /\ Tell(value)
        /\ value = "written" => Len(wire') = Len(wire) + 1
        /\ value = "failed" => Len(wire') = Len(wire) /\ ~Working'
  <2>1. CASE Written
    <3>1. wire' = Append(wire, [n |-> item.n, plain |-> item.plain,
                                counter |-> item.counter])
      BY <2>1 DEF Written
    <3>2. Len(wire') = Len(wire) + 1
      BY <3>1 DEF WireInv, Types
    <3>3. QED
      BY <2>1, <3>2 DEF Written
  <2>2. CASE WriteFails
    <3>1. pc'[Writer] = "closing" /\ wire' = wire
      BY <1>1, <2>2 DEF WriteFails, Goto, AfterFailure, socket
    <3>2. QED
      BY <2>2, <3>1 DEF WriteFails, Working
  <2>3. QED
    BY <2>1, <2>2
<1>4. /\ Taken \in 1 .. Len(promise) /\ item.n = Taken /\ Taken = Len(wire) + 1
      /\ Len(promise') = Len(promise)
      /\ \A n \in 1 .. Len(promise) :
           promise'[n] = promise[n] \/ (n = Taken /\ promise'[n] = value)
  BY <1>2, <1>3, TellTruth
<1>5. Len(promise) \in Nat /\ Len(wire) \in Nat /\ Taken' = Len(wire')
  BY <1>2, TakenIsNatural DEF WireInv, Taken
<1>6. Taken' <= Taken /\ Taken' \in Nat
  BY <1>3, <1>4, <1>5
<1>7. ASSUME NEW m, Undecided(m) PROVE Undecided(m)'
  <2>1. m.n \in Taken + 1 .. Len(promise) /\ (m.waits => promise[m.n] = "unset")
    BY <1>7 DEF Undecided
  <2>2. m.n \in 1 .. Len(promise) /\ m.n # Taken /\ m.n \in Taken' + 1 .. Len(promise')
    BY <1>4, <1>5, <1>6, <2>1
  <2>3. QED
    BY <1>4, <2>1, <2>2 DEF Undecided
<1>8. QueuedAreUndecided'
  <2>1. ASSUME NEW u \in Threads, NEW i \in 1 .. Len(dropped'[u])
        PROVE  Undecided(dropped[u][i])'
    <3>1. Undecided(dropped[u][i])
      BY <1>1, <2>1 DEF TruthInv, QueuedAreUndecided
    <3>2. QED
      BY <1>1, <1>7, <3>1 DEF Undecided
  <2>2. ASSUME NEW i \in 1 .. Len(outgoing') PROVE Undecided(outgoing[i])'
    <3>1. Undecided(outgoing[i])
      BY <1>1, <2>2 DEF TruthInv, QueuedAreUndecided
    <3>2. QED
      BY <1>1, <1>7, <3>1 DEF Undecided
  <2>3. Taken' <= Len(promise')
    BY <1>4, <1>5, <1>6
  <2>4. QED
    BY <1>2, <2>1, <2>2, <2>3 DEF QueuedAreUndecided
<1>9. ValuesAreTrue'
  <2> SUFFICES ASSUME NEW n \in 1 .. Len(promise')
      PROVE  /\ promise'[n] # "twice"
             /\ promise'[n] = "written" => n <= Len(wire')
             /\ promise'[n] = "failed" => n > Taken' /\ (sendFailed' \/ ~Working')
    BY DEF ValuesAreTrue
  <2>1. Working' => Working
    BY <1>1 DEF Working
  <2>2. Len(wire) <= Len(wire')
    BY <1>3, <1>5
  <2>3. CASE promise'[n] = promise[n]
    BY <1>1, <1>4, <1>5, <1>6, <2>1, <2>2, <2>3 DEF TruthInv, ValuesAreTrue
  <2>4. CASE n = Taken /\ promise'[n] = value
    BY <1>3, <1>4, <1>5, <2>4
  <2>5. QED
    BY <1>4, <2>3, <2>4
<1>10. OneFails'
  BY <1>1 DEF TruthInv, OneFails, NoneWaits
<1>11. QED
  BY <1>8, <1>9, <1>10 DEF TruthInv

-----------------------------------------------------------------------------
(* The invariant, one step at a time.                                       *)
SessionInv == WireInv /\ TruthInv /\ OtherTypes

(* The types the wire did not need, at the start.                           *)
LEMMA OtherTypesInit == Init => OtherTypes
<1> SUFFICES ASSUME Init PROVE OtherTypes
  OBVIOUS
<1>1. <<>> \in Seq(Outgoing)
  OBVIOUS
<1>2. dropped \in [Threads -> Seq(Outgoing)]
  BY <1>1 DEF Init
<1>3. awaited \in [Callers -> Nat]
  BY DEF Init
<1>4. QED
  BY <1>2, <1>3 DEF Init, OtherTypes

(* Every step keeps them.                                                   *)
LEMMA OtherTypesStep == WireInv /\ OtherTypes /\ [Next]_vars => OtherTypes'
<1> SUFFICES ASSUME WireInv, OtherTypes, [Next]_vars PROVE OtherTypes'
  OBVIOUS
<1> USE DEF OtherTypes
<1>1. CASE Open \/ UNCHANGED vars
  BY <1>1 DEF Open, vars, loop, calls, socket, answers
<1>2. ASSUME NEW t \in Callers, NEW size \in Sizes, NEW wait \in BOOLEAN,
             CallEnqueue(t, size, wait)
      PROVE  OtherTypes'
  BY <1>2 DEF CallEnqueue, loop, answers, socket
<1>3. ASSUME NEW t \in Callers, Queue(t) PROVE OtherTypes'
  <2>1. UNCHANGED <<stop, shut, owner, dropped>>
    BY <1>3 DEF Queue, loop, socket
  <2>2. Len(promise) + 1 \in Nat
    BY DEF WireInv, Types
  <2>3. awaited' \in [Callers -> Nat]
    BY <1>3, <2>2 DEF Queue
  <2>4. QED
    BY <2>1, <2>3
<1>4. ASSUME NEW t \in Callers,
             NoRoom(t) \/ NotifyQueued(t) \/ GetResult(t) \/ CallClose(t) \/ JoinWriter(t)
             \/ Destroy(t)
      PROVE  OtherTypes'
  BY <1>4 DEF NoRoom, NotifyQueued, GetResult, CallClose, JoinWriter, Destroy,
     loop, calls, answers, socket
<1>5. ASSUME NEW t \in Threads, CloseStep(t) PROVE OtherTypes'
  <2>1. UNCHANGED <<owner, awaited>> /\ shut' \in BOOLEAN
    BY <1>5 DEF CloseStep, Close, WakeAndShut, FailDropped, calls, socket
  <2>2. stop' \in BOOLEAN
    BY <1>5 DEF CloseStep, Close, WakeAndShut, FailDropped, loop
  <2>3. dropped' \in [Threads -> Seq(Outgoing)]
    <3>1. CASE Close(t)
      BY <3>1 DEF Close, WireInv, Types
    <3>2. CASE WakeAndShut(t)
      BY <3>2 DEF WakeAndShut, answers
    <3>3. CASE FailDropped(t)
      <4>1. <<>> \in Seq(Outgoing)
        OBVIOUS
      <4>2. QED
        BY <3>3, <4>1 DEF FailDropped
    <3>4. QED
      BY <1>5, <3>1, <3>2, <3>3 DEF CloseStep
  <2>4. QED
    BY <2>1, <2>2, <2>3
<1>6. CASE Rest \/ Take \/ NotifyRoom \/ Written \/ WriteFails
  BY <1>6 DEF Rest, Take, NotifyRoom, Written, WriteFails, loop, calls, answers, socket
<1>7. QED
  BY <1>1, <1>2, <1>3, <1>4, <1>5, <1>6 DEF Next, CallerStep, WriterStep, Threads

(* Every step keeps what callers are told true.                             *)
LEMMA TruthStep == SessionInv /\ [Next]_vars => TruthInv'
<1> SUFFICES ASSUME SessionInv, [Next]_vars PROVE TruthInv'
  OBVIOUS
<1> USE DEF SessionInv
<1>1. pc \in [Threads -> Phases]
  BY DEF WireInv, Types
<1>2. CASE Open
  BY <1>2, OpenTruth
<1>3. ASSUME NEW t \in Callers, NEW size \in Sizes, NEW wait \in BOOLEAN,
             CallEnqueue(t, size, wait)
      PROVE  TruthInv'
  <2>1. Goto(t, "looking") /\ "looking" \in Phases
    BY <1>3 DEF CallEnqueue, Phases
  <2>2. UNCHANGED <<outgoing, sendFailed, promise, dropped, wire, item>>
    BY <1>3 DEF CallEnqueue, queue, loop, answers, socket
  <2>3. QED
    BY <1>1, <2>1, <2>2, CallerLeavesTheWriter, QuietTruth
<1>4. ASSUME NEW t \in Callers,
             NoRoom(t) \/ NotifyQueued(t) \/ GetResult(t) \/ CallClose(t) \/ JoinWriter(t)
             \/ Destroy(t)
      PROVE  TruthInv'
  <2>1. PICK p \in Phases : Goto(t, p) \/ pc' = Woken(t, p)
    BY <1>4 DEF NoRoom, NotifyQueued, GetResult, CallClose, JoinWriter, Destroy, Phases
  <2>2. UNCHANGED <<outgoing, sendFailed, promise, dropped, wire, item>>
    BY <1>4 DEF NoRoom, NotifyQueued, GetResult, CallClose, JoinWriter, Destroy,
       queue, loop, answers, socket
  <2>3. QED
    BY <1>1, <2>1, <2>2, CallerLeavesTheWriter, QuietTruth
<1>5. ASSUME NEW t \in Callers, Queue(t) PROVE TruthInv'
  BY <1>5, QueueTruth
<1>6. ASSUME NEW t \in Threads, CloseStep(t) PROVE TruthInv'
  <2>1. CASE WakeAndShut(t)
    <3>1. UNCHANGED <<outgoing, sendFailed, promise, dropped, wire, item>>
      BY <2>1 DEF WakeAndShut, queue, loop, answers
    <3>2. QED
      BY <1>1, <1>6, <3>1, ClosingLeavesTheWriter, QuietTruth
  <2>2. QED
    BY <1>6, <2>1, CloseTruth, FailTruth DEF CloseStep
<1>7. CASE Rest \/ NotifyRoom
  <2>1. UNCHANGED <<outgoing, sendFailed, promise, dropped, wire, item>>
    BY <1>7 DEF Rest, NotifyRoom, queue, loop, answers, socket
  <2>2. Writer \in Threads
    BY DEF Threads
  <2>3. WriterStays
    <3>1. CASE Rest
      BY <1>1, <2>2, <3>1 DEF Rest, Goto, WriterStays, InHand, Working
    <3>2. CASE NotifyRoom
      <4>1. "sending" \in Phases
        BY DEF Phases
      <4>2. pc[Writer] = "notifying" /\ pc'[Writer] = "sending"
        BY <1>1, <2>2, <3>2, <4>1, WokenMoves DEF NotifyRoom
      <4>3. QED
        BY <4>2 DEF WriterStays, InHand, Working
    <3>3. QED
      BY <1>7, <3>1, <3>2
  <2>4. QED
    BY <2>1, <2>3, QuietTruth
<1>8. CASE Take
  BY <1>8, TakeTruth
<1>9. CASE Written \/ WriteFails
  BY <1>9, ToldTruth
<1>10. CASE UNCHANGED vars
  <2>1. UNCHANGED <<outgoing, sendFailed, promise, dropped, wire, item, pc>>
    BY <1>10 DEF vars, queue, loop, answers, socket
  <2>2. WriterStays
    BY <2>1 DEF WriterStays, InHand, Working
  <2>3. QED
    BY <2>1, <2>2, QuietTruth
<1>11. QED
  BY <1>2, <1>3, <1>4, <1>5, <1>6, <1>7, <1>8, <1>9, <1>10 DEF Next, CallerStep,
     WriterStep, Threads

(* The whole invariant holds in every behaviour.                            *)
LEMMA SessionInvHolds == Spec => []SessionInv
<1>1. Init => SessionInv
  BY WireInit, TruthInit, OtherTypesInit DEF SessionInv
<1>2. SessionInv /\ [Next]_vars => SessionInv'
  BY WireStep, TruthStep, OtherTypesStep DEF SessionInv
<1>3. QED
  BY <1>1, <1>2, PTL DEF Spec

(* A caller that waited for its message hears "written" only when it is on  *)
(* the wire and "failed" only when it is not, and it hears once: however    *)
(* many callers close the session at the same time, with a message in the   *)
(* writer's hand or not.                                                    *)
THEOREM CallersAreToldTheTruth == Spec => []ToldTheTruth
<1>1. SessionInv => ToldTheTruth
  <2> SUFFICES ASSUME SessionInv, NEW n \in DOMAIN promise
      PROVE  /\ promise[n] # "twice"
             /\ promise[n] = "written" => n \in DOMAIN wire
             /\ promise[n] = "failed" => n \notin DOMAIN wire
    BY DEF ToldTheTruth
  <2>1. /\ n \in 1 .. Len(promise) /\ DOMAIN wire = 1 .. Len(wire)
        /\ Len(wire) \in Nat /\ Len(promise) \in Nat
    BY DEF SessionInv, WireInv, Types
  <2>2. Taken >= Len(wire)
    BY <2>1 DEF Taken
  <2>3. /\ promise[n] # "twice"
        /\ promise[n] = "written" => n <= Len(wire)
        /\ promise[n] = "failed" => n > Taken
    BY <2>1 DEF SessionInv, TruthInv, ValuesAreTrue
  <2>4. Taken \in Nat
    BY TakenIsNatural DEF SessionInv, WireInv
  <2>5. QED
    BY <2>1, <2>2, <2>3, <2>4
<1>2. QED
  BY <1>1, SessionInvHolds, PTL

-----------------------------------------------------------------------------
(* Room in the queue is judged by outgoingBytes, a running count that Close *)
(* resets and every other step only adds to or subtracts from.              *)
CountedBy(f, q, bytes) ==
  /\ f \in [1 .. Len(q) + 1 -> Nat]
  /\ f[1] = bytes /\ f[Len(q) + 1] = 0
  /\ \A i \in 1 .. Len(q) : f[i] = q[i].size + f[i + 1]

BytesAreCounted == \E f : CountedBy(f, outgoing, outgoingBytes)

(* An empty queue has no bytes.                                             *)
LEMMA NothingCounted == \E f : CountedBy(f, <<>>, 0)
<1> DEFINE f == [i \in 1 .. 1 |-> 0]
<1>1. CountedBy(f, <<>>, 0)
  BY DEF CountedBy
<1>2. QED
  BY <1>1

(* A message at the end adds its size to the count from every place.        *)
LEMMA CountAppended ==
  ASSUME NEW q \in Seq(Outgoing), NEW m \in Outgoing, NEW bytes, NEW f,
         CountedBy(f, q, bytes)
  PROVE  \E g : CountedBy(g, Append(q, m), bytes + m.size)
<1> DEFINE r == Append(q, m)
           g == [i \in 1 .. Len(r) + 1 |-> IF i = Len(r) + 1 THEN 0 ELSE f[i] + m.size]
<1>1. /\ Len(q) \in Nat /\ Len(r) = Len(q) + 1 /\ r[Len(q) + 1] = m
      /\ \A i \in 1 .. Len(q) : r[i] = q[i]
  OBVIOUS
<1>2. m.size \in Nat /\ f \in [1 .. Len(q) + 1 -> Nat]
  BY DEF Outgoing, CountedBy
<1> HIDE DEF r
<1>3. \A i \in 1 .. Len(r) + 1 : i # Len(r) + 1 => f[i] + m.size \in Nat
  BY <1>1, <1>2
<1>4. g \in [1 .. Len(r) + 1 -> Nat] /\ g[Len(r) + 1] = 0
  BY <1>1, <1>3
<1>5. g[1] = bytes + m.size
  BY <1>1 DEF CountedBy
<1>6. ASSUME NEW i \in 1 .. Len(r) PROVE g[i] = r[i].size + g[i + 1]
  <2>1. CASE i = Len(q) + 1
    <3>1. g[i] = f[Len(q) + 1] + m.size /\ g[i + 1] = 0
      BY <1>1, <2>1
    <3>2. f[Len(q) + 1] = 0
      BY DEF CountedBy
    <3>3. QED
      BY <1>1, <1>2, <2>1, <3>1, <3>2
  <2>2. CASE i \in 1 .. Len(q)
    <3>1. g[i] = f[i] + m.size /\ g[i + 1] = f[i + 1] + m.size /\ r[i] = q[i]
      BY <1>1, <2>2
    <3>2. f[i] = q[i].size + f[i + 1] /\ f[i + 1] \in Nat
      BY <1>1, <1>2, <2>2 DEF CountedBy
    <3>3. q[i] \in Outgoing
      BY <2>2
    <3>4. q[i].size \in Nat
      BY <3>3 DEF Outgoing
    <3>5. QED
      BY <1>2, <3>1, <3>2, <3>4
  <2>3. QED
    BY <1>1, <2>1, <2>2
<1>7. CountedBy(g, r, bytes + m.size)
  BY <1>4, <1>5, <1>6 DEF CountedBy
<1>8. QED
  BY <1>7 DEF r

(* The first message takes its size with it.                                *)
LEMMA CountTaken ==
  ASSUME NEW q \in Seq(Outgoing), q # <<>>, NEW bytes, NEW f, CountedBy(f, q, bytes)
  PROVE  \E g : CountedBy(g, Tail(q), bytes - Head(q).size)
<1> DEFINE r == Tail(q)
           g == [i \in 1 .. Len(r) + 1 |-> f[i + 1]]
<1>1. /\ Len(q) \in Nat /\ Len(q) = Len(r) + 1 /\ Len(r) \in Nat
      /\ Head(q) = q[1] /\ 1 \in 1 .. Len(q)
      /\ \A i \in 1 .. Len(r) : r[i] = q[i + 1]
  OBVIOUS
<1>2. /\ f \in [1 .. Len(q) + 1 -> Nat] /\ f[1] = bytes /\ f[Len(q) + 1] = 0
      /\ \A i \in 1 .. Len(q) : f[i] = q[i].size + f[i + 1]
  BY DEF CountedBy
<1> HIDE DEF r
<1>3. g \in [1 .. Len(r) + 1 -> Nat] /\ g[Len(r) + 1] = 0
  BY <1>1, <1>2
<1>4. g[1] = bytes - Head(q).size
  <2>1. bytes = q[1].size + f[2] /\ f[2] \in Nat
    BY <1>1, <1>2
  <2>2. q[1] \in Outgoing
    BY <1>1
  <2>3. g[1] = f[2]
    BY <1>1
  <2>4. q[1].size \in Nat
    BY <2>2 DEF Outgoing
  <2>5. QED
    BY <1>1, <2>1, <2>3, <2>4
<1>5. ASSUME NEW i \in 1 .. Len(r) PROVE g[i] = r[i].size + g[i + 1]
  BY <1>1, <1>2
<1>6. CountedBy(g, r, bytes - Head(q).size)
  BY <1>3, <1>4, <1>5 DEF CountedBy
<1>7. QED
  BY <1>6 DEF r

(* Every step keeps the count.                                              *)
LEMMA BytesStep == WireInv /\ BytesAreCounted /\ [Next]_vars => BytesAreCounted'
<1> SUFFICES ASSUME WireInv, BytesAreCounted, [Next]_vars PROVE BytesAreCounted'
  OBVIOUS
<1>1. outgoing \in Seq(Outgoing) /\ \E f : CountedBy(f, outgoing, outgoingBytes)
  BY DEF WireInv, Types, BytesAreCounted
<1>2. CASE UNCHANGED <<outgoing, outgoingBytes>>
  BY <1>1, <1>2 DEF BytesAreCounted
<1>3. CASE outgoing' = <<>> /\ outgoingBytes' = 0
  BY <1>3, NothingCounted DEF BytesAreCounted
<1>4. CASE \E m \in Outgoing :
             outgoing' = Append(outgoing, m) /\ outgoingBytes' = outgoingBytes + m.size
  BY <1>1, <1>4, CountAppended DEF BytesAreCounted
<1>5. CASE /\ outgoing # <<>> /\ outgoing' = Tail(outgoing)
           /\ outgoingBytes' = outgoingBytes - Head(outgoing).size
  BY <1>1, <1>5, CountTaken DEF BytesAreCounted
<1>6. CASE Open
  <2>1. Welcome \in Outgoing
    BY DEF Welcome, Outgoing
  <2>2. QED
    BY <1>4, <1>6, <2>1 DEF Open
<1>7. ASSUME NEW t \in Callers, Queue(t) PROVE BytesAreCounted'
  <2> DEFINE m == [n |-> Len(promise) + 1, size |-> request[t].size,
                   waits |-> request[t].wait, plain |-> FALSE]
  <2>1. Len(promise) + 1 \in Nat /\ request[t] \in Requests
    BY DEF WireInv, Types
  <2>2. m \in Outgoing /\ m.size = request[t].size
    BY <2>1 DEF Outgoing, Requests
  <2>3. outgoing' = Append(outgoing, m) /\ outgoingBytes' = outgoingBytes + m.size
    BY <1>7 DEF Queue, BytesWith
  <2>4. QED
    BY <1>4, <2>2, <2>3
<1>8. ASSUME NEW t \in Threads, CloseStep(t) PROVE BytesAreCounted'
  BY <1>2, <1>3, <1>8 DEF CloseStep, Close, WakeAndShut, FailDropped, queue
<1>9. CASE Take
  BY <1>5, <1>9 DEF Take
<1>10. ASSUME NEW t \in Callers, NEW size \in Sizes, NEW wait \in BOOLEAN,
              CallEnqueue(t, size, wait)
       PROVE  BytesAreCounted'
  BY <1>2, <1>10 DEF CallEnqueue, queue
<1>11. ASSUME NEW t \in Callers,
              NoRoom(t) \/ NotifyQueued(t) \/ GetResult(t) \/ CallClose(t) \/ JoinWriter(t)
              \/ Destroy(t)
       PROVE  BytesAreCounted'
  BY <1>2, <1>11 DEF NoRoom, NotifyQueued, GetResult, CallClose, JoinWriter, Destroy, queue
<1>12. CASE Rest \/ NotifyRoom \/ Written \/ WriteFails \/ UNCHANGED vars
  BY <1>2, <1>12 DEF Rest, NotifyRoom, Written, WriteFails, vars, queue
<1>13. QED
  BY <1>6, <1>7, <1>8, <1>9, <1>10, <1>11, <1>12 DEF Next, CallerStep, WriterStep, Threads

(* Every variable keeps its type; in particular the byte count never goes   *)
(* below zero, where the unsigned count of the code would wrap and refuse   *)
(* every message from then on.                                              *)
THEOREM TypeCorrect == Spec => []TypeOK
<1>1. Init => BytesAreCounted
  BY NothingCounted DEF Init, BytesAreCounted
<1>2. SessionInv => WireInv
  BY DEF SessionInv
<1>3. Spec => []BytesAreCounted
  BY <1>1, <1>2, BytesStep, SessionInvHolds, PTL DEF Spec
<1>4. SessionInv /\ BytesAreCounted => TypeOK
  <2> SUFFICES ASSUME SessionInv, BytesAreCounted PROVE TypeOK
    OBVIOUS
  <2>1. PICK f : CountedBy(f, outgoing, outgoingBytes)
    BY DEF BytesAreCounted
  <2>2. Len(outgoing) \in Nat
    BY DEF SessionInv, WireInv, Types
  <2>3. outgoingBytes \in Nat
    BY <2>1, <2>2 DEF CountedBy
  <2>4. QED
    BY <2>3 DEF SessionInv, WireInv, Types, OtherTypes, TypeOK
<1>5. QED
  BY <1>3, <1>4, SessionInvHolds, PTL

-----------------------------------------------------------------------------
(* Who may wait for whom.  Each thread has its own phases; whoever is       *)
(* closing, and a writer that has left its loop, found or made the session  *)
(* failed.                                                                  *)
Places ==
  /\ pc[Writer] \notin {"idle", "awaiting", "joining"}
  /\ \A t \in Callers : pc[t] \notin {"unstarted", "sending"}

EndIsKnown ==
  /\ stop \/ pc[Writer] = "exited" => sendFailed
  /\ \A t \in Threads : pc[t] \in {"waking", "failing", "joining"} => sendFailed

(* A caller waits for a message that was queued.                            *)
AwaitedIsKnown ==
  \A t \in Callers : /\ awaited[t] <= Len(promise)
                     /\ pc[t] = "awaiting" => awaited[t] # 0

(* A promise without a value is in the queue, in the writer's hand, or in   *)
(* those of a thread that will fail it.                                     *)
Carries(s, n) == \E i \in 1 .. Len(s) : s[i].n = n /\ s[i].waits

Underway(n) ==
  \/ Carries(outgoing, n)
  \/ InHand /\ item.n = n /\ item.waits
  \/ \E t \in Threads : pc[t] \in {"waking", "failing"} /\ Carries(dropped[t], n)

UnsetIsUnderway == \A n \in 1 .. Len(promise) : promise[n] = "unset" => Underway(n)

Alert == \E u \in Threads : pc[u] \in {"notifying", "waking"}

MoveInv == Places /\ EndIsKnown /\ AwaitedIsKnown /\ UnsetIsUnderway /\ NoWakeUpLost

(* A step moves one thread, and perhaps the sleepers.                       *)
LEMMA Moved ==
  ASSUME pc \in [Threads -> Phases], NEW t \in Threads, NEW p \in Phases,
         Goto(t, p) \/ pc' = Woken(t, p)
  PROVE  /\ pc'[t] = p
         /\ \A u \in Threads \ {t} :
              pc'[u] = pc[u] \/ (pc[u] = "asleep" /\ pc'[u] = "looking")
<1>1. CASE Goto(t, p)
  BY <1>1 DEF Goto
<1>2. CASE pc' = Woken(t, p)
  BY <1>2, WokenMoves
<1>3. QED
  BY <1>1, <1>2

LEMMA MoveInit == Init => MoveInv
<1> SUFFICES ASSUME Init PROVE MoveInv
  OBVIOUS
<1>1. /\ Writer \in Threads /\ \A t \in Callers : t \in Threads /\ t # Writer
      /\ pc[Writer] = "unstarted" /\ \A t \in Callers : pc[t] = "idle"
      /\ \A t \in Threads : pc[t] \in {"unstarted", "idle"}
      /\ ~stop /\ promise = <<>> /\ \A t \in Callers : awaited[t] = 0
  BY SessionConstants DEF Init, Threads
<1>2. Places
  BY <1>1 DEF Places
<1>2a. EndIsKnown
  <2>1. \A t \in Threads : pc[t] \notin {"waking", "failing", "joining"}
    BY <1>1
  <2>2. QED
    BY <1>1, <2>1 DEF EndIsKnown
<1>2b. AwaitedIsKnown
  <2>1. Len(promise) = 0
    BY <1>1
  <2>2. ASSUME NEW t \in Callers
        PROVE  awaited[t] <= Len(promise) /\ (pc[t] = "awaiting" => awaited[t] # 0)
    <3>1. awaited[t] = 0 /\ pc[t] = "idle"
      BY <1>1
    <3>2. QED
      BY <2>1, <3>1
  <2>3. QED
    BY <2>2 DEF AwaitedIsKnown
<1>3. UnsetIsUnderway
  BY <1>1 DEF UnsetIsUnderway
<1>4. NoWakeUpLost
  BY <1>1 DEF NoWakeUpLost
<1>5. QED
  BY <1>2, <1>2a, <1>2b, <1>3, <1>4 DEF MoveInv

(* Where the steps of a caller lead, and those of Close and the writer.     *)
LEMMA CallerGoes ==
  ASSUME NEW t \in Callers,
         \/ \E size \in Sizes, wait \in BOOLEAN : CallEnqueue(t, size, wait)
         \/ Queue(t) \/ NoRoom(t) \/ NotifyQueued(t) \/ GetResult(t)
         \/ CallClose(t) \/ Destroy(t) \/ JoinWriter(t)
  PROVE  \E p \in {"looking", "notifying", "asleep", "idle", "awaiting", "closing", "exited"} :
           /\ p \in Phases
           /\ Goto(t, p) \/ pc' = Woken(t, p)
           /\ UNCHANGED <<sendFailed, stop>>
BY DEF CallEnqueue, Queue, NoRoom, NotifyQueued, GetResult, CallClose, Destroy,
   JoinWriter, queue, loop, Phases

LEMMA CloseGoes ==
  ASSUME OtherTypes, EndIsKnown, NEW t \in Threads, CloseStep(t)
  PROVE  /\ sendFailed' /\ pc[t] \notin {"unstarted", "awaiting", "joining"}
         /\ \E p \in {"waking", "failing", "joining", "exited", "idle"} :
              /\ p \in Phases
              /\ Goto(t, p) \/ pc' = Woken(t, p)
              /\ t = Writer => p \notin {"idle", "joining"}
              /\ p = "waking" => pc[t] = "closing"
<1>1. CASE Close(t)
  BY <1>1 DEF Close, Phases
<1>2. CASE WakeAndShut(t)
  BY <1>2 DEF WakeAndShut, Phases, EndIsKnown, queue
<1>3. CASE FailDropped(t)
  <2>1. sendFailed' /\ pc[t] = "failing"
    BY <1>3 DEF FailDropped, queue, EndIsKnown
  <2>2. owner # Writer
    BY SessionConstants DEF OtherTypes
  <2>3. CASE owner = t
    BY <1>3, <2>1, <2>2, <2>3 DEF FailDropped, Phases
  <2>4. CASE owner # t
    <3>1. CASE t = Writer
      <4>1. Goto(t, "exited") /\ "exited" \in Phases
        BY <1>3, <2>4, <3>1 DEF FailDropped, Phases, Goto
      <4>2. QED
        BY <2>1, <4>1
    <3>2. CASE t # Writer
      <4>1. Goto(t, "idle") /\ "idle" \in Phases
        BY <1>3, <2>4, <3>2 DEF FailDropped, Phases, Goto
      <4>2. QED
        BY <2>1, <3>2, <4>1
    <3>3. QED
      BY <3>1, <3>2
  <2>5. QED
    BY <2>3, <2>4
<1>4. QED
  BY <1>1, <1>2, <1>3 DEF CloseStep

LEMMA WriterGoes ==
  ASSUME EndIsKnown, Open \/ Rest \/ Take \/ NotifyRoom \/ Written \/ WriteFails
  PROVE  \E p \in {"looking", "exited", "asleep", "notifying", "sending", "closing"} :
           /\ p \in Phases
           /\ Goto(Writer, p) \/ pc' = Woken(Writer, p)
           /\ p = "exited" => sendFailed
           /\ UNCHANGED <<sendFailed, stop>>
BY DEF Open, Rest, Take, NotifyRoom, Written, WriteFails, queue, loop, Phases,
   EndIsKnown, AfterFailure

-----------------------------------------------------------------------------
(* The phases, and the end.                                                 *)
LEMMA PlacesStep ==
  SessionInv /\ Places /\ EndIsKnown /\ [Next]_vars => Places' /\ EndIsKnown'
<1> SUFFICES ASSUME SessionInv, Places, EndIsKnown, [Next]_vars
    PROVE  Places' /\ EndIsKnown'
  OBVIOUS
<1>1. /\ pc \in [Threads -> Phases] /\ Writer \in Threads /\ OtherTypes
      /\ \A t \in Callers : t \in Threads /\ t # Writer
  BY SessionConstants DEF SessionInv, WireInv, Types, Threads
<1>2. ASSUME NEW t \in Threads, NEW p \in Phases, Goto(t, p) \/ pc' = Woken(t, p),
             p \notin {"idle", "awaiting", "joining"} \/ t # Writer,
             p \notin {"unstarted", "sending"} \/ t = Writer,
             sendFailed => sendFailed',
             stop' => stop \/ sendFailed',
             p \in {"waking", "failing", "joining"} => sendFailed',
             t = Writer /\ p = "exited" => sendFailed'
      PROVE  Places' /\ EndIsKnown'
  <2>1. /\ pc'[t] = p
        /\ \A u \in Threads \ {t} :
             pc'[u] = pc[u] \/ (pc[u] = "asleep" /\ pc'[u] = "looking")
    BY <1>1, <1>2, Moved
  <2>2. Places'
    BY <1>1, <1>2, <2>1 DEF Places
  <2>3. \A u \in Threads : pc'[u] \in {"waking", "failing", "joining"} => sendFailed'
    BY <1>2, <2>1 DEF EndIsKnown
  <2>4. pc'[Writer] = "exited" => sendFailed'
    BY <1>1, <1>2, <2>1 DEF EndIsKnown
  <2>5. QED
    BY <1>2, <2>2, <2>3, <2>4 DEF EndIsKnown
<1>3. ASSUME NEW t \in Callers,
             \/ \E size \in Sizes, wait \in BOOLEAN : CallEnqueue(t, size, wait)
             \/ Queue(t) \/ NoRoom(t) \/ NotifyQueued(t) \/ GetResult(t)
             \/ CallClose(t) \/ Destroy(t) \/ JoinWriter(t)
      PROVE  Places' /\ EndIsKnown'
  <2>1. PICK p \in {"looking", "notifying", "asleep", "idle", "awaiting", "closing", "exited"} :
          /\ p \in Phases
          /\ Goto(t, p) \/ pc' = Woken(t, p)
          /\ UNCHANGED <<sendFailed, stop>>
    BY <1>3, CallerGoes
  <2>2. QED
    BY <1>1, <1>2, <2>1
<1>4. ASSUME NEW t \in Threads, CloseStep(t) PROVE Places' /\ EndIsKnown'
  <2>1. PICK p \in {"waking", "failing", "joining", "exited", "idle"} :
          /\ p \in Phases
          /\ Goto(t, p) \/ pc' = Woken(t, p)
          /\ t = Writer => p \notin {"idle", "joining"}
          /\ p = "waking" => pc[t] = "closing"
    BY <1>1, <1>4, CloseGoes
  <2>2. sendFailed'
    BY <1>1, <1>4, CloseGoes
  <2>3. QED
    BY <1>1, <1>2, <2>1, <2>2
<1>5. CASE Open \/ Rest \/ Take \/ NotifyRoom \/ Written \/ WriteFails
  <2>1. PICK p \in {"looking", "exited", "asleep", "notifying", "sending", "closing"} :
          /\ p \in Phases
          /\ Goto(Writer, p) \/ pc' = Woken(Writer, p)
          /\ p = "exited" => sendFailed
          /\ UNCHANGED <<sendFailed, stop>>
    BY <1>5, WriterGoes
  <2>2. QED
    BY <1>1, <1>2, <2>1
<1>6. CASE UNCHANGED vars
  BY <1>6 DEF vars, queue, loop, Places, EndIsKnown
<1>7. QED
  BY <1>1, <1>3, <1>4, <1>5, <1>6 DEF Next, CallerStep, WriterStep

(* What is awaited stays known: the queue only gets longer.                 *)
LEMMA AwaitedStep ==
  SessionInv /\ EndIsKnown /\ AwaitedIsKnown /\ [Next]_vars => AwaitedIsKnown'
<1> SUFFICES ASSUME SessionInv, EndIsKnown, AwaitedIsKnown, [Next]_vars
    PROVE  AwaitedIsKnown'
  OBVIOUS
<1>1. /\ pc \in [Threads -> Phases] /\ Writer \in Threads /\ OtherTypes
      /\ \A t \in Callers : t \in Threads /\ t # Writer
      /\ Len(promise) \in Nat /\ awaited \in [Callers -> Nat]
  BY SessionConstants DEF SessionInv, WireInv, Types, OtherTypes, Threads
<1>2. ASSUME NEW t \in Threads, NEW p \in Phases, Goto(t, p) \/ pc' = Woken(t, p),
             t = Writer \/ p # "awaiting" \/ awaited'[t] # 0,
             Len(promise') = Len(promise),
             \A u \in Callers : awaited'[u] = awaited[u] \/ (u = t /\ awaited'[u] = 0)
      PROVE  AwaitedIsKnown'
  <2>1. /\ pc'[t] = p
        /\ \A u \in Threads \ {t} :
             pc'[u] = pc[u] \/ (pc[u] = "asleep" /\ pc'[u] = "looking")
    BY <1>1, <1>2, Moved
  <2>2. ASSUME NEW u \in Callers
        PROVE  awaited'[u] <= Len(promise') /\ (pc'[u] = "awaiting" => awaited'[u] # 0)
    <3>1. awaited[u] <= Len(promise) /\ (pc[u] = "awaiting" => awaited[u] # 0)
      BY DEF AwaitedIsKnown
    <3>2. awaited'[u] <= Len(promise')
      BY <1>1, <1>2, <3>1
    <3>3. QED
      BY <1>1, <1>2, <2>1, <3>1, <3>2
  <2>3. QED
    BY <2>2 DEF AwaitedIsKnown
<1>3. ASSUME NEW t \in Callers,
             \/ \E size \in Sizes, wait \in BOOLEAN : CallEnqueue(t, size, wait)
             \/ NoRoom(t) \/ CallClose(t) \/ Destroy(t) \/ JoinWriter(t)
      PROVE  AwaitedIsKnown'
  <2>1. PICK p \in Phases \ {"awaiting"} : Goto(t, p)
    BY <1>3 DEF CallEnqueue, NoRoom, CallClose, Destroy, JoinWriter, Phases
  <2>2. UNCHANGED <<promise, awaited>>
    BY <1>3 DEF CallEnqueue, NoRoom, CallClose, Destroy, JoinWriter, calls, answers
  <2>3. QED
    BY <1>1, <1>2, <2>1, <2>2
<1>4. ASSUME NEW t \in Callers, NotifyQueued(t) PROVE AwaitedIsKnown'
  <2>1. UNCHANGED <<promise, awaited>>
    BY <1>4 DEF NotifyQueued, calls, answers
  <2>2. PICK p \in Phases : pc' = Woken(t, p) /\ (p = "awaiting" => awaited[t] # 0)
    BY <1>4 DEF NotifyQueued, Phases
  <2>3. QED
    BY <1>1, <1>2, <2>1, <2>2
<1>5. ASSUME NEW t \in Callers, GetResult(t) PROVE AwaitedIsKnown'
  <2>1. promise' = promise /\ awaited' = [awaited EXCEPT ![t] = 0]
        /\ Goto(t, "idle") /\ "idle" \in Phases
    BY <1>5 DEF GetResult, answers, Phases
  <2>2. QED
    BY <1>1, <1>2, <2>1
<1>6. ASSUME NEW t \in Callers, Queue(t) PROVE AwaitedIsKnown'
  <2>1. /\ Len(promise') = Len(promise) + 1
        /\ awaited' = [awaited EXCEPT ![t] = IF request[t].wait THEN Len(promise) + 1 ELSE 0]
    BY <1>6 DEF Queue, SessionInv, WireInv, Types
  <2>2. Goto(t, "notifying") /\ "notifying" \in Phases
    BY <1>6 DEF Queue, Phases
  <2>3. pc'[t] = "notifying" /\ \A u \in Threads \ {t} : pc'[u] = pc[u]
    BY <1>1, <2>2 DEF Goto
  <2>4. ASSUME NEW u \in Callers
        PROVE  awaited'[u] <= Len(promise') /\ (pc'[u] = "awaiting" => awaited'[u] # 0)
    <3>1. awaited[u] <= Len(promise) /\ (pc[u] = "awaiting" => awaited[u] # 0)
      BY DEF AwaitedIsKnown
    <3>2. CASE u = t
      BY <1>1, <2>1, <2>3, <3>2
    <3>3. CASE u # t
      BY <1>1, <2>1, <2>3, <3>1, <3>3
    <3>4. QED
      BY <3>2, <3>3
  <2>5. QED
    BY <2>4 DEF AwaitedIsKnown
<1>7. ASSUME NEW t \in Threads, CloseStep(t) PROVE AwaitedIsKnown'
  <2>1. PICK p \in {"waking", "failing", "joining", "exited", "idle"} :
          p \in Phases /\ (Goto(t, p) \/ pc' = Woken(t, p))
    BY <1>1, <1>7, CloseGoes
  <2>2. awaited' = awaited
    BY <1>7 DEF CloseStep, Close, WakeAndShut, FailDropped, calls
  <2>3. Len(promise') = Len(promise)
    <3>1. CASE FailDropped(t)
      BY <1>1, <3>1 DEF FailDropped
    <3>2. CASE ~FailDropped(t)
      BY <1>7, <3>2 DEF CloseStep, Close, WakeAndShut, answers
    <3>3. QED
      BY <3>1, <3>2
  <2>4. QED
    BY <1>1, <1>2, <2>1, <2>2, <2>3
<1>8. CASE Open
  <2>1. /\ Len(promise') = 1 /\ Len(promise) = 0 /\ awaited' = awaited
        /\ Goto(Writer, "looking") /\ "looking" \in Phases
    BY <1>8 DEF Open, calls, SessionInv, WireInv, NothingBefore, Phases
  <2>2. \A u \in Callers : pc'[u] = pc[u]
    BY <1>1, <2>1 DEF Goto
  <2>3. QED
    BY <1>1, <2>1, <2>2 DEF AwaitedIsKnown
<1>9. CASE Rest \/ Take \/ NotifyRoom \/ Written \/ WriteFails
  <2>1. PICK p \in {"looking", "exited", "asleep", "notifying", "sending", "closing"} :
          p \in Phases /\ (Goto(Writer, p) \/ pc' = Woken(Writer, p))
    BY <1>9, WriterGoes
  <2>2. awaited' = awaited
    BY <1>9 DEF Rest, Take, NotifyRoom, Written, WriteFails, calls
  <2>3. Len(promise') = Len(promise)
    <3>1. CASE Written \/ WriteFails
      <4>1. promise \in Seq(Values)
        BY DEF SessionInv, WireInv, Types
      <4>2. Tell("written") \/ Tell("failed")
        BY <3>1 DEF Written, WriteFails
      <4>3. QED
        BY <4>1, <4>2 DEF Tell
    <3>2. CASE ~(Written \/ WriteFails)
      BY <1>9, <3>2 DEF Rest, Take, NotifyRoom, answers
    <3>3. QED
      BY <3>1, <3>2
  <2>4. QED
    BY <1>1, <1>2, <2>1, <2>2, <2>3
<1>10. CASE UNCHANGED vars
  BY <1>10 DEF vars, calls, answers, AwaitedIsKnown
<1>11. QED
  BY <1>1, <1>3, <1>4, <1>5, <1>6, <1>7, <1>8, <1>9, <1>10 DEF Next, CallerStep, WriterStep

-----------------------------------------------------------------------------
(* Whatever has no answer yet stays where somebody will answer it.          *)
Closing(t) == pc[t] \in {"waking", "failing"}

LEMMA QuietUnset ==
  ASSUME UnsetIsUnderway, UNCHANGED <<outgoing, promise, dropped, item>>,
         InHand => InHand', \A u \in Threads : Closing(u) => Closing(u)'
  PROVE  UnsetIsUnderway'
<1>1. ASSUME NEW n \in 1 .. Len(promise), promise[n] = "unset"
      PROVE  Underway(n)'
  <2>1. Underway(n)
    BY <1>1 DEF UnsetIsUnderway
  <2>2. QED
    BY <2>1 DEF Underway, Carries, Closing
<1>2. QED
  BY <1>1 DEF UnsetIsUnderway

(* One thread moves, which had nothing in hand and nothing to fail.         *)
LEMMA MoveKeepsPlaces ==
  ASSUME pc \in [Threads -> Phases], NEW t \in Threads, NEW p \in Phases,
         Goto(t, p) \/ pc' = Woken(t, p),
         Closing(t) => p \in {"waking", "failing"},
         t = Writer /\ InHand => p \in {"notifying", "sending"}
  PROVE  (InHand => InHand') /\ \A u \in Threads : Closing(u) => Closing(u)'
<1>1. /\ pc'[t] = p /\ Writer \in Threads
      /\ \A u \in Threads \ {t} :
           pc'[u] = pc[u] \/ (pc[u] = "asleep" /\ pc'[u] = "looking")
  BY Moved DEF Threads
<1>2. InHand => InHand'
  BY <1>1 DEF InHand
<1>3. \A u \in Threads : Closing(u) => Closing(u)'
  BY <1>1 DEF Closing
<1>4. QED
  BY <1>2, <1>3

LEMMA QueueUnset ==
  ASSUME SessionInv, UnsetIsUnderway, NEW t \in Callers, Queue(t)
  PROVE  UnsetIsUnderway'
<1>1. /\ pc \in [Threads -> Phases] /\ t \in Threads /\ t # Writer
      /\ outgoing \in Seq(Outgoing) /\ promise \in Seq(Values)
  BY SessionConstants DEF SessionInv, WireInv, Types, Threads
<1> DEFINE new == [n |-> Len(promise) + 1, size |-> request[t].size,
                   waits |-> request[t].wait, plain |-> FALSE]
<1>2. /\ outgoing' = Append(outgoing, new)
      /\ promise' = Append(promise, IF request[t].wait THEN "unset" ELSE "none")
      /\ UNCHANGED <<dropped, item>> /\ Goto(t, "notifying") /\ "notifying" \in Phases
      /\ ~Closing(t)
  BY DEF Queue, loop, Closing, Phases
<1>3. (InHand => InHand') /\ \A u \in Threads : Closing(u) => Closing(u)'
  BY <1>1, <1>2, MoveKeepsPlaces
<1>4. new.n = Len(promise) + 1 /\ new.waits = request[t].wait
  OBVIOUS
<1> HIDE DEF new
<1>5. /\ Len(outgoing) \in Nat /\ Len(outgoing') = Len(outgoing) + 1
      /\ \A i \in 1 .. Len(outgoing) : outgoing'[i] = outgoing[i]
      /\ outgoing'[Len(outgoing) + 1] = new
  BY <1>1, <1>2
<1>6. /\ Len(promise) \in Nat /\ Len(promise') = Len(promise) + 1
      /\ \A n \in 1 .. Len(promise) : promise'[n] = promise[n]
      /\ promise'[Len(promise) + 1] = IF request[t].wait THEN "unset" ELSE "none"
  BY <1>1, <1>2
<1>7. ASSUME NEW n \in 1 .. Len(promise'), promise'[n] = "unset"
      PROVE  Underway(n)'
  <2>1. CASE n = Len(promise) + 1
    <3>1. Carries(outgoing', n)
      BY <1>4, <1>5, <1>6, <1>7, <2>1 DEF Carries
    <3>2. QED
      BY <3>1 DEF Underway, Carries
  <2>2. CASE n # Len(promise) + 1
    <3>1. n \in 1 .. Len(promise) /\ promise[n] = "unset"
      BY <1>6, <1>7, <2>2
    <3>2. Underway(n)
      BY <3>1 DEF UnsetIsUnderway
    <3>3. Carries(outgoing, n) => Carries(outgoing', n)
      <4>1. ASSUME NEW i \in 1 .. Len(outgoing), outgoing[i].n = n /\ outgoing[i].waits
            PROVE  Carries(outgoing', n)
        <5>1. i \in 1 .. Len(outgoing') /\ outgoing'[i] = outgoing[i]
          BY <1>5, <4>1
        <5>2. QED
          BY <4>1, <5>1 DEF Carries
      <4>2. QED
        BY <4>1 DEF Carries
    <3>4. QED
      BY <1>2, <1>3, <3>2, <3>3 DEF Underway, Carries, Closing
  <2>3. QED
    BY <2>1, <2>2
<1>8. QED
  BY <1>7 DEF UnsetIsUnderway

(* Close takes what was queued along, to fail it.                           *)
LEMMA CloseUnset ==
  ASSUME SessionInv, UnsetIsUnderway, NEW t \in Threads, Close(t)
  PROVE  UnsetIsUnderway'
<1>1. pc \in [Threads -> Phases] /\ dropped \in [Threads -> Seq(Outgoing)]
  BY DEF SessionInv, WireInv, OtherTypes, Types
<1>2. /\ outgoing' = <<>> /\ dropped' = [dropped EXCEPT ![t] = outgoing]
      /\ UNCHANGED <<promise, item>> /\ Goto(t, "waking") /\ "waking" \in Phases
      /\ ~Closing(t) /\ (t = Writer => ~InHand)
  BY DEF Close, loop, Closing, InHand, Phases
<1>3. (InHand => InHand') /\ \A u \in Threads : Closing(u) => Closing(u)'
  BY <1>1, <1>2, MoveKeepsPlaces
<1>4. Closing(t)' /\ dropped'[t] = outgoing
      /\ \A u \in Threads \ {t} : dropped'[u] = dropped[u]
  BY <1>1, <1>2 DEF Closing, Goto
<1>5. ASSUME NEW n \in 1 .. Len(promise), promise[n] = "unset"
      PROVE  Underway(n)'
  <2>1. Underway(n)
    BY <1>5 DEF UnsetIsUnderway
  <2>2. CASE Carries(outgoing, n)
    BY <1>4, <2>2 DEF Underway, Carries, Closing
  <2>3. CASE InHand /\ item.n = n /\ item.waits
    BY <1>2, <1>3, <2>3 DEF Underway
  <2>4. ASSUME NEW u \in Threads, Closing(u), Carries(dropped[u], n)
        PROVE  Underway(n)'
    <3>1. u # t /\ Closing(u)' /\ dropped'[u] = dropped[u]
      BY <1>2, <1>3, <1>4, <2>4
    <3>2. QED
      BY <2>4, <3>1 DEF Underway, Carries, Closing
  <2>5. QED
    BY <2>1, <2>2, <2>3, <2>4 DEF Underway, Closing
<1>6. QED
  BY <1>2, <1>5 DEF UnsetIsUnderway

(* What a thread fails has an answer.                                       *)
LEMMA FailUnset ==
  ASSUME SessionInv, UnsetIsUnderway, NEW t \in Threads, FailDropped(t)
  PROVE  UnsetIsUnderway'
<1>1. /\ pc \in [Threads -> Phases] /\ dropped \in [Threads -> Seq(Outgoing)]
      /\ Len(promise) \in Nat /\ Writer \in Threads
  BY DEF SessionInv, WireInv, OtherTypes, Types, Threads
<1>2. /\ promise' = [n \in 1 .. Len(promise) |->
           IF \E i \in DOMAIN dropped[t] : dropped[t][i].n = n /\ dropped[t][i].waits
           THEN SetValue(n, "failed") ELSE promise[n]]
      /\ dropped' = [dropped EXCEPT ![t] = <<>>]
      /\ UNCHANGED <<outgoing, item>> /\ pc[t] = "failing"
  BY DEF FailDropped, queue
<1>3. \A u \in Threads \ {t} : dropped'[u] = dropped[u]
                             /\ (pc'[u] = pc[u] \/ (pc[u] = "asleep" /\ pc'[u] = "looking"))
  <2>1. PICK p \in Phases : Goto(t, p) \/ pc' = Woken(t, p)
    BY DEF FailDropped, Goto, Phases
  <2>2. QED
    BY <1>1, <1>2, <2>1, Moved
<1>4. ASSUME NEW n \in 1 .. Len(promise'), promise'[n] = "unset"
      PROVE  Underway(n)'
  <2>1. n \in 1 .. Len(promise)
    BY <1>1, <1>2
  <2>2. promise[n] = "unset" /\ ~Carries(dropped[t], n)
    <3>1. DOMAIN dropped[t] = 1 .. Len(dropped[t])
      BY <1>1
    <3>2. promise'[n] = IF Carries(dropped[t], n) THEN SetValue(n, "failed") ELSE promise[n]
      BY <1>2, <2>1, <3>1 DEF Carries
    <3>3. QED
      BY <1>4, <3>2 DEF SetValue
  <2>3. Underway(n)
    BY <2>1, <2>2 DEF UnsetIsUnderway
  <2>4. CASE Carries(outgoing, n)
    BY <1>2, <2>4 DEF Underway, Carries
  <2>5. CASE InHand /\ item.n = n /\ item.waits
    BY <1>1, <1>2, <1>3, <2>5 DEF Underway, InHand
  <2>6. ASSUME NEW u \in Threads, Closing(u), Carries(dropped[u], n)
        PROVE  Underway(n)'
    <3>1. u # t /\ pc'[u] = pc[u] /\ dropped'[u] = dropped[u]
      BY <1>3, <2>2, <2>6 DEF Closing
    <3>2. QED
      BY <2>6, <3>1 DEF Underway, Carries, Closing
  <2>7. QED
    BY <2>3, <2>4, <2>5, <2>6 DEF Underway, Closing
<1>5. QED
  BY <1>4 DEF UnsetIsUnderway

(* The writer takes the head of the queue into its hand.                    *)
LEMMA TakeUnset ==
  ASSUME SessionInv, UnsetIsUnderway, Take
  PROVE  UnsetIsUnderway'
<1>1. /\ pc \in [Threads -> Phases] /\ Writer \in Threads
      /\ outgoing \in Seq(Outgoing) /\ outgoing # <<>>
  BY DEF SessionInv, WireInv, Types, Threads, Take
<1>2. /\ item'.n = Head(outgoing).n /\ item'.waits = Head(outgoing).waits
      /\ outgoing' = Tail(outgoing) /\ UNCHANGED <<promise, dropped>>
      /\ pc[Writer] = "looking" /\ Goto(Writer, "notifying") /\ "notifying" \in Phases
  BY DEF Take, answers, Phases
<1>3. InHand' /\ ~InHand /\ \A u \in Threads : Closing(u) => Closing(u)'
  BY <1>1, <1>2 DEF InHand, Goto, Closing
<1>4. /\ Len(outgoing) \in Nat /\ Len(outgoing') = Len(outgoing) - 1
      /\ Head(outgoing) = outgoing[1]
      /\ \A i \in 1 .. Len(outgoing') : outgoing'[i] = outgoing[i + 1]
  BY <1>1, <1>2
<1>5. ASSUME NEW n \in 1 .. Len(promise), promise[n] = "unset"
      PROVE  Underway(n)'
  <2>1. Underway(n)
    BY <1>5 DEF UnsetIsUnderway
  <2>2. ASSUME NEW i \in 1 .. Len(outgoing), outgoing[i].n = n /\ outgoing[i].waits
        PROVE  Underway(n)'
    <3>1. CASE i = 1
      BY <1>2, <1>3, <1>4, <2>2, <3>1 DEF Underway
    <3>2. CASE i # 1
      <4>1. i - 1 \in 1 .. Len(outgoing') /\ outgoing'[i - 1] = outgoing[i]
        BY <1>4, <2>2, <3>2
      <4>2. QED
        BY <2>2, <4>1 DEF Underway, Carries
    <3>3. QED
      BY <3>1, <3>2
  <2>3. ASSUME NEW u \in Threads, Closing(u), Carries(dropped[u], n)
        PROVE  Underway(n)'
    BY <1>2, <1>3, <2>3 DEF Underway, Carries, Closing
  <2>4. QED
    BY <1>3, <2>1, <2>2, <2>3 DEF Underway, Carries, Closing
<1>6. QED
  BY <1>2, <1>5 DEF UnsetIsUnderway

(* What it told of has an answer.                                           *)
LEMMA ToldUnset ==
  ASSUME SessionInv, UnsetIsUnderway, Written \/ WriteFails
  PROVE  UnsetIsUnderway'
<1>1. /\ pc \in [Threads -> Phases] /\ Writer \in Threads /\ Types
      /\ promise \in Seq(Values) /\ Len(promise) \in Nat
  BY DEF SessionInv, WireInv, Types, Threads
<1>2. PICK value \in {"written", "failed"} : Tell(value)
  BY DEF Written, WriteFails
<1>3. UNCHANGED <<outgoing, dropped>> /\ pc[Writer] = "sending"
  BY DEF Written, WriteFails, queue
<1>4. \A u \in Threads : Closing(u) => Closing(u)'
  <2>1. PICK p \in Phases : Goto(Writer, p)
    BY DEF Written, WriteFails, AfterFailure, Phases
  <2>2. QED
    BY <1>1, <1>3, <2>1 DEF Goto, Closing
<1>5. Len(promise') = Len(promise)
  BY <1>1, <1>2, TellKeepsLength
<1>6. ASSUME NEW n \in 1 .. Len(promise'), promise'[n] = "unset"
      PROVE  Underway(n)'
  <2>1. promise[n] = "unset" /\ ~(item.n = n /\ item.waits)
    <3>1. CASE item.waits
      <4>1. promise' = [promise EXCEPT ![item.n] = SetValue(item.n, value)]
        BY <1>2, <3>1 DEF Tell
      <4>2. n \in DOMAIN promise
        BY <1>1, <1>5, <1>6
      <4>3. promise'[n] = IF n = item.n THEN SetValue(item.n, value) ELSE promise[n]
        BY <4>1, <4>2
      <4>4. SetValue(item.n, value) # "unset"
        BY DEF SetValue
      <4>5. QED
        BY <1>6, <4>3, <4>4
    <3>2. CASE ~item.waits
      BY <1>2, <1>6, <3>2 DEF Tell
    <3>3. QED
      BY <3>1, <3>2
  <2>2. Underway(n)
    BY <1>5, <2>1 DEF UnsetIsUnderway
  <2>3. QED
    BY <1>3, <1>4, <2>1, <2>2 DEF Underway, Carries, Closing
<1>7. QED
  BY <1>6 DEF UnsetIsUnderway

LEMMA UnsetStep ==
  SessionInv /\ UnsetIsUnderway /\ [Next]_vars => UnsetIsUnderway'
<1> SUFFICES ASSUME SessionInv, UnsetIsUnderway, [Next]_vars PROVE UnsetIsUnderway'
  OBVIOUS
<1>1. /\ pc \in [Threads -> Phases] /\ Writer \in Threads
      /\ \A t \in Callers : t \in Threads /\ t # Writer
  BY SessionConstants DEF SessionInv, WireInv, Types, Threads
<1>2. ASSUME NEW t \in Callers,
             \/ \E size \in Sizes, wait \in BOOLEAN : CallEnqueue(t, size, wait)
             \/ NoRoom(t) \/ NotifyQueued(t) \/ GetResult(t)
             \/ CallClose(t) \/ Destroy(t) \/ JoinWriter(t)
      PROVE  UnsetIsUnderway'
  <2>1. PICK p \in Phases : Goto(t, p) \/ pc' = Woken(t, p)
    BY <1>2 DEF CallEnqueue, NoRoom, NotifyQueued, GetResult, CallClose, Destroy,
       JoinWriter, Phases
  <2>2. UNCHANGED <<outgoing, promise, dropped, item>>
    BY <1>2 DEF CallEnqueue, NoRoom, NotifyQueued, GetResult, CallClose, Destroy,
       JoinWriter, queue, loop, answers
  <2>3. ~Closing(t)
    <3>1. CASE Destroy(t)
      BY <3>1 DEF Destroy, Closing
    <3>2. CASE ~Destroy(t)
      BY <1>2, <3>2 DEF CallEnqueue, NoRoom, NotifyQueued, GetResult, CallClose,
         JoinWriter, Closing
    <3>3. QED
      BY <3>1, <3>2
  <2>4. (InHand => InHand') /\ \A u \in Threads : Closing(u) => Closing(u)'
    BY <1>1, <2>1, <2>3, MoveKeepsPlaces
  <2>5. QED
    BY <2>2, <2>4, QuietUnset
<1>3. ASSUME NEW t \in Threads, WakeAndShut(t) PROVE UnsetIsUnderway'
  <2>1. /\ UNCHANGED <<outgoing, promise, dropped, item>> /\ pc[t] = "waking"
        /\ pc' = Woken(t, "failing") /\ "failing" \in Phases
    BY <1>3 DEF WakeAndShut, queue, loop, answers, Phases
  <2>2. t = Writer => ~InHand
    BY <2>1 DEF InHand
  <2>3. (InHand => InHand') /\ \A u \in Threads : Closing(u) => Closing(u)'
    BY <1>1, <2>1, <2>2, MoveKeepsPlaces
  <2>4. QED
    BY <2>1, <2>3, QuietUnset
<1>4. CASE Rest
  <2>1. UNCHANGED <<outgoing, promise, dropped, item>> /\ pc[Writer] = "looking"
    BY <1>4 DEF Rest, queue, loop, answers
  <2>2. PICK p \in Phases : Goto(Writer, p)
    BY <1>4 DEF Rest, Phases
  <2>3. ~InHand /\ ~Closing(Writer)
    BY <2>1 DEF InHand, Closing
  <2>4. (InHand => InHand') /\ \A u \in Threads : Closing(u) => Closing(u)'
    BY <1>1, <2>2, <2>3, MoveKeepsPlaces
  <2>5. QED
    BY <2>1, <2>4, QuietUnset
<1>5. CASE NotifyRoom
  <2>1. /\ UNCHANGED <<outgoing, promise, dropped, item>> /\ pc[Writer] = "notifying"
        /\ pc' = Woken(Writer, "sending") /\ "sending" \in Phases
    BY <1>5 DEF NotifyRoom, queue, loop, answers, Phases
  <2>2. ~Closing(Writer)
    BY <2>1 DEF Closing
  <2>3. (InHand => InHand') /\ \A u \in Threads : Closing(u) => Closing(u)'
    BY <1>1, <2>1, <2>2, MoveKeepsPlaces
  <2>4. QED
    BY <2>1, <2>3, QuietUnset
<1>6. CASE Open
  BY <1>6 DEF Open, UnsetIsUnderway
<1>7. CASE UNCHANGED vars
  <2>1. UNCHANGED <<outgoing, promise, dropped, item, pc>>
    BY <1>7 DEF vars, queue, loop, answers
  <2>2. QED
    BY <2>1, QuietUnset DEF InHand, Closing
<1>8. QED
  BY <1>1, <1>2, <1>3, <1>4, <1>5, <1>6, <1>7, QueueUnset, CloseUnset, FailUnset, TakeUnset,
     ToldUnset DEF Next, CallerStep, CloseStep, WriterStep

-----------------------------------------------------------------------------
(* What a sleeper waits for.                                                *)
Comes(t) ==
  sendFailed \/ IF t = Writer THEN outgoing # <<>> ELSE Fits(request[t].size)

LEMMA WakeParts ==
  NoWakeUpLost <=> \A t \in Threads : pc[t] = "asleep" /\ Comes(t) => Alert
BY DEF NoWakeUpLost, Comes, Alert

LEMMA WakePartsNext ==
  NoWakeUpLost' <=> \A t \in Threads : pc'[t] = "asleep" /\ Comes(t)' => Alert'
BY DEF NoWakeUpLost, Comes, Alert

(* notify_all leaves no sleeper.                                            *)
LEMMA NobodySleeps ==
  ASSUME pc \in [Threads -> Phases], NEW t \in Threads, NEW p \in Phases \ {"asleep"},
         pc' = Woken(t, p)
  PROVE  NoWakeUpLost'
<1>1. \A u \in Threads : pc'[u] # "asleep"
  BY DEF Woken
<1>2. QED
  BY <1>1, WakePartsNext

(* Whoever changed the queue has its notify_all to come.                    *)
LEMMA AlertKeeps ==
  ASSUME pc \in [Threads -> Phases], NEW t \in Threads, Goto(t, "notifying") \/ Goto(t, "waking")
  PROVE  NoWakeUpLost'
<1>1. pc'[t] \in {"notifying", "waking"}
  BY DEF Goto
<1>2. Alert'
  BY <1>1 DEF Alert
<1>3. QED
  BY <1>2, WakePartsNext

(* Other steps leave the queue and the sleepers alone; who falls asleep has *)
(* just seen that there is nothing for it.                                  *)
LEMMA QuietWakes ==
  ASSUME pc \in [Threads -> Phases], NoWakeUpLost, NEW t \in Threads, NEW p \in Phases,
         Goto(t, p), pc[t] \notin {"notifying", "waking"},
         UNCHANGED <<outgoing, outgoingBytes, sendFailed>>,
         \A u \in Callers \ {t} : request'[u] = request[u],
         p = "asleep" => ~Comes(t)'
  PROVE  NoWakeUpLost'
<1>1. pc'[t] = p /\ \A u \in Threads \ {t} : pc'[u] = pc[u]
  BY DEF Goto
<1>2. ASSUME NEW u \in Threads, pc'[u] = "asleep", Comes(u)' PROVE Alert'
  <2>1. u # t /\ pc[u] = "asleep"
    BY <1>1, <1>2
  <2>2. Comes(u)
    <3>1. CASE u = Writer
      BY <1>2, <3>1 DEF Comes
    <3>2. CASE u # Writer
      <4>1. request'[u] = request[u]
        BY <2>1, <3>2 DEF Threads
      <4>2. QED
        BY <1>2, <3>2, <4>1 DEF Comes, Fits
    <3>3. QED
      BY <3>1, <3>2
  <2>3. PICK v \in Threads : pc[v] \in {"notifying", "waking"}
    BY <2>1, <2>2, WakeParts DEF Alert
  <2>4. v # t /\ pc'[v] = pc[v]
    BY <1>1, <2>3
  <2>5. QED
    BY <2>3, <2>4 DEF Alert
<1>3. QED
  BY <1>2, WakePartsNext

LEMMA WakeStep == SessionInv /\ NoWakeUpLost /\ [Next]_vars => NoWakeUpLost'
<1> SUFFICES ASSUME SessionInv, NoWakeUpLost, [Next]_vars PROVE NoWakeUpLost'
  OBVIOUS
<1>1. /\ pc \in [Threads -> Phases] /\ Writer \in Threads
      /\ \A t \in Callers : t \in Threads /\ t # Writer
      /\ request \in [Callers -> Requests]
  BY SessionConstants DEF SessionInv, WireInv, Types, Threads
<1>2. ASSUME NEW t \in Callers, NEW size \in Sizes, NEW wait \in BOOLEAN,
             CallEnqueue(t, size, wait)
      PROVE  NoWakeUpLost'
  <2>1. /\ Goto(t, "looking") /\ "looking" \in Phases /\ pc[t] = "idle"
        /\ UNCHANGED <<outgoing, outgoingBytes, sendFailed>>
        /\ \A u \in Callers \ {t} : request'[u] = request[u]
    BY <1>1, <1>2 DEF CallEnqueue, queue, Phases
  <2>2. QED
    BY <1>1, <2>1, QuietWakes
<1>3. ASSUME NEW t \in Callers, Queue(t) PROVE NoWakeUpLost'
  BY <1>1, <1>3, AlertKeeps DEF Queue
<1>4. ASSUME NEW t \in Callers, NoRoom(t) PROVE NoWakeUpLost'
  <2>1. PICK p \in {"asleep", "idle"} :
          p \in Phases /\ Goto(t, p) /\ (p = "asleep" => ~sendFailed)
    BY <1>4 DEF NoRoom, Phases
  <2>2. /\ UNCHANGED <<outgoing, outgoingBytes, sendFailed, request>> /\ pc[t] = "looking"
        /\ sendFailed \/ ~Fits(request[t].size)
    BY <1>4 DEF NoRoom, queue, calls
  <2>3. p = "asleep" => ~Comes(t)'
    BY <1>1, <2>1, <2>2 DEF Comes, Fits
  <2>4. QED
    BY <1>1, <2>1, <2>2, <2>3, QuietWakes
<1>5. ASSUME NEW t \in Callers, NotifyQueued(t) PROVE NoWakeUpLost'
  <2>1. PICK p \in Phases \ {"asleep"} : pc' = Woken(t, p)
    BY <1>5 DEF NotifyQueued, Phases
  <2>2. QED
    BY <1>1, <2>1, NobodySleeps
<1>6. ASSUME NEW t \in Callers, GetResult(t) \/ CallClose(t) \/ JoinWriter(t) \/ Destroy(t)
      PROVE  NoWakeUpLost'
  <2>1. PICK p \in Phases \ {"asleep"} : Goto(t, p)
    BY <1>6 DEF GetResult, CallClose, JoinWriter, Destroy, Phases
  <2>2. UNCHANGED <<outgoing, outgoingBytes, sendFailed, request>>
    BY <1>6 DEF GetResult, CallClose, JoinWriter, Destroy, queue, calls
  <2>3. pc[t] \notin {"notifying", "waking"}
    BY <1>6 DEF GetResult, CallClose, JoinWriter, Destroy
  <2>4. QED
    BY <1>1, <2>1, <2>2, <2>3, QuietWakes
<1>7. ASSUME NEW t \in Threads, CloseStep(t) PROVE NoWakeUpLost'
  <2>1. CASE Close(t)
    BY <1>1, <2>1, AlertKeeps DEF Close
  <2>2. CASE WakeAndShut(t)
    <3>1. pc' = Woken(t, "failing") /\ "failing" \in Phases \ {"asleep"}
      BY <2>2 DEF WakeAndShut, Phases
    <3>2. QED
      BY <1>1, <3>1, NobodySleeps
  <2>3. CASE FailDropped(t) /\ owner = t
    <3>1. pc' = Woken(t, "joining") /\ "joining" \in Phases \ {"asleep"}
      BY <2>3 DEF FailDropped, Phases
    <3>2. QED
      BY <1>1, <3>1, NobodySleeps
  <2>4. CASE FailDropped(t) /\ owner # t
    <3>1. PICK p \in Phases \ {"asleep"} : Goto(t, p)
      BY <2>4 DEF FailDropped, Goto, Phases
    <3>2. UNCHANGED <<outgoing, outgoingBytes, sendFailed, request>> /\ pc[t] = "failing"
      BY <2>4 DEF FailDropped, queue, calls
    <3>3. QED
      BY <1>1, <3>1, <3>2, QuietWakes
  <2>5. QED
    BY <1>7, <2>1, <2>2, <2>3, <2>4 DEF CloseStep
<1>8. CASE Open
  <2>1. pc[Writer] = "unstarted" /\ Goto(Writer, "looking")
    BY <1>8 DEF Open
  <2>2. \A u \in Callers : pc[u] # "asleep"
    BY <2>1 DEF SessionInv, WireInv, NothingBefore
  <2>3. \A u \in Threads : pc'[u] # "asleep"
    BY <1>1, <2>1, <2>2 DEF Goto, Threads
  <2>4. QED
    BY <2>3, WakePartsNext
<1>9. CASE Rest
  <2>1. PICK p \in {"exited", "asleep"} :
          p \in Phases /\ Goto(Writer, p) /\ (p = "asleep" => ~sendFailed)
    BY <1>9 DEF Rest, Phases
  <2>2. /\ UNCHANGED <<outgoing, outgoingBytes, sendFailed, request>> /\ pc[Writer] = "looking"
        /\ sendFailed \/ outgoing = <<>>
    BY <1>9 DEF Rest, queue, calls
  <2>3. p = "asleep" => ~Comes(Writer)'
    BY <2>1, <2>2 DEF Comes
  <2>4. QED
    BY <1>1, <2>1, <2>2, <2>3, QuietWakes
<1>10. CASE Take
  BY <1>1, <1>10, AlertKeeps DEF Take
<1>11. CASE NotifyRoom
  <2>1. pc' = Woken(Writer, "sending") /\ "sending" \in Phases \ {"asleep"}
    BY <1>11 DEF NotifyRoom, Phases
  <2>2. QED
    BY <1>1, <2>1, NobodySleeps
<1>12. CASE Written \/ WriteFails
  <2>1. PICK p \in Phases \ {"asleep"} : Goto(Writer, p)
    BY <1>12 DEF Written, WriteFails, AfterFailure, Phases
  <2>2. UNCHANGED <<outgoing, outgoingBytes, sendFailed, request>> /\ pc[Writer] = "sending"
    BY <1>12 DEF Written, WriteFails, queue, calls
  <2>3. QED
    BY <1>1, <2>1, <2>2, QuietWakes
<1>13. CASE UNCHANGED vars
  <2>1. UNCHANGED <<pc, outgoing, outgoingBytes, sendFailed, request>>
    BY <1>13 DEF vars, queue, calls
  <2>2. QED
    BY <2>1 DEF NoWakeUpLost, Fits
<1>14. QED
  BY <1>2, <1>3, <1>4, <1>5, <1>6, <1>7, <1>8, <1>9, <1>10, <1>11, <1>12, <1>13
     DEF Next, CallerStep, WriterStep, Threads

(* Suppose that every thread waits.  Then no notify_all is to come, and the *)
(* writer has not started, sleeps or is gone.  A caller that sleeps saw no  *)
(* room, so there is a message; one that waits for its promise has its      *)
(* message in the queue; in both cases the session has not failed, and the  *)
(* writer would not sleep, be gone or not have started.  An owner that      *)
(* joins has closed the session, and a sleeping writer would be woken.      *)
LEMMA SomebodyMoves == SessionInv /\ MoveInv => NeverStuck
<1> SUFFICES ASSUME SessionInv, MoveInv, NEW t \in Callers,
                    pc[t] \notin {"idle", "exited"},
                    \A u \in Threads : Waits(u)
             PROVE  FALSE
  BY DEF NeverStuck, MoveInv
<1>1. /\ pc \in [Threads -> Phases] /\ Writer \in Threads /\ t \in Threads /\ t # Writer
      /\ awaited \in [Callers -> Nat] /\ Len(promise) \in Nat /\ outgoing \in Seq(Outgoing)
  BY SessionConstants DEF SessionInv, WireInv, Types, OtherTypes, Threads
<1>2. \A u \in Threads : pc[u] \in {"awaiting", "joining", "unstarted", "idle", "asleep", "exited"}
  <2>1. TAKE u \in Threads
  <2>2. Waits(u)
    OBVIOUS
  <2>3. QED
    BY <2>2 DEF Waits
<1>3. ~Alert
  BY <1>2 DEF Alert
<1>4. pc[Writer] \in {"unstarted", "asleep", "exited"}
  BY <1>1, <1>2 DEF MoveInv, Places
<1>5. \A u \in Threads : pc[u] = "asleep" => ~Comes(u)
  BY <1>3, WakeParts DEF MoveInv
<1>6. ~sendFailed /\ outgoing # <<>> => FALSE
  <2>1. SUFFICES ASSUME ~sendFailed, outgoing # <<>> PROVE FALSE
    OBVIOUS
  <2>2. pc[Writer] # "unstarted"
    BY <2>1 DEF SessionInv, WireInv, NothingBefore
  <2>3. pc[Writer] # "exited"
    BY <2>1 DEF MoveInv, EndIsKnown
  <2>4. pc[Writer] # "asleep"
    BY <1>1, <1>5, <2>1 DEF Comes
  <2>5. QED
    BY <1>4, <2>2, <2>3, <2>4
<1>7. CASE pc[t] = "asleep"
  <2>1. ~sendFailed /\ outgoing # <<>>
    BY <1>1, <1>5, <1>7 DEF Comes, Fits
  <2>2. QED
    BY <1>6, <2>1
<1>8. CASE pc[t] = "awaiting"
  <2>1. awaited[t] \in 1 .. Len(promise)
    BY <1>1, <1>8 DEF MoveInv, AwaitedIsKnown
  <2>2. promise[awaited[t]] = "unset"
    <3>1. Waits(t)
      BY <1>1
    <3>2. QED
      BY <1>8, <3>1 DEF Waits
  <2>3. Underway(awaited[t])
    BY <2>1, <2>2 DEF MoveInv, UnsetIsUnderway
  <2>4. ~InHand /\ \A u \in Threads : pc[u] \notin {"waking", "failing"}
    BY <1>2, <1>4 DEF InHand
  <2>5. Carries(outgoing, awaited[t])
    BY <2>3, <2>4 DEF Underway
  <2>6. PICK i \in 1 .. Len(outgoing) : outgoing[i].waits
    BY <2>5 DEF Carries
  <2>7. ~sendFailed
    BY <2>6 DEF SessionInv, TruthInv, OneFails, NoneWaits
  <2>8. outgoing # <<>>
    BY <1>1, <2>6
  <2>9. QED
    BY <1>6, <2>7, <2>8
<1>9. CASE pc[t] = "joining"
  <2>1. sendFailed
    BY <1>1, <1>9 DEF MoveInv, EndIsKnown
  <2>2. pc[Writer] \notin {"unstarted", "exited"}
    <3>1. Waits(t)
      BY <1>1
    <3>2. QED
      BY <1>9, <3>1 DEF Waits
  <2>3. pc[Writer] = "asleep"
    BY <1>4, <2>2
  <2>4. QED
    BY <1>1, <1>5, <2>1, <2>3 DEF Comes
<1>10. pc[t] # "unstarted"
  BY DEF MoveInv, Places
<1>11. QED
  BY <1>1, <1>2, <1>7, <1>8, <1>9, <1>10

(* However the session is filled, drained, closed and destroyed: no thread  *)
(* sleeps through what it waits for, and while a call is under way not all  *)
(* of them wait.                                                            *)
THEOREM NobodyIsStuck == Spec => []NeverStuck
<1>1. Init => MoveInv
  BY MoveInit
<1>2. SessionInv /\ MoveInv /\ [Next]_vars => MoveInv'
  BY PlacesStep, AwaitedStep, UnsetStep, WakeStep DEF MoveInv
<1>3. Spec => []MoveInv
  BY <1>1, <1>2, SessionInvHolds, PTL DEF Spec
<1>4. QED
  BY <1>3, SomebodyMoves, SessionInvHolds, PTL
=============================================================================
