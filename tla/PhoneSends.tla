----------------------------- MODULE PhoneSends -----------------------------
(***************************************************************************)
(* Files sent to the phone: PhoneService::SendFile, CanSendFile, the       *)
(* worker of each transfer and the receipts of the phone                   *)
(* (native/src/phone_service.cpp, file_transfer.hpp), and the launcher's   *)
(* queue of files that wait for a slot (main.cpp).                         *)
(*                                                                         *)
(* A transfer holds one of the few slots of its session and one of the     *)
(* service's worker threads, which connections take too.  Its outcome is   *)
(* reported by its worker or by the receipt, whichever settles it.  Every  *)
(* write waits for the session's writer (SessionWriter): it succeeds while *)
(* the session is the active one.                                          *)
(***************************************************************************)
EXTENDS Naturals, Sequences, FiniteSets

CONSTANTS Files,          \* files the user sends, each once
          MaxConns,       \* bound on the connections
          MaxConcurrent,  \* kMaximumConcurrent
          MaxWorkers,     \* kMaxWorkers
          MaxOthers       \* bound on the workers that serve connections

Conns == 1 .. MaxConns

VARIABLES
  pendingSends,  \* pendingPhoneSends_
  ui,            \* where the UI thread is in SendPendingPhoneFiles
  wake,          \* a SendSlotFree or Status event waits for the UI
  active,        \* active_, 0 for none
  last, greeted, \* the last connection, and whether its first status has come
  others,        \* workers that serve connections
  slots,         \* session -> outgoingTransfers
  send,          \* file -> where it or its worker is
  conn,          \* file -> the session it is sent on
  cancelled,     \* files whose transfer was cancelled (flag or epoch)
  receipts,      \* files whose receipt is expected
  received,      \* file -> what the phone has of it
  receipt,       \* the receipt a connection's worker has settled and not reported
  outcomes       \* file -> how many results the launcher was sent

vars == <<pendingSends, ui, wake, active, last, greeted, others, slots, send,
          conn, cancelled, receipts, received, receipt, outcomes>>

(* "begin", "chunk", "end" and "whole": the next write of the worker, the   *)
(* last one for a phone that takes files only in one frame.  "failed": not  *)
(* sent, about to settle the receipt; "telling" the launcher.  "done" is    *)
(* set, the slot still taken; "freed", the event still owed; "gone".        *)
Writing == {"begin", "chunk", "end", "whole"}
Live    == Writing \cup {"failed", "telling", "done"}
NoFile  == "none"

TypeOK ==
  /\ pendingSends \in Seq(Files)
  /\ ui \in {"idle", "checking", "sending"}
  /\ wake \in BOOLEAN
  /\ last \in {0} \cup Conns /\ active \in {0, last} /\ greeted \in BOOLEAN
  /\ others \in 0 .. MaxOthers
  /\ slots \in [Conns -> Nat]
  /\ send \in [Files -> Live \cup {"new", "queued", "refused", "freed", "gone"}]
  /\ conn \in [Files -> {0} \cup Conns]
  /\ cancelled \subseteq Files /\ receipts \subseteq Files
  /\ received \in [Files -> {"nothing", "part", "all"}]
  /\ receipt \in [Conns -> Files \cup {NoFile}]
  /\ outcomes \in [Files -> Nat]

Init ==
  /\ pendingSends = <<>> /\ ui = "idle" /\ wake = FALSE
  /\ active = 0 /\ last = 0 /\ greeted = FALSE /\ others = 0
  /\ slots = [c \in Conns |-> 0]
  /\ send = [f \in Files |-> "new"]
  /\ conn = [f \in Files |-> 0]
  /\ cancelled = {} /\ receipts = {}
  /\ received = [f \in Files |-> "nothing"]
  /\ receipt = [c \in Conns |-> NoFile]
  /\ outcomes = [f \in Files |-> 0]

launcher  == <<pendingSends, ui>>
link      == <<active, last, greeted, others>>
transfers == <<slots, send, conn, cancelled>>
results   == <<receipts, received, receipt, outcomes>>

Busy == others + Cardinality({f \in Files : send[f] \in Live \ {"done"}})

-----------------------------------------------------------------------------
(* The launcher.  SendFilesToPhone queues and tries at once when connected; *)
(* Status and SendSlotFree try again.                                       *)
QueueFile(f) ==
  /\ ui = "idle" /\ send[f] = "new"
  /\ pendingSends' = Append(pendingSends, f)
  /\ send' = [send EXCEPT ![f] = "queued"]
  /\ ui' = IF active # 0 THEN "checking" ELSE "idle"
  /\ UNCHANGED <<wake, link, slots, conn, cancelled, results>>

OnEvent ==
  /\ ui = "idle" /\ wake
  /\ wake' = FALSE
  /\ ui' = IF pendingSends # <<>> /\ active # 0 THEN "checking" ELSE "idle"
  /\ UNCHANGED <<pendingSends, link, transfers, results>>

CanSendFile ==
  /\ active # 0
  /\ slots[active] < MaxConcurrent
  /\ Busy < MaxWorkers

Check ==
  /\ ui = "checking"
  /\ ui' = IF pendingSends # <<>> /\ CanSendFile THEN "sending" ELSE "idle"
  /\ UNCHANGED <<pendingSends, wake, link, transfers, results>>

(* SendFile decides again, under mutex_: the connection may be gone and the *)
(* workers taken.  A refused file has left the queue all the same.          *)
SendFile ==
  LET f == Head(pendingSends) IN
  /\ ui = "sending"
  /\ pendingSends' = Tail(pendingSends)
  /\ ui' = "checking"
  /\ IF CanSendFile
     THEN \E first \in {"begin", "whole"} :
            /\ slots' = [slots EXCEPT ![active] = @ + 1]
            /\ send' = [send EXCEPT ![f] = first]
            /\ conn' = [conn EXCEPT ![f] = active]
            /\ receipts' = receipts \cup {f}
     ELSE /\ send' = [send EXCEPT ![f] = "refused"]
          /\ UNCHANGED <<slots, conn, receipts>>
  /\ UNCHANGED <<wake, link, cancelled, received, receipt, outcomes>>

-----------------------------------------------------------------------------
(* The worker of a transfer.                                                *)
NextWrite == [begin |-> "chunk", chunk |-> "end", end |-> "done", whole |-> "done"]

GivesUp(f) == send[f] \in {"chunk", "end"} /\ f \in cancelled

Write(f) ==
  /\ send[f] \in Writing /\ ~GivesUp(f)
  /\ active = conn[f]
  /\ received' = [received EXCEPT ![f] =
                    IF send[f] \in {"end", "whole"} THEN "all" ELSE "part"]
  /\ send' = [send EXCEPT ![f] = NextWrite[send[f]]]
  /\ UNCHANGED <<launcher, wake, link, slots, conn, cancelled, receipts, receipt,
                 outcomes>>

(* A cancelled transfer, a lost connection, a file that cannot be read.     *)
Fail(f) ==
  /\ send[f] \in Writing
  /\ send' = [send EXCEPT ![f] = "failed"]
  /\ UNCHANGED <<launcher, wake, link, slots, conn, cancelled, results>>

(* Settling decides whether the receipt has already said why.               *)
AlwaysTells(f) == "telling"   \* mutant: the worker does not ask the receipts
AfterSettle(f) == IF f \in receipts THEN "telling" ELSE "done"

Settle(f) ==
  /\ send[f] = "failed"
  /\ receipts' = receipts \ {f}
  /\ send' = [send EXCEPT ![f] = AfterSettle(f)]
  /\ UNCHANGED <<launcher, wake, link, slots, conn, cancelled, received, receipt,
                 outcomes>>

Tell(f) ==
  /\ send[f] = "telling"
  /\ outcomes' = [outcomes EXCEPT ![f] = @ + 1]
  /\ send' = [send EXCEPT ![f] = "done"]
  /\ UNCHANGED <<launcher, wake, link, slots, conn, cancelled, receipts, received,
                 receipt>>

(* Cleanup: the slot is free before the launcher hears of it.               *)
TwoSlotsLess(f) == [slots EXCEPT ![conn[f]] = @ - 2]   \* mutant: returned twice
OneSlotLess(f) == [slots EXCEPT ![conn[f]] = @ - 1]

ReturnSlot(f) ==
  /\ send[f] = "done"
  /\ slots' = OneSlotLess(f)
  /\ send' = [send EXCEPT ![f] = "freed"]
  /\ UNCHANGED <<launcher, wake, link, conn, cancelled, results>>

NoEvent == wake   \* mutant: a worker that ends wakes nobody
SlotEvent == TRUE

EmitSlotFree(f) ==
  /\ send[f] = "freed"
  /\ wake' = SlotEvent
  /\ send' = [send EXCEPT ![f] = "gone"]
  /\ UNCHANGED <<launcher, link, slots, conn, cancelled, results>>

-----------------------------------------------------------------------------
(* The phone.  It answers a file it has, in part (it refuses the rest) or   *)
(* as a whole; only the first receipt counts, and it stops the stream.      *)
Receipt(f, ok) ==
  LET c == conn[f] IN
  /\ c # 0 /\ active = c /\ receipt[c] = NoFile
  /\ received[f] = "all" \/ (received[f] = "part" /\ ~ok)
  /\ f \in receipts
  /\ receipts' = receipts \ {f}
  /\ receipt' = [receipt EXCEPT ![c] = f]
  /\ cancelled' = IF ok THEN cancelled ELSE cancelled \cup {f}
  /\ UNCHANGED <<launcher, wake, link, slots, send, conn, received, outcomes>>

ReportReceipt(c) ==
  /\ receipt[c] # NoFile
  /\ outcomes' = [outcomes EXCEPT ![receipt[c]] = @ + 1]
  /\ receipt' = [receipt EXCEPT ![c] = NoFile]
  /\ UNCHANGED <<launcher, wake, link, transfers, receipts, received>>

(* CancelTransfers, or file.cancel from the phone, for one file or all.     *)
Cancel(fs) ==
  /\ active # 0 /\ fs # {} /\ \A f \in fs : conn[f] = active
  /\ cancelled' = cancelled \cup fs
  /\ UNCHANGED <<launcher, wake, link, slots, send, conn, results>>

(* Connections come and go, one after the other; each announces itself with *)
(* a status.  Their workers and those of handshakes come and go too, as far *)
(* as a connection remains that they could get in the way of.               *)
Connect ==
  /\ last < MaxConns
  /\ last' = last + 1 /\ active' = last + 1
  /\ greeted' = FALSE
  /\ UNCHANGED <<launcher, wake, others, transfers, results>>

Status ==
  /\ active # 0
  /\ greeted' = TRUE
  /\ wake' = TRUE
  /\ UNCHANGED <<launcher, active, last, others, transfers, results>>

Disconnect ==
  /\ active # 0 /\ receipt[active] = NoFile
  /\ active' = 0
  /\ UNCHANGED <<launcher, wake, last, greeted, others, transfers, results>>

WorkerStarts ==
  /\ Busy < MaxWorkers /\ others < MaxOthers
  /\ active # 0 \/ last < MaxConns
  /\ others' = others + 1
  /\ UNCHANGED <<launcher, wake, active, last, greeted, transfers, results>>

WorkerEnds ==
  /\ others > 0
  /\ others' = others - 1
  /\ UNCHANGED <<launcher, wake, active, last, greeted, transfers, results>>

-----------------------------------------------------------------------------
UiStep == OnEvent \/ Check \/ SendFile

SendStep(f) ==
  Write(f) \/ Fail(f) \/ Settle(f) \/ Tell(f) \/ ReturnSlot(f) \/ EmitSlotFree(f)

Next ==
  \/ \E f \in Files : QueueFile(f) \/ SendStep(f)
  \/ \E f \in Files, ok \in BOOLEAN : Receipt(f, ok)
  \/ \E c \in Conns : ReportReceipt(c)
  \/ \E fs \in SUBSET Files : Cancel(fs)
  \/ UiStep
  \/ Connect \/ Status \/ Disconnect \/ WorkerStarts \/ WorkerEnds

Spec == Init /\ [][Next]_vars

(* Threads keep running, a phone announces itself, and answers what it has  *)
(* as a whole while it is connected.                                        *)
Fairness ==
  /\ WF_vars(UiStep)
  /\ WF_vars(~greeted /\ Status)
  /\ \A f \in Files : WF_vars(SendStep(f)) /\ WF_vars(\E ok \in BOOLEAN : Receipt(f, ok))
  /\ \A c \in Conns : WF_vars(ReportReceipt(c))

FairSpec == Spec /\ Fairness

-----------------------------------------------------------------------------
(* Every way a transfer may end counts once: whether its worker, its        *)
(* receipt, a refusal in mid-stream or a cancellation ends it, the launcher *)
(* is told one result at most, and the slots taken from a session are those *)
(* of the workers that still run, never more than its limit.                *)
EachEndsOnce ==
  /\ \A f \in Files : outcomes[f] <= 1
  /\ \A c \in Conns :
       /\ slots[c] = Cardinality({f \in Files : send[f] \in Live /\ conn[f] = c})
       /\ slots[c] <= MaxConcurrent

(* A queued file leaves the queue unless the phone goes: a slot that is     *)
(* returned wakes the launcher after it can be seen.                        *)
QueuedFilesMove ==
  \A f \in Files : send[f] = "queued" /\ active # 0 ~> send[f] # "queued" \/ active = 0

=============================================================================
