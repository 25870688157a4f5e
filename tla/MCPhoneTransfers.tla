-------------------------- MODULE MCPhoneTransfers --------------------------
(***************************************************************************)
(* What the launcher and the phone ask of each other over a connection,    *)
(* each on a small instance: the launcher's requests (PhoneDownloads) and  *)
(* the files it sends (PhoneSends).  The two share nothing but the         *)
(* connection, whose coming and going each models for itself, so they are  *)
(* checked next to each other: an initial state starts one of them, and    *)
(* the other is over.                                                      *)
(***************************************************************************)
EXTENDS PhoneDownloads

CONSTANTS Files, MaxConcurrent, MaxWorkers, MaxOthers

VARIABLES pendingSends, sender, wake, sendingOn, last, greeted, others, slots, send, conn,
          cancelled, receipts, received, receipt, outcomes
sends == <<pendingSends, sender, wake, sendingOn, last, greeted, others, slots, send, conn,
           cancelled, receipts, received, receipt, outcomes>>
Sends == INSTANCE PhoneSends WITH ui <- sender, active <- sendingOn

DownloadsOver ==   \* the last connection is
  /\ active = 0 /\ link = [c \in Conns |-> "down"]
  /\ pending = [n \in Names |-> NoRequest]
  /\ saving = [c \in Conns |-> NoAnswer]
  /\ emit = [t \in Threads |-> <<>>] /\ phoneEvents = <<>>
  /\ ui = "idle" /\ name = NoRequest /\ downloading = {} /\ abandoned = {}
  /\ requests = 0 /\ answers = 0

SendsOver ==   \* and every file is gone
  /\ pendingSends = <<>> /\ sender = "idle" /\ wake = FALSE
  /\ sendingOn = 0 /\ last = MaxConns /\ greeted = TRUE /\ others = 0
  /\ slots = [c \in Conns |-> 0]
  /\ send = [f \in Files |-> "gone"] /\ conn = [f \in Files |-> 0]
  /\ cancelled = {} /\ receipts = {} /\ received = [f \in Files |-> "nothing"]
  /\ receipt = [c \in Conns |-> "none"] /\ outcomes = [f \in Files |-> 0]

TransfersInit == (Init /\ SendsOver) \/ (DownloadsOver /\ Sends!Init)

TransfersNext ==
  \/ Next /\ UNCHANGED sends
  \/ Sends!Next /\ UNCHANGED vars

TransfersSpec ==
  /\ TransfersInit /\ [][TransfersNext]_<<vars, sends>>
  /\ Fairness /\ Sends!Fairness

(* What the proofs assume of the constants.                                 *)
ASSUME TransferConstants ==
  /\ IsFiniteSet(Names) /\ IsFiniteSet(Files) /\ Sends!NoFile \notin Files
  /\ MaxConcurrent \in Nat /\ MaxWorkers \in Nat /\ MaxOthers \in Nat

TransfersTypeOK == TypeOK /\ Sends!TypeOK

(* Nothing waits for ever in the launcher: neither a download for the phone *)
(* nor a queued file for a slot.                                            *)
TransfersSettle == DownloadsEnd /\ Sends!QueuedFilesMove

(* What is asked ends, and ends once: a download, as the launcher shows it, *)
(* and a file that is sent.                                                 *)
EachEndsOnce == NoEndlessSpinner /\ Sends!EachEndsOnce
=============================================================================
