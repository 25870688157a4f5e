--------------------------- MODULE MCPhoneThreads ---------------------------
(***************************************************************************)
(* The threads of the phone service wait for one another in two places, on *)
(* two small instances: the senders, the writer and the owner of a session *)
(* (SessionWriter), and Stop, which closes every session and joins the     *)
(* workers (PhoneSessions).  A session's Close is one step there and the   *)
(* whole matter here, so they are checked next to each other: an initial   *)
(* state starts one of them, and the other is over.                        *)
(***************************************************************************)
EXTENDS SessionWriter

CONSTANTS Conns, Devices, Addresses, MaxWorkers, MaxPending, MaxPerAddress, MaxInvites,
          MaxStarts, UI, None

VARIABLES running, ui, conn, active, devices, saved, snapshot, invite, inviteLive,
          pendingHandshakes, pendingByAddress, invites, starts, uses, confirmed,
          replaced, forgotten, erased
service == <<running, ui, conn, active, devices, saved, snapshot, invite, inviteLive,
             pendingHandshakes, pendingByAddress, invites, starts, uses, confirmed,
             replaced, forgotten, erased>>
Service == INSTANCE PhoneSessions

SessionOver ==   \* destroyed in its handshake
  /\ owner = CHOOSE t \in Callers : TRUE
  /\ outgoing = <<>> /\ outgoingBytes = 0 /\ sendFailed = TRUE
  /\ sendCounter = 0 /\ item = NoItem /\ stop = TRUE
  /\ pc = [t \in Threads |-> IF t \in {owner, Writer} THEN "exited" ELSE "idle"]
  /\ request = [t \in Callers |-> [size |-> 0, wait |-> FALSE]]
  /\ awaited = [t \in Callers |-> 0]
  /\ promise = <<>> /\ dropped = [t \in Threads |-> <<>>]
  /\ shut = TRUE /\ wire = <<>>

ServiceOver ==   \* stopped, and not started again
  /\ running = FALSE /\ ui = "stopped"
  /\ conn = [c \in Conns |-> Service!Fresh]
  /\ active = None
  /\ devices = Service!NoDevices /\ saved = Service!NoDevices
  /\ snapshot = [t \in Service!Savers |-> Service!NoDevices]
  /\ invite = 0 /\ inviteLive = FALSE
  /\ pendingHandshakes = 0 /\ pendingByAddress = [a \in Addresses |-> 0]
  /\ invites = 0 /\ starts = MaxStarts
  /\ uses = [k \in Service!Keys |-> 0]
  /\ confirmed = {} /\ replaced = {} /\ forgotten = {} /\ erased = {}

ThreadsInit == (Init /\ ServiceOver) \/ (SessionOver /\ Service!Init)

ThreadsNext ==
  \/ Next /\ UNCHANGED service
  \/ Service!Next /\ UNCHANGED vars

ThreadsSpec ==
  /\ ThreadsInit /\ [][ThreadsNext]_<<vars, service>>
  /\ Fairness /\ Service!Fairness

(* Nobody waits for ever for the phone service: a sender for room, for its  *)
(* frame or for a session to close, the last owner for the writer, the UI   *)
(* thread in Stop for the workers.  Stop is excepted while a worker waits   *)
(* for itself after a save that failed.                                     *)
EveryoneReturns == EveryCallReturns /\ Service!StopReturns
=============================================================================
