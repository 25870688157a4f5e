---------------------------- MODULE PhoneSessions ---------------------------
(***************************************************************************)
(* native/src/phone_service.cpp: pairing, authentication and the life of   *)
(* the phone's connections.  Every accepted socket has a worker thread     *)
(* (HandleConnection); they share mutex_, the save mutex and the file      *)
(* phone-link.dat with the UI thread, which shows invites, forgets phones  *)
(* and starts and stops the service.  A region under mutex_ is one step.   *)
(*                                                                         *)
(* A pairing's link key is derived from its invite's token, so a key is    *)
(* named by the number of that invite; 0 is no key and no token.  Screen   *)
(* connections, transfers and the APK download are left out: they hold the *)
(* same slots and workers as the connections modelled here.                *)
(***************************************************************************)
EXTENDS Naturals, FiniteSets, FiniteSetsExt, Functions

CONSTANTS Conns,          \* connections alive at the same time
          Devices,        \* device ids of the phones
          Addresses,      \* peers' addresses
          MaxWorkers,     \* kMaxWorkers
          MaxPending,     \* kMaxPendingHandshakes
          MaxPerAddress,  \* kMaxPendingPerAddress
          MaxInvites,     \* bound on the invites shown in a behaviour
          MaxStarts,      \* bound on the times the service is started
          UI,             \* the UI thread
          None            \* no connection, no device, no address

ASSUME ConstantsAssumption ==
  /\ IsFiniteSet(Conns) /\ UI \notin Conns
  /\ None \notin Conns \cup Devices \cup Addresses
  /\ {MaxWorkers, MaxPending, MaxPerAddress, MaxInvites, MaxStarts} \subseteq Nat

Keys   == 1 .. MaxInvites
Savers == Conns \cup {UI}   \* the threads that call SaveState

VARIABLES
  running,            \* running_
  ui,                 \* where the UI thread is in Forget, Stop or between runs
  conn,               \* connection -> its Session and its thread's place
  active,             \* active_
  devices,            \* devices_: device -> its link key
  saved,              \* the pairings in phone-link.dat
  snapshot,           \* saver -> the document it is writing
  invite,             \* pairingToken_
  inviteLive,         \* NowMs() <= pairingExpiresAt_
  pendingHandshakes,  \* pendingHandshakes_
  pendingByAddress,   \* pendingByAddress_
  invites,            \* history: invites shown so far
  starts,             \* history: times the service was started
  uses,               \* history: key -> pairings made with its invite
  confirmed,          \* history: keys of pairings the phone was told of
  replaced,           \* history: keys a new pairing of the device replaced
  forgotten,          \* history: keys Forget removed from devices_
  erased              \* history: forgotten keys whose Forget was saved

history == <<invites, starts, uses, confirmed, replaced, forgotten, erased>>
slots   == <<pendingHandshakes, pendingByAddress>>
token   == <<invite, inviteLive>>
vars    == <<running, ui, conn, active, devices, saved, snapshot, token, slots,
             history>>

(* A thread's place.  The middle group is the pair request: token read,     *)
(* pairing stored, saved or not, answer due; "relocking" has taken a failed *)
(* one back.  The name stages save a new name reported by the phone.        *)
Handshake == {"hello", "auth"}
Pairing   == {"deriving", "pairSave", "pairSaving", "pairFailed", "relocking", "confirming"}
Opened    == {"replacing", "announcing", "open", "nameSave", "nameSaving"}
Stages    == {"free", "accepted", "ending", "leaving"} \cup Handshake \cup Pairing \cup Opened

Session == [stage : Stages, address : Addresses \cup {None}, pending : BOOLEAN,
            device : Devices \cup {None}, key : Keys \cup {0},
            pairDevice : Devices \cup {None}, token : Keys \cup {0}, cut : BOOLEAN,
            previous : Conns \cup {None}]

Fresh == [stage |-> "free", address |-> None, pending |-> FALSE, device |-> None,
          key |-> 0, pairDevice |-> None, token |-> 0, cut |-> FALSE,
          previous |-> None]

NoDevices == [d \in Devices |-> 0]

Init ==
  /\ running = FALSE /\ ui = "stopped"
  /\ conn = [c \in Conns |-> Fresh]
  /\ active = None
  /\ devices = NoDevices /\ saved = NoDevices
  /\ snapshot = [t \in Savers |-> NoDevices]
  /\ invite = 0 /\ inviteLive = FALSE
  /\ pendingHandshakes = 0
  /\ pendingByAddress = [a \in Addresses |-> 0]
  /\ invites = 0 /\ starts = 0
  /\ uses = [k \in Keys |-> 0]
  /\ confirmed = {} /\ replaced = {} /\ forgotten = {} /\ erased = {}

TypeOK ==
  /\ running \in BOOLEAN
  /\ ui \in {"idle", "forgot", "saving", "stopping", "joining", "stopped"}
  /\ conn \in [Conns -> Session]
  /\ active \in Conns \cup {None}
  /\ {devices, saved} \subseteq [Devices -> Keys \cup {0}]
  /\ snapshot \in [Savers -> [Devices -> Keys \cup {0}]]
  /\ invite \in Keys \cup {0} /\ inviteLive \in BOOLEAN
  /\ pendingHandshakes \in Nat /\ pendingByAddress \in [Addresses -> Nat]
  /\ invites \in Keys \cup {0} /\ starts \in 0 .. MaxStarts
  /\ uses \in [Keys -> Nat]
  /\ {confirmed, replaced, forgotten, erased} \subseteq SUBSET Keys

At(c, stage) == conn[c].stage = stage

(* mutex_ is free between two steps, unless a worker waits for it while it  *)
(* holds it itself.                                                         *)
Relocking == \E c \in Conns : At(c, "relocking")
MutexFree == ~Relocking

-----------------------------------------------------------------------------
(* ReleasePendingLocked: the slot goes back once, whoever calls first; the  *)
(* step clears pending, and address, which is only read for the slot.       *)
Releases(c) ==   \* mutant: not once
  /\ pendingHandshakes' = pendingHandshakes - 1
  /\ pendingByAddress' = [pendingByAddress EXCEPT ![conn[c].address] = @ - 1]

ReleaseSlot(c) ==
  IF conn[c].pending
  THEN /\ pendingHandshakes' = pendingHandshakes - 1
       /\ pendingByAddress' = [pendingByAddress EXCEPT ![conn[c].address] = @ - 1]
  ELSE UNCHANGED slots

(* AcceptLoop: a socket over a limit is closed at once, which changes no    *)
(* state.  A Session some thread still holds keeps its identity.            *)
AnyAddress(a) == pendingHandshakes < MaxPending   \* mutant: no share per address
HasRoom(a) == pendingHandshakes < MaxPending /\ pendingByAddress[a] < MaxPerAddress

Accept(c, a) ==
  /\ MutexFree /\ running
  /\ At(c, "free") /\ \A x \in Conns : conn[x].previous # c
  /\ Cardinality({x \in Conns : ~At(x, "free")}) < MaxWorkers
  /\ HasRoom(a)
  /\ pendingHandshakes' = pendingHandshakes + 1
  /\ pendingByAddress' = [pendingByAddress EXCEPT ![a] = @ + 1]
  /\ conn' = [conn EXCEPT ![c] = [Fresh EXCEPT !.stage = "accepted", !.address = a,
                                               !.pending = TRUE]]
  /\ UNCHANGED <<running, ui, active, devices, saved, snapshot, token, history>>

(* HandleConnection: the session becomes visible, unless Stop came first.   *)
RegisterAnyway(c) ==   \* mutant: running_ is not asked under the lock
  /\ MutexFree /\ At(c, "accepted")
  /\ conn' = [conn EXCEPT ![c].stage = "hello"]
  /\ UNCHANGED <<running, ui, active, devices, saved, snapshot, token, slots, history>>

Register(c) ==
  /\ MutexFree /\ At(c, "accepted")
  /\ IF running
     THEN conn' = [conn EXCEPT ![c].stage = "hello"] /\ UNCHANGED slots
     ELSE conn' = [conn EXCEPT ![c] = Fresh] /\ ReleaseSlot(c)
  /\ UNCHANGED <<running, ui, active, devices, saved, snapshot, token, history>>

(* The read loop ends: peer gone, timeout, malformed frame, or Close.       *)
Leave(c) ==
  /\ conn[c].stage \in Handshake \cup {"open"}
  /\ conn' = [conn EXCEPT ![c].stage = "ending"]
  /\ UNCHANGED <<running, ui, active, devices, saved, snapshot, token, slots, history>>

Rejected(c) ==
  /\ conn' = [conn EXCEPT ![c].stage = "ending", ![c].pending = FALSE, ![c].address = None]
  /\ ReleaseSlot(c)

(* reject: a bad request, proof, key or MAC, an expired code, a phone that  *)
(* is not paired.                                                           *)
Reject(c) ==
  /\ MutexFree /\ conn[c].stage \in Handshake
  /\ Rejected(c)
  /\ UNCHANGED <<running, ui, active, devices, saved, snapshot, token, history>>

-----------------------------------------------------------------------------
(* pair: the token is read under the lock, the proof and the key derivation *)
(* run without it ...                                                       *)
PairRequest(c, d) ==
  /\ MutexFree /\ At(c, "hello")
  /\ invite # 0 /\ inviteLive
  /\ conn' = [conn EXCEPT ![c].stage = "deriving", ![c].pairDevice = d,
                          ![c].token = invite]
  /\ UNCHANGED <<running, ui, active, devices, saved, snapshot, token, slots, history>>

(* ... and the token is consumed only if it is still the one shown.         *)
WasShown(c) == TRUE   \* mutant: the token read before the derivation is trusted
StillShown(c) == invite = conn[c].token /\ inviteLive

ConsumeToken(c) ==
  LET d == conn[c].pairDevice
      k == conn[c].token
  IN /\ MutexFree /\ At(c, "deriving")
     /\ IF StillShown(c)
        THEN /\ invite' = 0 /\ inviteLive' = FALSE
             /\ devices' = [devices EXCEPT ![d] = k]
             /\ uses' = [uses EXCEPT ![k] = @ + 1]
             /\ replaced' = replaced \cup ({devices[d]} \ {0})
             /\ conn' = [conn EXCEPT ![c].stage = "pairSave"]
             /\ UNCHANGED slots
        ELSE Rejected(c) /\ UNCHANGED <<token, devices, uses, replaced>>
     /\ UNCHANGED <<running, ui, active, saved, snapshot, invites, starts,
                    confirmed, forgotten, erased>>

(* SaveState holds stateSaveMutex_ from the snapshot, taken under mutex_,   *)
(* to the end of the write; the file is replaced as a whole or not at all.  *)
Saving == {c \in Conns : conn[c].stage \in {"pairSaving", "nameSaving"}}
          \cup (IF ui = "saving" THEN {UI} ELSE {})

SnapshotUnlocked(t) ==   \* mutant: stateSaveMutex_ is missing
  MutexFree /\ snapshot' = [snapshot EXCEPT ![t] = devices]

TakeSnapshot(t) ==
  /\ Saving = {} /\ MutexFree
  /\ snapshot' = [snapshot EXCEPT ![t] = devices]

WriteState(t, written) ==
  /\ saved' = IF written THEN snapshot[t] ELSE saved
  /\ snapshot' = [snapshot EXCEPT ![t] = NoDevices]

BeginSave(c) ==
  /\ conn[c].stage \in {"pairSave", "nameSave"}
  /\ TakeSnapshot(c)
  /\ conn' = [conn EXCEPT ![c].stage = IF @ = "pairSave" THEN "pairSaving" ELSE "nameSaving"]
  /\ UNCHANGED <<running, ui, active, devices, saved, token, slots, history>>

EndSave(c, written) ==
  /\ conn[c].stage \in {"pairSaving", "nameSaving"}
  /\ WriteState(c, written)
  /\ conn' = [conn EXCEPT ![c].stage = CASE @ = "nameSaving" -> "open"
                                         [] @ = "pairSaving" /\ written -> "confirming"
                                         [] OTHER -> "pairFailed"]
  /\ UNCHANGED <<running, ui, active, devices, token, slots, history>>

(* The phone is told of a saved pairing and may go on with hello; a failed  *)
(* send ends the connection.                                                *)
Confirm(c, sent) ==
  /\ At(c, "confirming")
  /\ confirmed' = IF sent THEN confirmed \cup {conn[c].token} ELSE confirmed
  /\ conn' = [conn EXCEPT ![c].stage = IF sent THEN "hello" ELSE "ending",
                          ![c].pairDevice = None, ![c].token = 0]
  /\ UNCHANGED <<running, ui, active, devices, saved, snapshot, token, slots,
                 invites, starts, uses, replaced, forgotten, erased>>

(* The pairing is taken back, unless the device was paired again meanwhile. *)
(* reject is called before the lock is given back and takes it again: the   *)
(* thread waits for itself, or the runtime ends the process (Crash).        *)
Rollback(c) ==
  LET d == conn[c].pairDevice
  IN /\ MutexFree /\ At(c, "pairFailed")
     /\ devices' = IF devices[d] = conn[c].token THEN [devices EXCEPT ![d] = 0] ELSE devices
     /\ conn' = [conn EXCEPT ![c].stage = "relocking"]
     /\ UNCHANGED <<running, ui, active, saved, snapshot, token, slots, history>>

-----------------------------------------------------------------------------
(* hello: the session takes over the link key stored for the device.        *)
Hello(c, d) ==
  /\ MutexFree /\ At(c, "hello")
  /\ devices[d] # 0
  /\ conn' = [conn EXCEPT ![c].stage = "auth", ![c].device = d, ![c].key = devices[d]]
  /\ UNCHANGED <<running, ui, active, devices, saved, snapshot, token, slots, history>>

Paired(c) == conn[c].device # None /\ devices[conn[c].device] = conn[c].key

(* auth with the right MAC: a session whose pairing is gone ends; any other *)
(* takes over as the active one, and its slot is free again.                *)
Authenticate(c) ==
  /\ MutexFree /\ At(c, "auth")
  /\ IF running /\ Paired(c)
     THEN /\ conn' = [conn EXCEPT ![c].stage = "replacing", ![c].pending = FALSE,
                                  ![c].address = None, ![c].previous = active]
          /\ active' = c
          /\ ReleaseSlot(c)
     ELSE /\ conn' = [conn EXCEPT ![c].stage = "ending"]
          /\ UNCHANGED <<active, slots>>
  /\ UNCHANGED <<running, ui, devices, saved, snapshot, token, history>>

(* The connections after Session::Close of those in cs.                     *)
Closed(cs) == [c \in Conns |-> IF c \in cs THEN [conn[c] EXCEPT !.cut = TRUE] ELSE conn[c]]

(* After the unlock: the connection it replaced is closed ...               *)
Previous(c) == {conn[c].previous} \cap Conns

ClosePrevious(c) ==
  /\ At(c, "replacing")
  /\ conn' = [Closed(Previous(c)) EXCEPT ![c].stage = "announcing", ![c].previous = None]
  /\ UNCHANGED <<running, ui, active, devices, saved, snapshot, token, slots, history>>

(* ... and Connected is emitted.                                            *)
EmitConnected(c) ==
  /\ At(c, "announcing")
  /\ conn' = [conn EXCEPT ![c].stage = "open"]
  /\ UNCHANGED <<running, ui, active, devices, saved, snapshot, token, slots, history>>

(* HandleSessionFrame drops a frame unless its session is the active one    *)
(* and still paired.                                                        *)
Hears(c) == running /\ active = c /\ Paired(c)

(* A status frame with a new name saves the pairings.                       *)
Rename(c) ==
  /\ MutexFree /\ At(c, "open")
  /\ Hears(c)
  /\ conn' = [conn EXCEPT ![c].stage = "nameSave"]
  /\ UNCHANGED <<running, ui, active, devices, saved, snapshot, token, slots, history>>

(* HandleConnection after its loop, in one critical section ...             *)
ActiveStays(c) == active   \* mutant: the ended session stays the active one
ActiveAfter(c) == IF active = c THEN None ELSE active

End(c) ==
  /\ MutexFree /\ At(c, "ending")
  /\ active' = ActiveAfter(c)
  /\ conn' = [conn EXCEPT ![c].stage = "leaving", ![c].pending = FALSE, ![c].address = None,
                         ![c].cut = TRUE]
  /\ ReleaseSlot(c)
  /\ UNCHANGED <<running, ui, devices, saved, snapshot, token, history>>

(* ... and the thread's last acts are to emit Disconnected, without the     *)
(* lock, and to take it once more in ~PendingSlot.                          *)
EmitDisconnected(c) ==
  /\ MutexFree /\ At(c, "leaving")
  /\ conn' = [conn EXCEPT ![c] = Fresh]
  /\ UNCHANGED <<running, ui, active, devices, saved, snapshot, token, slots, history>>

-----------------------------------------------------------------------------
(* The UI thread.                                                           *)
CreatePairingUri ==
  /\ MutexFree /\ running /\ ui = "idle"
  /\ invites < MaxInvites
  /\ invites' = invites + 1
  /\ invite' = invites' /\ inviteLive' = TRUE
  /\ UNCHANGED <<running, ui, conn, active, devices, saved, snapshot, slots, starts,
                 uses, confirmed, replaced, forgotten, erased>>

InviteExpires ==
  /\ inviteLive
  /\ inviteLive' = FALSE
  /\ UNCHANGED <<running, ui, conn, active, devices, saved, snapshot, invite, slots,
                 history>>

(* The sessions in sessions_.                                               *)
Registered == {c \in Conns : conn[c].stage \notin {"free", "accepted", "leaving"}}

NoSession(d) == {}   \* mutant: Forget leaves the connection alone
SessionsOf(d) == {c \in Registered : conn[c].device = d}

Forget(d) ==
  /\ MutexFree /\ running /\ ui = "idle"
  /\ devices[d] # 0
  /\ devices' = [devices EXCEPT ![d] = 0]
  /\ forgotten' = forgotten \cup {devices[d]}
  /\ conn' = Closed(SessionsOf(d))
  /\ ui' = "forgot"
  /\ UNCHANGED <<running, active, saved, snapshot, token, slots, invites, starts,
                 uses, confirmed, replaced, erased>>

BeginForgetSave ==
  /\ ui = "forgot"
  /\ TakeSnapshot(UI)
  /\ ui' = "saving"
  /\ UNCHANGED <<running, conn, active, devices, saved, token, slots, history>>

(* A failed save is reported: the phone may return after a restart.         *)
EndForgetSave(written) ==
  /\ ui = "saving"
  /\ WriteState(UI, written)
  /\ ui' = "idle"
  /\ erased' = IF written THEN erased \cup forgotten ELSE erased
  /\ UNCHANGED <<running, conn, active, devices, token, slots, invites, starts, uses,
                 confirmed, replaced, forgotten>>

(* Stop: running_ first, then the sessions are closed under the lock, then  *)
(* every worker is joined.                                                  *)
BeginStop ==
  /\ running /\ ui = "idle"
  /\ running' = FALSE
  /\ ui' = "stopping"
  /\ UNCHANGED <<conn, active, devices, saved, snapshot, token, slots, history>>

CloseSessions ==
  /\ MutexFree /\ ui = "stopping"
  /\ conn' = Closed(Registered)
  /\ ui' = "joining"
  /\ UNCHANGED <<running, active, devices, saved, snapshot, token, slots, history>>

JoinWorkers ==
  /\ ui = "joining"
  /\ \A c \in Conns : At(c, "free")
  /\ ui' = "stopped"
  /\ active' = None
  /\ invite' = 0 /\ inviteLive' = FALSE
  /\ UNCHANGED <<running, conn, devices, saved, snapshot, slots, history>>

(* Start reads the file and saves what it read; a key that is still in the  *)
(* file is a pairing again.                                                 *)
Start ==
  /\ ui = "stopped"
  /\ starts < MaxStarts
  /\ starts' = starts + 1
  /\ running' = TRUE /\ ui' = "idle"
  /\ devices' = saved
  /\ replaced' = replaced \ Range(saved)
  /\ forgotten' = forgotten \ Range(saved)
  /\ UNCHANGED <<conn, active, saved, snapshot, token, slots, invites, uses, confirmed,
                 erased>>

(* The process dies; only the file survives.                                *)
Crash ==
  /\ ui # "stopped"
  /\ running' = FALSE /\ ui' = "stopped"
  /\ conn' = [c \in Conns |-> Fresh]
  /\ active' = None
  /\ devices' = NoDevices
  /\ snapshot' = [t \in Savers |-> NoDevices]
  /\ invite' = 0 /\ inviteLive' = FALSE
  /\ pendingHandshakes' = 0
  /\ pendingByAddress' = [a \in Addresses |-> 0]
  /\ UNCHANGED <<saved, history>>

-----------------------------------------------------------------------------
(* What a connection's thread does of its own accord ...                    *)
ThreadStep(c) ==
  \/ Register(c) \/ ConsumeToken(c) \/ BeginSave(c) \/ Rollback(c)
  \/ \E written \in BOOLEAN : EndSave(c, written)
  \/ \E sent \in BOOLEAN : Confirm(c, sent)
  \/ ClosePrevious(c) \/ EmitConnected(c) \/ End(c) \/ EmitDisconnected(c)

(* ... and what it does because of the peer.                                *)
PeerStep(c) ==
  \/ \E a \in Addresses : Accept(c, a)
  \/ \E d \in Devices : PairRequest(c, d) \/ Hello(c, d)
  \/ Authenticate(c) \/ Rename(c) \/ Reject(c) \/ Leave(c)

UiStep ==
  \/ BeginForgetSave
  \/ \E written \in BOOLEAN : EndForgetSave(written)
  \/ CloseSessions \/ JoinWorkers

Next ==
  \/ \E c \in Conns : ThreadStep(c) \/ PeerStep(c)
  \/ UiStep
  \/ CreatePairingUri \/ InviteExpires
  \/ \E d \in Devices : Forget(d)
  \/ BeginStop \/ Start \/ Crash

Spec == Init /\ [][Next]_vars

(* A closed socket fails its next read, and a handshake has one deadline.   *)
MustLeave(c) == (conn[c].cut \/ conn[c].stage \in Handshake) /\ Leave(c)

(* Threads run, file writes end, and the read loop of a closed or overdue   *)
(* connection ends even if buffered frames are still handled first.         *)
Fairness ==
  /\ \A c \in Conns : WF_vars(ThreadStep(c)) /\ SF_vars(MustLeave(c))
  /\ WF_vars(UiStep)

FairSpec == Spec /\ Fairness

-----------------------------------------------------------------------------
(* The slots are exactly the unauthenticated connections: pair, refusal,    *)
(* authentication, disconnection and Stop in any order leak none and give   *)
(* none back twice, and the limits hold for all and for each address.       *)
SlotAccounting ==
  LET held(S) == Cardinality({c \in Conns : conn[c].pending /\ conn[c].address \in S})
  IN /\ pendingHandshakes = held(Addresses) /\ pendingHandshakes <= MaxPending
     /\ \A a \in Addresses : pendingByAddress[a] = held({a})
                             /\ pendingByAddress[a] <= MaxPerAddress
     /\ \A c \in Conns : conn[c].pending => conn[c].stage \notin Opened \cup {"free", "leaving"}

(* docs/phone-link.md: a pairing code can only be used once, however many   *)
(* pair requests read it before one of them consumed it.                    *)
SingleUse == \A k \in Keys : uses[k] <= 1

(* A pairing the phone was told of is in the file, whatever saves overlap   *)
(* and wherever the process dies, until it is forgotten or replaced.        *)
ConfirmedIsDurable == confirmed \ (forgotten \cup replaced) \subseteq Range(saved)

(* A Forget that was saved is final: no save under way or later, by another *)
(* pairing or a renamed phone, and no restart brings the key back.          *)
ForgottenStaysForgotten == erased \cap Range(saved) = {}

(* Unpairing during authentication: a session with a forgotten key is never *)
(* left connected; it is refused, or Forget has closed it.                  *)
ForgottenIsCut ==
  \A c \in Conns : conn[c].stage \in Opened /\ conn[c].key \in forgotten => conn[c].cut

(* Unpairing is final, on disk as for the connections of the moment.        *)
ForgottenIsGone == ForgottenStaysForgotten /\ ForgottenIsCut

(* One phone at a time: an authenticated connection that is not the active  *)
(* one is closed, or the thread that replaced it is about to close it; and  *)
(* active_ never outlives the connection's thread.                          *)
OnePhone ==
  /\ active # None => conn[active].stage \in Opened \cup {"ending"}
  /\ \A c \in Conns \ {active} :
       conn[c].stage \in Opened => conn[c].cut \/ \E x \in Conns : conn[x].previous = c

(* While Stop joins the workers, every session that was registered, early   *)
(* or in the middle of Stop, authenticated or not, is closed, so that no    *)
(* worker is left reading from a socket nobody will cut.                    *)
StopCutsAll == ui = "joining" => \A c \in Registered : conn[c].cut

(* Stop returns, whatever the peers do: a worker that registers during Stop *)
(* is either closed by it or sees running_ cleared.  A worker that waits    *)
(* for itself after a failed save is excepted; RejectionReturns is about it.*)
StopReturns == ui = "stopping" ~> ui = "stopped" \/ Relocking

(* reject: "The connection ends here, so a client that retries at once      *)
(* finds its slot free."  So when the pairing could not be saved, the       *)
(* connection gets past its rejection and its slot is free.  It does not,   *)
(* whatever the fairness: "relocking" is left by a crash only.              *)
RejectionReturns ==
  \A c \in Conns : At(c, "pairFailed") ~> conn[c].stage \in {"ending", "free"} /\ ~conn[c].pending

=============================================================================
