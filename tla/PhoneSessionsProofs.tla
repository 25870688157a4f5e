------------------------ MODULE PhoneSessionsProofs -------------------------
(***************************************************************************)
(* For every number of connections, phones, addresses, invites and starts: *)
(* what PhoneSessions says of pairing, of the file and of the connections; *)
(* and for every number of connections, sessions, statuses and inputs what *)
(* PhoneScreen says of the screen shared over them.                        *)
(***************************************************************************)
EXTENDS MCPhoneSessions, Sequences, FiniteSetTheorems, TLAPS

(* The UI thread runs Forget, Stop or nothing; without a service there is   *)
(* no worker.  A free connection keeps nothing but, perhaps, a late Close;  *)
(* only a connection that has just become the active one knows another.     *)
Stopped(t) == t \in {"stopping", "joining", "stopped"}

Placed(r) ==   \* r is the record of a connection
  /\ r.stage = "free" => ~r.pending /\ r.device = None /\ r.key = 0 /\ r.token = 0
  /\ r.pending => r.address \in Addresses
  /\ r.key # 0 => r.device # None
  /\ r.previous # None => r.stage = "replacing"

Places ==
  /\ running <=> ~Stopped(ui)
  /\ ui = "stopped" => \A c \in Conns : At(c, "free")
  /\ \A c \in Conns : Placed(conn[c])

(* A token is shown once.  A key that was not used yet is nowhere.          *)
Consumed == {"pairSave", "pairSaving", "pairFailed", "confirming"}

Tokens ==
  /\ inviteLive => invite # 0
  /\ invite <= invites
  /\ invite # 0 => uses[invite] = 0
  /\ \A k \in Keys : k > invites => uses[k] = 0
  /\ \A c \in Conns : conn[c].stage \in {"deriving"} \cup Consumed =>
       /\ conn[c].token \in Keys /\ conn[c].pairDevice \in Devices
  /\ \A c \in Conns : conn[c].stage \in Consumed => uses[conn[c].token] = 1
  /\ \A b, c \in Conns : /\ conn[b].stage \in Consumed /\ conn[c].stage \in Consumed
                         /\ conn[b].token = conn[c].token
                         => b = c
  /\ confirmed \cup forgotten \cup replaced \cup erased \subseteq {k \in Keys : uses[k] = 1}

(* A key belongs to one device, wherever it is kept.                        *)
Holds(d, k) ==
  \/ devices[d] = k \/ saved[d] = k
  \/ \E t \in Savers : snapshot[t][d] = k
  \/ \E c \in Conns : conn[c].device = d /\ conn[c].key = k

OneOwner ==
  \A k \in Keys :
    /\ \A d \in Devices : Holds(d, k) => uses[k] = 1
    /\ \A d, e \in Devices : Holds(d, k) /\ Holds(e, k) => d = e

(* Saves exclude one another, and only a save has a document.               *)
OneSaver ==
  /\ \A s, t \in Saving : s = t
  /\ \A t \in Savers \ Saving : snapshot[t] = NoDevices

(* What was forgotten is in no table, and once erased in no document either.*)
Forgotten ==
  /\ forgotten \cap Range(devices) = {} \/ ui = "stopped"
  /\ erased \subseteq forgotten
  /\ ui = "saving" => forgotten \cap Range(snapshot[UI]) = {}
  /\ \A t \in Savers : erased \cap Range(snapshot[t]) = {}
  /\ ForgottenStaysForgotten

(* A pairing the phone knows of, or is about to, is in the file, the table  *)
(* and every document being written; one being saved is in the table.       *)
Promised == confirmed \cup {conn[c].token : c \in {x \in Conns : At(x, "confirming")}}
Given    == forgotten \cup replaced

Durable ==
  /\ Promised \ Given \subseteq Range(saved)
  /\ ui # "stopped" => Promised \ Given \subseteq Range(devices)
  /\ \A t \in Saving : Promised \ Given \subseteq Range(snapshot[t])
  /\ \A c \in Conns :
       /\ conn[c].stage \in {"pairSave", "pairSaving"} =>
            conn[c].token \in Range(devices) \cup Given
       /\ At(c, "pairSaving") => conn[c].token \in Range(snapshot[c]) \cup Given
       /\ conn[c].stage \in {"pairSave", "pairSaving", "pairFailed"} =>
            conn[c].token \notin confirmed

IInv ==
  /\ TypeOK /\ Places /\ SlotAccounting
  /\ Tokens /\ SingleUse
  /\ OneOwner /\ OneSaver /\ Forgotten /\ Durable
  /\ ForgottenIsCut /\ OnePhone /\ StopCutsAll

-----------------------------------------------------------------------------
(* What the steps make of their connection, and its type.                   *)
Moves(c, stage) ==
  /\ conn' \in [Conns -> Session]
  /\ \A x \in Conns \ {c} : conn'[x] = conn[x]
  /\ conn'[c].stage = stage

SameSlot(c) == UNCHANGED <<conn[c].address, conn[c].pending>>
SameKey(c)  == UNCHANGED <<conn[c].device, conn[c].key>>
SamePair(c) == UNCHANGED <<conn[c].pairDevice, conn[c].token>>
SameLink(c) == UNCHANGED <<conn[c].cut, conn[c].previous>>

(* The records that steps write are records of connections.                 *)
LEMMA RecordType ==
  ASSUME NEW r \in Session, NEW s \in Stages, NEW b \in BOOLEAN, NEW k \in Keys \cup {0},
         NEW d \in Devices \cup {None}, NEW p \in Conns \cup {None}
  PROVE  /\ [r EXCEPT !.stage = s] \in Session
         /\ [r EXCEPT !.stage = s, !.pending = b, !.address = None] \in Session
         /\ [r EXCEPT !.stage = s, !.pending = b, !.address = None, !.cut = TRUE] \in Session
         /\ [r EXCEPT !.stage = s, !.pending = b, !.address = None, !.previous = p] \in Session
         /\ [r EXCEPT !.stage = s, !.previous = p] \in Session
         /\ [r EXCEPT !.stage = s, !.device = d, !.key = k] \in Session
         /\ [r EXCEPT !.stage = s, !.pairDevice = d, !.token = k] \in Session
         /\ [r EXCEPT !.cut = TRUE] \in Session
<1>1. /\ [r EXCEPT !.stage = s] \in Session
      /\ [r EXCEPT !.cut = TRUE] \in Session
      /\ [r EXCEPT !.stage = s, !.pending = b, !.address = None] \in Session
  BY DEF Session
<1>2. [r EXCEPT !.stage = s, !.pending = b, !.address = None, !.cut = TRUE] \in Session
  BY DEF Session
<1>3. [r EXCEPT !.stage = s, !.pending = b, !.address = None, !.previous = p] \in Session
  BY DEF Session
<1>4. [r EXCEPT !.stage = s, !.previous = p] \in Session
  BY DEF Session
<1>5. [r EXCEPT !.stage = s, !.device = d, !.key = k] \in Session
  BY DEF Session
<1>6. [r EXCEPT !.stage = s, !.pairDevice = d, !.token = k] \in Session
  BY DEF Session
<1>7. QED
  BY <1>1, <1>2, <1>3, <1>4, <1>5, <1>6

(* What the steps name are stages.                                          *)
LEMMA StageNames ==
  Handshake \cup Pairing \cup Opened \cup {"free", "accepted", "ending", "leaving"}
                    \subseteq Stages
BY DEF Stages

(* A connection that is free or has just been accepted is well typed.       *)
LEMMA FreshType ==
  /\ Fresh \in Session
  /\ \A a \in Addresses :
       [Fresh EXCEPT !.stage = "accepted", !.address = a, !.pending = TRUE] \in Session
<1>1. Fresh \in Session
  BY DEF Fresh, Session, Stages
<1>2. ASSUME NEW a \in Addresses
      PROVE  [Fresh EXCEPT !.stage = "accepted", !.address = a, !.pending = TRUE] \in Session
  BY <1>1, StageNames DEF Session
<1>3. QED
  BY <1>1, <1>2

(* A read loop ends.                                                        *)
LEMMA LeaveEffect ==
  ASSUME TypeOK, NEW c \in Conns, Leave(c)
  PROVE  Moves(c, "ending") /\ SameSlot(c) /\ SameKey(c) /\ SamePair(c) /\ SameLink(c)
<1> DEFINE r == [conn[c] EXCEPT !.stage = "ending"]
<1>1. conn \in [Conns -> Session]
  BY DEF TypeOK
<1>2. r \in Session
  BY <1>1, RecordType, StageNames
<1>3. conn' = [conn EXCEPT ![c] = r]
  BY <1>1 DEF Leave
<1>4. r.stage = "ending"
  BY <1>1 DEF Session
<1>5. QED
  BY <1>1, <1>2, <1>3, <1>4 DEF Moves, SameSlot, SameKey, SamePair, SameLink, Session

(* A frame is refused.                                                      *)
LEMMA RejectedEffect ==
  ASSUME TypeOK, NEW c \in Conns, Rejected(c)
  PROVE  /\ Moves(c, "ending") /\ ~conn'[c].pending /\ SameKey(c)
         /\ SamePair(c) /\ SameLink(c)
<1> DEFINE r == [conn[c] EXCEPT !.stage = "ending", !.pending = FALSE, !.address = None]
<1>1. conn \in [Conns -> Session]
  BY DEF TypeOK
<1>2. r \in Session
  BY <1>1, RecordType, StageNames
<1>3. conn' = [conn EXCEPT ![c] = r]
  BY <1>1 DEF Rejected
<1>4. r.stage = "ending"
  BY <1>1 DEF Session
<1>5. QED
  BY <1>1, <1>2, <1>3, <1>4 DEF Moves, SameSlot, SameKey, SamePair, SameLink, Session

(* A pairing is taken back, and its thread waits for itself.                *)
LEMMA RollbackEffect ==
  ASSUME TypeOK, NEW c \in Conns, Rollback(c)
  PROVE  Moves(c, "relocking") /\ SameSlot(c) /\ SameKey(c) /\ SamePair(c) /\ SameLink(c)
<1> DEFINE r == [conn[c] EXCEPT !.stage = "relocking"]
<1>1. conn \in [Conns -> Session]
  BY DEF TypeOK
<1>2. r \in Session
  BY <1>1, RecordType, StageNames DEF Pairing
<1>3. conn' = [conn EXCEPT ![c] = r]
  BY <1>1 DEF Rollback
<1>4. r.stage = "relocking"
  BY <1>1 DEF Session
<1>5. QED
  BY <1>1, <1>2, <1>3, <1>4 DEF Moves, SameSlot, SameKey, SamePair, SameLink, Session

(* A pair request proves that it knows the token.                           *)
LEMMA PairRequestEffect ==
  ASSUME TypeOK, NEW c \in Conns, NEW d \in Devices, PairRequest(c, d)
  PROVE  /\ Moves(c, "deriving") /\ conn'[c].pairDevice = d /\ conn'[c].token = invite
         /\ SameSlot(c) /\ SameKey(c) /\ SameLink(c)
<1> DEFINE r == [conn[c] EXCEPT !.stage = "deriving", !.pairDevice = d, !.token = invite]
<1>1. conn \in [Conns -> Session] /\ invite \in Keys \cup {0}
  BY DEF TypeOK
<1>2. r \in Session
  BY <1>1, RecordType, StageNames DEF Pairing
<1>3. conn' = [conn EXCEPT ![c] = r]
  BY <1>1 DEF PairRequest
<1>4. r.stage = "deriving"
  BY <1>1 DEF Session
<1>5. QED
  BY <1>1, <1>2, <1>3, <1>4 DEF Moves, SameSlot, SameKey, SamePair, SameLink, Session

(* A connection enters sessions_.                                           *)
LEMMA RegisterEffect ==
  ASSUME TypeOK, NEW c \in Conns, Register(c), running
  PROVE  Moves(c, "hello") /\ SameSlot(c) /\ SameKey(c) /\ SamePair(c) /\ SameLink(c)
<1> DEFINE r == [conn[c] EXCEPT !.stage = "hello"]
<1>1. conn \in [Conns -> Session]
  BY DEF TypeOK
<1>2. r \in Session
  BY <1>1, RecordType, StageNames DEF Handshake
<1>3. conn' = [conn EXCEPT ![c] = r]
  BY <1>1 DEF Register
<1>4. r.stage = "hello"
  BY <1>1 DEF Session
<1>5. QED
  BY <1>1, <1>2, <1>3, <1>4 DEF Moves, SameSlot, SameKey, SamePair, SameLink, Session

(* The token is consumed and the pairing entered, or the request is late.   *)
LEMMA ConsumeEffect ==
  ASSUME TypeOK, NEW c \in Conns, ConsumeToken(c), StillShown(c)
  PROVE  Moves(c, "pairSave") /\ SameSlot(c) /\ SameKey(c) /\ SamePair(c) /\ SameLink(c)
<1> DEFINE r == [conn[c] EXCEPT !.stage = "pairSave"]
<1>1. conn \in [Conns -> Session]
  BY DEF TypeOK
<1>2. r \in Session
  BY <1>1, RecordType, StageNames DEF Pairing
<1>3. conn' = [conn EXCEPT ![c] = r]
  BY <1>1 DEF ConsumeToken
<1>4. r.stage = "pairSave"
  BY <1>1 DEF Session
<1>5. QED
  BY <1>1, <1>2, <1>3, <1>4 DEF Moves, SameSlot, SameKey, SamePair, SameLink, Session

(* A pairing is written.                                                    *)
LEMMA PairSaveEffect ==
  ASSUME TypeOK, NEW c \in Conns, BeginSave(c), At(c, "pairSave")
  PROVE  Moves(c, "pairSaving") /\ SameSlot(c) /\ SameKey(c) /\ SamePair(c) /\ SameLink(c)
<1> DEFINE r == [conn[c] EXCEPT !.stage = "pairSaving"]
<1>1. conn \in [Conns -> Session]
  BY DEF TypeOK
<1>2. r \in Session
  BY <1>1, RecordType, StageNames DEF Pairing
<1>3. conn' = [conn EXCEPT ![c] = r]
  BY <1>1 DEF BeginSave, At
<1>4. r.stage = "pairSaving"
  BY <1>1 DEF Session
<1>5. QED
  BY <1>1, <1>2, <1>3, <1>4 DEF Moves, SameSlot, SameKey, SamePair, SameLink, Session

(* A name is written.                                                       *)
LEMMA NameSaveEffect ==
  ASSUME TypeOK, NEW c \in Conns, BeginSave(c), At(c, "nameSave")
  PROVE  Moves(c, "nameSaving") /\ SameSlot(c) /\ SameKey(c) /\ SamePair(c) /\ SameLink(c)
<1> DEFINE r == [conn[c] EXCEPT !.stage = "nameSaving"]
<1>1. conn \in [Conns -> Session]
  BY DEF TypeOK
<1>2. r \in Session
  BY <1>1, RecordType, StageNames DEF Opened
<1>3. conn' = [conn EXCEPT ![c] = r]
  BY <1>1 DEF BeginSave, At
<1>4. r.stage = "nameSaving"
  BY <1>1 DEF Session
<1>5. QED
  BY <1>1, <1>2, <1>3, <1>4 DEF Moves, SameSlot, SameKey, SamePair, SameLink, Session

(* The write of a pairing has ended, well or not.                           *)
LEMMA PairSavedEffect ==
  ASSUME TypeOK, NEW c \in Conns, NEW written \in BOOLEAN, EndSave(c, written), At(c, "pairSaving")
  PROVE  /\ Moves(c, (IF written THEN "confirming" ELSE "pairFailed")) /\ SameSlot(c)
         /\ SameKey(c) /\ SamePair(c) /\ SameLink(c)
<1> DEFINE r == [conn[c] EXCEPT !.stage = (IF written THEN "confirming" ELSE "pairFailed")]
<1>1. conn \in [Conns -> Session]
  BY DEF TypeOK
<1>2. r \in Session
  BY <1>1, RecordType, StageNames DEF Pairing
<1>3. conn' = [conn EXCEPT ![c] = r]
  BY <1>1 DEF EndSave, At
<1>4. r.stage = (IF written THEN "confirming" ELSE "pairFailed")
  BY <1>1 DEF Session
<1>5. QED
  BY <1>1, <1>2, <1>3, <1>4 DEF Moves, SameSlot, SameKey, SamePair, SameLink, Session

(* The write of a name has ended.                                           *)
LEMMA NameSavedEffect ==
  ASSUME TypeOK, NEW c \in Conns, NEW written \in BOOLEAN, EndSave(c, written), At(c, "nameSaving")
  PROVE  Moves(c, "open") /\ SameSlot(c) /\ SameKey(c) /\ SamePair(c) /\ SameLink(c)
<1> DEFINE r == [conn[c] EXCEPT !.stage = "open"]
<1>1. conn \in [Conns -> Session]
  BY DEF TypeOK
<1>2. r \in Session
  BY <1>1, RecordType, StageNames DEF Opened
<1>3. conn' = [conn EXCEPT ![c] = r]
  BY <1>1 DEF EndSave, At
<1>4. r.stage = "open"
  BY <1>1 DEF Session
<1>5. QED
  BY <1>1, <1>2, <1>3, <1>4 DEF Moves, SameSlot, SameKey, SamePair, SameLink, Session

(* The phone is told of its pairing.                                        *)
LEMMA ConfirmEffect ==
  ASSUME TypeOK, NEW c \in Conns, NEW sent \in BOOLEAN, Confirm(c, sent)
  PROVE  /\ Moves(c, (IF sent THEN "hello" ELSE "ending")) /\ conn'[c].pairDevice = None
         /\ conn'[c].token = 0 /\ SameSlot(c) /\ SameKey(c) /\ SameLink(c)
<1> DEFINE r == [conn[c] EXCEPT !.stage = IF sent THEN "hello" ELSE "ending",
                                !.pairDevice = None, !.token = 0]
<1>1. conn \in [Conns -> Session]
  BY DEF TypeOK
<1>2. r \in Session
  BY <1>1, RecordType, StageNames DEF Handshake
<1>3. conn' = [conn EXCEPT ![c] = r]
  BY <1>1 DEF Confirm
<1>4. r.stage = (IF sent THEN "hello" ELSE "ending")
  BY <1>1 DEF Session
<1>5. QED
  BY <1>1, <1>2, <1>3, <1>4 DEF Moves, SameSlot, SameKey, SamePair, SameLink, Session

(* A hello names a key that is known.                                       *)
LEMMA HelloEffect ==
  ASSUME TypeOK, NEW c \in Conns, NEW d \in Devices, Hello(c, d)
  PROVE  /\ Moves(c, "auth") /\ conn'[c].device = d /\ conn'[c].key = devices[d] /\ SameSlot(c)
         /\ SamePair(c) /\ SameLink(c)
<1> DEFINE r == [conn[c] EXCEPT !.stage = "auth", !.device = d, !.key = devices[d]]
<1>1. conn \in [Conns -> Session] /\ devices[d] \in Keys \cup {0}
  BY DEF TypeOK
<1>2. r \in Session
  BY <1>1, RecordType, StageNames DEF Handshake
<1>3. conn' = [conn EXCEPT ![c] = r]
  BY <1>1 DEF Hello
<1>4. r.stage = "auth"
  BY <1>1 DEF Session
<1>5. QED
  BY <1>1, <1>2, <1>3, <1>4 DEF Moves, SameSlot, SameKey, SamePair, SameLink, Session

(* A connection becomes the active one.                                     *)
LEMMA TakeOverEffect ==
  ASSUME TypeOK, NEW c \in Conns, Authenticate(c), running, Paired(c)
  PROVE  /\ Moves(c, "replacing") /\ ~conn'[c].pending /\ conn'[c].previous = active
         /\ UNCHANGED conn[c].cut /\ SameKey(c) /\ SamePair(c)
<1> DEFINE r == [conn[c] EXCEPT !.stage = "replacing", !.pending = FALSE, !.address = None,
                           !.previous = active]
<1>1. conn \in [Conns -> Session] /\ active \in Conns \cup {None}
  BY DEF TypeOK
<1>2. r \in Session
  BY <1>1, RecordType, StageNames DEF Opened
<1>3. conn' = [conn EXCEPT ![c] = r]
  BY <1>1 DEF Authenticate
<1>4. r.stage = "replacing"
  BY <1>1 DEF Session
<1>5. QED
  BY <1>1, <1>2, <1>3, <1>4 DEF Moves, SameSlot, SameKey, SamePair, SameLink, Session

(* A hello that is late or of a forgotten key is refused.                   *)
LEMMA RefusedEffect ==
  ASSUME TypeOK, NEW c \in Conns, Authenticate(c), ~(running /\ Paired(c))
  PROVE  Moves(c, "ending") /\ SameSlot(c) /\ SameKey(c) /\ SamePair(c) /\ SameLink(c)
<1> DEFINE r == [conn[c] EXCEPT !.stage = "ending"]
<1>1. conn \in [Conns -> Session]
  BY DEF TypeOK
<1>2. r \in Session
  BY <1>1, RecordType, StageNames
<1>3. conn' = [conn EXCEPT ![c] = r]
  BY <1>1 DEF Authenticate
<1>4. r.stage = "ending"
  BY <1>1 DEF Session
<1>5. QED
  BY <1>1, <1>2, <1>3, <1>4 DEF Moves, SameSlot, SameKey, SamePair, SameLink, Session

(* The writer of a session is started.                                      *)
LEMMA OpenEffect ==
  ASSUME TypeOK, NEW c \in Conns, EmitConnected(c)
  PROVE  Moves(c, "open") /\ SameSlot(c) /\ SameKey(c) /\ SamePair(c) /\ SameLink(c)
<1> DEFINE r == [conn[c] EXCEPT !.stage = "open"]
<1>1. conn \in [Conns -> Session]
  BY DEF TypeOK
<1>2. r \in Session
  BY <1>1, RecordType, StageNames DEF Opened
<1>3. conn' = [conn EXCEPT ![c] = r]
  BY <1>1 DEF EmitConnected
<1>4. r.stage = "open"
  BY <1>1 DEF Session
<1>5. QED
  BY <1>1, <1>2, <1>3, <1>4 DEF Moves, SameSlot, SameKey, SamePair, SameLink, Session

(* A phone gives another name.                                              *)
LEMMA RenameEffect ==
  ASSUME TypeOK, NEW c \in Conns, Rename(c)
  PROVE  Moves(c, "nameSave") /\ SameSlot(c) /\ SameKey(c) /\ SamePair(c) /\ SameLink(c)
<1> DEFINE r == [conn[c] EXCEPT !.stage = "nameSave"]
<1>1. conn \in [Conns -> Session]
  BY DEF TypeOK
<1>2. r \in Session
  BY <1>1, RecordType, StageNames DEF Opened
<1>3. conn' = [conn EXCEPT ![c] = r]
  BY <1>1 DEF Rename
<1>4. r.stage = "nameSave"
  BY <1>1 DEF Session
<1>5. QED
  BY <1>1, <1>2, <1>3, <1>4 DEF Moves, SameSlot, SameKey, SamePair, SameLink, Session

(* A connection leaves sessions_.                                           *)
LEMMA EndEffect ==
  ASSUME TypeOK, NEW c \in Conns, End(c)
  PROVE  /\ Moves(c, "leaving") /\ ~conn'[c].pending /\ conn'[c].cut
         /\ UNCHANGED conn[c].previous /\ SameKey(c) /\ SamePair(c)
<1> DEFINE r == [conn[c] EXCEPT !.stage = "leaving", !.pending = FALSE, !.address = None,
                           !.cut = TRUE]
<1>1. conn \in [Conns -> Session]
  BY DEF TypeOK
<1>2. r \in Session
  BY <1>1, RecordType, StageNames
<1>3. conn' = [conn EXCEPT ![c] = r]
  BY <1>1 DEF End
<1>4. r.stage = "leaving"
  BY <1>1 DEF Session
<1>5. QED
  BY <1>1, <1>2, <1>3, <1>4 DEF Moves, SameSlot, SameKey, SamePair, SameLink, Session

(* A thread ends, and its connection is free.                               *)
LEMMA FreshEffect ==
  ASSUME TypeOK, NEW c \in Conns, EmitDisconnected(c) \/ (Register(c) /\ ~running)
  PROVE  Moves(c, "free") /\ conn'[c] = Fresh
<1>1. conn \in [Conns -> Session]
  BY DEF TypeOK
<1>2. conn' = [conn EXCEPT ![c] = Fresh]
  BY DEF EmitDisconnected, Register
<1>3. Fresh.stage = "free"
  BY DEF Fresh
<1>4. QED
  BY <1>1, <1>2, <1>3, FreshType DEF Moves

(* A connection is accepted and takes a slot.                               *)
LEMMA AcceptEffect ==
  ASSUME TypeOK, NEW c \in Conns, NEW a \in Addresses, Accept(c, a)
  PROVE  /\ Moves(c, "accepted")
         /\ conn'[c] = [Fresh EXCEPT !.stage = "accepted", !.address = a, !.pending = TRUE]
<1> DEFINE r == [Fresh EXCEPT !.stage = "accepted", !.address = a, !.pending = TRUE]
<1>1. conn \in [Conns -> Session]
  BY DEF TypeOK
<1>2. conn' = [conn EXCEPT ![c] = r]
  BY DEF Accept
<1>3. r.stage = "accepted"
  BY DEF Fresh
<1>4. QED
  BY <1>1, <1>2, <1>3, FreshType DEF Moves

(* A cut connection keeps its type.                                         *)
LEMMA ClosedType ==
  ASSUME TypeOK, NEW cs
  PROVE  Closed(cs) \in [Conns -> Session]
<1>1. conn \in [Conns -> Session]
  BY DEF TypeOK
<1>2. \A c \in Conns : [conn[c] EXCEPT !.cut = TRUE] \in Session
  BY <1>1, RecordType, StageNames
<1>3. QED
  BY <1>1, <1>2 DEF Closed

(* What Close leaves of a connection: all but that it is cut.               *)
LEMMA ClosedFields ==
  ASSUME TypeOK, NEW cs, NEW c \in Conns
  PROVE  LET r == Closed(cs)[c]
         IN /\ r.stage = conn[c].stage /\ r.previous = conn[c].previous
            /\ r.address = conn[c].address /\ r.pending = conn[c].pending
            /\ r.device = conn[c].device /\ r.key = conn[c].key
            /\ r.pairDevice = conn[c].pairDevice /\ r.token = conn[c].token
            /\ r.cut = (conn[c].cut \/ c \in cs)
<1>1. conn[c] \in Session
  BY DEF TypeOK
<1>2. CASE c \in cs
  BY <1>1, <1>2 DEF Closed, Session
<1>3. CASE c \notin cs
  BY <1>1, <1>3 DEF Closed, Session
<1>4. QED
  BY <1>2, <1>3

OnlyCuts(cs) ==
  /\ conn' \in [Conns -> Session]
  /\ \A c \in Conns : /\ UNCHANGED conn[c].stage /\ UNCHANGED conn[c].previous
                      /\ SameSlot(c) /\ SameKey(c) /\ SamePair(c)
                      /\ conn'[c].cut = (conn[c].cut \/ c \in cs)

(* Closing sessions cuts them and changes nothing else.                     *)
LEMMA ClosedEffect ==
  ASSUME TypeOK, NEW cs, conn' = Closed(cs)
  PROVE  OnlyCuts(cs)
BY ClosedFields, ClosedType DEF OnlyCuts, SameSlot, SameKey, SamePair

(* The connection that was replaced is closed.                              *)
LEMMA ClosePreviousEffect ==
  ASSUME TypeOK, NEW c \in Conns, ClosePrevious(c)
  PROVE  /\ conn' \in [Conns -> Session]
         /\ conn'[c].stage = "announcing" /\ conn'[c].previous = None
         /\ \A x \in Conns : /\ SameSlot(x) /\ SameKey(x) /\ SamePair(x)
                             /\ x # c => UNCHANGED conn[x].stage /\ UNCHANGED conn[x].previous
                             /\ conn'[x].cut = (conn[x].cut \/ x = conn[c].previous)
<1> DEFINE old == Closed(Previous(c))
           r   == [old[c] EXCEPT !.stage = "announcing", !.previous = None]
<1>1. conn \in [Conns -> Session] /\ old \in [Conns -> Session]
  BY ClosedType DEF TypeOK
<1>2. r \in Session
  <2> HIDE DEF old
  <2>1. QED
    BY <1>1, RecordType, StageNames DEF Opened
<1>3. conn' = [old EXCEPT ![c] = r]
  BY <1>1 DEF ClosePrevious
<1>4. \A x \in Conns : /\ old[x].stage = conn[x].stage /\ old[x].previous = conn[x].previous
                       /\ old[x].address = conn[x].address /\ old[x].pending = conn[x].pending
                       /\ old[x].device = conn[x].device /\ old[x].key = conn[x].key
                       /\ old[x].pairDevice = conn[x].pairDevice /\ old[x].token = conn[x].token
                       /\ old[x].cut = (conn[x].cut \/ x = conn[c].previous)
  <2>1. \A x \in Conns : x \in Previous(c) <=> x = conn[c].previous
    BY DEF Previous
  <2>2. QED
    BY <2>1, ClosedFields
<1> HIDE DEF old
<1>5. \A x \in Conns : conn'[x] = IF x = c THEN r ELSE old[x]
  BY <1>1, <1>3
<1>6. /\ r.stage = "announcing" /\ r.previous = None
      /\ r.address = old[c].address /\ r.pending = old[c].pending /\ r.cut = old[c].cut
      /\ r.device = old[c].device /\ r.key = old[c].key
      /\ r.pairDevice = old[c].pairDevice /\ r.token = old[c].token
  BY <1>1 DEF Session
<1> HIDE DEF r
<1>7. conn' \in [Conns -> Session]
  BY <1>1, <1>2, <1>3
<1>8. QED
  BY <1>4, <1>5, <1>6, <1>7 DEF SameSlot, SameKey, SamePair


(* A slot that is held can be given back.                                   *)
LEMMA HeldSlot ==
  ASSUME TypeOK, Places, SlotAccounting, NEW c \in Conns, conn[c].pending
  PROVE  /\ pendingHandshakes >= 1
         /\ conn[c].address \in Addresses
         /\ pendingByAddress[conn[c].address] >= 1
<1> DEFINE held(S) == {x \in Conns : conn[x].pending /\ conn[x].address \in S}
           a == conn[c].address
<1>1. a \in Addresses
  BY DEF Places, Placed
<1>2. \A S : a \in S => c \in held(S)
  OBVIOUS
<1>3. \A S : IsFiniteSet(held(S))
  BY FS_Subset, ConstantsAssumption
<1>4. \A S : a \in S => Cardinality(held(S)) \in Nat /\ Cardinality(held(S)) # 0
  BY <1>2, <1>3, FS_EmptySet, FS_CardinalityType
<1>5. pendingHandshakes = Cardinality(held(Addresses))
  BY DEF SlotAccounting
<1>6. pendingByAddress[a] = Cardinality(held({a}))
  BY <1>1 DEF SlotAccounting
<1> HIDE DEF held
<1>7. QED
  BY <1>1, <1>4, <1>5, <1>6

(* A released slot leaves counters that are counters.                       *)
LEMMA ReleaseType ==
  ASSUME TypeOK, Places, SlotAccounting, NEW c \in Conns, ReleaseSlot(c)
  PROVE  pendingHandshakes' \in Nat /\ pendingByAddress' \in [Addresses -> Nat]
<1>1. pendingHandshakes \in Nat /\ pendingByAddress \in [Addresses -> Nat]
  BY DEF TypeOK
<1>2. CASE conn[c].pending
  BY <1>1, <1>2, HeldSlot DEF ReleaseSlot
<1>3. CASE ~conn[c].pending
  BY <1>1, <1>3 DEF ReleaseSlot, slots
<1>4. QED
  BY <1>2, <1>3

(* Every step leaves connections of the type of connections.                *)
LEMMA ConnType ==
  ASSUME TypeOK, [Next]_vars
  PROVE  conn' \in [Conns -> Session]
<1>1. conn \in [Conns -> Session]
  BY DEF TypeOK
<1>2. ASSUME NEW c \in Conns, ThreadStep(c)
      PROVE  conn' \in [Conns -> Session]
  <2>1. CASE Register(c)
    BY <2>1, RegisterEffect, FreshEffect DEF Moves
  <2>2. CASE ConsumeToken(c)
    BY <2>2, ConsumeEffect, RejectedEffect DEF ConsumeToken, Moves
  <2>3. CASE BeginSave(c)
    BY <2>3, PairSaveEffect, NameSaveEffect DEF BeginSave, At, Moves
  <2>4. CASE Rollback(c)
    BY <2>4, RollbackEffect DEF Moves
  <2>5. CASE \E written \in BOOLEAN : EndSave(c, written)
    BY <2>5, PairSavedEffect, NameSavedEffect DEF EndSave, At, Moves
  <2>6. CASE \E sent \in BOOLEAN : Confirm(c, sent)
    BY <2>6, ConfirmEffect DEF Moves
  <2>7. CASE ClosePrevious(c) \/ EmitConnected(c) \/ End(c) \/ EmitDisconnected(c)
    BY <2>7, ClosePreviousEffect, OpenEffect, EndEffect, FreshEffect DEF Moves
  <2>8. QED
    BY <1>2, <2>1, <2>2, <2>3, <2>4, <2>5, <2>6, <2>7 DEF ThreadStep
<1>3. ASSUME NEW c \in Conns, PeerStep(c)
      PROVE  conn' \in [Conns -> Session]
  BY <1>3, AcceptEffect, PairRequestEffect, HelloEffect, TakeOverEffect, RefusedEffect,
     RenameEffect, RejectedEffect, LeaveEffect DEF PeerStep, Reject, Moves
<1>4. CASE \E d \in Devices : Forget(d)
  BY <1>4, ClosedType DEF Forget
<1>5. CASE CloseSessions
  BY <1>5, ClosedType DEF CloseSessions
<1>6. CASE Crash
  BY <1>6, FreshType DEF Crash
<1>7. CASE BeginForgetSave \/ (\E written \in BOOLEAN : EndForgetSave(written)) \/ JoinWorkers
           \/ CreatePairingUri \/ InviteExpires \/ BeginStop \/ Start \/ UNCHANGED vars
  BY <1>1, <1>7 DEF BeginForgetSave, EndForgetSave, JoinWorkers, CreatePairingUri, InviteExpires,
     BeginStop, Start, vars
<1>8. QED
  BY <1>2, <1>3, <1>4, <1>5, <1>6, <1>7 DEF Next, UiStep

(* No step breaks the types.                                                *)
LEMMA TypeStep ==
  ASSUME TypeOK, Places, SlotAccounting, Tokens, [Next]_vars
  PROVE  TypeOK'
<1>1. conn' \in [Conns -> Session]
  BY ConnType
<1>2. ASSUME NEW c \in Conns, ReleaseSlot(c)
      PROVE  pendingHandshakes' \in Nat /\ pendingByAddress' \in [Addresses -> Nat]
  BY <1>2, ReleaseType
<1> USE <1>1 DEF TypeOK, token, slots, history
<1>3. ASSUME NEW c \in Conns, ThreadStep(c)
      PROVE  TypeOK'
  <2>1. CASE Register(c)
    BY <1>2, <2>1 DEF Register
  <2>2. CASE ConsumeToken(c)
    <3>1. conn[c].token \in Keys /\ conn[c].pairDevice \in Devices
      BY <2>2 DEF ConsumeToken, Tokens, At
    <3>2. CASE StillShown(c)
      <4>1. devices' \in [Devices -> Keys \cup {0}] /\ uses' \in [Keys -> Nat]
        BY <2>2, <3>1, <3>2 DEF ConsumeToken
      <4>2. replaced' \in SUBSET Keys
        BY <2>2, <3>1, <3>2 DEF ConsumeToken
      <4>3. QED
        BY <2>2, <3>2, <4>1, <4>2 DEF ConsumeToken
    <3>3. CASE ~StillShown(c)
      BY <1>2, <2>2, <3>3 DEF ConsumeToken, Rejected
    <3>4. QED
      BY <3>2, <3>3
  <2>3. CASE BeginSave(c)
    BY <2>3 DEF BeginSave, TakeSnapshot
  <2>4. CASE Rollback(c)
    BY <1>2, <2>4 DEF Rollback, slots
  <2>5. ASSUME NEW written \in BOOLEAN, EndSave(c, written)
        PROVE  TypeOK'
    BY <2>5 DEF EndSave, WriteState, NoDevices, Savers
  <2>6. ASSUME NEW sent \in BOOLEAN, Confirm(c, sent)
        PROVE  TypeOK'
    <3>1. conn[c].token \in Keys
      BY <2>6 DEF Confirm, Tokens, Consumed, At
    <3>2. QED
      BY <2>6, <3>1 DEF Confirm
  <2>7. CASE ClosePrevious(c) \/ EmitConnected(c) \/ EmitDisconnected(c)
    BY <2>7 DEF ClosePrevious, EmitConnected, EmitDisconnected
  <2>8. CASE End(c)
    BY <1>2, <2>8 DEF End, ActiveAfter
  <2>9. QED
    BY <1>3, <2>1, <2>2, <2>3, <2>4, <2>5, <2>6, <2>7, <2>8 DEF ThreadStep
<1>4. ASSUME NEW c \in Conns, PeerStep(c)
      PROVE  TypeOK'
  <2>1. ASSUME NEW a \in Addresses, Accept(c, a)
        PROVE  TypeOK'
    BY <2>1 DEF Accept
  <2>2. CASE Authenticate(c)
    BY <1>2, <2>2 DEF Authenticate
  <2>3. CASE Reject(c)
    BY <1>2, <2>3 DEF Reject, Rejected
  <2>4. CASE Rename(c) \/ Leave(c)
    BY <2>4 DEF Rename, Leave
  <2>5. ASSUME NEW d \in Devices, PairRequest(c, d) \/ Hello(c, d)
        PROVE  TypeOK'
    BY <2>5 DEF PairRequest, Hello
  <2>6. QED
    BY <1>4, <2>1, <2>2, <2>3, <2>4, <2>5 DEF PeerStep
<1>5. CASE BeginForgetSave \/ CloseSessions \/ JoinWorkers
  BY <1>5 DEF BeginForgetSave, CloseSessions, JoinWorkers, TakeSnapshot
<1>6. ASSUME NEW written \in BOOLEAN, EndForgetSave(written)
      PROVE  TypeOK'
  BY <1>6 DEF EndForgetSave, WriteState, NoDevices, Savers
<1>7. CASE CreatePairingUri
  BY <1>7, ConstantsAssumption DEF CreatePairingUri, Keys
<1>8. CASE InviteExpires \/ BeginStop \/ UNCHANGED vars
  BY <1>8 DEF InviteExpires, BeginStop, vars
<1>9. ASSUME NEW d \in Devices, Forget(d)
      PROVE  TypeOK'
  BY <1>9 DEF Forget
<1>10. CASE Start
  BY <1>10, ConstantsAssumption DEF Start
<1>11. CASE Crash
  BY <1>11 DEF Crash, NoDevices
<1>12. QED
  BY <1>3, <1>4, <1>5, <1>6, <1>7, <1>8, <1>9, <1>10, <1>11 DEF Next, UiStep

-----------------------------------------------------------------------------
(* The steps keep the invariant, one part of it after the other.            *)
LEMMA PlacesStep ==
  ASSUME TypeOK, Places, Tokens, [Next]_vars
  PROVE  Places'
<1>1. conn \in [Conns -> Session] /\ active \in Conns \cup {None}
  BY DEF TypeOK
<1> USE <1>1, ConstantsAssumption
    DEF Places, Placed, At, Stopped, Moves, SameSlot, SameKey, SamePair, SameLink
<1>2. ASSUME NEW c \in Conns, ThreadStep(c)
      PROVE  Places'
  <2>1. CASE Register(c)
    BY <2>1, RegisterEffect, FreshEffect DEF Register, Fresh
  <2>2. CASE ConsumeToken(c)
    <3>1. At(c, "deriving") /\ UNCHANGED <<running, ui>>
      BY <2>2 DEF ConsumeToken
    <3>2. CASE StillShown(c)
      BY <2>2, <3>1, <3>2, ConsumeEffect
    <3>3. CASE ~StillShown(c)
      <4>1. Rejected(c)
        BY <2>2, <3>3 DEF ConsumeToken
      <4>2. QED
        BY <3>1, <4>1, RejectedEffect
    <3>4. QED
      BY <3>2, <3>3
  <2>3. CASE BeginSave(c)
    BY <2>3, PairSaveEffect, NameSaveEffect DEF BeginSave
  <2>4. CASE Rollback(c)
    BY <2>4, RollbackEffect DEF Rollback
  <2>5. ASSUME NEW written \in BOOLEAN, EndSave(c, written)
        PROVE  Places'
    BY <2>5, PairSavedEffect, NameSavedEffect DEF EndSave
  <2>6. ASSUME NEW sent \in BOOLEAN, Confirm(c, sent)
        PROVE  Places'
    <3>1. At(c, "confirming") /\ UNCHANGED <<running, ui>>
      BY <2>6 DEF Confirm
    <3>2. QED
      BY <2>6, <3>1, ConfirmEffect
  <2>7. CASE ClosePrevious(c)
    <3>1. At(c, "replacing") /\ UNCHANGED <<running, ui>>
      BY <2>7 DEF ClosePrevious
    <3>2. QED
      BY <2>7, <3>1, ClosePreviousEffect
  <2>8. CASE EmitConnected(c)
    BY <2>8, OpenEffect DEF EmitConnected
  <2>9. CASE End(c)
    <3>1. At(c, "ending") /\ UNCHANGED <<running, ui>>
      BY <2>9 DEF End
    <3>2. QED
      BY <2>9, <3>1, EndEffect
  <2>10. CASE EmitDisconnected(c)
    BY <2>10, FreshEffect DEF EmitDisconnected, Fresh
  <2>11. QED
    BY <1>2, <2>1, <2>2, <2>3, <2>4, <2>5, <2>6, <2>7, <2>8, <2>9, <2>10 DEF ThreadStep
<1>3. ASSUME NEW c \in Conns, PeerStep(c)
      PROVE  Places'
  <2>1. ASSUME NEW a \in Addresses, Accept(c, a)
        PROVE  Places'
    BY <2>1, AcceptEffect DEF Accept, Fresh
  <2>2. ASSUME NEW d \in Devices, PairRequest(c, d)
        PROVE  Places'
    <3>1. At(c, "hello") /\ UNCHANGED <<running, ui>>
      BY <2>2 DEF PairRequest
    <3>2. QED
      BY <2>2, <3>1, PairRequestEffect
  <2>3. ASSUME NEW d \in Devices, Hello(c, d)
        PROVE  Places'
    <3>1. At(c, "hello") /\ UNCHANGED <<running, ui>>
      BY <2>3 DEF Hello
    <3>2. QED
      BY <2>3, <3>1, HelloEffect
  <2>4. CASE Authenticate(c)
    <3>1. At(c, "auth") /\ UNCHANGED <<running, ui>>
      BY <2>4 DEF Authenticate
    <3>2. CASE running /\ Paired(c)
      BY <2>4, <3>1, <3>2, TakeOverEffect
    <3>3. CASE ~(running /\ Paired(c))
      BY <2>4, <3>1, <3>3, RefusedEffect
    <3>4. QED
      BY <3>2, <3>3
  <2>5. CASE Rename(c)
    BY <2>5, RenameEffect DEF Rename
  <2>6. CASE Reject(c)
    BY <2>6, RejectedEffect DEF Reject, Handshake
  <2>7. CASE Leave(c)
    BY <2>7, LeaveEffect DEF Leave, Handshake
  <2>8. QED
    BY <1>3, <2>1, <2>2, <2>3, <2>4, <2>5, <2>6, <2>7 DEF PeerStep
<1>4. CASE BeginForgetSave \/ \E written \in BOOLEAN : EndForgetSave(written)
  BY <1>4 DEF BeginForgetSave, EndForgetSave
<1>5. CASE CloseSessions
  BY <1>5, ClosedEffect DEF CloseSessions, OnlyCuts
<1>6. CASE JoinWorkers
  BY <1>6 DEF JoinWorkers
<1>7. CASE CreatePairingUri \/ InviteExpires \/ BeginStop \/ Start \/ UNCHANGED vars
  BY <1>7 DEF CreatePairingUri, InviteExpires, BeginStop, Start, vars
<1>8. ASSUME NEW d \in Devices, Forget(d)
      PROVE  Places'
  BY <1>8, ClosedEffect DEF Forget, OnlyCuts
<1>9. CASE Crash
  BY <1>9 DEF Crash, Fresh
<1>10. QED
  BY <1>2, <1>3, <1>4, <1>5, <1>6, <1>7, <1>8, <1>9 DEF Next, UiStep

(* A step that consumes nothing and tells no phone anything.                *)
tokenVars == <<invite, inviteLive, invites, uses, confirmed, replaced, forgotten, erased>>

(* Tokens stay as they were told when no connection takes or leaves one.    *)
LEMMA TokensKept ==
  ASSUME TypeOK, Tokens, UNCHANGED tokenVars,
         \A x \in Conns :
           /\ conn'[x].stage \in Consumed => conn[x].stage \in Consumed /\ SamePair(x)
           /\ conn'[x].stage = "deriving" =>
                conn'[x].token \in Keys /\ conn'[x].pairDevice \in Devices
  PROVE  Tokens'
<1>1. \A x \in Conns : conn'[x].stage \in {"deriving"} \cup Consumed =>
        conn'[x].token \in Keys /\ conn'[x].pairDevice \in Devices
  BY DEF Tokens, SamePair
<1>2. \A x \in Conns : conn'[x].stage \in Consumed => uses'[conn'[x].token] = 1
  BY DEF Tokens, SamePair, tokenVars
<1>3. \A x, y \in Conns : /\ conn'[x].stage \in Consumed /\ conn'[y].stage \in Consumed
                          /\ conn'[x].token = conn'[y].token
                          => x = y
  BY DEF Tokens, SamePair
<1>4. QED
  BY <1>1, <1>2, <1>3 DEF Tokens, tokenVars

(* A token is consumed once, by the step that counts its use.               *)
LEMMA TokensStep ==
  ASSUME TypeOK, Places, Tokens, SingleUse, OneOwner, [Next]_vars
  PROVE  Tokens' /\ SingleUse'
<1>1. conn \in [Conns -> Session]
  BY DEF TypeOK
<1>2. ASSUME UNCHANGED uses
      PROVE  SingleUse'
  BY <1>2 DEF SingleUse
<1>3. \A x \in Conns : conn[x].stage = "deriving" =>
        conn[x].token \in Keys /\ conn[x].pairDevice \in Devices
  BY DEF Tokens
<1>4. \A d \in Devices : devices[d] # 0 => devices[d] \in Keys /\ uses[devices[d]] = 1
  BY DEF OneOwner, Holds, TypeOK
<1>5. {confirmed, replaced, forgotten, erased} \subseteq SUBSET Keys /\ uses \in [Keys -> Nat]
  BY DEF TypeOK
<1> USE DEF At, Moves, SamePair, Consumed
<1>6. ASSUME NEW c \in Conns, ThreadStep(c)
      PROVE  Tokens' /\ SingleUse'
  <2>1. CASE Register(c)
    <3>1. At(c, "accepted") /\ UNCHANGED tokenVars
      BY <2>1 DEF Register, token, history, tokenVars
    <3>2. CASE running
      BY <1>2, <1>3, <2>1, <3>1, <3>2, RegisterEffect, TokensKept DEF tokenVars
    <3>3. CASE ~running
      BY <1>2, <1>3, <2>1, <3>1, <3>3, FreshEffect, TokensKept DEF tokenVars
    <3>4. QED
      BY <3>2, <3>3
  <2>2. CASE ConsumeToken(c)
    <3>1. At(c, "deriving") /\ UNCHANGED <<invites, confirmed, forgotten, erased>>
      BY <2>2 DEF ConsumeToken
    <3>2. CASE StillShown(c)
      <4> DEFINE d == conn[c].pairDevice
                 k == conn[c].token
      <4>1. d \in Devices /\ k \in Keys /\ k # 0
        BY <1>3, <3>1 DEF Keys
      <4>2. /\ invite' = 0 /\ inviteLive' = FALSE
            /\ uses' = [uses EXCEPT ![k] = @ + 1]
            /\ replaced' = replaced \cup ({devices[d]} \ {0})
        BY <2>2, <3>2 DEF ConsumeToken
      <4>3. uses[k] = 0 /\ k <= invites
        BY <3>2, <4>1 DEF StillShown, Tokens
      <4>4. /\ conn'[c].stage = "pairSave" /\ conn'[c].token = k /\ conn'[c].pairDevice = d
            /\ \A x \in Conns \ {c} : conn'[x] = conn[x]
        BY <2>2, <3>2, ConsumeEffect
      <4> HIDE DEF d, k
      <4>5. \A x \in Conns : conn[x].stage \in Consumed => conn[x].token # k
        BY <4>3 DEF Tokens
      <4>6. uses'[k] = 1 /\ \A j \in Keys : j # k => uses'[j] = uses[j]
        BY <1>5, <4>1, <4>2, <4>3
      <4>7. SingleUse'
        BY <4>6 DEF SingleUse
      <4>8. confirmed' \cup forgotten' \cup replaced' \cup erased' \subseteq
              {j \in Keys : uses'[j] = 1}
        BY <1>4, <1>5, <3>1, <4>1, <4>2, <4>3, <4>6 DEF Tokens
      <4>9. \A j \in Keys : j > invites' => uses'[j] = 0
        BY <3>1, <4>3, <4>6, ConstantsAssumption DEF Tokens, Keys, TypeOK
      <4>10. \A x \in Conns : conn'[x].stage \in {"deriving"} \cup Consumed =>
               conn'[x].token \in Keys /\ conn'[x].pairDevice \in Devices
        BY <4>1, <4>4 DEF Tokens
      <4>11. \A x \in Conns : conn'[x].stage \in Consumed => uses'[conn'[x].token] = 1
        BY <4>4, <4>5, <4>6 DEF Tokens
      <4>12. \A x, y \in Conns : /\ conn'[x].stage \in Consumed /\ conn'[y].stage \in Consumed
                                 /\ conn'[x].token = conn'[y].token
                                 => x = y
        BY <4>4, <4>5 DEF Tokens
      <4>13. invite' <= invites'
        BY <3>1, <4>2 DEF TypeOK, Keys
      <4>14. QED
        BY <4>2, <4>7, <4>8, <4>9, <4>10, <4>11, <4>12, <4>13 DEF Tokens
    <3>3. CASE ~StillShown(c)
      <4>1. Rejected(c) /\ UNCHANGED tokenVars
        BY <2>2, <3>3 DEF ConsumeToken, tokenVars, token
      <4>2. QED
        BY <1>2, <1>3, <4>1, RejectedEffect, TokensKept DEF tokenVars
    <3>4. QED
      BY <3>2, <3>3
  <2>3. CASE BeginSave(c)
    <3>1. UNCHANGED tokenVars
      BY <2>3 DEF BeginSave, token, history, tokenVars
    <3>2. CASE At(c, "pairSave")
      BY <1>2, <1>3, <2>3, <3>1, <3>2, PairSaveEffect, TokensKept DEF tokenVars
    <3>3. CASE At(c, "nameSave")
      BY <1>2, <1>3, <2>3, <3>1, <3>3, NameSaveEffect, TokensKept DEF tokenVars
    <3>4. QED
      BY <2>3, <3>2, <3>3 DEF BeginSave
  <2>4. CASE Rollback(c)
    <3>1. UNCHANGED tokenVars
      BY <2>4 DEF Rollback, token, history, tokenVars
    <3>2. QED
      BY <1>2, <1>3, <2>4, <3>1, RollbackEffect, TokensKept DEF tokenVars
  <2>5. ASSUME NEW written \in BOOLEAN, EndSave(c, written)
        PROVE  Tokens' /\ SingleUse'
    <3>1. UNCHANGED tokenVars
      BY <2>5 DEF EndSave, token, history, tokenVars
    <3>2. CASE At(c, "pairSaving")
      BY <1>2, <1>3, <2>5, <3>1, <3>2, PairSavedEffect, TokensKept DEF tokenVars
    <3>3. CASE At(c, "nameSaving")
      BY <1>2, <1>3, <2>5, <3>1, <3>3, NameSavedEffect, TokensKept DEF tokenVars
    <3>4. QED
      BY <2>5, <3>2, <3>3 DEF EndSave
  <2>6. ASSUME NEW sent \in BOOLEAN, Confirm(c, sent)
        PROVE  Tokens' /\ SingleUse'
    <3>1. /\ At(c, "confirming") /\ confirmed' \subseteq confirmed \cup {conn[c].token}
          /\ UNCHANGED <<invite, inviteLive, invites, uses, replaced, forgotten, erased>>
      BY <2>6 DEF Confirm, token
    <3>2. conn[c].token \in Keys /\ uses[conn[c].token] = 1
      BY <3>1 DEF Tokens
    <3>3. confirmed' \cup forgotten' \cup replaced' \cup erased' \subseteq
              {j \in Keys : uses'[j] = 1}
      BY <3>1, <3>2 DEF Tokens
    <3>4. \A x \in Conns : conn'[x].stage \in {"deriving"} \cup Consumed => conn'[x] = conn[x]
      BY <2>6, ConfirmEffect
    <3>5. \A x \in Conns : conn'[x].stage \in {"deriving"} \cup Consumed =>
            conn'[x].token \in Keys /\ conn'[x].pairDevice \in Devices
      BY <3>4 DEF Tokens
    <3>6. \A x \in Conns : conn'[x].stage \in Consumed => uses'[conn'[x].token] = 1
      BY <3>1, <3>4 DEF Tokens
    <3>7. \A x, y \in Conns : /\ conn'[x].stage \in Consumed /\ conn'[y].stage \in Consumed
                              /\ conn'[x].token = conn'[y].token
                              => x = y
      BY <3>4 DEF Tokens
    <3>8. QED
      BY <1>2, <3>1, <3>3, <3>5, <3>6, <3>7 DEF Tokens
  <2>7. CASE ClosePrevious(c)
    <3>1. UNCHANGED tokenVars
      BY <2>7 DEF ClosePrevious, token, history, tokenVars
    <3>2. QED
      BY <1>2, <1>3, <2>7, <3>1, ClosePreviousEffect, TokensKept DEF tokenVars
  <2>8. CASE EmitConnected(c)
    <3>1. UNCHANGED tokenVars
      BY <2>8 DEF EmitConnected, token, history, tokenVars
    <3>2. QED
      BY <1>2, <1>3, <2>8, <3>1, OpenEffect, TokensKept DEF tokenVars
  <2>9. CASE End(c)
    <3>1. UNCHANGED tokenVars
      BY <2>9 DEF End, token, history, tokenVars
    <3>2. QED
      BY <1>2, <1>3, <2>9, <3>1, EndEffect, TokensKept DEF tokenVars
  <2>10. CASE EmitDisconnected(c)
    <3>1. UNCHANGED tokenVars
      BY <2>10 DEF EmitDisconnected, token, history, tokenVars
    <3>2. QED
      BY <1>2, <1>3, <2>10, <3>1, FreshEffect, TokensKept DEF tokenVars
  <2>11. QED
    BY <1>6, <2>1, <2>2, <2>3, <2>4, <2>5, <2>6, <2>7, <2>8, <2>9, <2>10 DEF ThreadStep
<1>7. ASSUME NEW c \in Conns, PeerStep(c)
      PROVE  Tokens' /\ SingleUse'
  <2>1. ASSUME NEW a \in Addresses, Accept(c, a)
        PROVE  Tokens' /\ SingleUse'
    <3>1. UNCHANGED tokenVars
      BY <2>1 DEF Accept, token, history, tokenVars
    <3>2. QED
      BY <1>2, <1>3, <2>1, <3>1, AcceptEffect, TokensKept DEF tokenVars
  <2>2. ASSUME NEW d \in Devices, PairRequest(c, d)
        PROVE  Tokens' /\ SingleUse'
    <3>1. UNCHANGED tokenVars /\ invite \in Keys
      BY <2>2 DEF PairRequest, token, history, tokenVars, TypeOK
    <3>2. QED
      BY <1>2, <1>3, <2>2, <3>1, PairRequestEffect, TokensKept DEF tokenVars
  <2>3. ASSUME NEW d \in Devices, Hello(c, d)
        PROVE  Tokens' /\ SingleUse'
    <3>1. UNCHANGED tokenVars
      BY <2>3 DEF Hello, token, history, tokenVars
    <3>2. QED
      BY <1>2, <1>3, <2>3, <3>1, HelloEffect, TokensKept DEF tokenVars
  <2>4. CASE Authenticate(c)
    <3>1. UNCHANGED tokenVars
      BY <2>4 DEF Authenticate, token, history, tokenVars
    <3>2. QED
      BY <1>2, <1>3, <2>4, <3>1, TakeOverEffect, RefusedEffect, TokensKept DEF tokenVars
  <2>5. CASE Rename(c)
    <3>1. UNCHANGED tokenVars
      BY <2>5 DEF Rename, token, history, tokenVars
    <3>2. QED
      BY <1>2, <1>3, <2>5, <3>1, RenameEffect, TokensKept DEF tokenVars
  <2>6. CASE Reject(c)
    <3>1. UNCHANGED tokenVars /\ Rejected(c)
      BY <2>6 DEF Reject, token, history, tokenVars
    <3>2. QED
      BY <1>2, <1>3, <3>1, RejectedEffect, TokensKept DEF tokenVars
  <2>7. CASE Leave(c)
    <3>1. UNCHANGED tokenVars
      BY <2>7 DEF Leave, token, history, tokenVars
    <3>2. QED
      BY <1>2, <1>3, <2>7, <3>1, LeaveEffect, TokensKept DEF tokenVars
  <2>8. QED
    BY <1>7, <2>1, <2>2, <2>3, <2>4, <2>5, <2>6, <2>7 DEF PeerStep
<1>8. CASE BeginForgetSave \/ JoinWorkers \/ InviteExpires \/ BeginStop \/ UNCHANGED vars
  <2>1. /\ UNCHANGED <<conn, uses, invites, confirmed, replaced, forgotten, erased>>
        /\ \/ invite' = 0 /\ inviteLive' = FALSE
           \/ invite' = invite /\ (inviteLive' => inviteLive)
    BY <1>8 DEF BeginForgetSave, JoinWorkers, InviteExpires, BeginStop, vars, token, history
  <2>2. invite' <= invites'
    BY <2>1 DEF Tokens, TypeOK, Keys
  <2>3. QED
    BY <1>2, <2>1, <2>2 DEF Tokens
<1>9. ASSUME NEW written \in BOOLEAN, EndForgetSave(written)
      PROVE  Tokens' /\ SingleUse'
  <2>1. /\ UNCHANGED <<conn, invite, inviteLive, uses, invites, confirmed, replaced, forgotten>>
        /\ erased' \subseteq erased \cup forgotten
    BY <1>9 DEF EndForgetSave, token
  <2>2. QED
    BY <1>2, <2>1 DEF Tokens
<1>10. CASE CloseSessions \/ \E d \in Devices : Forget(d)
  <2>1. PICK cs : conn' = Closed(cs)
    BY <1>10 DEF CloseSessions, Forget
  <2>2. /\ UNCHANGED <<invite, inviteLive, uses, invites, confirmed, replaced, erased>>
        /\ \/ UNCHANGED forgotten
           \/ \E d \in Devices : forgotten' \subseteq forgotten \cup ({devices[d]} \ {0})
    BY <1>10 DEF CloseSessions, Forget, token, history
  <2>3. \A x \in Conns : UNCHANGED conn[x].stage /\ SamePair(x)
    BY <2>1, ClosedEffect DEF OnlyCuts
  <2>4. confirmed' \cup forgotten' \cup replaced' \cup erased' \subseteq
              {j \in Keys : uses'[j] = 1}
    BY <1>4, <1>5, <2>2 DEF Tokens
  <2>5. QED
    BY <1>2, <2>2, <2>3, <2>4 DEF Tokens
<1>11. CASE CreatePairingUri
  <2>1. /\ invites' = invites + 1 /\ invite' = invites + 1 /\ invites < MaxInvites
        /\ UNCHANGED <<conn, uses, confirmed, replaced, forgotten, erased>>
    BY <1>11 DEF CreatePairingUri
  <2>2. invites \in Nat /\ invites + 1 \in Keys
    BY <2>1, ConstantsAssumption DEF TypeOK, Keys
  <2>3. uses[invites + 1] = 0
    BY <2>2 DEF Tokens
  <2>4. \A k \in Keys : k > invites' => uses'[k] = 0
    BY <2>1, <2>2 DEF Tokens, Keys
  <2>5. invite' # 0 /\ invite' <= invites'
    BY <2>1, <2>2
  <2>6. QED
    BY <1>2, <2>1, <2>3, <2>4, <2>5 DEF Tokens
<1>12. CASE Start
  <2>1. /\ UNCHANGED <<conn, invite, inviteLive, uses, invites, confirmed, erased>>
        /\ replaced' \subseteq replaced /\ forgotten' \subseteq forgotten
    BY <1>12 DEF Start, token
  <2>2. QED
    BY <1>2, <2>1 DEF Tokens
<1>13. CASE Crash
  <2>1. /\ invite' = 0 /\ inviteLive' = FALSE
        /\ UNCHANGED <<uses, invites, confirmed, replaced, forgotten, erased>>
        /\ \A x \in Conns : conn'[x].stage = "free"
    BY <1>13 DEF Crash, history, Fresh
  <2>2. invite' <= invites'
    BY <2>1 DEF TypeOK, Keys
  <2>3. QED
    BY <1>2, <2>1, <2>2 DEF Tokens
<1>14. QED
  BY <1>6, <1>7, <1>8, <1>9, <1>10, <1>11, <1>12, <1>13 DEF Next, UiStep

-----------------------------------------------------------------------------
(* The steps that neither change the pairings nor take part in a save; a    *)
(* session may take over a key from the table.                              *)
FileStages == {"pairSave", "pairSaving", "pairFailed", "confirming", "nameSaving"}

pairings == <<devices, saved, snapshot, uses, confirmed, replaced, forgotten, erased>>

SavingStays == /\ ui' = "saving" <=> ui = "saving"
               /\ ui = "stopped" => ui' = "stopped"

KeyFromTable(x) ==
  \/ SameKey(x)
  \/ conn'[x].key = 0
  \/ conn'[x].device \in Devices /\ conn'[x].key = devices[conn'[x].device]

Quiet ==
  /\ UNCHANGED pairings /\ SavingStays
  /\ \A x \in Conns :
       /\ conn'[x].stage \in FileStages \/ conn[x].stage \in FileStages =>
            UNCHANGED conn[x].stage /\ SamePair(x)
       /\ KeyFromTable(x)

Loud ==
  \/ \E c \in Conns : \/ ConsumeToken(c) /\ StillShown(c)
                      \/ BeginSave(c) \/ Rollback(c)
                      \/ \E written \in BOOLEAN : EndSave(c, written)
                      \/ \E sent \in BOOLEAN : Confirm(c, sent)
  \/ \E d \in Devices : Forget(d)
  \/ BeginForgetSave \/ \E written \in BOOLEAN : EndForgetSave(written)
  \/ Start \/ Crash

(* The steps that touch neither the tables nor a key.                       *)
LEMMA QuietSteps ==
  ASSUME TypeOK, [Next]_vars
  PROVE  Quiet \/ Loud
<1> USE DEF At, Moves, SameKey, SamePair, FileStages, KeyFromTable
<1>1. \A x \in Conns : SameKey(x) => KeyFromTable(x)
  OBVIOUS
<1>2. ASSUME UNCHANGED pairings, UNCHANGED ui
      PROVE  UNCHANGED pairings /\ SavingStays
  BY <1>2 DEF SavingStays
<1> DEFINE Silent == UNCHANGED pairings /\ UNCHANGED ui
<1>3. ASSUME NEW c \in Conns, ThreadStep(c)
      PROVE  Quiet \/ Loud
  <2>1. CASE Register(c)
    <3>1. Silent /\ At(c, "accepted")
      BY <2>1 DEF Register, history, pairings
    <3>2. CASE running
      BY <1>2, <2>1, <3>1, <3>2, RegisterEffect DEF Quiet
    <3>3. CASE ~running
      BY <1>2, <2>1, <3>1, <3>3, FreshEffect DEF Quiet, Fresh
    <3>4. QED
      BY <3>2, <3>3
  <2>2. CASE ConsumeToken(c) /\ ~StillShown(c)
    <3>1. Silent /\ At(c, "deriving") /\ Rejected(c)
      BY <2>2 DEF ConsumeToken, pairings
    <3>2. QED
      BY <1>2, <3>1, RejectedEffect DEF Quiet
  <2>3. CASE ClosePrevious(c)
    <3>1. Silent /\ At(c, "replacing")
      BY <2>3 DEF ClosePrevious, history, pairings
    <3>2. QED
      BY <1>2, <2>3, <3>1, ClosePreviousEffect DEF Quiet
  <2>4. CASE EmitConnected(c)
    <3>1. Silent /\ At(c, "announcing")
      BY <2>4 DEF EmitConnected, history, pairings
    <3>2. QED
      BY <1>2, <2>4, <3>1, OpenEffect DEF Quiet
  <2>5. CASE End(c)
    <3>1. Silent /\ At(c, "ending")
      BY <2>5 DEF End, history, pairings
    <3>2. QED
      BY <1>2, <2>5, <3>1, EndEffect DEF Quiet
  <2>6. CASE EmitDisconnected(c)
    <3>1. Silent /\ At(c, "leaving")
      BY <2>6 DEF EmitDisconnected, history, pairings
    <3>2. QED
      BY <1>2, <2>6, <3>1, FreshEffect DEF Quiet, Fresh
  <2>7. QED
    BY <1>3, <2>1, <2>2, <2>3, <2>4, <2>5, <2>6 DEF ThreadStep, Loud
<1>4. ASSUME NEW c \in Conns, PeerStep(c)
      PROVE  Quiet \/ Loud
  <2>1. ASSUME NEW a \in Addresses, Accept(c, a)
        PROVE  Quiet
    <3>1. Silent /\ At(c, "free")
      BY <2>1 DEF Accept, history, pairings
    <3>2. [Fresh EXCEPT !.stage = "accepted", !.address = a, !.pending = TRUE].key = 0
      BY DEF Fresh
    <3>3. QED
      BY <1>2, <2>1, <3>1, <3>2, AcceptEffect DEF Quiet
  <2>2. ASSUME NEW d \in Devices, PairRequest(c, d)
        PROVE  Quiet
    <3>1. Silent /\ At(c, "hello")
      BY <2>2 DEF PairRequest, history, pairings
    <3>2. QED
      BY <1>2, <2>2, <3>1, PairRequestEffect DEF Quiet
  <2>3. ASSUME NEW d \in Devices, Hello(c, d)
        PROVE  Quiet
    <3>1. Silent /\ At(c, "hello")
      BY <2>3 DEF Hello, history, pairings
    <3>2. QED
      BY <1>2, <2>3, <3>1, HelloEffect DEF Quiet
  <2>4. CASE Authenticate(c)
    <3>1. Silent /\ At(c, "auth")
      BY <2>4 DEF Authenticate, history, pairings
    <3>2. QED
      BY <1>2, <2>4, <3>1, TakeOverEffect, RefusedEffect DEF Quiet
  <2>5. CASE Rename(c)
    <3>1. Silent /\ At(c, "open")
      BY <2>5 DEF Rename, history, pairings
    <3>2. QED
      BY <1>2, <2>5, <3>1, RenameEffect DEF Quiet
  <2>6. CASE Reject(c)
    <3>1. Silent /\ conn[c].stage \in Handshake /\ Rejected(c)
      BY <2>6 DEF Reject, history, pairings
    <3>2. QED
      BY <1>2, <3>1, RejectedEffect DEF Quiet, Handshake
  <2>7. CASE Leave(c)
    <3>1. Silent /\ conn[c].stage \in Handshake \cup {"open"}
      BY <2>7 DEF Leave, history, pairings
    <3>2. QED
      BY <1>2, <2>7, <3>1, LeaveEffect DEF Quiet, Handshake
  <2>8. QED
    BY <1>4, <2>1, <2>2, <2>3, <2>4, <2>5, <2>6, <2>7 DEF PeerStep
<1>5. CASE CloseSessions
  <2>1. UNCHANGED pairings /\ ui = "stopping" /\ ui' = "joining" /\ conn' = Closed(Registered)
    BY <1>5 DEF CloseSessions, history, pairings
  <2>2. QED
    BY <2>1, ClosedEffect DEF Quiet, OnlyCuts, SavingStays
<1>6. CASE JoinWorkers \/ CreatePairingUri \/ InviteExpires \/ BeginStop \/ UNCHANGED vars
  <2>1. UNCHANGED pairings /\ UNCHANGED conn /\ SavingStays
    BY <1>6 DEF JoinWorkers, CreatePairingUri, InviteExpires, BeginStop, vars, history, pairings,
                SavingStays
  <2>2. QED
    BY <2>1 DEF Quiet
<1>7. QED
  BY <1>3, <1>4, <1>5, <1>6 DEF Next, UiStep, Loud

-----------------------------------------------------------------------------
(* Who holds a key, before and after a step.                                *)
LEMMA OwnerKept ==
  ASSUME OneOwner, UNCHANGED uses,
         \A k \in Keys, d \in Devices : Holds(d, k)' => Holds(d, k)
  PROVE  OneOwner'
BY DEF OneOwner

(* No step gives a key to a second device.                                  *)
LEMMA OwnerStep ==
  ASSUME TypeOK, Tokens, OneOwner, [Next]_vars
  PROVE  OneOwner'
<1>1. CASE Quiet
  <2>1. UNCHANGED pairings /\ \A x \in Conns : KeyFromTable(x)
    BY <1>1 DEF Quiet
  <2>2. \A k \in Keys, d \in Devices : Holds(d, k)' => Holds(d, k)
    BY <2>1 DEF pairings, Holds, KeyFromTable, SameKey, Keys
  <2>3. QED
    BY <2>1, <2>2, OwnerKept DEF pairings
<1>2. ASSUME NEW c \in Conns, ConsumeToken(c), StillShown(c)
      PROVE  OneOwner'
  <2> DEFINE e == conn[c].pairDevice
             k == conn[c].token
  <2>1. /\ devices' = [devices EXCEPT ![e] = k] /\ uses' = [uses EXCEPT ![k] = @ + 1]
        /\ UNCHANGED <<saved, snapshot>> /\ At(c, "deriving")
    BY <1>2 DEF ConsumeToken
  <2>2. \A x \in Conns : SameKey(x)
    BY <1>2, ConsumeEffect DEF Moves, SameKey
  <2>3. k \in Keys /\ e \in Devices /\ uses[k] = 0
    BY <1>2, <2>1 DEF Tokens, At, StillShown, Keys
  <2> HIDE DEF e, k
  <2>4. \A d \in Devices : ~Holds(d, k)
    BY <2>3 DEF OneOwner
  <2>5. uses'[k] = 1 /\ \A j \in Keys : j # k => uses'[j] = uses[j]
    BY <2>1, <2>3 DEF TypeOK
  <2>6. \A j \in Keys, d \in Devices : Holds(d, j)' => Holds(d, j) \/ (j = k /\ d = e)
    BY <2>1, <2>2, <2>3 DEF Holds, SameKey, TypeOK
  <2>7. QED
    BY <2>3, <2>4, <2>5, <2>6 DEF OneOwner
<1>3. ASSUME NEW c \in Conns, BeginSave(c)
      PROVE  OneOwner'
  <2>1. snapshot' = [snapshot EXCEPT ![c] = devices] /\ UNCHANGED <<devices, saved, uses>>
    BY <1>3 DEF BeginSave, TakeSnapshot, history
  <2>2. \A x \in Conns : SameKey(x)
    BY <1>3, PairSaveEffect, NameSaveEffect DEF BeginSave, Moves, SameKey, At
  <2>3. \A k \in Keys, d \in Devices : Holds(d, k)' => Holds(d, k)
    BY <2>1, <2>2 DEF Holds, SameKey, TypeOK
  <2>4. QED
    BY <2>1, <2>3, OwnerKept
<1>4. ASSUME NEW c \in Conns, Rollback(c)
      PROVE  OneOwner'
  <2>1. UNCHANGED <<saved, snapshot, uses>>
    BY <1>4 DEF Rollback, history
  <2>2. \A d \in Devices : devices'[d] \in {devices[d], 0}
    BY <1>4 DEF Rollback, TypeOK
  <2>3. \A x \in Conns : SameKey(x)
    BY <1>4, RollbackEffect DEF Moves, SameKey
  <2>4. \A k \in Keys, d \in Devices : Holds(d, k)' => Holds(d, k)
    BY <2>1, <2>2, <2>3 DEF Holds, SameKey, Keys
  <2>5. QED
    BY <2>1, <2>4, OwnerKept
<1>5. ASSUME NEW c \in Conns, NEW written \in BOOLEAN, EndSave(c, written)
      PROVE  OneOwner'
  <2>1. /\ saved' \in {saved, snapshot[c]} /\ snapshot' = [snapshot EXCEPT ![c] = NoDevices]
        /\ UNCHANGED <<devices, uses>>
    BY <1>5 DEF EndSave, WriteState, history
  <2>2. \A x \in Conns : SameKey(x)
    BY <1>5, PairSavedEffect, NameSavedEffect DEF EndSave, Moves, SameKey, At
  <2>3. \A t \in Savers, d \in Devices : snapshot'[t][d] \in {snapshot[t][d], 0}
    BY <2>1 DEF TypeOK, NoDevices
  <2>4. \A d \in Devices : saved'[d] = saved[d] \/ saved'[d] = snapshot[c][d]
    BY <2>1
  <2>5. c \in Savers
    BY DEF Savers
  <2>6. \A k \in Keys, d \in Devices : Holds(d, k)' => Holds(d, k)
    BY <2>1, <2>2, <2>3, <2>4, <2>5 DEF Holds, SameKey, Keys
  <2>7. QED
    BY <2>1, <2>6, OwnerKept
<1>6. ASSUME NEW c \in Conns, NEW sent \in BOOLEAN, Confirm(c, sent)
      PROVE  OneOwner'
  <2>1. UNCHANGED <<devices, saved, snapshot, uses>>
    BY <1>6 DEF Confirm
  <2>2. \A x \in Conns : SameKey(x)
    BY <1>6, ConfirmEffect DEF Moves, SameKey
  <2>3. \A k \in Keys, d \in Devices : Holds(d, k)' => Holds(d, k)
    BY <2>1, <2>2 DEF Holds, SameKey
  <2>4. QED
    BY <2>1, <2>3, OwnerKept
<1>7. ASSUME NEW e \in Devices, Forget(e)
      PROVE  OneOwner'
  <2>1. /\ devices' = [devices EXCEPT ![e] = 0] /\ conn' = Closed(SessionsOf(e))
        /\ UNCHANGED <<saved, snapshot, uses>>
    BY <1>7 DEF Forget
  <2>2. \A x \in Conns : SameKey(x)
    BY <2>1, ClosedEffect DEF OnlyCuts
  <2>3. \A k \in Keys, d \in Devices : Holds(d, k)' => Holds(d, k)
    BY <2>1, <2>2 DEF Holds, SameKey, TypeOK, Keys
  <2>4. QED
    BY <2>1, <2>3, OwnerKept
<1>8. CASE BeginForgetSave
  <2>1. snapshot' = [snapshot EXCEPT ![UI] = devices] /\ UNCHANGED <<devices, saved, conn, uses>>
    BY <1>8 DEF BeginForgetSave, TakeSnapshot, history
  <2>2. \A k \in Keys, d \in Devices : Holds(d, k)' => Holds(d, k)
    BY <2>1 DEF Holds, TypeOK
  <2>3. QED
    BY <2>1, <2>2, OwnerKept
<1>9. ASSUME NEW written \in BOOLEAN, EndForgetSave(written)
      PROVE  OneOwner'
  <2>1. /\ saved' \in {saved, snapshot[UI]} /\ snapshot' = [snapshot EXCEPT ![UI] = NoDevices]
        /\ UNCHANGED <<devices, conn, uses>>
    BY <1>9 DEF EndForgetSave, WriteState
  <2>2. \A k \in Keys, d \in Devices : Holds(d, k)' => Holds(d, k)
    BY <2>1 DEF Holds, TypeOK, NoDevices, Keys, Savers
  <2>3. QED
    BY <2>1, <2>2, OwnerKept
<1>10. CASE Start
  <2>1. devices' = saved /\ UNCHANGED <<saved, snapshot, conn, uses>>
    BY <1>10 DEF Start
  <2>2. \A k \in Keys, d \in Devices : Holds(d, k)' => Holds(d, k)
    BY <2>1 DEF Holds
  <2>3. QED
    BY <2>1, <2>2, OwnerKept
<1>11. CASE Crash
  <2>1. /\ devices' = NoDevices /\ snapshot' = [t \in Savers |-> NoDevices]
        /\ \A x \in Conns : conn'[x].key = 0
        /\ UNCHANGED <<saved, uses>>
    BY <1>11 DEF Crash, Fresh, history
  <2>2. \A k \in Keys, d \in Devices : Holds(d, k)' => Holds(d, k)
    BY <2>1 DEF Holds, NoDevices, Keys
  <2>3. QED
    BY <2>1, <2>2, OwnerKept
<1>12. QED
  BY <1>1, <1>2, <1>3, <1>4, <1>5, <1>6, <1>7, <1>8, <1>9, <1>10, <1>11, QuietSteps DEF Loud

-----------------------------------------------------------------------------
(* Who is saving, before and after a step.                                  *)
LEMMA SavingEffect ==
  ASSUME TypeOK, NEW c \in Conns
  PROVE  /\ ConsumeToken(c) /\ StillShown(c) => Saving' = Saving
         /\ Rollback(c) => Saving' = Saving
         /\ \A sent \in BOOLEAN : Confirm(c, sent) => Saving' = Saving
         /\ BeginSave(c) => Saving = {} /\ Saving' = {c}
         /\ \A written \in BOOLEAN : EndSave(c, written) => c \in Saving /\ Saving' = Saving \ {c}
<1> USE ConstantsAssumption DEF Moves, At
<1>1. ConsumeToken(c) /\ StillShown(c) => Saving' = Saving
  <2> SUFFICES ASSUME ConsumeToken(c), StillShown(c) PROVE Saving' = Saving
    OBVIOUS
  <2>1. At(c, "deriving") /\ UNCHANGED ui
    BY DEF ConsumeToken
  <2>2. QED
    BY <2>1, ConsumeEffect DEF Saving
<1>2. Rollback(c) => Saving' = Saving
  <2> SUFFICES ASSUME Rollback(c) PROVE Saving' = Saving
    OBVIOUS
  <2>1. At(c, "pairFailed") /\ UNCHANGED ui
    BY DEF Rollback
  <2>2. QED
    BY <2>1, RollbackEffect DEF Saving
<1>3. ASSUME NEW sent \in BOOLEAN, Confirm(c, sent)
      PROVE  Saving' = Saving
  <2>1. At(c, "confirming") /\ UNCHANGED ui
    BY <1>3 DEF Confirm
  <2>2. QED
    BY <1>3, <2>1, ConfirmEffect DEF Saving
<1>4. BeginSave(c) => Saving = {} /\ Saving' = {c}
  <2> SUFFICES ASSUME BeginSave(c) PROVE Saving = {} /\ Saving' = {c}
    OBVIOUS
  <2>1. Saving = {} /\ UNCHANGED ui /\ (At(c, "pairSave") \/ At(c, "nameSave"))
    BY DEF BeginSave, TakeSnapshot
  <2>2. conn'[c].stage \in {"pairSaving", "nameSaving"} /\ \A x \in Conns \ {c} : conn'[x] = conn[x]
    BY <2>1, PairSaveEffect, NameSaveEffect
  <2>3. QED
    BY <2>1, <2>2 DEF Saving
<1>5. ASSUME NEW written \in BOOLEAN, EndSave(c, written)
      PROVE  c \in Saving /\ Saving' = Saving \ {c}
  <2>1. UNCHANGED ui /\ (At(c, "pairSaving") \/ At(c, "nameSaving"))
    BY <1>5 DEF EndSave
  <2>2. /\ conn'[c].stage \in {"open", "confirming", "pairFailed"}
          /\ \A x \in Conns \ {c} : conn'[x] = conn[x]
    BY <1>5, <2>1, PairSavedEffect, NameSavedEffect
  <2>3. QED
    BY <2>1, <2>2 DEF Saving
<1>6. QED
  BY <1>1, <1>2, <1>3, <1>4, <1>5

(* What the save of a Forget makes of the table and the document.           *)
LEMMA UiSavingEffect ==
  ASSUME TypeOK
  PROVE  /\ Quiet => Saving' = Saving
         /\ \A d \in Devices : Forget(d) => Saving' = Saving
         /\ Start => Saving' = Saving
         /\ Crash => Saving' = {}
         /\ BeginForgetSave => Saving = {} /\ Saving' = {UI}
         /\ \A written \in BOOLEAN : EndForgetSave(written) =>
                   UI \in Saving /\ Saving' = Saving \ {UI}
<1>1. Quiet => Saving' = Saving
  BY DEF Quiet, Saving, FileStages, SavingStays
<1>2. ASSUME NEW d \in Devices, Forget(d)
      PROVE  Saving' = Saving
  <2>1. conn' = Closed(SessionsOf(d)) /\ ui = "idle" /\ ui' = "forgot"
    BY <1>2 DEF Forget
  <2>2. QED
    BY <2>1, ClosedEffect DEF Saving, OnlyCuts
<1>3. Start => Saving' = Saving
  BY DEF Start, Saving
<1>4. Crash => Saving' = {}
  BY DEF Crash, Saving, Fresh
<1>5. BeginForgetSave => Saving = {} /\ Saving' = {UI}
  BY ConstantsAssumption DEF BeginForgetSave, TakeSnapshot, Saving
<1>6. ASSUME NEW written \in BOOLEAN, EndForgetSave(written)
      PROVE  UI \in Saving /\ Saving' = Saving \ {UI}
  BY <1>6, ConstantsAssumption DEF EndForgetSave, Saving
<1>7. QED
  BY <1>1, <1>2, <1>3, <1>4, <1>5, <1>6

(* No save begins before the one before it has ended.                       *)
LEMMA SaverStep ==
  ASSUME TypeOK, OneSaver, [Next]_vars
  PROVE  OneSaver'
<1>1. snapshot \in [Savers -> [Devices -> Keys \cup {0}]]
  BY DEF TypeOK
<1>2. Saving \subseteq Savers /\ UI \in Savers /\ Conns \subseteq Savers
  BY DEF Saving, Savers
<1>3. ASSUME Saving' = Saving, UNCHANGED snapshot
      PROVE  OneSaver'
  BY <1>3 DEF OneSaver
<1>4. ASSUME NEW t \in Savers, Saving = {}, Saving' = {t},
             snapshot' = [snapshot EXCEPT ![t] = devices]
      PROVE  OneSaver'
  BY <1>1, <1>4 DEF OneSaver
<1>5. ASSUME NEW t \in Savers, t \in Saving, Saving' = Saving \ {t},
             snapshot' = [snapshot EXCEPT ![t] = NoDevices]
      PROVE  OneSaver'
  BY <1>1, <1>5 DEF OneSaver
<1>6. CASE Quiet
  BY <1>3, <1>6, UiSavingEffect DEF Quiet, pairings
<1>7. ASSUME NEW c \in Conns, \/ ConsumeToken(c) /\ StillShown(c)
                              \/ Rollback(c) \/ \E sent \in BOOLEAN : Confirm(c, sent)
      PROVE  OneSaver'
  <2>1. UNCHANGED snapshot
    BY <1>7 DEF ConsumeToken, Rollback, Confirm
  <2>2. QED
    BY <1>3, <1>7, <2>1, SavingEffect
<1>8. ASSUME NEW c \in Conns, BeginSave(c)
      PROVE  OneSaver'
  <2>1. snapshot' = [snapshot EXCEPT ![c] = devices]
    BY <1>8 DEF BeginSave, TakeSnapshot
  <2>2. QED
    BY <1>2, <1>4, <1>8, <2>1, SavingEffect
<1>9. ASSUME NEW c \in Conns, NEW written \in BOOLEAN, EndSave(c, written)
      PROVE  OneSaver'
  <2>1. snapshot' = [snapshot EXCEPT ![c] = NoDevices]
    BY <1>9 DEF EndSave, WriteState
  <2>2. QED
    BY <1>2, <1>5, <1>9, <2>1, SavingEffect
<1>10. CASE BeginForgetSave
  <2>1. snapshot' = [snapshot EXCEPT ![UI] = devices]
    BY <1>10 DEF BeginForgetSave, TakeSnapshot
  <2>2. QED
    BY <1>2, <1>4, <1>10, <2>1, UiSavingEffect
<1>11. ASSUME NEW written \in BOOLEAN, EndForgetSave(written)
       PROVE  OneSaver'
  <2>1. snapshot' = [snapshot EXCEPT ![UI] = NoDevices]
    BY <1>11 DEF EndForgetSave, WriteState
  <2>2. QED
    BY <1>2, <1>5, <1>11, <2>1, UiSavingEffect
<1>12. CASE Start \/ \E d \in Devices : Forget(d)
  <2>1. UNCHANGED snapshot
    BY <1>12 DEF Start, Forget
  <2>2. QED
    BY <1>3, <1>12, <2>1, UiSavingEffect
<1>13. CASE Crash
  <2>1. snapshot' = [t \in Savers |-> NoDevices]
    BY <1>13 DEF Crash
  <2>2. QED
    BY <1>13, <2>1, UiSavingEffect DEF OneSaver
<1>14. QED
  BY <1>6, <1>7, <1>8, <1>9, <1>10, <1>11, <1>12, <1>13, QuietSteps DEF Loud

-----------------------------------------------------------------------------
(* A table of pairings and the keys in it.                                  *)
Tables == [Devices -> Keys \cup {0}]

(* A key of a table is the key of a device.                                 *)
LEMMA RangeOf ==
  ASSUME NEW f \in Tables
  PROVE  /\ \A k : k \in Range(f) <=> \E d \in Devices : f[d] = k
         /\ \A d \in Devices : \A k : Range([f EXCEPT ![d] = k]) \subseteq Range(f) \cup {k}
BY DEF Range, Tables

(* An empty table has no key.                                               *)
LEMMA NothingInRange ==
  ASSUME NEW k \in Keys
  PROVE  k \notin Range(NoDevices)
BY DEF Range, NoDevices, Keys

(* The tables and the documents are tables.                                 *)
LEMMA TableTypes ==
  ASSUME TypeOK
  PROVE  /\ devices \in Tables /\ saved \in Tables
         /\ \A t \in Savers : snapshot[t] \in Tables
         /\ \A S \in {confirmed, replaced, forgotten, erased} : S \subseteq Keys
         /\ UI \in Savers /\ Conns \subseteq Savers
BY DEF TypeOK, Tables, Savers

(* Nobody works for a service that is stopped.                              *)
LEMMA WorkingIsUp ==
  ASSUME Places, NEW c \in Conns, ~At(c, "free")
  PROVE  ui # "stopped"
BY DEF Places

(* No step brings a forgotten pairing back.                                 *)
LEMMA ForgottenStep ==
  ASSUME TypeOK, Places, Tokens, OneOwner, OneSaver, Forgotten, [Next]_vars
  PROVE  Forgotten'
<1> USE TableTypes
<1> DEFINE F1(f, tab) == f \cap Range(tab) = {}
<1>1. /\ ui # "stopped" => F1(forgotten, devices)
      /\ erased \subseteq forgotten
      /\ ui = "saving" => F1(forgotten, snapshot[UI])
      /\ \A t \in Savers : F1(erased, snapshot[t])
      /\ F1(erased, saved)
  BY DEF Forgotten, ForgottenStaysForgotten
<1>2. ASSUME ui' # "stopped" => F1(forgotten', devices'),
             erased' \subseteq forgotten',
             ui' = "saving" => F1(forgotten', snapshot'[UI]),
             \A t \in Savers : F1(erased', snapshot'[t]),
             F1(erased', saved')
      PROVE  Forgotten'
  BY <1>2 DEF Forgotten, ForgottenStaysForgotten
<1>3. CASE Quiet
  BY <1>1, <1>2, <1>3 DEF Quiet, pairings, SavingStays
<1>4. ASSUME NEW c \in Conns, ConsumeToken(c), StillShown(c)
      PROVE  Forgotten'
  <2> DEFINE e == conn[c].pairDevice
             k == conn[c].token
  <2>1. /\ devices' = [devices EXCEPT ![e] = k]
        /\ UNCHANGED <<saved, snapshot, forgotten, erased, ui>> /\ At(c, "deriving")
    BY <1>4 DEF ConsumeToken
  <2>2. k \in Keys /\ e \in Devices /\ uses[k] = 0
    BY <1>4, <2>1 DEF Tokens, At, StillShown, Keys
  <2> HIDE DEF e, k
  <2>3. k \notin forgotten
    BY <2>2 DEF Tokens
  <2>4. Range(devices') \subseteq Range(devices) \cup {k}
    BY <2>1, <2>2, RangeOf
  <2>5. QED
    BY <1>1, <1>2, <2>1, <2>3, <2>4
<1>5. ASSUME NEW c \in Conns, BeginSave(c)
      PROVE  Forgotten'
  <2>1. /\ snapshot' = [snapshot EXCEPT ![c] = devices] /\ ~At(c, "free")
        /\ UNCHANGED <<devices, saved, forgotten, erased, ui>>
    BY <1>5 DEF BeginSave, TakeSnapshot, history, At
  <2>2. ui # "stopped"
    BY <2>1, WorkingIsUp
  <2>3. \A t \in Savers : snapshot'[t] = IF t = c THEN devices ELSE snapshot[t]
    BY <2>1 DEF TypeOK
  <2>4. QED
    BY <1>1, <1>2, <2>1, <2>2, <2>3
<1>6. ASSUME NEW c \in Conns, Rollback(c)
      PROVE  Forgotten'
  <2>1. /\ devices' = devices \/ \E d \in Devices : devices' = [devices EXCEPT ![d] = 0]
        /\ UNCHANGED <<saved, snapshot, forgotten, erased, ui>> /\ At(c, "pairFailed")
    BY <1>6 DEF Rollback, history, Tokens, Consumed, At
  <2>2. Range(devices') \subseteq Range(devices) \cup {0}
    BY <2>1, RangeOf
  <2>3. 0 \notin forgotten
    BY DEF Keys
  <2>4. QED
    BY <1>1, <1>2, <2>1, <2>2, <2>3
<1>7. ASSUME NEW c \in Conns, NEW written \in BOOLEAN, EndSave(c, written)
      PROVE  Forgotten'
  <2>1. /\ saved' \in {saved, snapshot[c]} /\ snapshot' = [snapshot EXCEPT ![c] = NoDevices]
        /\ UNCHANGED <<devices, forgotten, erased, ui>>
    BY <1>7 DEF EndSave, WriteState, history
  <2>2. \A t \in Savers : snapshot'[t] = IF t = c THEN NoDevices ELSE snapshot[t]
    BY <2>1 DEF TypeOK
  <2>3. \A k \in forgotten : k \notin Range(NoDevices)
    BY NothingInRange
  <2>4. QED
    BY <1>1, <1>2, <2>1, <2>2, <2>3
<1>8. ASSUME NEW c \in Conns, NEW sent \in BOOLEAN, Confirm(c, sent)
      PROVE  Forgotten'
  <2>1. UNCHANGED <<devices, saved, snapshot, forgotten, erased, ui>>
    BY <1>8 DEF Confirm
  <2>2. QED
    BY <1>1, <1>2, <2>1
<1>9. ASSUME NEW e \in Devices, Forget(e)
      PROVE  Forgotten'
  <2>1. /\ devices' = [devices EXCEPT ![e] = 0] /\ forgotten' = forgotten \cup {devices[e]}
        /\ devices[e] # 0 /\ ui = "idle" /\ ui' = "forgot"
        /\ UNCHANGED <<saved, snapshot, erased>>
    BY <1>9 DEF Forget
  <2>2. devices[e] \in Keys /\ devices' \in Tables
    BY <2>1 DEF Tables, Keys
  <2>3. \A d \in Devices \ {e} : devices[d] # devices[e]
    BY <2>2 DEF OneOwner, Holds
  <2>4. \A d \in Devices : devices'[d] \notin forgotten'
    <3>1. \A d \in Devices : devices[d] \notin forgotten
      BY <1>1, <2>1, RangeOf
    <3>2. 0 \notin forgotten'
      BY <2>1 DEF Keys
    <3>3. QED
      BY <2>1, <2>3, <3>1, <3>2 DEF Tables
  <2>5. F1(forgotten', devices')
    BY <2>2, <2>4, RangeOf
  <2>6. QED
    BY <1>1, <1>2, <2>1, <2>5
<1>10. CASE BeginForgetSave
  <2>1. /\ snapshot' = [snapshot EXCEPT ![UI] = devices] /\ ui = "forgot"
        /\ UNCHANGED <<devices, saved, forgotten, erased>>
    BY <1>10 DEF BeginForgetSave, TakeSnapshot, history
  <2>2. \A t \in Savers : snapshot'[t] = IF t = UI THEN devices ELSE snapshot[t]
    BY <2>1 DEF TypeOK
  <2>3. QED
    BY <1>1, <1>2, <2>1, <2>2
<1>11. ASSUME NEW written \in BOOLEAN, EndForgetSave(written)
       PROVE  Forgotten'
  <2>1. /\ snapshot' = [snapshot EXCEPT ![UI] = NoDevices] /\ ui = "saving" /\ ui' = "idle"
        /\ saved' = (IF written THEN snapshot[UI] ELSE saved)
        /\ erased' = (IF written THEN erased \cup forgotten ELSE erased)
        /\ UNCHANGED <<devices, forgotten>>
    BY <1>11 DEF EndForgetSave, WriteState
  <2>2. UI \in Saving
    BY <1>11, UiSavingEffect
  <2>3. \A t \in Savers : snapshot'[t] = NoDevices
    BY <2>1, <2>2 DEF TypeOK, OneSaver
  <2>4. \A k \in forgotten : k \notin Range(NoDevices)
    BY NothingInRange
  <2>5. erased' \subseteq forgotten' /\ F1(erased', saved')
    BY <1>1, <2>1
  <2>6. QED
    BY <1>1, <1>2, <2>1, <2>3, <2>4, <2>5
<1>12. CASE Start
  <2>1. /\ devices' = saved /\ forgotten' = forgotten \ Range(saved) /\ ui' = "idle"
        /\ UNCHANGED <<saved, snapshot, erased>>
    BY <1>12 DEF Start
  <2>2. QED
    BY <1>1, <1>2, <2>1
<1>13. CASE Crash
  <2>1. /\ ui' = "stopped" /\ snapshot' = [t \in Savers |-> NoDevices]
        /\ UNCHANGED <<saved, forgotten, erased>>
    BY <1>13 DEF Crash, history
  <2>2. \A k \in forgotten : k \notin Range(NoDevices)
    BY NothingInRange
  <2>3. QED
    BY <1>1, <1>2, <2>1, <2>2
<1>14. QED
  BY <1>3, <1>4, <1>5, <1>6, <1>7, <1>8, <1>9, <1>10, <1>11, <1>12, <1>13, QuietSteps DEF Loud

(* What one entry changes in the keys of a table.                           *)
LEMMA RangeAfter ==
  ASSUME NEW f \in Tables, NEW d \in Devices, NEW k
  PROVE  LET g == [f EXCEPT ![d] = k]
         IN k \in Range(g) /\ Range(f) \ {f[d]} \subseteq Range(g)
BY DEF Range, Tables

(* What was promised stays so when no table changes.                        *)
LEMMA PromisedKept ==
  ASSUME confirmed' \subseteq confirmed,
         \A x \in Conns : conn'[x].stage = "confirming" =>
           conn[x].stage = "confirming" /\ conn'[x].token = conn[x].token
  PROVE  Promised' \subseteq Promised
BY DEF Promised, At

(* No step loses a pairing that its phone was told of.                      *)
LEMMA DurableStep ==
  ASSUME TypeOK, Places, Tokens, OneOwner, OneSaver, Durable, [Next]_vars
  PROVE  Durable'
<1> USE TableTypes DEF At
<1>1. /\ Promised \ Given \subseteq Range(saved)
      /\ ui # "stopped" => Promised \ Given \subseteq Range(devices)
      /\ \A t \in Saving : Promised \ Given \subseteq Range(snapshot[t])
  BY DEF Durable
<1>2. \A c \in Conns : conn[c].stage \in {"pairSave", "pairSaving"} =>
        conn[c].token \in Range(devices) \cup Given
  BY DEF Durable
<1>3. \A c \in Conns : conn[c].stage = "pairSaving" =>
          conn[c].token \in Range(snapshot[c]) \cup Given
  BY DEF Durable
<1>4. \A c \in Conns : conn[c].stage \in {"pairSave", "pairSaving", "pairFailed"} =>
        conn[c].token \notin confirmed
  BY DEF Durable
<1>5. \A b, c \in Conns : /\ conn[b].stage \in Consumed /\ conn[c].stage \in Consumed
                          /\ conn[b].token = conn[c].token
                          => b = c
  BY DEF Tokens
<1>6. CASE Quiet
  <2>1. UNCHANGED pairings /\ SavingStays /\ Saving' = Saving
    BY <1>6, UiSavingEffect DEF Quiet
  <2>2. \A x \in Conns : conn'[x].stage \in FileStages \/ conn[x].stage \in FileStages =>
          conn'[x].stage = conn[x].stage /\ conn'[x].token = conn[x].token
    BY <1>6 DEF Quiet, SamePair
  <2>3. Promised' \subseteq Promised /\ Given' = Given
    BY <2>1, <2>2, PromisedKept DEF FileStages, pairings, Given
  <2>4. QED
    BY <1>1, <1>2, <1>3, <1>4, <2>1, <2>2, <2>3 DEF Durable, FileStages, pairings, SavingStays
<1>7. ASSUME NEW c \in Conns, ConsumeToken(c), StillShown(c)
      PROVE  Durable'
  <2> DEFINE e == conn[c].pairDevice
             k == conn[c].token
  <2>1. /\ devices' = [devices EXCEPT ![e] = k] /\ replaced' = replaced \cup ({devices[e]} \ {0})
        /\ UNCHANGED <<saved, snapshot, forgotten, confirmed, ui>> /\ At(c, "deriving")
    BY <1>7 DEF ConsumeToken
  <2>2. k \in Keys /\ e \in Devices /\ uses[k] = 0
    BY <1>7, <2>1 DEF Tokens, StillShown, Keys
  <2>3. /\ conn'[c].stage = "pairSave" /\ conn'[c].token = k
        /\ \A x \in Conns \ {c} : conn'[x] = conn[x]
    BY <1>7, ConsumeEffect DEF Moves, SamePair
  <2>4. Saving' = Saving
    BY <1>7, SavingEffect
  <2> HIDE DEF e, k
  <2>5. k \notin confirmed
    BY <2>2 DEF Tokens
  <2>6. Promised' \subseteq Promised
    BY <2>1, <2>3, PromisedKept
  <2>7. 0 \notin Promised
    <3>1. \A x \in Conns : conn[x].stage = "confirming" => conn[x].token \in Keys
      BY DEF Tokens, Consumed
    <3>2. QED
      BY <3>1 DEF Promised, Keys
  <2>8. k \in Range(devices') /\ Range(devices) \ {devices[e]} \subseteq Range(devices')
    BY <2>1, <2>2, RangeAfter
  <2>9. Given' = Given \cup ({devices[e]} \ {0})
    BY <2>1 DEF Given
  <2>10. \A x \in Conns : conn'[x].stage \in {"pairSave", "pairSaving"} =>
           conn'[x].token \in Range(devices') \cup Given'
    <3>1. \A x \in Conns : conn[x].stage \in {"pairSave", "pairSaving"} => conn[x].token \in Keys
      BY DEF Tokens, Consumed
    <3>2. QED
      BY <1>2, <2>3, <2>8, <2>9, <3>1 DEF Keys
  <2>11. QED
    BY <1>1, <1>3, <1>4, <2>1, <2>3, <2>4, <2>5, <2>6, <2>7, <2>8, <2>9, <2>10 DEF Durable
<1>8. ASSUME NEW c \in Conns, BeginSave(c)
      PROVE  Durable'
  <2>1. /\ snapshot' = [snapshot EXCEPT ![c] = devices] /\ ~At(c, "free")
        /\ UNCHANGED <<devices, saved, confirmed, replaced, forgotten, ui>>
        /\ (At(c, "pairSave") \/ At(c, "nameSave"))
    BY <1>8 DEF BeginSave, TakeSnapshot, history
  <2>2. /\ conn'[c].stage = (IF At(c, "pairSave") THEN "pairSaving" ELSE "nameSaving")
        /\ conn'[c].token = conn[c].token
        /\ \A x \in Conns \ {c} : conn'[x] = conn[x]
    BY <1>8, <2>1, PairSaveEffect, NameSaveEffect DEF Moves, SamePair
  <2>3. Saving = {} /\ Saving' = {c} /\ ui # "stopped"
    BY <1>8, <2>1, SavingEffect, WorkingIsUp
  <2>4. \A t \in Savers : snapshot'[t] = IF t = c THEN devices ELSE snapshot[t]
    BY <2>1 DEF TypeOK
  <2>5. Promised' \subseteq Promised /\ Given' = Given
    BY <2>1, <2>2, PromisedKept DEF Given
  <2>6. QED
    BY <1>1, <1>2, <1>3, <1>4, <2>1, <2>2, <2>3, <2>4, <2>5 DEF Durable
<1>9. ASSUME NEW c \in Conns, Rollback(c)
      PROVE  Durable'
  <2> DEFINE k == conn[c].token
  <2>1. /\ UNCHANGED <<saved, snapshot, confirmed, replaced, forgotten, ui>>
        /\ At(c, "pairFailed")
    BY <1>9 DEF Rollback, history
  <2>2. /\ conn'[c].stage = "relocking"
        /\ \A x \in Conns \ {c} : conn'[x] = conn[x]
    BY <1>9, RollbackEffect DEF Moves
  <2>3. Range(devices) \ {k} \subseteq Range(devices')
    BY <1>9, RangeAfter DEF Rollback, Tokens, Consumed
  <2>4. Saving' = Saving
    BY <1>9, SavingEffect
  <2>5. k \notin confirmed /\ \A x \in Conns \ {c} : conn[x].stage \in Consumed => conn[x].token # k
    BY <1>4, <1>5, <2>1 DEF Consumed
  <2> HIDE DEF k
  <2>6. k \notin Promised
    BY <2>1, <2>5 DEF Promised, Consumed
  <2>7. Promised' \subseteq Promised /\ Given' = Given
    BY <2>1, <2>2, PromisedKept DEF Given
  <2>8. \A x \in Conns : conn'[x].stage \in Consumed =>
          x # c /\ conn'[x] = conn[x] /\ conn[x].token # k
    BY <2>2, <2>5 DEF Consumed
  <2>9. QED
    BY <1>1, <1>2, <1>3, <1>4, <2>1, <2>3, <2>4, <2>6, <2>7, <2>8 DEF Durable, Consumed
<1>10. ASSUME NEW c \in Conns, NEW written \in BOOLEAN, EndSave(c, written)
       PROVE  Durable'
  <2>1. /\ saved' = (IF written THEN snapshot[c] ELSE saved)
        /\ snapshot' = [snapshot EXCEPT ![c] = NoDevices]
        /\ UNCHANGED <<devices, confirmed, replaced, forgotten, ui>>
        /\ (At(c, "pairSaving") \/ At(c, "nameSaving"))
    BY <1>10 DEF EndSave, WriteState, history
  <2>2. /\ \A x \in Conns \ {c} : conn'[x] = conn[x]
        /\ conn'[c].token = conn[c].token
        /\ conn'[c].stage = IF At(c, "nameSaving") THEN "open"
                            ELSE IF written THEN "confirming" ELSE "pairFailed"
    BY <1>10, <2>1, PairSavedEffect, NameSavedEffect DEF Moves, SamePair
  <2>3. c \in Saving /\ Saving' = {}
    BY <1>10, SavingEffect DEF OneSaver
  <2>4. \A x \in Conns \ {c} : conn[x].stage # "pairSaving"
    BY <2>3 DEF Saving, OneSaver
  <2>5. Given' = Given
    BY <2>1 DEF Given
  <2>6. \A x \in Conns : /\ conn'[x].stage # "pairSaving"
                         /\ conn'[x].stage = "pairSave" => conn'[x] = conn[x]
    BY <2>2, <2>4
  <2>7. CASE At(c, "pairSaving") /\ written
    <3>1. Promised' \subseteq Promised \cup {conn[c].token}
      BY <2>1, <2>2 DEF Promised
    <3>2. ui # "stopped"
      BY <2>7, WorkingIsUp
    <3>3. Promised' \ Given' \subseteq Range(saved') /\ Promised' \ Given' \subseteq Range(devices')
      BY <1>1, <1>2, <1>3, <2>1, <2>3, <2>5, <2>7, <3>1, <3>2
    <3>4. \A x \in Conns : conn'[x].stage \in {"pairSave", "pairSaving", "pairFailed"} =>
            conn'[x].token \notin confirmed'
      BY <1>4, <2>1, <2>2, <2>7
    <3>5. QED
      BY <1>2, <2>1, <2>3, <2>5, <2>6, <3>3, <3>4 DEF Durable
  <2>8. CASE ~(At(c, "pairSaving") /\ written)
    <3>1. Promised' \subseteq Promised
      BY <2>1, <2>2, <2>8, PromisedKept
    <3>2. Promised' \ Given' \subseteq Range(saved')
      BY <1>1, <2>1, <2>3, <2>5, <3>1
    <3>3. \A x \in Conns : conn'[x].stage \in {"pairSave", "pairSaving", "pairFailed"} =>
            conn'[x].token \notin confirmed'
      BY <1>4, <2>1, <2>2, <2>8
    <3>4. QED
      BY <1>1, <1>2, <2>1, <2>3, <2>5, <2>6, <3>1, <3>2, <3>3 DEF Durable
  <2>9. QED
    BY <2>7, <2>8
<1>11. ASSUME NEW c \in Conns, NEW sent \in BOOLEAN, Confirm(c, sent)
       PROVE  Durable'
  <2>1. /\ UNCHANGED <<devices, saved, snapshot, replaced, forgotten, ui>>
        /\ At(c, "confirming") /\ confirmed' \subseteq confirmed \cup {conn[c].token}
    BY <1>11 DEF Confirm
  <2>2. /\ \A x \in Conns \ {c} : conn'[x] = conn[x]
        /\ conn'[c].stage \in {"hello", "ending"}
    BY <1>11, ConfirmEffect DEF Moves
  <2>3. Promised' \subseteq Promised /\ Given' = Given /\ Saving' = Saving
    BY <1>11, <2>1, <2>2, SavingEffect DEF Promised, Given
  <2>4. \A x \in Conns : conn'[x].stage \in {"pairSave", "pairSaving", "pairFailed"} =>
          conn'[x].token \notin confirmed'
    BY <1>4, <1>5, <2>1, <2>2 DEF Consumed
  <2>5. QED
    BY <1>1, <1>2, <1>3, <2>1, <2>2, <2>3, <2>4 DEF Durable
<1>12. ASSUME NEW e \in Devices, Forget(e)
       PROVE  Durable'
  <2>1. /\ devices' = [devices EXCEPT ![e] = 0] /\ forgotten' = forgotten \cup {devices[e]}
        /\ ui = "idle" /\ conn' = Closed(SessionsOf(e))
        /\ UNCHANGED <<saved, snapshot, confirmed, replaced>>
    BY <1>12 DEF Forget
  <2>2. \A x \in Conns : conn'[x].stage = conn[x].stage /\ conn'[x].token = conn[x].token
    BY <2>1, ClosedEffect DEF OnlyCuts, SamePair
  <2>3. Range(devices) \ {devices[e]} \subseteq Range(devices') /\ Saving' = Saving
    BY <1>12, <2>1, RangeAfter, UiSavingEffect
  <2>4. Promised' \subseteq Promised /\ Given' = Given \cup {devices[e]}
    BY <2>1, <2>2, PromisedKept DEF Given
  <2>5. QED
    BY <1>1, <1>2, <1>3, <1>4, <2>1, <2>2, <2>3, <2>4 DEF Durable
<1>13. CASE BeginForgetSave
  <2>1. /\ snapshot' = [snapshot EXCEPT ![UI] = devices] /\ ui = "forgot"
        /\ UNCHANGED <<devices, saved, confirmed, replaced, forgotten, conn>>
    BY <1>13 DEF BeginForgetSave, TakeSnapshot, history
  <2>2. \A t \in Savers : snapshot'[t] = IF t = UI THEN devices ELSE snapshot[t]
    BY <2>1 DEF TypeOK
  <2>3. Saving' = {UI} /\ Promised' = Promised /\ Given' = Given /\ UI \notin Conns
    BY <1>13, <2>1, UiSavingEffect, ConstantsAssumption DEF Promised, Given
  <2>4. QED
    BY <1>1, <1>2, <1>3, <1>4, <2>1, <2>2, <2>3 DEF Durable
<1>14. ASSUME NEW written \in BOOLEAN, EndForgetSave(written)
       PROVE  Durable'
  <2>1. /\ saved' = (IF written THEN snapshot[UI] ELSE saved)
        /\ snapshot' = [snapshot EXCEPT ![UI] = NoDevices] /\ ui = "saving"
        /\ UNCHANGED <<devices, confirmed, replaced, forgotten, conn>>
    BY <1>14 DEF EndForgetSave, WriteState
  <2>2. UI \in Saving /\ Saving' = {}
    BY <1>14, UiSavingEffect DEF OneSaver
  <2>3. \A t \in Savers \ {UI} : snapshot'[t] = snapshot[t]
    BY <2>1 DEF TypeOK
  <2>4. Promised' = Promised /\ Given' = Given /\ UI \notin Conns
    BY <2>1, ConstantsAssumption DEF Promised, Given
  <2>5. QED
    BY <1>1, <1>2, <1>3, <1>4, <2>1, <2>2, <2>3, <2>4 DEF Durable
<1>15. CASE Start
  <2>1. /\ devices' = saved /\ UNCHANGED <<saved, snapshot, confirmed, conn>>
        /\ replaced' = replaced \ Range(saved) /\ forgotten' = forgotten \ Range(saved)
        /\ ui = "stopped" /\ ui' = "idle"
    BY <1>15 DEF Start
  <2>2. \A x \in Conns : conn[x].stage = "free"
    BY <2>1 DEF Places
  <2>3. Promised' = Promised /\ Given' = Given \ Range(saved) /\ Saving' = {}
    BY <2>1, <2>2 DEF Promised, Given, Saving
  <2>4. QED
    BY <1>1, <2>1, <2>2, <2>3 DEF Durable
<1>16. CASE Crash
  <2>1. /\ ui' = "stopped" /\ UNCHANGED <<saved, confirmed, replaced, forgotten>>
        /\ \A x \in Conns : conn'[x].stage = "free"
    BY <1>16 DEF Crash, history, Fresh
  <2>2. Promised' \subseteq Promised /\ Given' = Given /\ Saving' = {}
    BY <1>16, <2>1, PromisedKept, UiSavingEffect DEF Given
  <2>3. QED
    BY <1>1, <2>1, <2>2 DEF Durable
<1>17. QED
  BY <1>6, <1>7, <1>8, <1>9, <1>10, <1>11, <1>12, <1>13, <1>14, <1>15, <1>16, QuietSteps DEF Loud

-----------------------------------------------------------------------------
(* Connections that stay what they are for the other phones.                *)
LinksStay ==
  \A x \in Conns :
    /\ conn'[x].stage \in Opened => /\ conn[x].stage \in Opened /\ SameKey(x)
                                    /\ conn[x].cut => conn'[x].cut
    /\ conn[x].stage \in Opened \cup {"ending"} => conn'[x].stage \in Opened \cup {"ending"}
    /\ UNCHANGED conn[x].previous

(* The connections stay exclusive when none is opened.                      *)
LEMMA LinksKept ==
  ASSUME TypeOK, ForgottenIsCut, OnePhone, LinksStay, UNCHANGED <<active, forgotten>>
  PROVE  ForgottenIsCut' /\ OnePhone'
<1>1. ForgottenIsCut'
  BY DEF ForgottenIsCut, LinksStay, SameKey
<1>2. OnePhone'
  <2>1. active' # None => conn'[active'].stage \in Opened \cup {"ending"}
    BY DEF OnePhone, LinksStay, TypeOK
  <2>2. ASSUME NEW c \in Conns \ {active'}, conn'[c].stage \in Opened
        PROVE  conn'[c].cut \/ \E x \in Conns : conn'[x].previous = c
    <3>1. conn[c].cut \/ \E x \in Conns : conn[x].previous = c
      BY <2>2 DEF OnePhone, LinksStay
    <3>2. QED
      BY <2>2, <3>1 DEF LinksStay
  <2>3. QED
    BY <2>1, <2>2 DEF OnePhone
<1>3. QED
  BY <1>1, <1>2

(* A connection that takes over knows the one it cuts.                      *)
LEMMA LinksStep ==
  ASSUME TypeOK, Places, OneOwner, Forgotten, ForgottenIsCut, OnePhone, [Next]_vars
  PROVE  ForgottenIsCut' /\ OnePhone'
<1>1. \A x \in Conns : conn[x].stage # "replacing" => conn[x].previous = None
  BY DEF Places, Placed
<1>2. conn \in [Conns -> Session] /\ active \in Conns \cup {None} /\ None \notin Conns
  BY ConstantsAssumption DEF TypeOK
<1> USE <1>1, <1>2 DEF At, Moves, SameKey, SameLink, Opened, Pairing, Handshake
<1> DEFINE Still == UNCHANGED <<active, forgotten>>
<1>3. ASSUME NEW c \in Conns, ThreadStep(c)
      PROVE  ForgottenIsCut' /\ OnePhone'
  <2>1. CASE Register(c)
    <3>1. Still /\ At(c, "accepted")
      BY <2>1 DEF Register, history
    <3>2. CASE running
      <4>1. LinksStay
        BY <2>1, <3>1, <3>2, RegisterEffect DEF LinksStay
      <4>2. QED
        BY <3>1, <4>1, LinksKept
    <3>3. CASE ~running
      <4>1. LinksStay
        BY <2>1, <3>1, <3>3, FreshEffect DEF LinksStay, Fresh
      <4>2. QED
        BY <3>1, <4>1, LinksKept
    <3>4. QED
      BY <3>2, <3>3
  <2>2. CASE ConsumeToken(c)
    <3>1. Still /\ At(c, "deriving")
      BY <2>2 DEF ConsumeToken
    <3>2. CASE StillShown(c)
      <4>1. LinksStay
        BY <2>2, <3>1, <3>2, ConsumeEffect DEF LinksStay
      <4>2. QED
        BY <3>1, <4>1, LinksKept
    <3>3. CASE ~StillShown(c)
      <4>1. Rejected(c)
        BY <2>2, <3>3 DEF ConsumeToken
      <4>2. LinksStay
        BY <3>1, <4>1, RejectedEffect DEF LinksStay
      <4>3. QED
        BY <3>1, <4>2, LinksKept
    <3>4. QED
      BY <3>2, <3>3
  <2>3. CASE BeginSave(c)
    <3>1. Still /\ (At(c, "pairSave") \/ At(c, "nameSave"))
      BY <2>3 DEF BeginSave, history
    <3>2. LinksStay
      BY <2>3, <3>1, PairSaveEffect, NameSaveEffect DEF LinksStay
    <3>3. QED
      BY <3>1, <3>2, LinksKept
  <2>4. CASE Rollback(c)
    <3>1. Still /\ At(c, "pairFailed")
      BY <2>4 DEF Rollback, history
    <3>2. LinksStay
      BY <2>4, <3>1, RollbackEffect DEF LinksStay
    <3>3. QED
      BY <3>1, <3>2, LinksKept
  <2>5. ASSUME NEW written \in BOOLEAN, EndSave(c, written)
        PROVE  ForgottenIsCut' /\ OnePhone'
    <3>1. Still /\ (At(c, "pairSaving") \/ At(c, "nameSaving"))
      BY <2>5 DEF EndSave, history
    <3>2. CASE At(c, "pairSaving")
      <4>1. LinksStay
        BY <2>5, <3>2, PairSavedEffect DEF LinksStay
      <4>2. QED
        BY <3>1, <4>1, LinksKept
    <3>3. CASE At(c, "nameSaving")
      <4>1. LinksStay
        BY <2>5, <3>3, NameSavedEffect DEF LinksStay
      <4>2. QED
        BY <3>1, <4>1, LinksKept
    <3>4. QED
      BY <3>1, <3>2, <3>3
  <2>6. ASSUME NEW sent \in BOOLEAN, Confirm(c, sent)
        PROVE  ForgottenIsCut' /\ OnePhone'
    <3>1. Still /\ At(c, "confirming")
      BY <2>6 DEF Confirm
    <3>2. LinksStay
      BY <2>6, <3>1, ConfirmEffect DEF LinksStay
    <3>3. QED
      BY <3>1, <3>2, LinksKept
  <2>7. CASE ClosePrevious(c)
    <3>1. Still /\ At(c, "replacing")
      BY <2>7 DEF ClosePrevious, history
    <3>2. /\ conn'[c].stage = "announcing" /\ conn'[c].previous = None
          /\ \A x \in Conns : /\ SameKey(x)
                              /\ x # c => UNCHANGED conn[x].stage /\ UNCHANGED conn[x].previous
                              /\ conn'[x].cut = (conn[x].cut \/ x = conn[c].previous)
      BY <2>7, ClosePreviousEffect
    <3>3. ForgottenIsCut'
      BY <3>1, <3>2 DEF ForgottenIsCut
    <3>4. active' # None => conn'[active'].stage \in Opened \cup {"ending"}
      BY <3>1, <3>2 DEF OnePhone
    <3>5. ASSUME NEW x \in Conns \ {active'}, conn'[x].stage \in Opened
          PROVE  conn'[x].cut \/ \E y \in Conns : conn'[y].previous = x
      <4>1. conn[x].stage \in Opened
        BY <3>1, <3>2, <3>5
      <4>2. conn[x].cut \/ \E y \in Conns : conn[y].previous = x
        BY <3>1, <4>1 DEF OnePhone
      <4>3. QED
        BY <3>2, <4>2
    <3>6. QED
      BY <3>3, <3>4, <3>5 DEF OnePhone
  <2>8. CASE EmitConnected(c)
    <3>1. Still /\ At(c, "announcing")
      BY <2>8 DEF EmitConnected, history
    <3>2. LinksStay
      BY <2>8, <3>1, OpenEffect DEF LinksStay
    <3>3. QED
      BY <3>1, <3>2, LinksKept
  <2>9. CASE End(c)
    <3>1. /\ UNCHANGED forgotten /\ At(c, "ending")
          /\ active' = IF active = c THEN None ELSE active
      BY <2>9 DEF End, ActiveAfter, history
    <3>2. /\ conn'[c].stage = "leaving" /\ UNCHANGED conn[c].previous
          /\ \A x \in Conns \ {c} : conn'[x] = conn[x]
      BY <2>9, EndEffect
    <3>3. ForgottenIsCut'
      BY <3>1, <3>2 DEF ForgottenIsCut
    <3>4. active' # None => conn'[active'].stage \in Opened \cup {"ending"}
      BY <3>1, <3>2 DEF OnePhone
    <3>5. ASSUME NEW x \in Conns \ {active'}, conn'[x].stage \in Opened
          PROVE  conn'[x].cut \/ \E y \in Conns : conn'[y].previous = x
      <4>1. x # c /\ conn'[x] = conn[x] /\ x # active
        BY <3>1, <3>2, <3>5
      <4>2. conn[x].cut \/ \E y \in Conns : conn[y].previous = x
        BY <3>5, <4>1 DEF OnePhone
      <4>3. \A y \in Conns : conn'[y].previous = conn[y].previous
        BY <3>2
      <4>4. QED
        BY <4>1, <4>2, <4>3
    <3>6. QED
      BY <3>3, <3>4, <3>5 DEF OnePhone
  <2>10. CASE EmitDisconnected(c)
    <3>1. Still /\ At(c, "leaving")
      BY <2>10 DEF EmitDisconnected, history
    <3>2. LinksStay
      BY <2>10, <3>1, FreshEffect DEF LinksStay, Fresh
    <3>3. QED
      BY <3>1, <3>2, LinksKept
  <2>11. QED
    BY <1>3, <2>1, <2>2, <2>3, <2>4, <2>5, <2>6, <2>7, <2>8, <2>9, <2>10 DEF ThreadStep
<1>4. ASSUME NEW c \in Conns, PeerStep(c)
      PROVE  ForgottenIsCut' /\ OnePhone'
  <2>1. ASSUME NEW a \in Addresses, Accept(c, a)
        PROVE  ForgottenIsCut' /\ OnePhone'
    <3>1. Still /\ At(c, "free")
      BY <2>1 DEF Accept, history
    <3>2. [Fresh EXCEPT !.stage = "accepted", !.address = a, !.pending = TRUE].previous = None
      BY DEF Fresh
    <3>3. LinksStay
      BY <2>1, <3>1, <3>2, AcceptEffect DEF LinksStay
    <3>4. QED
      BY <3>1, <3>3, LinksKept
  <2>2. ASSUME NEW d \in Devices, PairRequest(c, d)
        PROVE  ForgottenIsCut' /\ OnePhone'
    <3>1. Still /\ At(c, "hello")
      BY <2>2 DEF PairRequest, history
    <3>2. LinksStay
      BY <2>2, <3>1, PairRequestEffect DEF LinksStay
    <3>3. QED
      BY <3>1, <3>2, LinksKept
  <2>3. ASSUME NEW d \in Devices, Hello(c, d)
        PROVE  ForgottenIsCut' /\ OnePhone'
    <3>1. Still /\ At(c, "hello")
      BY <2>3 DEF Hello, history
    <3>2. LinksStay
      BY <2>3, <3>1, HelloEffect DEF LinksStay
    <3>3. QED
      BY <3>1, <3>2, LinksKept
  <2>4. CASE Authenticate(c) /\ running /\ Paired(c)
    <3>1. active' = c /\ UNCHANGED forgotten /\ At(c, "auth")
      BY <2>4 DEF Authenticate, history
    <3>2. /\ conn'[c].stage = "replacing" /\ conn'[c].previous = active /\ SameKey(c)
          /\ \A x \in Conns \ {c} : conn'[x] = conn[x]
      BY <2>4, TakeOverEffect
    <3>3. conn[c].key \notin forgotten
      <4>1. conn[c].device \in Devices /\ devices[conn[c].device] = conn[c].key
        BY <2>4 DEF Paired, TypeOK, Session
      <4>2. conn[c].key \in Range(devices)
        BY <4>1, TableTypes, RangeOf
      <4>3. ui # "stopped"
        BY <3>1, WorkingIsUp
      <4>4. QED
        BY <4>2, <4>3 DEF Forgotten
    <3>4. ForgottenIsCut'
      BY <3>1, <3>2, <3>3 DEF ForgottenIsCut
    <3>5. ASSUME NEW x \in Conns \ {c}, conn'[x].stage \in Opened
          PROVE  conn'[x].cut \/ \E y \in Conns : conn'[y].previous = x
      <4>1. CASE x = active
        BY <3>2, <4>1
      <4>2. CASE x # active
        <5>1. conn[x].cut \/ \E y \in Conns : conn[y].previous = x
          BY <3>2, <3>5, <4>2 DEF OnePhone
        <5>2. \A y \in Conns : conn[y].previous = x => y # c
          BY <3>1
        <5>3. QED
          BY <3>2, <5>1, <5>2
      <4>3. QED
        BY <4>1, <4>2
    <3>6. QED
      BY <3>1, <3>2, <3>4, <3>5 DEF OnePhone
  <2>5. CASE Authenticate(c) /\ ~(running /\ Paired(c))
    <3>1. Still /\ At(c, "auth")
      BY <2>5 DEF Authenticate, history
    <3>2. LinksStay
      BY <2>5, <3>1, RefusedEffect DEF LinksStay
    <3>3. QED
      BY <3>1, <3>2, LinksKept
  <2>6. CASE Rename(c)
    <3>1. Still /\ At(c, "open")
      BY <2>6 DEF Rename, history
    <3>2. LinksStay
      BY <2>6, <3>1, RenameEffect DEF LinksStay
    <3>3. QED
      BY <3>1, <3>2, LinksKept
  <2>7. CASE Reject(c)
    <3>1. Still /\ conn[c].stage \in Handshake /\ Rejected(c)
      BY <2>7 DEF Reject, history
    <3>2. LinksStay
      BY <3>1, RejectedEffect DEF LinksStay
    <3>3. QED
      BY <3>1, <3>2, LinksKept
  <2>8. CASE Leave(c)
    <3>1. Still /\ conn[c].stage \in Handshake \cup {"open"}
      BY <2>8 DEF Leave, history
    <3>2. LinksStay
      BY <2>8, <3>1, LeaveEffect DEF LinksStay
    <3>3. QED
      BY <3>1, <3>2, LinksKept
  <2>9. QED
    BY <1>4, <2>1, <2>2, <2>3, <2>4, <2>5, <2>6, <2>7, <2>8 DEF PeerStep
<1>5. CASE CloseSessions
  <2>1. Still /\ conn' = Closed(Registered)
    BY <1>5 DEF CloseSessions, history
  <2>2. LinksStay
    BY <2>1, ClosedEffect DEF LinksStay, OnlyCuts
  <2>3. QED
    BY <2>1, <2>2, LinksKept
<1>6. ASSUME NEW d \in Devices, Forget(d)
      PROVE  ForgottenIsCut' /\ OnePhone'
  <2>1. /\ active' = active /\ conn' = Closed(SessionsOf(d)) /\ devices[d] # 0
        /\ forgotten' = forgotten \cup {devices[d]}
    BY <1>6 DEF Forget
  <2>2. \A x \in Conns : /\ UNCHANGED conn[x].stage /\ UNCHANGED conn[x].previous /\ SameKey(x)
                         /\ conn'[x].cut = (conn[x].cut \/ x \in SessionsOf(d))
    BY <2>1, ClosedEffect DEF OnlyCuts
  <2>3. ASSUME NEW x \in Conns, conn'[x].stage \in Opened, conn'[x].key \in forgotten'
        PROVE  conn'[x].cut
    <3>1. CASE conn[x].key \in forgotten
      BY <2>2, <2>3, <3>1 DEF ForgottenIsCut
    <3>2. CASE conn[x].key = devices[d]
      <4>1. devices[d] \in Keys
        BY <2>1 DEF TypeOK
      <4>2. conn[x].device \in Devices
        <5>1. conn[x].device \in Devices \cup {None}
          BY DEF Session
        <5>2. conn[x].device # None
          BY <2>1, <3>2 DEF Places, Placed
        <5>3. QED
          BY <5>1, <5>2
      <4>3. conn[x].device = d
        BY <3>2, <4>1, <4>2 DEF OneOwner, Holds
      <4>4. x \in SessionsOf(d)
        BY <2>2, <2>3, <4>3 DEF SessionsOf, Registered
      <4>5. QED
        BY <2>2, <4>4
    <3>3. QED
      BY <2>1, <2>2, <2>3, <3>1, <3>2
  <2>4. OnePhone'
    <3>1. active' # None => conn'[active'].stage \in Opened \cup {"ending"}
      BY <2>1, <2>2 DEF OnePhone
    <3>2. ASSUME NEW x \in Conns \ {active'}, conn'[x].stage \in Opened
          PROVE  conn'[x].cut \/ \E y \in Conns : conn'[y].previous = x
      <4>1. conn[x].cut \/ \E y \in Conns : conn[y].previous = x
        BY <2>1, <2>2, <3>2 DEF OnePhone
      <4>2. QED
        BY <2>2, <4>1
    <3>3. QED
      BY <3>1, <3>2 DEF OnePhone
  <2>5. QED
    BY <2>3, <2>4 DEF ForgottenIsCut
<1>7. CASE JoinWorkers \/ Crash
  <2>1. active' = None /\ \A x \in Conns : conn'[x].stage = "free"
    BY <1>7 DEF JoinWorkers, Crash, Fresh
  <2>2. QED
    BY <2>1 DEF ForgottenIsCut, OnePhone
<1>8. CASE BeginForgetSave \/ CreatePairingUri \/ InviteExpires \/ BeginStop \/ UNCHANGED vars
           \/ \E written \in BOOLEAN : EndForgetSave(written)
  <2>1. Still /\ UNCHANGED conn
    BY <1>8 DEF BeginForgetSave, CreatePairingUri, InviteExpires, BeginStop, vars, EndForgetSave,
                history
  <2>2. QED
    BY <2>1 DEF ForgottenIsCut, OnePhone
<1>9. CASE Start
  <2>1. UNCHANGED <<active, conn>> /\ forgotten' \subseteq forgotten
    BY <1>9 DEF Start
  <2>2. QED
    BY <2>1 DEF ForgottenIsCut, OnePhone
<1>10. QED
  BY <1>3, <1>4, <1>5, <1>6, <1>7, <1>8, <1>9 DEF Next, UiStep

-----------------------------------------------------------------------------
(* The slots that are held, for a set of addresses.                         *)
HeldIn(S) == {x \in Conns : conn[x].pending /\ conn[x].address \in S}

Limits ==
  /\ pendingHandshakes = Cardinality(HeldIn(Addresses)) /\ pendingHandshakes <= MaxPending
  /\ \A a \in Addresses : pendingByAddress[a] = Cardinality(HeldIn({a}))
                          /\ pendingByAddress[a] <= MaxPerAddress

Handed(c) == conn[c].pending => conn[c].stage \notin Opened \cup {"free", "leaving"}

(* The accounting of slots, in the two parts the steps change.              *)
LEMMA SlotParts == SlotAccounting <=> Limits /\ \A c \in Conns : Handed(c)
BY DEF SlotAccounting, Limits, HeldIn, Handed

(* There are finitely many slots in use.                                    *)
LEMMA HeldFinite == \A S : IsFiniteSet(HeldIn(S)) /\ Cardinality(HeldIn(S)) \in Nat
<1>1. \A S : HeldIn(S) \subseteq Conns
  BY DEF HeldIn
<1>2. QED
  BY <1>1, ConstantsAssumption, FS_Subset, FS_CardinalityType

(* Nothing is taken and nothing given back: the sets are the same.          *)
LEMMA LimitsKept ==
  ASSUME Limits, UNCHANGED slots,
         \A x \in Conns : /\ UNCHANGED conn[x].pending
                          /\ conn[x].pending => UNCHANGED conn[x].address
  PROVE  Limits'
<1>1. \A S : {x \in Conns : conn'[x].pending /\ conn'[x].address \in S} = HeldIn(S)
  BY DEF HeldIn
<1>2. HeldIn(Addresses)' = HeldIn(Addresses) /\ \A a \in Addresses : HeldIn({a})' = HeldIn({a})
  BY <1>1 DEF HeldIn
<1>3. QED
  BY <1>2 DEF Limits, slots

(* One connection gives its slot back: each set it was in loses it.         *)
LEMMA LimitsReleased ==
  ASSUME TypeOK, Places, Limits, NEW c \in Conns, ReleaseSlot(c), ~conn'[c].pending,
         \A x \in Conns \ {c} : conn'[x] = conn[x]
  PROVE  Limits'
<1>1. \A S : {x \in Conns : conn'[x].pending /\ conn'[x].address \in S} = HeldIn(S) \ {c}
  BY DEF HeldIn
<1>2. /\ HeldIn(Addresses)' = HeldIn(Addresses) \ {c}
      /\ \A a \in Addresses : HeldIn({a})' = HeldIn({a}) \ {c}
  BY <1>1 DEF HeldIn
<1>3. CASE ~conn[c].pending
  <2>1. \A S : HeldIn(S) \ {c} = HeldIn(S)
    BY <1>3 DEF HeldIn
  <2>2. UNCHANGED slots
    BY <1>3 DEF ReleaseSlot
  <2>3. QED
    BY <1>2, <2>1, <2>2 DEF Limits, slots
<1>4. CASE conn[c].pending
  <2> DEFINE b == conn[c].address
  <2>1. b \in Addresses /\ c \in HeldIn(Addresses) /\ c \in HeldIn({b})
    BY <1>4 DEF Places, Placed, HeldIn
  <2>2. \A a \in Addresses \ {b} : c \notin HeldIn({a})
    BY DEF HeldIn
  <2>3. \A S : c \in HeldIn(S) => Cardinality(HeldIn(S) \ {c}) = Cardinality(HeldIn(S)) - 1
    BY HeldFinite, FS_RemoveElement
  <2>4. \A S : c \notin HeldIn(S) => HeldIn(S) \ {c} = HeldIn(S)
    OBVIOUS
  <2>5. /\ pendingHandshakes' = pendingHandshakes - 1
        /\ pendingByAddress' = [pendingByAddress EXCEPT ![b] = @ - 1]
    BY <1>4 DEF ReleaseSlot
  <2>6. pendingByAddress \in [Addresses -> Nat] /\ pendingHandshakes \in Nat
    BY DEF TypeOK
  <2> HIDE DEF b
  <2>7. /\ pendingHandshakes' = Cardinality(HeldIn(Addresses)')
        /\ pendingHandshakes' <= MaxPending
    BY <1>2, <2>1, <2>3, <2>5, <2>6, ConstantsAssumption DEF Limits
  <2>8. ASSUME NEW a \in Addresses
        PROVE  /\ pendingByAddress'[a] = Cardinality(HeldIn({a})')
               /\ pendingByAddress'[a] <= MaxPerAddress
    <3>1. CASE a = b
      BY <1>2, <2>1, <2>3, <2>5, <2>6, <3>1, ConstantsAssumption DEF Limits
    <3>2. CASE a # b
      BY <1>2, <2>2, <2>4, <2>5, <2>6, <3>2 DEF Limits
    <3>3. QED
      BY <3>1, <3>2
  <2>9. QED
    BY <2>7, <2>8 DEF Limits
<1>5. QED
  BY <1>3, <1>4

(* Accept takes one slot, where there was room.                             *)
LEMMA LimitsTaken ==
  ASSUME TypeOK, Places, Limits, NEW c \in Conns, NEW a \in Addresses, Accept(c, a)
  PROVE  Limits' /\ conn'[c].stage = "accepted" /\ \A x \in Conns \ {c} : conn'[x] = conn[x]
<1>1. /\ \A x \in Conns \ {c} : conn'[x] = conn[x]
      /\ conn'[c].pending /\ conn'[c].address = a /\ conn'[c].stage = "accepted"
  <2> DEFINE r == [Fresh EXCEPT !.stage = "accepted", !.address = a, !.pending = TRUE]
  <2>1. Moves(c, "accepted") /\ conn'[c] = r
    BY AcceptEffect
  <2>2. r.pending /\ r.address = a
    BY DEF Fresh
  <2>3. QED
    BY <2>1, <2>2 DEF Moves
<1>2. ~conn[c].pending
  BY DEF Accept, Places, Placed, At
<1>3. \A S : {x \in Conns : conn'[x].pending /\ conn'[x].address \in S}
             = IF a \in S THEN HeldIn(S) \cup {c} ELSE HeldIn(S)
  BY <1>1, <1>2 DEF HeldIn
<1>4. /\ HeldIn(Addresses)' = HeldIn(Addresses) \cup {c}
      /\ \A b \in Addresses : HeldIn({b})' = IF b = a THEN HeldIn({b}) \cup {c} ELSE HeldIn({b})
  BY <1>3 DEF HeldIn
<1>5. \A S : Cardinality(HeldIn(S) \cup {c}) = Cardinality(HeldIn(S)) + 1
  <2>1. \A S : c \notin HeldIn(S)
    BY <1>2 DEF HeldIn
  <2>2. QED
    BY <2>1, HeldFinite, FS_AddElement
<1>6. /\ pendingHandshakes < MaxPending /\ pendingByAddress[a] < MaxPerAddress
      /\ pendingHandshakes' = pendingHandshakes + 1
      /\ pendingByAddress' = [pendingByAddress EXCEPT ![a] = @ + 1]
  BY DEF Accept, HasRoom
<1>7. pendingByAddress \in [Addresses -> Nat] /\ pendingHandshakes \in Nat
  BY DEF TypeOK
<1>8. /\ pendingHandshakes' = Cardinality(HeldIn(Addresses)')
      /\ pendingHandshakes' <= MaxPending
  BY <1>4, <1>5, <1>6, <1>7, ConstantsAssumption DEF Limits
<1>9. ASSUME NEW b \in Addresses
      PROVE  /\ pendingByAddress'[b] = Cardinality(HeldIn({b})')
             /\ pendingByAddress'[b] <= MaxPerAddress
  <2>1. CASE b = a
    <3>1. HeldIn({a})' = HeldIn({a}) \cup {c} /\ pendingByAddress[a] = Cardinality(HeldIn({a}))
      BY <1>4 DEF Limits
    <3>2. pendingByAddress'[a] = pendingByAddress[a] + 1 /\ pendingByAddress[a] \in Nat
      BY <1>6, <1>7
    <3>3. pendingByAddress'[a] <= MaxPerAddress
      BY <1>6, <3>2, ConstantsAssumption
    <3>4. QED
      BY <1>5, <2>1, <3>1, <3>2, <3>3
  <2>2. CASE b # a
    BY <1>4, <1>6, <1>7, <2>2 DEF Limits
  <2>3. QED
    BY <2>1, <2>2
<1>10. QED
  BY <1>1, <1>8, <1>9 DEF Limits

(* No connection holds a slot.                                              *)
LEMMA LimitsEmpty ==
  ASSUME pendingHandshakes = 0, pendingByAddress = [a \in Addresses |-> 0],
         \A x \in Conns : ~conn[x].pending
  PROVE  SlotAccounting
<1>1. \A S : HeldIn(S) = {}
  BY DEF HeldIn
<1>2. Cardinality({}) = 0
  BY FS_EmptySet
<1>3. Limits
  BY <1>1, <1>2, ConstantsAssumption DEF Limits
<1>4. QED
  BY <1>3, SlotParts DEF Handed

(* Every slot that is taken is given back once.                             *)
LEMMA SlotsStep ==
  ASSUME TypeOK, Places, SlotAccounting, [Next]_vars
  PROVE  SlotAccounting'
<1>1. Limits /\ \A x \in Conns : Handed(x)
  BY SlotParts
<1>2. SlotAccounting' <=> Limits' /\ \A x \in Conns : Handed(x)'
  BY DEF SlotAccounting, Limits, HeldIn, Handed
<1> USE DEF At, Opened, Pairing, Handshake
<1> DEFINE Kept == /\ UNCHANGED slots
                   /\ \A x \in Conns : /\ SameSlot(x)
                                       /\ conn[x].stage \notin Opened \cup {"free", "leaving"}
                                          => conn'[x].stage \notin Opened \cup {"free", "leaving"}
<1>3. ASSUME Kept
      PROVE  SlotAccounting'
  BY <1>1, <1>2, <1>3, LimitsKept DEF SameSlot, Handed
<1>4. ASSUME NEW c \in Conns, ReleaseSlot(c), ~conn'[c].pending,
             \A x \in Conns \ {c} : conn'[x] = conn[x]
      PROVE  SlotAccounting'
  BY <1>1, <1>2, <1>4, LimitsReleased DEF Handed
<1>5. ASSUME NEW c \in Conns, ThreadStep(c)
      PROVE  SlotAccounting'
  <2>1. CASE Register(c) /\ running
    <3>1. UNCHANGED slots /\ At(c, "accepted")
      BY <2>1 DEF Register
    <3>2. QED
      BY <2>1, <3>1, <1>3, RegisterEffect DEF Moves, SameSlot
  <2>2. CASE Register(c) /\ ~running
    <3>1. ReleaseSlot(c)
      BY <2>2 DEF Register
    <3>2. ~conn'[c].pending /\ \A x \in Conns \ {c} : conn'[x] = conn[x]
      BY <2>2, FreshEffect DEF Moves, Fresh
    <3>3. QED
      BY <1>4, <3>1, <3>2
  <2>3. CASE ConsumeToken(c) /\ StillShown(c)
    <3>1. UNCHANGED slots /\ At(c, "deriving")
      BY <2>3 DEF ConsumeToken
    <3>2. QED
      BY <2>3, <3>1, <1>3, ConsumeEffect DEF Moves, SameSlot
  <2>4. CASE ConsumeToken(c) /\ ~StillShown(c)
    <3>1. Rejected(c)
      BY <2>4 DEF ConsumeToken
    <3>2. QED
      BY <3>1, <1>4, RejectedEffect DEF Rejected, Moves
  <2>5. CASE BeginSave(c)
    <3>1. UNCHANGED slots /\ (At(c, "pairSave") \/ At(c, "nameSave"))
      BY <2>5 DEF BeginSave
    <3>2. QED
      BY <2>5, <3>1, <1>3, PairSaveEffect, NameSaveEffect DEF Moves, SameSlot
  <2>6. CASE Rollback(c)
    <3>1. UNCHANGED slots /\ At(c, "pairFailed")
      BY <2>6 DEF Rollback
    <3>2. QED
      BY <2>6, <3>1, <1>3, RollbackEffect DEF Moves, SameSlot
  <2>7. ASSUME NEW written \in BOOLEAN, EndSave(c, written)
        PROVE  SlotAccounting'
    <3>1. UNCHANGED slots /\ (At(c, "pairSaving") \/ At(c, "nameSaving"))
      BY <2>7 DEF EndSave
    <3>2. QED
      BY <2>7, <3>1, <1>3, PairSavedEffect, NameSavedEffect DEF Moves, SameSlot
  <2>8. ASSUME NEW sent \in BOOLEAN, Confirm(c, sent)
        PROVE  SlotAccounting'
    <3>1. UNCHANGED slots /\ At(c, "confirming")
      BY <2>8 DEF Confirm
    <3>2. QED
      BY <2>8, <3>1, <1>3, ConfirmEffect DEF Moves, SameSlot
  <2>9. CASE ClosePrevious(c)
    <3>1. UNCHANGED slots /\ At(c, "replacing")
      BY <2>9 DEF ClosePrevious
    <3>2. QED
      BY <2>9, <3>1, <1>3, ClosePreviousEffect
  <2>10. CASE EmitConnected(c)
    <3>1. UNCHANGED slots /\ At(c, "announcing")
      BY <2>10 DEF EmitConnected
    <3>2. QED
      BY <2>10, <3>1, <1>3, OpenEffect DEF Moves, SameSlot
  <2>11. CASE End(c)
    <3>1. ReleaseSlot(c)
      BY <2>11 DEF End
    <3>2. QED
      BY <2>11, <3>1, <1>4, EndEffect DEF Moves
  <2>12. CASE EmitDisconnected(c)
    <3>1. UNCHANGED slots /\ At(c, "leaving") /\ ~conn[c].pending
      BY <1>1, <2>12 DEF EmitDisconnected, Handed
    <3>2. ReleaseSlot(c)
      BY <3>1 DEF ReleaseSlot
    <3>3. ~conn'[c].pending /\ \A x \in Conns \ {c} : conn'[x] = conn[x]
      BY <2>12, FreshEffect DEF Moves, Fresh
    <3>4. QED
      BY <1>4, <3>2, <3>3
  <2>13. QED
    BY <1>5, <2>1, <2>2, <2>3, <2>4, <2>5, <2>6, <2>7, <2>8, <2>9, <2>10, <2>11, <2>12
       DEF ThreadStep
<1>6. ASSUME NEW c \in Conns, PeerStep(c)
      PROVE  SlotAccounting'
  <2>1. ASSUME NEW a \in Addresses, Accept(c, a)
        PROVE  SlotAccounting'
    BY <1>1, <1>2, <2>1, LimitsTaken DEF Handed
  <2>2. ASSUME NEW d \in Devices, PairRequest(c, d)
        PROVE  SlotAccounting'
    <3>1. UNCHANGED slots /\ At(c, "hello")
      BY <2>2 DEF PairRequest
    <3>2. QED
      BY <2>2, <3>1, <1>3, PairRequestEffect DEF Moves, SameSlot
  <2>3. ASSUME NEW d \in Devices, Hello(c, d)
        PROVE  SlotAccounting'
    <3>1. UNCHANGED slots /\ At(c, "hello")
      BY <2>3 DEF Hello
    <3>2. QED
      BY <2>3, <3>1, <1>3, HelloEffect DEF Moves, SameSlot
  <2>4. CASE Authenticate(c) /\ running /\ Paired(c)
    <3>1. ReleaseSlot(c)
      BY <2>4 DEF Authenticate
    <3>2. QED
      BY <2>4, <3>1, <1>4, TakeOverEffect DEF Moves
  <2>5. CASE Authenticate(c) /\ ~(running /\ Paired(c))
    <3>1. UNCHANGED slots /\ At(c, "auth")
      BY <2>5 DEF Authenticate
    <3>2. QED
      BY <2>5, <3>1, <1>3, RefusedEffect DEF Moves, SameSlot
  <2>6. CASE Rename(c)
    <3>1. UNCHANGED slots /\ At(c, "open")
      BY <2>6 DEF Rename
    <3>2. QED
      BY <2>6, <3>1, <1>3, RenameEffect DEF Moves, SameSlot
  <2>7. CASE Reject(c)
    <3>1. Rejected(c)
      BY <2>7 DEF Reject
    <3>2. QED
      BY <3>1, <1>4, RejectedEffect DEF Rejected, Moves
  <2>8. CASE Leave(c)
    <3>1. UNCHANGED slots /\ conn[c].stage \in Handshake \cup {"open"}
      BY <2>8 DEF Leave
    <3>2. QED
      BY <2>8, <3>1, <1>3, LeaveEffect DEF Moves, SameSlot
  <2>9. QED
    BY <1>6, <2>1, <2>2, <2>3, <2>4, <2>5, <2>6, <2>7, <2>8 DEF PeerStep
<1>7. CASE CloseSessions \/ \E d \in Devices : Forget(d)
  <2>1. UNCHANGED slots /\ \E cs : conn' = Closed(cs)
    BY <1>7 DEF CloseSessions, Forget
  <2>2. QED
    BY <2>1, <1>3, ClosedEffect DEF OnlyCuts
<1>8. CASE Crash
  <2>1. /\ pendingHandshakes' = 0 /\ pendingByAddress' = [a \in Addresses |-> 0]
        /\ \A x \in Conns : ~conn'[x].pending
    BY <1>8 DEF Crash, Fresh
  <2>2. HeldIn(Addresses)' = {} /\ \A a \in Addresses : HeldIn({a})' = {}
    BY <2>1 DEF HeldIn
  <2>3. Cardinality({}) = 0
    BY FS_EmptySet
  <2>4. MaxPending \in Nat /\ MaxPerAddress \in Nat
    BY ConstantsAssumption
  <2>5. Limits'
    <3>1. pendingHandshakes' = Cardinality(HeldIn(Addresses)') /\ pendingHandshakes' <= MaxPending
      BY <2>1, <2>2, <2>3, <2>4
    <3>2. ASSUME NEW a \in Addresses
          PROVE  /\ pendingByAddress'[a] = Cardinality(HeldIn({a})')
                 /\ pendingByAddress'[a] <= MaxPerAddress
      <4>1. pendingByAddress'[a] = 0
        BY <2>1
      <4>2. HeldIn({a})' = {}
        BY <2>2
      <4>3. QED
        BY <2>3, <2>4, <4>1, <4>2
    <3>3. QED
      BY <3>1, <3>2 DEF Limits
  <2>6. QED
    BY <1>2, <2>1, <2>5 DEF Handed
<1>9. CASE BeginForgetSave \/ CreatePairingUri \/ InviteExpires \/ BeginStop \/ JoinWorkers
           \/ Start \/ UNCHANGED vars \/ \E written \in BOOLEAN : EndForgetSave(written)
  <2>1. UNCHANGED <<slots, conn>>
    BY <1>9 DEF BeginForgetSave, CreatePairingUri, InviteExpires, BeginStop, JoinWorkers, Start,
                vars, EndForgetSave
  <2>2. QED
    BY <2>1, <1>3 DEF SameSlot
<1>10. QED
  BY <1>5, <1>6, <1>7, <1>8, <1>9 DEF Next, UiStep

-----------------------------------------------------------------------------
(* Stop.  A connection that has not registered or is on its way out needs   *)
(* no Close; while the workers are joined none registers and none is new.   *)
Barred(r) == r.stage \in {"free", "accepted", "leaving"} \/ r.cut

LEMMA StopParts == StopCutsAll <=> (ui = "joining" => \A c \in Conns : Barred(conn[c]))
BY DEF StopCutsAll, Registered, Barred

LEMMA StopPartsNext ==
  StopCutsAll' <=> (ui' = "joining" => \A c \in Conns : Barred(conn'[c]))
BY DEF StopCutsAll, Registered, Barred

(* A step that does not let a connection of a stopped service in.           *)
StaysBarred(c) ==
  /\ UNCHANGED ui
  /\ \A x \in Conns \ {c} : Barred(conn[x]) => Barred(conn'[x])
  /\ ui = "joining" /\ Barred(conn[c]) => Barred(conn'[c])

LEMMA StopStep ==
  ASSUME TypeOK, Places, StopCutsAll, [Next]_vars
  PROVE  StopCutsAll'
<1>1. conn \in [Conns -> Session] /\ (ui = "joining" => ~running)
  BY DEF TypeOK, Places, Stopped
<1>2. ASSUME NEW c \in Conns, StaysBarred(c)
      PROVE  StopCutsAll'
  BY <1>2, StopParts, StopPartsNext DEF StaysBarred
<1>3. ASSUME NEW c \in Conns, NEW s, Moves(c, s), UNCHANGED ui, conn[c].cut => conn'[c].cut,
             conn[c].stage \notin {"free", "accepted", "leaving"}
      PROVE  StopCutsAll'
  <2>1. StaysBarred(c)
    BY <1>3 DEF StaysBarred, Moves, Barred
  <2>2. QED
    BY <1>2, <2>1
<1> USE DEF SameLink, At
<1>4. ASSUME NEW c \in Conns, ThreadStep(c)
      PROVE  StopCutsAll'
  <2>1. CASE Register(c) \/ EmitDisconnected(c)
    <3>1. UNCHANGED ui
      BY <2>1 DEF Register, EmitDisconnected
    <3>2. CASE Register(c) /\ running
      <4>1. StaysBarred(c)
        BY <1>1, <3>1, <3>2, RegisterEffect DEF StaysBarred, Moves
      <4>2. QED
        BY <1>2, <4>1
    <3>3. CASE ~(Register(c) /\ running)
      <4>1. Moves(c, "free")
        BY <2>1, <3>3, FreshEffect
      <4>2. StaysBarred(c)
        BY <3>1, <4>1 DEF StaysBarred, Moves, Barred
      <4>3. QED
        BY <1>2, <4>2
    <3>4. QED
      BY <3>2, <3>3
  <2>2. CASE ConsumeToken(c)
    <3>1. At(c, "deriving") /\ UNCHANGED ui
      BY <2>2 DEF ConsumeToken
    <3>2. CASE StillShown(c)
      BY <1>3, <2>2, <3>1, <3>2, ConsumeEffect
    <3>3. CASE ~StillShown(c)
      <4>1. Rejected(c)
        BY <2>2, <3>3 DEF ConsumeToken
      <4>2. QED
        BY <1>3, <3>1, <4>1, RejectedEffect
    <3>4. QED
      BY <3>2, <3>3
  <2>3. CASE BeginSave(c)
    BY <1>3, <2>3, PairSaveEffect, NameSaveEffect DEF BeginSave
  <2>4. CASE Rollback(c)
    BY <1>3, <2>4, RollbackEffect DEF Rollback, SameLink
  <2>5. ASSUME NEW written \in BOOLEAN, EndSave(c, written)
        PROVE  StopCutsAll'
    BY <1>3, <2>5, PairSavedEffect, NameSavedEffect DEF EndSave
  <2>6. ASSUME NEW sent \in BOOLEAN, Confirm(c, sent)
        PROVE  StopCutsAll'
    <3>1. At(c, "confirming") /\ UNCHANGED ui
      BY <2>6 DEF Confirm
    <3>2. QED
      BY <1>3, <2>6, <3>1, ConfirmEffect
  <2>7. CASE ClosePrevious(c)
    <3>1. At(c, "replacing") /\ UNCHANGED ui
      BY <2>7 DEF ClosePrevious
    <3>2. StaysBarred(c)
      BY <2>7, <3>1, ClosePreviousEffect DEF StaysBarred, Barred
    <3>3. QED
      BY <1>2, <3>2
  <2>8. CASE EmitConnected(c)
    BY <1>3, <2>8, OpenEffect DEF EmitConnected
  <2>9. CASE End(c)
    <3>1. At(c, "ending") /\ UNCHANGED ui
      BY <2>9 DEF End
    <3>2. QED
      BY <1>3, <2>9, <3>1, EndEffect
  <2>10. QED
    BY <1>4, <2>1, <2>2, <2>3, <2>4, <2>5, <2>6, <2>7, <2>8, <2>9 DEF ThreadStep
<1>5. ASSUME NEW c \in Conns, PeerStep(c)
      PROVE  StopCutsAll'
  <2>1. ASSUME NEW a \in Addresses, Accept(c, a)
        PROVE  StopCutsAll'
    BY <1>1, <2>1, StopPartsNext DEF Accept
  <2>2. ASSUME NEW d \in Devices, PairRequest(c, d)
        PROVE  StopCutsAll'
    <3>1. At(c, "hello") /\ UNCHANGED ui
      BY <2>2 DEF PairRequest
    <3>2. QED
      BY <1>3, <2>2, <3>1, PairRequestEffect
  <2>3. ASSUME NEW d \in Devices, Hello(c, d)
        PROVE  StopCutsAll'
    <3>1. At(c, "hello") /\ UNCHANGED ui
      BY <2>3 DEF Hello
    <3>2. QED
      BY <1>3, <2>3, <3>1, HelloEffect
  <2>4. CASE Authenticate(c)
    <3>1. At(c, "auth") /\ UNCHANGED ui
      BY <2>4 DEF Authenticate
    <3>2. CASE running /\ Paired(c)
      BY <1>3, <2>4, <3>1, <3>2, TakeOverEffect
    <3>3. CASE ~(running /\ Paired(c))
      BY <1>3, <2>4, <3>1, <3>3, RefusedEffect
    <3>4. QED
      BY <3>2, <3>3
  <2>5. CASE Rename(c)
    BY <1>3, <2>5, RenameEffect DEF Rename
  <2>6. CASE Reject(c)
    BY <1>3, <2>6, RejectedEffect DEF Reject, Handshake
  <2>7. CASE Leave(c)
    BY <1>3, <2>7, LeaveEffect DEF Leave, Handshake
  <2>8. QED
    BY <1>5, <2>1, <2>2, <2>3, <2>4, <2>5, <2>6, <2>7 DEF PeerStep
<1>6. CASE CloseSessions
  <2>1. OnlyCuts(Registered)
    BY <1>6, ClosedEffect DEF CloseSessions
  <2>2. \A c \in Conns : Barred(conn'[c])
    BY <2>1 DEF OnlyCuts, Registered, Barred
  <2>3. QED
    BY <2>2, StopPartsNext
<1>7. CASE \/ BeginForgetSave \/ \E written \in BOOLEAN : EndForgetSave(written)
           \/ JoinWorkers \/ BeginStop \/ Start \/ Crash
           \/ \E d \in Devices : Forget(d)
  <2>1. ui' # "joining"
    BY <1>7 DEF BeginForgetSave, EndForgetSave, JoinWorkers, BeginStop, Start, Crash, Forget
  <2>2. QED
    BY <2>1, StopPartsNext
<1>8. CASE CreatePairingUri \/ InviteExpires \/ UNCHANGED vars
  <2>1. UNCHANGED <<ui, conn>>
    BY <1>8 DEF CreatePairingUri, InviteExpires, vars
  <2>2. QED
    BY <2>1, StopParts, StopPartsNext
<1>9. QED
  BY <1>4, <1>5, <1>6, <1>7, <1>8 DEF Next, UiStep

-----------------------------------------------------------------------------
(* No service runs, and nobody was ever paired.                             *)
NothingYet ==
  /\ running = FALSE /\ ui = "stopped"
  /\ conn = [c \in Conns |-> Fresh] /\ active = None
  /\ devices = NoDevices /\ saved = NoDevices /\ snapshot = [t \in Savers |-> NoDevices]
  /\ invite = 0 /\ inviteLive = FALSE /\ invites = 0 /\ starts \in {0, MaxStarts}
  /\ pendingHandshakes = 0 /\ pendingByAddress = [a \in Addresses |-> 0]
  /\ uses = [k \in Keys |-> 0]
  /\ confirmed = {} /\ replaced = {} /\ forgotten = {} /\ erased = {}

(* The service starts within its invariant, also when it is over.           *)
LEMMA Initially == Init \/ ServiceOver => IInv
<1>1. Init \/ ServiceOver => NothingYet
  BY DEF Init, ServiceOver, NothingYet
<1>2. SUFFICES ASSUME NothingYet
                PROVE  IInv
  BY <1>1
<1>3. TypeOK
  <2>1. conn \in [Conns -> Session] /\ active \in Conns \cup {None}
    BY <1>2, FreshType DEF NothingYet
  <2>2. /\ {devices, saved} \subseteq [Devices -> Keys \cup {0}]
        /\ snapshot \in [Savers -> [Devices -> Keys \cup {0}]]
    BY <1>2 DEF NothingYet, NoDevices
  <2>3. MaxStarts \in Nat
    BY ConstantsAssumption
  <2>4. /\ running \in BOOLEAN /\ inviteLive \in BOOLEAN /\ ui = "stopped"
        /\ invite = 0 /\ invites = 0 /\ starts \in 0 .. MaxStarts
        /\ pendingHandshakes \in Nat /\ pendingByAddress \in [Addresses -> Nat]
        /\ uses \in [Keys -> Nat]
    <3>1. starts \in 0 .. MaxStarts
      BY <1>2, <2>3 DEF NothingYet
    <3>2. uses \in [Keys -> Nat] /\ pendingByAddress \in [Addresses -> Nat]
      BY <1>2 DEF NothingYet
    <3>3. /\ running \in BOOLEAN /\ inviteLive \in BOOLEAN /\ ui = "stopped"
          /\ invite = 0 /\ invites = 0 /\ pendingHandshakes \in Nat
      BY <1>2 DEF NothingYet
    <3>4. QED
      BY <3>1, <3>2, <3>3
  <2>5. {confirmed, replaced, forgotten, erased} \subseteq SUBSET Keys
    BY <1>2 DEF NothingYet
  <2>6. QED
    BY <2>1, <2>2, <2>4, <2>5 DEF TypeOK
<1>4. Places
  BY <1>2 DEF NothingYet, Places, Placed, At, Stopped, Fresh
<1>5. SlotAccounting
  BY <1>2, LimitsEmpty DEF NothingYet, Fresh
<1>6. Tokens /\ SingleUse
  BY <1>2 DEF NothingYet, Tokens, SingleUse, Consumed, Fresh, Keys
<1>7. OneOwner
  BY <1>2 DEF NothingYet, OneOwner, Holds, NoDevices, Fresh, Keys, Savers
<1>8. OneSaver
  BY <1>2 DEF NothingYet, OneSaver, Saving, Fresh
<1>9. Forgotten
  BY <1>2 DEF NothingYet, Forgotten, ForgottenStaysForgotten
<1>10. Durable
  <2>1. Promised = {} /\ Saving = {}
    BY <1>2 DEF NothingYet, Promised, Saving, At, Fresh
  <2>2. QED
    BY <1>2, <2>1 DEF NothingYet, Durable, At, Fresh
<1>11. ForgottenIsCut /\ OnePhone
  BY <1>2 DEF NothingYet, ForgottenIsCut, OnePhone, Opened, Fresh
<1>12. StopCutsAll
  BY <1>2 DEF NothingYet, StopCutsAll
<1>13. QED
  BY <1>3, <1>4, <1>5, <1>6, <1>7, <1>8, <1>9, <1>10, <1>11, <1>12 DEF IInv

(* The invariant holds after every step.                                    *)
LEMMA Inductive == IInv /\ [Next]_vars => IInv'
<1> SUFFICES ASSUME IInv, [Next]_vars
             PROVE  IInv'
  OBVIOUS
<1>1. TypeOK' /\ Places' /\ SlotAccounting'
  BY TypeStep, PlacesStep, SlotsStep DEF IInv
<1>2. Tokens' /\ SingleUse'
  BY TokensStep DEF IInv
<1>3. OneOwner' /\ OneSaver'
  BY OwnerStep, SaverStep DEF IInv
<1>4. Forgotten' /\ Durable'
  BY ForgottenStep, DurableStep DEF IInv
<1>5. ForgottenIsCut' /\ OnePhone'
  BY LinksStep DEF IInv
<1>6. StopCutsAll'
  BY StopStep DEF IInv
<1>7. QED
  BY <1>1, <1>2, <1>3, <1>4, <1>5, <1>6 DEF IInv

-----------------------------------------------------------------------------
(* Sharing the screen.  The types first, as functions where PhoneScreen     *)
(* speaks of each value, and with the commands within their bound.          *)
Medium   == [at : {"new", "auth", "open", "ended"}, id : Screens!Ids, closed : BOOLEAN]
Notices  == Screens!Statuses \cup Screens!LinkEvents

LeaseTypes ==
  /\ screenPhone \in {0} \cup Screens!Links
  /\ screenLink \in [Screens!Links -> {"new", "up", "down"}]
  /\ screenId \in Screens!Ids /\ screenKey \in BOOLEAN
  /\ screenOwner \in {0} \cup Screens!Links /\ screen \in {0} \cup Screens!Media
  /\ due \in BOOLEAN
  /\ media \in [Screens!Media -> Medium]

QueueTypes ==
  /\ commands \in Seq(Screens!Commands) /\ Len(commands) <= MaxCommands
  /\ inputs \in Seq(Screens!Sessions) /\ Len(inputs) <= MaxInputs
  /\ sending \in Screens!Messages \cup {Screens!NoMessage}
  /\ told \in Screens!Ids

ReportTypes ==
  /\ frame \in [Screens!Links -> Screens!Statuses \cup {Screens!NoFrame}]
  /\ screenEmit \in [Screens!Threads -> Seq(Notices)]
  /\ linkEvents \in Seq(Screens!LinkEvents) /\ statuses \in Seq(Screens!Statuses)
  /\ orphans \subseteq Screens!Sessions

WindowTypes ==
  /\ connected \in BOOLEAN
  /\ session \in Screens!Ids /\ fresh \in Screens!Ids /\ playing \in Screens!Ids
  /\ window \in {"idle", "starting", "beginning", "ending"}
  /\ counts \in [sessions : Screens!Ids, statuses : 0 .. MaxStatuses, inputs : 0 .. MaxTyped]

(* The lease is the active connection's; the screen connection is open for  *)
(* its session, and the inputs are of that session.                         *)
Leases ==
  /\ screenId # 0 => screenOwner = screenPhone /\ screenPhone # 0
  /\ screenKey => screenId # 0
  /\ screen = 0 => inputs = <<>>
  /\ screen # 0 => /\ media[screen].at = "open" /\ media[screen].id = screenId
                   /\ screenId # 0 /\ ~screenKey
  /\ \A i \in DOMAIN inputs : inputs[i] = screenId

(* A session that StartSession has numbered is nobody's before StartScreen. *)
Numbered ==
  /\ screenId <= counts.sessions
  /\ \A m \in Screens!Media : media[m].id <= counts.sessions
  /\ window = "starting" => /\ screenId = 0 /\ counts.sessions # 0
                            /\ \A m \in Screens!Media : media[m].id # counts.sessions

(* A key that still serves has served nobody.                               *)
Viewers ==
  /\ \A m, n \in Screens!Media :
       Screens!Opened(m) /\ Screens!Opened(n) /\ media[m].id = media[n].id => m = n
  /\ screenKey => \A m \in Screens!Media : Screens!Opened(m) => media[m].id # screenId
  /\ sending.kind = "input" => /\ media[sending.to].at \in {"open", "ended"}
                               /\ media[sending.to].id = sending.id /\ sending.id # 0
  /\ \A m \in Screens!Media : media[m].at = "open" /\ screen # m => media[m].closed

(* A thread reports one thing before it does the next, and nothing before   *)
(* its connection is there.                                                 *)
Turns ==
  /\ screenPhone # 0 => screenLink[screenPhone] = "up"
  /\ \A l \in Screens!Links :
       screenLink[l] = "new" => screenEmit[l] = <<>> /\ frame[l] = Screens!NoFrame
  /\ \A l \in Screens!Links :
       frame[l] # Screens!NoFrame => screenEmit[l] = <<>> /\ frame[l].state # "streaming"

Windows ==
  /\ playing = session
  /\ session # 0 => window \in {"idle", "ending"}
  /\ fresh # 0 <=> window = "beginning"

(* The end of a session is on its way to the window, or to a window that    *)
(* has yet to take the session up.                                          *)
Ends(reports, id) ==
  \E i \in DOMAIN reports : reports[i].id = id /\ reports[i].state # "streaming"
OnItsWay(id) ==
  \/ \E t \in Screens!Threads : Ends(screenEmit[t], id)
  \/ \E l \in Screens!Links : frame[l].id = id

Heard ==
  /\ session \notin {0, screenId} \cup orphans =>
       Ends(statuses, session) \/ window = "ending" \/ OnItsWay(session)
  /\ fresh \notin {0, screenId} \cup orphans => OnItsWay(fresh)

ScreenInv ==
  /\ LeaseTypes /\ QueueTypes /\ ReportTypes /\ WindowTypes
  /\ Leases /\ Numbered /\ Viewers /\ Turns /\ Windows /\ Heard

-----------------------------------------------------------------------------
(* Threads are numbers: ScreenSendLoop is 0, and no connection is another.  *)
LEMMA ThreadNames ==
  /\ Screens!SendLoop = 0 /\ Screens!SendLoop \in Screens!Threads
  /\ Screens!Links \subseteq Screens!Threads /\ Screens!Media \subseteq Screens!Threads
  /\ Screens!Links \subseteq Nat \ {0} /\ Screens!Media \subseteq Nat \ {0}
  /\ Screens!Links \cap Screens!Media = {}
  /\ Screens!Sessions \subseteq Nat \ {0} /\ Screens!Ids \subseteq Nat
  /\ MaxCommands \in Nat \ {0} /\ MaxInputs \in Nat \ {0} /\ MaxSessions \in Nat
<1>1. MaxLinks \in Nat /\ MaxMedia \in Nat /\ MaxSessions \in Nat
  BY ScreenConstants
<1>2. MaxCommands \in Nat \ {0} /\ MaxInputs \in Nat \ {0}
  BY ScreenConstants
<1>3. /\ Screens!Links \subseteq Nat \ {0} /\ Screens!Media \subseteq Nat \ {0}
      /\ Screens!Links \cap Screens!Media = {}
  BY <1>1 DEF Screens!Links, Screens!Media
<1>4. Screens!Sessions \subseteq Nat \ {0} /\ Screens!Ids \subseteq Nat
  BY <1>1 DEF Screens!Sessions, Screens!Ids
<1>5. QED
  BY <1>1, <1>2, <1>3, <1>4 DEF Screens!SendLoop, Screens!Threads

(* A closed connection keeps its state and its session.                     *)
LEMMA CutEffect ==
  ASSUME LeaseTypes, media' = Screens!Cut
  PROVE  /\ media' \in [Screens!Media -> Medium]
         /\ \A m \in Screens!Media : UNCHANGED <<media[m].at, media[m].id>>
         /\ \A m \in Screens!Media : media[m].closed \/ screen = m => media'[m].closed
<1>1. CASE screen = 0
  BY <1>1, ThreadNames DEF LeaseTypes, Screens!Cut, Screens!NoMedia
<1>2. CASE screen # 0
  <2>1. screen \in Screens!Media /\ media \in [Screens!Media -> Medium]
    BY <1>2 DEF LeaseTypes
  <2>2. media' = [media EXCEPT ![screen].closed = TRUE]
    BY <1>2 DEF Screens!Cut, Screens!NoMedia
  <2>3. PICK s \in Screens!Media : s = screen
    BY <2>1
  <2>4. media' = [media EXCEPT ![s] = [media[s] EXCEPT !.closed = TRUE]]
    BY <2>2, <2>3
  <2>5. /\ [media[s] EXCEPT !.closed = TRUE] \in Medium
        /\ [media[s] EXCEPT !.closed = TRUE].at = media[s].at
        /\ [media[s] EXCEPT !.closed = TRUE].id = media[s].id
        /\ [media[s] EXCEPT !.closed = TRUE].closed
    BY <2>1 DEF Medium
  <2>6. media' \in [Screens!Media -> Medium]
    BY <2>1, <2>4, <2>5
  <2>7. \A m \in Screens!Media \ {s} : UNCHANGED media[m]
    BY <2>1, <2>4
  <2>8. UNCHANGED <<media[s].at, media[s].id>> /\ media'[s].closed
    BY <2>1, <2>4, <2>5
  <2>9. QED
    BY <2>3, <2>6, <2>7, <2>8
<1>3. QED
  BY <1>1, <1>2

(* What a step makes of the lease: it ends, it stays, or the step is one of *)
(* those that have their own way with it.                                   *)
LeaseEnded == Screens!LeaseEnds /\ media' = Screens!Cut
LeaseKept ==
  /\ UNCHANGED <<screenId, screenKey, screenOwner, screen, inputs, media>>
  /\ due' \in {due, TRUE}

LeaseTouched ==
  \/ \E m \in Screens!Media : Screens!Authenticate(m) \/ Screens!EndMedia(m)
  \/ \E m \in Screens!Media, id \in Screens!Sessions : Screens!Hello(m, id)
  \/ \E id \in Screens!Sessions : Screens!SendScreenInput(id)
  \/ Screens!Take \/ Screens!StartScreen

(* The steps sorted by what they make of the lease.                         *)
LEMMA LeaseKinds ==
  ASSUME [Screens!Next]_screens
  PROVE  \/ LeaseEnded
         \/ LeaseKept /\ (UNCHANGED screenPhone \/ screenId = 0 \/ screenPhone = 0)
         \/ LeaseTouched
<1> USE DEF LeaseEnded, LeaseKept, Screens!lease, Screens!links, Screens!outbox, Screens!window
<1>1. ASSUME NEW l \in Screens!Links, Screens!Connect(l) \/ Screens!End(l)
      PROVE  \/ LeaseEnded
             \/ LeaseKept /\ (UNCHANGED screenPhone \/ screenId = 0 \/ screenPhone = 0)
  BY <1>1 DEF Screens!Connect, Screens!End
<1>2. ASSUME NEW l \in Screens!Links, Screens!StopForPhone(l)
      PROVE  LeaseEnded
  BY <1>2 DEF Screens!StopForPhone, Screens!StopScreen
<1>3. ASSUME NEW t, Screens!Emit(t)
      PROVE  LeaseKept /\ UNCHANGED screenPhone
  BY <1>3 DEF Screens!Emit
<1>4. ASSUME NEW l \in Screens!Links, NEW id, NEW state, Screens!ScreenState(l, id, state)
      PROVE  LeaseKept /\ UNCHANGED screenPhone
  BY <1>4 DEF Screens!ScreenState
<1>5. ASSUME NEW m \in Screens!Media, Screens!Packet(m)
      PROVE  LeaseKept /\ UNCHANGED screenPhone
  BY <1>5 DEF Screens!Packet
<1>6. ASSUME NEW arrives, Screens!Sent(arrives)
      PROVE  LeaseKept /\ UNCHANGED screenPhone
  BY <1>6 DEF Screens!Sent
<1>7. CASE Screens!Deadline \/ Screens!Begin \/ Screens!Forget \/ UNCHANGED screens
  BY <1>7 DEF Screens!Deadline, Screens!Begin, Screens!Forget, screens
<1>8. CASE Screens!StartSession
  BY <1>8 DEF Screens!StartSession, Screens!StopScreen
<1>9. CASE Screens!UserStops
  BY <1>9 DEF Screens!UserStops, Screens!EndSession, Screens!StopScreen
<1>10. CASE Screens!OnPhoneEvent
  <2>1. UNCHANGED screenPhone
    BY <1>10 DEF Screens!OnPhoneEvent
  <2>2. Screens!EndSession(TRUE) \/ LeaseKept
    BY <1>10 DEF Screens!OnPhoneEvent
  <2>3. QED
    BY <2>1, <2>2 DEF Screens!EndSession, Screens!StopScreen
<1>11. CASE Screens!Mailbox
  <2>1. UNCHANGED screenPhone
    BY <1>11 DEF Screens!Mailbox
  <2>2. Screens!EndSession(FALSE) \/ Screens!EndSession(TRUE) \/ LeaseKept
    BY <1>11 DEF Screens!Mailbox
  <2>3. Screens!EndSession(FALSE) => LeaseKept
    BY DEF Screens!EndSession
  <2>4. QED
    BY <2>1, <2>2, <2>3 DEF Screens!EndSession, Screens!StopScreen
<1>12. QED
  BY <1>1, <1>2, <1>3, <1>4, <1>5, <1>6, <1>7, <1>8, <1>9, <1>10, <1>11
     DEF Screens!Next, LeaseTouched

(* Only connections that come or end change which there are.                *)
LEMMA LinkKinds ==
  ASSUME [Screens!Next]_screens
  PROVE  \/ UNCHANGED <<screenPhone, screenLink>>
         \/ \E l \in Screens!Links : Screens!Connect(l) \/ Screens!End(l)
<1> USE DEF Screens!links
<1>1. ASSUME NEW l \in Screens!Links, NEW id, NEW state,
             Screens!StopForPhone(l) \/ Screens!Emit(l) \/ Screens!ScreenState(l, id, state)
      PROVE  UNCHANGED <<screenPhone, screenLink>>
  BY <1>1 DEF Screens!StopForPhone, Screens!Emit, Screens!ScreenState
<1>2. ASSUME NEW m \in Screens!Media, NEW id,
             \/ Screens!Authenticate(m) \/ Screens!Packet(m) \/ Screens!EndMedia(m)
             \/ Screens!Emit(m) \/ Screens!Hello(m, id)
      PROVE  UNCHANGED <<screenPhone, screenLink>>
  BY <1>2 DEF Screens!Authenticate, Screens!Packet, Screens!EndMedia, Screens!Emit, Screens!Hello
<1>3. ASSUME NEW id, NEW arrives,
             \/ Screens!SendScreenInput(id) \/ Screens!Take \/ Screens!Sent(arrives)
             \/ Screens!Emit(Screens!SendLoop) \/ Screens!Deadline
      PROVE  UNCHANGED <<screenPhone, screenLink>>
  BY <1>3 DEF Screens!SendScreenInput, Screens!Take, Screens!Sent, Screens!Emit, Screens!Deadline
<1>4. CASE \/ Screens!StartSession \/ Screens!StartScreen \/ Screens!Begin \/ Screens!UserStops
           \/ Screens!Forget \/ Screens!OnPhoneEvent \/ Screens!Mailbox \/ UNCHANGED screens
  BY <1>4 DEF Screens!StartSession, Screens!StartScreen, Screens!Begin, Screens!UserStops,
              Screens!Forget, Screens!OnPhoneEvent, Screens!Mailbox, screens
<1>5. QED
  BY <1>1, <1>2, <1>3, <1>4 DEF Screens!Next

(* No step breaks the types of the lease.                                   *)
LEMMA LeaseTypesStep ==
  ASSUME LeaseTypes, QueueTypes, WindowTypes, [Screens!Next]_screens
  PROVE  LeaseTypes'
<1>1. screenPhone' \in {0} \cup Screens!Links
      /\ screenLink' \in [Screens!Links -> {"new", "up", "down"}]
  <2>1. ASSUME NEW l \in Screens!Links, Screens!Connect(l) \/ Screens!End(l)
        PROVE  /\ screenPhone' \in {0, l, screenPhone}
               /\ \E state \in {"up", "down"} : screenLink' = [screenLink EXCEPT ![l] = state]
    BY <2>1 DEF Screens!Connect, Screens!End
  <2>2. QED
    BY <2>1, LinkKinds DEF LeaseTypes
<1>2. CASE LeaseEnded
  <2>1. media' \in [Screens!Media -> Medium]
    BY <1>2, CutEffect DEF LeaseEnded
  <2>2. QED
    BY <1>1, <1>2, <2>1 DEF LeaseTypes, LeaseEnded, Screens!LeaseEnds, Screens!Ids, Screens!NoMedia
<1>3. CASE LeaseKept
  BY <1>1, <1>3 DEF LeaseTypes, LeaseKept
<1>4. CASE LeaseTouched
  <2>1. /\ screenPhone \in {0} \cup Screens!Links /\ media \in [Screens!Media -> Medium]
        /\ screenId \in Screens!Ids /\ screenKey \in BOOLEAN /\ due \in BOOLEAN
        /\ screenOwner \in {0} \cup Screens!Links /\ screen \in {0} \cup Screens!Media
    BY DEF LeaseTypes
  <2> DEFINE Typed == /\ screenId' \in Screens!Ids /\ screenKey' \in BOOLEAN /\ due' \in BOOLEAN
                      /\ screenOwner' \in {0} \cup Screens!Links
                      /\ screen' \in {0} \cup Screens!Media
                      /\ media' \in [Screens!Media -> Medium]
  <2>2. ASSUME NEW m \in Screens!Media, Screens!Authenticate(m)
        PROVE  Typed
    <3>1. /\ UNCHANGED <<screenId, screenOwner, due>> /\ screenKey' = FALSE /\ screen' = m
          /\ media' = [media EXCEPT ![m].at = "open"]
      BY <2>2 DEF Screens!Authenticate, Screens!KeySpent
    <3>2. QED
      BY <2>1, <3>1 DEF Medium
  <2>3. ASSUME NEW m \in Screens!Media, Screens!EndMedia(m)
        PROVE  Typed
    <3>1. media' \in [Screens!Media -> Medium]
      BY <2>1, <2>3 DEF Screens!EndMedia, Medium, Screens!Ids
    <3>2. Screens!LeaseEnds \/ UNCHANGED Screens!lease
      BY <2>3 DEF Screens!EndMedia
    <3>3. QED
      BY <2>1, <3>1, <3>2 DEF Screens!LeaseEnds, Screens!lease, Screens!Ids, Screens!NoMedia
  <2>4. ASSUME NEW m \in Screens!Media, NEW id \in Screens!Sessions, Screens!Hello(m, id)
        PROVE  Typed
    <3>1. /\ UNCHANGED Screens!lease
          /\ media' = [media EXCEPT ![m] = [at |-> "auth", id |-> id, closed |-> FALSE]]
      BY <2>4 DEF Screens!Hello
    <3>2. QED
      BY <2>1, <3>1 DEF Medium, Screens!lease, Screens!Ids
  <2>5. ASSUME NEW id \in Screens!Sessions, Screens!SendScreenInput(id)
        PROVE  Typed
    BY <2>1, <2>5 DEF Screens!SendScreenInput, Screens!lease
  <2>6. ASSUME Screens!Take
        PROVE  Typed
    BY <2>1, <2>6 DEF Screens!Take, Screens!Ids
  <2>7. ASSUME Screens!StartScreen
        PROVE  Typed
    <3>1. counts.sessions \in Screens!Ids
      BY DEF WindowTypes
    <3>2. UNCHANGED <<screen, due, media>>
      BY <2>7 DEF Screens!StartScreen, Screens!lease
    <3>3. \/ UNCHANGED <<screenId, screenKey, screenOwner>>
          \/ screenId' = counts.sessions /\ screenKey' = TRUE /\ screenOwner' = screenPhone
      BY <2>7 DEF Screens!StartScreen, Screens!lease
    <3>4. QED
      BY <2>1, <3>1, <3>2, <3>3
  <2>8. Typed
    BY <1>4, <2>2, <2>3, <2>4, <2>5, <2>6, <2>7 DEF LeaseTouched
  <2>9. QED
    BY <1>1, <2>8 DEF LeaseTypes
<1>5. QED
  BY <1>2, <1>3, <1>4, LeaseKinds

(* Only ScreenSendLoop sends; stop and start are what it is given to send.  *)
LEMMA SendKinds ==
  ASSUME [Screens!Next]_screens
  PROVE  \/ /\ UNCHANGED <<sending, told>>
            /\ UNCHANGED commands \/ Screens!StopScreen \/ Screens!StartScreen
         \/ Screens!Take \/ \E arrives \in BOOLEAN : Screens!Sent(arrives)
<1> USE DEF Screens!outbox, Screens!lease
<1> DEFINE Unsent == UNCHANGED <<sending, told>>
           Same   == UNCHANGED commands
<1>1. ASSUME NEW l \in Screens!Links, NEW id, NEW state,
             \/ Screens!Connect(l) \/ Screens!End(l) \/ Screens!Emit(l)
             \/ Screens!ScreenState(l, id, state)
      PROVE  Unsent /\ Same
  BY <1>1 DEF Screens!Connect, Screens!End, Screens!Emit, Screens!ScreenState
<1>2. ASSUME NEW l \in Screens!Links, Screens!StopForPhone(l)
      PROVE  Unsent /\ Screens!StopScreen
  BY <1>2 DEF Screens!StopForPhone
<1>3. ASSUME NEW m \in Screens!Media, NEW id,
             \/ Screens!Authenticate(m) \/ Screens!Packet(m) \/ Screens!EndMedia(m)
             \/ Screens!Emit(m) \/ Screens!Hello(m, id)
      PROVE  Unsent /\ Same
  BY <1>3 DEF Screens!Authenticate, Screens!Packet, Screens!EndMedia, Screens!Emit, Screens!Hello
<1>4. ASSUME NEW id,
             \/ Screens!SendScreenInput(id)
             \/ Screens!Emit(Screens!SendLoop) \/ Screens!Deadline
      PROVE  Unsent /\ Same
  BY <1>4 DEF Screens!SendScreenInput, Screens!Emit, Screens!Deadline
<1>5. CASE Screens!Begin \/ Screens!Forget \/ UNCHANGED screens
  BY <1>5 DEF Screens!Begin, Screens!Forget, screens
<1>6. CASE Screens!StartSession \/ Screens!UserStops \/ Screens!OnPhoneEvent \/ Screens!Mailbox
  <2>1. Unsent
    BY <1>6 DEF Screens!StartSession, Screens!UserStops, Screens!OnPhoneEvent, Screens!Mailbox
  <2>2. \/ Screens!StopScreen \/ Same \/ Screens!EndSession(TRUE) \/ Screens!EndSession(FALSE)
    BY <1>6 DEF Screens!StartSession, Screens!UserStops, Screens!OnPhoneEvent, Screens!Mailbox
  <2>3. Screens!EndSession(TRUE) => Screens!StopScreen
    BY DEF Screens!EndSession
  <2>4. Screens!EndSession(FALSE) => Same
    BY DEF Screens!EndSession
  <2>5. QED
    BY <2>1, <2>2, <2>3, <2>4
<1>7. Screens!StartScreen => Unsent
  BY DEF Screens!StartScreen
<1>8. QED
  BY <1>1, <1>2, <1>3, <1>4, <1>5, <1>6, <1>7 DEF Screens!Next

(* A message keeps within its queue, also the one that takes the place of   *)
(* a request nobody answered: it is sent at once.                           *)
LEMMA QueueTypesStep ==
  ASSUME LeaseTypes, QueueTypes, WindowTypes, Leases, Numbered, [Screens!Next]_screens
  PROVE  QueueTypes'
<1> DEFINE Stop == [to |-> screenPhone, kind |-> "stop", id |-> screenId]
<1>1. /\ commands \in Seq(Screens!Commands) /\ Len(commands) <= MaxCommands
      /\ inputs \in Seq(Screens!Sessions) /\ Len(inputs) <= MaxInputs
  BY DEF QueueTypes
<1>2. screenId # 0 /\ screenPhone # 0 => Stop \in Screens!Commands
  BY DEF LeaseTypes, Screens!Ids, Screens!Commands
<1>3. MaxCommands \in Nat \ {0} /\ MaxInputs \in Nat \ {0}
  BY ThreadNames
<1>4. Len(commands) \in Nat /\ Len(inputs) \in Nat
  BY <1>1
<1> DEFINE CommandsTyped == commands' \in Seq(Screens!Commands) /\ Len(commands') <= MaxCommands
           InputsTyped   == inputs' \in Seq(Screens!Sessions) /\ Len(inputs') <= MaxInputs
<1>5. ASSUME Screens!StopScreen
      PROVE  CommandsTyped
  BY <1>1, <1>2, <1>3, <1>4, <1>5 DEF Screens!StopScreen
<1>6. ASSUME Screens!StartScreen
      PROVE  CommandsTyped
  <2>1. CASE UNCHANGED commands
    BY <1>1, <2>1
  <2>2. CASE ~UNCHANGED commands
    <3> DEFINE start == [to |-> screenPhone, kind |-> "start", id |-> counts.sessions]
    <3>1. /\ screenPhone # 0 /\ Len(commands) < MaxCommands /\ window = "starting"
          /\ commands' = Append(commands, start)
      BY <1>6, <2>2, <1>3, <1>4 DEF Screens!StartScreen
    <3>2. start \in Screens!Commands
      <4>1. counts.sessions \in Screens!Sessions
        BY <3>1 DEF WindowTypes, Numbered, Screens!Ids
      <4>2. QED
        BY <3>1, <4>1 DEF LeaseTypes, Screens!Commands
    <3>3. QED
      BY <1>1, <1>3, <1>4, <3>1, <3>2
  <2>3. QED
    BY <2>1, <2>2
<1>7. ASSUME Screens!Take
      PROVE  CommandsTyped /\ InputsTyped /\ UNCHANGED told
             /\ sending' \in Screens!Messages \cup {Screens!NoMessage}
  <2>1. UNCHANGED told /\ sending \in Screens!Messages \cup {Screens!NoMessage}
    BY <1>7 DEF Screens!Take, QueueTypes
  <2>2. PICK queue : /\ \/ queue = commands
                        \/ inputs = <<>> /\ Stop \in Screens!Commands
                           /\ queue = Append(commands, Stop)
                     /\ \/ /\ inputs # <<>> /\ inputs' = Tail(inputs) /\ commands' = queue
                           /\ sending' = [to |-> screen, kind |-> "input", id |-> Head(inputs)]
                        \/ /\ queue # <<>> /\ sending' = Head(queue) /\ commands' = Tail(queue)
                           /\ UNCHANGED inputs
                        \/ UNCHANGED <<sending, commands, inputs>>
    <3>1. CASE Screens!Expired
      <4>1. screenId # 0 /\ inputs = <<>>
        BY <3>1 DEF Screens!Expired, Screens!NoMedia, Leases
      <4>2. QED
        BY <1>7, <3>1, <4>1, <1>2 DEF Screens!Take, Screens!TellPhone
    <3>2. CASE ~Screens!Expired
      BY <1>7, <3>2 DEF Screens!Take
    <3>3. QED
      BY <3>1, <3>2
  <2>3. CASE /\ inputs # <<>> /\ inputs' = Tail(inputs) /\ commands' = queue
             /\ sending' = [to |-> screen, kind |-> "input", id |-> Head(inputs)]
    <3>1. screen \in Screens!Media
      BY <2>3 DEF Leases, LeaseTypes
    <3>2. queue = commands
      BY <2>2, <2>3
    <3>3. Head(inputs) \in Screens!Sessions /\ InputsTyped
      BY <1>1, <1>3, <1>4, <2>3, Z3
    <3>4. sending' \in Screens!Messages
      BY <2>3, <3>1, <3>3 DEF Screens!Messages
    <3>5. QED
      BY <1>1, <2>1, <2>3, <3>2, <3>3, <3>4
  <2>4. CASE /\ queue # <<>> /\ sending' = Head(queue) /\ commands' = Tail(queue)
             /\ UNCHANGED inputs
    <3>1. queue \in Seq(Screens!Commands) /\ Len(queue) <= MaxCommands + 1
      <4>1. CASE queue = commands
        BY <1>1, <1>3, <1>4, <4>1
      <4>2. CASE Stop \in Screens!Commands /\ queue = Append(commands, Stop)
        BY <1>1, <1>3, <1>4, <4>2
      <4>3. QED
        BY <2>2, <4>1, <4>2
    <3>2. Head(queue) \in Screens!Commands /\ CommandsTyped
      BY <1>3, <2>4, <3>1, Z3
    <3>3. sending' \in Screens!Messages
      BY <2>4, <3>2 DEF Screens!Messages
    <3>4. QED
      BY <1>1, <2>1, <2>4, <3>2, <3>3
  <2>5. CASE UNCHANGED <<sending, commands, inputs>>
    BY <1>1, <2>1, <2>5
  <2>6. QED
    BY <2>2, <2>3, <2>4, <2>5
<1>8. ASSUME ~Screens!Take
      PROVE  InputsTyped
  <2>1. inputs' = <<>> => InputsTyped
    <3>1. <<>> \in Seq(Screens!Sessions) /\ Len(<<>>) = 0
      OBVIOUS
    <3>2. QED
      BY <1>3, <3>1
  <2>2. CASE \E id \in Screens!Sessions : Screens!SendScreenInput(id)
    BY <1>1, <1>3, <1>4, <2>2 DEF Screens!SendScreenInput
  <2>3. \/ inputs' = <<>> \/ UNCHANGED inputs
        \/ \E id \in Screens!Sessions : Screens!SendScreenInput(id)
    BY <1>8, LeaseKinds
       DEF LeaseEnded, LeaseKept, LeaseTouched, Screens!LeaseEnds, Screens!EndMedia,
           Screens!Hello, Screens!Authenticate, Screens!StartScreen, Screens!outbox
  <2>4. QED
    BY <1>1, <2>1, <2>2, <2>3
<1>9. ASSUME NEW arrives \in BOOLEAN, Screens!Sent(arrives)
      PROVE  /\ UNCHANGED commands /\ told' \in Screens!Ids
             /\ sending' \in Screens!Messages \cup {Screens!NoMessage}
  <2>1. /\ UNCHANGED commands /\ sending' = Screens!NoMessage
        /\ told' \in {told, sending.id} /\ sending # Screens!NoMessage
    BY <1>9 DEF Screens!Sent
  <2>2. sending.id \in Screens!Sessions
    BY <2>1 DEF QueueTypes, Screens!Messages, Screens!Commands
  <2>3. QED
    BY <2>1, <2>2 DEF QueueTypes, Screens!Ids
<1>10. QED
  BY <1>1, <1>5, <1>6, <1>7, <1>8, <1>9, SendKinds DEF QueueTypes

(* The steps of the UI thread report nothing; the others, which do not      *)
(* touch the window, are of those that report or move no report.            *)
WindowStep ==
  \/ Screens!StartSession \/ Screens!StartScreen \/ Screens!Begin
  \/ Screens!UserStops \/ Screens!Forget \/ Screens!OnPhoneEvent \/ Screens!Mailbox

Reporting ==
  \/ \E l \in Screens!Links :
       \/ Screens!Connect(l) \/ Screens!End(l) \/ Screens!StopForPhone(l)
       \/ \E id \in Screens!Sessions, state \in Screens!States : Screens!ScreenState(l, id, state)
  \/ \E m \in Screens!Media : Screens!Packet(m) \/ Screens!EndMedia(m)
  \/ Screens!Take

WindowStays ==
  UNCHANGED <<connected, session, window, fresh, playing, counts.sessions>>

(* The steps sorted by what they report and to whom.                        *)
LEMMA ReportKinds ==
  ASSUME WindowTypes, [Screens!Next]_screens
  PROVE  \/ WindowStep /\ UNCHANGED <<frame, screenEmit, orphans>>
         \/ /\ WindowStays
            /\ \/ Reporting /\ UNCHANGED <<linkEvents, statuses>>
               \/ \E t \in Screens!Threads : Screens!Emit(t)
               \/ UNCHANGED <<frame, screenEmit, orphans, linkEvents, statuses, screenId>>
<1> USE DEF Screens!window, Screens!lease
<1> DEFINE Silent == UNCHANGED <<frame, screenEmit, orphans>>
           Queued == UNCHANGED <<linkEvents, statuses>>
<1>1. ASSUME NEW l \in Screens!Links, NEW id, NEW state,
             \/ Screens!Connect(l) \/ Screens!End(l) \/ Screens!StopForPhone(l)
             \/ Screens!ScreenState(l, id, state)
      PROVE  WindowStays /\ Queued
  <2>1. UNCHANGED counts \/ counts' = [counts EXCEPT !.statuses = @ + 1]
    BY <1>1 DEF Screens!Connect, Screens!End, Screens!StopForPhone, Screens!ScreenState
  <2>2. UNCHANGED counts.sessions
    BY <2>1 DEF WindowTypes
  <2>3. Queued /\ UNCHANGED Screens!window
    BY <1>1 DEF Screens!Connect, Screens!End, Screens!StopForPhone, Screens!ScreenState
  <2>4. QED
    BY <2>2, <2>3 DEF WindowStays
<1>2. ASSUME NEW m \in Screens!Media, Screens!Packet(m) \/ Screens!EndMedia(m)
      PROVE  WindowStays /\ Queued
  <2>1. UNCHANGED counts \/ counts' = [counts EXCEPT !.statuses = @ + 1]
    BY <1>2 DEF Screens!Packet, Screens!EndMedia
  <2>2. UNCHANGED counts.sessions
    BY <2>1 DEF WindowTypes
  <2>3. QED
    BY <1>2, <2>2 DEF Screens!Packet, Screens!EndMedia, WindowStays
<1>3. ASSUME NEW m \in Screens!Media, NEW id, Screens!Authenticate(m) \/ Screens!Hello(m, id)
      PROVE  WindowStays /\ Queued /\ Silent /\ UNCHANGED screenId
  BY <1>3 DEF Screens!Authenticate, Screens!Hello, WindowStays
<1>4. ASSUME NEW t, Screens!Emit(t)
      PROVE  WindowStays
  BY <1>4 DEF Screens!Emit, WindowStays
<1>5. ASSUME NEW id, Screens!SendScreenInput(id)
      PROVE  WindowStays /\ Queued /\ Silent /\ UNCHANGED screenId
  BY <1>5 DEF Screens!SendScreenInput, WindowStays
<1>6. ASSUME NEW arrives, Screens!Sent(arrives) \/ Screens!Deadline \/ UNCHANGED screens
      PROVE  WindowStays /\ Queued /\ Silent /\ UNCHANGED screenId
  BY <1>6 DEF Screens!Sent, Screens!Deadline, WindowStays, screens
<1>7. ASSUME Screens!Take
      PROVE  WindowStays /\ Queued
  BY <1>7 DEF Screens!Take, WindowStays
<1>8. ASSUME WindowStep
      PROVE  Silent
  <2>1. CASE Screens!StartSession \/ Screens!StartScreen \/ Screens!Begin \/ Screens!Forget
    BY <2>1 DEF Screens!StartSession, Screens!StartScreen, Screens!Begin, Screens!Forget
  <2>2. CASE Screens!UserStops \/ Screens!OnPhoneEvent \/ Screens!Mailbox
    BY <2>2 DEF Screens!UserStops, Screens!OnPhoneEvent, Screens!Mailbox
  <2>3. QED
    BY <1>8, <2>1, <2>2 DEF WindowStep
<1>9. (Screens!Next /\ ~WindowStep) \/ UNCHANGED screens => WindowStays
  <2>1. CASE \E l \in Screens!Links :
               \/ Screens!Connect(l) \/ Screens!End(l) \/ Screens!StopForPhone(l)
               \/ Screens!Emit(l)
               \/ \E id \in Screens!Sessions, state \in Screens!States :
                    Screens!ScreenState(l, id, state)
    BY <2>1, <1>1, <1>4
  <2>2. CASE \E m \in Screens!Media :
               \/ Screens!Authenticate(m) \/ Screens!Packet(m) \/ Screens!EndMedia(m)
               \/ Screens!Emit(m)
               \/ \E id \in Screens!Sessions : Screens!Hello(m, id)
    BY <2>2, <1>2, <1>3, <1>4
  <2>3. QED
    BY <2>1, <2>2, <1>4, <1>5, <1>6, <1>7 DEF Screens!Next, WindowStep
<1>10. (Screens!Next /\ ~WindowStep) \/ UNCHANGED screens =>
         \/ Reporting /\ Queued
         \/ \E t \in Screens!Threads : Screens!Emit(t)
         \/ Silent /\ Queued /\ UNCHANGED screenId
  <2>1. CASE \E l \in Screens!Links :
               \/ Screens!Connect(l) \/ Screens!End(l) \/ Screens!StopForPhone(l)
               \/ Screens!Emit(l)
               \/ \E id \in Screens!Sessions, state \in Screens!States :
                    Screens!ScreenState(l, id, state)
    <3>1. PICK l \in Screens!Links :
               \/ Screens!Connect(l) \/ Screens!End(l) \/ Screens!StopForPhone(l)
               \/ Screens!Emit(l)
               \/ \E id \in Screens!Sessions, state \in Screens!States :
                    Screens!ScreenState(l, id, state)
      BY <2>1
    <3>2. Screens!Emit(l) \/ (Reporting /\ Queued)
      BY <3>1, <1>1 DEF Reporting
    <3>3. QED
      BY <3>2, ThreadNames
  <2>2. CASE \E m \in Screens!Media :
               \/ Screens!Authenticate(m) \/ Screens!Packet(m) \/ Screens!EndMedia(m)
               \/ Screens!Emit(m)
               \/ \E id \in Screens!Sessions : Screens!Hello(m, id)
    <3>1. PICK m \in Screens!Media :
               \/ Screens!Authenticate(m) \/ Screens!Packet(m) \/ Screens!EndMedia(m)
               \/ Screens!Emit(m)
               \/ \E id \in Screens!Sessions : Screens!Hello(m, id)
      BY <2>2
    <3>2. \/ Screens!Emit(m) \/ (Reporting /\ Queued)
          \/ (Silent /\ Queued /\ UNCHANGED screenId)
      BY <3>1, <1>2, <1>3 DEF Reporting
    <3>3. QED
      BY <3>2, ThreadNames
  <2>3. QED
    BY <2>1, <2>2, <1>5, <1>6, <1>7, ThreadNames DEF Screens!Next, WindowStep, Reporting
<1>11. QED
  BY <1>8, <1>9, <1>10

(* What the steps of the UI thread make of the window.                      *)
LEMMA WindowEffect ==
  ASSUME WindowStep
  PROVE  \/ /\ Screens!StartSession /\ window = "idle" /\ session = 0
            /\ window' = "starting" /\ UNCHANGED <<session, fresh, playing, statuses>>
            /\ counts' = [counts EXCEPT !.sessions = @ + 1]
         \/ /\ Screens!StartScreen /\ window = "starting" /\ window' \in {"idle", "beginning"}
            /\ fresh' = IF window' = "idle" THEN fresh ELSE counts.sessions
            /\ UNCHANGED <<session, playing, statuses, counts>>
         \/ /\ Screens!Begin /\ window = "beginning" /\ window' = "idle"
            /\ session' = fresh /\ playing' = fresh /\ fresh' = 0 /\ statuses' = <<>>
            /\ UNCHANGED <<counts, screenId>>
         \/ /\ window \in {"idle", "ending"} /\ window' = "idle"
            /\ session' = 0 /\ playing' = 0 /\ statuses' = <<>> /\ UNCHANGED <<fresh, counts>>
         \/ /\ window = "idle" /\ window' = "ending"
            /\ UNCHANGED <<session, fresh, playing, statuses, counts>>
         \/ /\ window = "idle" /\ window' = "idle"
            /\ \/ UNCHANGED statuses
               \/ /\ Screens!Mailbox /\ statuses # <<>> /\ statuses' = Tail(statuses)
                  /\ Head(statuses).state \notin {"stopped", "error"}
            /\ UNCHANGED <<session, fresh, playing, counts, screenId>>
<1> USE DEF Screens!window, Screens!lease
<1>1. CASE Screens!StartSession
  BY <1>1 DEF Screens!StartSession
<1>2. CASE Screens!StartScreen
  BY <1>2 DEF Screens!StartScreen
<1>3. CASE Screens!Begin \/ Screens!Forget
  BY <1>3 DEF Screens!Begin, Screens!Forget
<1>4. CASE Screens!UserStops
  BY <1>4 DEF Screens!UserStops, Screens!EndSession
<1>5. CASE Screens!OnPhoneEvent
  BY <1>5 DEF Screens!OnPhoneEvent, Screens!EndSession
<1>6. CASE Screens!Mailbox
  BY <1>6 DEF Screens!Mailbox, Screens!EndSession
<1>7. QED
  BY <1>1, <1>2, <1>3, <1>4, <1>5, <1>6 DEF WindowStep

(* The counts are bounded by the guards of what they count.                 *)
LEMMA CountTypes ==
  ASSUME WindowTypes, [Screens!Next]_screens
  PROVE  counts' \in [sessions : Screens!Ids, statuses : 0 .. MaxStatuses, inputs : 0 .. MaxTyped]
<1>1. /\ counts \in [sessions : Screens!Ids, statuses : 0 .. MaxStatuses, inputs : 0 .. MaxTyped]
      /\ MaxSessions \in Nat /\ MaxStatuses \in Nat /\ MaxTyped \in Nat
  <2>1. {MaxSessions, MaxStatuses, MaxTyped} \subseteq Nat
    BY ScreenConstants
  <2>2. QED
    BY <2>1 DEF WindowTypes
<1> DEFINE MoreSessions == counts.sessions < MaxSessions
                           /\ counts' = [counts EXCEPT !.sessions = @ + 1]
           MoreStatuses == counts.statuses < MaxStatuses
                           /\ counts' = [counts EXCEPT !.statuses = @ + 1]
           MoreInputs   == counts.inputs < MaxTyped
                           /\ counts' = [counts EXCEPT !.inputs = @ + 1]
<1>2. ASSUME NEW l, NEW id, NEW state,
             \/ Screens!Connect(l) \/ Screens!End(l) \/ Screens!StopForPhone(l)
             \/ Screens!ScreenState(l, id, state)
      PROVE  UNCHANGED counts \/ MoreStatuses
  BY <1>2 DEF Screens!Connect, Screens!End, Screens!StopForPhone, Screens!ScreenState
<1>3. ASSUME NEW m, NEW id, \/ Screens!Authenticate(m) \/ Screens!Packet(m) \/ Screens!EndMedia(m)
                            \/ Screens!Emit(m) \/ Screens!Hello(m, id)
      PROVE  UNCHANGED counts \/ MoreStatuses
  BY <1>3 DEF Screens!Authenticate, Screens!Packet, Screens!EndMedia, Screens!Emit, Screens!Hello
<1>4. ASSUME NEW id, NEW arrives, \/ Screens!SendScreenInput(id) \/ Screens!Sent(arrives)
                                  \/ Screens!Take \/ Screens!Deadline \/ UNCHANGED screens
      PROVE  UNCHANGED counts \/ MoreInputs
  BY <1>4 DEF Screens!SendScreenInput, Screens!Sent, Screens!Take, Screens!Deadline, screens
<1>5. ASSUME WindowStep
      PROVE  UNCHANGED counts \/ MoreSessions
  <2>1. Screens!StartSession => MoreSessions
    BY DEF Screens!StartSession
  <2>2. QED
    BY <1>5, <2>1, WindowEffect
<1>6. UNCHANGED counts \/ MoreSessions \/ MoreStatuses \/ MoreInputs
  BY <1>2, <1>3, <1>4, <1>5 DEF Screens!Next, WindowStep
<1>7. CASE MoreSessions
  BY <1>1, <1>7 DEF Screens!Ids, Screens!Sessions
<1>8. CASE MoreStatuses
  BY <1>1, <1>8
<1>9. CASE MoreInputs
  BY <1>1, <1>9
<1>10. QED
  BY <1>1, <1>6, <1>7, <1>8, <1>9

(* No step breaks the types of the window.                                  *)
LEMMA WindowTypesStep ==
  ASSUME WindowTypes, ReportTypes, [Screens!Next]_screens
  PROVE  WindowTypes'
<1>1. connected' \in BOOLEAN
  <2>1. Screens!OnPhoneEvent => connected' \in BOOLEAN
    BY DEF Screens!OnPhoneEvent
  <2>2. WindowStep => UNCHANGED connected \/ Screens!OnPhoneEvent
    BY DEF WindowStep, Screens!StartSession, Screens!StartScreen, Screens!Begin,
           Screens!UserStops, Screens!Forget, Screens!Mailbox
  <2>3. QED
    BY <2>1, <2>2, ReportKinds DEF WindowTypes, WindowStays
<1>2. /\ session' \in Screens!Ids /\ fresh' \in Screens!Ids /\ playing' \in Screens!Ids
      /\ window' \in {"idle", "starting", "beginning", "ending"}
  <2>1. counts.sessions \in Screens!Ids /\ 0 \in Screens!Ids
    BY DEF WindowTypes, Screens!Ids
  <2>2. CASE WindowStep
    BY <2>1, <2>2, WindowEffect DEF WindowTypes
  <2>3. QED
    BY <2>2, ReportKinds DEF WindowTypes, WindowStays
<1>3. QED
  BY <1>1, <1>2, CountTypes DEF WindowTypes

(* The window and its playback show the same session.                       *)
LEMMA WindowsStep ==
  ASSUME WindowTypes, Windows, Numbered, [Screens!Next]_screens
  PROVE  Windows'
<1>1. CASE WindowStep
  <2>1. window = "starting" => counts.sessions # 0
    BY DEF Numbered
  <2>2. QED
    BY <1>1, <2>1, WindowEffect DEF Windows
<1>2. CASE WindowStays
  BY <1>2 DEF Windows, WindowStays
<1>3. QED
  BY <1>1, <1>2, ReportKinds

(* Whoever ends the session under the lock, or a status that came with a    *)
(* connection, leaves it to its thread to report, which has nothing else to *)
(* report then.                                                             *)
Reports(t, reports) ==
  /\ screenEmit[t] = <<>> /\ screenEmit' = [screenEmit EXCEPT ![t] = reports]

(* The reports are statuses and events.                                     *)
LEMMA NoticeTypes ==
  /\ \A id \in Screens!Sessions, state \in Screens!States :
       Screens!Status(id, state) \in Screens!Statuses
  /\ \A kind \in {"Connected", "Disconnected"} : Screens!Event(kind) \in Screens!LinkEvents
  /\ \A a \in Notices : <<a>> \in Seq(Notices)
  /\ \A a, b \in Notices : <<a, b>> \in Seq(Notices)
  /\ <<>> \in Seq(Notices)
  /\ Screens!Statuses \subseteq Notices /\ Screens!LinkEvents \subseteq Notices
  /\ {"stopped", "streaming", "error"} = Screens!States
<1>1. /\ \A id \in Screens!Sessions, state \in Screens!States :
           Screens!Status(id, state) \in Screens!Statuses
      /\ \A kind \in {"Connected", "Disconnected"} : Screens!Event(kind) \in Screens!LinkEvents
  BY DEF Screens!Status, Screens!Event, Screens!Statuses, Screens!LinkEvents
<1>2. /\ \A a \in Notices : <<a>> \in Seq(Notices)
      /\ \A a, b \in Notices : <<a, b>> \in Seq(Notices)
      /\ <<>> \in Seq(Notices)
  OBVIOUS
<1>3. QED
  BY <1>1, <1>2 DEF Notices, Screens!States

(* A connection that comes or goes reports the session it ends.             *)
LEMMA ConnectReports ==
  ASSUME LeaseTypes, Turns, NEW l \in Screens!Links, Screens!Connect(l) \/ Screens!End(l)
  PROVE  /\ UNCHANGED <<frame, orphans>>
         /\ \E reports \in Seq(Notices) :
              /\ Reports(l, reports)
              /\ screenId # 0 /\ screenId' # screenId => Ends(reports, screenId)
<1>1. UNCHANGED <<frame, orphans>> /\ screenEmit[l] = <<>>
  BY DEF Screens!Connect, Screens!End, Turns
<1>2. PICK kind \in {"Connected", "Disconnected"} :
        \/ /\ screenId # 0
           /\ screenEmit' = [screenEmit EXCEPT
                ![l] = <<Screens!Status(screenId, "stopped"), Screens!Event(kind)>>]
        \/ /\ UNCHANGED screenId
           /\ screenEmit' = [screenEmit EXCEPT ![l] = <<Screens!Event(kind)>>]
        \/ /\ UNCHANGED screenId
           /\ screenEmit' = [screenEmit EXCEPT ![l] = <<>>]
  BY DEF Screens!Connect, Screens!End, Screens!lease
<1>3. CASE /\ screenId # 0
           /\ screenEmit' = [screenEmit EXCEPT
                ![l] = <<Screens!Status(screenId, "stopped"), Screens!Event(kind)>>]
  <2> DEFINE reports == <<Screens!Status(screenId, "stopped"), Screens!Event(kind)>>
  <2>1. reports \in Seq(Notices)
    BY <1>3, NoticeTypes DEF LeaseTypes, Screens!Ids
  <2>2. Ends(reports, screenId)
    <3>1. /\ 1 \in DOMAIN reports /\ reports[1].id = screenId
          /\ reports[1].state = "stopped"
      BY DEF Screens!Status
    <3>2. QED
      BY <3>1 DEF Ends
  <2>3. QED
    BY <1>1, <1>3, <2>1, <2>2 DEF Reports
<1>4. CASE /\ UNCHANGED screenId
           /\ screenEmit' = [screenEmit EXCEPT ![l] = <<Screens!Event(kind)>>]
  BY <1>1, <1>4, NoticeTypes DEF Reports
<1>5. CASE /\ UNCHANGED screenId /\ screenEmit' = [screenEmit EXCEPT ![l] = <<>>]
  BY <1>1, <1>5, NoticeTypes DEF Reports
<1>6. QED
  BY <1>2, <1>3, <1>4, <1>5

(* One status, reported by the thread t.                                    *)
OneReport(t, status) ==
  /\ screenEmit[t] = <<>> /\ screenEmit' = [screenEmit EXCEPT ![t] = <<status>>]
  /\ status \in Screens!Statuses

(* The other reports: of one status, by a thread with nothing to report.    *)
LEMMA StatusReports ==
  ASSUME LeaseTypes, ReportTypes, Leases, Turns, Reporting
  PROVE  \/ \E l \in Screens!Links : Screens!Connect(l) \/ Screens!End(l)
         \/ \E l \in Screens!Links : /\ Screens!StopForPhone(l) /\ OneReport(l, frame[l])
                                     /\ frame' = [frame EXCEPT ![l] = Screens!NoFrame]
         \/ /\ UNCHANGED <<frame, orphans, screenId>>
            /\ \E t \in Screens!Threads, status \in Screens!Statuses :
                 /\ OneReport(t, status)
                 /\ t \in Screens!Links =>
                      screenLink[t] # "new" /\ frame[t] = Screens!NoFrame
         \/ /\ UNCHANGED <<screenEmit, orphans, screenId>>
            /\ \E l \in Screens!Links, status \in Screens!Statuses :
                 /\ frame[l] = Screens!NoFrame /\ status.state # "streaming"
                 /\ frame' = [frame EXCEPT ![l] = status]
                 /\ screenEmit[l] = <<>> /\ screenLink[l] # "new"
         \/ /\ UNCHANGED <<frame, orphans>> /\ screenId # 0 /\ screenId' = 0
            /\ \E t \in Screens!Threads \ Screens!Links :
                 OneReport(t, Screens!Status(screenId, "stopped"))
         \/ UNCHANGED <<frame, orphans, screenEmit, screenId>>
<1>1. ASSUME NEW l \in Screens!Links, Screens!StopForPhone(l)
      PROVE  OneReport(l, frame[l]) /\ frame' = [frame EXCEPT ![l] = Screens!NoFrame]
  <2>1. /\ frame[l] # Screens!NoFrame
        /\ screenEmit' = [screenEmit EXCEPT ![l] = <<frame[l]>>]
        /\ frame' = [frame EXCEPT ![l] = Screens!NoFrame]
    BY <1>1 DEF Screens!StopForPhone
  <2>2. frame[l] \in Screens!Statuses /\ screenEmit[l] = <<>>
    BY <2>1 DEF ReportTypes, Turns
  <2>3. QED
    BY <2>1, <2>2 DEF OneReport
<1>2. ASSUME NEW l \in Screens!Links, NEW id \in Screens!Sessions, NEW state \in Screens!States,
             Screens!ScreenState(l, id, state)
      PROVE  /\ UNCHANGED <<orphans, screenId>>
             /\ \/ UNCHANGED frame /\ OneReport(l, Screens!Status(id, state))
                \/ /\ UNCHANGED screenEmit /\ Screens!Status(id, state).state # "streaming"
                   /\ frame' = [frame EXCEPT ![l] = Screens!Status(id, state)]
             /\ frame[l] = Screens!NoFrame /\ screenEmit[l] = <<>> /\ screenLink[l] # "new"
  <2>1. /\ UNCHANGED <<orphans, screenId>> /\ screenPhone = l
        /\ frame[l] = Screens!NoFrame /\ screenEmit[l] = <<>>
    BY <1>2 DEF Screens!ScreenState, Screens!lease
  <2>2. screenLink[l] # "new"
    BY <2>1, ThreadNames DEF Turns
  <2>3. CASE state = "streaming"
    BY <1>2, <2>1, <2>2, <2>3, NoticeTypes DEF Screens!ScreenState, OneReport
  <2>4. CASE state # "streaming"
    <3>1. Screens!Status(id, state).state # "streaming"
      BY <2>4 DEF Screens!Status
    <3>2. QED
      BY <1>2, <2>1, <2>2, <2>4, <3>1 DEF Screens!ScreenState
  <2>5. QED
    BY <2>3, <2>4
<1>3. ASSUME NEW m \in Screens!Media, Screens!Packet(m)
      PROVE  /\ UNCHANGED <<frame, orphans, screenId>>
             /\ \E status \in Screens!Statuses : OneReport(m, status)
  <2>1. /\ UNCHANGED <<frame, orphans, screenId>> /\ screen = m /\ screenEmit[m] = <<>>
        /\ screenEmit' = [screenEmit EXCEPT ![m] = <<Screens!Status(media[m].id, "streaming")>>]
    BY <1>3 DEF Screens!Packet, Screens!lease
  <2>2. media[m].id = screenId /\ screenId # 0
    BY <2>1, ThreadNames DEF Leases
  <2>3. QED
    BY <2>1, <2>2, NoticeTypes DEF OneReport, LeaseTypes, Screens!Ids
<1>4. screenId # 0 => Screens!Status(screenId, "stopped") \in Screens!Statuses
  BY NoticeTypes DEF LeaseTypes, Screens!Ids
<1>5. ASSUME NEW m \in Screens!Media, Screens!EndMedia(m)
      PROVE  /\ UNCHANGED <<frame, orphans>>
             /\ \/ /\ screenId # 0 /\ screenId' = 0
                   /\ OneReport(m, Screens!Status(screenId, "stopped"))
                \/ UNCHANGED <<screenEmit, screenId>>
  <2>1. UNCHANGED <<frame, orphans>> /\ screenEmit[m] = <<>>
    BY <1>5 DEF Screens!EndMedia
  <2>2. CASE screen = m
    <3>1. screenId # 0
      BY <2>2, ThreadNames DEF Leases
    <3>2. /\ screenId' = 0
          /\ screenEmit' = [screenEmit EXCEPT ![m] = <<Screens!Status(screenId, "stopped")>>]
      BY <1>5, <2>2 DEF Screens!EndMedia, Screens!EndsSession, Screens!LeaseEnds
    <3>3. QED
      BY <2>1, <3>1, <3>2, <1>4 DEF OneReport
  <2>3. CASE screen # m
    BY <1>5, <2>1, <2>3 DEF Screens!EndMedia, Screens!EndsSession, Screens!lease
  <2>4. QED
    BY <2>2, <2>3
<1>6. ASSUME Screens!Take
      PROVE  /\ UNCHANGED <<frame, orphans>>
             /\ \/ /\ screenId # 0 /\ screenId' = 0
                   /\ OneReport(0, Screens!Status(screenId, "stopped"))
                \/ UNCHANGED <<screenEmit, screenId>>
  <2>1. UNCHANGED <<frame, orphans>> /\ screenEmit[0] = <<>>
    BY <1>6, ThreadNames DEF Screens!Take
  <2>2. CASE Screens!Expired
    BY <1>6, <2>1, <2>2, <1>4, ThreadNames DEF Screens!Take, Screens!Expired, OneReport
  <2>3. CASE ~Screens!Expired
    BY <1>6, <2>1, <2>3 DEF Screens!Take
  <2>4. QED
    BY <2>2, <2>3
<1>7. /\ \A m \in Screens!Media : m \notin Screens!Links /\ m \in Screens!Threads
      /\ 0 \notin Screens!Links /\ 0 \in Screens!Threads
      /\ \A l \in Screens!Links : l \in Screens!Threads
  BY ThreadNames
<1>8. CASE \E l \in Screens!Links :
             \/ Screens!Connect(l) \/ Screens!End(l) \/ Screens!StopForPhone(l)
             \/ \E id \in Screens!Sessions, state \in Screens!States :
                  Screens!ScreenState(l, id, state)
  <2>1. ASSUME NEW l \in Screens!Links, NEW id \in Screens!Sessions,
               NEW state \in Screens!States, Screens!ScreenState(l, id, state)
        PROVE  /\ UNCHANGED <<orphans, screenId>>
               /\ \E status \in Screens!Statuses :
                    \/ UNCHANGED frame /\ OneReport(l, status)
                    \/ /\ UNCHANGED screenEmit /\ status.state # "streaming"
                       /\ frame' = [frame EXCEPT ![l] = status]
               /\ frame[l] = Screens!NoFrame /\ screenEmit[l] = <<>> /\ screenLink[l] # "new"
    BY <2>1, <1>2, NoticeTypes
  <2>2. QED
    BY <1>8, <1>1, <1>7, <2>1
<1>9. CASE \E m \in Screens!Media : Screens!Packet(m) \/ Screens!EndMedia(m)
  BY <1>9, <1>3, <1>5, <1>7
<1>10. CASE Screens!Take
  BY <1>10, <1>6, <1>7
<1>11. QED
  BY <1>8, <1>9, <1>10 DEF Reporting

(* What a thread reports goes to one of the queues, or is an orphan.        *)
LEMMA EmitEffect ==
  ASSUME ReportTypes, NEW t \in Screens!Threads, Screens!Emit(t)
  PROVE  /\ screenEmit[t] # <<>> /\ screenEmit' = [screenEmit EXCEPT ![t] = Tail(screenEmit[t])]
         /\ Tail(screenEmit[t]) \in Seq(Notices)
         /\ UNCHANGED <<frame, screenId>>
         /\ \/ /\ Head(screenEmit[t]) \in Screens!LinkEvents
               /\ linkEvents' = Append(linkEvents, Head(screenEmit[t]))
               /\ UNCHANGED <<statuses, orphans>>
            \/ /\ Head(screenEmit[t]) \in Screens!Statuses /\ UNCHANGED linkEvents
               /\ statuses' = IF Head(screenEmit[t]).id = playing
                              THEN Append(statuses, Head(screenEmit[t])) ELSE statuses
               /\ orphans' = IF /\ window = "beginning" /\ Head(screenEmit[t]).id = fresh
                                /\ Head(screenEmit[t]).state # "streaming"
                             THEN orphans \cup {fresh} ELSE orphans
<1> DEFINE reports == screenEmit[t]
           status  == Head(reports)
<1>1. /\ reports # <<>> /\ screenEmit' = [screenEmit EXCEPT ![t] = Tail(reports)]
      /\ UNCHANGED <<frame, screenId>> /\ Screens!Report(status)
  BY DEF Screens!Emit, Screens!lease
<1>2. status \in Notices /\ Tail(reports) \in Seq(Notices)
  <2>1. reports \in Seq(Notices)
    BY DEF ReportTypes
  <2> HIDE DEF reports
  <2>2. QED
    BY <1>1, <2>1, Z3
<1> HIDE DEF reports, status
<1>3. CASE status \in Screens!LinkEvents
  <2>1. status.state \in {"Connected", "Disconnected"}
    BY <1>3 DEF Screens!LinkEvents
  <2>2. linkEvents' = Append(linkEvents, status) /\ UNCHANGED <<statuses, orphans>>
    BY <1>1, <2>1 DEF Screens!Report
  <2>3. QED
    BY <1>1, <1>2, <1>3, <2>2 DEF reports, status
<1>4. CASE status \in Screens!Statuses
  <2>1. status.state \notin {"Connected", "Disconnected"}
    BY <1>4 DEF Screens!Statuses, Screens!States
  <2>2. /\ statuses' = IF status.id = playing THEN Append(statuses, status) ELSE statuses
        /\ orphans' = IF window = "beginning" /\ status.id = fresh /\ status.state # "streaming"
                      THEN orphans \cup {fresh} ELSE orphans
        /\ UNCHANGED linkEvents
    BY <1>1, <2>1 DEF Screens!Report
  <2>3. QED
    BY <1>1, <1>2, <1>4, <2>2 DEF reports, status
<1>5. QED
  BY <1>2, <1>3, <1>4 DEF Notices

(* No step breaks the types of the reports.                                 *)
LEMMA ReportTypesStep ==
  ASSUME LeaseTypes, ReportTypes, WindowTypes, Leases, Turns, Windows, [Screens!Next]_screens
  PROVE  ReportTypes'
<1>1. /\ frame \in [Screens!Links -> Screens!Statuses \cup {Screens!NoFrame}]
      /\ screenEmit \in [Screens!Threads -> Seq(Notices)]
      /\ linkEvents \in Seq(Screens!LinkEvents) /\ statuses \in Seq(Screens!Statuses)
      /\ orphans \subseteq Screens!Sessions
  BY DEF ReportTypes
<1> DEFINE Reported == /\ frame' \in [Screens!Links -> Screens!Statuses \cup {Screens!NoFrame}]
                       /\ screenEmit' \in [Screens!Threads -> Seq(Notices)]
                       /\ orphans' \subseteq Screens!Sessions
           Queued   == linkEvents' \in Seq(Screens!LinkEvents)
                       /\ statuses' \in Seq(Screens!Statuses)
<1>2. UNCHANGED <<frame, screenEmit, orphans>> => Reported
  BY <1>1
<1>3. ASSUME NEW t \in Screens!Threads, Screens!Emit(t)
      PROVE  Reported /\ Queued
  <2>1. screenEmit' \in [Screens!Threads -> Seq(Notices)] /\ UNCHANGED frame
    BY <1>1, <1>3, EmitEffect
  <2>2. orphans' \subseteq Screens!Sessions
    <3>1. window = "beginning" => fresh \in Screens!Sessions
      BY DEF Windows, WindowTypes, Screens!Ids
    <3>2. QED
      BY <1>1, <1>3, <3>1, EmitEffect
  <2>3. Queued
    <3>1. PICK status : /\ \/ /\ status \in Screens!LinkEvents
                              /\ linkEvents' = Append(linkEvents, status)
                           \/ UNCHANGED linkEvents
                        /\ \/ /\ status \in Screens!Statuses
                              /\ statuses' = Append(statuses, status)
                           \/ UNCHANGED statuses
      BY <1>3, EmitEffect
    <3>2. linkEvents' \in Seq(Screens!LinkEvents)
      <4>1. status \in Screens!LinkEvents => Append(linkEvents, status) \in Seq(Screens!LinkEvents)
        BY <1>1
      <4>2. QED
        BY <1>1, <3>1, <4>1, Zenon
    <3>3. statuses' \in Seq(Screens!Statuses)
      <4>1. status \in Screens!Statuses => Append(statuses, status) \in Seq(Screens!Statuses)
        BY <1>1
      <4>2. QED
        BY <1>1, <3>1, <4>1, Zenon
    <3>4. QED
      BY <3>2, <3>3
  <2>4. QED
    BY <1>1, <2>1, <2>2, <2>3
<1>4. ASSUME Reporting
      PROVE  Reported
  <2>1. \A status \in Screens!Statuses : <<status>> \in Seq(Notices)
    BY NoticeTypes
  <2>2. CASE \E l \in Screens!Links : Screens!Connect(l) \/ Screens!End(l)
    BY <1>1, <2>2, ConnectReports DEF Reports
  <2>3. ASSUME NEW l \in Screens!Links, Screens!StopForPhone(l), OneReport(l, frame[l]),
               frame' = [frame EXCEPT ![l] = Screens!NoFrame]
        PROVE  Reported
    <3>1. orphans' = orphans \cup ({screenId} \ {0, frame[l].id})
      BY <2>3 DEF Screens!StopForPhone
    <3>2. QED
      BY <1>1, <2>1, <2>3, <3>1 DEF OneReport, LeaseTypes, Screens!Ids
  <2>4. CASE /\ UNCHANGED <<frame, orphans>>
             /\ \E t, status : OneReport(t, status)
    BY <1>1, <2>1, <2>4 DEF OneReport
  <2>5. CASE /\ UNCHANGED <<screenEmit, orphans>>
             /\ \E l \in Screens!Links, status \in Screens!Statuses :
                  frame' = [frame EXCEPT ![l] = status]
    BY <1>1, <2>5
  <2>6. QED
    BY <1>2, <1>4, <2>2, <2>3, <2>4, <2>5, StatusReports
<1>5. ASSUME WindowStep
      PROVE  Queued
  <2>1. linkEvents' \in Seq(Screens!LinkEvents)
    <3>1. \/ UNCHANGED linkEvents
          \/ linkEvents # <<>> /\ linkEvents' = Tail(linkEvents)
      <4>1. CASE Screens!StartSession \/ Screens!StartScreen \/ Screens!Begin \/ Screens!Forget
        BY <4>1 DEF Screens!StartSession, Screens!StartScreen, Screens!Begin, Screens!Forget
      <4>2. CASE Screens!UserStops \/ Screens!OnPhoneEvent \/ Screens!Mailbox
        BY <4>2 DEF Screens!UserStops, Screens!OnPhoneEvent, Screens!Mailbox
      <4>3. QED
        BY <1>5, <4>1, <4>2 DEF WindowStep
    <3>2. linkEvents # <<>> => Tail(linkEvents) \in Seq(Screens!LinkEvents)
      BY <1>1
    <3>3. QED
      BY <1>1, <3>1, <3>2
  <2>2. statuses' \in Seq(Screens!Statuses)
    <3>1. <<>> \in Seq(Screens!Statuses)
      OBVIOUS
    <3>2. UNCHANGED statuses \/ statuses' = <<>> \/ (statuses # <<>> /\ statuses' = Tail(statuses))
      BY <1>5, WindowEffect
    <3>3. statuses # <<>> => Tail(statuses) \in Seq(Screens!Statuses)
      BY <1>1
    <3>4. QED
      BY <1>1, <3>1, <3>2, <3>3
  <2>3. QED
    BY <2>1, <2>2
<1>6. QED
  BY <1>1, <1>2, <1>3, <1>4, <1>5, ReportKinds DEF ReportTypes

(* No thread begins another report before it has made the last.             *)
LEMMA TurnsStep ==
  ASSUME LeaseTypes, ReportTypes, WindowTypes, Leases, Turns, [Screens!Next]_screens
  PROVE  Turns'
<1>1. /\ screenLink \in [Screens!Links -> {"new", "up", "down"}]
      /\ screenPhone \in {0} \cup Screens!Links
      /\ frame \in [Screens!Links -> Screens!Statuses \cup {Screens!NoFrame}]
      /\ screenEmit \in [Screens!Threads -> Seq(Notices)]
      /\ Screens!Links \subseteq Screens!Threads
  BY ThreadNames DEF LeaseTypes, ReportTypes
<1>2. screenPhone' # 0 => screenLink'[screenPhone'] = "up"
  <2>1. ASSUME NEW l \in Screens!Links, Screens!Connect(l)
        PROVE  screenLink'[screenPhone'] = "up"
    BY <1>1, <2>1 DEF Screens!Connect
  <2>2. ASSUME NEW l \in Screens!Links, Screens!End(l), screenPhone' # 0
        PROVE  screenLink'[screenPhone'] = "up"
    BY <1>1, <2>2 DEF Screens!End, Turns
  <2>3. QED
    BY <1>1, <2>1, <2>2, LinkKinds DEF Turns
<1>3. ASSUME NEW l \in Screens!Links, screenLink'[l] = "new"
      PROVE  screenLink[l] = "new"
  BY <1>1, <1>3, LinkKinds DEF Screens!Connect, Screens!End
<1> DEFINE Early(l)  == screenLink'[l] = "new" =>
                          screenEmit'[l] = <<>> /\ frame'[l] = Screens!NoFrame
           Framed(l) == frame'[l] # Screens!NoFrame =>
                          screenEmit'[l] = <<>> /\ frame'[l].state # "streaming"
<1>4. SUFFICES ASSUME NEW l \in Screens!Links
               PROVE  Early(l) /\ Framed(l)
  BY <1>2 DEF Turns
<1>5. /\ screenLink[l] = "new" => screenEmit[l] = <<>> /\ frame[l] = Screens!NoFrame
      /\ frame[l] # Screens!NoFrame => screenEmit[l] = <<>> /\ frame[l].state # "streaming"
  BY DEF Turns
<1>6. UNCHANGED <<frame[l], screenEmit[l]>> => Early(l) /\ Framed(l)
  BY <1>3, <1>5
<1>7. ASSUME NEW k \in Screens!Links, Screens!Connect(k) \/ Screens!End(k)
      PROVE  Early(l) /\ Framed(l)
  <2>1. /\ screenLink'[k] # "new" /\ frame[k] = Screens!NoFrame
        /\ UNCHANGED frame
    BY <1>1, <1>7 DEF Screens!Connect, Screens!End, Turns
  <2>2. l # k => UNCHANGED screenEmit[l]
    BY <1>1, <1>7, ConnectReports DEF Reports
  <2>3. QED
    BY <2>1, <2>2, <1>6
<1>8. ASSUME NEW t \in Screens!Threads, Screens!Emit(t)
      PROVE  Early(l) /\ Framed(l)
  <2>1. /\ UNCHANGED frame /\ screenEmit[t] # <<>>
        /\ screenEmit' = [screenEmit EXCEPT ![t] = Tail(screenEmit[t])]
    BY <1>8, EmitEffect
  <2>2. CASE l = t
    BY <1>3, <1>5, <2>1, <2>2
  <2>3. CASE l # t
    BY <1>1, <1>6, <2>1, <2>3
  <2>4. QED
    BY <2>2, <2>3
<1>9. ASSUME NEW k \in Screens!Links, OneReport(k, frame[k]),
             frame' = [frame EXCEPT ![k] = Screens!NoFrame], Screens!StopForPhone(k)
      PROVE  Early(l) /\ Framed(l)
  <2>1. frame[k] # Screens!NoFrame
    BY <1>9 DEF Screens!StopForPhone
  <2>2. CASE l = k
    BY <1>1, <1>3, <1>5, <1>9, <2>1, <2>2
  <2>3. CASE l # k
    BY <1>1, <1>6, <1>9, <2>3 DEF OneReport
  <2>4. QED
    BY <2>2, <2>3
<1>10. ASSUME UNCHANGED frame, NEW t, NEW status, OneReport(t, status),
              t \in Screens!Links => screenLink[t] # "new" /\ frame[t] = Screens!NoFrame
       PROVE  Early(l) /\ Framed(l)
  <2>1. CASE l = t
    BY <1>3, <1>10, <2>1
  <2>2. CASE l # t
    BY <1>1, <1>6, <1>10, <2>2 DEF OneReport
  <2>3. QED
    BY <2>1, <2>2
<1>11. ASSUME NEW k \in Screens!Links, NEW status \in Screens!Statuses, UNCHANGED screenEmit,
              status.state # "streaming", frame' = [frame EXCEPT ![k] = status],
              screenEmit[k] = <<>>, screenLink[k] # "new"
       PROVE  Early(l) /\ Framed(l)
  <2>1. CASE l = k
    BY <1>1, <1>3, <1>11, <2>1
  <2>2. CASE l # k
    BY <1>1, <1>6, <1>11, <2>2
  <2>3. QED
    BY <2>1, <2>2
<1>12. CASE Reporting
  BY <1>6, <1>7, <1>9, <1>10, <1>11, <1>12, StatusReports
<1>13. QED
  BY <1>6, <1>8, <1>12, ReportKinds

(* What the steps with their own way with the lease make of it.             *)
LEMMA TouchedKeepsPhone ==
  ASSUME LeaseTouched
  PROVE  UNCHANGED screenPhone
BY DEF LeaseTouched, Screens!Authenticate, Screens!EndMedia, Screens!Hello, Screens!SendScreenInput,
       Screens!Take, Screens!StartScreen, Screens!links

(* A screen connection ends, with its session if it carries one.            *)
LEMMA EndMediaEffect ==
  ASSUME LeaseTypes, NEW m \in Screens!Media, Screens!EndMedia(m)
  PROVE  /\ media[m].at \in {"auth", "open"} /\ media'[m].at = "ended"
         /\ media'[m].id = IF media[m].at = "open" THEN media[m].id ELSE 0
         /\ \A n \in Screens!Media \ {m} : UNCHANGED media[n]
         /\ \/ screen = m /\ Screens!LeaseEnds
            \/ screen # m /\ UNCHANGED <<screenId, screenKey, screenOwner, screen, inputs>>
<1>1. media \in [Screens!Media -> Medium]
  BY DEF LeaseTypes
<1>2. /\ media[m].at \in {"auth", "open"}
      /\ media' = [media EXCEPT ![m] = [at |-> "ended", closed |-> FALSE,
                     id |-> IF media[m].at = "open" THEN media[m].id ELSE 0]]
  BY <1>1 DEF Screens!EndMedia
<1>3. \/ screen = m /\ Screens!LeaseEnds
      \/ screen # m /\ UNCHANGED <<screenId, screenKey, screenOwner, screen, inputs>>
  BY DEF Screens!EndMedia, Screens!EndsSession, Screens!lease
<1>4. QED
  BY <1>1, <1>2, <1>3

(* A screen connection takes the session up and spends its key.             *)
LEMMA AuthenticateEffect ==
  ASSUME LeaseTypes, NEW m \in Screens!Media, Screens!Authenticate(m)
  PROVE  /\ media[m].at = "auth" /\ media[m].id = screenId /\ screenKey /\ screen = 0
         /\ screenPhone # 0
         /\ ~screenKey' /\ screen' = m /\ media'[m].at = "open" /\ UNCHANGED media[m].id
         /\ \A n \in Screens!Media \ {m} : UNCHANGED media[n]
         /\ UNCHANGED <<screenId, screenOwner, inputs>>
<1>1. media \in [Screens!Media -> Medium]
  BY DEF LeaseTypes
<1>2. /\ media[m].at = "auth" /\ media[m].id = screenId /\ screenKey /\ screen = 0
      /\ screenPhone # 0
  BY DEF Screens!Authenticate, Screens!StillWaiting, Screens!Waiting, Screens!NoMedia
<1>3. /\ ~screenKey' /\ screen' = m /\ media' = [media EXCEPT ![m].at = "open"]
      /\ UNCHANGED <<screenId, screenOwner, inputs>>
  BY DEF Screens!Authenticate, Screens!KeySpent, Screens!outbox
<1>4. QED
  BY <1>1, <1>2, <1>3 DEF Medium

(* A screen connection asks for the session that waits.                     *)
LEMMA HelloOnScreenEffect ==
  ASSUME LeaseTypes, NEW m \in Screens!Media, NEW id, Screens!Hello(m, id)
  PROVE  /\ media[m].at = "new" /\ id = screenId /\ screen = 0
         /\ media'[m].at = "auth" /\ media'[m].id = id
         /\ \A n \in Screens!Media \ {m} : UNCHANGED media[n]
         /\ UNCHANGED <<screenId, screenKey, screenOwner, screen, inputs>>
BY DEF LeaseTypes, Screens!Hello, Screens!Waiting, Screens!NoMedia, Screens!lease, Screens!outbox

(* ScreenSendLoop ends the session or leaves the lease alone.               *)
LEMMA TakeEffect ==
  ASSUME Leases, Screens!Take
  PROVE  /\ UNCHANGED <<screen, media>>
         /\ UNCHANGED <<screenId, screenKey, screenOwner>>
            \/ (screenId' = 0 /\ screenKey' = FALSE /\ screenOwner' = 0 /\ screen = 0)
         /\ UNCHANGED inputs \/ (inputs # <<>> /\ inputs' = Tail(inputs))
BY DEF Screens!Take, Screens!Expired, Screens!NoMedia

(* StartScreen gives the lease to the session it was asked for.             *)
LEMMA StartScreenEffect ==
  ASSUME Screens!StartScreen
  PROVE  /\ window = "starting" /\ UNCHANGED <<screen, media, inputs>>
         /\ \/ UNCHANGED <<screenId, screenKey, screenOwner>> /\ window' = "idle"
               /\ UNCHANGED fresh
            \/ /\ screenId' = counts.sessions /\ screenKey' = TRUE
               /\ screenOwner' = screenPhone /\ screenPhone # 0
               /\ window' = "beginning" /\ fresh' = screenId'
BY DEF Screens!StartScreen, Screens!lease

(* The lease, its connection and its inputs stay together.                  *)
LEMMA LeasesStep ==
  ASSUME LeaseTypes, QueueTypes, WindowTypes, Leases, Numbered, [Screens!Next]_screens
  PROVE  Leases'
<1>1. /\ screen \in {0} \cup Screens!Media /\ 0 \notin Screens!Media
      /\ inputs \in Seq(Screens!Sessions)
  BY ThreadNames DEF LeaseTypes, QueueTypes
<1>2. CASE LeaseEnded
  <2>1. screenId' = 0 /\ screen' = 0 /\ inputs' = <<>> /\ ~screenKey'
    BY <1>2 DEF LeaseEnded, Screens!LeaseEnds, Screens!NoMedia
  <2>2. DOMAIN <<>> = {}
    OBVIOUS
  <2>3. QED
    BY <2>1, <2>2 DEF Leases
<1>3. CASE LeaseKept /\ (UNCHANGED screenPhone \/ screenId = 0 \/ screenPhone = 0)
  BY <1>3 DEF Leases, LeaseKept
<1>4. ASSUME NEW m \in Screens!Media, Screens!EndMedia(m)
      PROVE  Leases'
  <2>1. CASE screen = m /\ Screens!LeaseEnds
    <3>1. screenId' = 0 /\ screen' = 0 /\ inputs' = <<>> /\ ~screenKey'
      BY <2>1 DEF Screens!LeaseEnds, Screens!NoMedia
    <3>2. DOMAIN <<>> = {}
      OBVIOUS
    <3>3. QED
      BY <3>1, <3>2 DEF Leases
  <2>2. CASE screen # m /\ UNCHANGED <<screenId, screenKey, screenOwner, screen, inputs>>
    <3>1. screen # 0 => UNCHANGED media[screen]
      BY <1>1, <1>4, <2>2, EndMediaEffect
    <3>2. UNCHANGED screenPhone
      BY <1>4, TouchedKeepsPhone DEF LeaseTouched
    <3>3. QED
      BY <2>2, <3>1, <3>2 DEF Leases
  <2>3. QED
    BY <1>4, <2>1, <2>2, EndMediaEffect
<1>5. ASSUME NEW m \in Screens!Media, Screens!Authenticate(m)
      PROVE  Leases'
  <2>1. UNCHANGED screenPhone
    BY <1>5, TouchedKeepsPhone DEF LeaseTouched
  <2>2. screenId # 0
    BY <1>5, AuthenticateEffect DEF Leases
  <2>3. QED
    BY <1>1, <1>5, <2>1, <2>2, AuthenticateEffect DEF Leases
<1>6. ASSUME NEW m \in Screens!Media, NEW id \in Screens!Sessions, Screens!Hello(m, id)
      PROVE  Leases'
  <2>1. UNCHANGED screenPhone
    BY <1>6, TouchedKeepsPhone DEF LeaseTouched
  <2>2. QED
    BY <1>6, <2>1, HelloOnScreenEffect DEF Leases
<1>7. ASSUME NEW id \in Screens!Sessions, Screens!SendScreenInput(id)
      PROVE  Leases'
  <2>1. /\ UNCHANGED <<screenId, screenKey, screenOwner, screen, media, screenPhone>>
        /\ screen # 0 /\ id = screenId
        /\ inputs' \in {<<id>>, Append(inputs, id)}
    BY <1>7 DEF Screens!SendScreenInput, Screens!Accepted, Screens!NoMedia, Screens!lease,
                Screens!links
  <2>2. \A i \in DOMAIN inputs' : inputs'[i] = screenId
    <3>1. CASE inputs' = <<id>>
      BY <2>1, <3>1
    <3>2. CASE inputs' = Append(inputs, id)
      BY <1>1, <2>1, <3>2 DEF Leases
    <3>3. QED
      BY <2>1, <3>1, <3>2
  <2>3. QED
    BY <2>1, <2>2 DEF Leases
<1>8. ASSUME Screens!Take
      PROVE  Leases'
  <2>1. UNCHANGED screenPhone
    BY <1>8, TouchedKeepsPhone DEF LeaseTouched
  <2>2. screen = 0 => inputs' = <<>>
    BY <1>8, TakeEffect DEF Leases
  <2>3. screen # 0 => UNCHANGED <<screenId, screenKey, screenOwner>>
    BY <1>8, TakeEffect
  <2>4. \A i \in DOMAIN inputs' : inputs'[i] = screenId'
    <3>1. CASE inputs' = <<>>
      BY <3>1
    <3>2. CASE inputs' # <<>>
      <4>1. UNCHANGED screenId /\ inputs \in Seq(Screens!Sessions)
        BY <1>1, <2>2, <2>3, <3>2
      <4>2. \A i \in DOMAIN inputs : inputs[i] = screenId
        BY DEF Leases
      <4>3. UNCHANGED inputs \/ (inputs # <<>> /\ inputs' = Tail(inputs))
        BY <1>8, TakeEffect
      <4>4. QED
        BY <4>1, <4>2, <4>3
    <3>3. QED
      BY <3>1, <3>2
  <2>5. UNCHANGED <<screen, media>> /\ (screenId' # 0 => UNCHANGED <<screenId, screenOwner>>)
    BY <1>8, TakeEffect
  <2>6. screenKey' => screenId' # 0
    BY <1>8, TakeEffect DEF Leases
  <2>7. QED
    BY <2>1, <2>2, <2>3, <2>4, <2>5, <2>6 DEF Leases
<1>9. ASSUME Screens!StartScreen
      PROVE  Leases'
  <2>1. UNCHANGED screenPhone
    BY <1>9, TouchedKeepsPhone DEF LeaseTouched
  <2>2. screenId = 0 /\ screen = 0 /\ inputs = <<>>
    BY <1>9, StartScreenEffect DEF Leases, Numbered
  <2>3. \A i \in DOMAIN inputs : FALSE
    BY <2>2
  <2>4. counts.sessions # 0
    BY <1>9, StartScreenEffect DEF Numbered
  <2>5. UNCHANGED <<screen, media, inputs>>
    BY <1>9, StartScreenEffect
  <2>6. \/ UNCHANGED <<screenId, screenKey, screenOwner>>
        \/ screenId' # 0 /\ screenOwner' = screenPhone /\ screenPhone # 0
    BY <1>9, <2>4, StartScreenEffect
  <2>7. QED
    BY <2>1, <2>2, <2>3, <2>5, <2>6 DEF Leases
<1>10. QED
  BY <1>2, <1>3, <1>4, <1>5, <1>6, <1>7, <1>8, <1>9, LeaseKinds DEF LeaseTouched

(* No session has the number of the next.                                   *)
LEMMA NumberedStep ==
  ASSUME LeaseTypes, WindowTypes, Leases, Numbered, [Screens!Next]_screens
  PROVE  Numbered'
<1>1. /\ \A m \in Screens!Media : media[m].id \in Nat
      /\ screenId \in Nat /\ counts.sessions \in Nat /\ 0 \notin Screens!Media
      /\ media \in [Screens!Media -> Medium]
  BY ThreadNames DEF LeaseTypes, WindowTypes, Medium
<1> DEFINE n == counts.sessions
<1> HIDE DEF n
(* Each session id comes from the one the lease has, or had.                *)
<1>2. /\ screenId' \in {screenId, 0} \/ Screens!StartScreen
      /\ \A m \in Screens!Media : media'[m].id \in {media[m].id, screenId, 0}
  <2>1. CASE LeaseEnded
    <3>1. screenId' = 0
      BY <2>1 DEF LeaseEnded, Screens!LeaseEnds
    <3>2. \A m \in Screens!Media : UNCHANGED media[m].id
      BY <2>1, CutEffect DEF LeaseEnded
    <3>3. QED
      BY <3>1, <3>2
  <2>2. CASE LeaseKept
    BY <2>2 DEF LeaseKept
  <2>3. CASE LeaseTouched
    <3>1. ASSUME NEW m \in Screens!Media, Screens!EndMedia(m)
          PROVE  /\ screenId' \in {screenId, 0}
                 /\ \A k \in Screens!Media : media'[k].id \in {media[k].id, screenId, 0}
      BY <3>1, EndMediaEffect DEF Screens!LeaseEnds
    <3>2. ASSUME NEW m \in Screens!Media, Screens!Authenticate(m)
          PROVE  /\ screenId' \in {screenId, 0}
                 /\ \A k \in Screens!Media : media'[k].id \in {media[k].id, screenId, 0}
      BY <3>2, AuthenticateEffect
    <3>3. ASSUME NEW m \in Screens!Media, NEW id \in Screens!Sessions, Screens!Hello(m, id)
          PROVE  /\ screenId' \in {screenId, 0}
                 /\ \A k \in Screens!Media : media'[k].id \in {media[k].id, screenId, 0}
      BY <3>3, HelloOnScreenEffect
    <3>4. ASSUME NEW id, Screens!SendScreenInput(id)
          PROVE  UNCHANGED <<screenId, media>>
      BY <3>4 DEF Screens!SendScreenInput, Screens!lease
    <3>5. QED
      BY <2>3, <3>1, <3>2, <3>3, <3>4, TakeEffect, StartScreenEffect DEF LeaseTouched
  <2>4. QED
    BY <2>1, <2>2, <2>3, LeaseKinds
<1>3. CASE ~WindowStep
  <2>1. UNCHANGED <<window, n>> /\ screenId' \in {screenId, 0}
    BY <1>2, <1>3, ReportKinds DEF WindowStays, WindowStep, n
  <2>2. screenId <= n /\ \A m \in Screens!Media : media[m].id <= n
    BY DEF Numbered, n
  <2>3. screenId' <= n /\ \A m \in Screens!Media : media'[m].id <= n
    BY <1>1, <1>2, <2>1, <2>2 DEF n
  <2>4. window = "starting" => /\ screenId' = 0 /\ n # 0
                               /\ \A m \in Screens!Media : media'[m].id # n
    BY <1>2, <2>1 DEF Numbered, n
  <2>5. QED
    BY <2>1, <2>3, <2>4 DEF Numbered, n
<1>4. CASE WindowStep
  <2>1. \A m \in Screens!Media : UNCHANGED media[m].id
    <3>1. LeaseEnded \/ UNCHANGED media
      <4>1. UNCHANGED media \/ Screens!StopScreen
        BY <1>4 DEF WindowStep, Screens!StartSession, Screens!StartScreen, Screens!Begin,
           Screens!UserStops, Screens!Forget, Screens!OnPhoneEvent, Screens!Mailbox,
           Screens!EndSession
      <4>2. QED
        BY <4>1 DEF LeaseEnded, Screens!StopScreen
    <3>2. QED
      BY <3>1, CutEffect DEF LeaseEnded
  <2>2. CASE Screens!StartSession
    <3>1. n \in Nat /\ n' = n + 1 /\ screenId' = 0
      BY <1>1, <2>2 DEF Screens!StartSession, Screens!StopScreen, Screens!LeaseEnds, n, WindowTypes
    <3>2. \A m \in Screens!Media : media'[m].id \in Nat /\ media'[m].id <= n
      BY <1>1, <2>1 DEF Numbered, n
    <3>3. QED
      BY <3>1, <3>2 DEF Numbered, n
  <2>3. CASE Screens!StartScreen
    <3>1. UNCHANGED n /\ n \in Nat /\ window' # "starting" /\ screenId' \in {screenId, n}
      BY <1>1, <2>3, StartScreenEffect DEF Screens!StartScreen, n
    <3>2. QED
      BY <1>1, <2>1, <3>1 DEF Numbered, n
  <2>4. CASE ~Screens!StartSession /\ ~Screens!StartScreen
    <3>1. UNCHANGED counts /\ window' # "starting"
      BY <1>4, <2>4, WindowEffect
    <3>2. QED
      BY <1>1, <1>2, <2>1, <2>4, <3>1 DEF Numbered, n
  <2>5. QED
    BY <2>2, <2>3, <2>4
<1>5. QED
  BY <1>3, <1>4

(* Only the steps of ScreenSendLoop change what it has taken.               *)
LEMMA SendingStays ==
  ASSUME QueueTypes, Leases, [Screens!Next]_screens
  PROVE  \/ UNCHANGED sending \/ sending'.kind # "input"
         \/ /\ screen # 0 /\ sending' = [to |-> screen, kind |-> "input", id |-> screenId]
            /\ UNCHANGED media
<1>1. ASSUME NEW arrives \in BOOLEAN, Screens!Sent(arrives)
      PROVE  sending'.kind # "input"
  BY <1>1 DEF Screens!Sent, Screens!NoMessage
<1>2. ASSUME Screens!Take
      PROVE  \/ UNCHANGED sending \/ sending'.kind # "input"
             \/ /\ screen # 0 /\ sending' = [to |-> screen, kind |-> "input", id |-> screenId]
                /\ UNCHANGED media
  <2> DEFINE Stop == [to |-> screenPhone, kind |-> "stop", id |-> screenId]
  <2>1. commands \in Seq(Screens!Commands) /\ inputs \in Seq(Screens!Sessions)
    BY DEF QueueTypes
  <2>2. CASE inputs # <<>>
    <3>1. sending' = [to |-> screen, kind |-> "input", id |-> Head(inputs)]
      BY <1>2, <2>2 DEF Screens!Take
    <3>2. Head(inputs) = screenId
      BY <2>1, <2>2 DEF Leases
    <3>3. screen # 0 /\ UNCHANGED media
      BY <1>2, <2>2, TakeEffect DEF Leases
    <3>4. QED
      BY <3>1, <3>2, <3>3
  <2>3. CASE inputs = <<>>
    <3>1. \/ UNCHANGED sending
          \/ commands # <<>> /\ sending' = Head(commands)
          \/ sending' = Head(Append(commands, Stop))
      BY <1>2, <2>3 DEF Screens!Take, Screens!TellPhone
    <3>2. \A c \in Screens!Commands : c.kind # "input"
      BY DEF Screens!Commands
    <3>3. commands # <<>> => Head(commands).kind # "input"
      BY <2>1, <3>2
    <3>4. Head(Append(commands, Stop)).kind # "input"
      <4>1. CASE commands = <<>>
        BY <4>1
      <4>2. CASE commands # <<>>
        <5>1. Head(Append(commands, Stop)) = Head(commands)
          BY <2>1, <4>2
        <5>2. QED
          BY <3>3, <4>2, <5>1
      <4>3. QED
        BY <4>1, <4>2
    <3>5. QED
      BY <3>1, <3>3, <3>4
  <2>4. QED
    BY <2>2, <2>3
<1>3. QED
  BY <1>1, <1>2, SendKinds

(* No screen connection gets a session that another has had.                *)
LEMMA ViewersStep ==
  ASSUME LeaseTypes, QueueTypes, WindowTypes, Leases, Numbered, Viewers, [Screens!Next]_screens
  PROVE  Viewers'
<1> DEFINE Key == screenKey => \A m \in Screens!Media : Screens!Opened(m) => media[m].id # screenId
           Cut == \A m \in Screens!Media : media[m].at = "open" /\ screen # m => media[m].closed
           Had(m) == Screens!Opened(m) /\ media'[m].id = media[m].id
           One == \A m, n \in Screens!Media :
                    Screens!Opened(m) /\ Screens!Opened(n) /\ media[m].id = media[n].id => m = n
           Arrives == sending.kind = "input" => /\ media[sending.to].at \in {"open", "ended"}
                                                /\ media[sending.to].id = sending.id
                                                /\ sending.id # 0
<1> USE DEF Screens!Opened
<1>1. Key /\ Cut /\ One /\ Arrives
  BY DEF Viewers
<1>2. 0 \notin Screens!Media /\ screen \in {0} \cup Screens!Media
  BY ThreadNames DEF LeaseTypes
<1> DEFINE Kept == \A m \in Screens!Media : media[m].at \in {"open", "ended"} =>
                     media'[m].at \in {"open", "ended"} /\ media'[m].id = media[m].id
           Fewer == \A m \in Screens!Media : Screens!Opened(m)' => Had(m)
<1>3. Fewer => One'
  BY <1>1
<1> DEFINE Good == Kept /\ One' /\ Key' /\ Cut'
<1> DEFINE Same == UNCHANGED <<screen, media>> /\ (screenKey' => screenKey /\ UNCHANGED screenId)
<1>4. ASSUME UNCHANGED <<screen, media>>
       PROVE  Kept /\ Fewer /\ Cut'
  BY <1>1, <1>4
<1>5. ASSUME Same
       PROVE  Key'
  BY <1>1, <1>5
<1>6. Fewer /\ Kept /\ Key' /\ Cut' => Good
  <2> HIDE DEF Fewer, Kept, Key, Cut, One
  <2>1. QED
    BY <1>3
<1>7. Same => Good
  BY <1>4, <1>5, <1>6
<1>8. ASSUME LeaseEnded
      PROVE  Good
  <2>1. \A m \in Screens!Media : UNCHANGED <<media[m].at, media[m].id>>
    BY <1>8, CutEffect DEF LeaseEnded
  <2>2. ~screenKey'
    BY <1>8 DEF LeaseEnded, Screens!LeaseEnds
  <2>3. Cut'
    BY <1>1, <1>8, <2>1, CutEffect DEF LeaseEnded
  <2>4. Kept /\ Fewer
    BY <2>1
  <2>5. QED
    BY <1>6, <2>2, <2>3, <2>4
<1>9. ASSUME LeaseKept
      PROVE  Good
  BY <1>9, <1>7 DEF LeaseKept
<1>10. ASSUME NEW m \in Screens!Media, Screens!EndMedia(m)
      PROVE  Good
  <2>1. Kept
    BY <1>10, EndMediaEffect
  <2>2. Fewer
    BY <1>10, EndMediaEffect
  <2>3. screenKey' => screenKey /\ UNCHANGED screenId
    BY <1>10, EndMediaEffect DEF Screens!LeaseEnds
  <2>4. Key'
    BY <1>1, <2>2, <2>3
  <2>5. Cut'
    <3>1. \A n \in Screens!Media \ {m} : UNCHANGED media[n] /\ (screen = n <=> screen' = n)
      BY <1>2, <1>10, EndMediaEffect DEF Screens!LeaseEnds, Screens!NoMedia
    <3>2. media'[m].at = "ended"
      BY <1>10, EndMediaEffect
    <3>3. QED
      BY <1>1, <3>1, <3>2
  <2>6. QED
    BY <1>6, <2>1, <2>2, <2>4, <2>5
<1>11. ASSUME NEW m \in Screens!Media, Screens!Authenticate(m)
      PROVE  Good
  <2>1. Kept
    BY <1>11, AuthenticateEffect
  <2>2. \A n \in Screens!Media : Screens!Opened(n)' => n = m \/ Had(n)
    BY <1>11, AuthenticateEffect
  <2>3. \A n \in Screens!Media : Screens!Opened(n) => media[n].id # media'[m].id
    BY <1>1, <1>11, AuthenticateEffect
  <2>4. One'
    BY <1>1, <2>2, <2>3
  <2>5. Key' /\ Cut'
    BY <1>1, <1>2, <1>11, AuthenticateEffect
  <2>6. QED
    BY <2>1, <2>4, <2>5
<1>12. ASSUME NEW m \in Screens!Media, NEW id \in Screens!Sessions, Screens!Hello(m, id)
      PROVE  Good
  <2>1. Kept /\ Fewer
    BY <1>12, HelloOnScreenEffect
  <2>2. Key' /\ Cut'
    BY <1>1, <1>12, HelloOnScreenEffect
  <2>3. QED
    BY <1>6, <2>1, <2>2
<1>13. ASSUME NEW id, Screens!SendScreenInput(id)
      PROVE  Good
  <2>1. UNCHANGED <<screenId, screenKey, screen, media>>
    BY <1>13 DEF Screens!SendScreenInput, Screens!lease
  <2>2. QED
    BY <1>7, <2>1
<1>14. ASSUME Screens!Take
       PROVE  Good
  <2>1. UNCHANGED <<screen, media>>
    BY <1>14, TakeEffect
  <2>2. screenKey' => screenKey /\ UNCHANGED screenId
    BY <1>14, TakeEffect
  <2>3. QED
    BY <1>7, <2>1, <2>2
<1>15. ASSUME Screens!StartScreen
       PROVE  Good
  <2>1. UNCHANGED <<screen, media>>
    BY <1>15, StartScreenEffect
  <2>2. Key'
    <3>1. \A m \in Screens!Media : media[m].id # counts.sessions
      BY <1>15, StartScreenEffect DEF Numbered
    <3>2. QED
      BY <1>1, <1>15, <2>1, <3>1, StartScreenEffect
  <2>3. QED
    BY <1>4, <1>6, <2>1, <2>2
<1>16. Good
  BY <1>8, <1>9, <1>10, <1>11, <1>12, <1>13, <1>14, <1>15, LeaseKinds DEF LeaseTouched
<1>17. Arrives'
  <2>1. CASE UNCHANGED sending
    <3>1. sending.kind = "input" => sending.to \in Screens!Media
      BY DEF QueueTypes, Screens!Messages, Screens!Commands, Screens!NoMessage
    <3>2. QED
      BY <1>1, <1>16, <2>1, <3>1
  <2>2. CASE /\ screen # 0 /\ UNCHANGED media
             /\ sending' = [to |-> screen, kind |-> "input", id |-> screenId]
    BY <2>2 DEF Leases
  <2>3. QED
    BY <2>1, <2>2, SendingStays
<1>18. QED
  BY <1>16, <1>17 DEF Viewers

-----------------------------------------------------------------------------
(* What is reported is on its way, and what was on its way stays there.     *)
LEMMA ReportedIsOnItsWay ==
  ASSUME ReportTypes, UNCHANGED frame, NEW t \in Screens!Threads,
         NEW reports \in Seq(Notices), Reports(t, reports), NEW id
  PROVE  /\ OnItsWay(id) => OnItsWay(id)'
         /\ Ends(reports, id) => OnItsWay(id)'
<1>1. screenEmit'[t] = reports /\ \A u \in Screens!Threads \ {t} : UNCHANGED screenEmit[u]
  BY DEF ReportTypes, Reports
<1>2. ~Ends(screenEmit[t], id)
  <2>1. screenEmit[t] = <<>> /\ DOMAIN <<>> = {}
    BY DEF Reports
  <2>2. QED
    BY <2>1 DEF Ends
<1>3. \A u \in Screens!Threads : Ends(screenEmit[u], id) => Ends(screenEmit'[u], id)
  BY <1>1, <1>2
<1>4. Ends(reports, id) => Ends(screenEmit'[t], id)
  BY <1>1
<1>5. QED
  BY <1>3, <1>4 DEF OnItsWay, Ends

(* The end of a session is reported, or is an orphan.                       *)
LEMMA EndIsReported ==
  ASSUME LeaseTypes, ReportTypes, Leases, Turns, Reporting, NEW id \in Screens!Sessions,
         id \notin orphans'
  PROVE  /\ id \notin orphans
         /\ OnItsWay(id) => OnItsWay(id)'
         /\ id = screenId /\ screenId' # screenId => OnItsWay(id)'
<1> DEFINE Goal == /\ id \notin orphans
                   /\ OnItsWay(id) => OnItsWay(id)'
                   /\ id = screenId /\ screenId' # screenId => OnItsWay(id)'
<1>1. id # 0
  BY ThreadNames
<1>2. ASSUME NEW l \in Screens!Links, Screens!Connect(l) \/ Screens!End(l)
      PROVE  Goal
  <2>1. UNCHANGED <<frame, orphans>>
    BY <1>2, ConnectReports
  <2>2. PICK reports \in Seq(Notices) :
          /\ Reports(l, reports)
          /\ screenId # 0 /\ screenId' # screenId => Ends(reports, screenId)
    BY <1>2, ConnectReports
  <2>3. l \in Screens!Threads
    BY ThreadNames
  <2>4. OnItsWay(id) => OnItsWay(id)'
    BY <2>1, <2>2, <2>3, ReportedIsOnItsWay
  <2>5. Ends(reports, id) => OnItsWay(id)'
    BY <2>1, <2>2, <2>3, ReportedIsOnItsWay
  <2>6. QED
    BY <1>1, <2>1, <2>2, <2>4, <2>5
<1>3. ASSUME NEW t \in Screens!Threads, NEW status \in Screens!Statuses, OneReport(t, status),
             UNCHANGED frame
      PROVE  /\ OnItsWay(id) => OnItsWay(id)'
             /\ status.id = id /\ status.state # "streaming" => OnItsWay(id)'
  <2>1. <<status>> \in Seq(Notices) /\ Reports(t, <<status>>)
    BY <1>3, NoticeTypes DEF OneReport, Reports
  <2>2. status.id = id /\ status.state # "streaming" => Ends(<<status>>, id)
    BY DEF Ends
  <2>3. OnItsWay(id) => OnItsWay(id)'
    BY <1>3, <2>1, ReportedIsOnItsWay
  <2>4. Ends(<<status>>, id) => OnItsWay(id)'
    BY <1>3, <2>1, ReportedIsOnItsWay
  <2>5. QED
    BY <2>2, <2>3, <2>4
<1>4. ASSUME NEW l \in Screens!Links, Screens!StopForPhone(l), OneReport(l, frame[l]),
             frame' = [frame EXCEPT ![l] = Screens!NoFrame]
      PROVE  Goal
  <2>1. /\ screenEmit[l] = <<>> /\ screenEmit' = [screenEmit EXCEPT ![l] = <<frame[l]>>]
        /\ frame \in [Screens!Links -> Screens!Statuses \cup {Screens!NoFrame}]
        /\ screenEmit \in [Screens!Threads -> Seq(Notices)] /\ l \in Screens!Threads
    BY <1>4, ThreadNames DEF OneReport, ReportTypes
  <2>2. orphans' = orphans \cup ({screenId} \ {0, frame[l].id}) /\ frame[l] # Screens!NoFrame
    BY <1>4 DEF Screens!StopForPhone
  <2>3. frame[l].state # "streaming"
    BY <2>2 DEF Turns
  <2>4. frame[l].id = id => Ends(screenEmit'[l], id)
    <3>1. screenEmit'[l] = <<frame[l]>>
      BY <2>1
    <3>2. QED
      BY <2>3, <3>1 DEF Ends
  <2>5. frame[l].id = id => OnItsWay(id)'
    BY <2>1, <2>4 DEF OnItsWay, Ends
  <2>6. ASSUME NEW u \in Screens!Threads, Ends(screenEmit[u], id)
        PROVE  OnItsWay(id)'
    <3>1. u # l
      <4>1. DOMAIN <<>> = {}
        OBVIOUS
      <4>2. QED
        BY <2>1, <2>6, <4>1 DEF Ends
    <3>2. UNCHANGED screenEmit[u]
      BY <2>1, <3>1
    <3>3. Ends(screenEmit'[u], id)
      BY <2>6, <3>2
    <3>4. QED
      BY <3>3 DEF OnItsWay, Ends
  <2>7. ASSUME NEW k \in Screens!Links, frame[k].id = id
        PROVE  OnItsWay(id)'
    <3>1. CASE k = l
      BY <2>5, <2>7, <3>1
    <3>2. CASE k # l
      BY <1>4, <2>1, <2>7, <3>2 DEF OnItsWay
    <3>3. QED
      BY <3>1, <3>2
  <2>8. OnItsWay(id) => OnItsWay(id)'
    <3>1. OnItsWay(id) => \/ \E u \in Screens!Threads : Ends(screenEmit[u], id)
                          \/ \E k \in Screens!Links : frame[k].id = id
      BY DEF OnItsWay
    <3>2. QED
      BY <2>6, <2>7, <3>1
  <2>9. QED
    BY <1>1, <2>2, <2>5, <2>8
<1>5. ASSUME UNCHANGED screenEmit, NEW l \in Screens!Links, NEW status \in Screens!Statuses,
             frame[l] = Screens!NoFrame, frame' = [frame EXCEPT ![l] = status]
      PROVE  OnItsWay(id) => OnItsWay(id)'
  <2>1. frame \in [Screens!Links -> Screens!Statuses \cup {Screens!NoFrame}]
    BY DEF ReportTypes
  <2>2. frame[l].id # id
    BY <1>1, <1>5 DEF Screens!NoFrame
  <2>3. \A k \in Screens!Links : frame[k].id = id => frame'[k].id = id
    BY <1>5, <2>1, <2>2
  <2>4. QED
    BY <1>5, <2>3 DEF OnItsWay
<1>6. ASSUME UNCHANGED <<frame, orphans>>, screenId # 0, screenId' = 0,
             NEW t \in Screens!Threads, OneReport(t, Screens!Status(screenId, "stopped"))
      PROVE  Goal
  <2>1. /\ Screens!Status(screenId, "stopped").id = screenId
        /\ Screens!Status(screenId, "stopped").state # "streaming"
    BY DEF Screens!Status
  <2>2. Screens!Status(screenId, "stopped") \in Screens!Statuses
    BY <1>6 DEF OneReport
  <2>3. OnItsWay(id) => OnItsWay(id)'
    BY <1>3, <1>6, <2>2
  <2>4. id = screenId => OnItsWay(id)'
    BY <1>3, <1>6, <2>1, <2>2
  <2>5. QED
    BY <1>6, <2>3, <2>4
<1>7. UNCHANGED <<frame, screenEmit>> => (OnItsWay(id) => OnItsWay(id)')
  BY DEF OnItsWay
<1>8. QED
  BY <1>2, <1>3, <1>4, <1>5, <1>6, <1>7, StatusReports

(* A report that reaches the UI's side reaches the window that shows its    *)
(* session, or is an orphan.                                                *)
LEMMA EmittedIsHeard ==
  ASSUME ReportTypes, NEW t \in Screens!Threads, Screens!Emit(t),
         NEW id \in Screens!Sessions, OnItsWay(id)
  PROVE  \/ OnItsWay(id)'
         \/ id = playing /\ Ends(statuses, id)'
         \/ id # playing /\ (window = "beginning" /\ id = fresh => id \in orphans')
<1> DEFINE reports == screenEmit[t]
           status  == Head(reports)
<1>1. /\ reports # <<>> /\ screenEmit' = [screenEmit EXCEPT ![t] = Tail(reports)]
      /\ UNCHANGED frame
  BY EmitEffect
<1>2. reports \in Seq(Notices) /\ screenEmit \in [Screens!Threads -> Seq(Notices)]
  BY DEF ReportTypes
<1>3. ASSUME NEW u \in Screens!Threads, u # t, Ends(screenEmit[u], id)
      PROVE  OnItsWay(id)'
  <2>1. UNCHANGED screenEmit[u]
    BY <1>1, <1>2, <1>3
  <2>2. Ends(screenEmit'[u], id)
    BY <1>3, <2>1
  <2>3. QED
    BY <2>2 DEF OnItsWay, Ends
<1>4. ASSUME Ends(reports, id), ~(status.id = id /\ status.state # "streaming")
      PROVE  OnItsWay(id)'
  <2>1. PICK i \in DOMAIN reports : reports[i].id = id /\ reports[i].state # "streaming"
    BY <1>4 DEF Ends
  <2>2. i # 1
    BY <1>4, <1>1, <1>2, <2>1
  <2> HIDE DEF reports
  <2>3. i - 1 \in DOMAIN Tail(reports) /\ Tail(reports)[i - 1] = reports[i]
    BY <1>1, <1>2, <2>1, <2>2
  <2>4. Ends(Tail(reports), id)
    BY <2>1, <2>3 DEF Ends
  <2>5. screenEmit'[t] = Tail(reports)
    BY <1>1, <1>2
  <2>6. QED
    BY <2>4, <2>5 DEF OnItsWay, Ends
<1>5. ASSUME status.id = id, status.state # "streaming"
      PROVE  \/ id = playing /\ Ends(statuses, id)'
             \/ id # playing /\ (window = "beginning" /\ id = fresh => id \in orphans')
  <2>1. status \notin Screens!LinkEvents
    BY <1>5, ThreadNames DEF Screens!LinkEvents
  <2>2. /\ statuses' = IF status.id = playing THEN Append(statuses, status) ELSE statuses
        /\ orphans' = IF window = "beginning" /\ status.id = fresh /\ status.state # "streaming"
                      THEN orphans \cup {fresh} ELSE orphans
    BY <2>1, EmitEffect
  <2>3. CASE id = playing
    <3>1. statuses' = Append(statuses, status) /\ statuses \in Seq(Screens!Statuses)
      BY <1>5, <2>2, <2>3 DEF ReportTypes
    <3> HIDE DEF status
    <3>2. /\ Len(statuses) + 1 \in DOMAIN statuses'
          /\ statuses'[Len(statuses) + 1] = status
      BY <3>1
    <3>3. QED
      BY <1>5, <2>3, <3>2 DEF Ends
  <2>4. CASE id # playing
    BY <1>5, <2>2, <2>4
  <2>5. QED
    BY <2>3, <2>4
<1>6. (\E l \in Screens!Links : frame[l].id = id) => OnItsWay(id)'
  BY <1>1 DEF OnItsWay
<1>7. QED
  BY <1>3, <1>4, <1>5, <1>6 DEF OnItsWay

(* No step loses the end of the session that the window shows.              *)
LEMMA HeardStep ==
  ASSUME LeaseTypes, ReportTypes, WindowTypes, Leases, Numbered, Turns, Windows, Heard,
         [Screens!Next]_screens
  PROVE  Heard'
<1>1. /\ session \in Screens!Ids /\ fresh \in Screens!Ids
      /\ \A id \in Screens!Ids : id # 0 => id \in Screens!Sessions
  BY DEF WindowTypes, Screens!Ids
<1> DEFINE Left(id)    == id \notin {0, screenId} \cup orphans
           Shown(id)   == Left(id) => Ends(statuses, id) \/ window = "ending" \/ OnItsWay(id)
           Awaited(id) == Left(id) => OnItsWay(id)
<1>2. Shown(session) /\ Awaited(fresh)
  BY DEF Heard
<1>3. SUFFICES Shown(session)' /\ Awaited(fresh)'
  BY DEF Heard
<1>4. ASSUME UNCHANGED <<frame, screenEmit, orphans, screenId>>, NEW id
      PROVE  (OnItsWay(id)' <=> OnItsWay(id)) /\ (Left(id)' <=> Left(id))
  BY <1>4 DEF OnItsWay, Ends
<1>5. CASE WindowStep /\ UNCHANGED <<frame, screenEmit, orphans>>
  <2>1. CASE session' = 0 /\ fresh' = 0
    BY <2>1
  <2>2. CASE /\ session = 0 /\ session' = 0 /\ fresh' = screenId'
    BY <2>2
  <2>3. CASE session' = fresh /\ fresh' = 0 /\ UNCHANGED screenId
    BY <1>2, <1>4, <1>5, <2>3
  <2>4. CASE window' = "ending" /\ fresh' = 0
    BY <2>4
  <2>5. CASE /\ window = "idle" /\ fresh' = 0 /\ UNCHANGED <<session, screenId>>
             /\ \/ UNCHANGED statuses
                \/ /\ Screens!Mailbox /\ statuses # <<>> /\ statuses' = Tail(statuses)
                   /\ Head(statuses).state \notin {"stopped", "error"}
    <3>1. ASSUME Ends(statuses, session)
          PROVE  Ends(statuses', session)
      <4>1. CASE UNCHANGED statuses
        BY <3>1, <4>1
      <4>2. CASE /\ statuses # <<>> /\ statuses' = Tail(statuses)
                 /\ Head(statuses).state \notin {"stopped", "error"}
        <5>1. statuses \in Seq(Screens!Statuses)
          BY DEF ReportTypes
        <5>2. \A status \in Screens!Statuses : status.state \in Screens!States
          BY DEF Screens!Statuses
        <5>3. PICK i \in DOMAIN statuses :
                statuses[i].id = session /\ statuses[i].state # "streaming"
          BY <3>1 DEF Ends
        <5>4. i # 1
          BY <4>2, <5>1, <5>2, <5>3 DEF Screens!States
        <5>5. i - 1 \in DOMAIN statuses' /\ statuses'[i - 1] = statuses[i]
          BY <4>2, <5>1, <5>3, <5>4
        <5>6. QED
          BY <5>3, <5>5 DEF Ends
      <4>3. QED
        BY <2>5, <4>1, <4>2
    <3>2. QED
      BY <1>2, <1>4, <1>5, <2>5, <3>1 DEF Ends
  <2>6. fresh # 0 <=> window = "beginning"
    BY DEF Windows
  <2>7. session # 0 => window \in {"idle", "ending"}
    BY DEF Windows
  <2>8. Screens!StartScreen /\ window' = "beginning" => fresh' = screenId'
    BY StartScreenEffect
  <2>9. QED
    BY <1>5, <2>1, <2>2, <2>3, <2>4, <2>5, <2>6, <2>7, <2>8, WindowEffect
<1>6. CASE WindowStays /\ UNCHANGED statuses /\ Reporting
  <2>1. ASSUME NEW id \in Screens!Sessions, Left(id)'
        PROVE  /\ OnItsWay(id)' \/ Left(id)
               /\ OnItsWay(id) => OnItsWay(id)'
    <3>1. id # 0 /\ id # screenId' /\ id \notin orphans'
      BY <2>1
    <3>2. QED
      BY <1>6, <3>1, EndIsReported
  <2>2. UNCHANGED <<session, fresh, window, statuses>>
    BY <1>6 DEF WindowStays
  <2>3. Awaited(fresh)'
    <3>1. Left(fresh)' => fresh \in Screens!Sessions
      BY <1>1, <2>2
    <3>2. QED
      BY <1>2, <2>1, <2>2, <3>1
  <2>4. Shown(session)'
    <3>1. Left(session)' => session \in Screens!Sessions
      BY <1>1, <2>2
    <3>2. Ends(statuses, session) => Ends(statuses, session)'
      BY <2>2 DEF Ends
    <3>3. QED
      BY <1>2, <2>1, <2>2, <3>1, <3>2
  <2>5. QED
    BY <2>3, <2>4
<1>7. ASSUME WindowStays, NEW t \in Screens!Threads, Screens!Emit(t)
      PROVE  Shown(session)' /\ Awaited(fresh)'
  <2>1. UNCHANGED <<session, fresh, window, playing, screenId>>
    BY <1>7, EmitEffect DEF WindowStays
  <2>2. orphans \subseteq orphans'
    BY <1>7, EmitEffect
  <2>3. \A id : Left(id)' => Left(id)
    BY <2>1, <2>2
  <2>4. playing = session /\ (fresh # 0 <=> window = "beginning")
        /\ (session # 0 => window \in {"idle", "ending"})
    BY DEF Windows
  <2>5. Awaited(fresh)'
    <3>1. SUFFICES ASSUME Left(fresh)'
                   PROVE  OnItsWay(fresh)'
      OBVIOUS
    <3>2. Left(fresh) /\ fresh # 0 /\ fresh \notin orphans' /\ fresh \in Screens!Sessions
      BY <1>1, <2>1, <2>3, <3>1
    <3>3. window = "beginning" /\ fresh # playing
      BY <2>4, <3>2
    <3>4. OnItsWay(fresh)
      BY <1>2, <3>2
    <3>5. PICK f \in Screens!Sessions : f = fresh
      BY <3>2
    <3>6. OnItsWay(f)'
      BY <1>7, <3>2, <3>3, <3>4, <3>5, EmittedIsHeard
    <3>7. fresh' = f
      BY <2>1, <3>5
    <3>8. QED
      BY <3>6, <3>7 DEF OnItsWay
  <2>6. Shown(session)'
    <3>1. SUFFICES ASSUME Left(session)', window' # "ending"
                   PROVE  (Ends(statuses, session) \/ OnItsWay(session))'
      OBVIOUS
    <3>2. Left(session) /\ session \in Screens!Sessions
      BY <1>1, <2>1, <2>3, <3>1
    <3>3. PICK f \in Screens!Sessions : f = session
      BY <3>2
    <3>4. Ends(statuses, f) \/ OnItsWay(f)
      BY <1>2, <2>1, <3>1, <3>2, <3>3
    <3>5. Ends(statuses, f) => Ends(statuses, f)'
      <4>1. statuses' = statuses
            \/ \E status \in Screens!Statuses : statuses' = Append(statuses, status)
        BY <1>7, EmitEffect
      <4>2. statuses \in Seq(Screens!Statuses)
        BY DEF ReportTypes
      <4>3. QED
        BY <4>1, <4>2 DEF Ends
    <3>6. OnItsWay(f) => OnItsWay(f)' \/ Ends(statuses, f)'
      BY <1>7, <2>4, <3>3, EmittedIsHeard
    <3>7. session' = f
      BY <2>1, <3>3
    <3>8. QED
      BY <3>4, <3>5, <3>6, <3>7 DEF OnItsWay, Ends
  <2>7. QED
    BY <2>5, <2>6
<1>8. CASE WindowStays /\ UNCHANGED <<frame, screenEmit, orphans, linkEvents, statuses, screenId>>
  BY <1>2, <1>4, <1>8 DEF WindowStays, Ends
<1>9. QED
  BY <1>5, <1>6, <1>7, <1>8, ReportKinds

-----------------------------------------------------------------------------
(* The session that ends reaches the window, whichever thread ends it.      *)
LEMMA ScreenStep ==
  ASSUME ScreenInv, [Screens!Next]_screens
  PROVE  ScreenInv'
<1>1. LeaseTypes' /\ QueueTypes'
  BY LeaseTypesStep, QueueTypesStep DEF ScreenInv
<1>2. ReportTypes' /\ WindowTypes'
  BY ReportTypesStep, WindowTypesStep DEF ScreenInv
<1>3. Leases' /\ Numbered'
  BY LeasesStep, NumberedStep DEF ScreenInv
<1>4. Viewers' /\ Turns'
  BY ViewersStep, TurnsStep DEF ScreenInv
<1>5. Windows' /\ Heard'
  BY WindowsStep, HeardStep DEF ScreenInv
<1>6. QED
  BY <1>1, <1>2, <1>3, <1>4, <1>5 DEF ScreenInv

(* Screen sharing starts with nobody connected.                             *)
LEMMA NoScreenYet ==
  ASSUME NEW connections \in [Screens!Links -> {"new", "up", "down"}],
         NEW viewers \in [Screens!Media -> {NotTried, GivenUp}],
         NoScreen(connections, viewers)
  PROVE  ScreenInv
<1> USE DEF NoScreen
<1>1. /\ 0 \in Screens!Ids /\ MaxStatuses \in Nat /\ MaxTyped \in Nat
      /\ MaxCommands \in Nat /\ MaxInputs \in Nat
  <2>1. {MaxSessions, MaxStatuses, MaxTyped} \subseteq Nat
    BY ScreenConstants
  <2>2. QED
    BY <2>1, ThreadNames DEF Screens!Ids
<1>2. /\ NotTried \in Medium /\ GivenUp \in Medium
      /\ NotTried.id = 0 /\ GivenUp.id = 0
      /\ NotTried.at \notin {"open"} /\ GivenUp.at \notin {"open"}
  BY <1>1 DEF NotTried, GivenUp, Medium
<1>3. LeaseTypes
  BY <1>1, <1>2 DEF LeaseTypes
<1>4. <<>> \in Seq(Screens!Commands) /\ <<>> \in Seq(Screens!Sessions) /\ Len(<<>>) = 0
  OBVIOUS
<1>5. QueueTypes
  BY <1>1, <1>4 DEF QueueTypes
<1>6. /\ <<>> \in Seq(Notices) /\ <<>> \in Seq(Screens!LinkEvents)
      /\ <<>> \in Seq(Screens!Statuses)
  OBVIOUS
<1>7. ReportTypes
  BY <1>6 DEF ReportTypes
<1>8. WindowTypes
  <2>1. 0 \in 0 .. MaxStatuses /\ 0 \in 0 .. MaxTyped
    BY <1>1
  <2>2. counts \in [sessions : Screens!Ids, statuses : 0 .. MaxStatuses, inputs : 0 .. MaxTyped]
    BY <1>1, <2>1
  <2>3. /\ connected = FALSE /\ session = 0 /\ fresh = 0 /\ playing = 0 /\ window = "idle"
    OBVIOUS
  <2>4. QED
    BY <1>1, <2>2, <2>3 DEF WindowTypes
<1>9. \A m \in Screens!Media : media[m].id = 0 /\ media[m].at # "open"
  BY <1>2
<1>10. DOMAIN <<>> = {}
  OBVIOUS
<1>11. Leases
  BY <1>10 DEF Leases
<1>12. Numbered
  BY <1>9 DEF Numbered
<1>13. Viewers
  BY <1>9 DEF Viewers, Screens!Opened, Screens!NoMessage
<1>14. Turns
  BY ThreadNames DEF Turns
<1>15. Windows /\ Heard
  BY DEF Windows, Heard
<1>16. QED
  BY <1>3, <1>5, <1>7, <1>8, <1>11, <1>12, <1>13, <1>14, <1>15 DEF ScreenInv

(* The invariant gives the types of PhoneScreen.                            *)
LEMMA ScreenTyped ==
  ASSUME ScreenInv
  PROVE  Screens!TypeOK
<1>1. LeaseTypes /\ QueueTypes /\ ReportTypes /\ WindowTypes
  BY DEF ScreenInv
<1>2. Len(commands) <= MaxCommands + 1
  <2>1. Len(commands) \in Nat /\ Len(commands) <= MaxCommands /\ MaxCommands \in Nat
    BY <1>1, ThreadNames DEF QueueTypes
  <2>2. QED
    BY <2>1
<1>3. \A m \in Screens!Media :
        media[m] \in [at : {"new", "auth", "open", "ended"}, id : Screens!Ids, closed : BOOLEAN]
  BY <1>1 DEF LeaseTypes, Medium
<1>4. \A t \in Screens!Threads :
        screenEmit[t] \in Seq(Screens!Statuses \cup Screens!LinkEvents)
  BY <1>1 DEF ReportTypes, Notices
<1>5. \A l \in Screens!Links : frame[l] \in Screens!Statuses \cup {Screens!NoFrame}
  BY <1>1 DEF ReportTypes
<1>6. QED
  BY <1>1, <1>2, <1>3, <1>4, <1>5
     DEF Screens!TypeOK, LeaseTypes, QueueTypes, ReportTypes, WindowTypes, Screens!NoMedia

(* The connections of the screen are exclusive.                             *)
LEMMA ScreenOneViewer ==
  ASSUME ScreenInv
  PROVE  Screens!OneViewer
BY DEF ScreenInv, Leases, Viewers, Screens!OneViewer, Screens!NoMedia

(* The end of a session reaches its window and its connection.              *)
LEMMA ScreenEndsEverywhere ==
  ASSUME ScreenInv
  PROVE  Screens!EndsEverywhere
<1>1. session \notin {0, screenId} \cup orphans => Screens!EndInSight(session)
  <2>1. session \notin {0, screenId} \cup orphans =>
          Ends(statuses, session) \/ window = "ending" \/ OnItsWay(session)
    BY DEF ScreenInv, Heard
  <2>2. QED
    BY <2>1 DEF Screens!EndInSight, Ends, OnItsWay
<1>2. \A m \in Screens!Media : media[m].at = "open" /\ screen # m => media[m].closed
  BY DEF ScreenInv, Viewers
<1>3. QED
  BY <1>1, <1>2 DEF Screens!EndsEverywhere

(* The service and its screen sessions keep out of each other's way, and    *)
(* the two parts keep their invariants.                                     *)
SessionsInv == IInv /\ ScreenInv

(* Each part starts, or is over, within its invariant.                      *)
LEMMA SessionsInitially == SessionsInit => SessionsInv
<1>1. 1 \in Screens!Links /\ MaxLinks + 1 \in Screens!Media
  <2>1. MaxLinks \in Nat \ {0} /\ MaxMedia \in Nat \ {0}
    BY ScreenConstants
  <2>2. QED
    BY <2>1 DEF Screens!Links, Screens!Media
<1>2. OneConnection => ScreenInv
  <2> DEFINE connections == [l \in Screens!Links |-> IF l = 1 THEN "down" ELSE "new"]
             viewers == [m \in Screens!Media |-> NotTried]
  <2>1. connections \in [Screens!Links -> {"new", "up", "down"}]
    OBVIOUS
  <2>2. viewers \in [Screens!Media -> {NotTried, GivenUp}]
    OBVIOUS
  <2>3. OneConnection => NoScreen(connections, viewers)
    BY DEF OneConnection
  <2> HIDE DEF connections, viewers
  <2>4. QED
    BY <2>1, <2>2, <2>3, NoScreenYet
<1>3. TwoConnections => ScreenInv
  <2> DEFINE connections == [l \in Screens!Links |-> "new"]
             viewers == [m \in Screens!Media |-> IF m = MaxLinks + 1 THEN GivenUp ELSE NotTried]
  <2>1. connections \in [Screens!Links -> {"new", "up", "down"}]
    OBVIOUS
  <2>2. viewers \in [Screens!Media -> {NotTried, GivenUp}]
    OBVIOUS
  <2>3. TwoConnections => NoScreen(connections, viewers)
    BY DEF TwoConnections
  <2> HIDE DEF connections, viewers
  <2>4. QED
    BY <2>1, <2>2, <2>3, NoScreenYet
<1>4. ScreensOver => ScreenInv
  <2> DEFINE connections == [l \in Screens!Links |-> "down"]
             viewers == [m \in Screens!Media |-> GivenUp]
  <2>1. connections \in [Screens!Links -> {"new", "up", "down"}]
    OBVIOUS
  <2>2. viewers \in [Screens!Media -> {NotTried, GivenUp}]
    OBVIOUS
  <2>3. ScreensOver => NoScreen(connections, viewers)
    BY DEF ScreensOver
  <2> HIDE DEF connections, viewers
  <2>4. QED
    BY <2>1, <2>2, <2>3, NoScreenYet
<1>5. QED
  BY <1>2, <1>3, <1>4, Initially DEF SessionsInit, SessionsInv

(* The invariant of both parts holds throughout.                            *)
LEMMA Invariance == SessionsSpec => []SessionsInv
<1>1. SessionsInv /\ [SessionsNext]_<<vars, screens>> => SessionsInv'
  <2>1. [SessionsNext]_<<vars, screens>> => [Next]_vars /\ [Screens!Next]_screens
    BY DEF SessionsNext
  <2>2. QED
    BY <2>1, Inductive, ScreenStep DEF SessionsInv
<1>2. QED
  BY <1>1, SessionsInitially, PTL DEF SessionsSpec

-----------------------------------------------------------------------------
(* Every value has its type: no release takes a counter of slots below 0,   *)
(* no connection keeps what it did not get, and the queues of screen        *)
(* sharing keep within their bounds.                                        *)
THEOREM TypeCorrect == SessionsSpec => []SessionsTypeOK
<1>1. SessionsInv => SessionsTypeOK
  BY ScreenTyped DEF SessionsInv, IInv, SessionsTypeOK
<1>2. QED
  BY Invariance, <1>1, PTL

(* A pairing code pairs once, though the pair requests of several phones    *)
(* read it before one of them consumes it.                                  *)
THEOREM CodesAreUsedOnce == SessionsSpec => []SingleUse
<1>1. SessionsInv => SingleUse
  BY DEF SessionsInv, IInv
<1>2. QED
  BY Invariance, <1>1, PTL

(* What a phone was told of its pairing is in phone-link.dat, until Forget  *)
(* or a new pairing of the device removes it.                               *)
THEOREM ToldIsDurable == SessionsSpec => []ConfirmedIsDurable
<1>1. SessionsInv => ConfirmedIsDurable
  BY DEF SessionsInv, IInv, Durable, Promised, Given, ConfirmedIsDurable
<1>2. QED
  BY Invariance, <1>1, PTL

(* Once a Forget is saved no save and no restart brings its pairing back,   *)
(* and no connection with a forgotten key stays open.                       *)
THEOREM UnpairingIsFinal == SessionsSpec => []ForgottenIsGone
<1>1. SessionsInv => ForgottenIsGone
  BY DEF SessionsInv, IInv, Forgotten, ForgottenIsGone
<1>2. QED
  BY Invariance, <1>1, PTL

(* An authenticated connection is the active one, is cut, or is known to    *)
(* the thread that replaced it; a screen session has one screen connection  *)
(* in its life, and its inputs go nowhere else; and the slots are exactly   *)
(* the unauthenticated connections, within the limits for all and for each  *)
(* address, whoever gives a slot back.                                      *)
THEOREM OneOfEach == SessionsSpec => []LimitsHold
<1>1. SessionsInv => LimitsHold
  BY ScreenOneViewer DEF SessionsInv, IInv, LimitsHold
<1>2. QED
  BY Invariance, <1>1, PTL

(* Whoever ends a screen session, the phone, the user, a lost connection or *)
(* the deadline, the window that shows it hears of it, and the screen       *)
(* connection is closed; and once Stop joins the workers, every connection  *)
(* that registered is cut, whatever it was in the middle of.                *)
THEOREM EndsAreHeard == SessionsSpec => []EndsEverywhere
<1>1. SessionsInv => EndsEverywhere
  BY ScreenEndsEverywhere DEF SessionsInv, IInv, EndsEverywhere
<1>2. QED
  BY Invariance, <1>1, PTL
=============================================================================
