------------------------------ MODULE PhoneScreen ------------------------------
(***************************************************************************)
(* Sharing the phone's screen: the screen session of                       *)
(* native/src/phone_service.cpp, the window that shows it                  *)
(* (phone_screen_ui.cpp) and the playback between them                     *)
(* (phone_screen_playback.cpp).                                            *)
(*                                                                         *)
(* A session is offered to the phone over its connection with a key that   *)
(* authenticates one second connection, the screen connection.  The        *)
(* session ends with either connection, by the user, by the phone or by    *)
(* its deadline; whoever ends it under mutex_ reports it to the window     *)
(* after the unlock.  Connections follow one another as PhoneSessions lets *)
(* them, all of one phone; their writers are SessionWriter's.  The         *)
(* playback worker and the mailbox behind it only pass statuses on.        *)
(***************************************************************************)
EXTENDS Naturals, Sequences, FiniteSets

CONSTANTS MaxLinks,     \* bound on the phone's connections
          MaxMedia,     \* bound on the screen connections it tries
          MaxSessions,  \* bound on the sessions the user starts
          MaxStatuses,  \* bound on the screen.state messages of the phone
          MaxCommands,  \* screenCommands_ holds no more
          MaxInputs,    \* screenInputs_ holds no more
          MaxTyped      \* bound on the inputs

Links    == 1 .. MaxLinks
Media    == MaxLinks + 1 .. MaxLinks + MaxMedia
NoMedia  == 0
Sessions == 1 .. MaxSessions
Ids      == {0} \cup Sessions    \* 0: no session
SendLoop == 0                    \* ScreenSendLoop
Threads  == {SendLoop} \cup Links \cup Media

VARIABLES
  active,      \* active_: the phone's connection, 0 for none
  link,        \* connection -> "new", "up", "down"
  screenId,    \* screenId_
  screenKey,   \* screenKey_ is set
  screenOwner, \* screenOwner_
  screen,      \* screen_
  due,         \* SteadyMs() >= screenExpiresAt_
  commands,    \* screenCommands_
  inputs,      \* screenInputs_: the session of each
  sending,     \* what ScreenSendLoop has taken
  media,       \* screen connection -> its state, screenId and whether it is closed
  frame,       \* connection -> the screen.state its worker is handling
  emit,        \* thread -> what it reports once it has unlocked
  told,        \* the session whose screen.start reached the phone last
  phoneEvents, \* the queue to the UI
  connected,   \* PhoneScreenWindow: connected
  session,     \* PhoneScreenWindow: sessionId
  ui,          \* where the UI thread is in StartSession or EndSession
  fresh,       \* the session StartScreen has returned
  playing,     \* ScreenPlayback: sessionId
  statuses,    \* statuses on their way to the window
  orphans,     \* sessions whose end the window was not told of
  counts       \* sessions, phone statuses and inputs so far

links   == <<active, link>>
lease   == <<screenId, screenKey, screenOwner, screen, due>>
outbox  == <<commands, inputs, sending>>
window  == <<connected, session, ui, fresh, playing>>
vars    == <<links, lease, outbox, media, frame, emit, told, phoneEvents, window, statuses,
             orphans, counts>>

NoFrame   == [id |-> 0, state |-> "none"]
NoMessage == [to |-> 0, kind |-> "none", id |-> 0]
Status(id, state) == [id |-> id, state |-> state]
Event(kind)       == [id |-> 0, state |-> kind]   \* for the queue to the UI

States     == {"streaming", "stopped", "error"}
Statuses   == [id : Sessions, state : States]
LinkEvents == [id : {0}, state : {"Connected", "Disconnected"}]
Commands   == [to : Links, kind : {"start", "stop"}, id : Sessions]
Messages   == Commands \cup [to : Media, kind : {"input"}, id : Sessions]

TypeOK ==
  /\ active \in {0} \cup Links /\ link \in [Links -> {"new", "up", "down"}]
  /\ screenId \in Ids /\ screenKey \in BOOLEAN /\ screenOwner \in {0} \cup Links
  /\ screen \in Media \cup {NoMedia} /\ due \in BOOLEAN
  /\ commands \in Seq(Commands) /\ Len(commands) <= MaxCommands + 1
  /\ inputs \in Seq(Sessions) /\ Len(inputs) <= MaxInputs
  /\ sending \in Messages \cup {NoMessage}
  /\ \A m \in Media :
       media[m] \in [at : {"new", "auth", "open", "ended"}, id : Ids, closed : BOOLEAN]
  /\ \A l \in Links : frame[l] \in Statuses \cup {NoFrame}
  /\ \A t \in Threads : emit[t] \in Seq(Statuses \cup LinkEvents)
  /\ told \in Ids
  /\ phoneEvents \in Seq(LinkEvents) /\ connected \in BOOLEAN
  /\ session \in Ids /\ fresh \in Ids /\ playing \in Ids
  /\ ui \in {"idle", "starting", "beginning", "ending"}
  /\ statuses \in Seq(Statuses) /\ orphans \subseteq Sessions
  /\ counts \in [sessions : Ids, statuses : 0 .. MaxStatuses, inputs : 0 .. MaxTyped]

Init ==
  /\ active = 0 /\ link = [l \in Links |-> "new"]
  /\ screenId = 0 /\ screenKey = FALSE /\ screenOwner = 0 /\ screen = NoMedia
  /\ due = FALSE
  /\ commands = <<>> /\ inputs = <<>> /\ sending = NoMessage
  /\ media = [m \in Media |-> [at |-> "new", id |-> 0, closed |-> FALSE]]
  /\ frame = [l \in Links |-> NoFrame]
  /\ emit = [t \in Threads |-> <<>>]
  /\ told = 0
  /\ phoneEvents = <<>> /\ connected = FALSE
  /\ session = 0 /\ ui = "idle" /\ fresh = 0 /\ playing = 0
  /\ statuses = <<>> /\ orphans = {}
  /\ counts = [sessions |-> 0, statuses |-> 0, inputs |-> 0]

-----------------------------------------------------------------------------
(* What every end of a session does under mutex_: the lease is gone, its    *)
(* inputs too, and its connection is closed.                                *)
LeaseEnds ==
  /\ screenId' = 0 /\ screenKey' = FALSE /\ screenOwner' = 0
  /\ screen' = NoMedia /\ due' = FALSE   \* no expiry without a session
  /\ inputs' = <<>>

NothingCut == media   \* mutant: the screen connection stays open
Cut == IF screen = NoMedia THEN media ELSE [media EXCEPT ![screen].closed = TRUE]

(* StopScreen tells the told, unless the queue is full.                    *)
StopScreen ==
  /\ LeaseEnds
  /\ media' = Cut
  /\ commands' = IF screenId # 0 /\ active # 0 /\ Len(commands) < MaxCommands
                 THEN Append(commands, [to |-> active, kind |-> "stop", id |-> screenId])
                 ELSE commands

(* A status is for the session the playback has begun, or is dropped: an    *)
(* end reported before StartSession gets that far is lost.                  *)
Report(status) ==
  IF status.state \in {"Connected", "Disconnected"}
  THEN phoneEvents' = Append(phoneEvents, status) /\ UNCHANGED <<statuses, orphans>>
  ELSE /\ statuses' = IF status.id = playing THEN Append(statuses, status) ELSE statuses
       /\ orphans' = IF ui = "beginning" /\ status.id = fresh /\ status.state # "streaming"
                     THEN orphans \cup {fresh} ELSE orphans
       /\ UNCHANGED phoneEvents

Emit(t) ==
  /\ emit[t] # <<>>
  /\ Report(Head(emit[t]))
  /\ emit' = [emit EXCEPT ![t] = Tail(@)]
  /\ UNCHANGED <<links, lease, outbox, media, frame, told, window, counts>>

-----------------------------------------------------------------------------
(* The phone's connections.  One that authenticates replaces the active     *)
(* one, whose screen session it ends.                                       *)
Connect(l) ==
  /\ link[l] = "new" /\ \A k \in Links : k < l => link[k] # "new"
  /\ link' = [link EXCEPT ![l] = "up"]
  /\ active' = l
  /\ IF active # 0 /\ screenId # 0
     THEN /\ LeaseEnds
          /\ media' = Cut
          /\ emit' = [emit EXCEPT ![l] = <<Status(screenId, "stopped"), Event("Connected")>>]
     ELSE /\ emit' = [emit EXCEPT ![l] = <<Event("Connected")>>]
          /\ UNCHANGED <<lease, inputs, media>>
  /\ UNCHANGED <<commands, sending, frame, told, phoneEvents, window, statuses,
                 orphans, counts>>

(* A connection ends.  The one that carries the session, the phone's or     *)
(* the screen's, takes it along.                                            *)
End(l) ==
  /\ link[l] = "up" /\ emit[l] = <<>> /\ frame[l] = NoFrame
  /\ link' = [link EXCEPT ![l] = "down"]
  /\ active' = IF active = l THEN 0 ELSE active
  /\ IF active = l /\ screenId # 0
     THEN /\ LeaseEnds
          /\ media' = Cut
          /\ emit' = [emit EXCEPT ![l] = <<Status(screenId, "stopped"), Event("Disconnected")>>]
     ELSE /\ emit' = [emit EXCEPT ![l] = IF active = l THEN <<Event("Disconnected")>> ELSE <<>>]
          /\ UNCHANGED <<lease, inputs, media>>
  /\ UNCHANGED <<commands, sending, frame, told, phoneEvents, window, statuses,
                 orphans, counts>>

(* screen.state over the phone's connection: compared under mutex_, and     *)
(* when the phone has stopped, StopScreen takes mutex_ again and ends       *)
(* whatever session there is by then.                                       *)
ScreenState(l, id, state) ==
  /\ active = l /\ emit[l] = <<>> /\ frame[l] = NoFrame
  /\ id = told /\ counts.statuses < MaxStatuses
  /\ id = screenId /\ screenOwner = l
  /\ counts' = [counts EXCEPT !.statuses = @ + 1]
  /\ IF state = "streaming"
     THEN emit' = [emit EXCEPT ![l] = <<Status(id, state)>>] /\ UNCHANGED frame
     ELSE frame' = [frame EXCEPT ![l] = Status(id, state)] /\ UNCHANGED emit
  /\ UNCHANGED <<links, lease, outbox, media, told, phoneEvents, window, statuses, orphans>>

StopForPhone(l) ==
  /\ frame[l] # NoFrame
  /\ StopScreen
  /\ orphans' = orphans \cup ({screenId} \ {0, frame[l].id})
  /\ emit' = [emit EXCEPT ![l] = <<frame[l]>>]
  /\ frame' = [frame EXCEPT ![l] = NoFrame]
  /\ UNCHANGED <<links, sending, told, phoneEvents, window, statuses, counts>>

-----------------------------------------------------------------------------
(* Screen connections.  hello: the session must be waiting for one.         *)
Waiting(id) ==
  /\ active # 0 /\ screenOwner = active
  /\ screenId = id /\ screenKey /\ screen = NoMedia /\ ~due

Hello(m, id) ==
  /\ media[m].at = "new" /\ \A n \in Media : n < m => media[n].at # "new"
  /\ Waiting(id)
  /\ media' = [media EXCEPT ![m] = [at |-> "auth", id |-> id, closed |-> FALSE]]
  /\ UNCHANGED <<links, lease, outbox, frame, emit, told, phoneEvents, window, statuses,
                 orphans, counts>>

(* auth: only a phone that was told the key can answer the challenge; the   *)
(* key then serves nobody else.                                             *)
KeyStays == screenKey   \* mutant: the key authenticates every connection
KeySpent == FALSE

StillWaiting(m) == Waiting(media[m].id)

Authenticate(m) ==
  /\ media[m].at = "auth" /\ media[m].id = told
  /\ StillWaiting(m)
  /\ screenKey' = KeySpent
  /\ screen' = m
  /\ media' = [media EXCEPT ![m].at = "open"]
  /\ UNCHANGED <<links, screenId, screenOwner, due, outbox, frame, emit, told, phoneEvents,
                 window, statuses, orphans, counts>>

(* A status on the screen connection, handled while it is current.          *)
Packet(m) ==
  /\ media[m].at = "open" /\ emit[m] = <<>>
  /\ screen = m /\ counts.statuses < MaxStatuses
  /\ counts' = [counts EXCEPT !.statuses = @ + 1]
  /\ emit' = [emit EXCEPT ![m] = <<Status(media[m].id, "streaming")>>]
  /\ UNCHANGED <<links, lease, outbox, media, frame, told, phoneEvents, window, statuses,
                 orphans>>

(* It ends: refused, closed, lost, or given up by the phone.                *)
EndsSession(m) == screen = m

EndMedia(m) ==
  /\ media[m].at \in {"auth", "open"} /\ emit[m] = <<>>
  /\ media' = [media EXCEPT ![m] = [at |-> "ended", closed |-> FALSE,
                                    id |-> IF @.at = "open" THEN @.id ELSE 0]]
  /\ IF EndsSession(m)
     THEN /\ LeaseEnds
          /\ emit' = [emit EXCEPT ![m] = <<Status(screenId, "stopped")>>]
     ELSE UNCHANGED <<lease, inputs, emit>>
  /\ UNCHANGED <<links, commands, sending, frame, told, phoneEvents, window, statuses,
                 orphans, counts>>

-----------------------------------------------------------------------------
(* Inputs, from the window and, to ask for a keyframe, from the playback.   *)
(* A move replaces the move before it; when the queue is full the inputs in *)
(* it are given up for one that cancels them.                               *)
Accepted(id) == screen # NoMedia /\ id = screenId /\ screenOwner = active

SendScreenInput(id) ==
  /\ id \in {session, playing} \ {0} /\ ui = "idle"
  /\ counts.inputs < MaxTyped
  /\ Accepted(id)
  /\ inputs' = IF Len(inputs) >= MaxInputs THEN <<id>> ELSE Append(inputs, id)
  /\ counts' = [counts EXCEPT !.inputs = @ + 1]
  /\ UNCHANGED <<links, lease, commands, sending, media, frame, emit, told, phoneEvents,
                 window, statuses, orphans>>

-----------------------------------------------------------------------------
(* ScreenSendLoop.  A request nobody answered in time ends first; then the  *)
(* oldest input goes before the commands.                                   *)
Expired == screenId # 0 /\ screen = NoMedia /\ due

TellPhone(id) ==
  IF active # 0 THEN Append(commands, [to |-> active, kind |-> "stop", id |-> id]) ELSE commands

Take ==
  /\ sending = NoMessage /\ emit[SendLoop] = <<>>
  /\ Expired \/ inputs # <<>> \/ commands # <<>>
  /\ IF Expired
     THEN /\ screenId' = 0 /\ screenKey' = FALSE /\ screenOwner' = 0 /\ due' = FALSE
          /\ emit' = [emit EXCEPT ![SendLoop] = <<Status(screenId, "stopped")>>]
     ELSE UNCHANGED <<screenId, screenKey, screenOwner, due, emit>>
  /\ LET queue == IF Expired THEN TellPhone(screenId) ELSE commands IN
     \/ /\ inputs # <<>>
        /\ sending' = [to |-> screen, kind |-> "input", id |-> Head(inputs)]
        /\ inputs' = Tail(inputs) /\ commands' = queue
     \/ /\ inputs = <<>> /\ queue # <<>>
        /\ sending' = Head(queue)
        /\ commands' = Tail(queue) /\ UNCHANGED inputs
     \/ /\ inputs = <<>> /\ queue = <<>>
        /\ UNCHANGED <<sending, commands, inputs>>
  /\ UNCHANGED <<links, screen, media, frame, told, phoneEvents, window, statuses, orphans,
                 counts>>

(* SendToSession returns: the message is on its way, or the connection has  *)
(* failed or its queue is full.                                             *)
Sent(arrives) ==
  /\ sending # NoMessage /\ emit[SendLoop] = <<>>
  /\ told' = IF arrives /\ sending.kind = "start" /\ link[sending.to] = "up"
             THEN sending.id ELSE told
  /\ sending' = NoMessage
  /\ UNCHANGED <<links, lease, commands, inputs, media, frame, emit, phoneEvents, window,
                 statuses, orphans, counts>>

Deadline ==
  /\ screenId # 0 /\ screen = NoMedia /\ ~due
  /\ due' = TRUE
  /\ UNCHANGED <<links, screenId, screenKey, screenOwner, screen, outbox, media, frame, emit,
                 told, phoneEvents, window, statuses, orphans, counts>>

-----------------------------------------------------------------------------
(* The window, on the UI thread.  StartSession: StopScreen and the new      *)
(* session are two regions of StartScreen, and the playback and the window  *)
(* take the session up after it has returned.  The report of its first      *)
(* region is for no session the window has.                                 *)
StartSession ==
  /\ ui = "idle" /\ connected /\ session = 0
  /\ counts.sessions < MaxSessions
  /\ counts' = [counts EXCEPT !.sessions = @ + 1]
  /\ StopScreen
  /\ ui' = "starting"
  /\ UNCHANGED <<links, sending, frame, emit, told, phoneEvents, connected, session, fresh,
                 playing, statuses, orphans>>

StartScreen ==
  /\ ui = "starting"
  /\ IF active = 0 \/ Len(commands) >= MaxCommands
     THEN /\ ui' = "idle"
          /\ UNCHANGED <<fresh, lease, commands>>
     ELSE /\ screenId' = counts.sessions /\ screenKey' = TRUE
          /\ screenOwner' = active
          /\ commands' = Append(commands,
               [to |-> active, kind |-> "start", id |-> counts.sessions])
          /\ fresh' = counts.sessions
          /\ ui' = "beginning"
          /\ UNCHANGED <<screen, due>>
  /\ UNCHANGED <<links, inputs, sending, media, frame, emit, told, phoneEvents, connected,
                 session, playing, statuses, orphans, counts>>

Begin ==
  /\ ui = "beginning"
  /\ session' = fresh /\ playing' = fresh /\ fresh' = 0
  /\ statuses' = <<>>
  /\ ui' = "idle"
  /\ UNCHANGED <<links, lease, outbox, media, frame, emit, told, phoneEvents, connected,
                 orphans, counts>>

(* EndSession: the window forgets the session after the service has.        *)
EndSession(notify) ==
  IF notify
  THEN ui' = "ending" /\ StopScreen /\ UNCHANGED <<session, playing, statuses>>
  ELSE /\ session' = 0 /\ playing' = 0 /\ statuses' = <<>>
       /\ UNCHANGED <<ui, screenId, screenKey, screenOwner, screen, due, commands, inputs,
                      media>>

Forget ==
  /\ ui = "ending"
  /\ session' = 0 /\ playing' = 0 /\ statuses' = <<>>
  /\ ui' = "idle"
  /\ UNCHANGED <<links, lease, outbox, media, frame, emit, told, phoneEvents, connected,
                 fresh, orphans, counts>>

(* Stop, closing the window, or a phone that no longer offers its screen.   *)
UserStops ==
  /\ ui = "idle" /\ session # 0
  /\ EndSession(TRUE)
  /\ UNCHANGED <<links, sending, frame, emit, told, phoneEvents, connected, fresh, orphans,
                 counts>>

OnPhoneEvent ==
  /\ ui = "idle" /\ phoneEvents # <<>>
  /\ phoneEvents' = Tail(phoneEvents)
  /\ connected' = (Head(phoneEvents).state = "Connected")
  /\ IF ~connected' /\ session # 0
     THEN EndSession(TRUE)
     ELSE UNCHANGED <<ui, session, playing, statuses, lease, commands, inputs, media>>
  /\ UNCHANGED <<links, sending, frame, emit, told, fresh, orphans, counts>>

Mailbox ==
  /\ ui = "idle" /\ statuses # <<>>
  /\ LET status == Head(statuses) IN
     CASE status.state = "stopped" -> EndSession(FALSE)
       [] status.state = "error" -> EndSession(TRUE)
       [] OTHER -> /\ statuses' = Tail(statuses)
                   /\ UNCHANGED <<ui, session, playing, lease, commands, inputs, media>>
  /\ UNCHANGED <<links, sending, frame, emit, told, phoneEvents, connected, fresh, orphans,
                 counts>>

-----------------------------------------------------------------------------
Next ==
  \/ \E l \in Links :
       \/ Connect(l) \/ End(l) \/ StopForPhone(l) \/ Emit(l)
       \/ \E id \in Sessions, state \in States : ScreenState(l, id, state)
  \/ \E m \in Media :
       \/ Authenticate(m) \/ Packet(m) \/ EndMedia(m) \/ Emit(m)
       \/ \E id \in Sessions : Hello(m, id)
  \/ \E id \in Sessions : SendScreenInput(id)
  \/ Take \/ (\E arrives \in BOOLEAN : Sent(arrives)) \/ Emit(SendLoop)
  \/ Deadline
  \/ StartSession \/ StartScreen \/ Begin \/ UserStops \/ Forget
  \/ OnPhoneEvent \/ Mailbox

Spec == Init /\ [][Next]_vars

-----------------------------------------------------------------------------
Opened(m) == media[m].at \in {"open", "ended"} /\ media[m].id # 0

(* A session has at most one screen connection in its life, however many    *)
(* try with its key at once, it belongs to the phone's current connection,  *)
(* and an input goes only to the connection of the session it was made for. *)
OneViewer ==
  /\ \A m, n \in Media :
       Opened(m) /\ Opened(n) /\ media[m].id = media[n].id => m = n
  /\ screenId # 0 => screenOwner = active /\ active # 0
  /\ screen # NoMedia => media[screen].id = screenId /\ ~screenKey
  /\ \A i \in DOMAIN inputs : inputs[i] = screenId
  /\ sending.kind = "input" => media[sending.to].id = sending.id

(* An end of the session that the window has yet to hear of.                *)
EndInSight(id) ==
  LET ends(reports) == \E i \in DOMAIN reports :
                         reports[i].id = id /\ reports[i].state # "streaming"
  IN \/ ends(statuses) \/ ui = "ending"
     \/ \E t \in Threads : ends(emit[t])
     \/ \E l \in Links : frame[l].id = id

(* What ends a session ends it everywhere: the window hears of the end of   *)
(* the session it shows, whoever ended it and in whatever order the threads *)
(* report, and a screen connection that has lost its session is closed.     *)
(* Orphans are the exception: sessions whose end had no window to go to.    *)
EndsEverywhere ==
  /\ session \notin {0, screenId} \cup orphans => EndInSight(session)
  /\ \A m \in Media : media[m].at = "open" /\ screen # m => media[m].closed
=============================================================================
