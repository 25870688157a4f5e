--------------------------- MODULE MCPhoneSessions --------------------------
(***************************************************************************)
(* The connections of phones and the screen shared over them, each on a    *)
(* small instance: who is paired and who is connected (PhoneSessions), and *)
(* the screen sessions of the phone that is (PhoneScreen), which models    *)
(* the coming and going of that phone's connections for itself.  They are  *)
(* checked next to each other: an initial state starts one of them, and    *)
(* the other is over.                                                      *)
(***************************************************************************)
EXTENDS PhoneSessions, TLC

(* Connections, phones and addresses are interchangeable, and no liveness   *)
(* property is checked here.                                                *)
MCSymmetry == Permutations(Conns) \cup Permutations(Devices) \cup Permutations(Addresses)

CONSTANTS MaxLinks, MaxMedia, MaxSessions, MaxStatuses, MaxCommands, MaxInputs, MaxTyped

ASSUME ScreenConstants ==
  /\ {MaxLinks, MaxMedia} \subseteq Nat \ {0}
  /\ {MaxSessions, MaxStatuses, MaxTyped} \subseteq Nat
  /\ {MaxCommands, MaxInputs} \subseteq Nat \ {0}

VARIABLES screenPhone, screenLink, screenId, screenKey, screenOwner, screen, due, commands,
          inputs, sending, media, frame, screenEmit, told, linkEvents, connected, session,
          window, fresh, playing, statuses, orphans, counts
screens == <<screenPhone, screenLink, screenId, screenKey, screenOwner, screen, due, commands,
             inputs, sending, media, frame, screenEmit, told, linkEvents, connected, session,
             window, fresh, playing, statuses, orphans, counts>>
Screens == INSTANCE PhoneScreen
  WITH active <- screenPhone, link <- screenLink, emit <- screenEmit,
       phoneEvents <- linkEvents, ui <- window

ServiceOver ==   \* stopped, and not started again
  /\ running = FALSE /\ ui = "stopped"
  /\ conn = [c \in Conns |-> Fresh]
  /\ active = None
  /\ devices = NoDevices /\ saved = NoDevices
  /\ snapshot = [t \in Savers |-> NoDevices]
  /\ invite = 0 /\ inviteLive = FALSE
  /\ pendingHandshakes = 0 /\ pendingByAddress = [a \in Addresses |-> 0]
  /\ invites = 0 /\ starts = MaxStarts
  /\ uses = [k \in Keys |-> 0]
  /\ confirmed = {} /\ replaced = {} /\ forgotten = {} /\ erased = {}

(* Screen sharing with nobody connected.  Its instance is checked in two    *)
(* parts, each with two sessions: one connection and two that ask for the   *)
(* screen, and two connections and one that asks for the screen.            *)
NotTried == [at |-> "new", id |-> 0, closed |-> FALSE]
GivenUp  == [at |-> "ended", id |-> 0, closed |-> FALSE]

NoScreen(connections, viewers) ==
  /\ screenPhone = 0 /\ screenLink = connections
  /\ screenId = 0 /\ screenKey = FALSE /\ screenOwner = 0 /\ screen = 0 /\ due = FALSE
  /\ commands = <<>> /\ inputs = <<>> /\ sending = Screens!NoMessage
  /\ media = viewers /\ frame = [l \in Screens!Links |-> Screens!NoFrame]
  /\ screenEmit = [t \in Screens!Threads |-> <<>>] /\ told = 0
  /\ linkEvents = <<>> /\ connected = FALSE
  /\ session = 0 /\ window = "idle" /\ fresh = 0 /\ playing = 0
  /\ statuses = <<>> /\ orphans = {}
  /\ counts = [sessions |-> 0, statuses |-> 0, inputs |-> 0]

OneConnection ==
  NoScreen([l \in Screens!Links |-> IF l = 1 THEN "down" ELSE "new"],
           [m \in Screens!Media |-> NotTried])

TwoConnections ==
  NoScreen([l \in Screens!Links |-> "new"],
           [m \in Screens!Media |-> IF m = MaxLinks + 1 THEN GivenUp ELSE NotTried])

ScreensOver == NoScreen([l \in Screens!Links |-> "down"], [m \in Screens!Media |-> GivenUp])

-----------------------------------------------------------------------------
SessionsInit ==
  \/ Init /\ ScreensOver
  \/ ServiceOver /\ (OneConnection \/ TwoConnections)

SessionsNext ==
  \/ Next /\ UNCHANGED screens
  \/ Screens!Next /\ UNCHANGED vars

SessionsSpec == SessionsInit /\ [][SessionsNext]_<<vars, screens>>

SessionsTypeOK == TypeOK /\ Screens!TypeOK

(* At most one connection is a phone's, and one shows its screen, a         *)
(* replaced or a second one being cut off; and the slots of those that are  *)
(* nobody's yet are counted as they are, within their limits.               *)
LimitsHold == OnePhone /\ Screens!OneViewer /\ SlotAccounting

(* The end of a screen session is known to everybody it concerns, and the   *)
(* end of the service to every connection.                                  *)
EndsEverywhere == Screens!EndsEverywhere /\ StopCutsAll
=============================================================================
