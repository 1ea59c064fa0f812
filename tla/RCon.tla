-------------------------------- MODULE RCon --------------------------------
(***************************************************************************)
(* The remote console: Zandronum's RCon protocol and the window it serves. *)
(* The protocol object is created with the window and never deleted: its   *)
(* timers and its socket go on when the window is gone.                    *)
(*                                                                         *)
(* Password dialogs run event loops of their own, so that datagrams arrive *)
(* and timers fire behind them and further dialogs open on top.  What a    *)
(* datagram holds beside the answer, and commands, change nothing here.    *)
(***************************************************************************)
EXTENDS Integers

CONSTANTS
  MaxConnectionAttempts,   \* MAX_CONNECTIONT_ATTEMPTS
  MaxPasswordAttempts,     \* MAX_PASSWORD_ATTEMPTS
  MaxDialogs,              \* bound: dialogs on top of each other
  MaxDelayed               \* bound: attempts that wait for the flood period

ASSUME AttemptsAssumption ==
  /\ MaxConnectionAttempts \in Nat \ {0}
  /\ MaxPasswordAttempts \in Nat \ {0}

VARIABLES
  connectStage,
  connectionAttempts,
  passwordAttempts,
  authTime,       \* valid: a password was refused and none was sent since
  timeoutTimer,   \* it runs
  delayed,        \* QTimer::singleShot(delta, stepConnect) that are pending
  dialogs,        \* password dialogs that are open
  closed,         \* the window
  unanswered      \* history: the timer was stopped by a datagram that lets
                  \* the login neither succeed nor fail nor ask anyone

rconVars == <<connectStage, connectionAttempts, passwordAttempts, authTime,
              timeoutTimer, delayed, dialogs, closed, unanswered>>

RConFlagsOK ==
  /\ authTime \in BOOLEAN
  /\ timeoutTimer \in BOOLEAN
  /\ closed \in BOOLEAN
  /\ unanswered \in BOOLEAN

RConTypeOK ==
  /\ connectStage \in
       {"Establishing", "Password", "Established", "Disconnected"}
  /\ connectionAttempts \in 0..MaxConnectionAttempts
  /\ passwordAttempts \in 0..MaxPasswordAttempts
  /\ delayed \in Nat
  /\ dialogs \in Nat
  /\ RConFlagsOK

(* setConnected() follows the stage: it is told TRUE where the stage       *)
(* becomes "Password" and FALSE where it becomes one of the others.  The   *)
(* ping timer runs as long.                                                *)
isConnected == connectStage \in {"Password", "Established"}

(* The window has just asked for the password.                             *)
RConInit ==
  /\ connectStage = "Disconnected"
  /\ connectionAttempts = 0
  /\ passwordAttempts = 0
  /\ authTime = FALSE
  /\ timeoutTimer = FALSE
  /\ delayed = 0
  /\ dialogs = 1
  /\ closed = FALSE
  /\ unanswered = FALSE

-----------------------------------------------------------------------------
(* Below, "running" is whether the timeout timer still runs when the       *)
(* function is called, and "pending" the delayed steps that are left.      *)

setDisconnectedState(running) ==
  /\ connectStage' = "Disconnected"
  /\ authTime' = FALSE
  /\ timeoutTimer' = running
  /\ unanswered' = FALSE

connectToServer(attempts, running) ==
  \/ /\ attempts < MaxConnectionAttempts
     /\ connectionAttempts' = attempts + 1
     /\ connectStage' = "Establishing"
     /\ timeoutTimer' = TRUE
     /\ unanswered' = FALSE
     /\ UNCHANGED authTime
  \/ /\ attempts >= MaxConnectionAttempts
     /\ connectionAttempts' = attempts
     /\ setDisconnectedState(running)

(* Mutant: attempts are not counted.                                       *)
sendMemorizedPasswordUncounted(running) ==
  /\ connectStage' = "Password"
  /\ timeoutTimer' = TRUE
  /\ unanswered' = FALSE
  /\ UNCHANGED <<passwordAttempts, authTime>>

sendMemorizedPassword(running) ==
  \/ /\ passwordAttempts < MaxPasswordAttempts
     /\ passwordAttempts' = passwordAttempts + 1
     /\ connectStage' = "Password"
     /\ timeoutTimer' = TRUE
     /\ unanswered' = FALSE
     /\ UNCHANGED authTime
  \/ /\ passwordAttempts >= MaxPasswordAttempts
     /\ UNCHANGED passwordAttempts
     /\ setDisconnectedState(running)

(* Mutant: the reconnection is never scheduled.                            *)
reconnectUnscheduled(running, pending) ==
  /\ connectStage' = "Establishing"
  /\ authTime' = FALSE
  /\ timeoutTimer' = running
  /\ delayed' = pending
  /\ unanswered' = FALSE

(* setReconnectState(), and stepConnect() again once the server's flood    *)
(* period is over.                                                         *)
reconnect(running, pending) ==
  /\ connectStage' = "Establishing"
  /\ authTime' = FALSE
  /\ timeoutTimer' = running
  /\ delayed' = pending + 1
  /\ unanswered' = FALSE

stepConnect(stage, running, pending) ==
  \/ /\ stage = "Disconnected"
     /\ passwordAttempts' = 0
     /\ delayed' = pending
     /\ connectToServer(0, running)
  \/ /\ stage = "Establishing"
     /\ delayed' = pending
     /\ connectToServer(connectionAttempts, running)
     /\ UNCHANGED passwordAttempts
  \/ /\ stage = "Password"
     /\ ~authTime
     /\ delayed' = pending
     /\ sendMemorizedPassword(running)
     /\ UNCHANGED connectionAttempts
  \/ /\ stage = "Password"
     /\ authTime
     /\ reconnect(running, pending)
     /\ UNCHANGED <<connectionAttempts, passwordAttempts>>
  \/ /\ stage = "Established"
     /\ timeoutTimer' = running
     /\ delayed' = pending
     /\ UNCHANGED <<connectStage, connectionAttempts, passwordAttempts,
                    authTime, unanswered>>

-----------------------------------------------------------------------------
(* showPasswordDialog(): the one on top is accepted, sendPassword().       *)
PasswordGiven ==
  /\ dialogs > 0
  /\ dialogs' = dialogs - 1
  /\ stepConnect(connectStage, timeoutTimer, delayed)
  /\ UNCHANGED closed

(* closeEvent(), by which the dialogs below go as well.                    *)
Close ==
  /\ closed' = TRUE
  /\ dialogs' = 0
  /\ IF isConnected
     THEN setDisconnectedState(timeoutTimer)
     ELSE UNCHANGED <<connectStage, authTime, timeoutTimer, unanswered>>
  /\ UNCHANGED <<connectionAttempts, passwordAttempts, delayed>>

PasswordRefused == dialogs > 0 /\ Close

CloseWindow == dialogs = 0 /\ ~closed /\ Close

(* disconnectFromServer(), from the menu: the window closes too.           *)
Disconnect ==
  /\ dialogs = 0
  /\ ~closed
  /\ closed' = TRUE
  /\ setDisconnectedState(timeoutTimer)
  /\ UNCHANGED <<connectionAttempts, passwordAttempts, delayed, dialogs>>

packetTimeout ==
  /\ timeoutTimer
  /\ IF connectStage \in {"Establishing", "Password"}
     THEN stepConnect(connectStage, FALSE, delayed)
     ELSE /\ timeoutTimer' = FALSE
          /\ UNCHANGED <<connectStage, connectionAttempts, passwordAttempts,
                         authTime, delayed, unanswered>>
  /\ UNCHANGED <<dialogs, closed>>

DelayedStep ==
  /\ delayed > 0
  /\ stepConnect(connectStage, timeoutTimer, delayed - 1)
  /\ UNCHANGED <<dialogs, closed>>

-----------------------------------------------------------------------------
(* readAllPendingDatagrams(): any datagram stops the timer.  It may be an  *)
(* answer, one that was sent twice or comes late, or anything else.        *)

(* processEstablishingPacket()                                             *)
SaltReceived ==
  /\ connectStage = "Establishing"
  /\ stepConnect("Password", FALSE, delayed)
  /\ UNCHANGED <<dialogs, closed>>

NoConnection ==
  /\ connectStage = "Establishing"
  /\ setDisconnectedState(FALSE)
  /\ UNCHANGED <<connectionAttempts, passwordAttempts, delayed, dialogs,
                 closed>>

(* processPacket()                                                         *)
LoggedIn ==
  /\ isConnected
  /\ connectStage' = "Established"
  /\ timeoutTimer' = FALSE
  /\ unanswered' = FALSE
  /\ UNCHANGED <<connectionAttempts, passwordAttempts, authTime, delayed,
                 dialogs, closed>>

(* Without a window nobody is asked.                                       *)
InvalidPassword ==
  /\ isConnected
  /\ dialogs < MaxDialogs
  /\ delayed < MaxDelayed
  /\ authTime' = TRUE
  /\ timeoutTimer' = FALSE
  /\ dialogs' = IF closed THEN 0 ELSE dialogs + 1
  /\ unanswered' = (closed /\ connectStage = "Password")
  /\ UNCHANGED <<connectStage, connectionAttempts, passwordAttempts, delayed,
                 closed>>

OtherPacket ==
  /\ connectStage # "Establishing"
  /\ timeoutTimer' = FALSE
  /\ unanswered' = (unanswered \/ (connectStage = "Password" /\ ~authTime))
  /\ UNCHANGED <<connectStage, connectionAttempts, passwordAttempts, authTime,
                 delayed, dialogs, closed>>

RConNext ==
  \/ PasswordGiven
  \/ PasswordRefused
  \/ CloseWindow
  \/ Disconnect
  \/ packetTimeout
  \/ DelayedStep
  \/ SaltReceived
  \/ NoConnection
  \/ LoggedIn
  \/ InvalidPassword
  \/ OtherPacket

(* Timers fire; the user and the server may do nothing for ever.           *)
RConFairness ==
  /\ WF_rconVars(packetTimeout)
  /\ WF_rconVars(DelayedStep)

RConSpec == RConInit /\ [][RConNext]_rconVars /\ RConFairness

-----------------------------------------------------------------------------
LoggingIn == connectStage \in {"Establishing", "Password"}

(* A login is never abandoned half way: while it lasts a timer is going to *)
(* continue it or somebody is being asked for the password.  This is about *)
(* timeoutTimer and the delayed stepConnect(), each of which is stopped or *)
(* used up in other stages than those that start it.  The exception is the *)
(* code's: a stray datagram stops the timer of a password that was sent.   *)
LoginGoesOn ==
  LoggingIn => \/ timeoutTimer
               \/ delayed > 0
               \/ dialogs > 0
               \/ unanswered

(* Every login ends, however often salts, refusals and timeouts come: the  *)
(* attempts are counted across reconnections, unless the user is asked.    *)
LoginEnds ==
  LoggingIn ~> (~LoggingIn \/ dialogs > 0 \/ unanswered)

(* Why it ends: while the login goes on without anybody being asked, no    *)
(* step leaves it as many attempts as before, whatever the server sends    *)
(* and in whatever order timers and datagrams come; closing the window,    *)
(* which need not end a login, comes once.                                 *)
Unattended == LoggingIn /\ dialogs = 0 /\ ~unanswered

AttemptsLeft ==
  (MaxConnectionAttempts - connectionAttempts) + (MaxPasswordAttempts - passwordAttempts)
    + (IF closed THEN 0 ELSE 1)

AttemptsRunOut ==
  [][Unattended /\ Unattended' => AttemptsLeft' < AttemptsLeft]_rconVars

=============================================================================
