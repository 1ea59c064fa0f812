----------------------------- MODULE RConProofs -----------------------------
(***************************************************************************)
(* A login of the remote console goes on, and runs out of attempts, for    *)
(* any number of them, of dialogs and of delayed steps.                    *)
(***************************************************************************)
EXTENDS RCon, TLAPS

USE AttemptsAssumption

(* What each stage keeps alive: a login is driven by a different mechanism *)
(* before and after the server asked for the password, and after it        *)
(* refused one.                                                            *)
EstablishingIsDriven ==
  connectStage = "Establishing" => timeoutTimer \/ delayed > 0

PasswordIsDriven ==
  connectStage = "Password" /\ ~authTime => timeoutTimer \/ unanswered

RefusalIsDriven ==
  connectStage = "Password" /\ authTime => dialogs > 0 \/ unanswered

RefusedWhileConnected ==
  connectStage \in {"Establishing", "Disconnected"} => ~authTime

NumbersOK ==
  /\ connectStage \in
       {"Establishing", "Password", "Established", "Disconnected"}
  /\ connectionAttempts \in 0..MaxConnectionAttempts
  /\ passwordAttempts \in 0..MaxPasswordAttempts
  /\ delayed \in Nat
  /\ dialogs \in Nat

Driven ==
  /\ NumbersOK
  /\ EstablishingIsDriven
  /\ PasswordIsDriven
  /\ RefusalIsDriven
  /\ RefusedWhileConnected

RConInv == RConFlagsOK /\ Driven

LEMMA RConInitInv == RConInit => RConInv
<1> SUFFICES ASSUME RConInit PROVE RConInv
  OBVIOUS
<1>1. RConFlagsOK
  BY Zenon DEF RConInit, RConFlagsOK
<1>2. Driven
  BY DEF RConInit, Driven, NumbersOK, EstablishingIsDriven, PasswordIsDriven,
     RefusalIsDriven, RefusedWhileConnected
<1> QED BY <1>1, <1>2 DEF RConInv

(* One step of the login, whoever calls it.  Only a step from the stage    *)
(* "Password" with a valid authTime leaves the timer alone, and that one   *)
(* is delayed.                                                             *)
LEMMA StepIsTyped ==
  ASSUME RConFlagsOK, NEW stage, NEW running \in BOOLEAN, NEW pending,
         stepConnect(stage, running, pending), closed' = closed
  PROVE  RConFlagsOK'
<1> USE Zenon DEF RConFlagsOK, setDisconnectedState
<1>1. ASSUME NEW n, connectToServer(n, running) PROVE RConFlagsOK'
  BY <1>1 DEF connectToServer
<1>2. CASE sendMemorizedPassword(running)
  BY <1>2 DEF sendMemorizedPassword
<1>3. CASE reconnect(running, pending)
  BY <1>3 DEF reconnect
<1>4. CASE timeoutTimer' = running /\ authTime' = authTime /\ unanswered' = unanswered
  BY <1>4
<1> QED BY <1>1, <1>2, <1>3, <1>4 DEF stepConnect

LEMMA StepKeeps ==
  ASSUME RConFlagsOK, NumbersOK, RefusedWhileConnected,
         NEW stage \in {"Establishing", "Password", "Established", "Disconnected"},
         stage = "Established" => connectStage = "Established",
         stage = "Password" => connectStage \in {"Establishing", "Password"},
         stage \in {"Establishing", "Disconnected"} => stage = connectStage,
         NEW running \in BOOLEAN, NEW pending \in Nat,
         stepConnect(stage, running, pending), dialogs' \in Nat
  PROVE  Driven'
<1> USE DEF NumbersOK, RefusedWhileConnected, Driven, EstablishingIsDriven,
            PasswordIsDriven, RefusalIsDriven, setDisconnectedState
<1>1. CASE stage = "Disconnected"
  <2>1. /\ passwordAttempts' = 0 /\ delayed' = pending /\ ~authTime
        /\ connectToServer(0, running)
    BY <1>1 DEF stepConnect
  <2> QED
    BY <2>1 DEF connectToServer
<1>2. CASE stage = "Establishing"
  <2>1. /\ passwordAttempts' = passwordAttempts /\ delayed' = pending /\ ~authTime
        /\ connectToServer(connectionAttempts, running)
    BY <1>2 DEF stepConnect
  <2> QED
    BY <2>1 DEF connectToServer
<1>3. CASE stage = "Password" /\ ~authTime
  <2>1. /\ connectionAttempts' = connectionAttempts /\ delayed' = pending
        /\ sendMemorizedPassword(running)
    BY <1>3 DEF stepConnect
  <2> QED
    BY <1>3, <2>1 DEF sendMemorizedPassword
<1>4. CASE stage = "Password" /\ authTime
  <2>1. /\ connectionAttempts' = connectionAttempts
        /\ passwordAttempts' = passwordAttempts
        /\ reconnect(running, pending)
    BY <1>4 DEF stepConnect
  <2> QED
    BY <2>1 DEF reconnect
<1>5. CASE stage = "Established"
  BY <1>5 DEF stepConnect
<1> QED BY <1>1, <1>2, <1>3, <1>4, <1>5

LEMMA FlagsStep == RConFlagsOK /\ [RConNext]_rconVars => RConFlagsOK'
<1> SUFFICES ASSUME RConFlagsOK, [RConNext]_rconVars PROVE RConFlagsOK'
  OBVIOUS
<1> USE Zenon
<1>1. CASE PasswordGiven
  BY <1>1, StepIsTyped DEF PasswordGiven, RConFlagsOK
<1>2. ASSUME Close PROVE RConFlagsOK'
  BY <1>2 DEF Close, setDisconnectedState, RConFlagsOK
<1>3. CASE Disconnect
  BY <1>3 DEF Disconnect, setDisconnectedState, RConFlagsOK
<1>4. CASE packetTimeout
  <2>1. CASE stepConnect(connectStage, FALSE, delayed)
    BY <1>4, <2>1, StepIsTyped DEF packetTimeout
  <2>2. CASE timeoutTimer' = FALSE /\ authTime' = authTime /\ unanswered' = unanswered
    BY <1>4, <2>2 DEF packetTimeout, RConFlagsOK
  <2> QED BY <1>4, <2>1, <2>2 DEF packetTimeout
<1>5. CASE DelayedStep
  BY <1>5, StepIsTyped DEF DelayedStep, RConFlagsOK
<1>6. CASE SaltReceived
  BY <1>6, StepIsTyped DEF SaltReceived
<1>7. CASE NoConnection
  BY <1>7 DEF NoConnection, setDisconnectedState, RConFlagsOK
<1>8. CASE LoggedIn
  BY <1>8 DEF LoggedIn, RConFlagsOK
<1>9. CASE InvalidPassword
  <2>1. (closed /\ connectStage = "Password") \in BOOLEAN
    OBVIOUS
  <2> QED BY <1>9, <2>1 DEF InvalidPassword, RConFlagsOK
<1>10. CASE OtherPacket
  <2>1. (unanswered \/ (connectStage = "Password" /\ ~authTime)) \in BOOLEAN
    OBVIOUS
  <2> QED BY <1>10, <2>1 DEF OtherPacket, RConFlagsOK
<1>11. CASE UNCHANGED rconVars
  BY <1>11 DEF rconVars, RConFlagsOK
<1> QED
  BY <1>1, <1>2, <1>3, <1>4, <1>5, <1>6, <1>7, <1>8, <1>9, <1>10, <1>11
  DEF RConNext, PasswordRefused, CloseWindow

LEMMA DrivenStep == RConInv /\ [RConNext]_rconVars => Driven'
<1> SUFFICES ASSUME RConInv, [RConNext]_rconVars PROVE Driven'
  OBVIOUS
<1>a. RConFlagsOK /\ NumbersOK /\ RefusedWhileConnected
  BY DEF RConInv, Driven
<1>b. ASSUME NEW stage \in {connectStage}, NEW running \in BOOLEAN, NEW pending \in Nat,
             stepConnect(stage, running, pending), dialogs' \in Nat
      PROVE  Driven'
  BY <1>a, <1>b, StepKeeps DEF NumbersOK
<1>1. CASE PasswordGiven
  <2>1. timeoutTimer \in BOOLEAN /\ delayed \in Nat /\ dialogs' \in Nat
    BY <1>a, <1>1 DEF PasswordGiven, RConFlagsOK, NumbersOK
  <2> QED BY <1>b, <1>1, <2>1 DEF PasswordGiven
<1>2. ASSUME Close PROVE Driven'
  BY <1>2 DEF Close, isConnected, setDisconnectedState, RConInv, RConFlagsOK, Driven,
     NumbersOK, EstablishingIsDriven, PasswordIsDriven, RefusalIsDriven,
     RefusedWhileConnected
<1>3. CASE Disconnect
  BY <1>3 DEF Disconnect, setDisconnectedState, RConInv, Driven,
     NumbersOK, EstablishingIsDriven, PasswordIsDriven, RefusalIsDriven,
     RefusedWhileConnected
<1>4. CASE packetTimeout
  <2>1. CASE connectStage \in {"Establishing", "Password"}
    <3>1. delayed \in Nat /\ dialogs' \in Nat
      BY <1>a, <1>4 DEF packetTimeout, NumbersOK
    <3> QED BY <1>b, <1>4, <2>1, <3>1 DEF packetTimeout
  <2>2. CASE connectStage \notin {"Establishing", "Password"}
    BY <1>4, <2>2 DEF packetTimeout, RConInv, Driven, NumbersOK,
       EstablishingIsDriven, PasswordIsDriven, RefusalIsDriven, RefusedWhileConnected
  <2> QED BY <2>1, <2>2
<1>5. CASE DelayedStep
  <2>1. /\ timeoutTimer \in BOOLEAN /\ delayed - 1 \in Nat /\ dialogs' \in Nat
    BY <1>a, <1>5 DEF DelayedStep, RConFlagsOK, NumbersOK
  <2> QED BY <1>b, <1>5, <2>1 DEF DelayedStep
<1>6. CASE SaltReceived
  <2>1. delayed \in Nat /\ dialogs' \in Nat
    BY <1>a, <1>6 DEF SaltReceived, NumbersOK
  <2> QED BY <1>a, <1>6, <2>1, StepKeeps DEF SaltReceived
<1>7. CASE NoConnection
  BY <1>7 DEF NoConnection, setDisconnectedState, RConInv, Driven, NumbersOK,
     EstablishingIsDriven, PasswordIsDriven, RefusalIsDriven, RefusedWhileConnected
<1>8. CASE LoggedIn
  BY <1>8 DEF LoggedIn, RConInv, Driven, NumbersOK,
     EstablishingIsDriven, PasswordIsDriven, RefusalIsDriven, RefusedWhileConnected
<1>9. CASE InvalidPassword
  BY <1>9 DEF InvalidPassword, isConnected, RConInv, RConFlagsOK, Driven, NumbersOK,
     EstablishingIsDriven, PasswordIsDriven, RefusalIsDriven, RefusedWhileConnected
<1>10. CASE OtherPacket
  BY <1>10 DEF OtherPacket, RConInv, RConFlagsOK, Driven, NumbersOK,
     EstablishingIsDriven, PasswordIsDriven, RefusalIsDriven, RefusedWhileConnected
<1>11. CASE UNCHANGED rconVars
  BY <1>11 DEF rconVars, RConInv, Driven, NumbersOK,
     EstablishingIsDriven, PasswordIsDriven, RefusalIsDriven, RefusedWhileConnected
<1> QED
  BY <1>1, <1>2, <1>3, <1>4, <1>5, <1>6, <1>7, <1>8, <1>9, <1>10, <1>11
  DEF RConNext, PasswordRefused, CloseWindow

LEMMA RConInvariant == RConSpec => []RConInv
<1>1. RConInv /\ [RConNext]_rconVars => RConInv'
  BY FlagsStep, DrivenStep DEF RConInv
<1> QED BY RConInitInv, <1>1, PTL DEF RConSpec

(* The login goes on in every reachable state: stepConnect() of            *)
(* zandronumrconprotocol.cpp, whoever calls it, leaves something behind    *)
(* that will call it again.                                                *)
THEOREM LoginContinues == RConSpec => []LoginGoesOn
<1>1. RConInv => LoginGoesOn
  BY DEF RConInv, Driven, EstablishingIsDriven, PasswordIsDriven,
     RefusalIsDriven, LoginGoesOn, LoggingIn
<1> QED BY RConInvariant, <1>1, PTL

(* Every variable of the remote console keeps to its type: the attempts    *)
(* never exceed what the code allows.                                      *)
THEOREM RConTypeCorrect == RConSpec => []RConTypeOK
<1>1. RConInv => RConTypeOK
  BY DEF RConInv, Driven, NumbersOK, RConTypeOK
<1> QED BY RConInvariant, <1>1, PTL

-----------------------------------------------------------------------------
(* Attempts run out                                                        *)

(* stepConnect() during a login uses up an attempt, or ends the login.     *)
LEMMA StepUsesAttempt ==
  ASSUME RConInv, ~authTime, NEW stage \in {"Establishing", "Password"},
         NEW running, NEW pending,
         stepConnect(stage, running, pending), closed' = closed, LoggingIn'
  PROVE  AttemptsLeft' < AttemptsLeft
<1> USE DEF setDisconnectedState, LoggingIn
<1>1. /\ connectionAttempts \in Nat
      /\ passwordAttempts \in Nat
      /\ MaxConnectionAttempts \in Nat
      /\ MaxPasswordAttempts \in Nat
  BY DEF RConInv, Driven, NumbersOK
<1>2. \/ /\ connectionAttempts' = connectionAttempts + 1
         /\ passwordAttempts' = passwordAttempts
      \/ /\ connectionAttempts' = connectionAttempts
         /\ passwordAttempts' = passwordAttempts + 1
  <2>1. CASE stage = "Establishing"
    BY <2>1 DEF stepConnect, connectToServer
  <2>2. CASE stage = "Password"
    BY <2>2 DEF stepConnect, sendMemorizedPassword
  <2> QED BY <2>1, <2>2
<1>3. (IF closed' THEN 0 ELSE 1) = (IF closed THEN 0 ELSE 1)
  OBVIOUS
<1> QED BY <1>1, <1>2, <1>3 DEF AttemptsLeft

LEMMA UnattendedStep ==
  ASSUME RConInv, [RConNext]_rconVars, Unattended, Unattended', rconVars' # rconVars
  PROVE  AttemptsLeft' < AttemptsLeft
<1> USE DEF Unattended
<1>1. ~authTime /\ connectStage \in {"Establishing", "Password"} /\ LoggingIn'
  BY DEF RConInv, Driven, RefusalIsDriven, RefusedWhileConnected, LoggingIn
<1>2. CASE packetTimeout
  BY <1>1, <1>2, StepUsesAttempt DEF packetTimeout
<1>3. CASE DelayedStep
  BY <1>1, <1>3, StepUsesAttempt DEF DelayedStep
<1>4. CASE SaltReceived
  BY <1>1, <1>4, StepUsesAttempt DEF SaltReceived
<1>5. CASE CloseWindow
  <2>1. UNCHANGED <<connectionAttempts, passwordAttempts>> /\ ~closed /\ closed' = TRUE
    BY <1>5 DEF CloseWindow, Close
  <2>2. connectionAttempts \in Nat /\ passwordAttempts \in Nat
    BY DEF RConInv, Driven, NumbersOK
  <2> QED BY <2>1, <2>2 DEF AttemptsLeft
<1>6. ~PasswordGiven /\ ~PasswordRefused
  BY DEF PasswordGiven, PasswordRefused, RConInv, Driven, NumbersOK
<1>7. ~Disconnect /\ ~NoConnection /\ ~LoggedIn
  BY <1>1 DEF Disconnect, NoConnection, LoggedIn, setDisconnectedState, LoggingIn
<1>8. ~InvalidPassword
  <2> SUFFICES ASSUME InvalidPassword PROVE FALSE
    OBVIOUS
  <2>1. connectStage = "Password"
    BY <1>1 DEF InvalidPassword, isConnected
  <2>2. CASE closed
    <3>1. unanswered' = TRUE
      BY <2>1, <2>2 DEF InvalidPassword
    <3> QED BY <3>1
  <2>3. CASE ~closed
    BY <2>3 DEF InvalidPassword
  <2> QED BY <2>2, <2>3
<1>9. ~OtherPacket
  <2> SUFFICES ASSUME OtherPacket PROVE FALSE
    OBVIOUS
  <2>1. connectStage = "Password" /\ ~authTime
    BY <1>1 DEF OtherPacket
  <2>2. unanswered' = TRUE
    BY <2>1 DEF OtherPacket
  <2> QED BY <2>2
<1> QED
  BY <1>2, <1>3, <1>4, <1>5, <1>6, <1>7, <1>8, <1>9 DEF RConNext

(* A login to which nobody attends takes no more steps than there are      *)
(* attempts left, and one, in whatever order timers and datagrams come.    *)
THEOREM LoginsRunOut == RConSpec => AttemptsRunOut
<1>1. RConInv /\ [RConNext]_rconVars
        => [Unattended /\ Unattended' => AttemptsLeft' < AttemptsLeft]_rconVars
  BY UnattendedStep
<1> QED BY RConInvariant, <1>1, PTL DEF RConSpec, AttemptsRunOut

=============================================================================
