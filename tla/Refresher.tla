----------------------------- MODULE Refresher ------------------------------
(***************************************************************************)
(* Doomseeker's query engine: the Refresher singleton, the Server and      *)
(* MasterClient objects it drives, and the part of MainWindow that starts  *)
(* a "Get Servers" round and is told when the engine falls asleep.         *)
(*                                                                         *)
(* Everything runs in the GUI thread, so each action is one turn of the Qt *)
(* event loop: a singleShot timer firing, one datagram being read, or a    *)
(* user's request.  Interleaving comes from the order of those turns.      *)
(***************************************************************************)
EXTENDS Integers, FiniteSets

CONSTANTS
  Servers,         \* Server objects the run may know
  Custom,          \* those the user configured by address
  Lan,             \* those found by broadcast in the local network
  NoRequest,       \* those whose plugin builds an empty query packet
  Masters,         \* MasterClient objects, one per engine plugin
  Attempts,        \* QuerySpeed::attemptsPerServer, as configured
  AutoRefresh,     \* is the automatic refresh enabled in the configuration?
  Dialogs,         \* does the user open the About or Configuration dialog?
  ServerAnswers,   \* what readRefreshQueryResponse() may make of a packet
  MasterAnswers,   \* what readResponse() may make of a master's packet
  MaxRequests,     \* bound: refreshes asked for by the user or by timers
  MaxFollowUps,    \* bound: REPLY or PENDING packets read from servers
  NullServer       \* a QPointer whose Server was destroyed

(* Custom, LAN and unaskable servers are servers; a null pointer is not.   *)
ASSUME ServersAssumption ==
  /\ Custom \subseteq Servers
  /\ Lan \subseteq Servers
  /\ NoRequest \subseteq Servers
  /\ NullServer \notin Servers

(* attemptsPerServer is any configured int; the bounds are naturals.       *)
ASSUME NumbersAssumption ==
  /\ Attempts \in Int
  /\ MaxRequests \in Nat
  /\ MaxFollowUps \in Nat
  /\ AutoRefresh \in BOOLEAN
  /\ Dialogs \in BOOLEAN

(* The values of the two Response enums that reach the switch statements.  *)
ASSUME AnswersAssumption ==
  /\ ServerAnswers \subseteq {"GOOD", "BAD", "WAIT", "BANNED", "REPLY", "PENDING"}
  /\ MasterAnswers \subseteq {"GOOD", "BAD", "WAIT", "BANNED", "OLD"}

VARIABLES
  alive,                \* Server objects that exist
  isRefreshing,         \* servers whose bIsRefreshing is set
  triesLeft,            \* Server::triesLeft
  cooling,              \* servers CanRefreshServer refuses for now
  unchallengedServers,  \* queued, not yet queried
  refreshingServers,    \* queried, awaiting an answer
  overdue,              \* of those, the ones delayBetweenResends has run out on
  serverTicks,          \* pending single shots of sendServerQueries()
  registeredMasters,
  unchallengedMasters,
  challengeTimers,      \* masters whose lastChallengeTimer is running
  timeouted,            \* masters whose timeouted flag is set
  masterTicks,          \* pending single shots of sendMasterQueries()
  bSleeping,
  getServersEnabled,    \* MainWindow: the "Get Servers" button
  totalRefresh,         \* MainWindow: bTotalRefreshInProcess
  autoTimer,            \* MainWindow: autoRefreshTimer is running
  requests,             \* environment: requests made, up to MaxRequests
  followUps             \* environment: follow-up packets, up to MaxFollowUps

serverVars == <<alive, isRefreshing, triesLeft, cooling>>
queueVars  == <<unchallengedServers, refreshingServers, overdue, serverTicks>>
masterVars == <<registeredMasters, unchallengedMasters, challengeTimers,
                timeouted, masterTicks>>
uiVars     == <<getServersEnabled, totalRefresh, autoTimer>>
vars == <<serverVars, queueVars, masterVars, bSleeping, uiVars,
          requests, followUps>>

-----------------------------------------------------------------------------
(* Server                                                                  *)

(* Servers that stay on the list between rounds and never block the UI.    *)
Special == Custom \cup Lan

MaxAttempts == 10  \* QuerySpeed::MAX_ATTEMPTS_PER_SERVER

Smaller(a, b) == IF a < b THEN a ELSE b
Larger(a, b) == IF a > b THEN a ELSE b

(* The number of queries one refresh may send, as refreshStarts() sets it. *)
TriesAtStart == Larger(Smaller(Attempts, MaxAttempts), 1)

(* sendRefreshQuery() on every server of T: whom it really sends to, ...   *)
Asked(T) == {s \in T : triesLeft[s] > 0} \ NoRequest

(* ... and what it leaves in triesLeft.                                    *)
TriesAfterFree(T) == triesLeft
TriesAfter(T) ==
  [s \in Servers |-> IF s \in T /\ triesLeft[s] > 0 THEN triesLeft[s] - 1
                                                    ELSE triesLeft[s]]

-----------------------------------------------------------------------------
(* Refresher: queues and signals                                           *)

Live(queue) == queue \ {NullServer}

hasAnyServers == unchallengedServers \cup refreshingServers # {}

isServerRegisteredQueuedOnly(s) == s \in unchallengedServers
isServerRegistered(s) == s \in unchallengedServers \cup refreshingServers

(* isAnythingToRefresh(), for the lists an action leaves behind.           *)
AnythingToRefreshServersOnly(queued, asked, masters, unasked) ==
  queued \cup asked # {}
AnythingToRefresh(queued, asked, masters, unasked) ==
  queued \cup asked # {} \/ masters # {} \/ unasked # {}

(* The signals of one event-loop turn: concludeRefresh() if it is called,  *)
(* else the wake-up if a chain of queries starts, and block().             *)
Signals(concludes, wakes, blocks) ==
  /\ bSleeping' = (concludes \/ (bSleeping /\ ~wakes))
  /\ getServersEnabled' = (concludes \/ (getServersEnabled /\ ~blocks))

(* MainWindow::refreshThreadEndsWork() re-arms the automatic refresh when  *)
(* the round that ends was a total one.                                    *)
RoundEnds(concludes) ==
  /\ totalRefresh' = (totalRefresh /\ ~concludes)
  /\ autoTimer' = (autoTimer \/ (concludes /\ totalRefresh /\ AutoRefresh))

(* registerServer() emits block() unless the server is custom or LAN.      *)
BlocksNever(new) == FALSE
Blocks(new) == \E s \in new : s \notin Special

(* The servers of S that registerServer() accepts.                         *)
NewlyRegistered(S) == {s \in S : ~isServerRegistered(s) /\ s \notin cooling}

(* Does registering them start a chain of sendServerQueries() ticks?  The  *)
(* test is made before the call purges null pointers; "purged" tells that  *)
(* an earlier server of S, refused by the call, has already purged them.   *)
StartsChainTestedLate(S, purged) ==
  NewlyRegistered(S) # {} /\ ~hasAnyServers /\ NewlyRegistered(S) = {}
StartsChain(S, purged) ==
  /\ NewlyRegistered(S) # {}
  /\ \/ ~hasAnyServers
     \/ purged /\ Live(unchallengedServers \cup refreshingServers) = {}

(* Could an earlier member of S have been refused before an accepted one?  *)
PurgeChoices(S) == IF S = NewlyRegistered(S) THEN {FALSE} ELSE BOOLEAN

(* The queues after registerServer() was called on each server of S; the   *)
(* call purges null pointers even when it refuses the server.              *)
QueuedAfter(S) ==
  (IF S = {} THEN unchallengedServers ELSE Live(unchallengedServers))
    \cup NewlyRegistered(S)
AskedAfter(S) ==
  IF S = {} THEN refreshingServers ELSE Live(refreshingServers)

(* registerServer() on each server of S, signals aside.  A server that was *)
(* just constructed ("fresh") has never been refreshed.                    *)
RegisterServers(S, purged) ==
  LET new == NewlyRegistered(S)
  IN /\ unchallengedServers' = QueuedAfter(S)
     /\ refreshingServers' = AskedAfter(S)
     /\ isRefreshing' = isRefreshing \cup new
     /\ triesLeft' = [s \in Servers |-> IF s \in new THEN TriesAtStart ELSE triesLeft[s]]
     /\ serverTicks' = serverTicks + (IF StartsChain(S, purged) THEN 1 ELSE 0)
     /\ UNCHANGED overdue

-----------------------------------------------------------------------------
(* What the user and the rest of the program ask for                       *)

(* registerServer() on one server: a refresh asked for in the list's       *)
(* menu, before joining a game, or of a custom server.                     *)
RefreshServer(s) ==
  /\ requests < MaxRequests
  /\ s \in alive
  /\ RegisterServers({s}, FALSE)
  /\ Signals(FALSE, StartsChain({s}, FALSE), Blocks(NewlyRegistered({s})))
  /\ requests' = requests + 1
  /\ UNCHANGED <<alive, cooling, masterVars, totalRefresh, autoTimer, followUps>>

(* A LAN server is detected or a custom server is configured: the object   *)
(* is created and registered at once.                                      *)
DetectServer(s) ==
  /\ requests < MaxRequests
  /\ s \in Special \ alive
  /\ alive' = alive \cup {s}
  /\ RegisterServers({s}, FALSE)
  /\ Signals(FALSE, StartsChain({s}, FALSE), Blocks(NewlyRegistered({s})))
  /\ requests' = requests + 1
  /\ UNCHANGED <<cooling, masterVars, totalRefresh, autoTimer, followUps>>

(* The last ServerPtr to a server is dropped: every QPointer to it in the  *)
(* queues turns null.                                                      *)
NulledNot(queue, s) == queue
Nulled(queue, s) == IF s \in queue THEN (queue \ {s}) \cup {NullServer} ELSE queue

DestroyServer(s) ==
  /\ s \in alive
  /\ alive' = alive \ {s}
  /\ isRefreshing' = isRefreshing \ {s}
  /\ cooling' = cooling \ {s}
  /\ triesLeft' = [triesLeft EXCEPT ![s] = 0]
  /\ unchallengedServers' = Nulled(unchallengedServers, s)
  /\ refreshingServers' = Nulled(refreshingServers, s)
  /\ overdue' = overdue \ {s}
  /\ UNCHANGED <<serverTicks, masterVars, bSleeping, uiVars,
                 requests, followUps>>

(* registerMaster() schedules one sendMasterQueries() when the hash has    *)
(* just got its first entry.                                               *)
StartsMasterTick(new) == registeredMasters = {} /\ new # {}

(* MainWindow::getServers(), from the button or from the automatic         *)
(* refresh: refreshes the custom and LAN servers and registers the masters *)
(* "enabled" in the Query menu.  The automatic refresh comes at least 30 s *)
(* after its timer was set, no master stays registered for so long.        *)
GetServers(enabled) ==
  LET listed == alive \cap Special
      new == enabled \ registeredMasters
  IN /\ requests < MaxRequests
     /\ getServersEnabled \/ (autoTimer /\ registeredMasters = {})
     /\ enabled # {} \/ alive \cap Custom # {}
     /\ \E purged \in PurgeChoices(listed) :
          /\ RegisterServers(listed, purged)
          /\ Signals(FALSE, StartsChain(listed, purged) \/ StartsMasterTick(new),
                     new # {})
     /\ registeredMasters' = registeredMasters \cup new
     /\ unchallengedMasters' = unchallengedMasters \cup new
     /\ masterTicks' = masterTicks + (IF StartsMasterTick(new) THEN 1 ELSE 0)
     /\ totalRefresh' = TRUE
     /\ autoTimer' = FALSE
     /\ requests' = requests + 1
     /\ UNCHANGED <<alive, cooling, challengeTimers, timeouted, followUps>>

(* A modal dialog (About, Configuration) stops the automatic refresh while *)
(* it is open and sets it up anew, whatever is going on, when it closes.   *)
ModalDialog ==
  /\ Dialogs
  /\ autoTimer' \in {FALSE, AutoRefresh}
  /\ UNCHANGED <<serverVars, queueVars, masterVars, bSleeping,
                 getServersEnabled, totalRefresh, requests, followUps>>

-----------------------------------------------------------------------------
(* Querying the game servers                                               *)

(* The refreshes a sendServerQueries() turn gives a query to: the next     *)
(* queued one and those whose delayBetweenResends has run out.             *)
Due(starting) == starting \cup overdue

(* sendServerQueries() with something left: start one queued server, send  *)
(* again to the overdue ones, and schedule the next turn.  A server that   *)
(* gets no query (no tries left, empty request) stops refreshing.          *)
SendServerQueries(starting) ==
  LET queued == Live(unchallengedServers)
      asked == Live(refreshingServers)
      stopped == Due(starting) \ Asked(Due(starting))
  IN /\ serverTicks > 0
     /\ queued \cup asked # {}
     /\ IF queued = {} THEN starting = {} ELSE \E s \in queued : starting = {s}
     /\ unchallengedServers' = queued \ starting
     /\ refreshingServers' = (asked \cup starting) \ stopped
     /\ overdue' = {}
     /\ triesLeft' = TriesAfter(Due(starting))
     /\ isRefreshing' = isRefreshing \ stopped
     /\ cooling' = cooling \cup stopped
     /\ UNCHANGED <<alive, serverTicks, masterVars, bSleeping,
                    uiVars, requests, followUps>>

(* sendServerQueries() with nothing left: the chain ends, and the engine   *)
(* falls asleep unless a master is still being asked.                      *)
EndServerQueries ==
  LET concludes == ~AnythingToRefresh({}, {}, registeredMasters, unchallengedMasters)
  IN /\ serverTicks > 0
     /\ Live(unchallengedServers \cup refreshingServers) = {}
     /\ serverTicks' = serverTicks - 1
     /\ unchallengedServers' = {}
     /\ refreshingServers' = {}
     /\ Signals(concludes, FALSE, FALSE)
     /\ RoundEnds(concludes)
     /\ UNCHANGED <<serverVars, overdue, masterVars, requests, followUps>>

(* delayBetweenResends passes since the last query to s.                   *)
ResendDelayPasses(s) ==
  /\ s \in Live(refreshingServers) \ overdue
  /\ overdue' = overdue \cup {s}
  /\ UNCHANGED <<serverVars, unchallengedServers, refreshingServers, serverTicks,
                 masterVars, bSleeping, uiVars, requests, followUps>>

(* The refresh threshold passes since the last refresh of s ended.         *)
CoolDown(s) ==
  /\ s \in cooling
  /\ cooling' = cooling \ {s}
  /\ UNCHANGED <<alive, isRefreshing, triesLeft, queueVars, masterVars,
                 bSleeping, uiVars, requests, followUps>>

(* tryReadDatagramByServer(), the packet makes the plugin ask once more    *)
(* and a query goes out, or makes it wait for another packet: the refresh  *)
(* goes on with its timer reset.                                           *)
ReadFollowUp(s, answer) ==
  /\ followUps < MaxFollowUps
  /\ answer \in ServerAnswers \cap {"REPLY", "PENDING"}
  /\ s \in Live(refreshingServers)
  /\ answer = "REPLY" => s \in Asked({s})
  /\ triesLeft' = IF answer = "REPLY" THEN TriesAfter({s}) ELSE triesLeft
  /\ overdue' = overdue \ {s}
  /\ followUps' = followUps + 1
  /\ UNCHANGED <<alive, isRefreshing, cooling, unchallengedServers,
                 refreshingServers, serverTicks, masterVars, bSleeping,
                 uiVars, requests>>

(* tryReadDatagramByServer(), any other answer, or a REPLY that cannot be  *)
(* followed by a query: the refresh ends.                                  *)
ReadFinalAnswer(s, answer) ==
  /\ answer \in ServerAnswers \ {"PENDING"}
  /\ s \in Live(refreshingServers)
  /\ answer = "REPLY" => s \notin Asked({s})
  /\ triesLeft' = IF answer = "REPLY" THEN TriesAfter({s}) ELSE triesLeft
  /\ refreshingServers' = refreshingServers \ {s}
  /\ overdue' = overdue \ {s}
  /\ isRefreshing' = isRefreshing \ {s}
  /\ cooling' = cooling \cup {s}
  /\ UNCHANGED <<alive, unchallengedServers, serverTicks, masterVars, bSleeping,
                 uiVars, requests, followUps>>

-----------------------------------------------------------------------------
(* Querying the master servers                                             *)

(* sendMasterQueries(): every unchallenged master gets its timer, forgets  *)
(* its old list and is sent a request.                                     *)
TimersFiredNot(challenged) == challengeTimers
TimersFired(challenged) == challengeTimers \cup challenged

SendMasterQueries ==
  /\ masterTicks > 0
  /\ masterTicks' = masterTicks - 1
  /\ challengeTimers' = TimersFired(unchallengedMasters)
  /\ timeouted' = timeouted \ unchallengedMasters
  /\ unchallengedMasters' = {}
  /\ UNCHANGED <<serverVars, queueVars, registeredMasters, bSleeping,
                 uiVars, requests, followUps>>

(* masterFinishedRefreshing() for the masters of M, whose lists hold the   *)
(* freshly constructed servers "listed": register those, unregister M and, *)
(* if the lists are empty and nothing is left, fall asleep.                *)
MastersFinish(M, listed, timers) ==
  LET concludes ==
        /\ M # {}
        /\ listed = {}
        /\ ~AnythingToRefresh(unchallengedServers, refreshingServers,
                              registeredMasters \ M, unchallengedMasters)
  IN /\ alive' = alive \cup listed
     /\ RegisterServers(listed, FALSE)
     /\ registeredMasters' = registeredMasters \ M
     /\ challengeTimers' = timers \ M
     /\ Signals(concludes, StartsChain(listed, FALSE), Blocks(listed))
     /\ RoundEnds(concludes)

(* The servers a list may name: none exists as an object yet.              *)
Unlisted == (Servers \ Special) \ alive

(* tryReadDatagramByMasterClient(): the list is complete (listUpdated() is *)
(* emitted while the packet is read), or the answer sends the client to    *)
(* its packet cache, which ends in listUpdated() too.                      *)
ReadMasterList(m, listed) ==
  /\ MasterAnswers \cap {"GOOD", "WAIT", "BAD"} # {}
  /\ m \in registeredMasters \ unchallengedMasters
  /\ listed \subseteq Unlisted
  /\ MastersFinish({m}, listed, challengeTimers)
  /\ UNCHANGED <<cooling, unchallengedMasters, timeouted, masterTicks,
                 requests, followUps>>

(* tryReadDatagramByMasterClient(), refused: notifyResponse() tells the    *)
(* user and the master is unregistered, nothing else.                      *)
ReadMasterRefusal(m) ==
  /\ MasterAnswers \cap {"BANNED", "OLD"} # {}
  /\ m \in registeredMasters \ unchallengedMasters
  /\ registeredMasters' = registeredMasters \ {m}
  /\ challengeTimers' = challengeTimers \ {m}
  /\ UNCHANGED <<serverVars, queueVars, unchallengedMasters, timeouted,
                 masterTicks, bSleeping, uiVars, requests, followUps>>

(* A master's timer fires: attemptTimeoutMasters() times out every master  *)
(* whose timer is not running, once, and reads its list from the cache.    *)
TimedOutNone(timers) == {}
TimedOut(timers) == {m \in registeredMasters : m \notin timers} \ timeouted

MasterTimeout(m, listed) ==
  LET timers == challengeTimers \ {m}
  IN /\ m \in challengeTimers
     /\ listed \subseteq Unlisted
     /\ TimedOut(timers) = {} => listed = {}
     /\ MastersFinish(TimedOut(timers), listed, timers)
     /\ timeouted' = timeouted \cup TimedOut(timers)
     /\ UNCHANGED <<cooling, unchallengedMasters, masterTicks, requests, followUps>>

-----------------------------------------------------------------------------
Init ==
  /\ alive = Special
  /\ isRefreshing = {}
  /\ triesLeft = [s \in Servers |-> 0]
  /\ cooling = {}
  /\ unchallengedServers = {}
  /\ refreshingServers = {}
  /\ overdue = {}
  /\ serverTicks = 0
  /\ registeredMasters = {}
  /\ unchallengedMasters = {}
  /\ challengeTimers = {}
  /\ timeouted = {}
  /\ masterTicks = 0
  /\ bSleeping = TRUE
  /\ getServersEnabled = TRUE
  /\ totalRefresh = FALSE
  /\ autoTimer = AutoRefresh
  /\ requests = 0
  /\ followUps = 0

Next ==
  \/ \E s \in Servers : RefreshServer(s)
  \/ \E s \in Servers : DetectServer(s)
  \/ \E s \in Servers : DestroyServer(s)
  \/ \E enabled \in SUBSET Masters : GetServers(enabled)
  \/ ModalDialog
  \/ \E s \in Servers : SendServerQueries({s})
  \/ SendServerQueries({})
  \/ EndServerQueries
  \/ \E s \in Servers : ResendDelayPasses(s)
  \/ \E s \in Servers : CoolDown(s)
  \/ \E s \in Servers, answer \in ServerAnswers : ReadFollowUp(s, answer)
  \/ \E s \in Servers, answer \in ServerAnswers : ReadFinalAnswer(s, answer)
  \/ SendMasterQueries
  \/ \E m \in Masters, listed \in SUBSET Servers : ReadMasterList(m, listed)
  \/ \E m \in Masters : ReadMasterRefusal(m)
  \/ \E m \in Masters, listed \in SUBSET Servers : MasterTimeout(m, listed)

(* Timers fire.  unchallengedServers is a FIFO list, here a set: a server  *)
(* that stays in it is taken out of it in the end.  Nobody is obliged to   *)
(* answer, and the user is not obliged to ask.                             *)
Fairness ==
  /\ \A s \in Servers : WF_vars(SendServerQueries({s}))
  /\ WF_vars(SendServerQueries({}))
  /\ WF_vars(EndServerQueries)
  /\ \A s \in Servers : WF_vars(ResendDelayPasses(s))
  /\ WF_vars(SendMasterQueries)
  /\ \A m \in Masters : WF_vars(\E listed \in SUBSET Servers : MasterTimeout(m, listed))

Spec == Init /\ [][Next]_vars

FairSpec == Spec /\ Fairness

-----------------------------------------------------------------------------
(* Every variable keeps to its type, and the queues hold live servers or   *)
(* the null pointer; only a refreshing server can be overdue.              *)
TypeOK ==
  /\ alive \in SUBSET Servers
  /\ isRefreshing \in SUBSET alive
  /\ triesLeft \in [Servers -> 0..MaxAttempts]
  /\ cooling \in SUBSET alive
  /\ unchallengedServers \in SUBSET (alive \cup {NullServer})
  /\ refreshingServers \in SUBSET (alive \cup {NullServer})
  /\ overdue \subseteq Live(refreshingServers)
  /\ serverTicks \in Nat
  /\ registeredMasters \in SUBSET Masters
  /\ unchallengedMasters \in SUBSET Masters
  /\ challengeTimers \in SUBSET Masters
  /\ timeouted \in SUBSET Masters
  /\ masterTicks \in Nat
  /\ bSleeping \in BOOLEAN
  /\ getServersEnabled \in BOOLEAN
  /\ totalRefresh \in BOOLEAN
  /\ autoTimer \in BOOLEAN
  /\ requests \in 0..MaxRequests
  /\ followUps \in 0..MaxFollowUps

(* A Server believes it is refreshing exactly while the engine holds it in *)
(* one queue, and in one only: no refresh is lost when an object is        *)
(* registered twice, answers, is out of tries or is destroyed.             *)
RefreshBookkeeping ==
  /\ isRefreshing = Live(unchallengedServers \cup refreshingServers)
  /\ Live(unchallengedServers) \cap Live(refreshingServers) = {}

(* Whenever the queues hold anything, a turn of sendServerQueries() is     *)
(* scheduled: nothing else would ever query or time out a server.          *)
QueriesScheduled == hasAnyServers => serverTicks > 0

(* The engine sleeps, its sockets released, only when no server and no     *)
(* master is being refreshed.                                              *)
SleepsOnlyWhenIdle ==
  bSleeping =>
    /\ ~hasAnyServers
    /\ registeredMasters = {}
    /\ unchallengedMasters = {}

(* sendMasterQueries() takes a registered master out of the hash for each  *)
(* unchallenged one (a null pointer otherwise) and is always scheduled.    *)
UnchallengedAreRegistered ==
  /\ unchallengedMasters \subseteq registeredMasters
  /\ unchallengedMasters # {} => masterTicks > 0

(* A master that was sent its request has a timer running: an answer that  *)
(* never comes is noticed.                                                 *)
ChallengedAreTimed ==
  /\ registeredMasters \ unchallengedMasters \subseteq challengeTimers
  /\ challengeTimers \subseteq registeredMasters

(* No master is lost between being registered and being timed out.         *)
MastersAreTracked == UnchallengedAreRegistered /\ ChallengedAreTimed

(* While "Get Servers" can be pressed no master is asked, and the only     *)
(* servers being refreshed are custom or LAN ones.                         *)
ButtonMeansIdle ==
  getServersEnabled => registeredMasters = {} /\ isRefreshing \subseteq Special

(* All masters of a round are challenged together, before any timer runs:  *)
(* what keeps attemptTimeoutMasters() from timing out a master that has    *)
(* not been asked yet.                                                     *)
ChallengedTogether ==
  unchallengedMasters # {} =>
    /\ unchallengedMasters = registeredMasters
    /\ challengeTimers = {}

(* A master that timed out is registered again only by a new round, which  *)
(* clears its flag before it is asked.                                     *)
TimeoutedAreGone == registeredMasters \cap timeouted \subseteq unchallengedMasters

(* The inductive invariant: the facts above hold together.                 *)
EngineInv ==
  /\ TypeOK
  /\ RefreshBookkeeping
  /\ QueriesScheduled
  /\ SleepsOnlyWhenIdle
  /\ UnchallengedAreRegistered
  /\ ChallengedAreTimed
  /\ ButtonMeansIdle
  /\ ChallengedTogether
  /\ TimeoutedAreGone

(* A refresh that goes on never gets new tries: registering a server again *)
(* or an answer asking for one more query cannot prolong it.               *)
TriesOnlyRunOut ==
  [][\A s \in isRefreshing \cap isRefreshing' : triesLeft'[s] <= triesLeft[s]]_vars

(* The end of a round is ahead: "Get Servers" is unavailable only while    *)
(* the engine is awake, and awake it has a turn of sendServerQueries()     *)
(* scheduled or a master registered, whose timer MastersAreTracked is      *)
(* about.                                                                  *)
EndIsAhead ==
  /\ bSleeping => getServersEnabled
  /\ ~bSleeping => serverTicks > 0 \/ registeredMasters # {}

NobodyRefuses == MasterAnswers \cap {"BANNED", "OLD"} = {}

(* No turn of the event loop can lose the end of a round but one: reading  *)
(* a master's refusal.  A chain that ends, a timeout and an empty list all *)
(* either conclude the round or leave it to something that will.           *)
OnlyRefusalsLoseTheEnd ==
  [][EndIsAhead => EndIsAhead' \/ \E m \in Masters : ReadMasterRefusal(m)]_vars

(* A server's refresh ends, whether or not it answers.                     *)
RefreshEnds ==
  \A s \in Servers : s \in isRefreshing ~> s \notin isRefreshing

(* "Get Servers" comes back after every round.                             *)
ButtonComesBack == ~getServersEnabled ~> getServersEnabled

(* The engine implements the service the rest of the program relies on.    *)
Service == INSTANCE RefreshService
  WITH pending <- isRefreshing, fetching <- registeredMasters, asleep <- bSleeping

ServiceSafe == Service!Safe
ServiceSpec == Service!Spec

=============================================================================
