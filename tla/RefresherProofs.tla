--------------------------- MODULE RefresherProofs --------------------------
(***************************************************************************)
(* EngineInv is an invariant of Refresher for every set of servers and     *)
(* masters, every configured number of attempts and any number of          *)
(* requests; and the engine implements the safety part of RefreshService.  *)
(***************************************************************************)
EXTENDS Refresher, TLAPS

USE ServersAssumption, NumbersAssumption

(* One turn that calls refreshStarts() grants between 1 and MaxAttempts    *)
(* queries, whatever number is configured.                                 *)
LEMMA TriesAtStartBounded == TriesAtStart \in 1..MaxAttempts
BY DEF TriesAtStart, Larger, Smaller, MaxAttempts

(* A query costs a try and never makes them negative.                      *)
LEMMA TriesAfterBounded ==
  ASSUME NEW T, triesLeft \in [Servers -> 0..MaxAttempts]
  PROVE  /\ TriesAfter(T) \in [Servers -> 0..MaxAttempts]
         /\ \A s \in Servers : TriesAfter(T)[s] <= triesLeft[s]
BY DEF TriesAfter, MaxAttempts

LEMMA InitInv == Init => EngineInv
<1> SUFFICES ASSUME Init PROVE EngineInv
  OBVIOUS
<1> USE DEF Init
<1>1. TypeOK
  <2>1. triesLeft \in [Servers -> 0..MaxAttempts]
    BY DEF MaxAttempts
  <2>2. autoTimer \in BOOLEAN
    BY Zenon
  <2>3. /\ alive \in SUBSET Servers
        /\ isRefreshing \in SUBSET alive
        /\ cooling \in SUBSET alive
        /\ unchallengedServers \in SUBSET (alive \cup {NullServer})
        /\ refreshingServers \in SUBSET (alive \cup {NullServer})
        /\ overdue \subseteq Live(refreshingServers)
    BY DEF Special, Live
  <2>4. /\ registeredMasters \in SUBSET Masters
        /\ unchallengedMasters \in SUBSET Masters
        /\ challengeTimers \in SUBSET Masters
        /\ timeouted \in SUBSET Masters
    OBVIOUS
  <2>5. /\ serverTicks \in Nat /\ masterTicks \in Nat
        /\ requests \in 0..MaxRequests /\ followUps \in 0..MaxFollowUps
    OBVIOUS
  <2>6. bSleeping \in BOOLEAN /\ getServersEnabled \in BOOLEAN /\ totalRefresh \in BOOLEAN
    OBVIOUS
  <2> HIDE DEF Init
  <2> QED BY <2>1, <2>2, <2>3, <2>4, <2>5, <2>6, Zenon DEF TypeOK
<1>2. RefreshBookkeeping /\ QueriesScheduled /\ SleepsOnlyWhenIdle
  BY DEF RefreshBookkeeping, QueriesScheduled, SleepsOnlyWhenIdle, hasAnyServers, Live
<1>3. UnchallengedAreRegistered /\ ChallengedAreTimed
  BY DEF UnchallengedAreRegistered, ChallengedAreTimed
<1>4. ButtonMeansIdle /\ ChallengedTogether /\ TimeoutedAreGone
  BY DEF ButtonMeansIdle, ChallengedTogether, TimeoutedAreGone
<1> QED BY <1>1, <1>2, <1>3, <1>4 DEF EngineInv

(* The rest of a turn's effects, by group of variables.                    *)
MasterFacts ==
  /\ registeredMasters \in SUBSET Masters
  /\ unchallengedMasters \in SUBSET Masters
  /\ challengeTimers \in SUBSET Masters
  /\ timeouted \in SUBSET Masters
  /\ masterTicks \in Nat
  /\ UnchallengedAreRegistered
  /\ ChallengedAreTimed
  /\ ChallengedTogether
  /\ TimeoutedAreGone

ServerFacts ==
  /\ alive \in SUBSET Servers
  /\ isRefreshing \in SUBSET alive
  /\ triesLeft \in [Servers -> 0..MaxAttempts]
  /\ unchallengedServers \in SUBSET (alive \cup {NullServer})
  /\ refreshingServers \in SUBSET (alive \cup {NullServer})
  /\ overdue \subseteq Live(refreshingServers)
  /\ serverTicks \in Nat
  /\ RefreshBookkeeping
  /\ QueriesScheduled

FlagFacts ==
  /\ bSleeping \in BOOLEAN
  /\ getServersEnabled \in BOOLEAN
  /\ totalRefresh \in BOOLEAN
  /\ autoTimer \in BOOLEAN

OtherFacts ==
  /\ cooling \in SUBSET alive
  /\ requests \in 0..MaxRequests
  /\ followUps \in 0..MaxFollowUps

LEMMA Regroup ==
  EngineInv <=> /\ MasterFacts
                /\ ServerFacts
                /\ FlagFacts
                /\ OtherFacts
                /\ SleepsOnlyWhenIdle
                /\ ButtonMeansIdle
BY DEF EngineInv, TypeOK, MasterFacts, ServerFacts, FlagFacts, OtherFacts

LEMMA RegroupNext ==
  ASSUME MasterFacts', ServerFacts', FlagFacts', OtherFacts',
         SleepsOnlyWhenIdle', ButtonMeansIdle'
  PROVE  EngineInv'
BY DEF EngineInv, TypeOK, MasterFacts, ServerFacts, FlagFacts, OtherFacts

(* The signals leave Booleans behind.                                      *)
LEMMA SignalTypes ==
  ASSUME FlagFacts, OtherFacts, NEW concludes \in BOOLEAN, NEW wakes \in BOOLEAN,
         NEW blocks \in BOOLEAN, Signals(concludes, wakes, blocks)
  PROVE  /\ bSleeping' \in BOOLEAN
         /\ getServersEnabled' \in BOOLEAN
         /\ bSleeping' => concludes \/ (bSleeping /\ ~wakes)
         /\ getServersEnabled' => concludes \/ (getServersEnabled /\ ~blocks)
BY DEF FlagFacts, OtherFacts, Signals

LEMMA RoundTypes ==
  ASSUME FlagFacts, NEW concludes \in BOOLEAN, RoundEnds(concludes)
  PROVE  totalRefresh' \in BOOLEAN /\ autoTimer' \in BOOLEAN
BY DEF FlagFacts, RoundEnds

(* Registering servers keeps the queues and the servers' own flags in step *)
(* and schedules a chain of queries when the queues were empty.            *)
LEMMA RegistrationKeeps ==
  ASSUME EngineInv, NEW S \in SUBSET Servers, NEW purged \in BOOLEAN,
         RegisterServers(S, purged), S \subseteq alive', alive \subseteq alive',
         alive' \subseteq Servers
  PROVE  /\ ServerFacts'
         /\ isRefreshing' = isRefreshing \cup NewlyRegistered(S)
<1> USE DEF EngineInv, TypeOK, RegisterServers
<1>1. NewlyRegistered(S) \subseteq S
  BY DEF NewlyRegistered
<1>2. isRefreshing' \in SUBSET alive' /\ isRefreshing' = isRefreshing \cup NewlyRegistered(S)
  BY <1>1
<1>3. triesLeft' \in [Servers -> 0..MaxAttempts]
  BY TriesAtStartBounded
<1>4. /\ unchallengedServers' \in SUBSET (alive' \cup {NullServer})
      /\ refreshingServers' \in SUBSET (alive' \cup {NullServer})
      /\ overdue' \in SUBSET Live(refreshingServers)'
  BY <1>1 DEF QueuedAfter, AskedAfter, Live
<1>5. serverTicks' \in Nat
  OBVIOUS
<1>6. RefreshBookkeeping'
  BY <1>1 DEF RefreshBookkeeping, QueuedAfter, AskedAfter, Live, NewlyRegistered,
              isServerRegistered
<1>7. QueriesScheduled'
  <2>1. CASE NewlyRegistered(S) = {}
    BY <2>1 DEF QueriesScheduled, hasAnyServers, QueuedAfter, AskedAfter, Live,
                StartsChain
  <2>2. CASE hasAnyServers
    BY <2>2 DEF QueriesScheduled
  <2>3. CASE NewlyRegistered(S) # {} /\ ~hasAnyServers
    BY <2>3 DEF QueriesScheduled, StartsChain
  <2> QED BY <2>1, <2>2, <2>3
<1> QED BY <1>2, <1>3, <1>4, <1>5, <1>6, <1>7 DEF ServerFacts

(* A sleeping engine that registers no new server has empty queues still.  *)
LEMMA RegistrationSleeps ==
  ASSUME EngineInv, NEW S \in SUBSET Servers, NEW purged \in BOOLEAN,
         RegisterServers(S, purged), bSleeping, ~StartsChain(S, purged)
  PROVE  ~hasAnyServers'
<1>1. ~hasAnyServers
  BY DEF EngineInv, SleepsOnlyWhenIdle
<1>2. NewlyRegistered(S) = {}
  BY <1>1 DEF StartsChain
<1> QED BY <1>1, <1>2 DEF RegisterServers, QueuedAfter, AskedAfter, Live, hasAnyServers

(* What blocks() lets through is custom or LAN.                            *)
LEMMA UnblockedAreSpecial ==
  ASSUME NEW new, ~Blocks(new) PROVE new \subseteq Special
BY DEF Blocks

LEMMA FlagsAreBoolean ==
  ASSUME NEW S, NEW purged, NEW new
  PROVE  /\ StartsChain(S, purged) \in BOOLEAN
         /\ Blocks(new) \in BOOLEAN
         /\ StartsMasterTick(new) \in BOOLEAN
BY DEF StartsChain, Blocks, StartsMasterTick

-----------------------------------------------------------------------------
(* One server registered, by a refresh or on detection.                    *)
LEMMA RegisterOneStep ==
  ASSUME EngineInv, NEW s \in Servers,
         RefreshServer(s) \/ DetectServer(s)
  PROVE  EngineInv'
<1>1. /\ RegisterServers({s}, FALSE)
      /\ Signals(FALSE, StartsChain({s}, FALSE), Blocks(NewlyRegistered({s})))
      /\ requests < MaxRequests /\ requests' = requests + 1
      /\ UNCHANGED <<cooling, masterVars, totalRefresh, autoTimer, followUps>>
  BY DEF RefreshServer, DetectServer
<1>2. {s} \subseteq alive' /\ alive \subseteq alive' /\ alive' \subseteq Servers
  BY DEF RefreshServer, DetectServer, EngineInv, TypeOK
<1>3. ServerFacts' /\ isRefreshing' = isRefreshing \cup NewlyRegistered({s})
  <2>1. {s} \in SUBSET Servers /\ FALSE \in BOOLEAN
    OBVIOUS
  <2> QED BY <1>1, <1>2, <2>1, RegistrationKeeps
<1>4. MasterFacts'
  BY <1>1, Regroup DEF MasterFacts, masterVars, UnchallengedAreRegistered,
                       ChallengedAreTimed, ChallengedTogether, TimeoutedAreGone
<1>5. /\ bSleeping' \in BOOLEAN /\ getServersEnabled' \in BOOLEAN
      /\ bSleeping' => bSleeping /\ ~StartsChain({s}, FALSE)
      /\ getServersEnabled' => getServersEnabled /\ ~Blocks(NewlyRegistered({s}))
  <2>1. FlagFacts /\ OtherFacts /\ FALSE \in BOOLEAN
        /\ StartsChain({s}, FALSE) \in BOOLEAN
        /\ Blocks(NewlyRegistered({s})) \in BOOLEAN
    BY Regroup, FlagsAreBoolean
  <2> QED BY <1>1, <2>1, SignalTypes
<1>6. FlagFacts' /\ OtherFacts'
  <2>1. FlagFacts'
    BY <1>1, <1>5, Regroup DEF FlagFacts
  <2>2. OtherFacts'
    BY <1>1, <1>2, <1>5, Regroup DEF OtherFacts
  <2> QED BY <2>1, <2>2
<1>7. SleepsOnlyWhenIdle'
  BY <1>1, <1>5, RegistrationSleeps DEF EngineInv, SleepsOnlyWhenIdle, masterVars
<1>8. ButtonMeansIdle'
  BY <1>1, <1>3, <1>5, UnblockedAreSpecial DEF EngineInv, ButtonMeansIdle, masterVars
<1> QED BY <1>3, <1>4, <1>6, <1>7, <1>8, RegroupNext

(* A round of "Get Servers": masters are registered only when none is.     *)
LEMMA GetServersStep ==
  ASSUME EngineInv, NEW enabled \in SUBSET Masters, GetServers(enabled)
  PROVE  EngineInv'
<1> DEFINE listed == alive \cap Special
           new == enabled \ registeredMasters
<1>1. PICK purged \in BOOLEAN :
        /\ RegisterServers(listed, purged)
        /\ Signals(FALSE, StartsChain(listed, purged) \/ StartsMasterTick(new), new # {})
  BY DEF GetServers, PurgeChoices
<1>2. /\ requests < MaxRequests /\ requests' = requests + 1
      /\ registeredMasters' = registeredMasters \cup new
      /\ unchallengedMasters' = unchallengedMasters \cup new
      /\ masterTicks' = masterTicks + (IF StartsMasterTick(new) THEN 1 ELSE 0)
      /\ totalRefresh' = TRUE /\ autoTimer' = FALSE
      /\ UNCHANGED <<alive, cooling, challengeTimers, timeouted, followUps>>
  BY DEF GetServers
<1>3. registeredMasters = {}
  BY DEF GetServers, EngineInv, ButtonMeansIdle
<1>4. listed \in SUBSET Servers /\ listed \subseteq alive' /\ alive' = alive /\ alive \subseteq Servers
  BY <1>2 DEF EngineInv, TypeOK
<1> HIDE DEF listed, new
<1>5. ServerFacts' /\ isRefreshing' = isRefreshing \cup NewlyRegistered(listed)
  BY <1>1, <1>2, <1>4, RegistrationKeeps
<1>6. new \subseteq Masters /\ unchallengedMasters = {} /\ challengeTimers = {}
  BY <1>3 DEF new, EngineInv, UnchallengedAreRegistered, ChallengedAreTimed
<1>7. MasterFacts'
  BY <1>2, <1>3, <1>6, Regroup
  DEF MasterFacts, StartsMasterTick, UnchallengedAreRegistered, ChallengedAreTimed,
      ChallengedTogether, TimeoutedAreGone
<1>8. /\ bSleeping' \in BOOLEAN /\ getServersEnabled' \in BOOLEAN
      /\ bSleeping' => bSleeping /\ ~StartsChain(listed, purged) /\ ~StartsMasterTick(new)
      /\ getServersEnabled' => getServersEnabled /\ new = {}
  <2>1. (StartsChain(listed, purged) \/ StartsMasterTick(new)) \in BOOLEAN /\ (new # {}) \in BOOLEAN
    OBVIOUS
  <2> QED BY <1>1, <2>1, Regroup, SignalTypes
<1>9. FlagFacts' /\ OtherFacts'
  <2>1. FlagFacts'
    BY <1>2, <1>8 DEF FlagFacts
  <2>2. OtherFacts'
    BY <1>2, <1>4, <1>8, Regroup DEF OtherFacts
  <2> QED BY <2>1, <2>2
<1>10. SleepsOnlyWhenIdle'
  BY <1>1, <1>2, <1>3, <1>4, <1>6, <1>8, RegistrationSleeps
  DEF SleepsOnlyWhenIdle, StartsMasterTick
<1>11. ButtonMeansIdle'
  <2>1. NewlyRegistered(listed) \subseteq Special
    BY DEF listed, NewlyRegistered
  <2> QED BY <1>2, <1>3, <1>5, <1>8, <2>1 DEF EngineInv, ButtonMeansIdle
<1> QED BY <1>5, <1>7, <1>9, <1>10, <1>11, RegroupNext

-----------------------------------------------------------------------------
(* Masters, signals and requests that a turn leaves alone keep their facts.*)
LEMMA MastersKept ==
  ASSUME EngineInv, UNCHANGED masterVars PROVE MasterFacts'
BY Regroup DEF MasterFacts, masterVars, UnchallengedAreRegistered, ChallengedAreTimed,
               ChallengedTogether, TimeoutedAreGone

LEMMA FlagsKept ==
  ASSUME EngineInv, UNCHANGED <<bSleeping, uiVars>> PROVE FlagFacts'
BY Regroup DEF FlagFacts, uiVars

(* A turn that only shrinks what is being refreshed, and tells nobody.     *)
LEMMA QuietTurn ==
  ASSUME EngineInv, ServerFacts', OtherFacts',
         UNCHANGED <<masterVars, bSleeping, getServersEnabled, totalRefresh>>,
         autoTimer' \in BOOLEAN, isRefreshing' \subseteq isRefreshing,
         ~hasAnyServers => ~hasAnyServers'
  PROVE  EngineInv'
<1>1. MasterFacts'
  BY MastersKept
<1>2. FlagFacts'
  BY Regroup DEF FlagFacts
<1>3. SleepsOnlyWhenIdle'
  BY DEF EngineInv, SleepsOnlyWhenIdle, masterVars
<1>4. ButtonMeansIdle'
  BY DEF EngineInv, ButtonMeansIdle, masterVars
<1> QED BY <1>1, <1>2, <1>3, <1>4, RegroupNext

LEMMA DestroyServerStep ==
  ASSUME EngineInv, NEW s \in Servers, DestroyServer(s)
  PROVE  EngineInv'
<1> USE DEF DestroyServer
<1>1. ServerFacts'
  <2>1. /\ alive' \in SUBSET Servers
        /\ isRefreshing' \in SUBSET alive'
        /\ unchallengedServers' \in SUBSET (alive' \cup {NullServer})
        /\ refreshingServers' \in SUBSET (alive' \cup {NullServer})
        /\ overdue' \subseteq Live(refreshingServers)'
    BY DEF EngineInv, TypeOK, Nulled, Live
  <2>2. triesLeft' \in [Servers -> 0..MaxAttempts] /\ serverTicks' \in Nat
    BY DEF EngineInv, TypeOK, MaxAttempts
  <2>3. RefreshBookkeeping'
    BY DEF EngineInv, RefreshBookkeeping, Nulled, Live
  <2>4. QueriesScheduled'
    BY DEF EngineInv, QueriesScheduled, hasAnyServers, Nulled
  <2> QED BY <2>1, <2>2, <2>3, <2>4 DEF ServerFacts
<1>2. OtherFacts'
  BY Regroup DEF OtherFacts
<1>3. ~hasAnyServers => ~hasAnyServers'
  BY DEF hasAnyServers, Nulled
<1>4. UNCHANGED <<masterVars, bSleeping, getServersEnabled, totalRefresh, autoTimer>>
      /\ isRefreshing' \subseteq isRefreshing /\ autoTimer' \in BOOLEAN
  BY Regroup DEF uiVars, FlagFacts
<1> QED BY <1>1, <1>2, <1>3, <1>4, QuietTurn

(* Turns that do not touch the queues at all.                              *)
LEMMA QueuesKept ==
  ASSUME EngineInv, UNCHANGED <<alive, isRefreshing, unchallengedServers,
                                refreshingServers, serverTicks>>,
         triesLeft' \in [Servers -> 0..MaxAttempts],
         overdue' \subseteq Live(refreshingServers)
  PROVE  ServerFacts' /\ (~hasAnyServers => ~hasAnyServers')
BY Regroup DEF ServerFacts, RefreshBookkeeping, QueriesScheduled, hasAnyServers, Live

LEMMA TimePassesStep ==
  ASSUME EngineInv, \/ \E s \in Servers : ResendDelayPasses(s) \/ CoolDown(s)
                    \/ ModalDialog
  PROVE  EngineInv'
<1>1. /\ UNCHANGED <<alive, isRefreshing, triesLeft, unchallengedServers,
                     refreshingServers, serverTicks, requests, followUps>>
      /\ overdue' \subseteq Live(refreshingServers)
      /\ cooling' \subseteq cooling
      /\ UNCHANGED <<masterVars, bSleeping, getServersEnabled, totalRefresh>>
      /\ triesLeft \in [Servers -> 0..MaxAttempts]
  BY DEF ResendDelayPasses, CoolDown, ModalDialog, serverVars, queueVars, uiVars,
         EngineInv, TypeOK
<1>2. autoTimer' \in BOOLEAN
  BY Regroup, Zenon DEF ResendDelayPasses, CoolDown, ModalDialog, uiVars, FlagFacts
<1>3. ServerFacts' /\ (~hasAnyServers => ~hasAnyServers')
  BY <1>1, QueuesKept
<1>4. OtherFacts'
  BY <1>1, Regroup DEF OtherFacts
<1> QED BY <1>1, <1>2, <1>3, <1>4, QuietTurn

LEMMA ReadFollowUpStep ==
  ASSUME EngineInv, NEW s \in Servers, NEW answer \in ServerAnswers,
         ReadFollowUp(s, answer)
  PROVE  EngineInv'
<1> USE DEF ReadFollowUp
<1>1. triesLeft' \in [Servers -> 0..MaxAttempts]
  BY TriesAfterBounded DEF EngineInv, TypeOK
<1>2. overdue' \subseteq Live(refreshingServers)
  BY DEF EngineInv, TypeOK
<1>3. ServerFacts' /\ (~hasAnyServers => ~hasAnyServers')
  BY <1>1, <1>2, QueuesKept
<1>4. OtherFacts'
  BY Regroup DEF OtherFacts
<1>5. UNCHANGED <<masterVars, bSleeping, getServersEnabled, totalRefresh, autoTimer>>
      /\ isRefreshing' \subseteq isRefreshing /\ autoTimer' \in BOOLEAN
  BY Regroup DEF uiVars, FlagFacts
<1> QED BY <1>3, <1>4, <1>5, QuietTurn

LEMMA ReadFinalAnswerStep ==
  ASSUME EngineInv, NEW s \in Servers, NEW answer \in ServerAnswers,
         ReadFinalAnswer(s, answer)
  PROVE  EngineInv'
<1> USE DEF ReadFinalAnswer
<1>1. ServerFacts'
  <2>1. triesLeft' \in [Servers -> 0..MaxAttempts]
    BY TriesAfterBounded DEF EngineInv, TypeOK
  <2>2. RefreshBookkeeping'
    BY DEF EngineInv, RefreshBookkeeping, Live
  <2>3. QueriesScheduled'
    BY DEF EngineInv, QueriesScheduled, hasAnyServers
  <2> QED BY <2>1, <2>2, <2>3 DEF ServerFacts, EngineInv, TypeOK, Live
<1>2. OtherFacts'
  BY Regroup DEF OtherFacts, EngineInv, TypeOK, Live
<1>3. ~hasAnyServers => ~hasAnyServers'
  BY DEF hasAnyServers
<1>4. UNCHANGED <<masterVars, bSleeping, getServersEnabled, totalRefresh, autoTimer>>
      /\ isRefreshing' \subseteq isRefreshing /\ autoTimer' \in BOOLEAN
  BY Regroup DEF uiVars, FlagFacts
<1> QED BY <1>1, <1>2, <1>3, <1>4, QuietTurn

LEMMA SendServerQueriesStep ==
  ASSUME EngineInv, NEW starting \in SUBSET Servers, SendServerQueries(starting)
  PROVE  EngineInv'
<1> DEFINE stopped == Due(starting) \ Asked(Due(starting))
<1>1. /\ serverTicks > 0 /\ UNCHANGED serverTicks
      /\ starting \subseteq Live(unchallengedServers)
      /\ unchallengedServers' = Live(unchallengedServers) \ starting
      /\ refreshingServers' = (Live(refreshingServers) \cup starting) \ stopped
      /\ overdue' = {}
      /\ triesLeft' = TriesAfter(Due(starting))
      /\ isRefreshing' = isRefreshing \ stopped
      /\ cooling' = cooling \cup stopped
      /\ UNCHANGED <<alive, masterVars, bSleeping, uiVars, requests, followUps>>
  BY DEF SendServerQueries
<1>2. stopped \subseteq starting \cup overdue /\ overdue \subseteq Live(refreshingServers)
  BY DEF Due, EngineInv, TypeOK
<1>3. stopped \subseteq alive
  BY <1>1, <1>2 DEF EngineInv, TypeOK, Live
<1> HIDE DEF stopped
<1>4. ServerFacts'
  <2>1. triesLeft' \in [Servers -> 0..MaxAttempts]
    BY <1>1, TriesAfterBounded DEF EngineInv, TypeOK
  <2>2. /\ alive' \in SUBSET Servers
        /\ isRefreshing' \in SUBSET alive'
        /\ unchallengedServers' \in SUBSET (alive' \cup {NullServer})
        /\ refreshingServers' \in SUBSET (alive' \cup {NullServer})
        /\ overdue' \subseteq Live(refreshingServers)'
    BY <1>1 DEF EngineInv, TypeOK, Live
  <2>3. RefreshBookkeeping'
    BY <1>1, <1>2 DEF EngineInv, RefreshBookkeeping, Live
  <2>4. serverTicks' \in Nat /\ QueriesScheduled'
    BY <1>1 DEF EngineInv, TypeOK, QueriesScheduled
  <2> QED BY <2>1, <2>2, <2>3, <2>4 DEF ServerFacts
<1>5. OtherFacts'
  BY <1>1, <1>3, Regroup DEF OtherFacts
<1>6. ~hasAnyServers => ~hasAnyServers'
  BY <1>1 DEF hasAnyServers, Live
<1>7. UNCHANGED <<masterVars, bSleeping, getServersEnabled, totalRefresh, autoTimer>>
      /\ isRefreshing' \subseteq isRefreshing /\ autoTimer' \in BOOLEAN
  BY <1>1, Regroup DEF uiVars, FlagFacts
<1> QED BY <1>4, <1>5, <1>6, <1>7, QuietTurn

LEMMA EndServerQueriesStep ==
  ASSUME EngineInv, EndServerQueries
  PROVE  EngineInv'
<1> DEFINE concludes == ~AnythingToRefresh({}, {}, registeredMasters, unchallengedMasters)
<1>1. /\ serverTicks > 0 /\ serverTicks' = serverTicks - 1
      /\ Live(unchallengedServers \cup refreshingServers) = {}
      /\ unchallengedServers' = {} /\ refreshingServers' = {}
      /\ Signals(concludes, FALSE, FALSE)
      /\ RoundEnds(concludes)
      /\ UNCHANGED <<serverVars, overdue, masterVars, requests, followUps>>
  BY DEF EndServerQueries
<1>2. concludes \in BOOLEAN /\ (concludes => registeredMasters = {} /\ unchallengedMasters = {})
  BY DEF AnythingToRefresh
<1> HIDE DEF concludes
<1>3. isRefreshing = {} /\ overdue = {}
  BY <1>1 DEF EngineInv, RefreshBookkeeping, TypeOK, Live
<1>4. ServerFacts'
  BY <1>1, <1>3 DEF EngineInv, TypeOK, ServerFacts, serverVars, RefreshBookkeeping,
                    QueriesScheduled, hasAnyServers, Live
<1>5. FALSE \in BOOLEAN /\ FlagFacts /\ OtherFacts
  BY Regroup
<1>6. /\ bSleeping' \in BOOLEAN /\ getServersEnabled' \in BOOLEAN
      /\ bSleeping' => concludes \/ bSleeping
      /\ getServersEnabled' => concludes \/ getServersEnabled
  BY <1>1, <1>2, <1>5, SignalTypes
<1>7. FlagFacts' /\ OtherFacts'
  <2>1. FlagFacts'
    BY <1>1, <1>2, <1>5, <1>6, RoundTypes DEF FlagFacts
  <2>2. OtherFacts'
    BY <1>1, <1>5, <1>6 DEF OtherFacts, serverVars
  <2> QED BY <2>1, <2>2
<1>8. MasterFacts'
  BY <1>1, MastersKept
<1>9. SleepsOnlyWhenIdle'
  BY <1>1, <1>2, <1>6 DEF EngineInv, SleepsOnlyWhenIdle, hasAnyServers, masterVars
<1>10. ButtonMeansIdle'
  BY <1>1, <1>2, <1>3, <1>6 DEF EngineInv, ButtonMeansIdle, masterVars, serverVars
<1> QED BY <1>4, <1>7, <1>8, <1>9, <1>10, RegroupNext

-----------------------------------------------------------------------------
LEMMA SendMasterQueriesStep ==
  ASSUME EngineInv, SendMasterQueries
  PROVE  EngineInv'
<1> USE DEF SendMasterQueries
<1>1. MasterFacts'
  BY DEF EngineInv, TypeOK, MasterFacts, TimersFired, UnchallengedAreRegistered,
         ChallengedAreTimed, ChallengedTogether, TimeoutedAreGone
<1>2. ServerFacts'
  BY QueuesKept DEF serverVars, queueVars, EngineInv, TypeOK
<1>3. FlagFacts' /\ OtherFacts'
  <2>1. FlagFacts'
    BY FlagsKept
  <2>2. OtherFacts'
    BY Regroup DEF OtherFacts, serverVars
  <2> QED BY <2>1, <2>2
<1>4. SleepsOnlyWhenIdle' /\ ButtonMeansIdle'
  BY DEF EngineInv, SleepsOnlyWhenIdle, ButtonMeansIdle, hasAnyServers,
         serverVars, queueVars, uiVars
<1> QED BY <1>1, <1>2, <1>3, <1>4, RegroupNext

(* The timer that fires is the only one that matters: it times out its own *)
(* master and no other.                                                    *)
LEMMA TimeoutHitsOne ==
  ASSUME EngineInv, NEW m \in challengeTimers
  PROVE  /\ TimedOut(challengeTimers \ {m}) = {m}
         /\ m \in registeredMasters \ unchallengedMasters
<1>1. unchallengedMasters = {} /\ m \in registeredMasters
  BY DEF EngineInv, ChallengedTogether, ChallengedAreTimed
<1>2. registeredMasters \subseteq challengeTimers /\ m \notin timeouted
  BY <1>1 DEF EngineInv, ChallengedAreTimed, TimeoutedAreGone
<1> QED BY <1>1, <1>2 DEF TimedOut

(* A master that was asked is done with.                                   *)
LEMMA MasterFinishes ==
  ASSUME EngineInv, NEW m \in registeredMasters \ unchallengedMasters,
         NEW listed \in SUBSET Unlisted, NEW timers \in SUBSET challengeTimers,
         challengeTimers \ {m} \subseteq timers,
         MastersFinish({m}, listed, timers),
         timeouted' \subseteq timeouted \cup {m},
         UNCHANGED <<cooling, unchallengedMasters, masterTicks, requests, followUps>>
  PROVE  /\ EngineInv'
         /\ isRefreshing' = isRefreshing \cup NewlyRegistered(listed)
         /\ bSleeping' \in BOOLEAN
         /\ bSleeping' => isRefreshing' = {} /\ registeredMasters' = {}
<1> DEFINE concludes ==
      /\ {m} # {}
      /\ listed = {}
      /\ ~AnythingToRefresh(unchallengedServers, refreshingServers,
                            registeredMasters \ {m}, unchallengedMasters)
<1>1. /\ alive' = alive \cup listed
      /\ RegisterServers(listed, FALSE)
      /\ registeredMasters' = registeredMasters \ {m}
      /\ challengeTimers' = timers \ {m}
      /\ Signals(concludes, StartsChain(listed, FALSE), Blocks(listed))
      /\ RoundEnds(concludes)
  BY Zenon DEF MastersFinish
<1>2. /\ concludes \in BOOLEAN
      /\ concludes => /\ listed = {} /\ ~hasAnyServers /\ registeredMasters \ {m} = {}
                      /\ unchallengedMasters = {}
  BY DEF AnythingToRefresh, hasAnyServers
<1> HIDE DEF concludes
<1>3. unchallengedMasters = {} /\ ~bSleeping /\ ~getServersEnabled
  BY DEF EngineInv, ChallengedTogether, SleepsOnlyWhenIdle, ButtonMeansIdle
<1>4. ServerFacts' /\ isRefreshing' = isRefreshing \cup NewlyRegistered(listed)
  <2>1. /\ listed \in SUBSET Servers /\ FALSE \in BOOLEAN
        /\ listed \subseteq alive' /\ alive \subseteq alive' /\ alive' \subseteq Servers
    BY <1>1 DEF Unlisted, EngineInv, TypeOK
  <2> QED BY <1>1, <2>1, RegistrationKeeps
<1>5. MasterFacts'
  BY <1>1, <1>3, Regroup DEF MasterFacts, UnchallengedAreRegistered, ChallengedAreTimed,
                             ChallengedTogether, TimeoutedAreGone
<1>6. /\ FlagFacts /\ OtherFacts
      /\ StartsChain(listed, FALSE) \in BOOLEAN /\ Blocks(listed) \in BOOLEAN
  BY Regroup, FlagsAreBoolean
<1>7. /\ bSleeping' \in BOOLEAN /\ getServersEnabled' \in BOOLEAN
      /\ bSleeping' => concludes
      /\ getServersEnabled' => concludes
  <2>1. /\ bSleeping' \in BOOLEAN /\ getServersEnabled' \in BOOLEAN
        /\ bSleeping' => concludes \/ (bSleeping /\ ~StartsChain(listed, FALSE))
        /\ getServersEnabled' => concludes \/ (getServersEnabled /\ ~Blocks(listed))
    BY <1>1, <1>2, <1>6, SignalTypes
  <2> QED BY <2>1, <1>3
<1>8. FlagFacts' /\ OtherFacts'
  <2>1. FlagFacts'
    BY <1>1, <1>2, <1>6, <1>7, RoundTypes DEF FlagFacts
  <2>2. OtherFacts'
    BY <1>1, <1>6, <1>7 DEF OtherFacts
  <2> QED BY <2>1, <2>2
<1>9. concludes => /\ ~hasAnyServers' /\ isRefreshing' = {}
                   /\ registeredMasters' = {} /\ unchallengedMasters' = {}
  <2>1. concludes => NewlyRegistered(listed) = {} /\ isRefreshing = {}
    BY <1>2 DEF NewlyRegistered, EngineInv, RefreshBookkeeping, hasAnyServers, Live
  <2> QED BY <1>1, <1>2, <1>3, <1>4, <2>1
      DEF RegisterServers, QueuedAfter, AskedAfter, hasAnyServers
<1>10. SleepsOnlyWhenIdle' /\ ButtonMeansIdle'
  BY <1>7, <1>9 DEF SleepsOnlyWhenIdle, ButtonMeansIdle
<1> QED BY <1>4, <1>5, <1>7, <1>8, <1>9, <1>10, RegroupNext

LEMMA ReadMasterListStep ==
  ASSUME EngineInv, NEW m \in Masters, NEW listed \in SUBSET Servers,
         ReadMasterList(m, listed)
  PROVE  /\ EngineInv'
         /\ isRefreshing' = isRefreshing \cup NewlyRegistered(listed)
         /\ bSleeping' \in BOOLEAN
         /\ bSleeping' => isRefreshing' = {} /\ registeredMasters' = {}
<1>1. /\ m \in registeredMasters \ unchallengedMasters
      /\ listed \in SUBSET Unlisted
      /\ challengeTimers \in SUBSET challengeTimers
      /\ challengeTimers \ {m} \subseteq challengeTimers
      /\ MastersFinish({m}, listed, challengeTimers)
      /\ timeouted' \subseteq timeouted \cup {m}
      /\ UNCHANGED <<cooling, unchallengedMasters, masterTicks, requests, followUps>>
  BY DEF ReadMasterList
<1> QED BY <1>1, MasterFinishes

LEMMA MasterTimeoutStep ==
  ASSUME EngineInv, NEW m \in Masters, NEW listed \in SUBSET Servers,
         MasterTimeout(m, listed)
  PROVE  /\ EngineInv'
         /\ m \in registeredMasters /\ listed \subseteq Unlisted
         /\ registeredMasters' = registeredMasters \ {m}
         /\ isRefreshing' = isRefreshing \cup NewlyRegistered(listed)
         /\ bSleeping' \in BOOLEAN
         /\ bSleeping' => isRefreshing' = {} /\ registeredMasters' = {}
<1> DEFINE timers == challengeTimers \ {m}
<1>1. /\ m \in challengeTimers
      /\ listed \in SUBSET Unlisted
      /\ MastersFinish(TimedOut(timers), listed, timers)
      /\ timeouted' = timeouted \cup TimedOut(timers)
      /\ UNCHANGED <<cooling, unchallengedMasters, masterTicks, requests, followUps>>
  BY DEF MasterTimeout
<1>2. TimedOut(timers) = {m} /\ m \in registeredMasters \ unchallengedMasters
  BY <1>1, TimeoutHitsOne
<1>3. /\ timers \in SUBSET challengeTimers /\ challengeTimers \ {m} \subseteq timers
      /\ MastersFinish({m}, listed, timers)
      /\ timeouted' \subseteq timeouted \cup {m}
  BY <1>1, <1>2
<1>4. registeredMasters' = registeredMasters \ {m}
  BY <1>3 DEF MastersFinish
<1> HIDE DEF timers
<1> QED BY <1>1, <1>2, <1>3, <1>4, MasterFinishes

LEMMA ReadMasterRefusalStep ==
  ASSUME EngineInv, NEW m \in Masters, ReadMasterRefusal(m)
  PROVE  EngineInv'
<1> USE DEF ReadMasterRefusal
<1>1. MasterFacts'
  BY DEF EngineInv, TypeOK, MasterFacts, UnchallengedAreRegistered, ChallengedAreTimed,
         ChallengedTogether, TimeoutedAreGone
<1>2. ServerFacts'
  BY QueuesKept DEF serverVars, queueVars, EngineInv, TypeOK
<1>3. FlagFacts' /\ OtherFacts'
  <2>1. FlagFacts'
    BY FlagsKept
  <2>2. OtherFacts'
    BY Regroup DEF OtherFacts, serverVars
  <2> QED BY <2>1, <2>2
<1>4. SleepsOnlyWhenIdle' /\ ButtonMeansIdle'
  BY DEF EngineInv, SleepsOnlyWhenIdle, ButtonMeansIdle, hasAnyServers,
         serverVars, queueVars, uiVars
<1> QED BY <1>1, <1>2, <1>3, <1>4, RegroupNext

-----------------------------------------------------------------------------
LEMMA StutterStep == ASSUME EngineInv, UNCHANGED vars PROVE EngineInv'
<1> USE DEF vars
<1>1. ServerFacts' /\ (~hasAnyServers => ~hasAnyServers')
  BY QueuesKept DEF serverVars, queueVars, EngineInv, TypeOK
<1>2. OtherFacts'
  BY Regroup DEF OtherFacts, serverVars
<1>3. UNCHANGED <<masterVars, bSleeping, getServersEnabled, totalRefresh, autoTimer>>
      /\ isRefreshing' \subseteq isRefreshing /\ autoTimer' \in BOOLEAN
  BY Regroup DEF serverVars, uiVars, FlagFacts
<1> QED BY <1>1, <1>2, <1>3, QuietTurn

LEMMA NextKeepsInv == EngineInv /\ [Next]_vars => EngineInv'
<1> SUFFICES ASSUME EngineInv, [Next]_vars PROVE EngineInv'
  OBVIOUS
<1>1. ASSUME NEW s \in Servers, RefreshServer(s) \/ DetectServer(s) PROVE EngineInv'
  BY <1>1, RegisterOneStep
<1>2. ASSUME NEW s \in Servers, DestroyServer(s) PROVE EngineInv'
  BY <1>2, DestroyServerStep
<1>3. ASSUME NEW enabled \in SUBSET Masters, GetServers(enabled) PROVE EngineInv'
  BY <1>3, GetServersStep
<1>4. ASSUME NEW starting \in SUBSET Servers, SendServerQueries(starting) PROVE EngineInv'
  BY <1>4, SendServerQueriesStep
<1>5. CASE EndServerQueries
  BY <1>5, EndServerQueriesStep
<1>6. ASSUME NEW s \in Servers, ResendDelayPasses(s) \/ CoolDown(s) PROVE EngineInv'
  BY <1>6, TimePassesStep
<1>7. ASSUME NEW s \in Servers, NEW answer \in ServerAnswers,
             ReadFollowUp(s, answer) \/ ReadFinalAnswer(s, answer)
      PROVE  EngineInv'
  BY <1>7, ReadFollowUpStep, ReadFinalAnswerStep
<1>8. CASE SendMasterQueries
  BY <1>8, SendMasterQueriesStep
<1>9. ASSUME NEW m \in Masters, NEW listed \in SUBSET Servers,
             ReadMasterList(m, listed) \/ MasterTimeout(m, listed)
      PROVE  EngineInv'
  BY <1>9, ReadMasterListStep, MasterTimeoutStep
<1>10. ASSUME NEW m \in Masters, ReadMasterRefusal(m) PROVE EngineInv'
  BY <1>10, ReadMasterRefusalStep
<1>11. CASE ModalDialog
  BY <1>11, TimePassesStep
<1>12. CASE UNCHANGED vars
  BY <1>12, StutterStep
<1>13. {} \in SUBSET Servers /\ \A s \in Servers : {s} \in SUBSET Servers
  OBVIOUS
<1> QED
  BY <1>1, <1>2, <1>3, <1>4, <1>5, <1>6, <1>7, <1>8, <1>9, <1>10, <1>11, <1>12, <1>13
  DEF Next

(* The engine's bookkeeping holds in every reachable state.                *)
THEOREM EngineSafe == Spec => []EngineInv
<1>1. Init => EngineInv
  BY InitInv
<1>2. EngineInv /\ [Next]_vars => EngineInv'
  BY NextKeepsInv
<1> QED BY <1>1, <1>2, PTL DEF Spec

(* Every variable keeps to its type.                                       *)
THEOREM TypeCorrect == Spec => []TypeOK
<1>1. EngineInv => TypeOK
  BY DEF EngineInv
<1> QED BY <1>1, EngineSafe, PTL

(* No refresh is lost by the engine and none is held twice; while any is   *)
(* going on the next turn of sendServerQueries() is scheduled.             *)
THEOREM NoRefreshLost == Spec => [](RefreshBookkeeping /\ QueriesScheduled)
<1>1. EngineInv => RefreshBookkeeping /\ QueriesScheduled
  BY DEF EngineInv
<1> QED BY <1>1, EngineSafe, PTL

(* sendMasterQueries() never meets a master that the hash does not hold,   *)
(* and every master that was asked has its timer running.                  *)
THEOREM MastersAccounted == Spec => []MastersAreTracked
<1>1. EngineInv => MastersAreTracked
  BY DEF EngineInv, MastersAreTracked
<1> QED BY <1>1, EngineSafe, PTL

(* The engine sleeps only when idle, and "Get Servers" is offered only     *)
(* when no round is under way.                                             *)
THEOREM SleepIsIdle == Spec => [](SleepsOnlyWhenIdle /\ ButtonMeansIdle)
<1>1. EngineInv => SleepsOnlyWhenIdle /\ ButtonMeansIdle
  BY DEF EngineInv
<1> QED BY <1>1, EngineSafe, PTL

-----------------------------------------------------------------------------
(* A server that is refreshing is refused by registerServer().             *)
LEMMA RefreshingIsRefused ==
  ASSUME EngineInv, NEW S
  PROVE  NewlyRegistered(S) \cap isRefreshing = {}
BY DEF EngineInv, RefreshBookkeeping, NewlyRegistered, isServerRegistered, Live

LEMMA RegisteringKeepsTries ==
  ASSUME EngineInv, NEW S, NEW purged, RegisterServers(S, purged)
  PROVE  \A s \in isRefreshing : triesLeft'[s] <= triesLeft[s]
BY RefreshingIsRefused DEF RegisterServers, EngineInv, TypeOK, MaxAttempts

(* A refresh that goes on never gets new tries.                            *)
THEOREM TriesRunOut == Spec => TriesOnlyRunOut
<1> DEFINE NoneGained ==
      \A s \in isRefreshing \cap isRefreshing' : triesLeft'[s] <= triesLeft[s]
<1>1. EngineInv /\ [Next]_vars => [NoneGained]_vars
  <2> SUFFICES ASSUME EngineInv, [Next]_vars PROVE NoneGained
    OBVIOUS
  <2>1. triesLeft \in [Servers -> 0..MaxAttempts] /\ isRefreshing \subseteq Servers
    BY DEF EngineInv, TypeOK
  <2>2. ASSUME UNCHANGED triesLeft PROVE NoneGained
    BY <2>1, <2>2 DEF MaxAttempts
  <2>3. ASSUME NEW T, triesLeft' = TriesAfter(T) PROVE NoneGained
    BY <2>1, <2>3, TriesAfterBounded
  <2>4. ASSUME NEW S, NEW purged, RegisterServers(S, purged) PROVE NoneGained
    BY <2>4, RegisteringKeepsTries
  <2>5. ASSUME NEW s \in Servers, RefreshServer(s) \/ DetectServer(s) PROVE NoneGained
    BY <2>4, <2>5 DEF RefreshServer, DetectServer
  <2>6. ASSUME NEW s \in Servers, DestroyServer(s) PROVE NoneGained
    BY <2>1, <2>6 DEF DestroyServer, MaxAttempts
  <2>7. ASSUME NEW enabled \in SUBSET Masters, GetServers(enabled) PROVE NoneGained
    BY <2>4, <2>7 DEF GetServers
  <2>8. ASSUME NEW starting \in SUBSET Servers, SendServerQueries(starting) PROVE NoneGained
    BY <2>3, <2>8 DEF SendServerQueries
  <2>9. ASSUME NEW s \in Servers, NEW answer \in ServerAnswers,
               ReadFollowUp(s, answer) \/ ReadFinalAnswer(s, answer)
        PROVE  NoneGained
    <3>1. triesLeft' = TriesAfter({s}) \/ UNCHANGED triesLeft
      BY <2>9 DEF ReadFollowUp, ReadFinalAnswer
    <3> QED BY <3>1, <2>2, <2>3
  <2>10. ASSUME NEW m \in Masters, NEW listed \in SUBSET Servers,
                ReadMasterList(m, listed) \/ MasterTimeout(m, listed)
         PROVE  NoneGained
    BY <2>4, <2>10 DEF ReadMasterList, MasterTimeout, MastersFinish
  <2>11. ASSUME \/ EndServerQueries \/ SendMasterQueries \/ ModalDialog \/ UNCHANGED vars
                \/ \E s \in Servers : ResendDelayPasses(s) \/ CoolDown(s)
                \/ \E m \in Masters : ReadMasterRefusal(m)
         PROVE  NoneGained
    <3>1. UNCHANGED triesLeft
      BY <2>11 DEF EndServerQueries, SendMasterQueries, ModalDialog, vars, ResendDelayPasses,
                   CoolDown, ReadMasterRefusal, serverVars
    <3> QED BY <3>1, <2>2
  <2>12. {} \in SUBSET Servers /\ \A s \in Servers : {s} \in SUBSET Servers
    OBVIOUS
  <2> HIDE DEF NoneGained
  <2> QED
    BY <2>5, <2>6, <2>7, <2>8, <2>9, <2>10, <2>11, <2>12 DEF Next
<1> QED BY <1>1, EngineSafe, PTL DEF Spec, TriesOnlyRunOut

-----------------------------------------------------------------------------
(* What the signals of a turn do to the engine's sleep and to the button.  *)
LEMMA SignalEffects ==
  ASSUME EngineInv, NEW concludes \in BOOLEAN, NEW wakes \in BOOLEAN,
         NEW blocks \in BOOLEAN, Signals(concludes, wakes, blocks)
  PROVE  /\ bSleeping' <=> concludes \/ (bSleeping /\ ~wakes)
         /\ getServersEnabled' <=> concludes \/ (getServersEnabled /\ ~blocks)
<1>1. bSleeping \in BOOLEAN /\ getServersEnabled \in BOOLEAN
  BY DEF EngineInv, TypeOK
<1> QED BY <1>1 DEF Signals

(* Registering servers never takes back a scheduled turn, and finds the    *)
(* queues empty when it has to wake the engine.                            *)
LEMMA RegistrationSchedules ==
  ASSUME EngineInv, NEW S, NEW purged, RegisterServers(S, purged)
  PROVE  /\ serverTicks > 0 => serverTicks' > 0
         /\ StartsChain(S, purged) => serverTicks' > 0
         /\ bSleeping /\ NewlyRegistered(S) # {} => StartsChain(S, purged)
<1>1. serverTicks \in Nat
  BY DEF EngineInv, TypeOK
<1>2. bSleeping => ~hasAnyServers
  BY DEF EngineInv, SleepsOnlyWhenIdle
<1> QED BY <1>1, <1>2 DEF RegisterServers, StartsChain

(* A turn that takes neither a scheduled turn nor a master away and tells  *)
(* nobody leaves the end of the round ahead.                               *)
LEMMA QuietTurnKeepsTheEnd ==
  ASSUME EndIsAhead, UNCHANGED <<bSleeping, getServersEnabled, serverTicks, registeredMasters>>
  PROVE  EndIsAhead'
BY DEF EndIsAhead

LEMMA RegisteringOneKeepsTheEnd ==
  ASSUME EngineInv, EndIsAhead, NEW s \in Servers, RefreshServer(s) \/ DetectServer(s)
  PROVE  EndIsAhead'
<1> DEFINE new == NewlyRegistered({s})
           wakes == StartsChain({s}, FALSE)
<1>1. /\ RegisterServers({s}, FALSE)
      /\ Signals(FALSE, wakes, Blocks(new))
      /\ UNCHANGED registeredMasters
  BY DEF RefreshServer, DetectServer, masterVars
<1>2. /\ serverTicks > 0 => serverTicks' > 0
      /\ wakes => serverTicks' > 0
      /\ bSleeping /\ new # {} => wakes
  BY <1>1, RegistrationSchedules
<1>3. Blocks(new) => new # {}
  BY DEF Blocks
<1>4. wakes \in BOOLEAN /\ Blocks(new) \in BOOLEAN /\ FALSE \in BOOLEAN
  BY FlagsAreBoolean
<1> HIDE DEF new, wakes
<1>5. /\ bSleeping' <=> bSleeping /\ ~wakes
      /\ getServersEnabled' <=> getServersEnabled /\ ~Blocks(new)
  BY <1>1, <1>4, SignalEffects
<1> QED BY <1>1, <1>2, <1>3, <1>5 DEF EndIsAhead

LEMMA GetServersKeepsTheEnd ==
  ASSUME EngineInv, EndIsAhead, NEW enabled \in SUBSET Masters, GetServers(enabled)
  PROVE  EndIsAhead'
<1> DEFINE listed == alive \cap Special
           new == enabled \ registeredMasters
<1>1. PICK purged \in BOOLEAN :
        /\ RegisterServers(listed, purged)
        /\ Signals(FALSE, StartsChain(listed, purged) \/ StartsMasterTick(new), new # {})
  BY DEF GetServers, PurgeChoices
<1>2. registeredMasters' = registeredMasters \cup new
  BY DEF GetServers
<1> HIDE DEF listed, new
<1>3. /\ serverTicks > 0 => serverTicks' > 0
      /\ StartsChain(listed, purged) => serverTicks' > 0
  BY <1>1, RegistrationSchedules
<1>4. /\ StartsMasterTick(new) => new # {}
      /\ bSleeping /\ new # {} => StartsMasterTick(new)
  BY DEF StartsMasterTick, EngineInv, SleepsOnlyWhenIdle
<1>5. /\ bSleeping' <=> bSleeping /\ ~(StartsChain(listed, purged) \/ StartsMasterTick(new))
      /\ getServersEnabled' <=> getServersEnabled /\ ~(new # {})
  <2>1. (StartsChain(listed, purged) \/ StartsMasterTick(new)) \in BOOLEAN
        /\ (new # {}) \in BOOLEAN /\ FALSE \in BOOLEAN
    OBVIOUS
  <2> QED BY <1>1, <2>1, SignalEffects
<1> QED BY <1>2, <1>3, <1>4, <1>5 DEF EndIsAhead

(* The last turn of the chain concludes the round or leaves it to the      *)
(* masters.                                                                *)
LEMMA EndOfChainKeepsTheEnd ==
  ASSUME EngineInv, EndIsAhead, EndServerQueries
  PROVE  EndIsAhead'
<1> DEFINE concludes == ~AnythingToRefresh({}, {}, registeredMasters, unchallengedMasters)
<1>1. Signals(concludes, FALSE, FALSE) /\ UNCHANGED registeredMasters
  BY DEF EndServerQueries, masterVars
<1>2. concludes \in BOOLEAN /\ FALSE \in BOOLEAN /\ (~concludes => registeredMasters # {})
  BY DEF AnythingToRefresh, EngineInv, UnchallengedAreRegistered
<1> HIDE DEF concludes
<1>3. /\ bSleeping' <=> concludes \/ bSleeping
      /\ getServersEnabled' <=> concludes \/ getServersEnabled
  BY <1>1, <1>2, SignalEffects
<1> QED BY <1>1, <1>2, <1>3 DEF EndIsAhead

(* A master that is done with concludes the round, leaves it to the other  *)
(* masters or to the chain of queries, which its list may just have        *)
(* started.                                                                *)
LEMMA FinishKeepsTheEnd ==
  ASSUME EngineInv, EndIsAhead, NEW m \in registeredMasters \ unchallengedMasters,
         NEW listed \in SUBSET Unlisted, NEW timers, MastersFinish({m}, listed, timers)
  PROVE  EndIsAhead'
<1> DEFINE concludes ==
      /\ {m} # {}
      /\ listed = {}
      /\ ~AnythingToRefresh(unchallengedServers, refreshingServers,
                            registeredMasters \ {m}, unchallengedMasters)
<1>1. /\ RegisterServers(listed, FALSE)
      /\ registeredMasters' = registeredMasters \ {m}
      /\ Signals(concludes, StartsChain(listed, FALSE), Blocks(listed))
  BY Zenon DEF MastersFinish
<1>2. concludes \in BOOLEAN
  OBVIOUS
<1>3. unchallengedMasters = {} /\ ~bSleeping
  BY DEF EngineInv, ChallengedTogether, SleepsOnlyWhenIdle
<1>4. ASSUME ~concludes PROVE serverTicks' > 0 \/ registeredMasters' # {}
  <2>1. /\ serverTicks > 0 => serverTicks' > 0
        /\ StartsChain(listed, FALSE) => serverTicks' > 0
    BY <1>1, RegistrationSchedules
  <2>2. CASE listed = {}
    <3>1. hasAnyServers \/ registeredMasters \ {m} # {}
      BY <1>3, <1>4, <2>2 DEF AnythingToRefresh, hasAnyServers
    <3> QED BY <1>1, <2>1, <3>1 DEF EngineInv, QueriesScheduled
  <2>3. CASE listed # {}
    <3>1. NewlyRegistered(listed) = listed
      BY DEF NewlyRegistered, Unlisted, isServerRegistered, EngineInv, TypeOK
    <3>2. hasAnyServers \/ StartsChain(listed, FALSE)
      BY <2>3, <3>1 DEF StartsChain
    <3> QED BY <2>1, <3>2 DEF EngineInv, QueriesScheduled
  <2> QED BY <2>2, <2>3
<1>5. StartsChain(listed, FALSE) \in BOOLEAN /\ Blocks(listed) \in BOOLEAN
  BY FlagsAreBoolean
<1> HIDE DEF concludes
<1>6. /\ bSleeping' <=> concludes
      /\ concludes => getServersEnabled'
  BY <1>1, <1>2, <1>3, <1>5, SignalEffects
<1> QED BY <1>4, <1>6 DEF EndIsAhead

LEMMA NextKeepsTheEnd ==
  ASSUME EngineInv, EndIsAhead, [Next]_vars
  PROVE  EndIsAhead' \/ \E m \in Masters : ReadMasterRefusal(m)
<1>1. ASSUME NEW s \in Servers, RefreshServer(s) \/ DetectServer(s) PROVE EndIsAhead'
  BY <1>1, RegisteringOneKeepsTheEnd
<1>2. ASSUME NEW enabled \in SUBSET Masters, GetServers(enabled) PROVE EndIsAhead'
  BY <1>2, GetServersKeepsTheEnd
<1>3. CASE EndServerQueries
  BY <1>3, EndOfChainKeepsTheEnd
<1>4. ASSUME NEW m \in Masters, NEW listed \in SUBSET Servers,
             ReadMasterList(m, listed) \/ MasterTimeout(m, listed)
      PROVE  EndIsAhead'
  <2>1. CASE ReadMasterList(m, listed)
    <3>1. /\ m \in registeredMasters \ unchallengedMasters /\ listed \in SUBSET Unlisted
          /\ MastersFinish({m}, listed, challengeTimers)
      BY <2>1 DEF ReadMasterList
    <3> QED BY <3>1, FinishKeepsTheEnd
  <2>2. CASE MasterTimeout(m, listed)
    <3> DEFINE timers == challengeTimers \ {m}
    <3>1. /\ m \in challengeTimers /\ listed \in SUBSET Unlisted
          /\ MastersFinish(TimedOut(timers), listed, timers)
      BY <2>2 DEF MasterTimeout
    <3>2. TimedOut(timers) = {m} /\ m \in registeredMasters \ unchallengedMasters
      BY <3>1, TimeoutHitsOne
    <3>3. MastersFinish({m}, listed, timers)
      BY <3>1, <3>2
    <3> HIDE DEF timers
    <3> QED BY <3>1, <3>2, <3>3, FinishKeepsTheEnd
  <2> QED BY <1>4, <2>1, <2>2
<1>5. ASSUME \/ \E s \in Servers : DestroyServer(s) \/ ResendDelayPasses(s) \/ CoolDown(s)
             \/ ModalDialog
             \/ \E starting \in SUBSET Servers : SendServerQueries(starting)
             \/ \E s \in Servers, answer \in ServerAnswers :
                  ReadFollowUp(s, answer) \/ ReadFinalAnswer(s, answer)
             \/ SendMasterQueries
             \/ UNCHANGED vars
      PROVE  EndIsAhead'
  <2>1. UNCHANGED <<bSleeping, getServersEnabled, serverTicks, registeredMasters>>
    BY <1>5 DEF DestroyServer, ResendDelayPasses, CoolDown, ModalDialog, SendServerQueries,
                ReadFollowUp, ReadFinalAnswer, SendMasterQueries, vars, queueVars,
                masterVars, uiVars
  <2> QED BY <2>1, QuietTurnKeepsTheEnd
<1>6. {} \in SUBSET Servers /\ \A s \in Servers : {s} \in SUBSET Servers
  OBVIOUS
<1> QED BY <1>1, <1>2, <1>3, <1>4, <1>5, <1>6 DEF Next

(* Only a refusal can leave the engine awake with nothing scheduled that   *)
(* would put it to sleep and bring "Get Servers" back.                     *)
THEOREM OnlyARefusalStrands == Spec => OnlyRefusalsLoseTheEnd
<1>1. EngineInv /\ [Next]_vars =>
        [EndIsAhead => EndIsAhead' \/ \E m \in Masters : ReadMasterRefusal(m)]_vars
  BY NextKeepsTheEnd
<1> QED BY <1>1, EngineSafe, PTL DEF Spec, OnlyRefusalsLoseTheEnd

(* While no master refuses, every round that goes on has its end ahead.    *)
THEOREM RoundsAreConcluded == ASSUME NobodyRefuses PROVE Spec => []EndIsAhead
<1>1. Init => EndIsAhead
  BY DEF Init, EndIsAhead
<1>2. EngineInv /\ EndIsAhead /\ [Next]_vars => EndIsAhead'
  BY NextKeepsTheEnd DEF NobodyRefuses, ReadMasterRefusal
<1> QED BY <1>1, <1>2, EngineSafe, PTL DEF Spec

-----------------------------------------------------------------------------
(* Refinement: a turn that asks for nothing and ends nothing is a stutter, *)
(* every other one is a step of the service.                               *)
LEMMA RegisteringIsAsking ==
  ASSUME EngineInv, NEW S \in SUBSET Servers, NEW M \in SUBSET Masters,
         M \cap registeredMasters = {}, S \cap isRefreshing = {},
         isRefreshing' = isRefreshing \cup S,
         registeredMasters' = registeredMasters \cup M,
         bSleeping' = (bSleeping /\ S \cup M = {})
  PROVE  [Service!Next]_Service!vars
<1>1. CASE S \cup M = {}
  <2>1. isRefreshing' = isRefreshing /\ registeredMasters' = registeredMasters
    BY <1>1
  <2>2. bSleeping \in BOOLEAN
    BY DEF EngineInv, TypeOK
  <2>3. bSleeping' = bSleeping
    BY <1>1, <2>2, Zenon
  <2> QED BY <2>1, <2>3 DEF Service!vars
<1>2. CASE S \cup M # {}
  <2>1. bSleeping' = FALSE
    BY <1>2
  <2>2. Service!Ask(S, M)
    BY <1>2, <2>1 DEF Service!Ask
  <2> QED BY <2>2 DEF Service!Next
<1> QED BY <1>1, <1>2

LEMMA EndingIsAStep ==
  ASSUME EngineInv, isRefreshing' \subseteq isRefreshing,
         UNCHANGED <<registeredMasters, bSleeping>>
  PROVE  [Service!Next]_Service!vars
<1>1. Service!EndRefreshes(isRefreshing \ isRefreshing')
  BY DEF Service!EndRefreshes
<1>2. (isRefreshing \ isRefreshing') \in SUBSET Servers
  BY DEF EngineInv, TypeOK
<1> QED BY <1>1, <1>2 DEF Service!Next

LEMMA ListIsAStep ==
  ASSUME EngineInv, NEW m \in registeredMasters, NEW listed \in SUBSET Servers,
         isRefreshing' = isRefreshing \cup NewlyRegistered(listed),
         registeredMasters' = registeredMasters \ {m},
         bSleeping' \in BOOLEAN,
         bSleeping' => isRefreshing' = {} /\ registeredMasters' = {}
  PROVE  [Service!Next]_Service!vars
<1>1. Service!EndLists({m}, NewlyRegistered(listed))
  BY RefreshingIsRefused DEF Service!EndLists
<1>2. {m} \in SUBSET Masters /\ NewlyRegistered(listed) \in SUBSET Servers
  BY DEF EngineInv, TypeOK, NewlyRegistered
<1> QED BY <1>1, <1>2 DEF Service!Next

(* New servers or masters wake the engine, and nothing else does.          *)
LEMMA WakesForWork ==
  ASSUME EngineInv, NEW S, NEW purged \in BOOLEAN, bSleeping
  PROVE  StartsChain(S, purged) <=> NewlyRegistered(S) # {}
BY DEF StartsChain, EngineInv, SleepsOnlyWhenIdle, hasAnyServers, Live

LEMMA NextIsAStep ==
  ASSUME EngineInv, [Next]_vars PROVE [Service!Next]_Service!vars
<1>1. ASSUME NEW s \in Servers, RefreshServer(s) \/ DetectServer(s)
      PROVE  [Service!Next]_Service!vars
  <2> DEFINE new == NewlyRegistered({s})
  <2>1. /\ RegisterServers({s}, FALSE)
        /\ Signals(FALSE, StartsChain({s}, FALSE), Blocks(NewlyRegistered({s})))
        /\ registeredMasters' = registeredMasters
    BY <1>1 DEF RefreshServer, DetectServer, masterVars
  <2>2. bSleeping' = (bSleeping /\ ~StartsChain({s}, FALSE)) /\ bSleeping \in BOOLEAN
    BY <2>1 DEF Signals, EngineInv, TypeOK
  <2>3. bSleeping' = (bSleeping /\ new \cup {} = {})
    BY <2>2, WakesForWork
  <2>4. isRefreshing' = isRefreshing \cup new /\ new \cap isRefreshing = {} /\ new \in SUBSET Servers
    BY <2>1, RefreshingIsRefused DEF RegisterServers, NewlyRegistered
  <2> HIDE DEF new
  <2> QED BY <2>1, <2>3, <2>4, RegisteringIsAsking
<1>2. ASSUME NEW enabled \in SUBSET Masters, GetServers(enabled)
      PROVE  [Service!Next]_Service!vars
  <2> DEFINE listed == alive \cap Special
             new == NewlyRegistered(listed)
             masters == enabled \ registeredMasters
  <2>1. PICK purged \in BOOLEAN :
          /\ RegisterServers(listed, purged)
          /\ Signals(FALSE, StartsChain(listed, purged) \/ StartsMasterTick(masters),
                     masters # {})
    BY <1>2 DEF GetServers, PurgeChoices
  <2>2. registeredMasters' = registeredMasters \cup masters /\ masters \in SUBSET Masters
        /\ masters \cap registeredMasters = {}
    BY <1>2 DEF GetServers
  <2>3. bSleeping' = (bSleeping /\ ~(StartsChain(listed, purged) \/ StartsMasterTick(masters)))
        /\ bSleeping \in BOOLEAN
    BY <2>1 DEF Signals, EngineInv, TypeOK
  <2>4. bSleeping => (StartsMasterTick(masters) <=> masters # {})
    BY DEF StartsMasterTick, EngineInv, SleepsOnlyWhenIdle
  <2>5. bSleeping => (StartsChain(listed, purged) <=> new # {})
    BY WakesForWork
  <2> HIDE DEF masters
  <2>6. isRefreshing' = isRefreshing \cup new /\ new \cap isRefreshing = {} /\ new \in SUBSET Servers
    BY <2>1, RefreshingIsRefused DEF RegisterServers, NewlyRegistered, EngineInv, TypeOK
  <2> HIDE DEF new
  <2>7. bSleeping' = (bSleeping /\ new \cup masters = {})
    BY <2>3, <2>4, <2>5
  <2> QED BY <2>2, <2>6, <2>7, RegisteringIsAsking
<1>3. ASSUME isRefreshing' \subseteq isRefreshing, UNCHANGED <<registeredMasters, bSleeping>>
      PROVE  [Service!Next]_Service!vars
  BY <1>3, EndingIsAStep
<1>4. ASSUME NEW s \in Servers,
             \/ DestroyServer(s) \/ ResendDelayPasses(s) \/ CoolDown(s)
             \/ \E answer \in ServerAnswers : ReadFollowUp(s, answer) \/ ReadFinalAnswer(s, answer)
      PROVE  [Service!Next]_Service!vars
  BY <1>3, <1>4 DEF DestroyServer, ResendDelayPasses, CoolDown, ReadFollowUp, ReadFinalAnswer,
                    masterVars, serverVars
<1>5. ASSUME NEW starting, SendServerQueries(starting)
      PROVE  [Service!Next]_Service!vars
  BY <1>3, <1>5 DEF SendServerQueries, masterVars
<1>6. CASE SendMasterQueries \/ ModalDialog \/ UNCHANGED vars
  BY <1>3, <1>6 DEF SendMasterQueries, ModalDialog, vars, masterVars, serverVars
<1>7. CASE EndServerQueries
  <2> DEFINE concludes == ~AnythingToRefresh({}, {}, registeredMasters, unchallengedMasters)
  <2>1. /\ bSleeping' = (concludes \/ bSleeping) /\ bSleeping \in BOOLEAN
        /\ UNCHANGED <<isRefreshing, registeredMasters>>
    BY <1>7 DEF EndServerQueries, Signals, serverVars, masterVars, EngineInv, TypeOK
  <2>2. isRefreshing = {}
    BY <1>7 DEF EndServerQueries, EngineInv, RefreshBookkeeping
  <2>3. CASE ~concludes
    BY <1>3, <2>1, <2>3
  <2>4. CASE concludes
    <3>1. registeredMasters = {} /\ bSleeping' = TRUE
      BY <2>1, <2>4 DEF AnythingToRefresh
    <3> QED BY <2>1, <2>2, <3>1 DEF Service!Sleep, Service!Next
  <2> QED BY <2>3, <2>4
<1>8. ASSUME NEW m \in Masters, NEW listed \in SUBSET Servers, ReadMasterList(m, listed)
      PROVE  [Service!Next]_Service!vars
  <2>1. m \in registeredMasters /\ registeredMasters' = registeredMasters \ {m}
    BY <1>8 DEF ReadMasterList, MastersFinish
  <2> QED BY <1>8, <2>1, ReadMasterListStep, ListIsAStep
<1>9. ASSUME NEW m \in Masters, NEW listed \in SUBSET Servers, MasterTimeout(m, listed)
      PROVE  [Service!Next]_Service!vars
  BY <1>9, MasterTimeoutStep, ListIsAStep
<1>10. ASSUME NEW m \in Masters, ReadMasterRefusal(m)
       PROVE  [Service!Next]_Service!vars
  <2>1. /\ m \in registeredMasters /\ registeredMasters' = registeredMasters \ {m}
        /\ isRefreshing' = isRefreshing \cup NewlyRegistered({}) /\ bSleeping' = bSleeping
    BY <1>10 DEF ReadMasterRefusal, serverVars, NewlyRegistered
  <2>2. bSleeping = FALSE
    BY <2>1 DEF EngineInv, SleepsOnlyWhenIdle, TypeOK
  <2>3. {} \in SUBSET Servers /\ bSleeping' \in BOOLEAN /\ ~bSleeping'
    BY <2>1, <2>2
  <2> QED BY <2>1, <2>3, ListIsAStep
<1> QED
  BY <1>1, <1>2, <1>4, <1>5, <1>6, <1>7, <1>8, <1>9, <1>10 DEF Next

(* Every behaviour of the engine is one of the abstract service.           *)
THEOREM ImplementsService == Spec => ServiceSafe
<1>1. Init => Service!Init
  BY DEF Init, Service!Init
<1>2. EngineInv /\ [Next]_vars => [Service!Next]_Service!vars
  BY NextIsAStep
<1> QED BY <1>1, <1>2, EngineSafe, PTL DEF Spec, ServiceSafe, Service!Safe

=============================================================================
