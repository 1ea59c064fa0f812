---------------------------- MODULE ServerCounts ----------------------------
(***************************************************************************)
(* The server list and the numbers in the status bar: ServerList keeps one *)
(* entry per address, ServerListCountTracker follows its signals and those *)
(* of the servers on it, and adds and subtracts.  It never counts anew, so *)
(* a signal missed, repeated or taken at the wrong moment shows for ever.  *)
(*                                                                         *)
(* Server objects come from a master's list, from the custom servers of    *)
(* the configuration, or from a broadcast in the local network.  Each      *)
(* action is one event in the GUI thread, with all its signals delivered.  *)
(***************************************************************************)
EXTENDS Integers, FiniteSets

CONSTANTS
  FromMaster,   \* Server objects of the masters' lists
  FromConfig,   \* those of the configured custom servers
  FromLan,      \* those found by broadcast
  AddressOf,    \* engine, host and port of each
  Players,      \* who may play on a server
  Pins          \* does the user toggle "pin" in the list's menu?

Servers == FromMaster \cup FromConfig \cup FromLan

ASSUME ServersAssumption ==
  /\ IsFiniteSet(Servers)
  /\ IsFiniteSet(Players)
  /\ FromMaster \cap FromConfig = {}
  /\ FromLan \cap (FromMaster \cup FromConfig) = {}
  /\ Pins \in BOOLEAN

VARIABLES
  alive,           \* Server objects that exist
  custom,          \* those with the "custom" flag
  isRefreshing,
  players,         \* who plays there, as the latest answer said
  list,            \* servers on the list, connected to the tracker
  found,           \* BroadcastManager::servers
  countedServers,  \* ServerListCountTracker: servers whose players count
  numServers, numGenericServers, numLanServers, numCustomServers,
  numRefreshing,
  numPlayers

serverVars == <<alive, custom, isRefreshing, players>>
kindVars == <<numServers, numGenericServers, numLanServers, numCustomServers>>
stateVars == <<countedServers, numRefreshing, numPlayers>>
vars == <<serverVars, list, found, kindVars, stateVars>>

-----------------------------------------------------------------------------
(* Sets of servers and what there is to count in them                      *)

Lan(S) == S \cap FromLan  \* setLan() is called on those only
Generic(S, flagged) == S \ (flagged \cup FromLan)
PlayersOn(S, on) == UNION {{s} \X on[s] : s \in S}

Addresses(S) == {AddressOf[s] : s \in S}

(* registerServer() of the list on each server of S in some order: those   *)
(* findSameServer() finds no entry for are added ...                       *)
SetsOfNewAll(S, listed) == {S}
SetsOfNew(S, listed) ==
  {N \in SUBSET S :
     /\ Addresses(N) = Addresses(S) \ Addresses(listed)
     /\ \A s, t \in N : AddressOf[s] = AddressOf[t] => s = t}

(* ... and announced to the tracker.                                       *)
AnnouncedAll(S, new) == S
Announced(S, new) == new

-----------------------------------------------------------------------------
(* ServerListCountTracker.  The servers of "gone" are deregistered, then   *)
(* those of "new" registered, then the refresh of "begun" begins: the      *)
(* three things that one event does to the list, in the code's order.      *)

(* countServer() and discountServer().                                     *)
CountKinds(gone, new, flagged) ==
  /\ numServers' = numServers - Cardinality(gone) + Cardinality(new)
  /\ numGenericServers' = numGenericServers - Cardinality(Generic(gone, custom))
                            + Cardinality(Generic(new, flagged))
  /\ numLanServers' = numLanServers - Cardinality(Lan(gone)) + Cardinality(Lan(new))
  /\ numCustomServers' = numCustomServers - Cardinality(gone \cap custom)
                           + Cardinality(new \cap flagged)

(* deregisterServer() forgets that a server was counted.                   *)
StillCounted(gone) == countedServers \ gone

(* It discounts the players of a server that is not refreshing: those of   *)
(* one that is were discounted when its refresh began.                     *)
DiscountedAll(gone) == gone
Discounted(gone) == gone \ isRefreshing

(* deregisterServer(), registerServer() and onServerBegunRefreshing().  A  *)
(* server is registered as refreshing if its refresh began before, and not *)
(* as one of "begun".                                                      *)
CountStates(gone, new, begun) ==
  LET refreshing == (new \cap isRefreshing') \ begun
  IN /\ countedServers' = (StillCounted(gone) \cup (new \ refreshing)) \ begun
     /\ numRefreshing' = numRefreshing - Cardinality(gone \cap isRefreshing)
                           + Cardinality(refreshing) + Cardinality(begun)
     /\ numPlayers' = numPlayers - Cardinality(PlayersOn(Discounted(gone), players))
                        + Cardinality(PlayersOn(new \ refreshing, players))
                        - Cardinality(PlayersOn(begun, players))

(* onServerUpdated(), once the server's refresh is over.                   *)
Ignored(s) == s \in countedServers

CountUpdated(s) ==
  IF s \notin list \/ Ignored(s) THEN UNCHANGED stateVars
  ELSE /\ countedServers' = countedServers \cup {s}
       /\ numPlayers' = numPlayers + Cardinality(PlayersOn({s}, players'))
       /\ numRefreshing' = numRefreshing - 1

-----------------------------------------------------------------------------
(* Server objects                                                          *)

(* Newly built servers have no players; "flagged" of them are custom.      *)
Build(S, flagged) ==
  /\ S \cap alive = {}
  /\ alive' = alive \cup S
  /\ custom' = custom \cup flagged
  /\ UNCHANGED players

(* Refresher::registerServer() accepts servers that were never refreshed   *)
(* and are not refreshing; of the others it may refuse any as too recent.  *)
Accepted(fresh, old) ==
  {fresh \cup A : A \in SUBSET (old \ isRefreshing)}

-----------------------------------------------------------------------------
(* masterFinishedRefreshing(): the servers of a master's list begin to     *)
(* refresh, and then the list registers those with an address of their own.*)
FinishMaster(S) ==
  \E new \in SetsOfNew(S, list) :
    /\ S \subseteq FromMaster
    /\ Build(S, {})
    /\ isRefreshing' = isRefreshing \cup S
    /\ list' = list \cup new
    /\ CountKinds({}, Announced(S, new), {})
    /\ CountStates({}, Announced(S, new), {})
    /\ UNCHANGED found

(* finishConfiguration(): the custom servers are taken off the list and    *)
(* the configured ones registered; a listed server of the same address     *)
(* gets the flag instead.  All custom servers are refreshed.  At start-up  *)
(* the configured servers are registered and not refreshed.                *)
ReadConfig(S) ==
  LET gone == list \cap custom
      kept == list \ gone
      same == {s \in kept : AddressOf[s] \in Addresses(S)}
  IN \E new \in SetsOfNew(S, kept) :
     \E begun \in Accepted(new, same) \cup {{}} :
       /\ S \subseteq FromConfig
       /\ Build(S, S \cup same)
       /\ list' = kept \cup new
       /\ isRefreshing' = isRefreshing \cup begun
       /\ CountKinds(gone, Announced(S, new), S)
       /\ CountStates(gone, Announced(S, new), begun)
       /\ UNCHANGED found

(* A broadcast reveals a server: it is registered with the list, and its   *)
(* refresh begins.                                                         *)
DetectLan(s) ==
  \E new \in SetsOfNew({s}, list) :
    /\ s \in FromLan
    /\ AddressOf[s] \notin Addresses(found)
    /\ Build({s}, {})
    /\ found' = found \cup {s}
    /\ list' = list \cup new
    /\ isRefreshing' = isRefreshing \cup {s}
    /\ CountKinds({}, Announced({s}, new), {})
    /\ CountStates({}, Announced({s}, new), new)

(* Its broadcasts cease: removeServer() tells the tracker, whether or not  *)
(* the server is on the list.                                              *)
LoseLan(s) ==
  /\ s \in found
  /\ found' = found \ {s}
  /\ list' = list \ {s}
  /\ UNCHANGED serverVars
  /\ CountKinds({s}, {}, {})
  /\ CountStates({s}, {}, {})

(* getServers(): all but the custom and LAN servers leave the list, those  *)
(* that stay are refreshed.                                                *)
GetServers ==
  LET gone == Generic(list, custom)
  IN \E begun \in Accepted({}, list \ gone) :
       /\ list' = list \ gone
       /\ isRefreshing' = isRefreshing \cup begun
       /\ CountKinds(gone, {}, {})
       /\ CountStates(gone, {}, begun)
       /\ UNCHANGED <<alive, custom, players, found>>

RefreshSelected(S) ==
  \E begun \in Accepted({}, S) :
    /\ S \subseteq list
    /\ isRefreshing' = isRefreshing \cup begun
    /\ CountStates({}, {}, begun)
    /\ UNCHANGED <<alive, custom, players, list, found, kindVars>>

(* togglePinAllServers(): the flags change, the counts do not.             *)
TogglePins(S, toggleTo) ==
  /\ Pins
  /\ S \subseteq list
  /\ custom' = (IF toggleTo THEN custom \cup S ELSE custom \ S)
  /\ UNCHANGED <<alive, isRefreshing, players, list, found, kindVars, stateVars>>

(* refreshStops(): an answer, or none, ends the refresh.                   *)
RefreshStops(s, playing) ==
  /\ s \in isRefreshing
  /\ isRefreshing' = isRefreshing \ {s}
  /\ players' = [players EXCEPT ![s] = playing]
  /\ CountUpdated(s)
  /\ UNCHANGED <<alive, custom, list, found, kindVars>>

(* updated() once more: the name of the host was looked up, or the last    *)
(* try was used up by an answer that asked for another query.              *)
MayUpdateAlways(s) == TRUE
MayUpdate(s) == s \notin isRefreshing

UpdatedAgain(s) ==
  /\ s \in alive
  /\ MayUpdate(s)
  /\ UNCHANGED <<serverVars, list, found, kindVars>>
  /\ CountUpdated(s)

(* Nobody refers to the object any more.                                   *)
Destroy(s) ==
  /\ s \in alive \ (list \cup found)
  /\ alive' = alive \ {s}
  /\ custom' = custom \ {s}
  /\ isRefreshing' = isRefreshing \ {s}
  /\ players' = [players EXCEPT ![s] = {}]
  /\ UNCHANGED <<list, found, kindVars, stateVars>>

-----------------------------------------------------------------------------
Init ==
  /\ alive = {}
  /\ custom = {}
  /\ isRefreshing = {}
  /\ players = [s \in Servers |-> {}]
  /\ list = {}
  /\ found = {}
  /\ countedServers = {}
  /\ numServers = 0
  /\ numGenericServers = 0
  /\ numLanServers = 0
  /\ numCustomServers = 0
  /\ numRefreshing = 0
  /\ numPlayers = 0

Next ==
  \/ \E S \in SUBSET FromMaster : FinishMaster(S)
  \/ \E S \in SUBSET FromConfig : ReadConfig(S)
  \/ \E s \in FromLan : DetectLan(s)
  \/ \E s \in FromLan : LoseLan(s)
  \/ GetServers
  \/ \E S \in SUBSET Servers : RefreshSelected(S)
  \/ \E S \in SUBSET Servers, toggleTo \in BOOLEAN : TogglePins(S, toggleTo)
  \/ \E s \in Servers, playing \in SUBSET Players : RefreshStops(s, playing)
  \/ \E s \in Servers : UpdatedAgain(s)
  \/ \E s \in Servers : Destroy(s)

Spec == Init /\ [][Next]_vars

-----------------------------------------------------------------------------
(* Every variable keeps to its type.                                       *)
TypeOK ==
  /\ alive \in SUBSET Servers
  /\ custom \in SUBSET alive
  /\ isRefreshing \in SUBSET alive
  /\ players \in [Servers -> SUBSET Players]
  /\ list \in SUBSET alive
  /\ found \in SUBSET (alive \cap FromLan)
  /\ countedServers \in SUBSET list
  /\ numServers \in Int
  /\ numGenericServers \in Int
  /\ numLanServers \in Int
  /\ numCustomServers \in Int
  /\ numRefreshing \in Int
  /\ numPlayers \in Int

(* The list shows an address once, whichever of the three sources report   *)
(* it and in whatever order.                                               *)
OneEntryPerAddress ==
  \A s, t \in list : AddressOf[s] = AddressOf[t] => s = t

(* The status bar's number of servers is the number on the list.           *)
ServersCounted == numServers = Cardinality(list)

(* The progress of a refresh is computed from the number of servers on the *)
(* list that are being refreshed: it ends at 100% and not before.          *)
RefreshingCounted == numRefreshing = Cardinality(list \cap isRefreshing)

(* The number of players is that of the servers that are not refreshing,   *)
(* each counted once, with the players it has now.                         *)
PlayersCounted ==
  numPlayers = Cardinality(PlayersOn(list \ isRefreshing, players))

(* The tray icon's numbers of generic, LAN and custom servers.             *)
KindsCounted ==
  /\ numGenericServers = Cardinality(Generic(list, custom))
  /\ numLanServers = Cardinality(Lan(list))
  /\ numCustomServers = Cardinality(list \cap custom)

(* How far the numbers are from what is on the list.                       *)
ServersOff == numServers - Cardinality(list)
RefreshingOff == numRefreshing - Cardinality(list \cap isRefreshing)
PlayersOff == numPlayers - Cardinality(PlayersOn(list \ isRefreshing, players))
GenericOff == numGenericServers - Cardinality(Generic(list, custom))
LanOff == numLanServers - Cardinality(Lan(list))
CustomOff == numCustomServers - Cardinality(list \cap custom)

(* What the tracker is told wrongly: that a LAN server leaves which is not *)
(* on the list, its address being listed for another (serverlist.cpp:409). *)
(* And what it is not told: that a server it counted changes its kind.     *)
LosesUnlisted == \E s \in found \ list : s \notin found'
FlagChanges == \E s \in list \cap list' : ~(s \in custom <=> s \in custom')

(* No other step moves the number of servers away from the list, whatever  *)
(* servers share their addresses; that one leaves one server too few.      *)
ServersFollowed ==
  ServersOff' = IF LosesUnlisted THEN ServersOff - 1 ELSE ServersOff

ServersTracked == [][ServersFollowed]_vars

(* Nor the number of refreshing servers, through refreshes that are begun, *)
(* ended or cut off by a removal; that one does not leave it too high.     *)
RefreshesFollowed ==
  IF LosesUnlisted THEN RefreshingOff' \leq RefreshingOff
                   ELSE RefreshingOff' = RefreshingOff

RefreshesTracked == [][RefreshesFollowed]_vars

(* Nor the number of players, each counted once through repeated updates,  *)
(* refreshes and removals; that one does not leave it too high, either.    *)
PlayersFollowed ==
  IF LosesUnlisted THEN PlayersOff' \leq PlayersOff
                   ELSE PlayersOff' = PlayersOff

PlayersTracked == [][PlayersFollowed]_vars

FollowsTheList == ServersFollowed /\ RefreshesFollowed /\ PlayersFollowed

(* Nor do the tray icon's numbers move away from the kinds of servers on   *)
(* the list, except by a flag toggled or merged (serverlist.cpp:395) while *)
(* its server is listed, or by the loss of an unlisted LAN server.         *)
FollowKinds ==
  /\ FlagChanges \/ GenericOff' = GenericOff
  /\ LosesUnlisted \/ LanOff' = LanOff
  /\ FlagChanges \/ LosesUnlisted \/ CustomOff' = CustomOff

KindsFollow == [][FollowKinds]_vars

(* What holds for any servers: no number is needed to keep the list.       *)
ListInv ==
  /\ TypeOK
  /\ OneEntryPerAddress

(* What the steps of the numbers rest on: the players that count are those *)
(* of the servers on the list that are not refreshing; new objects are     *)
(* blank.                                                                  *)
CountedAreSettled == countedServers = list \ isRefreshing
UnbornAreBlank == \A s \in Servers \ alive : players[s] = {}

SettledInv ==
  /\ CountedAreSettled
  /\ UnbornAreBlank

=============================================================================
